CONSTANTS
    TransactionId = {1, 2, 3}
    Command = {"start", "stop"}
    Args = {"x"}
    Reason = {"None"}
    MaxPending = 2
    ResultCapacity = 2
    None = None
SPECIFICATION TrackerSpec
INVARIANTS
    TrackerInv
PROPERTIES
    FinalAnswerStandsAlways
    RefinesLedger
