CONSTANTS
    TransactionId = {1, 2, 3}
    Command = {"StartSequence", "other"}
    Args = {"x"}
    Reason = {"None", "Timeout", "ProtocolError", "Busy"}
    MaxPending = 2
    ResultCapacity = 1
    None = None
    EmergencyStop = {ActuatorStop}
    StartSequence = "StartSequence"
    TimeResponse = TimeResponse
    UplinkCap = 1
    TxCap = 1
    SafetyCap = 1
    ResultCap = 1
    EmergencyCap = 1
    Uplinks <- MixedUplinks
    MissionPhase = {"Accepted", "Completed"}
    MaxUplinks = 3
    MaxGnssTimes = 1
SPECIFICATION LiveSpec
INVARIANTS
    PathInv
PROPERTIES
    StopsOvertakeAlways
    StopWaitsForNothingElse
    OpenIsConcluded
CHECK_DEADLOCK FALSE
