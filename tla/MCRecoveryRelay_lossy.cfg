CONSTANTS
    FragmentSize = 2
    ChunkSize = 3
    SequenceModulus = 2
    FileSize = 5
    Requests <- AllRequests
    TxCap = 1
    SafetyCap = 1
    RxCap = 2
    ChunkCap = 1
    Failures = {"Busy", "InternalError"}
    MaxOffset = 2
    Lossy = TRUE
    MaxCommands = 3
    None = None
SPECIFICATION Spec
INVARIANTS
    RelayInv
    ResumeSkipsLittle
PROPERTIES
    FinalReportStandsAlways
    RefinesTransfer
CHECK_DEADLOCK FALSE
