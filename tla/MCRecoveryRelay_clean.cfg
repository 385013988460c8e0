CONSTANTS
    FragmentSize = 2
    ChunkSize = 3
    SequenceModulus = 4
    FileSize = 5
    Requests <- AllRequests
    TxCap = 2
    SafetyCap = 1
    RxCap = 2
    ChunkCap = 1
    Failures = {"Busy", "IoError"}
    MaxOffset = 100
    Lossy = FALSE
    MaxCommands = 2
    None = None
SPECIFICATION LiveSpec
INVARIANTS
    DumpIsWhole
PROPERTIES
    SessionEnds
CHECK_DEADLOCK FALSE
