CONSTANTS
    CmdCap = 1
    LineCap = 1
    Stale = 1
    Period = 2
    Startup = 1
    AckTimeout = 1
    Settings = 2
    None = None
SPECIFICATION LiveSpec
INVARIANTS
    ReceiverInv
PROPERTIES
    LateIsQuietAlways
    OrderIsSent
    StartingEnds
    TimeIsAnswered
