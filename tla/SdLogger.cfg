CONSTANTS
    BufCap = 2
    QueueCap = 1
    MaxRows = 3
    MaxFaults = 2
    MaxLosses = 1
    Header = 0
SPECIFICATION LiveSpec
INVARIANTS
    LoggerInv
    LossIsBounded
    ShownIsTrue
PROPERTIES
    FlushedStaysAlways
    StopIsFlushed
    FlushedWhenIdle
