CONSTANTS
    Interval = 2
    Gap = 1
    MaxPrepare = 1
    MaxTransmit = 3
    Cap = 1
    Supply <- MixedAnswers
    NumberModulus = 4
    MayFailToBuild = TRUE
    None = None
SPECIFICATION LiveSpec
INVARIANTS
    SchedulerInv
PROPERTIES
    HighestFirstAlways
    HandedOnAlways
    PeriodicKeepsComing
    RecoveryKeepsComing
