CONSTANTS
    Fresh = 2
    Late = 4
    HealthInterval = 2
    MaxTransmit = 2
    MaxDrain = 1
    Threshold = 3
    MaxAge = 9
    None = None
SPECIFICATION Spec
INVARIANTS
    OneRestart
    LinkInv
    HeldInTroubleOnly
