CONSTANTS
    Freshness = 4
    Fresh = 3
    Nothing = Nothing
    QueueCap = 3
    Ids = 3
    NoId = NoId
SPECIFICATION Spec
INVARIANTS
    PowerInv
    RequestInv
    LatestIsShown
