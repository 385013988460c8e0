CONSTANTS
    Flag = {f1, f2, f3}
    Relayed = {f1, f2}
    SequenceModulus = 3
    RevisionModulus = 3
    None = None
SPECIFICATION EventSpec
INVARIANTS
    NoEventLost
PROPERTIES
    RepetitionIsQuietAlways
