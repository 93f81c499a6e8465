SPECIFICATION FairSpec
CONSTANTS
    t1 = t1
    t2 = t2
    None = None
    Tasks = {t1, t2}
    MaxEpoch = 3
    Limit = 2
    MaxRevision = 6
    MaxEvents = 3
INVARIANTS
    SentIsTrue
    OneSetPerRevision
PROPERTIES
    SetsMoveForward
    Converges
