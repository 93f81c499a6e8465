SPECIFICATION FairSpec
CONSTANTS
    t1 = t1
    t2 = t2
    None = None
    Tasks = {t1}
    MaxEpoch = 2
    Limit = 2
    MaxRevision = 4
    MaxEvents = 3
PROPERTIES
    Recovers
