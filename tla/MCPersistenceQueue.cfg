SPECIFICATION FairSpec
CONSTANTS
    r1 = r1
    r2 = r2
    w1 = w1
    Requests <- MCRequests
    Writers <- MCWriters
    Sizes <- MCSizes
    Capacity = 2
    ByteCapacity = 3
    MaxSequence = 2
\* After the worker has exited and every caller has its answer the queue stops.
CHECK_DEADLOCK FALSE
INVARIANTS
    CapacityRespected
    AccountingExact
    WaitTruthful
    DrainedMeansDurable
PROPERTIES
    ImplementsLog
    CallersReturn
