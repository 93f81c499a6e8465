SPECIFICATION Spec
CONSTANTS
    MaxFaults = 1
    MaxCrashes = 1
\* A settled Task with its receipt is the end of the history.
CHECK_DEADLOCK FALSE
INVARIANTS
    ReceiptTruthful
    QueuedTaskHasIntent
PROPERTIES
    ItemSettles
