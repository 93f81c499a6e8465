SPECIFICATION Spec
CONSTANTS
    f1 = f1
    f2 = f2
    Files <- MCFiles
    Threshold = 2
    MaxWrites = 3
INVARIANTS
    AcknowledgedDurable
    RecoveryApplies
PROPERTIES
    ImplementsAtomicFiles
