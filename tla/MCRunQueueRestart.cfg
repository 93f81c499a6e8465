SPECIFICATION Spec
CONSTANTS
    MaxFaults = 0
    MaxCrashes = 1
CHECK_DEADLOCK FALSE
INVARIANTS
    AbandonedClaimRecovered
