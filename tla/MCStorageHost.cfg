SPECIFICATION Spec
CONSTANTS
    c1 = c1
    c2 = c2
    h1 = h1
    o1 = o1
    o2 = o2
    s1 = s1
    s2 = s2
    None = None
    Callers <- MCCallers
    Handles <- MCHandles
    OpIds <- MCOpIds
    Slots <- MCSlots
    MaxFaults = 1
    MaxRestarts = 1
SYMMETRY Symmetry
INVARIANTS
    ReleasedIsSettled
PROPERTIES
    ImplementsOnce
CHECK_DEADLOCK FALSE
