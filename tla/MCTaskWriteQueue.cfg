SPECIFICATION FairSpec
CONSTANTS
    admitted1 = admitted1
    admitted2 = admitted2
    writer1 = writer1
    writer2 = writer2
    None = None
    Admitted = {admitted1, admitted2}
    Writers = {writer1, writer2}
INVARIANTS
    Serializable
    IndexCurrent
    CloseDrains
PROPERTIES
    FailsClosed
    CallsReturn
CHECK_DEADLOCK FALSE
