SPECIFICATION ProgramFairSpec
CONSTANTS
    SigCap = 2
    MaxOthers = 3
    GetMayFail = TRUE
    OutCap = 2
INVARIANTS
    ProgramTypeOK
    ConnectLeavesNothing
    EnumeratesResolved
    TakenDownInOrder
PROPERTIES
    ProgramEnds
CHECK_DEADLOCK FALSE
