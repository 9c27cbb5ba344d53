SPECIFICATION Spec
CONSTANTS
    SigCap = 2
    MaxOthers = 0
    GetMayFail = FALSE
INVARIANTS
    TimeoutMeansUnresolved
CHECK_DEADLOCK FALSE
