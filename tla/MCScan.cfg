SPECIFICATION FairSpec
CONSTANTS
    Devices <- MCDevices
    SigCap = 2
    OutCap = 1
    MaxEvents = 3
    Threads <- MCThreads
INVARIANTS
    TypeOK
    AccumulatedCurrent
    NothingLeft
PROPERTIES
    NewDeviceReported
    ClosedOnceCancelled
CHECK_DEADLOCK FALSE
