SPECIFICATION MCSpec
CONSTANTS
    p1 = p1
    p2 = p2
    p3 = p3
    Procs <- MCProcs
    MaxLogins = 2
    MaxCloses = 2
    CloseRaces = FALSE
    LoginAfterClose = FALSE
    Interval = 25
    Timeout = 30
    Latency = 2
    MaxFailures = 1
INVARIANTS
    TypeOK
    AtMostOneLoop
    ClosedMeansStopped
    HeartbeatWhileOpen
    ClockTypeOK
    SilenceBounded
    DroppedOnlyAfterFailure
PROPERTIES
    CloseReturns
    KeepsReading
CHECK_DEADLOCK FALSE
