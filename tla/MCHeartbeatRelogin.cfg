SPECIFICATION Spec
CONSTANTS
    Procs = {p1, p2}
    MaxLogins = 2
    MaxCloses = 1
    CloseRaces = FALSE
    LoginAfterClose = TRUE
INVARIANTS
    HeartbeatWhileOpen
CHECK_DEADLOCK FALSE
