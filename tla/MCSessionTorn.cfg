SPECIFICATION Spec
CONSTANTS
    p1 = p1
    p2 = p2
    p3 = p3
    Procs <- MCProcs
    SeqMod = 2
    Salts <- MCSalts
    MaxLogins = 2
    MaxSends = 2
INVARIANTS
    SendUsesOneSession
CHECK_DEADLOCK FALSE
