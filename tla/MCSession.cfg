SPECIFICATION Spec
CONSTANTS
    p1 = p1
    p2 = p2
    p3 = p3
    Procs <- MCProcs3
    SeqMod = 2
    Salts <- MCSalts
    MaxLogins = 2
    MaxSends = 4
INVARIANTS
    TypeOK
    SnoInv
    SnoReusedOnlyAfterWrap
    NonceReusedOnlyAfterWrap
    KeysAgree
PROPERTIES
    NodeCanDecrypt
    ImplementsCommandChannel
SYMMETRY MCSymmetry
CHECK_DEADLOCK FALSE
