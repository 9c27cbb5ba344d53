SPECIFICATION Spec
CONSTANTS
    Calls = {c1}
    RawCap = 2
    OutCap = 2
    MaxLogins = 1
    MaxNotes = 2
    MaxRetransmits = 1
INVARIANTS
    RetransmitsDropped
CHECK_DEADLOCK FALSE
