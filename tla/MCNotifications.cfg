SPECIFICATION MCSpec
CONSTANTS
    c1 = c1
    c2 = c2
    w1 = w1
    w2 = w2
    t1 = t1
    t2 = t2
    Calls <- MCCalls
    RawCap = 1
    OutCap = 1
    MaxLogins = 2
    MaxNotes = 2
    MaxRetransmits = 1
    Writers <- MCWriters
    Cap = 2
    SockCap = 1
    Handles <- MCHandles
    OurHandle = 14
    Threads <- MCThreads
INVARIANTS
    TypeOK
    ActiveIffOwned
    BleTypeOK
    NoSocketLeft
PROPERTIES
    ImplementsNotificationStream
    ImplementsRawChannel
CHECK_DEADLOCK FALSE
