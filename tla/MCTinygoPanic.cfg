SPECIFICATION BleSpec
CONSTANTS
    Writers = {"w1", "w2"}
    Cap = 2
    SockCap = 1
    Handles = {14, 15}
    OurHandle = 14
    Threads = {"t1", "t2"}
INVARIANTS
    NoSendOnClosed
CHECK_DEADLOCK FALSE
