SPECIFICATION StatusesSpec
CONSTANTS
    Addresses = {9, 39}
    Mudroom = 9
    MaxOnAir = 2
    MaxReports = 2
INVARIANT
    OriginalStateRestored
CHECK_DEADLOCK FALSE
