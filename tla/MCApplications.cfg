SPECIFICATION ApplicationsSpec
CONSTANTS
    Offsets <- MCOffsets
    Editor = editor
    OtherWriters = {a, b}
    EditorID = 1
    EditorTarget = 9
    Edits <- MCEdits
    Others <- MCOthers
    LastSlot = 1
    MaxWrites = 3
    Wanted <- MCWanted
    OtherLists <- MCOtherLists
    Addresses <- MCAddresses
    Mudroom = 9
    MaxOnAir = 2
    MaxReports = 2
INVARIANTS
    ApplicationsTypeOK
    FiresOnTime
    StoredFiresOnTime
    TornOnlyOnCollision
    RestoresWhatItFound
PROPERTIES
    NoDrift
    CleanWriteStored
    RewriteKeepsOthers
CHECK_DEADLOCK FALSE
