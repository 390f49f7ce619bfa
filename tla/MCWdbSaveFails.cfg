SPECIFICATION Spec
CONSTANTS
    TableSeq <- MCOneTable
    EventTables = {}
    MaxBuf = 1
    Seeded = TRUE
    DatesInOrder = TRUE
    MaxLog = 3
    MaxDay = 1
    MaxFaults <- OneSave
    MaxOther = 1
INVARIANTS
    RolledIsCheckpointed
CHECK_DEADLOCK FALSE
