SPECIFICATION Spec
CONSTANTS
    TableSeq <- MCTwoTables
    EventTables = {}
    MaxBuf = 1
    Seeded = TRUE
    DatesInOrder = TRUE
    MaxLog = 4
    MaxDay = 1
    MaxFaults <- EachOnce
    MaxOther = 1
INVARIANTS
    TypeOK
    NothingMissing
    FloorIsTruth
    WrittenOnce
PROPERTIES
    ImplementsStore
    CheckpointRises
CHECK_DEADLOCK FALSE
