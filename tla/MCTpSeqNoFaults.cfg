SPECIFICATION Spec
CONSTANTS
    SeqReserve = 1
    MaxRows = 4
    MaxDay = 1
    MaxKills = 2
    MaxLogFails = 0
    FileFaults = {"lost", "stale"}
    MaxFileFaults = 1
INVARIANTS
    TypeOK
    RowsOfADayIncrease
CHECK_DEADLOCK FALSE
