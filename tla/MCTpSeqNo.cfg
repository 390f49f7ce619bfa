SPECIFICATION Spec
CONSTANTS
    SeqReserve = 1
    MaxRows = 4
    MaxDay = 2
    MaxKills = 2
    MaxLogFails = 1
    FileFaults = {}
    MaxFileFaults = 0
INVARIANTS
    SeqInv
    LogStrictlyIncreasing
PROPERTIES
    ImplementsAllocator
CHECK_DEADLOCK FALSE
