SPECIFICATION Spec
CONSTANTS
    RingSize = 2
    OldSessionLingers = TRUE
    StartsNextDay = FALSE
    MaxPub = 4
    MaxDay = 1
    MaxSessions = 1
    MaxKills = 2
    MaxExits = 1
    MaxDrops = 0
    MaxUpdFails = 1
    MaxFileFaults = 1
INVARIANTS
    TypeOK
    ReplyIsExact
    DuplicatesCounted
CHECK_DEADLOCK FALSE
