SPECIFICATION Spec
CONSTANTS
    RingSize = 2
    OldSessionLingers = FALSE
    StartsNextDay = FALSE
    MaxPub = 3
    MaxDay = 1
    MaxSessions = 2
    MaxKills = 0
    MaxExits = 0
    MaxDrops = 2
    MaxUpdFails = 0
    MaxFileFaults = 0
INVARIANTS
    NoSilentLoss
    ReplyIsExact
CHECK_DEADLOCK FALSE
