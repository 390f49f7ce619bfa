SPECIFICATION Spec
CONSTANTS
    RingSize = 4
    OldSessionLingers = FALSE
    StartsNextDay = FALSE
    MaxPub = 2
    MaxDay = 0
    MaxSessions = 2
    MaxKills = 1
    MaxExits = 0
    MaxDrops = 0
    MaxUpdFails = 0
    MaxFileFaults = 0
INVARIANTS
    NoSilentLoss
CHECK_DEADLOCK FALSE
