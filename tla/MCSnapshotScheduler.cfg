SPECIFICATION LiveSpec
CONSTANTS
    Symbols = {s1, s2}
    Minute = 4
    WeightPerRequest = 2
    WeightLimit = 30
    BudgetShare = 10
    InitialBackoff = 1
    MaxBackoff = 4
    JitterShare = 4
    MinPause429 = 2
    MinPause418 = 4
    UsedWeightPause = 2
    RetryAfters = {0, 3}
    MaxFailures = 3
    MaxUses = 3
INVARIANTS
    TypeOK
    BudgetKept
PROPERTIES
    NoEarlyRequest
    AskIsGranted
CHECK_DEADLOCK FALSE
