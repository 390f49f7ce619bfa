SPECIFICATION Spec
CONSTANTS
    BackfillEnabled = TRUE
    MaxGapIds = 4
    PageLimit = 1
    MaxFailures = 2
    KillAnywhere = TRUE
    MaxTrades = 5
    MaxFaults <- OneKill
INVARIANTS
    LoggedOnce
CHECK_DEADLOCK FALSE
