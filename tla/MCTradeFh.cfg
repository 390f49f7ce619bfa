SPECIFICATION LiveSpec
CONSTANTS
    BackfillEnabled = TRUE
    MaxGapIds = 2
    PageLimit = 2
    MaxFailures = 2
    KillAnywhere = FALSE
    MaxTrades = 5
    MaxFaults <- ThreeFaults
INVARIANTS
    TypeOK
    NoForgottenGap
    RecoveredIsLogged
    LoggedOnce
    AnswerFitsGap
PROPERTIES
    GapsClose
CHECK_DEADLOCK FALSE
