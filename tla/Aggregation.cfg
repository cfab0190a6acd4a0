SPECIFICATION LiveSpec
CONSTANTS
    Tokens = {t1, t2, t3}
    Settings <- Modes
    Results = {"rows", "empty", "error", "raises", "violation"}
    MaxFailed = 3
    MaxCrashes = 2
INVARIANTS
    AnsweredOnce
    LeftWithTheirOutput
    RefusedOnlyPartway
PROPERTIES
    EveryTokenLeaves
CHECK_DEADLOCK FALSE
