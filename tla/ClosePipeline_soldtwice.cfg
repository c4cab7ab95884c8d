SPECIFICATION Spec
CONSTANTS
    Monitors = {m1, m2}
    Levels = {"TP1"}
    FullReasons = {"STOP_LOSS"}
    Lots = 2
    MaxAdds = 0
    MaxAttempts = 1
    MaxRetries = 1
    MaxCrashes = 0
    Claimers = {"main"}
    ClaimsExpire = FALSE
    LostAcks = FALSE
    StepErrors = FALSE
    PartialFills = FALSE
SYMMETRY MonitorSymmetry
INVARIANTS LevelSoldOnce
CHECK_DEADLOCK FALSE
