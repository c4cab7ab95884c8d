SPECIFICATION Spec
CONSTANTS
    Monitors = {m1, m2}
    Levels = {"TP1"}
    FullReasons = {"STOP_LOSS"}
    Lots = 2
    MaxAdds = 0
    MaxAttempts = 1
    MaxRetries = 1
    MaxCrashes = 0
    Claimers = {"main"}
    ClaimsExpire = TRUE
    LostAcks = FALSE
    StepErrors = FALSE
    PartialFills = TRUE
SYMMETRY MonitorSymmetry
VIEW WithoutFills
INVARIANTS OneTaskPerKey OneCloseInFlight NoLeakedClaim
CHECK_DEADLOCK FALSE
