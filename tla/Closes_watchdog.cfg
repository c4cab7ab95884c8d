SPECIFICATION ClosesSpec
CONSTANTS
    Monitors = {m1}
    Levels = {"TP1"}
    FullReasons = {"STOP_LOSS"}
    Lots = 1
    MaxAdds = 1
    MaxAttempts = 1
    MaxRetries = 2
    MaxCrashes = 1
    Claimers = {"main", "watchdog"}
    ClaimsExpire = FALSE
    LostAcks = TRUE
    StepErrors = TRUE
    PartialFills = FALSE
    Pieces = {l1, l2}
    Closers = {c1}
    Worker = Worker
    Watchdog = Watchdog
    Report = Report
    MaxGaps = 1
SYMMETRY PieceSymmetry
VIEW ClosesView
INVARIANTS TypeOK ClaimCoversWork ExclusiveClose  
CHECK_DEADLOCK FALSE
