SPECIFICATION StopLossSpec
CONSTANTS
    Monitors = {m1}
    Levels = {}
    FullReasons = {"STOP_LOSS"}
    Lots = 1
    MaxAdds = 1
    MaxAttempts = 2
    MaxRetries = 1
    MaxCrashes = 1
    Claimers = {"main", "watchdog"}
    ClaimsExpire = FALSE
    LostAcks = FALSE
    StepErrors = TRUE
    PartialFills = FALSE
PROPERTIES BreachIsClosed 
CHECK_DEADLOCK FALSE
