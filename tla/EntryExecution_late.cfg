SPECIFICATION FairSpec
CONSTANTS
    MaxOrders = 2
    MaxCrashes = 1
    BadLevels = TRUE
    StepErrors = TRUE
    Foreign = FALSE
CONSTRAINT NothingSlipped
INVARIANTS TypeOK OneEntry
 
CHECK_DEADLOCK FALSE
