SPECIFICATION FairSpec
CONSTANTS
    Monitors = {m1}
    Workers = {m1}
    MaxLevel = 3
    FirstStop = 1
    Entry = 3
    Targets = {3}
    MaxMoves = 1
    MaxFailures = 1
    MaxCrashes = 1
VIEW UpToIds
INVARIANTS TypeOK NeverBare
PROPERTIES ReplacedByNewer RecordCatchesUp
CHECK_DEADLOCK FALSE
