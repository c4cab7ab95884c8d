SPECIFICATION FeedsSpec
CONSTANTS
    Execution = {e1}
    Background = {b1}
    Bootstrap = {k1}
    Halt = 1
    Nobody = Nobody
    MaxNow = 3
    MaxLimits = 2
    o1 = o1
    n1 = n1
    n2 = n2
    h1 = h1
    LaneCallers <- MCLaneCallers
    LaneOf <- MCLaneOf
    Weights = {1}
    Budget <- MCBudget
    Throttle = 3
    Soft = 4
    Hard = 6
    MaxOrders = 2
    Streams = {a}
    Scanners = {s1, s2}
    Reconnector = rec
    MaxManagers = 3
    MaxBroken = 1
    Bootstrappers = {k1}
    Validators = {v1}
    Need = 2
    Depth = 3
    FirstBar = 2
    LastBar = 4
    MaxFrames = 2
INVARIANTS FeedTypesOK BackgroundSilent EntriesHaveRoom SubscribedAreServed BootstrappedHasBars
PROPERTIES StreamsAlwaysComeBack
CHECK_DEADLOCK FALSE
