SPECIFICATION PositionsAlone
CONSTANTS
    Symbols = {x}
    Monitor = Monitor
    Ops = Ops
    Operator = Operator
    MainLoop = MainLoop
    MaxOpens = 2
    MaxBusy = 2
    MaxFaults = 1
    Monitors = {m1}
    MaxEntries = 3
    MaxCrashes = 2
    MaxOrders = 3
INVARIANTS FlatConfirmed
CHECK_DEADLOCK FALSE
