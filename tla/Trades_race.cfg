SPECIFICATION AddsAlone
CONSTANTS
    Symbols = {x}
    Monitor = Monitor
    Ops = Ops
    Operator = Operator
    MainLoop = MainLoop
    MaxOpens = 2
    MaxBusy = 2
    MaxFaults = 1
    Monitors = {m1, m2}
    MaxEntries = 3
    MaxCrashes = 0
    MaxOrders = 3
SYMMETRY MonitorSymmetry
INVARIANTS AddOnce
CHECK_DEADLOCK FALSE
