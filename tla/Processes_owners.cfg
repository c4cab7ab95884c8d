SPECIFICATION ProcessesSpec
CONSTANTS
    Closers = {c1, c2}
    Finalisers = {f1}
    Watchdogs = {w1}
    MaxCrashes = 1
    Pids = {p1, p2, p3}
    Inodes = {i1, i2}
    None = None
    CrashLimit = 1
    MaxFaults = 2
INVARIANTS TypesOK ExclusiveUnlessTorn OneMain
PROPERTIES TradeNeverShutOut MainAlwaysComesBack
CHECK_DEADLOCK FALSE
