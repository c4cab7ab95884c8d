SPECIFICATION DecisionSpec
CONSTANTS
    MainThread = MainThread
    OperatorThread = OperatorThread
    MonitorThread = MonitorThread
    MaxDays = 2
    MaxWallet = 2
    Gain = 1
    Loss = 1
    MaxDailyEntries = 1
    MaxOpened = 3
    MaxRestarts = 1
    Coins = {c1, c2}
    Universes <- TopCoins
    QueueMax = 1
    MaxPasses = 2
    NoCoin = NoCoin
INVARIANTS DecisionTypesOK   NoneStranded 
PROPERTIES BaselineKept StrictFunnel
SYMMETRY SameCoins
VIEW DecisionView
CHECK_DEADLOCK FALSE
