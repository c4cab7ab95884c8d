----------------------------- MODULE TradingDay -----------------------------
(***************************************************************************)
(* The UTC trading day: its starting wallet, the daily profit and loss        *)
(* limits, the pause they lead to, the operator's override, and the count of  *)
(* the day's entries (DailyScheduler, daily_balance_manager, RiskManager's     *)
(* snapshot, RiskEngine and the rows of daily_stats).                        *)
(*                                                                         *)
(* The main loop checks the limits in every scan and before every entry, the  *)
(* operator's commands check them from the thread of the Telegram bot, and     *)
(* the monitor writes the day's row when it closes a trade: three threads, one *)
(* row, no lock held from a read to the write that rests on it.  A wallet is a *)
(* small number, any one whenever it is read, 0 where it cannot be.  A manual  *)
(* pause, losses in a row and a drawdown only refuse entries; RiskSnapshot may  *)
(* refuse too.                                                              *)
(***************************************************************************)
EXTENDS Integers

CONSTANTS
    MainThread, OperatorThread, MonitorThread,
    MaxDays, MaxWallet,
    Gain, Loss,         \* DAILY_TARGET_PERCENT and DAILY_STOP_PERCENT
    MaxDailyEntries,    \* MAX_DAILY_TRADES
    MaxOpened,          \* entries of one day, beyond which the model stops
    MaxRestarts

ASSUME DayAssumption ==
    /\ MaxDays \in Nat \ {0}
    /\ MaxWallet \in Nat /\ MaxDailyEntries \in Nat /\ MaxOpened \in Nat /\ MaxRestarts \in Nat
    /\ MainThread # OperatorThread /\ MainThread # MonitorThread

VARIABLES
    day,            \* utc_today_str()
    today,          \* DailyScheduler.today_str
    file,           \* daily_balance_state.json
    stats,          \* day -> its row of daily_stats
    override,       \* BotController._force_daily_limit_override
    step,           \* thread -> where it is
    why,            \* thread -> what it checks the limits for
    read,           \* thread -> the wallet or the status it has read, and when
    opened,         \* day -> entries that were opened on it
    restarts

rowVars == <<file, stats>>
dayThreadVars == <<step, why, read>>
dayVars == <<day, today, rowVars, override, dayThreadVars, opened, restarts>>

Days      == 1 .. MaxDays
Callers   == {MainThread, OperatorThread}
DayThreads == Callers \cup {MonitorThread}
NoRow   == [start |-> 0, seen |-> 0, status |-> "ACTIVE", entries |-> 0]
NoRead  == [wallet |-> 0, on |-> 0, for |-> 0, status |-> "ACTIVE"]
At(t, label) == step[t] = label
Moves(t, label) == step' = [step EXCEPT ![t] = label]
HasRow(d) == stats[d].start > 0

DayInit ==
    /\ day = 1 /\ today = 1
    /\ file = [day |-> 0, start |-> 0, seen |-> 0]
    /\ stats = [d \in Days |-> NoRow]
    /\ override = FALSE
    /\ step = [t \in DayThreads |-> IF t = MainThread THEN "baseline" ELSE "idle"]
    /\ why = [t \in Callers |-> IF t = MainThread THEN "start" ELSE "none"]
    /\ read = [t \in DayThreads |-> NoRead]
    /\ opened = [d \in Days |-> 0]
    /\ restarts = 0
-----------------------------------------------------------------------------
Wallets == 0 .. MaxWallet

Midnight ==
    /\ day < MaxDays
    /\ day' = day + 1
    /\ UNCHANGED <<today, rowVars, override, dayThreadVars, opened, restarts>>

(* The process dies and comes back; file and rows stay, the flags do not.      *)
Restart ==
    /\ restarts < MaxRestarts
    /\ restarts' = restarts + 1
    /\ today' = day
    /\ override' = FALSE
    /\ step' = [t \in DayThreads |-> IF t = MainThread THEN "baseline" ELSE "idle"]
    /\ why' = [t \in Callers |-> IF t = MainThread THEN "start" ELSE "none"]
    /\ read' = [t \in DayThreads |-> NoRead]
    /\ UNCHANGED <<day, rowVars, opened>>
-----------------------------------------------------------------------------
(* is_entry_paused and check_daily_limits.                                   *)
Ends(t) ==
    /\ Moves(t, "idle")
    /\ why' = [why EXCEPT ![t] = "none"]
    /\ read' = [read EXCEPT ![t] = NoRead]

CheckLimits(t, reason) ==
    /\ At(t, "idle")
    /\ why' = [why EXCEPT ![t] = reason]
    /\ Moves(t, IF today = day THEN "baseline" ELSE "newday")
    /\ today' = day                                   \* _handle_day_rollover
    /\ override' = (override /\ today = day)
    /\ UNCHANGED <<day, rowVars, read, opened, restarts>>

(* ensure_daily_baseline: of the file only a balance of the same day serves.   *)
AnyFile(d) == file.start > 0                                      \* mutant
FileOf(d) == file.day = d /\ file.start > 0

Notes(t, w, on, d) == read' = [read EXCEPT ![t] = [NoRead EXCEPT !.wallet = w, !.on = on, !.for = d]]

FetchNewDay(t) ==
    /\ At(t, "newday")
    /\ \E w \in Wallets :
          IF w > 0 THEN Notes(t, w, day, today) /\ Moves(t, "save")
          ELSE IF FileOf(today) THEN Notes(t, file.start, file.seen, today) /\ Moves(t, "save")
          ELSE Moves(t, "baseline") /\ UNCHANGED read
    /\ UNCHANGED <<day, today, rowVars, override, why, opened, restarts>>

(* initialize_daily_stats leaves a row that exists as it is.                  *)
Overwrites(d, start, seen) == [NoRow EXCEPT !.start = start, !.seen = seen]     \* mutant
Initialized(d, start, seen) ==
    IF HasRow(d) THEN stats[d] ELSE [NoRow EXCEPT !.start = start, !.seen = seen]

SaveBaseline(t) ==
    /\ At(t, "save")
    /\ LET r == read[t] IN
       /\ file' = [day |-> r.for, start |-> r.wallet, seen |-> r.on]
       /\ stats' = [stats EXCEPT ![r.for] =
                       [Initialized(r.for, r.wallet, r.on) EXCEPT !.status = "ACTIVE"]]
    /\ read' = [read EXCEPT ![t] = NoRead]
    /\ Moves(t, "baseline")
    /\ UNCHANGED <<day, today, override, why, opened, restarts>>

(* _refresh_daily_baseline: without a starting balance new entries are blocked *)
(* and nothing is judged; a start goes on without one.                        *)
NoBaselineGoesOn(t) ==                                            \* mutant
    IF why[t] = "entry"
    THEN Moves(t, "snapshot") /\ UNCHANGED <<why, read>> ELSE Ends(t)
WithoutBaseline(t) ==
    IF why[t] = "force" THEN Moves(t, "force") /\ UNCHANGED <<why, read>> ELSE Ends(t)

RefreshBaseline(t) ==
    /\ At(t, "baseline")
    /\ \/ /\ HasRow(today) /\ why[t] = "start"
          /\ Ends(t)
          /\ UNCHANGED stats
       \/ /\ HasRow(today) /\ why[t] = "force"
          /\ Moves(t, "force")
          /\ UNCHANGED <<stats, why, read>>
       \/ /\ ~HasRow(today) /\ FileOf(today)
          /\ stats' = [stats EXCEPT ![today] = Initialized(today, file.start, file.seen)]
          /\ UNCHANGED dayThreadVars
       \/ /\ ~HasRow(today) /\ ~FileOf(today)
          /\ \E w \in Wallets \ {0} : Notes(t, w, day, today)
          /\ Moves(t, "save")
          /\ UNCHANGED <<stats, why>>
       \/ /\ ~HasRow(today) /\ ~FileOf(today)
          /\ WithoutBaseline(t)
          /\ UNCHANGED stats
    /\ UNCHANGED <<day, today, file, override, opened, restarts>>

(* The limits are judged by the wallet, against the day's start.              *)
TargetReached(w, start) == w - start >= Gain
LossReached(w, start)   == w - start <= -Loss
LimitReached(w, start)  == TargetReached(w, start) \/ LossReached(w, start)

Allowed(t) ==
    IF why[t] = "entry" THEN Moves(t, "snapshot") /\ UNCHANGED <<why, read>> ELSE Ends(t)

(* A check within _limit_check_interval of the last one judges no further, one *)
(* without a wallet blocks.                                                  *)
JudgeLimits(t) ==
    /\ At(t, "baseline") /\ HasRow(today) /\ why[t] \in {"limits", "entry"}
    /\ \/ override /\ Allowed(t)
       \/ ~override /\ stats[today].status = "PAUSED" /\ Ends(t)
       \/ /\ ~override /\ stats[today].status = "ACTIVE"
          /\ \/ Allowed(t)
             \/ Ends(t)
             \/ /\ \E w \in Wallets \ {0} : Notes(t, w, day, today)
                /\ Moves(t, "active") /\ UNCHANGED why
    /\ UNCHANGED <<day, today, rowVars, override, opened, restarts>>

WriteActive(t) ==
    /\ At(t, "active")
    /\ LET d == read[t].for IN
       /\ stats' = [stats EXCEPT ![d].status = "ACTIVE"]
       /\ IF LimitReached(read[t].wallet, stats[d].start)
          THEN Moves(t, "pause") /\ UNCHANGED <<why, read>> ELSE Allowed(t)
    /\ UNCHANGED <<day, today, file, override, opened, restarts>>

PauseEntries(t) ==
    /\ At(t, "pause")
    /\ stats' = [stats EXCEPT ![read[t].for].status = "PAUSED"]
    /\ Ends(t)
    /\ UNCHANGED <<day, today, file, override, opened, restarts>>
-----------------------------------------------------------------------------
(* An entry: get_risk_snapshot looks at the row of the present day, then the   *)
(* order; record_entry_opened counts it into the row, if there is one.        *)
WithinLimits(row, w) ==
    /\ row.status = "ACTIVE"
    /\ row.start > 0 /\ w > 0 /\ ~LimitReached(w, row.start)

RiskSnapshot(t) ==
    /\ At(t, "snapshot")
    /\ \/ Ends(t)
       \/ /\ stats[day].entries < MaxDailyEntries
          /\ override \/ (\E w \in Wallets : WithinLimits(stats[day], w))
          /\ Moves(t, "order") /\ UNCHANGED <<why, read>>
    /\ UNCHANGED <<day, today, rowVars, override, opened, restarts>>

OpenTrade ==
    /\ At(MainThread, "order") /\ opened[day] < MaxOpened
    /\ opened' = [opened EXCEPT ![day] = @ + 1]
    /\ Moves(MainThread, "count")
    /\ UNCHANGED <<day, today, rowVars, override, why, read, restarts>>

OrderFails ==
    /\ At(MainThread, "order")
    /\ Ends(MainThread)
    /\ UNCHANGED <<day, today, rowVars, override, opened, restarts>>

RecordEntryOpened ==
    /\ At(MainThread, "count")
    /\ stats' = IF HasRow(day) THEN [stats EXCEPT ![day].entries = @ + 1] ELSE stats
    /\ Ends(MainThread)
    /\ UNCHANGED <<day, today, file, override, opened, restarts>>

(* A close: close_trade_and_sync_stats reads the status and writes it back     *)
(* with the balance.                                                        *)
CloseTrade ==
    /\ At(MonitorThread, "idle") /\ HasRow(day)
    /\ read' = [read EXCEPT ![MonitorThread] =
                   [NoRead EXCEPT !.for = day, !.status = stats[day].status]]
    /\ Moves(MonitorThread, "balance")
    /\ UNCHANGED <<day, today, rowVars, override, why, opened, restarts>>

UpdateBalance ==
    /\ At(MonitorThread, "balance")
    /\ stats' = [stats EXCEPT ![read[MonitorThread].for].status = read[MonitorThread].status]
    /\ read' = [read EXCEPT ![MonitorThread] = NoRead]
    /\ Moves(MonitorThread, "idle")
    /\ UNCHANGED <<day, today, file, override, why, opened, restarts>>
-----------------------------------------------------------------------------
(* /forceresume; /status and /resume are checks of the limits.                 *)
ForceResume ==
    /\ At(OperatorThread, "idle")
    /\ Moves(OperatorThread, "baseline")
    /\ why' = [why EXCEPT ![OperatorThread] = "force"]
    /\ UNCHANGED <<day, today, rowVars, override, read, opened, restarts>>

ForceLimits ==
    /\ At(OperatorThread, "force")
    /\ override' = TRUE
    /\ Moves(OperatorThread, "forced")
    /\ UNCHANGED <<day, today, rowVars, why, read, opened, restarts>>

ForceActive ==
    /\ At(OperatorThread, "forced")
    /\ stats' = [stats EXCEPT ![today].status = "ACTIVE"]
    /\ Ends(OperatorThread)
    /\ UNCHANGED <<day, today, file, override, opened, restarts>>
-----------------------------------------------------------------------------
LimitStep(t) ==
    \/ FetchNewDay(t) \/ SaveBaseline(t) \/ RefreshBaseline(t)
    \/ JudgeLimits(t) \/ WriteActive(t) \/ PauseEntries(t) \/ RiskSnapshot(t)

(* A scan's check of the limits does what an entry's does up to the snapshot,   *)
(* which may refuse: for the main loop the second stands for both.            *)
DayNext ==
    \/ Midnight \/ Restart
    \/ CheckLimits(MainThread, "entry") \/ CheckLimits(OperatorThread, "limits")
    \/ \E t \in Callers : LimitStep(t)
    \/ OpenTrade \/ OrderFails \/ RecordEntryOpened \/ CloseTrade \/ UpdateBalance
    \/ ForceResume \/ ForceLimits \/ ForceActive

DaySpec == DayInit /\ [][DayNext]_dayVars
-----------------------------------------------------------------------------
DayTypeOK ==
    /\ day \in Days /\ today \in Days
    /\ file \in [day: 0 .. MaxDays, start: 0 .. MaxWallet, seen: 0 .. MaxDays]
    /\ stats \in [Days -> [start: 0 .. MaxWallet, seen: 0 .. MaxDays,
                           status: {"ACTIVE", "PAUSED"}, entries: 0 .. MaxDailyEntries]]
    /\ override \in BOOLEAN
    /\ opened \in [Days -> 0 .. MaxOpened] /\ restarts \in 0 .. MaxRestarts

(* "Never reuse a previous day's baseline as today's start": the start of a     *)
(* day is no wallet that was read before that day, whatever was unavailable at  *)
(* midnight and however often the process was restarted.                      *)
BaselineOfTheDay == \A d \in Days : HasRow(d) => stats[d].seen >= d

(* A start is never changed again: not by the other thread that rolled over    *)
(* too, not by a restart ("never overwrite mid-day").                         *)
BaselineKept ==
    [][\A d \in Days : HasRow(d) => stats'[d].start = stats[d].start]_dayVars

(* MAX_DAILY_TRADES is exceeded by one entry at most, the one that was under    *)
(* way at midnight and that the row of the new day, not there yet, misses, and  *)
(* by one for each restart that falls between an entry and its count.          *)
CapHolds == \A d \in Days : opened[d] <= MaxDailyEntries + 1 + restarts
=============================================================================
