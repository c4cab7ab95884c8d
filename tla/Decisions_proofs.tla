-------------------------- MODULE Decisions_proofs ---------------------------
(* What decides whether a coin is traded: the limits of the day, then the     *)
(* tiers of the scan.                                                       *)
EXTENDS MCDecisions, TLAPS
-----------------------------------------------------------------------------
(***************************************************************************)
(* For any number of days, wallets, limits, restarts and entries: the start    *)
(* of a day was read on that day or later and never changes, and the cap on    *)
(* entries is exceeded by the one under way at midnight and one for each        *)
(* restart only.                                                            *)
(*                                                                         *)
(* The start: a wallet is kept with the day it was read on, in the file and    *)
(* by the thread that will save it, and none of them is older than the day it  *)
(* is for.  The cap: while the day has no row yet, only the entry that was     *)
(* under way at midnight can open, for the next one needs the row first; after *)
(* that an entry misses the count only while main is at it, or when a restart   *)
(* comes in between.                                                        *)
(***************************************************************************)
Labels   == {"idle", "newday", "save", "baseline", "active", "pause", "snapshot", "order",
             "count", "force", "forced", "balance"}
Statuses == {"ACTIVE", "PAUSED"}
Rows  == [start: 0 .. MaxWallet, seen: 0 .. MaxDays, status: Statuses,
          entries: 0 .. MaxDailyEntries]
Reads == [wallet: 0 .. MaxWallet, on: 0 .. MaxDays, for: 0 .. MaxDays, status: Statuses]

DayTypes ==
    /\ day \in Days /\ today \in Days /\ today <= day
    /\ file \in [day: 0 .. MaxDays, start: 0 .. MaxWallet, seen: 0 .. MaxDays]
    /\ stats \in [Days -> Rows]
    /\ step \in [DayThreads -> Labels]
    /\ read \in [DayThreads -> Reads]
    /\ opened \in [Days -> 0 .. MaxOpened] /\ restarts \in 0 .. MaxRestarts

(* No wallet is kept for a day after the one it was read on.                  *)
KeptForItsDay ==
    /\ file.start > 0 => file.seen >= file.day /\ file.day <= day
    /\ \A t \in DayThreads :
          step[t] = "save" => /\ read[t].wallet > 0
                              /\ read[t].for \in Days /\ read[t].for <= day
                              /\ read[t].on >= read[t].for

(* The rows: none of a day to come, no count without a row.                   *)
RowsOfDays ==
    \A d \in Days :
        /\ HasRow(d) => d <= day /\ stats[d].seen >= d
        /\ ~HasRow(d) => stats[d].entries = 0
        /\ d > day => opened[d] = 0

(* Main on its way to an entry.                                              *)
Entering == step[MainThread] \in {"active", "pause", "snapshot", "order"}
Counting == IF step[MainThread] = "count" THEN 1 ELSE 0

Counted ==
    /\ today < day /\ step[MainThread] \notin {"idle", "count"} => opened[day] = 0
    /\ Entering /\ ~HasRow(day) => opened[day] = 0
    /\ ~HasRow(day) => opened[day] <= 1
    /\ step[MainThread] \in {"order", "count"} => stats[day].entries < MaxDailyEntries
    /\ opened[day] <= stats[day].entries + 1 + restarts + Counting

DayInv == DayTypes /\ KeptForItsDay /\ RowsOfDays /\ Counted /\ CapHolds

(* What a step leaves behind, and that it kept the starts.                    *)
StartsKept == \A d \in Days : HasRow(d) => stats'[d].start = stats[d].start
DayStepHolds  == DayInv' /\ StartsKept
-----------------------------------------------------------------------------
USE DayAssumption
LEMMA DaysType == 1 \in Days /\ Days \subseteq Nat /\ \A d \in Days : d <= MaxDays
  BY DayAssumption DEF Days

LEMMA ThreadsType == MainThread \in DayThreads /\ Callers \subseteq DayThreads
  BY DEF DayThreads, Callers

LEMMA NothingType == NoRow \in Rows /\ NoRead \in Reads
  BY DayAssumption DEF NoRow, NoRead, Rows, Reads, Statuses

(* The rows but for their statuses; a start is set once, and for its day.       *)
RowsKept ==
    /\ stats' \in [Days -> Rows]
    /\ \A d \in Days :
          /\ stats'[d].entries = stats[d].entries
          /\ HasRow(d) => stats'[d].start = stats[d].start /\ stats'[d].seen = stats[d].seen
          /\ ~HasRow(d) /\ stats'[d].start > 0 => d <= day /\ stats'[d].seen >= d

(* The ways of main between two entries.                                     *)
MainMoves ==
    \/ step'[MainThread] = step[MainThread]
    \/ today' = day /\ step[MainThread] # "count" /\ step'[MainThread] \in {"newday", "baseline"}
    \/ step[MainThread] # "count" /\ step'[MainThread] = "idle"
    \/ /\ step[MainThread] \notin {"idle", "count"}
       /\ step'[MainThread] \in {"save", "baseline", "force"}
    \/ /\ step[MainThread] = "baseline" /\ HasRow(today)
       /\ step'[MainThread] \in {"active", "snapshot"}
    \/ step[MainThread] = "active" /\ step'[MainThread] \in {"pause", "snapshot"}
    \/ /\ step[MainThread] = "snapshot" /\ stats[day].entries < MaxDailyEntries
       /\ step'[MainThread] = "order"

KeepsItsDay(t) ==
    /\ read[t].wallet > 0
    /\ read[t].for \in Days /\ read[t].for <= day
    /\ read[t].on >= read[t].for

(* A step of a thread other than an entry: what it may do to what.             *)
ThreadMoves ==
    /\ UNCHANGED <<day, opened, restarts>>
    /\ today' \in Days /\ today <= today' /\ today' <= day
    /\ file' \in [day: 0 .. MaxDays, start: 0 .. MaxWallet, seen: 0 .. MaxDays]
    /\ file'.start > 0 => file'.seen >= file'.day /\ file'.day <= day
    /\ step' \in [DayThreads -> Labels] /\ read' \in [DayThreads -> Reads]
    /\ \A t \in DayThreads : step'[t] = "save" => KeepsItsDay(t)'

LEMMA ThreadMovesHolds ==
  ASSUME DayInv, ThreadMoves, RowsKept, MainMoves
  PROVE  DayStepHolds
<1>1. DayTypes' /\ CapHolds' /\ KeptForItsDay'
  BY DEF DayInv, DayTypes, CapHolds, KeptForItsDay, ThreadMoves, RowsKept, KeepsItsDay
<1>2. RowsOfDays'
  BY DEF DayInv, DayTypes, RowsOfDays, HasRow, ThreadMoves, RowsKept, Rows
<1>3. Counted'
  BY ThreadsType, DaysType
  DEF DayInv, DayTypes, Counted, Counting, Entering, HasRow, Rows, ThreadMoves, RowsKept,
      MainMoves
<1>4. StartsKept
  BY DEF StartsKept, RowsKept
<1>5. QED BY <1>1, <1>2, <1>3, <1>4 DEF DayStepHolds, DayInv

LEMMA SameRows == ASSUME DayInv, UNCHANGED stats PROVE RowsKept
  BY DEF DayInv, DayTypes, RowsKept, HasRow

(* A status is written, into whichever row.                                  *)
LEMMA StatusWritten ==
  ASSUME DayInv, NEW d, NEW s \in Statuses, stats' = [stats EXCEPT ![d].status = s]
  PROVE  RowsKept
  BY DEF DayInv, DayTypes, RowsKept, HasRow, Rows

(* A row is made of a start of its day, where there is none.                  *)
LEMMA RowMade ==
  ASSUME DayInv, NEW d \in Days, d <= day, NEW start \in 0 .. MaxWallet,
         NEW seen \in 0 .. MaxDays, seen >= d
  PROVE  LET row == Initialized(d, start, seen) IN
         /\ row \in Rows /\ row.entries = stats[d].entries
         /\ HasRow(d) => row.start = stats[d].start /\ row.seen = stats[d].seen
         /\ ~HasRow(d) => row.seen >= d
  BY DEF DayInv, DayTypes, RowsOfDays, Initialized, NoRow, Rows, Statuses, HasRow
-----------------------------------------------------------------------------
LEMMA StepType == DayInv => step \in [DayThreads -> Labels]
  BY DEF DayInv, DayTypes

(* Who does not come to a save keeps what the saves of the others need.        *)
LEMMA NoSave ==
  ASSUME DayInv, day' = day, NEW t \in DayThreads, step'[t] # "save",
         \A u \in DayThreads \ {t} : step'[u] = step[u] /\ read'[u] = read[u]
  PROVE  \A u \in DayThreads : step'[u] = "save" => KeepsItsDay(u)'
  BY DEF DayInv, KeptForItsDay, KeepsItsDay

LEMMA CheckLimitsHolds ==
  ASSUME DayInv, NEW t \in Callers, NEW reason, CheckLimits(t, reason)
  PROVE  DayStepHolds
<1>1. PICK label \in {"baseline", "newday"} : Moves(t, label)
  BY DEF CheckLimits
<1>2. t \in DayThreads /\ today' = day /\ UNCHANGED <<day, rowVars, read, opened, restarts>>
  BY ThreadsType DEF CheckLimits
<1>3. /\ step' \in [DayThreads -> Labels] /\ step'[t] \in {"baseline", "newday"}
      /\ \A u \in DayThreads \ {t} : step'[u] = step[u]
      /\ \A u \in DayThreads : step'[u] = "save" => KeepsItsDay(u)'
  <2>1. /\ step' \in [DayThreads -> Labels] /\ step'[t] \in {"baseline", "newday"}
        /\ \A u \in DayThreads \ {t} : step'[u] = step[u]
    BY <1>1, <1>2, StepType DEF Moves, Labels
  <2>2. QED BY <1>2, <2>1, NoSave
<1>4. ThreadMoves
  BY <1>2, <1>3, DaysType DEF ThreadMoves, rowVars, DayInv, DayTypes, KeptForItsDay, KeepsItsDay
<1>5. MainMoves
  BY <1>2, <1>3, ThreadsType DEF MainMoves, CheckLimits, At
<1>6. QED BY <1>2, <1>4, <1>5, SameRows, ThreadMovesHolds DEF rowVars

LEMMA NotesType ==
  ASSUME DayInv, NEW t \in DayThreads, NEW w \in 0 .. MaxWallet, NEW on \in 0 .. MaxDays,
         NEW d \in 0 .. MaxDays, Notes(t, w, on, d)
  PROVE  /\ read' \in [DayThreads -> Reads]
         /\ read'[t].wallet = w /\ read'[t].on = on /\ read'[t].for = d
         /\ \A u \in DayThreads \ {t} : read'[u] = read[u]
  BY NothingType DEF DayInv, DayTypes, Notes, Reads, NoRead

LEMMA FetchHolds == ASSUME DayInv, NEW t \in Callers, FetchNewDay(t) PROVE DayStepHolds
<1>1. t \in DayThreads /\ step[t] = "newday" /\ UNCHANGED <<day, today, rowVars, opened, restarts>>
  BY ThreadsType DEF FetchNewDay, At
<1>2. today \in 0 .. MaxDays /\ day \in 0 .. MaxDays /\ today <= day /\ today \in Days
  BY DaysType DEF DayInv, DayTypes, Days
<1>3. \/ /\ Moves(t, "save")
         /\ \E w \in 0 .. MaxWallet, on \in 0 .. MaxDays :
               Notes(t, w, on, today) /\ w > 0 /\ on >= today
      \/ Moves(t, "baseline") /\ UNCHANGED read
  BY <1>2 DEF FetchNewDay, Wallets, FileOf, DayInv, DayTypes, KeptForItsDay
<1>4. step' \in [DayThreads -> Labels] /\ MainMoves
  <2>1. /\ step' \in [DayThreads -> Labels] /\ step'[t] \in {"save", "baseline"}
        /\ \A u \in DayThreads \ {t} : step'[u] = step[u]
    BY <1>1, <1>3, StepType DEF Moves, Labels
  <2>2. QED BY <1>1, <2>1, ThreadsType DEF MainMoves
<1>5. read' \in [DayThreads -> Reads] /\ (\A u \in DayThreads : step'[u] = "save" => KeepsItsDay(u)')
  <2>1. CASE Moves(t, "baseline") /\ UNCHANGED read
    BY <1>1, <2>1 DEF DayInv, DayTypes, KeptForItsDay, KeepsItsDay, Moves
  <2>2. ASSUME NEW w \in 0 .. MaxWallet, NEW on \in 0 .. MaxDays, Moves(t, "save"),
               Notes(t, w, on, today), w > 0, on >= today
        PROVE  read' \in [DayThreads -> Reads]
               /\ (\A u \in DayThreads : step'[u] = "save" => KeepsItsDay(u)')
    BY <1>1, <1>2, <2>2, NotesType DEF DayInv, DayTypes, KeptForItsDay, KeepsItsDay, Moves
  <2>3. QED BY <1>3, <2>1, <2>2
<1>6. ThreadMoves
  BY <1>1, <1>2, <1>4, <1>5 DEF ThreadMoves, rowVars, DayInv, DayTypes, KeptForItsDay
<1>7. QED BY <1>1, <1>4, <1>6, SameRows, ThreadMovesHolds DEF rowVars

(* A thread that goes anywhere but to a save, with a status written at most.   *)
LEMMA PlainMoveHolds ==
  ASSUME DayInv, NEW t \in DayThreads, UNCHANGED <<day, today, file, opened, restarts>>,
         NEW label \in Labels \ {"save"}, step' = [step EXCEPT ![t] = label],
         NEW r \in Reads, read' = read \/ read' = [read EXCEPT ![t] = r],
         RowsKept, MainMoves
  PROVE  DayStepHolds
<1>1. /\ step' \in [DayThreads -> Labels] /\ step'[t] # "save"
      /\ \A u \in DayThreads \ {t} : step'[u] = step[u]
  BY StepType
<1>2. read' \in [DayThreads -> Reads] /\ \A u \in DayThreads \ {t} : read'[u] = read[u]
  BY DEF DayInv, DayTypes
<1>3. \A u \in DayThreads : step'[u] = "save" => KeepsItsDay(u)'
  BY <1>1, <1>2, NoSave
<1>4. ThreadMoves
  BY <1>1, <1>2, <1>3, DaysType DEF ThreadMoves, DayInv, DayTypes, KeptForItsDay, KeepsItsDay
<1>5. QED BY <1>4, ThreadMovesHolds

(* A check that ends.                                                        *)
LEMMA EndsHolds ==
  ASSUME DayInv, NEW t \in DayThreads, UNCHANGED <<day, today, file, opened, restarts>>,
         step[t] # "count", Ends(t), RowsKept
  PROVE  DayStepHolds
<1>1. step' = [step EXCEPT ![t] = "idle"] /\ read' = [read EXCEPT ![t] = NoRead]
  BY DEF Ends, Moves
<1>2. MainMoves
  BY <1>1, StepType, ThreadsType DEF MainMoves
<1>3. "idle" \in Labels \ {"save"}
  BY DEF Labels
<1>4. QED BY <1>1, <1>2, <1>3, NothingType, PlainMoveHolds

(* A thread that reads nothing new.                                          *)
LEMMA MoveHolds ==
  ASSUME DayInv, NEW t \in DayThreads, UNCHANGED <<day, today, file, opened, restarts, read>>,
         NEW label \in Labels \ {"save"}, Moves(t, label), RowsKept, MainMoves
  PROVE  DayStepHolds
  BY NothingType, PlainMoveHolds DEF Moves
-----------------------------------------------------------------------------
LEMMA SaveHolds == ASSUME DayInv, NEW t \in Callers, SaveBaseline(t) PROVE DayStepHolds
<1> DEFINE r   == read[t]
           row == Initialized(r.for, r.wallet, r.on)
<1>1. /\ t \in DayThreads /\ step[t] = "save"
      /\ file' = [day |-> r.for, start |-> r.wallet, seen |-> r.on]
      /\ stats' = [stats EXCEPT ![r.for] = [row EXCEPT !.status = "ACTIVE"]]
      /\ read' = [read EXCEPT ![t] = NoRead] /\ step' = [step EXCEPT ![t] = "baseline"]
      /\ UNCHANGED <<day, today, opened, restarts>>
  BY ThreadsType DEF SaveBaseline, At, Moves
<1>2. /\ r \in Reads /\ r.for \in Days /\ r.for <= day /\ r.on >= r.for
      /\ r.wallet \in 0 .. MaxWallet /\ r.on \in 0 .. MaxDays
  BY <1>1 DEF DayInv, DayTypes, KeptForItsDay, Reads
<1>3. /\ row \in Rows /\ row.entries = stats[r.for].entries
      /\ HasRow(r.for) => row.start = stats[r.for].start /\ row.seen = stats[r.for].seen
      /\ ~HasRow(r.for) => row.seen >= r.for
  BY <1>2, RowMade
<1> HIDE DEF r, row
<1>4. RowsKept
  BY <1>1, <1>2, <1>3 DEF RowsKept, DayInv, DayTypes, Rows, HasRow, Statuses
<1>5. /\ step' \in [DayThreads -> Labels] /\ step'[t] = "baseline"
      /\ \A u \in DayThreads \ {t} : step'[u] = step[u]
  BY <1>1, StepType DEF Labels
<1>6. read' \in [DayThreads -> Reads] /\ \A u \in DayThreads \ {t} : read'[u] = read[u]
  BY <1>1, NothingType DEF DayInv, DayTypes
<1>7. \A u \in DayThreads : step'[u] = "save" => KeepsItsDay(u)'
  BY <1>1, <1>5, <1>6, NoSave
<1>8. file' \in [day: 0 .. MaxDays, start: 0 .. MaxWallet, seen: 0 .. MaxDays]
      /\ file'.seen >= file'.day /\ file'.day <= day
  BY <1>1, <1>2, DaysType DEF Reads
<1>9. ThreadMoves
  BY <1>1, <1>5, <1>6, <1>7, <1>8, DaysType DEF ThreadMoves, DayInv, DayTypes, KeepsItsDay
<1>10. MainMoves
  BY <1>1, <1>5, ThreadsType DEF MainMoves
<1>11. QED BY <1>4, <1>9, <1>10, ThreadMovesHolds

LEMMA RefreshHolds == ASSUME DayInv, NEW t \in Callers, RefreshBaseline(t) PROVE DayStepHolds
<1>1. /\ t \in DayThreads /\ step[t] = "baseline"
      /\ UNCHANGED <<day, today, file, opened, restarts>>
  BY ThreadsType DEF RefreshBaseline, At
<1>2. today \in Days /\ today <= day /\ day \in 0 .. MaxDays /\ today \in 0 .. MaxDays
  BY DaysType DEF DayInv, DayTypes, Days
<1>3. CASE Ends(t) /\ UNCHANGED stats
  BY <1>1, <1>3, SameRows, EndsHolds
<1>4. CASE Moves(t, "force") /\ UNCHANGED <<stats, read>>
  <2>1. MainMoves
    BY <1>1, <1>4, StepType, ThreadsType DEF MainMoves, Moves
  <2>2. "force" \in Labels \ {"save"}
    BY DEF Labels
  <2>3. QED BY <1>1, <1>4, <2>1, <2>2, SameRows, MoveHolds
<1>5. CASE ~HasRow(today) /\ FileOf(today) /\ UNCHANGED dayThreadVars
           /\ stats' = [stats EXCEPT ![today] = Initialized(today, file.start, file.seen)]
  <2> DEFINE row == Initialized(today, file.start, file.seen)
  <2>1. file.start \in 0 .. MaxWallet /\ file.seen \in 0 .. MaxDays /\ file.seen >= today
    BY <1>5 DEF FileOf, DayInv, DayTypes, KeptForItsDay
  <2>2. row \in Rows /\ row.entries = stats[today].entries /\ row.seen >= today
    BY <1>2, <1>5, <2>1, RowMade
  <2> HIDE DEF row
  <2>3. RowsKept
    BY <1>2, <1>5, <2>2 DEF row, RowsKept, DayInv, DayTypes, Rows, HasRow
  <2>4. ThreadMoves
    BY <1>1, <1>2, <1>5, DaysType
    DEF ThreadMoves, dayThreadVars, DayInv, DayTypes, KeptForItsDay, KeepsItsDay
  <2>5. MainMoves
    BY <1>5 DEF MainMoves, dayThreadVars
  <2>6. QED BY <2>3, <2>4, <2>5, ThreadMovesHolds
<1>6. CASE UNCHANGED stats /\ Moves(t, "save")
           /\ \E w \in Wallets \ {0} : Notes(t, w, day, today)
  <2>1. PICK w \in 0 .. MaxWallet : w # 0 /\ Notes(t, w, day, today)
    BY <1>6 DEF Wallets
  <2>2. /\ read' \in [DayThreads -> Reads]
        /\ read'[t].wallet = w /\ read'[t].on = day /\ read'[t].for = today
        /\ \A u \in DayThreads \ {t} : read'[u] = read[u]
    BY <1>1, <1>2, <2>1, NotesType
  <2>3. /\ step' \in [DayThreads -> Labels] /\ step'[t] = "save"
        /\ \A u \in DayThreads \ {t} : step'[u] = step[u]
    BY <1>1, <1>6, StepType DEF Moves, Labels
  <2>4. w > 0 /\ day >= today
    BY <1>2, <2>1, DaysType, DayAssumption DEF Days
  <2>5. \A u \in DayThreads : step'[u] = "save" => KeepsItsDay(u)'
    BY <1>1, <1>2, <2>2, <2>3, <2>4 DEF DayInv, KeptForItsDay, KeepsItsDay
  <2>6. ThreadMoves
    BY <1>1, <1>2, <2>2, <2>3, <2>5, DaysType
    DEF ThreadMoves, DayInv, DayTypes, KeptForItsDay, KeepsItsDay
  <2>7. MainMoves
    BY <1>1, <2>3, ThreadsType DEF MainMoves
  <2>8. QED BY <1>6, <2>6, <2>7, SameRows, ThreadMovesHolds
<1>7. QED BY <1>1, <1>3, <1>4, <1>5, <1>6 DEF RefreshBaseline, WithoutBaseline

LEMMA LabelsType ==
  /\ {"idle", "baseline", "active", "pause", "snapshot", "order"} \subseteq Labels \ {"save"}
  /\ {"force", "forced", "balance"} \subseteq Labels \ {"save"}
  BY DEF Labels

(* A check goes on to the entry, or ends.                                     *)
LEMMA AllowedHolds ==
  ASSUME DayInv, NEW t \in DayThreads, UNCHANGED <<day, today, file, opened, restarts>>,
         step[t] = "active" \/ (step[t] = "baseline" /\ HasRow(today)), Allowed(t), RowsKept
  PROVE  DayStepHolds
<1>1. CASE Ends(t)
  BY <1>1, EndsHolds
<1>2. CASE Moves(t, "snapshot") /\ UNCHANGED read
  <2>1. MainMoves
    BY <1>2, StepType, ThreadsType DEF MainMoves, Moves
  <2>2. QED BY <1>2, <2>1, LabelsType, MoveHolds
<1>3. QED BY <1>1, <1>2 DEF Allowed

LEMMA JudgeHolds == ASSUME DayInv, NEW t \in Callers, JudgeLimits(t) PROVE DayStepHolds
<1>1. /\ t \in DayThreads /\ step[t] = "baseline" /\ HasRow(today)
      /\ UNCHANGED <<day, today, file, stats, opened, restarts>>
  BY ThreadsType DEF JudgeLimits, At, rowVars
<1>2. CASE Allowed(t)
  BY <1>1, <1>2, SameRows, AllowedHolds
<1>3. CASE Ends(t)
  BY <1>1, <1>3, SameRows, EndsHolds
<1>4. CASE Moves(t, "active") /\ \E w \in Wallets \ {0} : Notes(t, w, day, today)
  <2>1. PICK w \in 0 .. MaxWallet : Notes(t, w, day, today)
    BY <1>4 DEF Wallets
  <2> DEFINE r == [NoRead EXCEPT !.wallet = w, !.on = day, !.for = today]
  <2>2. r \in Reads
    <3>1. day \in 0 .. MaxDays /\ today \in 0 .. MaxDays
      BY DaysType DEF DayInv, DayTypes, Days
    <3>2. QED BY <3>1, NothingType DEF Reads, NoRead
  <2>3. read' = [read EXCEPT ![t] = r]
    BY <2>1 DEF Notes
  <2> HIDE DEF r
  <2>4. MainMoves
    BY <1>1, <1>4, StepType, ThreadsType DEF MainMoves, Moves
  <2>5. QED BY <1>1, <1>4, <2>2, <2>3, <2>4, LabelsType, SameRows, PlainMoveHolds DEF Moves
<1>5. QED BY <1>2, <1>3, <1>4 DEF JudgeLimits

LEMMA WriteActiveHolds == ASSUME DayInv, NEW t \in Callers, WriteActive(t) PROVE DayStepHolds
<1>1. /\ t \in DayThreads /\ step[t] = "active"
      /\ UNCHANGED <<day, today, file, opened, restarts>>
      /\ stats' = [stats EXCEPT ![read[t].for].status = "ACTIVE"]
      /\ (Moves(t, "pause") /\ UNCHANGED read) \/ Allowed(t)
  BY ThreadsType DEF WriteActive, At
<1>2. RowsKept
  BY <1>1, StatusWritten DEF Statuses
<1>3. CASE Allowed(t)
  BY <1>1, <1>2, <1>3, AllowedHolds
<1>4. CASE Moves(t, "pause") /\ UNCHANGED read
  <2>1. MainMoves
    BY <1>1, <1>4, StepType, ThreadsType DEF MainMoves, Moves
  <2>2. QED BY <1>1, <1>2, <1>4, <2>1, LabelsType, MoveHolds
<1>5. QED BY <1>1, <1>3, <1>4

LEMMA PauseHolds == ASSUME DayInv, NEW t \in Callers, PauseEntries(t) PROVE DayStepHolds
<1>1. /\ t \in DayThreads /\ step[t] = "pause"
      /\ UNCHANGED <<day, today, file, opened, restarts>>
      /\ stats' = [stats EXCEPT ![read[t].for].status = "PAUSED"] /\ Ends(t)
  BY ThreadsType DEF PauseEntries, At
<1>2. RowsKept
  BY <1>1, StatusWritten DEF Statuses
<1>3. QED BY <1>1, <1>2, EndsHolds

LEMMA SnapshotHolds == ASSUME DayInv, NEW t \in Callers, RiskSnapshot(t) PROVE DayStepHolds
<1>1. /\ t \in DayThreads /\ step[t] = "snapshot"
      /\ UNCHANGED <<day, today, file, stats, opened, restarts>>
  BY ThreadsType DEF RiskSnapshot, At, rowVars
<1>2. CASE Ends(t)
  BY <1>1, <1>2, SameRows, EndsHolds
<1>3. CASE stats[day].entries < MaxDailyEntries /\ Moves(t, "order") /\ UNCHANGED read
  <2>1. MainMoves
    BY <1>1, <1>3, StepType, ThreadsType DEF MainMoves, Moves
  <2>2. QED BY <1>1, <1>3, <2>1, LabelsType, SameRows, MoveHolds
<1>4. QED BY <1>2, <1>3 DEF RiskSnapshot

LEMMA OrderFailsHolds == ASSUME DayInv, OrderFails PROVE DayStepHolds
  BY ThreadsType, SameRows, EndsHolds DEF OrderFails, At, rowVars

(* The monitor.                                                              *)
LEMMA CloseHolds == ASSUME DayInv, CloseTrade PROVE DayStepHolds
<1> DEFINE r == [NoRead EXCEPT !.for = day, !.status = stats[day].status]
<1>1. MonitorThread \in DayThreads /\ MonitorThread # MainThread
  BY DayAssumption DEF DayThreads
<1>2. r \in Reads
  <2>1. day \in 0 .. MaxDays /\ stats[day].status \in Statuses
    BY DaysType DEF DayInv, DayTypes, Days, Rows
  <2>2. QED BY <2>1, NothingType DEF Reads, NoRead
<1>3. /\ read' = [read EXCEPT ![MonitorThread] = r] /\ Moves(MonitorThread, "balance")
      /\ UNCHANGED <<day, today, file, stats, opened, restarts>>
  BY DEF CloseTrade, rowVars
<1> HIDE DEF r
<1>4. MainMoves
  BY <1>1, <1>3, StepType, ThreadsType DEF MainMoves, Moves
<1>5. QED BY <1>1, <1>2, <1>3, <1>4, LabelsType, SameRows, PlainMoveHolds DEF Moves

LEMMA BalanceHolds == ASSUME DayInv, UpdateBalance PROVE DayStepHolds
<1>1. MonitorThread \in DayThreads /\ MonitorThread # MainThread
  BY DayAssumption DEF DayThreads
<1>2. read[MonitorThread].status \in Statuses
  BY <1>1 DEF DayInv, DayTypes, Reads
<1>3. /\ read' = [read EXCEPT ![MonitorThread] = NoRead] /\ Moves(MonitorThread, "idle")
      /\ UNCHANGED <<day, today, file, opened, restarts>>
      /\ stats' = [stats EXCEPT ![read[MonitorThread].for].status = read[MonitorThread].status]
  BY DEF UpdateBalance
<1>4. RowsKept
  BY <1>2, <1>3, StatusWritten
<1>5. MainMoves
  BY <1>1, <1>3, StepType, ThreadsType DEF MainMoves, Moves
<1>6. QED BY <1>1, <1>3, <1>4, <1>5, LabelsType, NothingType, PlainMoveHolds DEF Moves

(* The operator.                                                             *)
LEMMA OperatorType == OperatorThread \in DayThreads /\ OperatorThread # MainThread
  BY DayAssumption DEF DayThreads, Callers

LEMMA ForceHolds == ASSUME DayInv, ForceResume \/ ForceLimits PROVE DayStepHolds
<1>1. PICK label \in {"baseline", "forced"} : Moves(OperatorThread, label)
  BY DEF ForceResume, ForceLimits
<1>2. UNCHANGED <<day, today, file, stats, read, opened, restarts>>
  BY DEF ForceResume, ForceLimits, rowVars
<1>3. MainMoves
  BY <1>1, OperatorType, StepType, ThreadsType DEF MainMoves, Moves
<1>4. QED BY <1>1, <1>2, <1>3, OperatorType, LabelsType, SameRows, MoveHolds

LEMMA ForceActiveHolds == ASSUME DayInv, ForceActive PROVE DayStepHolds
<1>1. /\ step[OperatorThread] = "forced" /\ Ends(OperatorThread)
      /\ UNCHANGED <<day, today, file, opened, restarts>>
      /\ stats' = [stats EXCEPT ![today].status = "ACTIVE"]
  BY DEF ForceActive, At
<1>2. RowsKept
  BY <1>1, StatusWritten DEF Statuses
<1>3. QED BY <1>1, <1>2, OperatorType, EndsHolds
-----------------------------------------------------------------------------
(* Midnight, a restart, and the entry itself.                                 *)
LEMMA MidnightHolds == ASSUME DayInv, Midnight PROVE DayStepHolds
<1>1. /\ day' = day + 1 /\ day' \in Days /\ day \in Days
      /\ UNCHANGED <<today, file, stats, step, read, opened, restarts>>
  BY DayAssumption DEF Midnight, DayInv, DayTypes, Days, rowVars, dayThreadVars
<1>2. DayTypes' /\ KeptForItsDay' /\ RowsOfDays' /\ CapHolds'
  <2>1. day \in Nat /\ today \in Nat /\ Days \subseteq Nat
    BY <1>1, DaysType DEF DayInv, DayTypes
  <2>2. DayTypes'
    BY <1>1, <2>1 DEF DayInv, DayTypes
  <2>3. KeptForItsDay'
    <3>1. file.start > 0 => file.seen >= file.day /\ file.day <= day + 1
      BY <2>1 DEF DayInv, DayTypes, KeptForItsDay
    <3>2. \A t \in DayThreads :
             step[t] = "save" => /\ read[t].wallet > 0 /\ read[t].for \in Days
                                 /\ read[t].for <= day + 1 /\ read[t].on >= read[t].for
      <4>1. \A d \in Days : d <= day => d <= day + 1
        BY <2>1
      <4>2. QED BY <4>1 DEF DayInv, KeptForItsDay
    <3>3. QED BY <1>1, <3>1, <3>2 DEF KeptForItsDay
  <2>4. RowsOfDays' /\ CapHolds'
    BY <1>1, <2>1 DEF DayInv, RowsOfDays, CapHolds, HasRow
  <2>5. QED BY <2>2, <2>3, <2>4
<1>3. ~HasRow(day') /\ stats[day'].entries = 0 /\ opened[day'] = 0
  BY <1>1, DaysType DEF DayInv, RowsOfDays
<1>4. step[MainThread] \in {"order", "count"} => 0 < MaxDailyEntries
  BY <1>1 DEF DayInv, DayTypes, Counted, Rows
<1>5. Counted'
  BY <1>1, <1>3, <1>4 DEF DayInv, DayTypes, Counted, Counting, Entering, HasRow
<1>6. QED BY <1>1, <1>2, <1>5 DEF DayStepHolds, DayInv, StartsKept

LEMMA RestartHolds == ASSUME DayInv, Restart PROVE DayStepHolds
<1>1. /\ today' = day /\ restarts < MaxRestarts /\ restarts' = restarts + 1
      /\ step' = [t \in DayThreads |-> IF t = MainThread THEN "baseline" ELSE "idle"]
      /\ read' = [t \in DayThreads |-> NoRead]
      /\ UNCHANGED <<day, file, stats, opened>>
  BY DEF Restart, rowVars
<1>2. DayTypes' /\ KeptForItsDay' /\ RowsOfDays'
  BY <1>1, NothingType, DaysType
  DEF DayInv, DayTypes, KeptForItsDay, RowsOfDays, HasRow, Labels
<1>3. CapHolds'
  BY <1>1, DayAssumption DEF DayInv, DayTypes, CapHolds
<1>4. Counted'
  BY <1>1, ThreadsType, DaysType DEF DayInv, DayTypes, Counted, Counting, Entering, HasRow, Rows
<1>5. QED BY <1>1, <1>2, <1>3, <1>4 DEF DayStepHolds, DayInv, StartsKept

LEMMA OpenHolds == ASSUME DayInv, OpenTrade PROVE DayStepHolds
<1>1. /\ step[MainThread] = "order" /\ opened[day] < MaxOpened
      /\ opened' = [opened EXCEPT ![day] = @ + 1]
      /\ step' = [step EXCEPT ![MainThread] = "count"]
      /\ UNCHANGED <<day, today, file, stats, read, restarts>>
  BY DEF OpenTrade, At, Moves, rowVars
<1>2. day \in Days /\ stats[day].entries \in Nat /\ opened[day] \in Nat /\ restarts \in Nat
      /\ opened'[day] = opened[day] + 1 /\ step'[MainThread] = "count"
  BY <1>1, ThreadsType DEF DayInv, DayTypes, Rows
<1>3. DayTypes' /\ KeptForItsDay'
  BY <1>1, <1>2, StepType DEF DayInv, DayTypes, KeptForItsDay, Labels
<1>4. RowsOfDays'
  BY <1>1, <1>2, DaysType DEF DayInv, DayTypes, RowsOfDays, HasRow
<1>5. CapHolds'
  BY <1>1, <1>2, DayAssumption DEF DayInv, DayTypes, CapHolds, Counted, Counting
<1>6. Counted'
  BY <1>1, <1>2 DEF DayInv, Counted, Counting, Entering, HasRow
<1>7. QED BY <1>1, <1>3, <1>4, <1>5, <1>6 DEF DayStepHolds, DayInv, StartsKept

LEMMA RecordHolds == ASSUME DayInv, RecordEntryOpened PROVE DayStepHolds
<1>1. /\ step[MainThread] = "count" /\ day \in Days
      /\ step' = [step EXCEPT ![MainThread] = "idle"]
      /\ read' = [read EXCEPT ![MainThread] = NoRead]
      /\ stats' = IF HasRow(day) THEN [stats EXCEPT ![day].entries = @ + 1] ELSE stats
      /\ UNCHANGED <<day, today, file, opened, restarts>>
  BY DEF RecordEntryOpened, At, Ends, Moves, DayInv, DayTypes
<1>2. step'[MainThread] = "idle" /\ step' \in [DayThreads -> Labels]
      /\ read' \in [DayThreads -> Reads]
  BY <1>1, StepType, ThreadsType, NothingType DEF Labels, DayInv, DayTypes
<1>3. /\ stats' \in [Days -> Rows] /\ StartsKept
      /\ \A d \in Days : stats'[d].start = stats[d].start /\ stats'[d].seen = stats[d].seen
      /\ \A d \in Days : ~HasRow(d) => stats'[d].entries = stats[d].entries
      /\ HasRow(day) => stats'[day].entries = stats[day].entries + 1
  <2>1. stats[day].entries + 1 \in 0 .. MaxDailyEntries
    BY <1>1 DEF DayInv, DayTypes, Counted, Rows
  <2>2. QED BY <1>1, <2>1 DEF DayInv, DayTypes, Rows, StartsKept, HasRow
<1>4. DayTypes' /\ RowsOfDays' /\ CapHolds'
  BY <1>1, <1>2, <1>3 DEF DayInv, DayTypes, RowsOfDays, CapHolds, HasRow
<1>5. KeptForItsDay'
  BY <1>1, StepType, ThreadsType DEF DayInv, DayTypes, KeptForItsDay
<1>6. Counted'
  BY <1>1, <1>2, <1>3 DEF DayInv, DayTypes, RowsOfDays, Counted, Counting, Entering, HasRow, Rows
<1>7. QED BY <1>3, <1>4, <1>5, <1>6 DEF DayStepHolds, DayInv
-----------------------------------------------------------------------------
LEMMA DayInitHolds == DayInit => DayInv
<1> SUFFICES ASSUME DayInit PROVE DayInv
  OBVIOUS
<1>1. DayTypes /\ KeptForItsDay
  BY NothingType, DaysType, DayAssumption
  DEF DayInit, DayTypes, KeptForItsDay, Labels
<1>2. RowsOfDays /\ CapHolds
  BY DaysType, DayAssumption DEF DayInit, RowsOfDays, CapHolds, HasRow, NoRow
<1>3. Counted
  BY DaysType, ThreadsType DEF DayInit, Counted, Counting, Entering, NoRow
<1>4. QED BY <1>1, <1>2, <1>3 DEF DayInv

LEMMA EveryDayStepHolds == ASSUME DayInv, [DayNext]_dayVars PROVE DayStepHolds
<1>1. CASE Midnight
  BY <1>1, MidnightHolds
<1>2. CASE Restart
  BY <1>2, RestartHolds
<1>3. CASE CheckLimits(MainThread, "entry") \/ CheckLimits(OperatorThread, "limits")
  BY <1>3, CheckLimitsHolds DEF Callers
<1>4. ASSUME NEW t \in Callers, LimitStep(t) PROVE DayStepHolds
  BY <1>4, FetchHolds, SaveHolds, RefreshHolds, JudgeHolds, WriteActiveHolds, PauseHolds,
     SnapshotHolds DEF LimitStep
<1>5. CASE OpenTrade
  BY <1>5, OpenHolds
<1>6. CASE OrderFails
  BY <1>6, OrderFailsHolds
<1>7. CASE RecordEntryOpened
  BY <1>7, RecordHolds
<1>8. CASE CloseTrade \/ UpdateBalance
  BY <1>8, CloseHolds, BalanceHolds
<1>9. CASE ForceResume \/ ForceLimits \/ ForceActive
  BY <1>9, ForceHolds, ForceActiveHolds
<1>10. CASE UNCHANGED dayVars
  <2>1. UNCHANGED <<day, today, file, stats, step, read, opened, restarts>>
    BY <1>10 DEF dayVars, rowVars, dayThreadVars
  <2>2. QED
    BY <2>1 DEF DayStepHolds, StartsKept, DayInv, DayTypes, KeptForItsDay, RowsOfDays, Counted,
                Counting, Entering, CapHolds, HasRow
<1>11. QED
  BY <1>1, <1>2, <1>3, <1>4, <1>5, <1>6, <1>7, <1>8, <1>9, <1>10 DEF DayNext

LEMMA DayInvariant == DaySpec => []DayInv
<1>1. DayInv /\ [DayNext]_dayVars => DayInv'
  BY EveryDayStepHolds DEF DayStepHolds
<1>2. QED BY <1>1, DayInitHolds, PTL DEF DaySpec
-----------------------------------------------------------------------------
OverrideOK == override \in BOOLEAN

LEMMA OverrideType ==
  ASSUME override \in BOOLEAN, [DayNext]_dayVars PROVE override' \in BOOLEAN
<1>1. ASSUME NEW t, NEW reason, CheckLimits(t, reason) PROVE override' \in BOOLEAN
  <2>1. override' = (override /\ today = day)
    BY <1>1 DEF CheckLimits
  <2>2. QED BY <2>1, Zenon
<1>2. CASE Restart \/ ForceLimits
  BY <1>2 DEF Restart, ForceLimits
<1>3. CASE UNCHANGED override
  BY <1>3
<1>4. ASSUME NEW t, LimitStep(t) PROVE UNCHANGED override
  BY <1>4 DEF LimitStep, FetchNewDay, SaveBaseline, RefreshBaseline, JudgeLimits, WriteActive,
     PauseEntries, RiskSnapshot
<1>5. CASE \/ Midnight \/ OpenTrade \/ OrderFails \/ RecordEntryOpened \/ CloseTrade \/ UpdateBalance
           \/ ForceResume \/ ForceActive \/ UNCHANGED dayVars
  <2>1. UNCHANGED override
    BY <1>5 DEF Midnight, OpenTrade, OrderFails, RecordEntryOpened, CloseTrade, UpdateBalance,
       ForceResume, ForceActive, dayVars
  <2>2. QED BY <1>3, <2>1
<1>6. QED BY <1>1, <1>2, <1>3, <1>4, <1>5 DEF DayNext

LEMMA DayTypesShow == DayInv /\ OverrideOK => DayTypeOK
  BY DEF DayInv, DayTypes, Rows, Statuses, DayTypeOK, OverrideOK

(* Every row, file and count has its type; a day's row never counts more       *)
(* entries than MAX_DAILY_TRADES, midnight and restarts included.             *)
THEOREM DayTypesCorrect == DaySpec => []DayTypeOK
<1>1. DayInit => OverrideOK
  BY DEF DayInit, OverrideOK
<1>2. OverrideOK /\ [DayNext]_dayVars => OverrideOK'
  BY OverrideType DEF OverrideOK
<1>3. DayInv /\ OverrideOK => DayTypeOK
  BY DayTypesShow
<1>4. QED BY <1>1, <1>2, <1>3, DayInvariant, PTL DEF DaySpec

(* "Never reuse a previous day's baseline": no start of a day is a wallet read  *)
(* before that day.                                                         *)
THEOREM BaselineOfTheDayCorrect == DaySpec => []BaselineOfTheDay
<1>1. DayInv => BaselineOfTheDay
  BY DEF DayInv, RowsOfDays, BaselineOfTheDay
<1>2. QED BY <1>1, DayInvariant, PTL

(* The start of a day is never changed, by whoever rolls over or restarts.      *)
THEOREM BaselineKeptCorrect == DaySpec => BaselineKept
<1>1. DayInv /\ [DayNext]_dayVars => [StartsKept]_dayVars
  BY EveryDayStepHolds DEF DayStepHolds
<1>2. StartsKept <=> \A d \in Days : HasRow(d) => stats'[d].start = stats[d].start
  BY DEF StartsKept
<1>3. QED BY <1>1, <1>2, DayInvariant, PTL DEF DaySpec, BaselineKept, StartsKept

(* The cap on the day's entries, with the one entry that midnight may hide and  *)
(* one for each restart.                                                    *)
THEOREM CapHoldsCorrect == DaySpec => []CapHolds
<1>1. DayInv => CapHolds
  BY DEF DayInv
<1>2. QED BY <1>1, DayInvariant, PTL
-----------------------------------------------------------------------------
(***************************************************************************)
(* For any coins, universes, queue and number of passes: the funnel           *)
(* implements the strict one of StrictTiers, no promotion outlives the tier    *)
(* it led to, and no coin in a tier loses its candle streams.                 *)
(*                                                                         *)
(* The invariant says of the tiers that they exclude each other, that what    *)
(* passed its backtest is in one of them and what is in Super has passed, and  *)
(* of the streams that the coins which wait for candles have them too: they    *)
(* may enter Hot without being subscribed again.                              *)
(***************************************************************************)
USE FunnelAssumption

(* The coins of the scan, and the validator's while it demotes it.            *)
CoinsOnly ==
    /\ pool \subseteq Coins /\ waiting \subseteq Coins
    /\ hot \subseteq Coins /\ super \subseteq Coins
    /\ vAt \in {"order", "thin"} => vCoin \in Coins

TiersExclude == hot \cap super = {} /\ passed \subseteq hot \cup super /\ super \subseteq passed

Streamed == hot \cup super \cup waiting \subseteq streams

FunnelInv == CoinsOnly /\ TiersExclude /\ NoneStranded /\ Streamed

(* What a step leaves behind, and what it is in the strict funnel.            *)
FunnelStepHolds == FunnelInv' /\ Strict!TiersNext
-----------------------------------------------------------------------------
(* A step that touches no tier and subscribes at most.                        *)
LEMMA TiersKept ==
  ASSUME UNCHANGED tierVars
  PROVE  Strict!TiersNext
  BY DEF tierVars, Tier, Strict!TiersNext, Strict!Stays

LEMMA Idle ==
  ASSUME FunnelInv, UNCHANGED tierVars, UNCHANGED <<pool, waiting, streams>>,
         vAt' \in {"order", "thin"} => vAt' = vAt /\ vCoin' = vCoin,
         vAt \in {"order", "thin"} => vAt' = vAt
  PROVE  FunnelStepHolds
<1>1. Strict!TiersNext
  BY TiersKept
<1>2. FunnelInv'
  BY DEF FunnelInv, CoinsOnly, TiersExclude, NoneStranded, Streamed, tierVars
<1>3. QED BY <1>1, <1>2 DEF FunnelStepHolds

LEMMA NoteFilledHolds ==
  ASSUME FunnelInv, NEW S, NoteFilled(S), UNCHANGED <<scanVars, validatorVars>>
  PROVE  FunnelStepHolds
<1>1. Strict!TiersNext
  BY DEF FunnelInv, TiersExclude, NoteFilled, Tier, Strict!TiersNext, Strict!Stays, Strict!Falls
<1>2. FunnelInv'
  BY DEF FunnelInv, CoinsOnly, TiersExclude, NoneStranded, Streamed, NoteFilled, scanVars,
         validatorVars
<1>3. QED BY <1>1, <1>2 DEF FunnelStepHolds

LEMMA ApplyHotScoresHolds ==
  ASSUME FunnelInv, NEW c \in hot, NEW asking, NEW tested,
         tested = passed \cup {c}, ApplyHotScores(c, asking, tested),
         UNCHANGED <<waiting, streams, validatorVars>>
  PROVE  FunnelStepHolds
<1>1. Strict!TiersNext
  BY DEF FunnelInv, CoinsOnly, TiersExclude, ApplyHotScores, Tier, Strict!TiersNext,
         Strict!Stays, Strict!Falls, Strict!Climbs
<1>2. FunnelInv'
  BY DEF FunnelInv, CoinsOnly, TiersExclude, NoneStranded, Streamed, ApplyHotScores,
         validatorVars
<1>3. QED BY <1>1, <1>2 DEF FunnelStepHolds

LEMMA PromoteHolds ==
  ASSUME FunnelInv, NEW S \in SUBSET (Coins \cap streams'), PromoteFromNormal(Promotable(S)),
         waiting' \subseteq waiting, streams \subseteq streams', UNCHANGED <<pool, validatorVars>>
  PROVE  FunnelStepHolds
<1> DEFINE P == Promotable(S)
<1>1. P \subseteq Coins \cap streams' /\ P \cap (hot \cup super) = {}
  BY DEF Promotable
<1> HIDE DEF P
<1>2. Strict!TiersNext
  BY <1>1 DEF P, FunnelInv, TiersExclude, PromoteFromNormal, Tier, Strict!TiersNext,
         Strict!Stays, Strict!Enters
<1>3. FunnelInv'
  BY <1>1 DEF P, FunnelInv, CoinsOnly, TiersExclude, NoneStranded, Streamed,
         PromoteFromNormal, validatorVars
<1>4. QED BY <1>2, <1>3 DEF FunnelStepHolds
-----------------------------------------------------------------------------
(* The main loop's tick.                                                     *)
LEMMA SeedHolds == ASSUME FunnelInv, SeedUniverse PROVE FunnelStepHolds
<1>1. Strict!TiersNext
  BY TiersKept DEF SeedUniverse
<1>2. (pool' \cup waiting' \subseteq Coins) /\ waiting' \subseteq waiting \cap Kept
  BY DEF FunnelInv, CoinsOnly, SeedUniverse
<1>3. hot \cup super \subseteq Kept
  BY DEF Kept
<1>4. FunnelInv'
  BY <1>2, <1>3 DEF SeedUniverse, FunnelInv, CoinsOnly, TiersExclude, NoneStranded, Streamed,
                    tierVars, validatorVars
<1>5. QED BY <1>1, <1>4 DEF FunnelStepHolds

LEMMA ScanHolds == ASSUME FunnelInv, ScanNormal PROVE FunnelStepHolds
<1>1. PICK c \in pool \ (hot \cup super) :
          /\ streams' = streams \cup {c}
          /\ \/ waiting' = waiting \cup {c} /\ UNCHANGED tierVars
             \/ c \in open /\ UNCHANGED <<waiting, tierVars>>
             \/ /\ waiting' = waiting \ {c}
                /\ \E S \in SUBSET {c} : PromoteFromNormal(Promotable(S))
  BY DEF ScanNormal
<1>2. UNCHANGED <<pool, validatorVars>> /\ c \in Coins
  BY DEF ScanNormal, FunnelInv, CoinsOnly
<1>3. CASE UNCHANGED tierVars
  <2>1. Strict!TiersNext
    BY <1>3, TiersKept
  <2>2. waiting' \subseteq waiting \cup {c}
    BY <1>1
  <2>3. FunnelInv'
    BY <1>1, <1>2, <1>3, <2>2 DEF FunnelInv, CoinsOnly, TiersExclude, NoneStranded, Streamed,
                                  tierVars, validatorVars
  <2>4. QED BY <2>1, <2>3 DEF FunnelStepHolds
<1>4. CASE waiting' = waiting \ {c} /\ (\E S \in SUBSET {c} : PromoteFromNormal(Promotable(S)))
  <2>1. PICK S \in SUBSET {c} : PromoteFromNormal(Promotable(S))
    BY <1>4
  <2>2. S \in SUBSET (Coins \cap streams')
    BY <1>1, <1>2
  <2>3. QED BY <1>1, <1>2, <1>4, <2>1, <2>2, PromoteHolds
<1>5. QED BY <1>1, <1>3, <1>4

LEMMA PendingHolds == ASSUME FunnelInv, ScorePending PROVE FunnelStepHolds
<1>1. PICK ready \in SUBSET (waiting \ open) :
          /\ waiting' = waiting \ ready
          /\ \E S \in SUBSET ready : PromoteFromNormal(Promotable(S))
  BY DEF ScorePending
<1>2. PICK S \in SUBSET ready : PromoteFromNormal(Promotable(S))
  BY <1>1
<1>3. UNCHANGED <<pool, streams, validatorVars>>
  BY DEF ScorePending
<1>4. S \in SUBSET (Coins \cap streams')
  BY <1>1, <1>3 DEF FunnelInv, CoinsOnly, Streamed
<1>5. QED BY <1>1, <1>2, <1>3, <1>4, PromoteHolds

(* Only a request's flag changes, or the passes of a coin.                    *)
LEMMA FlagsOnly ==
  ASSUME FunnelInv, UNCHANGED <<hot, passed, super, promoted>>,
         UNCHANGED <<pool, waiting, streams>>,
         vAt' \in {"order", "thin"} => vAt' = vAt /\ vCoin' = vCoin,
         vAt \in {"order", "thin"} => vAt' = vAt
  PROVE  FunnelStepHolds
<1>1. Strict!TiersNext
  BY DEF Tier, Strict!TiersNext, Strict!Stays
<1>2. FunnelInv'
  BY DEF FunnelInv, CoinsOnly, TiersExclude, NoneStranded, Streamed
<1>3. QED BY <1>1, <1>2 DEF FunnelStepHolds

LEMMA IngestHolds == ASSUME FunnelInv, IngestResult PROVE FunnelStepHolds
<1> DEFINE c == Head(got)
<1> HIDE DEF c
<1>1. UNCHANGED <<waiting, streams, validatorVars>>
  BY DEF IngestResult
<1>2. CASE c \in hot
  <2>1. ApplyHotScores(c, inFlight \ {c}, passed \cup {c})
    BY <1>2 DEF IngestResult, c
  <2>2. QED BY <1>1, <1>2, <2>1, ApplyHotScoresHolds
<1>3. CASE c \notin hot
  <2>1. UNCHANGED <<hot, passed, super, promoted, pool>>
    BY <1>3 DEF IngestResult, c
  <2>2. QED BY <1>1, <2>1, FlagsOnly DEF validatorVars
<1>4. QED BY <1>2, <1>3

LEMMA RescoreHolds == ASSUME FunnelInv, RescoreHot PROVE FunnelStepHolds
<1>1. UNCHANGED <<waiting, quarantine, window, streams, validatorVars>>
  BY DEF RescoreHot
<1>2. CASE UNCHANGED <<tierVars, pool>>
  BY <1>1, <1>2, Idle DEF validatorVars
<1>3. CASE \E c \in Parked :
             IF c \in open THEN NoteFilled({c}) /\ UNCHANGED pool
             ELSE ApplyHotScores(c, inFlight, passed) /\ UNCHANGED passes
  <2>1. PICK c \in Parked :
             IF c \in open THEN NoteFilled({c}) /\ UNCHANGED pool
             ELSE ApplyHotScores(c, inFlight, passed) /\ UNCHANGED passes
    BY <1>3
  <2>2. c \in hot /\ passed = passed \cup {c}
    BY DEF Parked
  <2>3. CASE c \in open
    BY <1>1, <2>1, <2>3, NoteFilledHolds DEF scanVars
  <2>4. CASE c \notin open
    BY <1>1, <2>1, <2>2, <2>4, ApplyHotScoresHolds
  <2>5. QED BY <2>3, <2>4
<1>4. QED BY <1>2, <1>3 DEF RescoreHot

LEMMA ValidateHolds == ASSUME FunnelInv, ValidateSuper PROVE FunnelStepHolds
<1>1. PICK demoted \in SUBSET (super \ open) :
          LET filled == super \cap open
              gone == demoted \cup filled IN
          /\ super' = super \ gone /\ promoted' = promoted \ gone
          /\ hot' = hot \ filled
          /\ passed' = passed \ gone
          /\ pool' = pool \cup demoted
  BY DEF ValidateSuper
<1>2. UNCHANGED <<waiting, streams, validatorVars>>
  BY DEF ValidateSuper
<1>3. hot' = hot
  BY <1>1 DEF FunnelInv, TiersExclude
<1>4. Strict!TiersNext
  BY <1>1, <1>3 DEF FunnelInv, TiersExclude, Tier, Strict!TiersNext, Strict!Stays, Strict!Falls
<1>5. FunnelInv'
  BY <1>1, <1>2, <1>3 DEF FunnelInv, CoinsOnly, TiersExclude, NoneStranded, Streamed,
                          validatorVars
<1>6. QED BY <1>4, <1>5 DEF FunnelStepHolds
-----------------------------------------------------------------------------
(* The validator's thread.                                                   *)
LEMMA BeginDemotionHolds ==
  ASSUME FunnelInv, NEW label \in {"order", "thin"}, BeginDemotion(label)
  PROVE  FunnelStepHolds
<1>1. Strict!TiersNext
  BY DEF BeginDemotion, FunnelInv, TiersExclude, Tier, Strict!TiersNext, Strict!Stays,
         Strict!Falls
<1>2. FunnelInv'
  BY DEF BeginDemotion, Validates, FunnelInv, CoinsOnly, TiersExclude, NoneStranded, Streamed,
         scanVars
<1>3. QED BY <1>1, <1>2 DEF FunnelStepHolds

LEMMA EndDemotionHolds == ASSUME FunnelInv, EndDemotion PROVE FunnelStepHolds
<1>1. Strict!TiersNext
  BY DEF EndDemotion, Tier, Strict!TiersNext, Strict!Stays
<1>2. FunnelInv'
  BY DEF EndDemotion, FunnelInv, CoinsOnly, TiersExclude, NoneStranded, Streamed
<1>3. QED BY <1>1, <1>2 DEF FunnelStepHolds
-----------------------------------------------------------------------------
LEMMA FunnelInitHolds == FunnelInit => FunnelInv /\ Strict!TiersInit
  BY DEF FunnelInit, FunnelInv, CoinsOnly, TiersExclude, NoneStranded, Streamed, Tier,
         Strict!TiersInit

LEMMA EveryFunnelStepHolds == ASSUME FunnelInv, [FunnelNext]_funnelVars PROVE FunnelStepHolds
<1> USE DEF scanVars, validatorVars, tierVars
<1>1. CASE AdoptFills
  BY <1>1, NoteFilledHolds DEF AdoptFills
<1>2. CASE SeedUniverse
  BY <1>2, SeedHolds
<1>3. CASE ScanNormal
  BY <1>3, ScanHolds
<1>4. CASE ScorePending
  BY <1>4, PendingHolds
<1>5. CASE LockHolds \/ NoneDue \/ NoHotDue \/ Enqueue \/ DrainApproved \/ NothingApproved
           \/ EndTick \/ TickFails
  BY <1>5, Idle DEF LockHolds, NoneDue, NoHotDue, Enqueue, DrainApproved, NothingApproved,
                    EndTick, TickFails
<1>6. CASE TakeHotForRest \/ EnqueueRefused \/ NoteHotRestStarted
  BY <1>6, FlagsOnly DEF TakeHotForRest, EnqueueRefused, NoteHotRestStarted
<1>7. CASE IngestResult
  BY <1>7, IngestHolds
<1>8. CASE RescoreHot
  BY <1>8, RescoreHolds
<1>9. CASE EvaluateSuper
  BY <1>9, NoteFilledHolds DEF EvaluateSuper
<1>10. CASE ValidateSuper
  BY <1>10, ValidateHolds
<1>11. CASE TakeRequest \/ BacktestPassed \/ RequestEnds
  BY <1>11, Idle DEF TakeRequest, BacktestPassed, RequestEnds, Validates
<1>12. CASE Deferred \/ ThinHistory \/ RejectedTooLate
  BY <1>12, FlagsOnly DEF Deferred, ThinHistory, RejectedTooLate, Validates
<1>13. CASE Rejected \/ RunsOutOfPasses
  BY <1>13, BeginDemotionHolds DEF Rejected, RunsOutOfPasses
<1>14. CASE EndDemotion
  BY <1>14, EndDemotionHolds
<1>15. CASE BeginDayValidation \/ WindowEnds
  BY <1>15, Idle DEF BeginDayValidation, WindowEnds
<1>16. ASSUME NEW c \in Coins, EntryFills(c) PROVE FunnelStepHolds
  BY <1>16, NoteFilledHolds DEF EntryFills
<1>17. ASSUME NEW c \in Coins, EntryUnknown(c) \/ QuarantineEnds(c) \/ PositionCloses(c)
       PROVE  FunnelStepHolds
  BY <1>17, Idle DEF EntryUnknown, QuarantineEnds, PositionCloses
<1>18. CASE UNCHANGED funnelVars
  BY <1>18, Idle DEF funnelVars
<1>19. QED
  BY <1>1, <1>2, <1>3, <1>4, <1>5, <1>6, <1>7, <1>8, <1>9, <1>10, <1>11, <1>12, <1>13, <1>14,
     <1>15, <1>16, <1>17, <1>18 DEF FunnelNext

LEMMA FunnelInvariant == FunnelSpec => []FunnelInv
<1>1. FunnelInv /\ [FunnelNext]_funnelVars => FunnelInv'
  BY EveryFunnelStepHolds DEF FunnelStepHolds
<1>2. QED BY <1>1, FunnelInitHolds, PTL DEF FunnelSpec
-----------------------------------------------------------------------------
(***************************************************************************)
(* The types, and the queue of backtests: what is queued is what the queue     *)
(* holds, each coin once, and the one coin the validator is at.               *)
(***************************************************************************)
SetsOK ==
    /\ pool \subseteq Coins /\ waiting \subseteq Coins /\ hot \subseteq Coins
    /\ listed \subseteq Coins /\ passed \subseteq Coins /\ inFlight \subseteq Coins
    /\ super \subseteq Coins /\ promoted \subseteq Coins /\ quarantine \subseteq Coins
    /\ streams \subseteq Coins /\ draft \subseteq Coins /\ chosen \subseteq Coins
    /\ open \subseteq Coins /\ unknown \subseteq Coins

Held(s) == {s[i] : i \in 1 .. Len(s)}
Once(s) == \A i, j \in 1 .. Len(s) : s[i] = s[j] => i = j
QueueOK ==
    /\ inbound \in Seq(Coins) /\ Len(inbound) <= QueueMax /\ Once(inbound)
    /\ queued = Held(inbound) \cup ({vCoin} \ {NoCoin})
    /\ vCoin \notin Held(inbound)
    /\ vAt \in {"get", "decide", "order", "thin", "done"}
    /\ vCoin \in Coins \cup {NoCoin} /\ (vAt = "get" <=> vCoin = NoCoin)
ResultsOK == approved \in Seq(Coins) /\ got \in Seq(Coins)
Places == {"adopt", "seed", "normal", "pending", "rest", "put", "noted", "ingest",
           "results", "rescore", "super", "dispatch"}
TickOK ==
    /\ mAt \in Places /\ mCoin \in Coins \cup {NoCoin}
    /\ mAt \in {"put", "noted"} => mCoin \in Coins
PassesOK == passes \in [Coins -> 0 .. MaxPasses]
WindowOK == window \in BOOLEAN
FunnelTypes == SetsOK /\ QueueOK /\ ResultsOK /\ TickOK /\ PassesOK

(* A request is appended, and the oldest one taken away.                      *)
LEMMA Appended ==
  ASSUME NEW s \in Seq(Coins), NEW c \in Coins, c \notin Held(s), Once(s)
  PROVE  /\ Append(s, c) \in Seq(Coins) /\ Len(Append(s, c)) = Len(s) + 1
         /\ Held(Append(s, c)) = Held(s) \cup {c} /\ Once(Append(s, c))
<1> DEFINE a == Append(s, c)
<1>1. a \in Seq(Coins) /\ Len(a) = Len(s) + 1 /\ a[Len(s) + 1] = c /\ Len(s) \in Nat
  OBVIOUS
<1>2. \A i \in 1 .. Len(s) : a[i] = s[i]
  OBVIOUS
<1> HIDE DEF a
<1>3. Held(a) = Held(s) \cup {c}
  BY <1>1, <1>2 DEF Held
<1>4. ASSUME NEW i \in 1 .. Len(a), NEW j \in 1 .. Len(a), a[i] = a[j] PROVE i = j
  BY <1>1, <1>2, <1>4 DEF Held, Once
<1> QED BY <1>1, <1>3, <1>4 DEF Once, a

LEMMA Taken ==
  ASSUME NEW s \in Seq(Coins), s # <<>>, Once(s)
  PROVE  /\ Tail(s) \in Seq(Coins) /\ Len(Tail(s)) = Len(s) - 1 /\ Len(s) \in Nat \ {0}
         /\ Head(s) \in Coins /\ Head(s) \notin Held(Tail(s))
         /\ Held(s) = Held(Tail(s)) \cup {Head(s)} /\ Once(Tail(s))
<1> DEFINE t == Tail(s)
<1>1. t \in Seq(Coins) /\ Len(t) = Len(s) - 1 /\ Head(s) = s[1] /\ Len(s) \in Nat \ {0} /\ Head(s) \in Coins
  OBVIOUS
<1>2. \A i \in 1 .. Len(t) : t[i] = s[i + 1] /\ i + 1 \in 1 .. Len(s)
  BY <1>1
<1> HIDE DEF t
<1>3. Head(s) \notin Held(t) /\ Once(t)
  BY <1>1, <1>2 DEF Held, Once
<1>4. Held(s) \subseteq Held(t) \cup {Head(s)}
  <2>1. ASSUME NEW i \in 1 .. Len(s) PROVE s[i] \in Held(t) \cup {Head(s)}
    <3>1. CASE i = 1
      BY <1>1, <3>1
    <3>2. CASE i # 1
      <4>1. i - 1 \in 1 .. Len(t) /\ (i - 1) + 1 = i
        BY <1>1, <3>2
      <4>2. t[i - 1] = s[i]
        BY <1>2, <4>1
      <4> QED BY <4>1, <4>2 DEF Held
    <3> QED BY <3>1, <3>2
  <2> QED BY <2>1 DEF Held
<1>5. Held(t) \cup {Head(s)} \subseteq Held(s)
  BY <1>1, <1>2 DEF Held
<1> QED BY <1>1, <1>3, <1>4, <1>5 DEF t

LEMMA SetsStep == ASSUME FunnelTypes, [FunnelNext]_funnelVars PROVE SetsOK'
<1> USE DEF tierVars, scanVars, queueVars, validatorVars, tickVars, tradeState
<1>0. SetsOK /\ mCoin \in Coins \cup {NoCoin} /\ (mAt \in {"put", "noted"} => mCoin \in Coins)
      /\ (vAt # "get" => vCoin \in Coins)
  BY DEF FunnelTypes, TickOK, QueueOK
<1>1. CASE AdoptFills
  BY <1>0, <1>1 DEF AdoptFills, NoteFilled, SetsOK
<1>2. CASE SeedUniverse
  BY <1>0, <1>2 DEF SeedUniverse, SetsOK
<1>3. CASE ScanNormal
  BY <1>0, <1>3 DEF ScanNormal, PromoteFromNormal, Promotable, SetsOK
<1>4. CASE ScorePending
  BY <1>0, <1>4 DEF ScorePending, PromoteFromNormal, Promotable, SetsOK
<1>5. CASE LockHolds \/ NoneDue \/ NoHotDue \/ Enqueue \/ DrainApproved \/ NothingApproved
           \/ EndTick \/ TickFails
  BY <1>0, <1>5 DEF LockHolds, NoneDue, NoHotDue, Enqueue, DrainApproved, NothingApproved,
                    EndTick, TickFails, SetsOK
<1>6. CASE TakeHotForRest \/ EnqueueRefused \/ NoteHotRestStarted
  BY <1>0, <1>6 DEF TakeHotForRest, EnqueueRefused, NoteHotRestStarted, Ticks, SetsOK
<1>7. CASE IngestResult
  <2>1. Head(got) \in Coins
    BY <1>7 DEF IngestResult, FunnelTypes, ResultsOK
  <2>2. QED BY <1>0, <1>7, <2>1 DEF IngestResult, ApplyHotScores, SetsOK
<1>8. CASE RescoreHot
  <2>1. UNCHANGED <<waiting, quarantine, streams, draft, chosen, open, unknown>>
    BY <1>8 DEF RescoreHot
  <2>2. CASE UNCHANGED <<tierVars, pool>>
    BY <1>0, <2>1, <2>2 DEF SetsOK
  <2>3. ASSUME NEW c \in Parked, NoteFilled({c}), UNCHANGED pool PROVE SetsOK'
    BY <1>0, <2>1, <2>3 DEF NoteFilled, SetsOK
  <2>4. ASSUME NEW c \in Parked, ApplyHotScores(c, inFlight, passed) PROVE SetsOK'
    <3>1. c \in Coins
      BY <1>0 DEF Parked, SetsOK
    <3> QED BY <1>0, <2>1, <2>4, <3>1 DEF ApplyHotScores, SetsOK
  <2> QED BY <1>8, <2>2, <2>3, <2>4 DEF RescoreHot
<1>9. CASE EvaluateSuper \/ ValidateSuper
  BY <1>0, <1>9 DEF EvaluateSuper, ValidateSuper, NoteFilled, SetsOK
<1>11. CASE TakeRequest \/ BacktestPassed \/ RequestEnds \/ Deferred \/ ThinHistory \/ RejectedTooLate
  BY <1>0, <1>11 DEF TakeRequest, BacktestPassed, RequestEnds, Deferred, ThinHistory,
                     RejectedTooLate, SetsOK
<1>13. CASE Rejected \/ RunsOutOfPasses
  BY <1>0, <1>13 DEF Rejected, RunsOutOfPasses, BeginDemotion, SetsOK
<1>14. CASE EndDemotion
  BY <1>0, <1>14 DEF EndDemotion, SetsOK
<1>15. CASE BeginDayValidation \/ WindowEnds
  BY <1>0, <1>15 DEF BeginDayValidation, WindowEnds, SetsOK
<1>16. ASSUME NEW c \in Coins,
              EntryFills(c) \/ EntryUnknown(c) \/ QuarantineEnds(c) \/ PositionCloses(c)
       PROVE  SetsOK'
  BY <1>0, <1>16 DEF EntryFills, EntryUnknown, QuarantineEnds, PositionCloses, NoteFilled, SetsOK
<1>17. CASE UNCHANGED funnelVars
  BY <1>0, <1>17 DEF funnelVars, SetsOK
<1> QED BY <1>1, <1>2, <1>3, <1>4, <1>5, <1>6, <1>7, <1>8, <1>9, <1>11, <1>13, <1>14,
           <1>15, <1>16, <1>17 DEF FunnelNext

LEMMA QueueStep == ASSUME FunnelTypes, [FunnelNext]_funnelVars PROVE QueueOK'
<1> USE DEF queueVars, validatorVars
<1>0. QueueOK
  BY DEF FunnelTypes
<1>1. CASE UNCHANGED <<inbound, queued, vAt, vCoin>>
  BY <1>0, <1>1 DEF QueueOK, Held, Once
<1>2. CASE \/ AdoptFills \/ SeedUniverse \/ LockHolds \/ ScanNormal \/ NoneDue \/ ScorePending
           \/ TakeHotForRest \/ NoHotDue \/ EnqueueRefused \/ NoteHotRestStarted
           \/ DrainApproved \/ IngestResult \/ NothingApproved \/ RescoreHot
           \/ EvaluateSuper \/ ValidateSuper \/ EndTick \/ TickFails
           \/ BeginDayValidation \/ WindowEnds \/ UNCHANGED funnelVars
  BY <1>1, <1>2
  DEF AdoptFills, SeedUniverse, LockHolds, ScanNormal, NoneDue, ScorePending, TakeHotForRest,
      NoHotDue, EnqueueRefused, NoteHotRestStarted, DrainApproved, IngestResult, NothingApproved,
      RescoreHot, EvaluateSuper, ValidateSuper, EndTick, TickFails, BeginDayValidation,
      WindowEnds, funnelVars
<1>3. ASSUME NEW c \in Coins,
             EntryFills(c) \/ EntryUnknown(c) \/ QuarantineEnds(c) \/ PositionCloses(c)
      PROVE  QueueOK'
  BY <1>1, <1>3 DEF EntryFills, EntryUnknown, QuarantineEnds, PositionCloses
<1>4. CASE Enqueue
  <2>1. /\ mCoin \in Coins /\ mCoin \notin queued /\ UNCHANGED <<vAt, vCoin>>
        /\ inbound' = Append(RoomMade.left, mCoin)
        /\ queued' = (queued \ RoomMade.gone) \cup {mCoin}
    BY <1>4 DEF Enqueue, Ticks, FunnelTypes, TickOK
  <2> DEFINE left == RoomMade.left
             gone == RoomMade.gone
  <2>2. /\ left \in Seq(Coins) /\ Len(left) < QueueMax /\ Len(left) \in Nat /\ Once(left)
        /\ Held(left) \subseteq Held(inbound) /\ gone \cap Held(left) = {}
        /\ gone \subseteq Held(inbound) /\ Held(inbound) = Held(left) \cup gone
    <3>1. CASE Len(inbound) < QueueMax
      BY <1>0, <3>1 DEF RoomMade, QueueOK
    <3>2. CASE ~(Len(inbound) < QueueMax)
      <4>1. inbound \in Seq(Coins) /\ inbound # <<>> /\ Once(inbound) /\ Len(inbound) <= QueueMax
        BY <1>0, <3>2 DEF QueueOK
      <4>2. left = Tail(inbound) /\ gone = {Head(inbound)}
        BY <3>2 DEF RoomMade
      <4> QED BY <4>1, <4>2, Taken
    <3> QED BY <3>1, <3>2
  <2> HIDE DEF left, gone
  <2>3. mCoin \notin Held(left) /\ vCoin # mCoin /\ vCoin \notin Held(inbound)
    BY <1>0, <2>1, <2>2 DEF QueueOK
  <2>4. /\ inbound' \in Seq(Coins) /\ Len(inbound') = Len(left) + 1
        /\ Held(inbound') = Held(left) \cup {mCoin} /\ Once(inbound')
    BY <2>1, <2>2, <2>3, Appended DEF left
  <2>5. Len(inbound') <= QueueMax
    BY <2>2, <2>4
  <2>6. queued' = Held(inbound') \cup ({vCoin} \ {NoCoin})
    BY <1>0, <2>1, <2>2, <2>3, <2>4 DEF QueueOK, gone
  <2> QED BY <1>0, <2>1, <2>2, <2>3, <2>4, <2>5, <2>6 DEF QueueOK
<1>5. CASE TakeRequest
  <2>1. /\ inbound # <<>> /\ vAt = "get" /\ vAt' = "decide" /\ vCoin' = Head(inbound)
        /\ inbound' = Tail(inbound) /\ queued' = queued
    BY <1>5 DEF TakeRequest, Validates
  <2>2. inbound \in Seq(Coins) /\ Once(inbound) /\ Len(inbound) <= QueueMax /\ vCoin = NoCoin
        /\ queued = Held(inbound)
    BY <1>0, <2>1 DEF QueueOK
  <2>3. /\ Tail(inbound) \in Seq(Coins) /\ Len(Tail(inbound)) = Len(inbound) - 1
        /\ Len(inbound) \in Nat \ {0}
        /\ Head(inbound) \in Coins /\ Head(inbound) \notin Held(Tail(inbound))
        /\ Held(inbound) = Held(Tail(inbound)) \cup {Head(inbound)} /\ Once(Tail(inbound))
    BY <2>1, <2>2, Taken
  <2> QED BY <2>1, <2>2, <2>3 DEF QueueOK
<1>6. CASE BacktestPassed \/ Deferred \/ ThinHistory \/ RejectedTooLate
  <2>1. UNCHANGED <<inbound, queued, vCoin>> /\ vAt = "decide" /\ vAt' = "done"
    BY <1>6 DEF BacktestPassed, Deferred, ThinHistory, RejectedTooLate, Validates
  <2> QED BY <1>0, <2>1 DEF QueueOK, Held, Once
<1>7. CASE Rejected \/ RunsOutOfPasses \/ EndDemotion
  <2>1. /\ UNCHANGED <<inbound, queued, vCoin>> /\ vAt \in {"decide", "order", "thin"}
        /\ vAt' \in {"order", "thin", "done"}
    BY <1>7 DEF Rejected, RunsOutOfPasses, BeginDemotion, EndDemotion, Validates
  <2> QED BY <1>0, <2>1 DEF QueueOK, Held, Once
<1>8. CASE RequestEnds
  <2>1. /\ UNCHANGED inbound /\ vAt = "done" /\ vAt' = "get" /\ vCoin' = NoCoin
        /\ queued' = queued \ {vCoin}
    BY <1>8 DEF RequestEnds, Validates
  <2>2. /\ vCoin \in Coins /\ vCoin # NoCoin /\ vCoin \notin Held(inbound)
        /\ queued = Held(inbound) \cup {vCoin} /\ inbound \in Seq(Coins)
    BY <1>0, <2>1 DEF QueueOK
  <2>3. Held(inbound) \subseteq Coins
    BY <2>2 DEF Held
  <2> QED BY <1>0, <2>1, <2>2, <2>3 DEF QueueOK, Held, Once
<1> QED BY <1>2, <1>3, <1>4, <1>5, <1>6, <1>7, <1>8 DEF FunnelNext

LEMMA ResultsStep == ASSUME FunnelTypes, [FunnelNext]_funnelVars PROVE ResultsOK'
<1> USE DEF queueVars, tickVars
<1>0. ResultsOK /\ (vAt # "get" => vCoin \in Coins)
  BY DEF FunnelTypes, QueueOK
<1>1. CASE UNCHANGED <<approved, got>>
  BY <1>0, <1>1 DEF ResultsOK
<1>2. CASE \/ AdoptFills \/ SeedUniverse \/ LockHolds \/ ScanNormal \/ NoneDue \/ ScorePending
           \/ TakeHotForRest \/ NoHotDue \/ Enqueue \/ EnqueueRefused \/ NoteHotRestStarted
           \/ NothingApproved \/ RescoreHot \/ EvaluateSuper \/ ValidateSuper \/ EndTick
           \/ TakeRequest \/ Deferred \/ ThinHistory \/ Rejected \/ RunsOutOfPasses
           \/ RejectedTooLate \/ EndDemotion \/ RequestEnds
           \/ BeginDayValidation \/ WindowEnds \/ UNCHANGED funnelVars
  BY <1>1, <1>2
  DEF AdoptFills, SeedUniverse, LockHolds, ScanNormal, NoneDue, ScorePending, TakeHotForRest,
      NoHotDue, Enqueue, EnqueueRefused, NoteHotRestStarted, NothingApproved, RescoreHot,
      EvaluateSuper, ValidateSuper, EndTick, TakeRequest, Deferred, ThinHistory, Rejected,
      RunsOutOfPasses, BeginDemotion, RejectedTooLate, EndDemotion, RequestEnds,
      BeginDayValidation, WindowEnds, funnelVars
<1>3. ASSUME NEW c \in Coins,
             EntryFills(c) \/ EntryUnknown(c) \/ QuarantineEnds(c) \/ PositionCloses(c)
      PROVE  ResultsOK'
  BY <1>1, <1>3 DEF EntryFills, EntryUnknown, QuarantineEnds, PositionCloses
<1>4. CASE DrainApproved \/ TickFails
  <2>1. <<>> \in Seq(Coins)
    OBVIOUS
  <2>2. approved' \in {approved, <<>>} /\ got' \in {approved, <<>>}
    BY <1>4 DEF DrainApproved, TickFails
  <2> QED BY <1>0, <2>1, <2>2 DEF ResultsOK
<1>5. CASE IngestResult
  BY <1>0, <1>5 DEF IngestResult, ResultsOK
<1>6. CASE BacktestPassed
  BY <1>0, <1>6 DEF BacktestPassed, Validates, ResultsOK
<1> QED BY <1>2, <1>3, <1>4, <1>5, <1>6 DEF FunnelNext

LEMMA TickStep == ASSUME FunnelTypes, [FunnelNext]_funnelVars PROVE TickOK'
<1> USE DEF tickVars, Ticks, Places
<1>0. TickOK /\ SetsOK
  BY DEF FunnelTypes
<1>1. CASE UNCHANGED <<mAt, mCoin>>
  BY <1>0, <1>1 DEF TickOK
<1>2. CASE \/ TakeRequest \/ BacktestPassed \/ Deferred \/ ThinHistory \/ Rejected \/ RunsOutOfPasses
           \/ RejectedTooLate \/ EndDemotion \/ RequestEnds
           \/ BeginDayValidation \/ WindowEnds \/ UNCHANGED funnelVars
  BY <1>1, <1>2
  DEF TakeRequest, BacktestPassed, Deferred, ThinHistory, Rejected, RunsOutOfPasses, BeginDemotion,
      RejectedTooLate, EndDemotion, RequestEnds, BeginDayValidation, WindowEnds, funnelVars
<1>3. ASSUME NEW c \in Coins,
             EntryFills(c) \/ EntryUnknown(c) \/ QuarantineEnds(c) \/ PositionCloses(c)
      PROVE  TickOK'
  BY <1>1, <1>3 DEF EntryFills, EntryUnknown, QuarantineEnds, PositionCloses
<1>4. CASE \/ AdoptFills \/ SeedUniverse \/ LockHolds \/ ScanNormal \/ NoneDue \/ ScorePending
           \/ NoHotDue \/ DrainApproved \/ IngestResult \/ NothingApproved \/ RescoreHot
           \/ EvaluateSuper \/ ValidateSuper \/ EndTick \/ TickFails
  <2>1. mCoin' = mCoin /\ mAt' \in Places \ {"put", "noted"}
    BY <1>4
    DEF AdoptFills, SeedUniverse, LockHolds, ScanNormal, NoneDue, ScorePending, NoHotDue,
        DrainApproved, IngestResult, NothingApproved, RescoreHot, EvaluateSuper, ValidateSuper,
        EndTick, TickFails
  <2> QED BY <1>0, <2>1 DEF TickOK
<1>5. CASE TakeHotForRest
  BY <1>0, <1>5 DEF TakeHotForRest, TickOK, SetsOK
<1>6. CASE Enqueue \/ EnqueueRefused \/ NoteHotRestStarted
  BY <1>0, <1>6 DEF Enqueue, EnqueueRefused, NoteHotRestStarted, TickOK
<1> QED BY <1>2, <1>3, <1>4, <1>5, <1>6 DEF FunnelNext

LEMMA PassesStep == ASSUME FunnelTypes, [FunnelNext]_funnelVars PROVE PassesOK'
<1> USE DEF tierVars
<1>0. PassesOK
  BY DEF FunnelTypes
<1>1. CASE UNCHANGED passes
  BY <1>0, <1>1 DEF PassesOK
<1>2. ASSUME NEW S, Forgotten(S) PROVE PassesOK'
  BY <1>0, <1>2 DEF Forgotten, PassesOK
<1>3. CASE \/ SeedUniverse \/ LockHolds \/ NoneDue
           \/ NoHotDue \/ TakeHotForRest \/ Enqueue \/ EnqueueRefused \/ NoteHotRestStarted
           \/ DrainApproved \/ NothingApproved \/ ValidateSuper \/ EndTick \/ TickFails
           \/ TakeRequest \/ BacktestPassed \/ Deferred \/ RejectedTooLate \/ EndDemotion
           \/ RequestEnds \/ BeginDayValidation \/ WindowEnds \/ UNCHANGED funnelVars
  BY <1>1, <1>3
  DEF SeedUniverse, LockHolds, NoneDue, NoHotDue, TakeHotForRest, Enqueue, EnqueueRefused,
      NoteHotRestStarted, DrainApproved, NothingApproved, ValidateSuper, EndTick, TickFails,
      TakeRequest, BacktestPassed, Deferred, RejectedTooLate, EndDemotion, RequestEnds,
      BeginDayValidation, WindowEnds, funnelVars
<1>4. ASSUME NEW c \in Coins, EntryUnknown(c) \/ QuarantineEnds(c) \/ PositionCloses(c)
      PROVE  PassesOK'
  BY <1>1, <1>4 DEF EntryUnknown, QuarantineEnds, PositionCloses
<1>5. CASE AdoptFills \/ EvaluateSuper \/ \E c \in Coins : EntryFills(c)
  BY <1>2, <1>5 DEF AdoptFills, EvaluateSuper, EntryFills, NoteFilled
<1>6. CASE ScanNormal \/ ScorePending
  BY <1>1, <1>6 DEF ScanNormal, ScorePending, PromoteFromNormal
<1>7. CASE IngestResult \/ ThinHistory
  BY <1>0, <1>7 DEF IngestResult, ThinHistory, PassesOK
<1>8. CASE RescoreHot
  BY <1>1, <1>2, <1>8 DEF RescoreHot, NoteFilled
<1>9. CASE Rejected \/ RunsOutOfPasses
  BY <1>2, <1>9 DEF Rejected, RunsOutOfPasses, BeginDemotion
<1> QED BY <1>3, <1>4, <1>5, <1>6, <1>7, <1>8, <1>9 DEF FunnelNext

LEMMA WindowStep == ASSUME WindowOK, [FunnelNext]_funnelVars PROVE WindowOK'
<1> USE DEF scanVars
<1>1. CASE UNCHANGED window
  BY <1>1 DEF WindowOK
<1>2. CASE BeginDayValidation \/ WindowEnds
  BY <1>2, Zenon DEF BeginDayValidation, WindowEnds, WindowOK
<1>3. CASE ~(BeginDayValidation \/ WindowEnds)
  <2>1. UNCHANGED window
    BY <1>3
    DEF FunnelNext, AdoptFills, SeedUniverse, LockHolds, ScanNormal, NoneDue, ScorePending,
        TakeHotForRest, NoHotDue, Enqueue, EnqueueRefused, NoteHotRestStarted, DrainApproved,
        IngestResult, NothingApproved, RescoreHot, EvaluateSuper, ValidateSuper, EndTick, TickFails,
        TakeRequest, BacktestPassed, Deferred, ThinHistory, Rejected, RunsOutOfPasses,
        BeginDemotion, RejectedTooLate, EndDemotion, RequestEnds, EntryFills, EntryUnknown,
        QuarantineEnds, PositionCloses, funnelVars
  <2> QED BY <1>1, <2>1
<1> QED BY <1>2, <1>3

LEMMA FunnelStarts == FunnelInit => FunnelTypes /\ WindowOK
<1> SUFFICES ASSUME FunnelInit PROVE FunnelTypes /\ WindowOK
  OBVIOUS
<1>1. <<>> \in Seq(Coins) /\ Len(<<>>) = 0 /\ 0 <= QueueMax
  OBVIOUS
<1>2. SetsOK /\ TickOK /\ PassesOK /\ WindowOK
  <2>1. SetsOK /\ TickOK
    BY DEF FunnelInit, SetsOK, TickOK, Places
  <2>2. passes = [c \in Coins |-> 0] /\ 0 \in 0 .. MaxPasses
    BY DEF FunnelInit
  <2>3. PassesOK
    BY <2>2 DEF PassesOK
  <2>4. WindowOK
    BY DEF FunnelInit, WindowOK
  <2> QED BY <2>1, <2>3, <2>4
<1>3. ResultsOK
  BY <1>1 DEF FunnelInit, ResultsOK
<1>4. Held(inbound) = {} /\ Once(inbound) /\ Len(inbound) <= QueueMax
  BY <1>1 DEF FunnelInit, Held, Once
<1>5. QueueOK
  BY <1>1, <1>4 DEF FunnelInit, QueueOK
<1> QED BY <1>2, <1>3, <1>5 DEF FunnelTypes

LEMMA FunnelTypesStep == ASSUME FunnelTypes, [FunnelNext]_funnelVars PROVE FunnelTypes'
  BY SetsStep, QueueStep, ResultsStep, TickStep, PassesStep DEF FunnelTypes

LEMMA FunnelTypesShow == FunnelTypes /\ WindowOK => FunnelTypeOK
<1> SUFFICES ASSUME FunnelTypes, WindowOK PROVE FunnelTypeOK
  OBVIOUS
<1>1. queued \subseteq Coins
  <2>1. \A i \in 1 .. Len(inbound) : inbound[i] \in Coins
    BY DEF FunnelTypes, QueueOK
  <2>2. Held(inbound) \subseteq Coins
    BY <2>1 DEF Held
  <2> QED BY <2>2 DEF FunnelTypes, QueueOK
<1>2. \A S \in {pool, waiting, hot, listed, passed, inFlight, super, promoted,
                quarantine, streams, queued, draft, chosen, open, unknown} : S \subseteq Coins
  BY <1>1 DEF FunnelTypes, SetsOK
<1>3. /\ inbound \in Seq(Coins) /\ Len(inbound) <= QueueMax
      /\ queued = {inbound[i] : i \in 1 .. Len(inbound)} \cup ({vCoin} \ {NoCoin})
      /\ \A i, j \in 1 .. Len(inbound) : inbound[i] = inbound[j] => i = j
      /\ vAt \in {"get", "decide", "order", "thin", "done"} /\ vCoin \in Coins \cup {NoCoin}
  BY DEF FunnelTypes, QueueOK, Held, Once
<1>4. approved \in Seq(Coins) /\ got \in Seq(Coins) /\ passes \in [Coins -> 0 .. MaxPasses]
  BY DEF FunnelTypes, ResultsOK, PassesOK
<1>5. /\ mAt \in {"adopt", "seed", "normal", "pending", "rest", "put", "noted", "ingest",
                  "results", "rescore", "super", "dispatch"}
      /\ mCoin \in Coins \cup {NoCoin}
  BY DEF FunnelTypes, TickOK, Places
<1>6. window \in BOOLEAN
  BY DEF WindowOK
<1>7. {vCoin, mCoin} \subseteq Coins \cup {NoCoin}
  BY <1>3, <1>5
<1> HIDE DEF FunnelTypes, WindowOK
<1> QED BY <1>2, <1>3, <1>4, <1>5, <1>6, <1>7 DEF FunnelTypeOK

(* Every tier, queue and result has its type, and the validator's set of queued *)
(* coins is what its bounded queue holds, each once, and the coin it is at:     *)
(* whatever is dropped, deferred, rejected or fails, a coin can be queued again. *)
THEOREM FunnelTypesCorrect == FunnelSpec => []FunnelTypeOK
<1>1. FunnelInit => FunnelTypes /\ WindowOK
  BY FunnelStarts
<1>2. FunnelTypes /\ [FunnelNext]_funnelVars => FunnelTypes'
  BY FunnelTypesStep
<1>3. WindowOK /\ [FunnelNext]_funnelVars => WindowOK'
  BY WindowStep
<1>4. FunnelTypes /\ WindowOK => FunnelTypeOK
  BY FunnelTypesShow
<1> QED BY <1>1, <1>2, <1>3, <1>4, PTL DEF FunnelSpec

(* Whichever of the two a behaviour is about.                                 *)
DecisionInv ==
    /\ part \in {"day", "funnel"}
    /\ part = "day" => DayInv /\ OverrideOK
    /\ part = "funnel" => FunnelTypes /\ WindowOK

(* So in the composition: the types of the day and of the funnel, the queue of  *)
(* AsyncBacktestValidator among them.                                         *)
THEOREM DecisionTypesCorrect == DecisionSpec => []DecisionTypesOK
<1>1. DecisionInit => DecisionInv
  <2>1. DayInit => DayInv /\ OverrideOK
    BY DayInitHolds DEF DayInit, OverrideOK
  <2>2. FunnelInit => FunnelTypes /\ WindowOK
    BY FunnelStarts
  <2> QED BY <2>1, <2>2 DEF DecisionInit, DecisionInv
<1>2. DecisionInv /\ [DecisionNext]_decisionVars => DecisionInv'
  <2> SUFFICES ASSUME DecisionInv, [DecisionNext]_decisionVars PROVE DecisionInv'
    OBVIOUS
  <2>1. /\ part' = part
        /\ part = "day" => [DayNext]_dayVars
        /\ part = "funnel" => [FunnelNext]_funnelVars
    BY DEF DecisionNext, decisionVars
  <2>2. CASE part = "day"
    BY <2>1, <2>2, EveryDayStepHolds, OverrideType DEF DecisionInv, DayStepHolds, OverrideOK
  <2>3. CASE part = "funnel"
    BY <2>1, <2>3, FunnelTypesStep, WindowStep DEF DecisionInv
  <2> QED BY <2>2, <2>3 DEF DecisionInv
<1>3. DecisionInv => DecisionTypesOK
  BY DayTypesShow, FunnelTypesShow DEF DecisionInv, DecisionTypesOK
<1> QED BY <1>1, <1>2, <1>3, PTL DEF DecisionSpec

(* No coin is kept out of Hot by a promotion it is not in a tier for any more,  *)
(* however results, fills, demotions and flushes interleave.                  *)
THEOREM NoneStrandedCorrect == FunnelSpec => []NoneStranded
<1>1. FunnelInv => NoneStranded
  BY DEF FunnelInv
<1>2. QED BY <1>1, FunnelInvariant, PTL

(* No coin in Hot or Super is ever without its candle streams.                 *)
THEOREM TieredIsStreamedCorrect == FunnelSpec => []TieredIsStreamed
<1>1. FunnelInv => TieredIsStreamed
  BY DEF FunnelInv, Streamed, TieredIsStreamed
<1>2. QED BY <1>1, FunnelInvariant, PTL

(* The funnel with its queues and threads implements the strict one: no tier    *)
(* is skipped, and Super is reached by a backtest passed in this stay in Hot.   *)
THEOREM FunnelIsStrict == FunnelSpec => StrictFunnel
<1>1. FunnelInv /\ [FunnelNext]_funnelVars
      => [Strict!TiersNext]_<<[c \in Coins |-> Tier(c)], passed>>
  BY EveryFunnelStepHolds DEF FunnelStepHolds
<1>2. QED
  BY <1>1, FunnelInitHolds, FunnelInvariant, PTL
  DEF FunnelSpec, StrictFunnel, Strict!TiersSpec
=============================================================================
