------------------------ MODULE ClosePipeline_proofs ------------------------
(* Proofs about ClosePipeline, for any number of monitors, levels, reasons, *)
(* lots, retries and crashes: its types; the exit claim; one task per key;   *)
(* a closed row means a flat position.                                      *)
EXTENDS ClosePipeline, TLAPS

USE DEF Keys, Threads, MainThreads, MaxLots, Owners, Statuses, Active

LEMMA IdleLocals == Idle \in Locals /\ Idle.task = NoTask
  BY ClosePipelineAssumption DEF Idle, Locals, NoTask, Tasks

LEMMA CarryingLocals ==
  \A task \in Tasks : Carrying(task) \in Locals /\ Carrying(task).task = task
  BY ClosePipelineAssumption, IdleLocals DEF Carrying, Locals, Idle

LEMMA LocalsExcept ==
  ASSUME NEW l \in Locals
  PROVE  /\ \A f \in SUBSET Levels : [l EXCEPT !.flags = f] \in Locals
         /\ \A f \in SUBSET Levels : [l EXCEPT !.flags = f].task = l.task
         /\ \A b \in BOOLEAN : [l EXCEPT !.ok = b] \in Locals
         /\ \A b \in BOOLEAN : [l EXCEPT !.ok = b].task = l.task
         /\ \A b \in BOOLEAN : [l EXCEPT !.own = b] \in Locals
         /\ \A b \in BOOLEAN : [l EXCEPT !.own = b].task = l.task
         /\ \A n \in 0..MaxRetries : [l EXCEPT !.tries = n] \in Locals
         /\ \A n \in 0..MaxRetries : [l EXCEPT !.tries = n].task = l.task
         /\ \A task \in Tasks : [l EXCEPT !.task = task] \in Locals
         /\ \A task \in Tasks : [l EXCEPT !.task = task].task = task
  BY DEF Locals

LEMMA ThreadNames ==
  /\ "worker" \notin Monitors
  /\ "reconciler" \notin Monitors
  /\ "watchdog" \notin Monitors
  BY ClosePipelineAssumption

LEMMA TypeInit == Init => TypeOK
<1> SUFFICES ASSUME Init PROVE TypeOK
  OBVIOUS
<1>1. DataOK
  <2>1. row \in [status : Statuses, flags : SUBSET Levels]
    BY DEF Init
  <2>2. claim \in [owner : Owners, live : BOOLEAN]
    BY DEF Init, NoClaim
  <2>3. pos \in 0..(Lots + adds) /\ adds \in 0..MaxAdds /\ crashes \in 0..MaxCrashes
    BY ClosePipelineAssumption DEF Init
  <2>4. attempts \in [FullReasons -> 0..MaxAttempts]
    BY ClosePipelineAssumption DEF Init, NoAttempts
  <2>5. mutex \in MainThreads \cup {"free"} /\ inflight \in SUBSET Keys /\ lapsed \in BOOLEAN
    BY DEF Init
  <2>6. queue \in Seq(Tasks)
    BY DEF Init
  <2>7. fills \in [Levels -> Nat]
    BY DEF Init
  <2> QED
    BY <2>1, <2>2, <2>3, <2>4, <2>5, <2>6, <2>7 DEF DataOK
<1>2. ControlOK
  <2>1. "idle" \in AllLabels
    BY DEF AllLabels, MonitorLabels
  <2>2. pc \in [Threads -> AllLabels] /\ \A t \in Threads : pc[t] = "idle"
    BY <2>1 DEF Init
  <2> QED
    BY <2>2 DEF ControlOK, MonitorLabels, WorkerLabels, ReconcilerLabels, WatchdogLabels
<1>3. LocalsOK
  BY IdleLocals DEF Init, LocalsOK, CarriesTask
<1> QED
  BY <1>1, <1>2, <1>3 DEF TypeOK

-----------------------------------------------------------------------------
(* A step of one thread to another label of its program.                    *)
LEMMA GotoLabel ==
  ASSUME ControlOK, NEW t \in Threads, NEW label \in AllLabels, Goto(t, label)
  PROVE  /\ pc' \in [Threads -> AllLabels]
         /\ pc'[t] = label
         /\ \A u \in Threads \ {t} : pc'[u] = pc[u]
  BY DEF ControlOK, Goto

LEMMA GotoMonitor ==
  ASSUME ControlOK, NEW m \in Monitors, NEW label \in MonitorLabels, Goto(m, label)
  PROVE  ControlOK'
  BY GotoLabel, ThreadNames DEF ControlOK, AllLabels

LEMMA GotoWorker ==
  ASSUME ControlOK, NEW label \in WorkerLabels, Goto("worker", label)
  PROVE  ControlOK'
  BY GotoLabel, ThreadNames DEF ControlOK, AllLabels

LEMMA GotoReconciler ==
  ASSUME ControlOK, NEW label \in ReconcilerLabels, Goto("reconciler", label)
  PROVE  ControlOK'
  BY GotoLabel, ThreadNames DEF ControlOK, AllLabels

LEMMA GotoWatchdog ==
  ASSUME ControlOK, NEW label \in WatchdogLabels, Goto("watchdog", label)
  PROVE  ControlOK'
  BY GotoLabel, ThreadNames DEF ControlOK, AllLabels

(* One thread's locals are replaced, and no other thread moves.             *)
LEMMA SetLocals ==
  ASSUME LocalsOK, NEW t \in Threads, NEW v \in Locals,
         loc' = [loc EXCEPT ![t] = v],
         \A u \in Threads \ {t} : pc'[u] = pc[u],
         CarriesTask(t)' => v.task \in Tasks,
         t = "worker" /\ pc'["worker"] # "idle" => v.task \in Tasks
  PROVE  LocalsOK'
  BY DEF LocalsOK, CarriesTask, Task

LEMMA KeepLocals ==
  ASSUME LocalsOK, NEW t \in Threads, UNCHANGED loc,
         \A u \in Threads \ {t} : pc'[u] = pc[u],
         CarriesTask(t)' => loc[t].task \in Tasks,
         t = "worker" /\ pc'["worker"] # "idle" => Task \in Tasks
  PROVE  LocalsOK'
  BY DEF LocalsOK, CarriesTask, Task

(* What the actions compute.                                                *)
LEMMA LotsBound ==
  ASSUME DataOK
  PROVE  pos \in 0..MaxLots /\ 1 \in 0..MaxLots /\ pos \in Nat
  BY ClosePipelineAssumption DEF DataOK

LEMMA NotedType ==
  ASSUME DataOK, NEW k
  PROVE  Noted(k) \in [FullReasons -> 0..MaxAttempts]
  BY ClosePipelineAssumption DEF DataOK, Noted

LEMMA NoAttemptsType == NoAttempts \in [FullReasons -> 0..MaxAttempts]
  BY ClosePipelineAssumption DEF NoAttempts

LEMMA ClaimType ==
  /\ NoClaim \in [owner : Owners, live : BOOLEAN]
  /\ \A o \in Owners : ClaimBy(o) \in [owner : Owners, live : BOOLEAN]
  BY DEF NoClaim, ClaimBy

LEMMA ReleasedType ==
  ASSUME DataOK, NEW o
  PROVE  Released(o) \in [owner : Owners, live : BOOLEAN]
  BY ClaimType DEF DataOK, Released

LEMMA ClosedType ==
  ASSUME DataOK
  PROVE  Closed(row) \in [status : Statuses, flags : SUBSET Levels]
  BY DEF DataOK, Closed

LEMMA FillType ==
  ASSUME DataOK, NEW k, NEW n \in Nat, NEW q \in Fillable(n),
         pos' = pos - q, CountFill(k, q), UNCHANGED adds
  PROVE  pos' \in 0..(Lots + adds') /\ fills' \in [Levels -> Nat]
<1>1. q \in 0..pos
  BY LotsBound DEF Fillable, CutDown
<1>2. pos' \in 0..(Lots + adds')
  BY <1>1, ClosePipelineAssumption DEF DataOK
<1>3. fills' \in [Levels -> Nat]
  <2>1. fills \in [Levels -> Nat]
    BY DEF DataOK
  <2>2. CASE k \in Levels /\ q > 0
    BY <2>1, <2>2 DEF CountFill
  <2>3. CASE ~(k \in Levels /\ q > 0)
    BY <2>1, <2>3 DEF CountFill
  <2> QED BY <2>2, <2>3
<1> QED
  BY <1>2, <1>3

-----------------------------------------------------------------------------
(* Every action keeps the types, one lemma per actor.                       *)
LEMMA MonitorType ==
  ASSUME TypeOK, NEW m \in Monitors, MonitorStep(m)
  PROVE  TypeOK'
<1> USE DEF closeVars, exchangeVars, historyVars
<1>0. DataOK /\ ControlOK /\ LocalsOK /\ m \in Threads
  BY DEF TypeOK
<1>1. CASE Observe(m)
  <2>1. DataOK'
    BY <1>0, <1>1 DEF DataOK, Observe
  <2>2. ControlOK'
    BY <1>0, <1>1, GotoMonitor DEF Observe, MonitorLabels
  <2>3. LocalsOK'
    <3>1. [loc[m] EXCEPT !.flags = row.flags] \in Locals
      BY <1>0, LocalsExcept DEF DataOK, LocalsOK
    <3> QED
      BY <1>0, <1>1, <3>1, GotoLabel, SetLocals, ThreadNames
      DEF Observe, CarriesTask, AllLabels, MonitorLabels
  <2> QED BY <2>1, <2>2, <2>3 DEF TypeOK
<1>2. CASE TrailingWrite(m)
  <2>1. DataOK'
    BY <1>0, <1>2 DEF DataOK, TrailingWrite, LocalsOK, Locals
  <2>2. ControlOK' /\ LocalsOK'
    BY <1>0, <1>2 DEF TrailingWrite, ControlOK, LocalsOK, CarriesTask, Task
  <2> QED BY <2>1, <2>2 DEF TypeOK
<1>3. CASE NothingHit(m)
  <2>1. DataOK'
    BY <1>0, <1>3 DEF DataOK, NothingHit
  <2>2. ControlOK'
    BY <1>0, <1>3, GotoMonitor DEF NothingHit, GotoIdle, MonitorLabels
  <2>3. LocalsOK'
    BY <1>0, <1>3, GotoLabel, SetLocals, IdleLocals, ThreadNames
    DEF NothingHit, GotoIdle, CarriesTask, AllLabels, MonitorLabels
  <2> QED BY <2>1, <2>2, <2>3 DEF TypeOK
<1>4. ASSUME NEW k \in FullReasons, StopHit(m, k) PROVE TypeOK'
  <2>1. [key |-> k, qty |-> pos, flags |-> loc[m].flags] \in Tasks
    BY <1>0, LotsBound DEF LocalsOK, Locals, Tasks
  <2>5. attempts' \in [FullReasons -> 0..MaxAttempts]
    BY <1>0, <1>4, NoAttemptsType DEF DataOK, StopHit, NoAttempts
  <2>2. DataOK'
    BY <1>0, <1>4, <2>5 DEF DataOK, StopHit
  <2>3. ControlOK'
    BY <1>0, <1>4, GotoMonitor DEF StopHit, MonitorLabels
  <2>4. LocalsOK'
    BY <1>0, <1>4, <2>1, GotoLabel, SetLocals, CarryingLocals, ThreadNames
    DEF StopHit, AllLabels, MonitorLabels
  <2> QED BY <2>2, <2>3, <2>4 DEF TypeOK
<1>5. ASSUME NEW k \in Levels, LockTakeProfit(m, k) PROVE TypeOK'
  <2> DEFINE flags == loc[m].flags \cup {k}
             task  == [key |-> k, qty |-> IF k = "TP3" THEN pos ELSE 1, flags |-> flags]
  <2>1. flags \in SUBSET Levels
    BY <1>0 DEF LocalsOK, Locals
  <2>2. task \in Tasks
    BY <1>0, <2>1, LotsBound DEF Tasks
  <2> HIDE DEF flags
  <2>3. /\ row' = [row EXCEPT !.flags = flags]
        /\ loc' = [loc EXCEPT ![m] = Carrying(task)]
        /\ Goto(m, "request")
    BY <1>5 DEF LockTakeProfit, flags
  <2> HIDE DEF task
  <2>4. DataOK'
    BY <1>0, <1>5, <2>1, <2>3 DEF DataOK, LockTakeProfit
  <2>5. ControlOK'
    BY <1>0, <1>5, GotoMonitor DEF LockTakeProfit, MonitorLabels
  <2>6. LocalsOK'
    BY <1>0, <2>2, <2>3, GotoLabel, SetLocals, CarryingLocals, ThreadNames
    DEF AllLabels, MonitorLabels
  <2> QED BY <2>4, <2>5, <2>6 DEF TypeOK
<1>6. CASE AcceptClose(m)
  <2>1. loc[m].task \in Tasks
    BY <1>0, <1>6 DEF LocalsOK, AcceptClose, CarriesTask
  <2>2. DataOK'
    BY <1>0, <1>6, <2>1, NotedType, ClaimType DEF DataOK, AcceptClose, Tasks
  <2>3. ControlOK'
    BY <1>0, <1>6, GotoMonitor DEF AcceptClose, MonitorLabels
  <2>4. LocalsOK'
    BY <1>0, <1>6, <2>1, GotoLabel, KeepLocals, ThreadNames
    DEF AcceptClose, AllLabels, MonitorLabels
  <2> QED BY <2>2, <2>3, <2>4 DEF TypeOK
<1>7. CASE RefuseClose(m)
  <2>1. loc[m].task \in Tasks
    BY <1>0, <1>7 DEF LocalsOK, RefuseClose, CarriesTask
  <2>2. DataOK'
    BY <1>0, <1>7 DEF DataOK, RefuseClose
  <2>3. CASE Goto(m, "unlock") /\ UNCHANGED loc
    <3>1. ControlOK'
      BY <1>0, <2>3, GotoMonitor DEF MonitorLabels
    <3>2. LocalsOK'
      BY <1>0, <2>1, <2>3, GotoLabel, KeepLocals, ThreadNames DEF AllLabels, MonitorLabels
    <3> QED BY <2>2, <3>1, <3>2 DEF TypeOK
  <2>4. CASE GotoIdle(m)
    <3>1. ControlOK'
      BY <1>0, <2>4, GotoMonitor DEF GotoIdle, MonitorLabels
    <3>2. LocalsOK'
      BY <1>0, <2>4, GotoLabel, SetLocals, IdleLocals, ThreadNames
      DEF GotoIdle, CarriesTask, AllLabels, MonitorLabels
    <3> QED BY <2>2, <3>1, <3>2 DEF TypeOK
  <2> QED BY <1>7, <2>3, <2>4 DEF RefuseClose, Refused
<1>8. CASE FlatAtRequest(m)
  <2>1. DataOK'
    BY <1>0, <1>8 DEF DataOK, FlatAtRequest
  <2>2. ControlOK'
    BY <1>0, <1>8, GotoMonitor DEF FlatAtRequest, MonitorLabels
  <2>3. LocalsOK'
    BY <1>0, <1>8, GotoLabel, KeepLocals, ThreadNames
    DEF FlatAtRequest, CarriesTask, AllLabels, MonitorLabels
  <2> QED BY <2>1, <2>2, <2>3 DEF TypeOK
<1>9. CASE Enqueue(m)
  <2>1. loc[m].task \in Tasks
    BY <1>0, <1>9 DEF LocalsOK, Enqueue, CarriesTask
  <2>2. queue' \in Seq(Tasks)
    BY <1>0, <1>9, <2>1 DEF DataOK, Enqueue
  <2>3. DataOK'
    BY <1>0, <1>9, <2>2 DEF DataOK, Enqueue
  <2>4. ControlOK'
    BY <1>0, <1>9, GotoMonitor DEF Enqueue, GotoIdle, MonitorLabels
  <2>5. LocalsOK'
    BY <1>0, <1>9, GotoLabel, SetLocals, IdleLocals, ThreadNames
    DEF Enqueue, GotoIdle, CarriesTask, AllLabels, MonitorLabels
  <2> QED BY <2>3, <2>4, <2>5 DEF TypeOK
<1>10. CASE UnlockTakeProfit(m)
  <2>1. loc[m].task.flags \in SUBSET Levels
    BY <1>0, <1>10 DEF LocalsOK, UnlockTakeProfit, CarriesTask, Tasks
  <2>2. DataOK'
    BY <1>0, <1>10, <2>1 DEF DataOK, UnlockTakeProfit
  <2>3. ControlOK'
    BY <1>0, <1>10, GotoMonitor DEF UnlockTakeProfit, GotoIdle, MonitorLabels
  <2>4. LocalsOK'
    BY <1>0, <1>10, GotoLabel, SetLocals, IdleLocals, ThreadNames
    DEF UnlockTakeProfit, GotoIdle, CarriesTask, AllLabels, MonitorLabels
  <2> QED BY <2>2, <2>3, <2>4 DEF TypeOK
<1>11. CASE ExternalClose(m)
  <2>1. DataOK'
    BY <1>0, <1>11 DEF DataOK, ExternalClose
  <2>2. ControlOK'
    BY <1>0, <1>11, GotoMonitor DEF ExternalClose, MonitorLabels
  <2>3. LocalsOK'
    BY <1>0, <1>11, GotoLabel, KeepLocals, ThreadNames
    DEF ExternalClose, CarriesTask, AllLabels, MonitorLabels
  <2> QED BY <2>1, <2>2, <2>3 DEF TypeOK
<1> QED
  BY <1>1, <1>2, <1>3, <1>4, <1>5, <1>6, <1>7, <1>8, <1>9, <1>10, <1>11 DEF MonitorStep

(* _mark_trade_closed ends: the worker has its answer, the others are idle. *)
LEMMA MarkDoneType ==
  ASSUME ControlOK, LocalsOK, NEW t \in MainThreads, pc[t] \in {"mark", "closing"}, MarkDone(t)
  PROVE  ControlOK' /\ LocalsOK'
<1>1. CASE t = "worker"
  <2>1. Task \in Tasks
    BY <1>1 DEF LocalsOK
  <2>2. [Carrying(Task) EXCEPT !.ok = TRUE] \in Locals
        /\ [Carrying(Task) EXCEPT !.ok = TRUE].task = Task
    BY <2>1, CarryingLocals, LocalsExcept
  <2>3. /\ Goto("worker", "answered")
        /\ loc' = [loc EXCEPT !["worker"] = [Carrying(Task) EXCEPT !.ok = TRUE]]
    BY <1>1 DEF MarkDone
  <2>4. ControlOK'
    BY <2>3, GotoWorker DEF WorkerLabels
  <2>5. LocalsOK'
    BY <2>1, <2>2, <2>3, GotoLabel, SetLocals DEF AllLabels, WorkerLabels
  <2> QED BY <2>4, <2>5
<1>2. CASE t # "worker"
  <2>1. Goto(t, "idle") /\ loc' = [loc EXCEPT ![t] = Idle]
    BY <1>2 DEF MarkDone, GotoIdle
  <2>2. ControlOK'
    BY <1>2, <2>1, GotoMonitor, GotoReconciler DEF MonitorLabels, ReconcilerLabels
  <2>3. LocalsOK'
    BY <1>2, <2>1, GotoLabel, SetLocals, IdleLocals DEF AllLabels, MonitorLabels, CarriesTask
  <2> QED BY <2>2, <2>3
<1> QED BY <1>1, <1>2

LEMMA MarkType ==
  ASSUME TypeOK, NEW t \in MainThreads, MarkStep(t)
  PROVE  TypeOK'
<1> USE DEF closeVars, exchangeVars, historyVars
<1>0. DataOK /\ ControlOK /\ LocalsOK /\ t \in Threads
  BY DEF TypeOK
<1>1. CASE MarkSkip(t)
  <2>1. DataOK'
    BY <1>0, <1>1 DEF DataOK, MarkSkip
  <2>2. ControlOK' /\ LocalsOK'
    BY <1>0, <1>1, MarkDoneType DEF MarkSkip
  <2> QED BY <2>1, <2>2 DEF TypeOK
<1>2. CASE MarkBegin(t)
  <2>1. DataOK'
    BY <1>0, <1>2, ClaimType, NoAttemptsType DEF DataOK, MarkBegin
  <2>2. Goto(t, "closing")
    BY <1>2 DEF MarkBegin
  <2>3. ControlOK'
    BY <1>0, <2>2, GotoMonitor, GotoReconciler, GotoWorker
    DEF MonitorLabels, ReconcilerLabels, WorkerLabels
  <2>4. loc[t] \in Locals /\ claim.live \in BOOLEAN
    BY <1>0 DEF LocalsOK, DataOK
  <2>5. /\ [loc[t] EXCEPT !.own = ~claim.live] \in Locals
        /\ [loc[t] EXCEPT !.own = ~claim.live].task = loc[t].task
    BY <2>4, LocalsExcept
  <2>6. loc' = [loc EXCEPT ![t] = [loc[t] EXCEPT !.own = ~claim.live]]
    BY <1>2 DEF MarkBegin
  <2>7. t = "worker" => loc[t].task \in Tasks
    BY <1>0, <1>2 DEF LocalsOK, MarkBegin, Task
  <2>8. LocalsOK'
    BY <1>0, <2>2, <2>5, <2>6, <2>7, GotoLabel, SetLocals
    DEF AllLabels, MonitorLabels, CarriesTask
  <2> QED BY <2>1, <2>3, <2>8 DEF TypeOK
<1>3. CASE MarkCommit(t)
  <2>1. DataOK'
    BY <1>0, <1>3, ReleasedType, ClosedType DEF DataOK, MarkCommit
  <2>2. ControlOK' /\ LocalsOK'
    BY <1>0, <1>3, MarkDoneType DEF MarkCommit
  <2> QED BY <2>1, <2>2 DEF TypeOK
<1> QED
  BY <1>1, <1>2, <1>3 DEF MarkStep

LEMMA MarkErrorType ==
  ASSUME TypeOK, NEW t \in MainThreads, MarkError(t)
  PROVE  TypeOK'
<1> USE DEF closeVars, exchangeVars, historyVars
<1>0. DataOK /\ ControlOK /\ LocalsOK
  BY DEF TypeOK
<1>1. DataOK'
  BY <1>0, ReleasedType DEF DataOK, MarkError
<1>2. CASE t = "worker"
  <2>1. Task \in Tasks
    BY <1>0, <1>2 DEF LocalsOK, MarkError
  <2>2. Goto("worker", "answered") /\ loc' = [loc EXCEPT !["worker"] = Carrying(Task)]
    BY <1>2 DEF MarkError
  <2>3. ControlOK'
    BY <1>0, <2>2, GotoWorker DEF WorkerLabels
  <2>4. LocalsOK'
    BY <1>0, <2>1, <2>2, CarryingLocals, GotoLabel, SetLocals DEF AllLabels, WorkerLabels
  <2> QED BY <1>1, <2>3, <2>4 DEF TypeOK
<1>3. CASE t # "worker"
  <2>1. MarkDone(t) /\ pc[t] = "closing"
    BY <1>3 DEF MarkError, MarkDone
  <2>2. ControlOK' /\ LocalsOK'
    BY <1>0, <2>1, MarkDoneType
  <2> QED BY <1>1, <2>2 DEF TypeOK
<1> QED BY <1>2, <1>3

LEMMA DrainType ==
  ASSUME TypeOK, DrainFlat
  PROVE  TypeOK'
<1> USE DEF closeVars, exchangeVars, historyVars
<1>0. DataOK /\ ControlOK /\ LocalsOK
  BY DEF TypeOK
<1>1. DataOK'
  BY <1>0 DEF DataOK, DrainFlat
<1>2. ControlOK'
  BY <1>0, GotoReconciler DEF DrainFlat, ReconcilerLabels
<1>3. LocalsOK'
  BY <1>0, GotoLabel, KeepLocals DEF DrainFlat, CarriesTask, AllLabels, ReconcilerLabels
<1> QED BY <1>1, <1>2, <1>3 DEF TypeOK

(* The worker goes on with other locals, or with the same.                  *)
LEMMA WorkerSets ==
  ASSUME ControlOK, LocalsOK, NEW label \in WorkerLabels, NEW v \in Locals,
         v.task \in Tasks \/ label = "idle",
         Goto("worker", label), loc' = [loc EXCEPT !["worker"] = v]
  PROVE  ControlOK' /\ LocalsOK'
<1>1. ControlOK'
  BY GotoWorker
<1>2. LocalsOK'
  BY GotoLabel, SetLocals DEF AllLabels, CarriesTask
<1> QED BY <1>1, <1>2

LEMMA WorkerKeeps ==
  ASSUME ControlOK, LocalsOK, NEW label \in WorkerLabels,
         pc["worker"] # "idle", Goto("worker", label), UNCHANGED loc
  PROVE  ControlOK' /\ LocalsOK'
<1>1. ControlOK'
  BY GotoWorker
<1>2. Task \in Tasks
  BY DEF LocalsOK
<1>3. LocalsOK'
  BY <1>2, GotoLabel, KeepLocals DEF AllLabels, Task
<1> QED BY <1>1, <1>3

LEMMA WorkerType ==
  ASSUME TypeOK, WorkerStep
  PROVE  TypeOK'
<1> USE DEF closeVars, exchangeVars, historyVars
<1>0. DataOK /\ ControlOK /\ LocalsOK
  BY DEF TypeOK
<1>a. loc["worker"] \in Locals /\ row.flags \in SUBSET Levels
  BY <1>0 DEF LocalsOK, DataOK
<1>b. pc["worker"] # "idle" =>
        /\ Task \in Tasks /\ loc["worker"].task \in Tasks
        /\ Carrying(Task) \in Locals /\ Carrying(Task).task \in Tasks
  BY <1>0, CarryingLocals DEF LocalsOK, Task
<1>1. CASE WorkerTake
  <2>1. Head(queue) \in Tasks /\ Tail(queue) \in Seq(Tasks)
    BY <1>0, <1>1 DEF DataOK, WorkerTake
  <2>2. DataOK'
    BY <1>0, <1>1, <2>1 DEF DataOK, WorkerTake
  <2>3. ControlOK' /\ LocalsOK'
    BY <1>0, <1>1, <2>1, CarryingLocals, WorkerSets DEF WorkerTake, WorkerLabels
  <2> QED BY <2>2, <2>3 DEF TypeOK
<1>2. CASE WorkerRead
  <2>1. DataOK'
    BY <1>0, <1>2 DEF DataOK, WorkerRead
  <2>2. CASE Goto("worker", "answered") /\ loc' = [loc EXCEPT !["worker"].ok = TRUE]
    <3>1. /\ [loc["worker"] EXCEPT !.ok = TRUE] \in Locals
          /\ [loc["worker"] EXCEPT !.ok = TRUE].task \in Tasks
      BY <1>a, <1>b, <1>2, LocalsExcept DEF WorkerRead
    <3>2. ControlOK' /\ LocalsOK'
      BY <1>0, <2>2, <3>1, WorkerSets DEF WorkerLabels
    <3> QED BY <2>1, <3>2 DEF TypeOK
  <2>3. CASE loc' = [loc EXCEPT !["worker"].flags = row.flags,
                                !["worker"].tries = MaxRetries]
    <3> DEFINE v == [[loc["worker"] EXCEPT !.flags = row.flags] EXCEPT !.tries = MaxRetries]
    <3>1. MaxRetries \in 0..MaxRetries
      BY ClosePipelineAssumption
    <3>a. /\ [loc["worker"] EXCEPT !.flags = row.flags] \in Locals
          /\ [loc["worker"] EXCEPT !.flags = row.flags].task \in Tasks
      BY <1>a, <1>b, <1>2, LocalsExcept DEF WorkerRead
    <3>2. v \in Locals /\ v.task \in Tasks
      BY <3>a, <3>1, LocalsExcept
    <3>3. loc' = [loc EXCEPT !["worker"] = v]
      BY <1>0, <2>3 DEF LocalsOK
    <3> HIDE DEF v
    <3>4. PICK label \in {"order", "mark", "answered"} : Goto("worker", label)
      BY <1>2 DEF WorkerRead
    <3>5. ControlOK' /\ LocalsOK'
      BY <1>0, <3>2, <3>3, <3>4, WorkerSets DEF WorkerLabels
    <3> QED BY <2>1, <3>5 DEF TypeOK
  <2> QED BY <1>2, <2>2, <2>3 DEF WorkerRead
<1>3. CASE WorkerFill
  <2>1. PICK q \in Fillable(Task.qty) : pos' = pos - q /\ CountFill(Task.key, q)
    BY <1>3 DEF WorkerFill
  <2>2. Task.qty \in Nat
    BY <1>b, <1>3, LotsBound, ClosePipelineAssumption DEF WorkerFill, Tasks
  <2>3. pos' \in 0..(Lots + adds') /\ fills' \in [Levels -> Nat]
    BY <1>0, <1>3, <2>1, <2>2, FillType DEF WorkerFill
  <2>4. DataOK'
    BY <1>0, <1>3, <2>3 DEF DataOK, WorkerFill
  <2>5. 0 \in 0..MaxRetries
    BY ClosePipelineAssumption
  <2>6. /\ [loc["worker"] EXCEPT !.tries = 0] \in Locals
        /\ [loc["worker"] EXCEPT !.tries = 0].task \in Tasks
    BY <1>a, <1>b, <1>3, <2>5, LocalsExcept DEF WorkerFill
  <2>7. ControlOK' /\ LocalsOK'
    BY <1>0, <1>3, <2>6, WorkerSets DEF WorkerFill, WorkerLabels
  <2> QED BY <2>4, <2>7 DEF TypeOK
<1>4. CASE WorkerOrderError
  <2>1. Task.qty \in Nat
    BY <1>b, <1>4, LotsBound, ClosePipelineAssumption DEF WorkerOrderError, Tasks
  <2>2. CutDown(Task.qty) \in Fillable(Task.qty)
    BY <1>0, <2>1, LotsBound DEF Fillable, CutDown
  <2>3. pos' \in 0..(Lots + adds') /\ fills' \in [Levels -> Nat]
    BY <1>0, <1>4, <2>1, <2>2, FillType DEF WorkerOrderError, DataOK
  <2>4. DataOK'
    BY <1>0, <1>4, <2>3 DEF DataOK, WorkerOrderError
  <2>5. CASE loc["worker"].tries > 1
    <3> DEFINE n == loc["worker"].tries - 1
    <3>1. n \in 0..MaxRetries
      BY <1>a, <2>5, ClosePipelineAssumption DEF Locals
    <3>2. loc' = [loc EXCEPT !["worker"] = [loc["worker"] EXCEPT !.tries = n]] /\ UNCHANGED pc
      BY <1>4, <2>5 DEF WorkerOrderError
    <3> HIDE DEF n
    <3>3. /\ [loc["worker"] EXCEPT !.tries = n] \in Locals
          /\ [loc["worker"] EXCEPT !.tries = n].task \in Tasks
      BY <1>a, <1>b, <1>4, <3>1, LocalsExcept DEF WorkerOrderError
    <3>4. ControlOK'
      BY <1>0, <3>2 DEF ControlOK
    <3>5. LocalsOK'
      BY <1>0, <3>2, <3>3, SetLocals
    <3> QED BY <2>4, <3>4, <3>5 DEF TypeOK
  <2>6. CASE ~(loc["worker"].tries > 1)
    <3>1. loc' = [loc EXCEPT !["worker"] = Carrying(Task)]
      BY <1>4, <2>6 DEF WorkerOrderError
    <3>2. PICK label \in {"mark", "answered"} : Goto("worker", label)
      BY <1>4, <2>6 DEF WorkerOrderError
    <3>3. ControlOK' /\ LocalsOK'
      BY <1>0, <1>b, <1>4, <3>1, <3>2, WorkerSets DEF WorkerOrderError, WorkerLabels
    <3> QED BY <2>4, <3>3 DEF TypeOK
  <2> QED BY <2>5, <2>6
<1>5. CASE WorkerReduceOnlyReject
  <2>1. DataOK'
    BY <1>0, <1>5 DEF DataOK, WorkerReduceOnlyReject
  <2>2. PICK label \in {"mark", "answered"} : Goto("worker", label)
    BY <1>5 DEF WorkerReduceOnlyReject
  <2>3. ControlOK' /\ LocalsOK'
    BY <1>0, <1>b, <1>5, <2>2, WorkerSets DEF WorkerReduceOnlyReject, WorkerLabels
  <2> QED BY <2>1, <2>3 DEF TypeOK
<1>6. CASE WorkerBook
  <2>1. DataOK'
    BY <1>0, <1>a, <1>6 DEF DataOK, WorkerBook, Locals
  <2>2. /\ [Carrying(Task) EXCEPT !.ok = TRUE] \in Locals
        /\ [Carrying(Task) EXCEPT !.ok = TRUE].task \in Tasks
    BY <1>b, <1>6, LocalsExcept DEF WorkerBook
  <2>3. ControlOK' /\ LocalsOK'
    BY <1>0, <1>b, <1>6, <2>2, WorkerSets DEF WorkerBook, WorkerLabels
  <2> QED BY <2>1, <2>3 DEF TypeOK
<1>7. CASE WorkerRollback
  <2>1. Task.flags \ {Task.key} \in SUBSET Levels
    BY <1>b, <1>7 DEF WorkerRollback, Tasks
  <2>2. DataOK'
    BY <1>0, <1>7, <2>1 DEF DataOK, WorkerRollback
  <2>3. ControlOK' /\ LocalsOK'
    BY <1>0, <1>7, WorkerKeeps DEF WorkerRollback, WorkerLabels
  <2> QED BY <2>2, <2>3 DEF TypeOK
<1>8. CASE WorkerFullDone
  <2>1. DataOK'
    BY <1>0, <1>8 DEF DataOK, WorkerFullDone
  <2>2. ControlOK' /\ LocalsOK'
    BY <1>0, <1>8, WorkerKeeps DEF WorkerFullDone, WorkerLabels
  <2> QED BY <2>1, <2>2 DEF TypeOK
<1>9. CASE FinalizeRead
  <2>1. DataOK'
    BY <1>0, <1>9 DEF DataOK, FinalizeRead
  <2>2. CASE Goto("worker", "release") /\ UNCHANGED loc
    BY <1>0, <1>9, <2>1, <2>2, WorkerKeeps DEF FinalizeRead, WorkerLabels, TypeOK
  <2>3. CASE Goto("worker", "finalize") /\ loc' = [loc EXCEPT !["worker"].flags = row.flags]
    <3>1. /\ [loc["worker"] EXCEPT !.flags = row.flags] \in Locals
          /\ [loc["worker"] EXCEPT !.flags = row.flags].task \in Tasks
      BY <1>a, <1>b, <1>9, LocalsExcept DEF FinalizeRead
    <3>2. ControlOK' /\ LocalsOK'
      BY <1>0, <2>3, <3>1, WorkerSets DEF WorkerLabels
    <3> QED BY <2>1, <3>2 DEF TypeOK
  <2> QED BY <1>9, <2>2, <2>3 DEF FinalizeRead
<1>10. CASE FinalizeWrite
  <2>1. row' \in [status : Statuses, flags : SUBSET Levels]
    BY <1>a, <1>10 DEF FinalizeWrite, StatusOf, Locals
  <2>2. DataOK'
    BY <1>0, <1>10, <2>1 DEF DataOK, FinalizeWrite
  <2>3. ControlOK' /\ LocalsOK'
    <3>1. PICK label \in {"release", "answered"} : Goto("worker", label)
      BY <1>10 DEF FinalizeWrite
    <3> QED
      BY <1>0, <1>b, <1>10, <3>1, WorkerSets DEF FinalizeWrite, WorkerLabels
  <2> QED BY <2>2, <2>3 DEF TypeOK
<1>11. CASE WorkerRelease
  <2>1. DataOK'
    BY <1>0, <1>11, ReleasedType DEF DataOK, WorkerRelease
  <2>2. ControlOK' /\ LocalsOK'
    BY <1>0, <1>11, WorkerKeeps DEF WorkerRelease, WorkerLabels
  <2> QED BY <2>1, <2>2 DEF TypeOK
<1>12. CASE WorkerDone
  <2>1. DataOK'
    BY <1>0, <1>12 DEF DataOK, WorkerDone
  <2>2. ControlOK' /\ LocalsOK'
    BY <1>0, <1>12, IdleLocals, WorkerSets DEF WorkerDone, GotoIdle, WorkerLabels
  <2> QED BY <2>1, <2>2 DEF TypeOK
<1>13. CASE WorkerError
  <2>1. DataOK'
    BY <1>0, <1>13 DEF DataOK, WorkerError
  <2>2. ControlOK' /\ LocalsOK'
    BY <1>0, <1>b, <1>13, WorkerSets DEF WorkerError, WorkerLabels
  <2> QED BY <2>1, <2>2 DEF TypeOK
<1> QED
  BY <1>1, <1>2, <1>3, <1>4, <1>5, <1>6, <1>7, <1>8, <1>9, <1>10, <1>11, <1>12, <1>13
  DEF WorkerStep

(* The watchdog goes on with a task, or is idle again.                      *)
LEMMA WatchdogKeeps ==
  ASSUME ControlOK, LocalsOK, NEW label \in WatchdogLabels,
         pc["watchdog"] # "idle", Goto("watchdog", label), UNCHANGED loc
  PROVE  ControlOK' /\ LocalsOK'
<1>1. ControlOK'
  BY GotoWatchdog
<1>2. loc["watchdog"].task \in Tasks
  BY DEF LocalsOK, ControlOK, WatchdogLabels, CarriesTask
<1>3. LocalsOK'
  BY <1>2, GotoLabel, KeepLocals DEF AllLabels
<1> QED BY <1>1, <1>3

LEMMA WatchdogIdle ==
  ASSUME ControlOK, LocalsOK, GotoIdle("watchdog")
  PROVE  ControlOK' /\ LocalsOK'
<1>1. ControlOK'
  BY GotoWatchdog DEF GotoIdle, WatchdogLabels
<1>2. LocalsOK'
  BY GotoLabel, SetLocals, IdleLocals DEF GotoIdle, CarriesTask, AllLabels, WatchdogLabels
<1> QED BY <1>1, <1>2

LEMMA WatchdogType ==
  ASSUME TypeOK, WatchdogStep
  PROVE  TypeOK'
<1> USE DEF closeVars, exchangeVars, historyVars
<1>0. DataOK /\ ControlOK /\ LocalsOK
  BY DEF TypeOK
<1>1. ASSUME NEW k \in Keys, WatchdogRead(k) PROVE TypeOK'
  <2> DEFINE task == [key   |-> k,
                      qty   |-> IF k \in {"TP1", "TP2"} THEN 1 ELSE pos,
                      flags |-> row.flags]
  <2>1. task \in Tasks
    BY <1>0, LotsBound DEF DataOK, Tasks
  <2>2. Goto("watchdog", "breach") /\ loc' = [loc EXCEPT !["watchdog"].task = task]
    BY <1>1 DEF WatchdogRead
  <2>3. DataOK'
    BY <1>0, <1>1 DEF DataOK, WatchdogRead
  <2> HIDE DEF task
  <2>4. loc["watchdog"] \in Locals
    BY <1>0 DEF LocalsOK
  <2>5. /\ [loc["watchdog"] EXCEPT !.task = task] \in Locals
        /\ [loc["watchdog"] EXCEPT !.task = task].task \in Tasks
    BY <2>1, <2>4, LocalsExcept
  <2>6. ControlOK'
    BY <1>0, <2>2, GotoWatchdog DEF WatchdogLabels
  <2>7. LocalsOK'
    BY <1>0, <2>2, <2>5, GotoLabel, SetLocals DEF AllLabels, WatchdogLabels
  <2> QED BY <2>3, <2>6, <2>7 DEF TypeOK
<1>2. CASE WatchdogDefer
  BY <1>0, <1>2, WatchdogIdle DEF WatchdogDefer, TypeOK, DataOK
<1>3. CASE WatchdogClaim
  <2>1. DataOK'
    BY <1>0, <1>3, ClaimType DEF DataOK, WatchdogClaim
  <2>2. ControlOK' /\ LocalsOK'
    BY <1>0, <1>3, WatchdogKeeps DEF WatchdogClaim, WatchdogLabels
  <2> QED BY <2>1, <2>2 DEF TypeOK
<1>4. CASE WatchdogFill
  <2> DEFINE task == loc["watchdog"].task
  <2>1. PICK q \in Fillable(task.qty) : pos' = pos - q /\ CountFill(task.key, q)
    BY <1>4 DEF WatchdogFill
  <2>2. task \in Tasks
    BY <1>0, <1>4 DEF WatchdogFill, LocalsOK, CarriesTask
  <2>3. task.qty \in Nat
    BY <2>2, LotsBound, ClosePipelineAssumption DEF Tasks
  <2>4. pos' \in 0..(Lots + adds') /\ fills' \in [Levels -> Nat]
    BY <1>0, <1>4, <2>1, <2>3, FillType DEF WatchdogFill
  <2>5. DataOK'
    BY <1>0, <1>4, <2>4 DEF DataOK, WatchdogFill
  <2>6. ControlOK' /\ LocalsOK'
    BY <1>0, <1>4, WatchdogKeeps DEF WatchdogFill, WatchdogLabels
  <2> QED BY <2>5, <2>6 DEF TypeOK
<1>5. CASE WatchdogOrderError
  <2>1. DataOK'
    BY <1>0, <1>5 DEF DataOK, WatchdogOrderError
  <2>2. ControlOK' /\ LocalsOK'
    BY <1>0, <1>5, WatchdogKeeps DEF WatchdogOrderError, WatchdogLabels
  <2> QED BY <2>1, <2>2 DEF TypeOK
<1>6. CASE WatchdogReduceOnlyReject
  <2>1. DataOK'
    BY <1>0, <1>6, ClosedType DEF DataOK, WatchdogReduceOnlyReject
  <2>2. ControlOK' /\ LocalsOK'
    BY <1>0, <1>6, WatchdogKeeps DEF WatchdogReduceOnlyReject, WatchdogLabels
  <2> QED BY <2>1, <2>2 DEF TypeOK
<1>7. CASE WatchdogBook
  <2> DEFINE task == loc["watchdog"].task
  <2>1. task \in Tasks
    BY <1>0, <1>7 DEF WatchdogBook, LocalsOK, CarriesTask
  <2>2. row' \in [status : Statuses, flags : SUBSET Levels]
    <3>1. CASE task.key \in {"TP1", "TP2"}
      <4>1. task.key \in Levels
        BY <2>1, <3>1, ClosePipelineAssumption DEF Tasks
      <4>2. task.flags \cup {task.key} \in SUBSET Levels
        BY <2>1, <4>1 DEF Tasks
      <4> QED BY <1>7, <3>1, <4>2 DEF WatchdogBook, StatusOf
    <3>2. CASE task.key \notin {"TP1", "TP2"}
      BY <1>0, <1>7, <3>2, ClosedType DEF WatchdogBook
    <3> QED BY <3>1, <3>2
  <2>3. DataOK'
    BY <1>0, <1>7, <2>2 DEF DataOK, WatchdogBook
  <2>4. ControlOK' /\ LocalsOK'
    BY <1>0, <1>7, WatchdogKeeps DEF WatchdogBook, WatchdogLabels
  <2> QED BY <2>3, <2>4 DEF TypeOK
<1>8. CASE WatchdogRelease
  <2>1. DataOK'
    BY <1>0, <1>8, ReleasedType DEF DataOK, WatchdogRelease
  <2>2. ControlOK' /\ LocalsOK'
    BY <1>0, <1>8, WatchdogIdle DEF WatchdogRelease
  <2> QED BY <2>1, <2>2 DEF TypeOK
<1> QED
  BY <1>1, <1>2, <1>3, <1>4, <1>5, <1>6, <1>7, <1>8 DEF WatchdogStep

LEMMA EnvironmentType ==
  ASSUME TypeOK, Environment
  PROVE  TypeOK'
<1> USE DEF closeVars, exchangeVars, historyVars
<1>0. DataOK /\ ControlOK /\ LocalsOK
  BY DEF TypeOK
<1>1. ASSUME UNCHANGED <<pc, loc>>
      PROVE  ControlOK' /\ LocalsOK'
  BY <1>0, <1>1 DEF ControlOK, LocalsOK, CarriesTask, Task
<1>2. CASE ExternalFlat
  <2>1. DataOK'
    BY <1>0, <1>2, ClosePipelineAssumption DEF DataOK, ExternalFlat
  <2> QED BY <1>1, <1>2, <2>1 DEF ExternalFlat, TypeOK
<1>3. CASE DcaAdd
  <2>1. DataOK'
    BY <1>0, <1>3, ClosePipelineAssumption DEF DataOK, DcaAdd
  <2> QED BY <1>1, <1>3, <2>1 DEF DcaAdd, TypeOK
<1>4. CASE ClaimExpire
  <2>1. Holding \in BOOLEAN
    BY DEF Holding
  <2>2. DataOK'
    BY <1>0, <1>4, <2>1 DEF DataOK, ClaimExpire
  <2> QED BY <1>1, <1>4, <2>2 DEF ClaimExpire, TypeOK
<1>5. CASE Crash
  <2>1. crashes' \in 0..MaxCrashes
    BY <1>0, <1>5, ClosePipelineAssumption DEF DataOK, Crash
  <2>2. DataOK'
    BY <1>0, <1>5, <2>1, NoAttemptsType DEF DataOK, Crash
  <2>3. /\ pc' \in [Threads -> AllLabels] /\ pc'["watchdog"] = pc["watchdog"]
        /\ \A t \in MainThreads : pc'[t] = "idle"
    BY <1>0, <1>5, ThreadNames DEF Crash, ControlOK, AllLabels, MonitorLabels
  <2>4. ControlOK'
    BY <1>0, <2>3
    DEF ControlOK, MonitorLabels, WorkerLabels, ReconcilerLabels
  <2>5. /\ loc' \in [Threads -> Locals] /\ loc'["watchdog"] = loc["watchdog"]
    BY <1>0, <1>5, IdleLocals DEF Crash, LocalsOK
  <2>6. LocalsOK'
    BY <1>0, <2>3, <2>5 DEF LocalsOK, CarriesTask
  <2> QED BY <2>2, <2>4, <2>6 DEF TypeOK
<1>6. CASE WatchdogCrash
  <2>1. crashes' \in 0..MaxCrashes
    BY <1>0, <1>6, ClosePipelineAssumption DEF DataOK, WatchdogCrash
  <2>2. DataOK'
    BY <1>0, <1>6, <2>1 DEF DataOK, WatchdogCrash
  <2>3. ControlOK' /\ LocalsOK'
    BY <1>0, <1>6, WatchdogIdle DEF WatchdogCrash
  <2> QED BY <2>2, <2>3 DEF TypeOK
<1> QED
  BY <1>2, <1>3, <1>4, <1>5, <1>6 DEF Environment

LEMMA TypeStep == TypeOK /\ [Next]_vars => TypeOK'
<1> SUFFICES ASSUME TypeOK, [Next]_vars PROVE TypeOK'
  OBVIOUS
<1>1. CASE Next
  BY <1>1, MonitorType, MarkType, MarkErrorType, WorkerType, DrainType, WatchdogType, EnvironmentType
  DEF Next
<1>2. CASE UNCHANGED vars
  BY <1>2
  DEF vars, TypeOK, DataOK, ControlOK, LocalsOK, CarriesTask, Task
<1> QED BY <1>1, <1>2

(* Type correctness for every number of monitors, levels, reasons, lots,    *)
(* order retries and crashes: no step of a monitor, the worker, the         *)
(* reconciler, the watchdog or the exchange takes a variable out of its     *)
(* type or a thread out of its program.                                     *)
THEOREM TypeCorrect == Spec => []TypeOK
<1>1. Init => TypeOK
  BY TypeInit
<1>2. TypeOK /\ [Next]_vars => TypeOK'
  BY TypeStep
<1> QED BY <1>1, <1>2, PTL DEF Spec

HIDE DEF Keys, MaxLots, Owners, Statuses, Active, MainThreads, Threads
-----------------------------------------------------------------------------
(* What the exit claim guarantees while no claim runs into its TTL under    *)
(* its holder: one close of a trade at a time, and never one from each      *)
(* process.  The inductive invariant is CoverInv; most actions are quiet    *)
(* for it (they move a thread between labels it does not tell apart).       *)
USE DEF MainThreads, Threads

AtRest == {"idle", "done"}

CoverInv == /\ TypeOK
            /\ MarkExclusive
            /\ OneCloseInFlight
            /\ ClaimCoversWork
            /\ NoLeakedClaim

(* The step leaves everything alone that CoverInv speaks of.                *)
Quiet ==
    /\ UNCHANGED <<claim, queue, mutex, lapsed>>
    /\ crashes = 0 <=> crashes' = 0
    /\ \A m \in Monitors : pc'[m] = "enqueue" <=> pc[m] = "enqueue"
    /\ pc'["worker"] \in AtRest <=> pc["worker"] \in AtRest
    /\ pc'["watchdog"] \in {"order", "book", "release"} =>
       pc["watchdog"] \in {"order", "book", "release"}
    /\ \A t \in MainThreads : /\ pc'[t] = "closing" <=> pc[t] = "closing"
                              /\ pc[t] = "closing" => loc'[t].own = loc[t].own

LEMMA QuietKeeps ==
  ASSUME CoverInv, Quiet
  PROVE  MarkExclusive' /\ OneCloseInFlight' /\ ClaimCoversWork' /\ NoLeakedClaim'
<1> USE DEF CoverInv, Quiet
<1>1. MarkExclusive'
  BY DEF MarkExclusive
<1>2. OneCloseInFlight'
  BY DEF OneCloseInFlight, Enqueuing, AtRest
<1>3. MainBusy' <=> MainBusy
  BY DEF MainBusy, Enqueuing, AtRest
<1>4. ClaimCoversWork'
  BY <1>3 DEF ClaimCoversWork, WatchdogBusy
<1>5. NoLeakedClaim'
  BY <1>3 DEF NoLeakedClaim
<1> QED BY <1>1, <1>2, <1>4, <1>5

(* One thread moves between labels that CoverInv does not tell apart.       *)
LEMMA QuietMove ==
  ASSUME TypeOK, NEW t \in Threads, NEW label \in AllLabels, Goto(t, label),
         \A u \in Threads \ {t} : loc'[u] = loc[u],
         UNCHANGED <<claim, queue, mutex, lapsed>>,
         crashes = 0 <=> crashes' = 0,
         pc[t] \notin {"enqueue", "closing"}, label \notin {"enqueue", "closing"},
         t = "worker" => (label \in AtRest <=> pc[t] \in AtRest),
         t = "watchdog" => (label \in {"order", "book", "release"} =>
                            pc[t] \in {"order", "book", "release"})
  PROVE  Quiet
<1>1. /\ pc'[t] = label
      /\ \A u \in Threads \ {t} : pc'[u] = pc[u]
  BY GotoLabel DEF TypeOK
<1> QED BY <1>1, ThreadNames DEF Quiet

LEMMA MonitorQuiet ==
  ASSUME TypeOK, NEW m \in Monitors,
         MonitorStep(m), ~AcceptClose(m), ~Enqueue(m)
  PROVE  Quiet
<1> USE DEF closeVars, exchangeVars, historyVars
<1>0. /\ m \in Threads /\ m # "worker" /\ m # "watchdog"
      /\ \A u \in Threads : loc' = loc => loc'[u] = loc[u]
  BY ThreadNames
<1>1. /\ "idle" \in AllLabels /\ "observed" \in AllLabels /\ "request" \in AllLabels
      /\ "unlock" \in AllLabels /\ "mark" \in AllLabels
  BY DEF AllLabels, MonitorLabels
<1>2. DOMAIN loc = Threads
  BY DEF TypeOK, LocalsOK
<1>3. CASE Observe(m)
  BY <1>0, <1>1, <1>2, <1>3, QuietMove DEF Observe
<1>4. CASE TrailingWrite(m)
  BY <1>4 DEF TrailingWrite, Quiet
<1>5. CASE NothingHit(m)
  BY <1>0, <1>1, <1>2, <1>5, QuietMove DEF NothingHit, GotoIdle
<1>6. ASSUME NEW k \in FullReasons, StopHit(m, k) PROVE Quiet
  BY <1>0, <1>1, <1>2, <1>6, QuietMove DEF StopHit
<1>7. ASSUME NEW k \in Levels, LockTakeProfit(m, k) PROVE Quiet
  BY <1>0, <1>1, <1>2, <1>7, QuietMove DEF LockTakeProfit
<1>8. CASE RefuseClose(m)
  BY <1>0, <1>1, <1>2, <1>8, QuietMove DEF RefuseClose, Refused, GotoIdle
<1>9. CASE FlatAtRequest(m)
  BY <1>0, <1>1, <1>2, <1>9, QuietMove DEF FlatAtRequest
<1>10. CASE UnlockTakeProfit(m)
  BY <1>0, <1>1, <1>2, <1>10, QuietMove DEF UnlockTakeProfit, GotoIdle
<1>11. CASE ExternalClose(m)
  BY <1>0, <1>1, <1>2, <1>11, QuietMove DEF ExternalClose
<1> QED
  BY <1>3, <1>4, <1>5, <1>6, <1>7, <1>8, <1>9, <1>10, <1>11 DEF MonitorStep

LEMMA WorkerQuiet ==
  ASSUME TypeOK, WorkerStep, ~WorkerTake, ~WorkerRelease
  PROVE  Quiet
<1> USE DEF closeVars, exchangeVars, historyVars, AtRest
<1>1. \A u \in Threads : loc' = loc => loc'[u] = loc[u]
  OBVIOUS
<1>2. WorkerLabels \subseteq AllLabels
  BY DEF AllLabels
<1>3. DOMAIN loc = Threads
  BY DEF TypeOK, LocalsOK
<1>4. CASE WorkerRead
  <2>1. PICK label \in {"order", "mark", "answered"} : Goto("worker", label)
    BY <1>4 DEF WorkerRead
  <2>2. \A u \in Threads \ {"worker"} : loc'[u] = loc[u]
    BY <1>3, <1>4 DEF WorkerRead
  <2> QED
    BY <1>2, <1>4, <2>1, <2>2, QuietMove DEF WorkerRead, WorkerLabels
<1>5. CASE WorkerFill
  BY <1>2, <1>3, <1>5, QuietMove DEF WorkerFill, WorkerLabels
<1>6. CASE WorkerOrderError
  <2>1. \A u \in Threads \ {"worker"} : loc'[u] = loc[u]
    BY <1>3, <1>6 DEF WorkerOrderError
  <2>2. CASE UNCHANGED pc
    BY <1>6, <2>1, <2>2 DEF WorkerOrderError, Quiet
  <2>3. ASSUME NEW label \in {"mark", "answered"}, Goto("worker", label) PROVE Quiet
    BY <1>2, <1>6, <2>1, <2>3, QuietMove DEF WorkerOrderError, WorkerLabels
  <2> QED BY <1>6, <2>2, <2>3 DEF WorkerOrderError
<1>7. CASE WorkerReduceOnlyReject
  <2>1. PICK label \in {"mark", "answered"} : Goto("worker", label)
    BY <1>7 DEF WorkerReduceOnlyReject
  <2> QED
    BY <1>2, <1>3, <1>7, <2>1, QuietMove DEF WorkerReduceOnlyReject, WorkerLabels
<1>8. CASE WorkerBook
  <2>1. PICK label \in {"mark", "answered"} : Goto("worker", label)
    BY <1>8 DEF WorkerBook
  <2>2. \A u \in Threads \ {"worker"} : loc'[u] = loc[u]
    BY <1>3, <1>8 DEF WorkerBook
  <2> QED
    BY <1>2, <1>8, <2>1, <2>2, QuietMove DEF WorkerBook, WorkerLabels
<1>9. CASE WorkerRollback
  BY <1>1, <1>2, <1>9, QuietMove DEF WorkerRollback, WorkerLabels
<1>10. CASE WorkerFullDone
  BY <1>1, <1>2, <1>10, QuietMove DEF WorkerFullDone, WorkerLabels
<1>11. CASE FinalizeRead
  <2>1. PICK label \in {"release", "finalize"} : Goto("worker", label)
    BY <1>11 DEF FinalizeRead
  <2>2. \A u \in Threads \ {"worker"} : loc'[u] = loc[u]
    BY <1>3, <1>11 DEF FinalizeRead
  <2> QED
    BY <1>2, <1>11, <2>1, <2>2, QuietMove DEF FinalizeRead, WorkerLabels
<1>12. CASE FinalizeWrite
  <2>1. PICK label \in {"release", "answered"} : Goto("worker", label)
    BY <1>12 DEF FinalizeWrite
  <2> QED
    BY <1>2, <1>3, <1>12, <2>1, QuietMove DEF FinalizeWrite, WorkerLabels
<1>13. CASE WorkerDone
  BY <1>2, <1>3, <1>13, QuietMove DEF WorkerDone, GotoIdle, WorkerLabels
<1>14. CASE WorkerError
  BY <1>2, <1>3, <1>14, QuietMove DEF WorkerError, WorkerLabels
<1> QED
  BY <1>4, <1>5, <1>6, <1>7, <1>8, <1>9, <1>10, <1>11, <1>12, <1>13, <1>14 DEF WorkerStep

LEMMA WatchdogQuiet ==
  ASSUME TypeOK, WatchdogStep, ~WatchdogClaim, ~WatchdogRelease
  PROVE  Quiet
<1> USE DEF closeVars, exchangeVars, historyVars
<1>1. \A u \in Threads : loc' = loc => loc'[u] = loc[u]
  OBVIOUS
<1>2. WatchdogLabels \subseteq AllLabels
  BY DEF AllLabels
<1>3. DOMAIN loc = Threads
  BY DEF TypeOK, LocalsOK
<1>4. ASSUME NEW k \in Keys, WatchdogRead(k) PROVE Quiet
  BY <1>2, <1>3, <1>4, QuietMove DEF WatchdogRead, WatchdogLabels
<1>5. CASE WatchdogDefer
  BY <1>2, <1>3, <1>5, QuietMove DEF WatchdogDefer, GotoIdle, WatchdogLabels
<1>6. CASE WatchdogFill
  BY <1>1, <1>2, <1>6, QuietMove DEF WatchdogFill, WatchdogLabels
<1>7. CASE WatchdogOrderError
  BY <1>1, <1>2, <1>7, QuietMove DEF WatchdogOrderError, WatchdogLabels
<1>8. CASE WatchdogReduceOnlyReject
  BY <1>1, <1>2, <1>8, QuietMove DEF WatchdogReduceOnlyReject, WatchdogLabels
<1>9. CASE WatchdogBook
  BY <1>1, <1>2, <1>9, QuietMove DEF WatchdogBook, WatchdogLabels
<1> QED
  BY <1>4, <1>5, <1>6, <1>7, <1>8, <1>9 DEF WatchdogStep

-----------------------------------------------------------------------------
(* The actions that take, pass on or give back a claim.                     *)
ClaimParts == MarkExclusive /\ OneCloseInFlight /\ ClaimCoversWork /\ NoLeakedClaim

LEMMA MoveOf ==
  ASSUME TypeOK, NEW t \in Threads, NEW label \in AllLabels, Goto(t, label)
  PROVE  /\ pc'[t] = label
         /\ \A u \in Threads \ {t} : pc'[u] = pc[u]
  BY GotoLabel DEF TypeOK

LEMMA AcceptClaims ==
  ASSUME CoverInv, NEW m \in Monitors, AcceptClose(m)
  PROVE  ClaimParts'
<1>1. /\ m \in Threads /\ pc[m] = "request" /\ ~claim.live
      /\ UNCHANGED <<queue, mutex, loc, lapsed>> /\ claim' = ClaimBy("main")
      /\ pc'[m] = "enqueue" /\ \A u \in Threads \ {m} : pc'[u] = pc[u]
  BY MoveOf DEF CoverInv, AcceptClose, MayQueue, AllLabels, MonitorLabels, historyVars
<1>2. MarkExclusive'
  BY <1>1 DEF CoverInv, MarkExclusive
<1>3. ~lapsed => ~MainBusy /\ ~WatchdogBusy /\ \A t \in MainThreads : pc[t] = "closing" => ~loc[t].own
  BY <1>1 DEF CoverInv, ClaimCoversWork, ClaimBy
<1>4. OneCloseInFlight'
  BY <1>1, <1>3, ThreadNames DEF OneCloseInFlight, MainBusy, Enqueuing
<1>5. ClaimCoversWork'
  BY <1>1, <1>3, ThreadNames DEF ClaimCoversWork, WatchdogBusy
<1>6. NoLeakedClaim'
  BY <1>1 DEF NoLeakedClaim, MainBusy, Enqueuing
<1> QED BY <1>2, <1>4, <1>5, <1>6 DEF ClaimParts

LEMMA EnqueueClaims ==
  ASSUME CoverInv, NEW m \in Monitors, Enqueue(m)
  PROVE  ClaimParts'
<1>1. /\ m \in Threads /\ pc[m] = "enqueue"
      /\ UNCHANGED <<claim, mutex, lapsed>> /\ queue' = Append(queue, loc[m].task)
      /\ pc'[m] = "idle" /\ \A u \in Threads \ {m} : pc'[u] = pc[u] /\ loc'[u] = loc[u]
  <2>1. DOMAIN loc = Threads
    BY DEF CoverInv, TypeOK, LocalsOK
  <2> QED
    BY <2>1, MoveOf DEF CoverInv, Enqueue, GotoIdle, AllLabels, MonitorLabels, historyVars
<1>2. queue \in Seq(Tasks) /\ loc[m].task \in Tasks
  BY <1>1 DEF CoverInv, TypeOK, DataOK, LocalsOK, CarriesTask
<1>3. queue' # <<>> /\ (queue = <<>> => Len(queue') = 1)
  BY <1>1, <1>2
<1>4. MainBusy /\ MainBusy'
  BY <1>1, <1>3 DEF MainBusy, Enqueuing
<1>5. MarkExclusive'
  BY <1>1 DEF CoverInv, MarkExclusive
<1>6. OneCloseInFlight'
  BY <1>1, <1>3, ThreadNames DEF CoverInv, OneCloseInFlight, Enqueuing
<1>7. ClaimCoversWork'
  BY <1>1, <1>4, ThreadNames DEF CoverInv, ClaimCoversWork, WatchdogBusy
<1>8. NoLeakedClaim'
  BY <1>4 DEF NoLeakedClaim
<1> QED BY <1>5, <1>6, <1>7, <1>8 DEF ClaimParts

LEMMA TakeClaims ==
  ASSUME CoverInv, WorkerTake
  PROVE  ClaimParts'
<1>1. /\ pc["worker"] = "idle" /\ queue # <<>> /\ queue' = Tail(queue)
      /\ UNCHANGED <<claim, mutex, lapsed>>
      /\ pc'["worker"] = "read"
      /\ \A u \in Threads \ {"worker"} : pc'[u] = pc[u] /\ loc'[u] = loc[u]
  <2>1. DOMAIN loc = Threads
    BY DEF CoverInv, TypeOK, LocalsOK
  <2> QED
    BY <2>1, MoveOf DEF CoverInv, WorkerTake, AllLabels, WorkerLabels, historyVars
<1>2. queue \in Seq(Tasks)
  BY DEF CoverInv, TypeOK, DataOK
<1>3. Len(queue) = 1 => queue' = <<>>
  BY <1>1, <1>2
<1>4. MainBusy /\ MainBusy'
  BY <1>1 DEF MainBusy
<1>5. MarkExclusive'
  BY <1>1 DEF CoverInv, MarkExclusive
<1>6. OneCloseInFlight'
  BY <1>1, <1>3, ThreadNames DEF CoverInv, OneCloseInFlight, Enqueuing
<1>7. ClaimCoversWork'
  BY <1>1, <1>4 DEF CoverInv, ClaimCoversWork, WatchdogBusy
<1>8. NoLeakedClaim'
  BY <1>4 DEF NoLeakedClaim
<1> QED BY <1>5, <1>6, <1>7, <1>8 DEF ClaimParts

LEMMA ReleaseClaims ==
  ASSUME CoverInv, WorkerRelease
  PROVE  ClaimParts'
<1>1. /\ pc["worker"] = "release" /\ claim' = Released("main")
      /\ UNCHANGED <<queue, mutex, loc, lapsed, crashes>>
      /\ pc'["worker"] = "done" /\ \A u \in Threads \ {"worker"} : pc'[u] = pc[u]
  BY MoveOf DEF CoverInv, WorkerRelease, AllLabels, WorkerLabels, closeVars, historyVars
<1>2. MainBusy
  BY <1>1 DEF MainBusy
<1>3. ~lapsed => ~MainBusy'
  BY <1>1, ThreadNames DEF CoverInv, OneCloseInFlight, MainBusy, Enqueuing
<1>4. MarkExclusive'
  BY <1>1 DEF CoverInv, MarkExclusive
<1>5. OneCloseInFlight'
  BY <1>1, ThreadNames DEF CoverInv, OneCloseInFlight, Enqueuing
<1>6. ClaimCoversWork'
  BY <1>1, <1>2, <1>3, ThreadNames
  DEF CoverInv, ClaimCoversWork, WatchdogBusy, ClaimBy
<1>7. claim'.owner # "main"
  BY <1>1 DEF Released, NoClaim
<1>8. NoLeakedClaim'
  BY <1>7 DEF NoLeakedClaim
<1> QED BY <1>4, <1>5, <1>6, <1>8 DEF ClaimParts

(* The thread that leaves _mark_trade_closed.                               *)
LEMMA MarkDoneMove ==
  ASSUME TypeOK, NEW t \in MainThreads, MarkDone(t)
  PROVE  /\ pc'[t] = IF t = "worker" THEN "answered" ELSE "idle"
         /\ \A u \in Threads \ {t} : pc'[u] = pc[u] /\ loc'[u] = loc[u]
<1>1. DOMAIN loc = Threads
  BY DEF TypeOK, LocalsOK
<1>2. CASE t = "worker"
  BY <1>1, <1>2, MoveOf DEF MarkDone, AllLabels, WorkerLabels
<1>3. CASE t # "worker"
  BY <1>1, <1>3, MoveOf DEF MarkDone, GotoIdle, AllLabels, MonitorLabels
<1> QED BY <1>2, <1>3

LEMMA MarkSkipQuiet ==
  ASSUME TypeOK, NEW t \in MainThreads, MarkSkip(t)
  PROVE  Quiet
BY MarkDoneMove, ThreadNames DEF MarkSkip, Quiet, AtRest, closeVars, historyVars

LEMMA MarkBeginClaims ==
  ASSUME CoverInv, NEW t \in MainThreads, MarkBegin(t)
  PROVE  ClaimParts'
<1>1. /\ pc[t] = "mark" /\ mutex = "free" /\ mutex' = t
      /\ claim' = (IF claim.live THEN claim ELSE ClaimBy("close_pipeline"))
      /\ loc'[t].own = ~claim.live
      /\ UNCHANGED <<queue, lapsed>>
      /\ pc'[t] = "closing"
      /\ \A u \in Threads \ {t} : pc'[u] = pc[u] /\ loc'[u] = loc[u]
  <2>1. loc \in [Threads -> Locals]
    BY DEF CoverInv, TypeOK, LocalsOK
  <2>2. loc'[t].own = ~claim.live
    BY <2>1 DEF MarkBegin, Locals
  <2> QED
    BY <2>1, <2>2, MoveOf DEF CoverInv, MarkBegin, MutexFree, AllLabels, MonitorLabels, closeVars, historyVars
<1>2. \A u \in MainThreads : pc[u] # "closing"
  BY <1>1, ThreadNames, ClosePipelineAssumption DEF CoverInv, MarkExclusive
<1>3. MarkExclusive'
  BY <1>1, <1>2 DEF MarkExclusive
<1>4. MainBusy' <=> MainBusy
  BY <1>1, ThreadNames DEF MainBusy, Enqueuing
<1>5. WatchdogBusy' <=> WatchdogBusy
  BY <1>1, ThreadNames DEF WatchdogBusy
<1>6. OneCloseInFlight'
  BY <1>1, ThreadNames DEF CoverInv, OneCloseInFlight, Enqueuing
<1>7. ClaimCoversWork'
  <2>1. ~lapsed' /\ MainBusy' => claim' = ClaimBy("main")
    BY <1>1, <1>4 DEF CoverInv, ClaimCoversWork, ClaimBy
  <2>2. ~lapsed' /\ WatchdogBusy' => claim' = ClaimBy("watchdog")
    BY <1>1, <1>5 DEF CoverInv, ClaimCoversWork, ClaimBy
  <2>3. \A u \in MainThreads : pc'[u] = "closing" => u = t
    BY <1>1, <1>2
  <2>4. loc'[t].own => claim' = ClaimBy("close_pipeline")
    BY <1>1
  <2> QED BY <2>1, <2>2, <2>3, <2>4 DEF ClaimCoversWork
<1>8. NoLeakedClaim'
  BY <1>1, <1>4 DEF CoverInv, NoLeakedClaim, ClaimBy, MarkBegin, historyVars
<1> QED BY <1>3, <1>6, <1>7, <1>8 DEF ClaimParts

(* The finaliser gives claim and mutex back, with or without the row written. *)
LEMMA MarkEndClaims ==
  ASSUME CoverInv, NEW t \in MainThreads, MarkCommit(t) \/ MarkError(t)
  PROVE  ClaimParts'
<1>1. /\ pc[t] = "closing" /\ mutex' = "free"
      /\ claim' = (IF loc[t].own THEN Released("close_pipeline") ELSE claim)
      /\ UNCHANGED <<queue, lapsed, crashes>>
      /\ pc'[t] = IF t = "worker" THEN "answered" ELSE "idle"
      /\ \A u \in Threads \ {t} : pc'[u] = pc[u] /\ loc'[u] = loc[u]
  <2>1. CASE MarkCommit(t)
    BY <2>1, MarkDoneMove DEF CoverInv, MarkCommit, closeVars, historyVars
  <2>2. CASE MarkError(t) /\ t # "worker"
    <3>1. MarkDone(t)
      BY <2>2 DEF MarkError, MarkDone
    <3> QED
      BY <2>2, <3>1, MarkDoneMove DEF CoverInv, MarkError, closeVars, historyVars
  <2>3. CASE MarkError(t) /\ t = "worker"
    <3>1. DOMAIN loc = Threads
      BY DEF CoverInv, TypeOK, LocalsOK
    <3> QED
      BY <2>3, <3>1, MoveOf
      DEF CoverInv, MarkError, AllLabels, WorkerLabels, closeVars, historyVars
  <2> QED BY <2>1, <2>2, <2>3
<1>2. mutex = t /\ \A u \in MainThreads \ {t} : pc[u] # "closing"
  BY <1>1 DEF CoverInv, MarkExclusive
<1>3. MarkExclusive'
  BY <1>1, <1>2, ClosePipelineAssumption DEF MarkExclusive
<1>4. MainBusy' <=> MainBusy
  BY <1>1, ThreadNames DEF MainBusy, Enqueuing
<1>5. WatchdogBusy' <=> WatchdogBusy
  BY <1>1, ThreadNames DEF WatchdogBusy
<1>6. OneCloseInFlight'
  BY <1>1, ThreadNames DEF CoverInv, OneCloseInFlight, Enqueuing
<1>7. ~lapsed /\ (MainBusy \/ WatchdogBusy) => claim' = claim
  BY <1>1 DEF CoverInv, ClaimCoversWork, ClaimBy
<1>8. ClaimCoversWork'
  BY <1>1, <1>2, <1>4, <1>5, <1>7, ThreadNames DEF CoverInv, ClaimCoversWork
<1>9. claim'.owner = "main" => claim.owner = "main"
  BY <1>1 DEF Released, NoClaim
<1>10. NoLeakedClaim'
  BY <1>1, <1>4, <1>9 DEF CoverInv, NoLeakedClaim
<1> QED BY <1>3, <1>6, <1>8, <1>10 DEF ClaimParts

LEMMA DrainQuiet ==
  ASSUME TypeOK, DrainFlat
  PROVE  Quiet
BY QuietMove DEF DrainFlat, AllLabels, MonitorLabels, closeVars, historyVars

LEMMA WatchdogClaimClaims ==
  ASSUME CoverInv, WatchdogClaim
  PROVE  ClaimParts'
<1>1. /\ ~claim.live /\ claim' = ClaimBy("watchdog")
      /\ UNCHANGED <<queue, mutex, loc, lapsed>>
      /\ \A u \in MainThreads : pc'[u] = pc[u]
  BY MoveOf, ThreadNames
  DEF CoverInv, WatchdogClaim, AllLabels, WatchdogLabels, closeVars, historyVars
<1>2. MarkExclusive'
  BY <1>1 DEF CoverInv, MarkExclusive
<1>3. OneCloseInFlight'
  BY <1>1 DEF CoverInv, OneCloseInFlight, Enqueuing
<1>4. MainBusy' <=> MainBusy
  BY <1>1 DEF MainBusy, Enqueuing
<1>5. ~lapsed => ~MainBusy /\ \A t \in MainThreads : pc[t] = "closing" => ~loc[t].own
  BY <1>1 DEF CoverInv, ClaimCoversWork, ClaimBy
<1>6. ClaimCoversWork'
  BY <1>1, <1>4, <1>5 DEF ClaimCoversWork
<1>7. NoLeakedClaim'
  BY <1>1 DEF NoLeakedClaim, ClaimBy
<1> QED BY <1>2, <1>3, <1>6, <1>7 DEF ClaimParts

LEMMA WatchdogReleaseClaims ==
  ASSUME CoverInv, WatchdogRelease
  PROVE  ClaimParts'
<1>1. /\ pc["watchdog"] = "release" /\ claim' = Released("watchdog")
      /\ UNCHANGED <<queue, mutex, lapsed, crashes>>
      /\ pc'["watchdog"] = "idle"
      /\ \A u \in MainThreads : pc'[u] = pc[u] /\ loc'[u] = loc[u]
  <2>1. DOMAIN loc = Threads
    BY DEF CoverInv, TypeOK, LocalsOK
  <2> QED
    BY <2>1, MoveOf, ThreadNames
    DEF CoverInv, WatchdogRelease, GotoIdle, AllLabels, WatchdogLabels, closeVars, historyVars
<1>2. MarkExclusive'
  BY <1>1 DEF CoverInv, MarkExclusive
<1>3. OneCloseInFlight'
  BY <1>1 DEF CoverInv, OneCloseInFlight, Enqueuing
<1>4. MainBusy' <=> MainBusy
  BY <1>1 DEF MainBusy, Enqueuing
<1>5. ~lapsed => ~MainBusy /\ \A t \in MainThreads : pc[t] = "closing" => ~loc[t].own
  BY <1>1 DEF CoverInv, ClaimCoversWork, ClaimBy, WatchdogBusy
<1>6. ClaimCoversWork'
  BY <1>1, <1>4, <1>5 DEF ClaimCoversWork, WatchdogBusy
<1>7. NoLeakedClaim'
  BY <1>1, <1>4 DEF CoverInv, NoLeakedClaim, Released, NoClaim
<1> QED BY <1>2, <1>3, <1>6, <1>7 DEF ClaimParts

LEMMA ExpireClaims ==
  ASSUME CoverInv, ClaimExpire
  PROVE  ClaimParts'
<1>1. /\ claim' = [claim EXCEPT !.live = FALSE] /\ (lapsed' <=> lapsed \/ Holding)
      /\ UNCHANGED <<queue, mutex, pc, loc, crashes>>
  BY DEF ClaimExpire, closeVars
<1>2. MarkExclusive'
  BY <1>1 DEF CoverInv, MarkExclusive
<1>3. MainBusy' <=> MainBusy
  BY <1>1 DEF MainBusy, Enqueuing
<1>4. OneCloseInFlight'
  BY <1>1 DEF CoverInv, OneCloseInFlight, Enqueuing
<1>5. claim'.owner = claim.owner
  BY <1>1 DEF CoverInv, TypeOK, DataOK
<1>6. NoLeakedClaim'
  BY <1>1, <1>3, <1>5 DEF CoverInv, NoLeakedClaim
<1>7. ASSUME ~lapsed, ~Holding
      PROVE  ~MainBusy /\ ~WatchdogBusy /\ \A t \in MainThreads : pc[t] = "closing" => ~loc[t].own
  <2>1. ~MainBusy
    BY <1>7 DEF CoverInv, ClaimCoversWork, ClaimBy, Holding, MainBusy, Enqueuing
  <2>2. ~WatchdogBusy
    BY <1>7 DEF CoverInv, ClaimCoversWork, ClaimBy, Holding, WatchdogBusy
  <2>3. ASSUME NEW t \in MainThreads, pc[t] = "closing", loc[t].own PROVE FALSE
    <3>1. mutex # "free"
      BY <2>3, ClosePipelineAssumption DEF CoverInv, MarkExclusive
    <3> QED
      BY <1>7, <2>3, <3>1 DEF CoverInv, ClaimCoversWork, ClaimBy, Holding
  <2> QED BY <2>1, <2>2, <2>3
<1>8. ClaimCoversWork'
  BY <1>1, <1>3, <1>7 DEF ClaimCoversWork, WatchdogBusy
<1> QED BY <1>2, <1>4, <1>6, <1>8 DEF ClaimParts

LEMMA CrashClaims ==
  ASSUME CoverInv, Crash
  PROVE  ClaimParts'
<1>1. /\ crashes' # 0 /\ queue' = <<>> /\ mutex' = "free" /\ UNCHANGED <<claim, lapsed>>
      /\ pc'["watchdog"] = pc["watchdog"]
      /\ \A t \in MainThreads : pc'[t] = "idle"
  BY ThreadNames DEF CoverInv, TypeOK, DataOK, Crash
<1>2. MarkExclusive'
  BY <1>1, ClosePipelineAssumption DEF MarkExclusive
<1>3. ~MainBusy'
  BY <1>1 DEF MainBusy, Enqueuing
<1>4. OneCloseInFlight'
  BY <1>1 DEF OneCloseInFlight, Enqueuing
<1>5. ClaimCoversWork'
  BY <1>1, <1>3 DEF CoverInv, ClaimCoversWork, WatchdogBusy
<1>6. NoLeakedClaim'
  BY <1>1 DEF NoLeakedClaim
<1> QED BY <1>2, <1>4, <1>5, <1>6 DEF ClaimParts

LEMMA WatchdogCrashQuiet ==
  ASSUME CoverInv, WatchdogCrash
  PROVE  ClaimParts'
<1>1. /\ crashes' # 0 /\ UNCHANGED <<claim, queue, mutex, lapsed>>
      /\ pc'["watchdog"] = "idle"
      /\ \A t \in MainThreads : pc'[t] = pc[t] /\ loc'[t] = loc[t]
  <2>1. DOMAIN loc = Threads /\ crashes \in Nat
    BY DEF CoverInv, TypeOK, LocalsOK, DataOK
  <2> QED
    BY <2>1, MoveOf, ThreadNames
    DEF CoverInv, WatchdogCrash, GotoIdle, AllLabels, WatchdogLabels, closeVars
<1>2. MarkExclusive' /\ OneCloseInFlight'
  BY <1>1 DEF CoverInv, MarkExclusive, OneCloseInFlight, Enqueuing
<1>3. MainBusy' <=> MainBusy
  BY <1>1 DEF MainBusy, Enqueuing
<1>4. ClaimCoversWork'
  BY <1>1, <1>3 DEF CoverInv, ClaimCoversWork, WatchdogBusy
<1>5. NoLeakedClaim'
  BY <1>1 DEF NoLeakedClaim
<1> QED BY <1>2, <1>4, <1>5 DEF ClaimParts

-----------------------------------------------------------------------------
LEMMA CoverInit == Init => CoverInv
<1> SUFFICES ASSUME Init PROVE CoverInv
  OBVIOUS
<1>1. TypeOK
  BY TypeInit
<1>2. ~MainBusy /\ ~WatchdogBusy /\ \A t \in Threads : pc[t] = "idle"
  BY DEF Init, MainBusy, WatchdogBusy, Enqueuing
<1>3. MarkExclusive
  BY <1>2, ClosePipelineAssumption DEF Init, MarkExclusive
<1>4. OneCloseInFlight
  BY DEF Init, OneCloseInFlight, Enqueuing
<1>5. ClaimCoversWork /\ NoLeakedClaim
  BY <1>2 DEF Init, ClaimCoversWork, NoLeakedClaim, NoClaim
<1> QED BY <1>1, <1>3, <1>4, <1>5 DEF CoverInv

LEMMA CoverStep == CoverInv /\ [Next]_vars => CoverInv'
<1> SUFFICES ASSUME CoverInv, [Next]_vars PROVE CoverInv'
  OBVIOUS
<1>1. TypeOK /\ TypeOK'
  BY TypeStep DEF CoverInv
<1>2. Quiet => ClaimParts'
  BY QuietKeeps DEF ClaimParts
<1>3. SUFFICES ClaimParts'
  BY <1>1 DEF CoverInv, ClaimParts
<1>4. ASSUME NEW m \in Monitors, MonitorStep(m) PROVE ClaimParts'
  BY <1>1, <1>2, <1>4, MonitorQuiet, AcceptClaims, EnqueueClaims
<1>5. ASSUME NEW t \in MainThreads, MarkStep(t) PROVE ClaimParts'
  BY <1>1, <1>2, <1>5, MarkSkipQuiet, MarkBeginClaims, MarkEndClaims DEF MarkStep
<1>6. CASE WorkerStep
  BY <1>1, <1>2, <1>6, WorkerQuiet, TakeClaims, ReleaseClaims
<1>7. CASE DrainFlat
  BY <1>1, <1>2, <1>7, DrainQuiet
<1>8. CASE WatchdogStep
  BY <1>1, <1>2, <1>8, WatchdogQuiet, WatchdogClaimClaims, WatchdogReleaseClaims
<1>9. CASE Environment
  <2>1. CASE ExternalFlat \/ DcaAdd
    BY <1>2, <2>1 DEF ExternalFlat, DcaAdd, Quiet, closeVars, historyVars
  <2>2. CASE ClaimExpire
    BY <2>2, ExpireClaims
  <2>3. CASE Crash
    BY <2>3, CrashClaims
  <2>4. CASE WatchdogCrash
    BY <2>4, WatchdogCrashQuiet
  <2> QED BY <1>9, <2>1, <2>2, <2>3, <2>4 DEF Environment
<1>10. CASE UNCHANGED vars
  BY <1>2, <1>10 DEF vars, Quiet
<1>11. ASSUME NEW t \in MainThreads, MarkError(t) PROVE ClaimParts'
  BY <1>11, MarkEndClaims
<1> QED
  BY <1>4, <1>5, <1>6, <1>7, <1>8, <1>9, <1>10, <1>11 DEF Next

LEMMA CoverHolds == Spec => []CoverInv
<1>1. Init => CoverInv
  BY CoverInit
<1>2. CoverInv /\ [Next]_vars => CoverInv'
  BY CoverStep
<1> QED BY <1>1, <1>2, PTL DEF Spec

(* The finaliser holds trade_close_mutex, and nobody else does.             *)
THEOREM FinalisersExclude == Spec => []MarkExclusive
<1>1. CoverInv => MarkExclusive
  BY DEF CoverInv
<1> QED BY <1>1, CoverHolds, PTL

(* The claim admits one close of the trade at a time into the main process, *)
(* as long as no TTL passes under a holder.                                 *)
THEOREM OneClose == Spec => []OneCloseInFlight
<1>1. CoverInv => OneCloseInFlight
  BY DEF CoverInv
<1> QED BY <1>1, CoverHolds, PTL

(* Every order of either process is sent under that process's claim.        *)
THEOREM ClaimsCover == Spec => []ClaimCoversWork
<1>1. CoverInv => ClaimCoversWork
  BY DEF CoverInv
<1> QED BY <1>1, CoverHolds, PTL

(* A finished close leaves no claim of main behind, unless main crashed.    *)
THEOREM ClaimsReturned == Spec => []NoLeakedClaim
<1>1. CoverInv => NoLeakedClaim
  BY DEF CoverInv
<1> QED BY <1>1, CoverHolds, PTL

(* Main and the watchdog never have a close order of the same trade out at  *)
(* the same time, as long as no TTL passes under a holder.                  *)
THEOREM ProcessesExclude == Spec => []ExclusiveClose
<1>1. CoverInv => ExclusiveClose
  BY DEF CoverInv, ClaimCoversWork, ExclusiveClose, MainBusy, WatchdogBusy, ClaimBy
<1> QED BY <1>1, CoverHolds, PTL
-----------------------------------------------------------------------------
(* One task for every key in flight.  A step is silent for it when it leaves *)
(* the keys, the queue and the tasks on their way to it or from it alone.    *)
KeySilent ==
    /\ UNCHANGED <<inflight, queue>>
    /\ \A m \in Monitors : /\ Enqueuing(m)' <=> Enqueuing(m)
                           /\ Enqueuing(m) => loc'[m].task = loc[m].task
    /\ Working' <=> Working
    /\ Working => Task' = Task

LEMMA SilentKeeps ==
  ASSUME OneTaskPerKey, KeySilent
  PROVE  OneTaskPerKey'
<1>1. \A k : Queued(k)' <=> Queued(k)
  BY DEF KeySilent, Queued
<1>2. /\ inflight' = inflight /\ queue' = queue
      /\ \A m \in Monitors : /\ Enqueuing(m)' <=> Enqueuing(m)
                             /\ Enqueuing(m) => loc'[m].task = loc[m].task
      /\ Working' <=> Working
      /\ Working => Task' = Task
  BY DEF KeySilent
<1> QED
  BY <1>1, <1>2 DEF OneTaskPerKey

(* One thread moves, not into, in or out of the enqueuing of a task, and the  *)
(* worker not to or from its rest.                                          *)
LEMMA SilentMove ==
  ASSUME TypeOK, NEW t \in Threads, NEW label \in AllLabels, Goto(t, label),
         \A u \in Threads \ {t} : loc'[u] = loc[u],
         UNCHANGED <<inflight, queue>>,
         pc[t] # "enqueue", label # "enqueue",
         t = "worker" => /\ pc["worker"] # "idle" /\ label # "idle"
                         /\ loc'["worker"].task = loc["worker"].task
  PROVE  KeySilent
<1>1. /\ pc'[t] = label
      /\ \A u \in Threads \ {t} : pc'[u] = pc[u]
  BY MoveOf
<1>2. \A m \in Monitors : m \in Threads
  OBVIOUS
<1>3. \A m \in Monitors : /\ Enqueuing(m)' <=> Enqueuing(m)
                          /\ Enqueuing(m) => loc'[m].task = loc[m].task
  BY <1>1, <1>2 DEF Enqueuing
<1>4. /\ Working' <=> Working
      /\ Working => Task' = Task
  BY <1>1, ThreadNames DEF Working, Task
<1> QED BY <1>3, <1>4 DEF KeySilent

LEMMA MonitorSilent ==
  ASSUME TypeOK, NEW m \in Monitors,
         MonitorStep(m), ~AcceptClose(m), ~Enqueue(m)
  PROVE  KeySilent
<1> USE DEF closeVars, exchangeVars, historyVars
<1>0. /\ m \in Threads /\ m # "worker"
      /\ \A u \in Threads : loc' = loc => loc'[u] = loc[u]
  BY ThreadNames
<1>1. /\ "idle" \in AllLabels /\ "observed" \in AllLabels /\ "request" \in AllLabels
      /\ "unlock" \in AllLabels /\ "mark" \in AllLabels
  BY DEF AllLabels, MonitorLabels
<1>2. DOMAIN loc = Threads
  BY DEF TypeOK, LocalsOK
<1>3. CASE Observe(m)
  BY <1>0, <1>1, <1>2, <1>3, SilentMove DEF Observe
<1>4. CASE TrailingWrite(m)
  BY <1>4 DEF TrailingWrite, KeySilent, Enqueuing, Working, Task
<1>5. CASE NothingHit(m)
  BY <1>0, <1>1, <1>2, <1>5, SilentMove DEF NothingHit, GotoIdle
<1>6. ASSUME NEW k \in FullReasons, StopHit(m, k) PROVE KeySilent
  BY <1>0, <1>1, <1>2, <1>6, SilentMove DEF StopHit
<1>7. ASSUME NEW k \in Levels, LockTakeProfit(m, k) PROVE KeySilent
  BY <1>0, <1>1, <1>2, <1>7, SilentMove DEF LockTakeProfit
<1>8. CASE RefuseClose(m)
  BY <1>0, <1>1, <1>2, <1>8, SilentMove DEF RefuseClose, Refused, GotoIdle
<1>9. CASE FlatAtRequest(m)
  BY <1>0, <1>1, <1>2, <1>9, SilentMove DEF FlatAtRequest
<1>10. CASE UnlockTakeProfit(m)
  BY <1>0, <1>1, <1>2, <1>10, SilentMove DEF UnlockTakeProfit, GotoIdle
<1>11. CASE ExternalClose(m)
  BY <1>0, <1>1, <1>2, <1>11, SilentMove DEF ExternalClose
<1> QED
  BY <1>3, <1>4, <1>5, <1>6, <1>7, <1>8, <1>9, <1>10, <1>11 DEF MonitorStep

(* What the worker carries is a task of its own.                             *)
LEMMA WorkerLocals ==
  ASSUME TypeOK
  PROVE  /\ loc["worker"] \in Locals /\ DOMAIN loc = Threads
         /\ pc["worker"] # "idle" => Task \in Tasks
  BY DEF TypeOK, LocalsOK

(* The task that the worker carries from one step of its turn to the next.   *)
LEMMA WorkerTaskKept ==
  ASSUME TypeOK, WorkerStep, ~WorkerTake, ~WorkerDone
  PROVE  /\ pc["worker"] # "idle"
         /\ loc'["worker"].task = loc["worker"].task
         /\ \A u \in Threads \ {"worker"} : loc'[u] = loc[u]
<1> USE DEF WorkerStep
<1>1. /\ DOMAIN loc = Threads /\ loc["worker"] \in Locals
      /\ Task = loc["worker"].task
      /\ pc["worker"] # "idle" => Carrying(Task).task = Task
  BY WorkerLocals, CarryingLocals DEF Task
<1>2. pc["worker"] # "idle"
  BY DEF WorkerRead, WorkerFill, WorkerOrderError, WorkerReduceOnlyReject, WorkerBook,
         WorkerRollback, WorkerFullDone, FinalizeRead, FinalizeWrite, WorkerError, WorkerRelease
<1>3. CASE WorkerRead \/ WorkerFill \/ FinalizeRead
  BY <1>1, <1>3 DEF WorkerRead, WorkerFill, FinalizeRead, Locals
<1>4. CASE UNCHANGED loc
  BY <1>2, <1>4
<1>5. CASE WorkerOrderError
  BY <1>1, <1>2, <1>5 DEF WorkerOrderError, Locals
<1>6. CASE WorkerReduceOnlyReject \/ FinalizeWrite \/ WorkerError
  BY <1>1, <1>2, <1>6 DEF WorkerReduceOnlyReject, FinalizeWrite, WorkerError
<1>7. CASE WorkerBook
  <2>1. [Carrying(Task) EXCEPT !.ok = TRUE].task = Task
    BY <1>1, <1>2 DEF Carrying, Idle
  <2> QED
    BY <1>1, <1>2, <1>7, <2>1 DEF WorkerBook
<1> QED
  BY <1>2, <1>3, <1>4, <1>5, <1>6, <1>7 DEF WorkerRollback, WorkerFullDone, WorkerRelease

LEMMA WorkerSilent ==
  ASSUME TypeOK, WorkerStep, ~WorkerTake, ~WorkerDone
  PROVE  KeySilent
<1>1. UNCHANGED <<inflight, queue>>
  BY DEF WorkerStep, WorkerRead, WorkerFill, WorkerOrderError, WorkerReduceOnlyReject, WorkerBook,
         WorkerRollback, WorkerFullDone, FinalizeRead, FinalizeWrite, WorkerError, WorkerRelease,
         closeVars
<1>2. \/ UNCHANGED pc
      \/ \E label \in WorkerLabels \ {"idle"} : Goto("worker", label)
  BY DEF WorkerStep, WorkerRead, WorkerFill, WorkerOrderError, WorkerReduceOnlyReject, WorkerBook,
         WorkerRollback, WorkerFullDone, FinalizeRead, FinalizeWrite, WorkerError, WorkerRelease,
         WorkerLabels
<1>3. CASE UNCHANGED pc
  BY <1>1, <1>3, WorkerTaskKept, ThreadNames DEF KeySilent, Enqueuing, Working, Task
<1>4. ASSUME NEW label \in WorkerLabels \ {"idle"}, Goto("worker", label) PROVE KeySilent
  <2>1. label \in AllLabels /\ label # "enqueue" /\ pc["worker"] # "enqueue"
    BY DEF TypeOK, ControlOK, AllLabels, WorkerLabels
  <2> QED
    BY <1>1, <1>4, <2>1, WorkerTaskKept, SilentMove
<1> QED BY <1>2, <1>3, <1>4

LEMMA WatchdogSilent ==
  ASSUME TypeOK, WatchdogStep \/ WatchdogCrash
  PROVE  KeySilent
<1>1. /\ UNCHANGED <<inflight, queue>> /\ DOMAIN loc = Threads
      /\ pc["watchdog"] # "enqueue"
  BY DEF WatchdogStep, WatchdogRead, WatchdogDefer, WatchdogClaim, WatchdogFill,
         WatchdogOrderError, WatchdogReduceOnlyReject, WatchdogBook, WatchdogRelease,
         WatchdogCrash, closeVars, TypeOK, LocalsOK, ControlOK, WatchdogLabels
<1>2. \A u \in Threads \ {"watchdog"} : loc'[u] = loc[u]
  BY <1>1
  DEF WatchdogStep, WatchdogRead, WatchdogDefer, WatchdogClaim, WatchdogFill,
      WatchdogOrderError, WatchdogReduceOnlyReject, WatchdogBook, WatchdogRelease,
      WatchdogCrash, GotoIdle
<1>3. PICK label \in WatchdogLabels : Goto("watchdog", label)
  BY DEF WatchdogStep, WatchdogRead, WatchdogDefer, WatchdogClaim, WatchdogFill,
         WatchdogOrderError, WatchdogReduceOnlyReject, WatchdogBook, WatchdogRelease,
         WatchdogCrash, GotoIdle, WatchdogLabels
<1>4. label \in AllLabels /\ label # "enqueue"
  BY DEF AllLabels, WatchdogLabels
<1> QED BY <1>1, <1>2, <1>3, <1>4, SilentMove

LEMMA MarkSilent ==
  ASSUME TypeOK, NEW t \in MainThreads, MarkStep(t) \/ MarkError(t)
  PROVE  KeySilent
<1>1. /\ UNCHANGED <<inflight, queue>> /\ pc[t] \in {"mark", "closing"} /\ t \in Threads
  BY DEF MarkStep, MarkSkip, MarkBegin, MarkCommit, MarkError, closeVars
<1>2. /\ loc["worker"] \in Locals /\ DOMAIN loc = Threads
      /\ t = "worker" => Task \in Tasks /\ Task = loc["worker"].task
  BY <1>1, WorkerLocals DEF Task
<1>3. CASE MarkSkip(t) \/ MarkCommit(t) \/ (MarkError(t) /\ t # "worker")
  <2>1. MarkDone(t)
    BY <1>3 DEF MarkSkip, MarkCommit, MarkError, MarkDone
  <2>2. PICK label \in {"answered", "idle"} :
            Goto(t, label) /\ (t = "worker" => label = "answered")
    BY <2>1 DEF MarkDone, GotoIdle
  <2>3. \A u \in Threads \ {t} : loc'[u] = loc[u]
    BY <2>1, MarkDoneMove
  <2>4. t = "worker" => loc'["worker"].task = loc["worker"].task
    <3>1. ASSUME t = "worker"
          PROVE  [Carrying(Task) EXCEPT !.ok = TRUE].task = Task
      BY <1>2, <3>1, CarryingLocals, LocalsExcept
    <3> QED BY <1>2, <2>1, <3>1 DEF MarkDone
  <2> QED
    BY <1>1, <2>2, <2>3, <2>4, SilentMove DEF AllLabels, WorkerLabels
<1>4. CASE MarkBegin(t)
  <2>1. Goto(t, "closing") /\ loc' = [loc EXCEPT ![t].own = ~claim.live]
    BY <1>4 DEF MarkBegin
  <2>2. loc \in [Threads -> Locals]
    BY DEF TypeOK, LocalsOK
  <2>3. \A u \in Threads : loc'[u].task = loc[u].task /\ (u # t => loc'[u] = loc[u])
    BY <1>1, <2>1, <2>2 DEF Locals
  <2> QED
    BY <1>1, <2>1, <2>3, SilentMove DEF AllLabels, MonitorLabels
<1>5. CASE MarkError(t) /\ t = "worker"
  BY <1>1, <1>2, <1>5, CarryingLocals, SilentMove DEF MarkError, AllLabels, WorkerLabels
<1> QED BY <1>3, <1>4, <1>5 DEF MarkStep

(* The key of an accepted close is new in flight, and so is its thread.       *)
LEMMA AcceptKeys ==
  ASSUME TypeOK, OneTaskPerKey, NEW m \in Monitors, AcceptClose(m)
  PROVE  OneTaskPerKey'
<1> DEFINE k == loc[m].task.key
<1>1. /\ m \in Threads /\ pc[m] = "request" /\ k \notin inflight /\ loc[m].task \in Tasks
      /\ UNCHANGED <<queue, loc>> /\ inflight' = inflight \cup {k}
      /\ pc'[m] = "enqueue" /\ \A u \in Threads \ {m} : pc'[u] = pc[u]
  BY MoveOf DEF AcceptClose, MayQueue, AllLabels, MonitorLabels, TypeOK, LocalsOK, CarriesTask
<1>2. k \in Keys
  BY <1>1 DEF Tasks
<1>3. /\ ~Queued(k) /\ ~(Working /\ Task.key = k)
      /\ \A n \in Monitors : Enqueuing(n) => loc[n].task.key # k
  BY <1>1, <1>2 DEF OneTaskPerKey
<1>4. /\ \A n \in Monitors : Enqueuing(n)' <=> (Enqueuing(n) \/ n = m)
      /\ Working' <=> Working
      /\ Task' = Task
  BY <1>1, ThreadNames DEF Enqueuing, Working, Task
<1>5. \A j : Queued(j)' <=> Queued(j)
  BY <1>1 DEF Queued
<1>6. (\A j \in Keys : j \in inflight <=>
          \/ \E n \in Monitors : Enqueuing(n) /\ loc[n].task.key = j
          \/ Queued(j)
          \/ Working /\ Task.key = j)'
  BY <1>1, <1>4, <1>5 DEF OneTaskPerKey
<1>7. (\A n, o \in Monitors :
          Enqueuing(n) /\ Enqueuing(o) /\ loc[n].task.key = loc[o].task.key => n = o)'
  BY <1>1, <1>3, <1>4 DEF OneTaskPerKey
<1>8. (\A n \in Monitors : Enqueuing(n) =>
          ~Queued(loc[n].task.key) /\ ~(Working /\ Task.key = loc[n].task.key))'
  BY <1>1, <1>3, <1>4, <1>5 DEF OneTaskPerKey
<1> QED
  BY <1>1, <1>4, <1>5, <1>6, <1>7, <1>8 DEF OneTaskPerKey

LEMMA AppendedKeys ==
  ASSUME NEW q \in Seq(Tasks), NEW task \in Tasks
  PROVE  /\ DOMAIN Append(q, task) = DOMAIN q \cup {Len(q) + 1}
         /\ Len(q) + 1 \notin DOMAIN q
         /\ \A i \in DOMAIN q : Append(q, task)[i] = q[i]
         /\ Append(q, task)[Len(q) + 1] = task
  OBVIOUS

(* The task moves from its thread to the end of the queue.                    *)
LEMMA EnqueueKeys ==
  ASSUME TypeOK, OneTaskPerKey, NEW m \in Monitors, Enqueue(m)
  PROVE  OneTaskPerKey'
<1> DEFINE k == loc[m].task.key
<1>0. DOMAIN loc = Threads /\ queue \in Seq(Tasks)
  BY DEF TypeOK, LocalsOK, DataOK
<1>1. /\ m \in Threads /\ pc[m] = "enqueue" /\ loc[m].task \in Tasks
      /\ inflight' = inflight /\ queue' = Append(queue, loc[m].task)
      /\ pc'[m] = "idle" /\ \A u \in Threads \ {m} : pc'[u] = pc[u] /\ loc'[u] = loc[u]
  BY <1>0, MoveOf DEF Enqueue, GotoIdle, AllLabels, MonitorLabels, TypeOK, LocalsOK, CarriesTask
<1>2. Enqueuing(m) /\ ~Queued(k) /\ ~(Working /\ Task.key = k)
  BY <1>1 DEF OneTaskPerKey, Enqueuing
<1>3. \A n \in Monitors : Enqueuing(n) /\ n # m => loc[n].task.key # k
  BY <1>2 DEF OneTaskPerKey
<1>4. /\ \A n \in Monitors : Enqueuing(n)' <=> (Enqueuing(n) /\ n # m)
      /\ \A n \in Monitors : Enqueuing(n)' => loc'[n] = loc[n]
      /\ Working' <=> Working
      /\ Task' = Task
  BY <1>1, ThreadNames DEF Enqueuing, Working, Task
<1>5. \A j : Queued(j)' <=> (Queued(j) \/ j = k)
  BY <1>0, <1>1, AppendedKeys DEF Queued
<1>6. (\A j \in Keys : j \in inflight <=>
          \/ \E n \in Monitors : Enqueuing(n) /\ loc[n].task.key = j
          \/ Queued(j)
          \/ Working /\ Task.key = j)'
  BY <1>1, <1>2, <1>4, <1>5 DEF OneTaskPerKey
<1>7. (\A n, o \in Monitors :
          Enqueuing(n) /\ Enqueuing(o) /\ loc[n].task.key = loc[o].task.key => n = o)'
  BY <1>4 DEF OneTaskPerKey
<1>8. (\A i, j \in DOMAIN queue : queue[i].key = queue[j].key => i = j)'
  BY <1>0, <1>1, <1>2, AppendedKeys DEF OneTaskPerKey, Queued
<1>9. (\A n \in Monitors : Enqueuing(n) =>
          ~Queued(loc[n].task.key) /\ ~(Working /\ Task.key = loc[n].task.key))'
  BY <1>3, <1>4, <1>5 DEF OneTaskPerKey
<1>10. (Working => ~Queued(Task.key))'
  BY <1>2, <1>4, <1>5 DEF OneTaskPerKey
<1> QED
  BY <1>6, <1>7, <1>8, <1>9, <1>10 DEF OneTaskPerKey

LEMMA TailKeys ==
  ASSUME NEW q \in Seq(Tasks), q # <<>>
  PROVE  /\ DOMAIN Tail(q) = 1 .. (Len(q) - 1)
         /\ 1 \in DOMAIN q /\ Head(q) = q[1] /\ Head(q) \in Tasks
         /\ \A i \in DOMAIN Tail(q) : Tail(q)[i] = q[i + 1] /\ i + 1 \in DOMAIN q
         /\ \A i \in DOMAIN q : i # 1 => i - 1 \in DOMAIN Tail(q)
  OBVIOUS

(* The worker takes the first task of the queue.                             *)
LEMMA TakeKeys ==
  ASSUME TypeOK, OneTaskPerKey, WorkerTake
  PROVE  OneTaskPerKey'
<1>k. PICK k : k = Head(queue).key
  OBVIOUS
<1>0. DOMAIN loc = Threads /\ queue \in Seq(Tasks) /\ queue # <<>>
  BY DEF TypeOK, LocalsOK, DataOK, WorkerTake
<1>1. /\ pc["worker"] = "idle" /\ queue' = Tail(queue) /\ inflight' = inflight
      /\ pc'["worker"] = "read" /\ loc'["worker"].task = Head(queue)
      /\ \A u \in Threads \ {"worker"} : pc'[u] = pc[u] /\ loc'[u] = loc[u]
  BY <1>0, MoveOf, TailKeys, CarryingLocals DEF WorkerTake, AllLabels, WorkerLabels
<1>2. /\ \A n \in Monitors : Enqueuing(n)' <=> Enqueuing(n)
      /\ \A n \in Monitors : loc'[n] = loc[n]
      /\ ~Working /\ Working' /\ Task'.key = k
  BY <1>k, <1>1, ThreadNames DEF Enqueuing, Working, Task
<1>3. Queued(k) /\ \A j : Queued(j) <=> (Queued(j)' \/ j = k)
  <2>1. 1 \in DOMAIN queue /\ queue[1].key = k
    BY <1>k, <1>0, TailKeys
  <2>2. ASSUME NEW j, NEW i \in DOMAIN queue, queue[i].key = j, j # k
        PROVE  \E n \in DOMAIN Tail(queue) : Tail(queue)[n].key = j
    <3>1. i \in Nat /\ i # 1 /\ i - 1 \in DOMAIN Tail(queue)
      BY <1>0, <2>1, <2>2, TailKeys
    <3>2. Tail(queue)[i - 1] = queue[i]
      BY <1>0, <3>1, TailKeys
    <3> QED BY <2>2, <3>1, <3>2
  <2>3. \A i \in DOMAIN Tail(queue) :
           \E n \in DOMAIN queue : queue[n].key = Tail(queue)[i].key
    BY <1>0, TailKeys
  <2> QED BY <1>1, <2>1, <2>2, <2>3 DEF Queued
<1>4. ~Queued(k)'
  <2>1. ASSUME NEW i \in DOMAIN Tail(queue), Tail(queue)[i].key = k PROVE FALSE
    <3>1. queue[i + 1].key = queue[1].key /\ i + 1 \in DOMAIN queue /\ 1 \in DOMAIN queue
      BY <1>k, <1>0, <2>1, TailKeys
    <3>2. i + 1 = 1
      BY <3>1 DEF OneTaskPerKey
    <3> QED BY <1>0, <3>2, TailKeys
  <2> QED BY <1>1, <2>1 DEF Queued
<1>5. (\A j \in Keys : j \in inflight <=>
          \/ \E n \in Monitors : Enqueuing(n) /\ loc[n].task.key = j
          \/ Queued(j)
          \/ Working /\ Task.key = j)'
  BY <1>1, <1>2, <1>3, <1>4 DEF OneTaskPerKey
<1>6. (\A i, j \in DOMAIN queue : queue[i].key = queue[j].key => i = j)'
  <2>1. ASSUME NEW i \in DOMAIN Tail(queue), NEW j \in DOMAIN Tail(queue),
               Tail(queue)[i].key = Tail(queue)[j].key
        PROVE  i = j
    <3>1. queue[i + 1].key = queue[j + 1].key /\ i + 1 \in DOMAIN queue /\ j + 1 \in DOMAIN queue
      BY <1>0, <2>1, TailKeys
    <3>2. i + 1 = j + 1
      BY <3>1 DEF OneTaskPerKey
    <3> QED BY <1>0, <3>2, TailKeys
  <2> QED BY <1>1, <2>1
<1>7. (\A n, o \in Monitors :
          Enqueuing(n) /\ Enqueuing(o) /\ loc[n].task.key = loc[o].task.key => n = o)'
  BY <1>2 DEF OneTaskPerKey
<1>8. (\A n \in Monitors : Enqueuing(n) =>
          ~Queued(loc[n].task.key) /\ ~(Working /\ Task.key = loc[n].task.key))'
  BY <1>2, <1>3 DEF OneTaskPerKey
<1>9. (Working => ~Queued(Task.key))'
  BY <1>2, <1>4
<1> QED
  BY <1>5, <1>6, <1>7, <1>8, <1>9 DEF OneTaskPerKey

(* The worker gives back the key of its task, which no other task has.        *)
LEMMA DoneKeys ==
  ASSUME TypeOK, OneTaskPerKey, WorkerDone
  PROVE  OneTaskPerKey'
<1>1. /\ pc["worker"] = "done" /\ inflight' = inflight \ {Task.key} /\ queue' = queue
      /\ pc'["worker"] = "idle"
      /\ \A u \in Threads \ {"worker"} : pc'[u] = pc[u] /\ loc'[u] = loc[u]
  BY MoveOf, WorkerLocals DEF WorkerDone, GotoIdle, AllLabels, WorkerLabels
<1>2. /\ \A n \in Monitors : Enqueuing(n)' <=> Enqueuing(n)
      /\ \A n \in Monitors : loc'[n] = loc[n]
      /\ Working /\ ~Working'
  BY <1>1, ThreadNames DEF Enqueuing, Working
<1>3. \A j : Queued(j)' <=> Queued(j)
  BY <1>1 DEF Queued
<1>4. /\ ~Queued(Task.key)
      /\ \A n \in Monitors : Enqueuing(n) => loc[n].task.key # Task.key
  BY <1>2 DEF OneTaskPerKey
<1>5. (\A j \in Keys : j \in inflight <=>
          \/ \E n \in Monitors : Enqueuing(n) /\ loc[n].task.key = j
          \/ Queued(j)
          \/ Working /\ Task.key = j)'
  BY <1>1, <1>2, <1>3, <1>4 DEF OneTaskPerKey
<1> QED
  BY <1>1, <1>2, <1>3, <1>5 DEF OneTaskPerKey

LEMMA OneTaskStep == TypeOK /\ OneTaskPerKey /\ [Next]_vars => OneTaskPerKey'
<1> SUFFICES ASSUME TypeOK, OneTaskPerKey, [Next]_vars PROVE OneTaskPerKey'
  OBVIOUS
<1>1. SUFFICES ASSUME ~KeySilent PROVE OneTaskPerKey'
  BY SilentKeeps
<1>2. ASSUME NEW m \in Monitors, MonitorStep(m) PROVE OneTaskPerKey'
  BY <1>1, <1>2, MonitorSilent, AcceptKeys, EnqueueKeys
<1>3. ASSUME NEW t \in MainThreads, MarkStep(t) \/ MarkError(t) PROVE OneTaskPerKey'
  BY <1>1, <1>3, MarkSilent
<1>4. CASE WorkerStep
  BY <1>1, <1>4, WorkerSilent, TakeKeys, DoneKeys
<1>5. CASE DrainFlat
  BY <1>1, <1>5, SilentMove DEF DrainFlat, AllLabels, MonitorLabels, closeVars
<1>6. CASE WatchdogStep \/ WatchdogCrash
  BY <1>1, <1>6, WatchdogSilent
<1>7. CASE ExternalFlat \/ DcaAdd \/ ClaimExpire \/ UNCHANGED vars
  BY <1>1, <1>7
  DEF ExternalFlat, DcaAdd, ClaimExpire, vars, closeVars, KeySilent, Enqueuing, Working, Task
<1>8. CASE Crash
  <2>1. /\ inflight' = {} /\ queue' = <<>>
        /\ \A t \in MainThreads : pc'[t] = "idle"
    BY <1>8, ThreadNames DEF Crash
  <2> QED
    BY <2>1 DEF OneTaskPerKey, Enqueuing, Working, Queued
<1> QED
  BY <1>2, <1>3, <1>4, <1>5, <1>6, <1>7, <1>8 DEF Next, Environment

(* A reason is in _close_inflight exactly while one task of it is on its way, *)
(* whichever threads ask for a close, through crashes and lapsed claims.      *)
THEOREM OneTaskCorrect == Spec => []OneTaskPerKey
<1>1. Init => OneTaskPerKey
  BY DEF Init, OneTaskPerKey, Enqueuing, Working, Queued
<1>2. TypeOK /\ OneTaskPerKey /\ [Next]_vars => OneTaskPerKey'
  BY OneTaskStep
<1> QED BY <1>1, <1>2, TypeCorrect, PTL DEF Spec
-----------------------------------------------------------------------------
(* A row that is CLOSED has nothing on the exchange, if orders fill whole and  *)
(* no add came in.  The position only shrinks then, so a full close that was   *)
(* queued covers it (Covers), and a thread that is past its order, or that was *)
(* told by REST, knows that nothing is left (FlatLocals, FlatWorker).         *)
Whole(key)      == key \in Keys \ {"TP1", "TP2"}
Covers(task, p) == Whole(task.key) => p <= task.qty

FlatLocals(l, label, p) ==
    /\ Covers(l.task, p)
    /\ label \in {"mark", "closing"} => p = 0
    /\ label = "book" /\ Whole(l.task.key) => p = 0

FlatWorker(l, label, p) ==
    /\ l.ok /\ l.task.key = "TP3" => p = 0
    /\ label = "finalize" => l.ok /\ l.task.key \in Levels

FlatThreads == \A t \in Threads : FlatLocals(loc[t], pc[t], pos)
FlatQueue   == \A i \in DOMAIN queue : Covers(queue[i], pos)

Flat == adds = 0 =>
    /\ row.status = "CLOSED" => pos = 0
    /\ FlatThreads
    /\ FlatQueue
    /\ FlatWorker(loc["worker"], pc["worker"], pos)

FlatInv == TypeOK /\ Flat

Asserting == {"mark", "closing", "book"}

(* What the parts say of a smaller position, of none, and of other locals.   *)
LEMMA FlatSmaller ==
  ASSUME NEW l \in Locals, NEW label, NEW p \in Nat, NEW q \in Nat, q <= p,
         FlatLocals(l, label, p)
  PROVE  FlatLocals(l, label, q)
<1>1. CASE Whole(l.task.key)
  <2>1. l.task \in Tasks
    BY <1>1, ClosePipelineAssumption DEF Whole, Locals, NoTask, Keys
  <2>2. l.task.qty \in Int
    BY <2>1, ClosePipelineAssumption DEF Tasks
  <2> QED
    BY <1>1, <2>2 DEF FlatLocals, Covers
<1>2. CASE ~Whole(l.task.key)
  BY <1>2 DEF FlatLocals, Covers
<1> QED BY <1>1, <1>2

LEMMA FlatAtZero ==
  ASSUME NEW l \in Locals, NEW label
  PROVE  FlatLocals(l, label, 0)
<1>1. CASE Whole(l.task.key)
  <2>1. l.task \in Tasks
    BY <1>1, ClosePipelineAssumption DEF Whole, Locals, NoTask, Keys
  <2>2. 0 <= l.task.qty
    BY <2>1, ClosePipelineAssumption DEF Tasks
  <2> QED
    BY <2>2 DEF FlatLocals, Covers
<1>2. CASE ~Whole(l.task.key)
  BY <1>2 DEF FlatLocals, Covers
<1> QED BY <1>1, <1>2

LEMMA FlatCarrying ==
  ASSUME NEW task \in Tasks, NEW p \in Nat, Covers(task, p), NEW label, label \notin Asserting
  PROVE  FlatLocals(Carrying(task), label, p)
BY CarryingLocals DEF FlatLocals, Asserting

LEMMA FlatIdle ==
  ASSUME NEW p \in Nat, NEW label, label \notin Asserting
  PROVE  FlatLocals(Idle, label, p)
BY IdleLocals, ClosePipelineAssumption DEF FlatLocals, Asserting, Covers, Whole, NoTask, Keys

LEMMA FlatElsewhere ==
  ASSUME NEW l, NEW m, m.task = l.task, NEW from, NEW label, label \notin Asserting,
         NEW p, FlatLocals(l, from, p)
  PROVE  FlatLocals(m, label, p)
BY DEF FlatLocals, Asserting

(* The step of one thread.                                                    *)
LEMMA FlatMove ==
  ASSUME FlatInv, TypeOK', adds = 0, NEW t \in Threads,
         \A u \in Threads \ {t} : pc'[u] = pc[u] /\ loc'[u] = loc[u],
         pos' \in Nat, pos' <= pos,
         FlatLocals(loc'[t], pc'[t], pos'),
         t = "worker" => FlatWorker(loc'[t], pc'[t], pos'),
         \/ queue' = queue
         \/ \E task \in Tasks : queue' = Append(queue, task) /\ Covers(task, pos)
         \/ queue # <<>> /\ queue' = Tail(queue),
         row'.status = "CLOSED" => row.status = "CLOSED" \/ pos' = 0
  PROVE  Flat'
<1>1. pos \in Nat /\ loc \in [Threads -> Locals] /\ queue \in Seq(Tasks)
  BY LotsBound DEF FlatInv, TypeOK, DataOK, LocalsOK
<1>2. row'.status = "CLOSED" => pos' = 0
  BY <1>1 DEF FlatInv, Flat
<1>3. FlatThreads'
  <2>1. ASSUME NEW u \in Threads \ {t} PROVE FlatLocals(loc'[u], pc'[u], pos')
    BY <1>1, FlatSmaller DEF FlatInv, Flat, FlatThreads
  <2> QED BY <2>1 DEF FlatThreads
<1>4. ASSUME NEW task \in Tasks, Covers(task, pos) PROVE Covers(task, pos')
  <2>1. task.qty \in Int
    BY ClosePipelineAssumption DEF Tasks
  <2> QED BY <1>1, <1>4, <2>1 DEF Covers
<1>5. \A i \in DOMAIN queue : queue[i] \in Tasks /\ Covers(queue[i], pos)
  BY <1>1 DEF FlatInv, Flat, FlatQueue
<1>6. \A i \in DOMAIN queue' : queue'[i] \in Tasks /\ Covers(queue'[i], pos)
  <2>1. CASE queue' = queue
    BY <1>5, <2>1
  <2>2. ASSUME NEW task \in Tasks, queue' = Append(queue, task), Covers(task, pos)
        PROVE  \A i \in DOMAIN queue' : queue'[i] \in Tasks /\ Covers(queue'[i], pos)
    BY <1>1, <1>5, <2>2, AppendedKeys
  <2>3. CASE queue # <<>> /\ queue' = Tail(queue)
    BY <1>1, <1>5, <2>3, TailKeys
  <2> QED BY <2>1, <2>2, <2>3
<1>7. FlatQueue'
  BY <1>4, <1>6 DEF FlatQueue
<1>8. FlatWorker(loc'["worker"], pc'["worker"], pos')
  BY <1>1 DEF FlatInv, Flat, FlatWorker
<1> QED
  BY <1>2, <1>3, <1>7, <1>8 DEF Flat

(* The monitors.                                                              *)
LEMMA FlatMonitor ==
  ASSUME FlatInv, TypeOK', adds = 0, NEW m \in Monitors, MonitorStep(m)
  PROVE  Flat'
<1> USE DEF exchangeVars, closeVars
<1>0. /\ m \in Threads /\ m # "worker" /\ DOMAIN loc = Threads /\ pos \in Nat
      /\ loc[m] \in Locals /\ loc'[m] \in Locals
      /\ FlatLocals(loc[m], pc[m], pos)
  BY ThreadNames, LotsBound DEF FlatInv, Flat, FlatThreads, TypeOK, LocalsOK
<1>1. /\ "idle" \in AllLabels /\ "observed" \in AllLabels /\ "request" \in AllLabels
      /\ "unlock" \in AllLabels /\ "mark" \in AllLabels /\ "enqueue" \in AllLabels
      /\ {"idle", "observed", "request", "unlock", "enqueue"} \cap Asserting = {}
  BY DEF AllLabels, MonitorLabels, Asserting
<1>2. TypeOK /\ row \in [status : Statuses, flags : SUBSET Levels]
  BY DEF FlatInv, TypeOK, DataOK
<1>3. pos' = pos
  BY DEF MonitorStep, Observe, TrailingWrite, NothingHit, StopHit, LockTakeProfit, AcceptClose,
         RefuseClose, FlatAtRequest, Enqueue, UnlockTakeProfit, ExternalClose
<1>4. row'.status = row.status
  BY <1>2 DEF MonitorStep, Observe, TrailingWrite, NothingHit, StopHit, LockTakeProfit, AcceptClose,
         RefuseClose, FlatAtRequest, Enqueue, UnlockTakeProfit, ExternalClose
<1>5. CASE TrailingWrite(m)
  BY <1>0, <1>3, <1>4, <1>5, FlatMove DEF TrailingWrite
<1>6. ASSUME NEW label \in {"idle", "unlock", "observed", "request", "enqueue"}, Goto(m, label)
      PROVE  /\ pc'[m] = label /\ label \notin Asserting
             /\ \A u \in Threads \ {m} : pc'[u] = pc[u]
  BY <1>0, <1>1, <1>2, <1>6, MoveOf
<1>7. ASSUME GotoIdle(m), ~Enqueue(m), UNCHANGED queue PROVE Flat'
  <2>1. /\ FlatLocals(loc'[m], pc'[m], pos)
        /\ \A u \in Threads \ {m} : pc'[u] = pc[u] /\ loc'[u] = loc[u]
    BY <1>0, <1>6, <1>7, FlatIdle DEF GotoIdle
  <2> QED BY <1>0, <1>3, <1>4, <1>7, <2>1, FlatMove
<1>8. ASSUME NEW label \in {"unlock", "enqueue"}, Goto(m, label), UNCHANGED <<queue, loc>>
      PROVE  Flat'
  <2>1. /\ FlatLocals(loc'[m], pc'[m], pos)
        /\ \A u \in Threads \ {m} : pc'[u] = pc[u] /\ loc'[u] = loc[u]
    BY <1>0, <1>6, <1>8, FlatElsewhere
  <2> QED BY <1>0, <1>3, <1>4, <1>8, <2>1, FlatMove
<1>9. CASE Observe(m)
  <2>1. loc'[m].task = loc[m].task /\ \A u \in Threads \ {m} : loc'[u] = loc[u]
    BY <1>0, <1>9 DEF Observe, Locals
  <2>2. /\ pc'[m] = "observed" /\ "observed" \notin Asserting
        /\ \A u \in Threads \ {m} : pc'[u] = pc[u]
    BY <1>6, <1>9 DEF Observe
  <2>3. FlatLocals(loc'[m], pc'[m], pos)
    BY <1>0, <2>1, <2>2, FlatElsewhere
  <2> QED BY <1>0, <1>3, <1>4, <1>9, <2>1, <2>2, <2>3, FlatMove DEF Observe
<1>10. ASSUME NEW task \in Tasks, Covers(task, pos), loc' = [loc EXCEPT ![m] = Carrying(task)],
              Goto(m, "request"), UNCHANGED queue
       PROVE  Flat'
  <2>1. /\ FlatLocals(loc'[m], pc'[m], pos)
        /\ \A u \in Threads \ {m} : pc'[u] = pc[u] /\ loc'[u] = loc[u]
    BY <1>0, <1>6, <1>10, FlatCarrying
  <2> QED BY <1>0, <1>3, <1>4, <1>10, <2>1, FlatMove
<1>11. ASSUME NEW k \in FullReasons, StopHit(m, k) PROVE Flat'
  <2> DEFINE task == [key |-> k, qty |-> pos, flags |-> loc[m].flags]
  <2>1. task \in Tasks /\ Covers(task, pos)
    BY <1>0, <1>2, LotsBound DEF Tasks, Locals, Covers, TypeOK, Keys
  <2> QED BY <1>10, <1>11, <2>1 DEF StopHit
<1>12. ASSUME NEW k \in Levels, LockTakeProfit(m, k) PROVE Flat'
  <2> DEFINE task == [key |-> k, qty |-> IF k = "TP3" THEN pos ELSE 1,
                      flags |-> loc[m].flags \cup {k}]
  <2>1. loc[m].flags \cup {k} \in SUBSET Levels
    BY <1>0 DEF Locals
  <2>2. (IF k = "TP3" THEN pos ELSE 1) \in 0..MaxLots
    BY <1>2, LotsBound DEF TypeOK
  <2>3. task \in Tasks
    BY <2>1, <2>2 DEF Tasks, Keys
  <2>4. Covers(task, pos)
    BY <1>0, ClosePipelineAssumption DEF Covers, Whole
  <2> QED BY <1>10, <1>12, <2>3, <2>4 DEF LockTakeProfit
<1>13. CASE AcceptClose(m)
  BY <1>8, <1>13 DEF AcceptClose
<1>14. CASE RefuseClose(m)
  BY <1>7, <1>8, <1>14 DEF RefuseClose, Refused, Enqueue
<1>15. ASSUME pos = 0, Goto(m, "mark"), UNCHANGED <<queue, loc>> PROVE Flat'
  <2>1. \A u \in Threads \ {m} : pc'[u] = pc[u] /\ loc'[u] = loc[u]
    BY <1>0, <1>1, <1>2, <1>15, MoveOf
  <2> QED BY <1>0, <1>3, <1>4, <1>15, <2>1, FlatAtZero, FlatMove
<1>16. CASE FlatAtRequest(m)
  BY <1>15, <1>16 DEF FlatAtRequest, ConfirmedFlat
<1>17. CASE ExternalClose(m)
  BY <1>15, <1>17 DEF ExternalClose, ConfirmedFlat
<1>18. CASE Enqueue(m)
  <2>1. /\ FlatLocals(loc'[m], pc'[m], pos)
        /\ \A u \in Threads \ {m} : pc'[u] = pc[u] /\ loc'[u] = loc[u]
    BY <1>0, <1>6, <1>18, FlatIdle DEF Enqueue, GotoIdle
  <2>2. loc[m].task \in Tasks /\ Covers(loc[m].task, pos)
    BY <1>0, <1>2, <1>18 DEF Enqueue, TypeOK, LocalsOK, CarriesTask, FlatLocals
  <2> QED BY <1>0, <1>3, <1>4, <1>18, <2>1, <2>2, FlatMove DEF Enqueue
<1>19. CASE UnlockTakeProfit(m) \/ NothingHit(m)
  BY <1>7, <1>19 DEF UnlockTakeProfit, NothingHit, Enqueue
<1> QED
  BY <1>5, <1>9, <1>11, <1>12, <1>13, <1>14, <1>16, <1>17, <1>18, <1>19 DEF MonitorStep

(* Who finalises knows that nothing is left.                                  *)
LEMMA FlatMark ==
  ASSUME FlatInv, TypeOK', adds = 0, NEW t \in MainThreads, MarkStep(t) \/ MarkError(t)
  PROVE  Flat'
<1>1. /\ pc[t] \in {"mark", "closing"} /\ t \in Threads /\ UNCHANGED <<pos, queue>>
      /\ TypeOK
  BY DEF MarkStep, MarkSkip, MarkBegin, MarkCommit, MarkError, closeVars, exchangeVars, FlatInv
<1>2. pos = 0
  BY <1>1 DEF FlatInv, Flat, FlatThreads, FlatLocals
<1>3. DOMAIN loc = Threads /\ loc'[t] \in Locals
  BY <1>1 DEF TypeOK, LocalsOK
<1>4. /\ pc'[t] # "finalize"
      /\ \A u \in Threads \ {t} : pc'[u] = pc[u] /\ loc'[u] = loc[u]
  <2>1. CASE MarkSkip(t) \/ MarkCommit(t) \/ (MarkError(t) /\ t # "worker")
    <3>1. MarkDone(t)
      BY <2>1 DEF MarkSkip, MarkCommit, MarkError, MarkDone
    <3> QED BY <1>1, <3>1, MarkDoneMove
  <2>2. CASE MarkBegin(t) \/ (MarkError(t) /\ t = "worker")
    <3>1. PICK label \in {"closing", "answered"} : Goto(t, label)
      BY <2>2 DEF MarkBegin, MarkError
    <3>2. label \in AllLabels
      BY DEF AllLabels, WorkerLabels
    <3> QED
      BY <1>1, <1>3, <2>2, <3>1, <3>2, MoveOf DEF MarkBegin, MarkError
  <2> QED BY <2>1, <2>2 DEF MarkStep
<1>5. FlatWorker(loc'[t], pc'[t], pos')
  BY <1>1, <1>2, <1>4 DEF FlatWorker
<1> QED
  BY <1>1, <1>2, <1>3, <1>4, <1>5, FlatAtZero, FlatMove

(* What is cut down to the position is no more than it, and all of it when the *)
(* order is for all.                                                          *)
LEMMA CutDownBound ==
  ASSUME DataOK, NEW q \in Nat
  PROVE  /\ pos - CutDown(q) \in Nat /\ pos - CutDown(q) <= pos
         /\ pos <= q => pos - CutDown(q) = 0
BY LotsBound DEF CutDown

LEMMA FlatOrder ==
  ASSUME FlatInv, adds = 0, NEW t \in Threads, NEW task \in Tasks, task = loc[t].task,
         pos' = pos - CutDown(task.qty)
  PROVE  /\ pos' \in Nat /\ pos' <= pos
         /\ Whole(task.key) => pos' = 0
<1>1. task.qty \in Nat /\ DataOK
  BY ClosePipelineAssumption DEF Tasks, FlatInv, TypeOK
<1>2. Whole(task.key) => pos <= task.qty
  BY DEF FlatInv, Flat, FlatThreads, FlatLocals, Covers
<1> QED BY <1>1, <1>2, CutDownBound

(* The turn of the worker.                                                    *)
LEMMA FlatWorkerStep ==
  ASSUME FlatInv, TypeOK', adds = 0, ~PartialFills, WorkerStep
  PROVE  Flat'
<1> USE DEF exchangeVars, closeVars
<1>0. /\ "worker" \in Threads /\ loc \in [Threads -> Locals] /\ pos \in Nat /\ TypeOK
      /\ loc'["worker"] \in Locals
      /\ FlatLocals(loc["worker"], pc["worker"], pos)
      /\ FlatWorker(loc["worker"], pc["worker"], pos)
      /\ row \in [status : Statuses, flags : SUBSET Levels]
      /\ row.status = "CLOSED" => pos = 0
  BY LotsBound DEF FlatInv, Flat, FlatThreads, TypeOK, LocalsOK, DataOK
<1>1. /\ pc["worker"] # "idle" => Task \in Tasks /\ Covers(Task, pos) /\ Task.key \in Keys
      /\ Task = loc["worker"].task /\ Carrying(Task).ok = FALSE
  BY <1>0, WorkerLocals DEF Task, FlatLocals, Tasks, Carrying, Idle
<1>2. ASSUME NEW label \in WorkerLabels, Goto("worker", label)
      PROVE  /\ pc'["worker"] = label
             /\ \A u \in Threads \ {"worker"} : pc'[u] = pc[u]
  <2>1. label \in AllLabels
    BY DEF AllLabels
  <2> QED BY <1>0, <1>2, <2>1, MoveOf
<1>3. ASSUME UNCHANGED <<pos, queue>>, row'.status = row.status, pc["worker"] # "idle",
             NEW label \in WorkerLabels \ Asserting, label # "finalize", Goto("worker", label),
             \/ loc' = loc
             \/ loc' = [loc EXCEPT !["worker"] = Carrying(Task)]
      PROVE  Flat'
  <2>1. /\ pc'["worker"] = label /\ label \notin Asserting
        /\ \A u \in Threads \ {"worker"} : pc'[u] = pc[u] /\ loc'[u] = loc[u]
    BY <1>0, <1>2, <1>3
  <2>2. loc'["worker"].task = Task /\ (loc'["worker"].ok => loc["worker"].ok)
    BY <1>0, <1>1, <1>3, CarryingLocals
  <2>3. FlatLocals(loc'["worker"], label, pos)
    BY <1>0, <1>1, <2>1, <2>2, FlatElsewhere
  <2>4. FlatWorker(loc'["worker"], label, pos)
    BY <1>0, <1>1, <1>3, <2>2 DEF FlatWorker
  <2> QED BY <1>0, <1>3, <2>1, <2>3, <2>4, FlatMove
<1>4. ASSUME pos' = 0, UNCHANGED queue, NEW label \in WorkerLabels \ {"finalize"},
             Goto("worker", label),
             \A u \in Threads \ {"worker"} : loc'[u] = loc[u]
      PROVE  Flat'
  <2>1. pc'["worker"] = label /\ \A u \in Threads \ {"worker"} : pc'[u] = pc[u]
    BY <1>2, <1>4
  <2>2. FlatLocals(loc'["worker"], label, pos') /\ FlatWorker(loc'["worker"], label, pos')
    BY <1>0, <1>4, FlatAtZero DEF FlatWorker
  <2> QED BY <1>0, <1>4, <2>1, <2>2, FlatMove
<1>5. CASE WorkerTake
  <2>1. Head(queue) \in Tasks /\ Covers(Head(queue), pos) /\ queue # <<>>
    <3>1. queue \in Seq(Tasks) /\ queue # <<>>
      BY <1>0, <1>5 DEF TypeOK, DataOK, WorkerTake
    <3> QED BY <3>1, TailKeys DEF FlatInv, Flat, FlatQueue
  <2>2. /\ loc'["worker"] = Carrying(Head(queue)) /\ pc'["worker"] = "read"
        /\ \A u \in Threads \ {"worker"} : pc'[u] = pc[u] /\ loc'[u] = loc[u]
    BY <1>0, <1>2, <1>5 DEF WorkerTake, WorkerLabels
  <2>3. FlatLocals(loc'["worker"], "read", pos)
    BY <1>0, <2>1, <2>2, FlatCarrying DEF Asserting
  <2>4. FlatWorker(loc'["worker"], "read", pos)
    BY <2>2 DEF FlatWorker, Carrying, Idle
  <2> QED BY <1>0, <1>5, <2>1, <2>2, <2>3, <2>4, FlatMove DEF WorkerTake
<1>6. CASE WorkerRead
  <2>1. /\ UNCHANGED <<pos, queue, row>> /\ pc["worker"] = "read"
        /\ \A u \in Threads \ {"worker"} : loc'[u] = loc[u]
    BY <1>0, <1>6 DEF WorkerRead
  <2>2. CASE pos = 0
    <3>1. PICK label \in {"answered", "order", "mark"} : Goto("worker", label)
      BY <1>6 DEF WorkerRead
    <3> QED BY <1>4, <2>1, <2>2, <3>1 DEF WorkerLabels
  <2>3. CASE pos # 0
    <3>1. /\ Goto("worker", "order")
          /\ loc'["worker"].task = Task /\ loc'["worker"].ok = loc["worker"].ok
      BY <1>0, <1>1, <1>6, <2>3 DEF WorkerRead, ConfirmedFlat, Locals
    <3>2. pc'["worker"] = "order" /\ \A u \in Threads \ {"worker"} : pc'[u] = pc[u]
      BY <1>2, <3>1 DEF WorkerLabels
    <3>3. FlatLocals(loc'["worker"], "order", pos)
      BY <1>0, <1>1, <3>1, FlatElsewhere DEF Asserting
    <3>4. FlatWorker(loc'["worker"], "order", pos)
      BY <1>0, <1>1, <3>1 DEF FlatWorker
    <3> QED BY <1>0, <2>1, <3>2, <3>3, <3>4, FlatMove
  <2> QED BY <2>2, <2>3
<1>7. CASE WorkerFill
  <2>1. /\ pc["worker"] = "order" /\ UNCHANGED <<queue, row>>
        /\ pos' = pos - CutDown(Task.qty) /\ pos # 0
        /\ loc'["worker"].task = Task /\ loc'["worker"].ok = loc["worker"].ok
        /\ \A u \in Threads \ {"worker"} : loc'[u] = loc[u]
    BY <1>0, <1>1, <1>7 DEF WorkerFill, Fillable, Locals
  <2>2. pc'["worker"] = "book" /\ \A u \in Threads \ {"worker"} : pc'[u] = pc[u]
    BY <1>2, <1>7 DEF WorkerFill, WorkerLabels
  <2>3. pos' \in Nat /\ pos' <= pos /\ (Whole(Task.key) => pos' = 0)
    BY <1>0, <1>1, <2>1, FlatOrder
  <2>4. FlatLocals(loc'["worker"], "book", pos')
    <3>1. CASE pos' = 0
      BY <1>0, <3>1, FlatAtZero
    <3>2. CASE ~Whole(Task.key)
      BY <2>1, <3>2 DEF FlatLocals, Covers
    <3> QED BY <2>3, <3>1, <3>2
  <2>5. FlatWorker(loc'["worker"], "book", pos')
    BY <1>0, <1>1, <2>1 DEF FlatWorker
  <2> QED BY <1>0, <2>1, <2>2, <2>3, <2>4, <2>5, FlatMove
<1>8. CASE WorkerOrderError
  <2>1. /\ pc["worker"] = "order" /\ UNCHANGED <<queue, row>>
        /\ \A u \in Threads \ {"worker"} : loc'[u] = loc[u]
        /\ loc'["worker"].task = Task /\ (loc'["worker"].ok => loc["worker"].ok)
    BY <1>0, <1>1, <1>8, CarryingLocals DEF WorkerOrderError, Locals
  <2>2. pos' \in Nat /\ pos' <= pos
    BY <1>0, <1>1, <1>8, <2>1, FlatOrder DEF WorkerOrderError
  <2>3. \/ UNCHANGED pc
        \/ pos' = 0 /\ Goto("worker", "mark")
        \/ Goto("worker", "answered")
    BY <1>8 DEF WorkerOrderError
  <2>4. CASE pos' = 0 /\ Goto("worker", "mark")
    BY <1>4, <2>1, <2>4 DEF WorkerLabels
  <2>5. CASE UNCHANGED pc \/ Goto("worker", "answered")
    <3>1. /\ pc'["worker"] \in {"order", "answered"}
          /\ \A u \in Threads \ {"worker"} : pc'[u] = pc[u]
      BY <1>0, <1>2, <2>1, <2>5 DEF WorkerLabels
    <3>2. FlatLocals(loc["worker"], pc["worker"], pos')
      BY <1>0, <2>2, FlatSmaller
    <3>3. FlatLocals(loc'["worker"], pc'["worker"], pos')
      BY <1>1, <2>1, <3>1, <3>2, FlatElsewhere DEF Asserting
    <3>4. FlatWorker(loc'["worker"], pc'["worker"], pos')
      BY <1>0, <1>1, <2>1, <2>2, <3>1 DEF FlatWorker
    <3> QED BY <1>0, <2>1, <2>2, <3>1, <3>3, <3>4, FlatMove
  <2> QED BY <2>3, <2>4, <2>5
<1>9. CASE WorkerReduceOnlyReject
  <2>1. PICK label \in {"mark", "answered"} : Goto("worker", label)
    BY <1>9 DEF WorkerReduceOnlyReject
  <2> QED
    BY <1>0, <1>4, <1>9, <2>1 DEF WorkerReduceOnlyReject, WorkerLabels
<1>10. CASE WorkerBook
  <2>1. /\ pc["worker"] = "book" /\ UNCHANGED <<pos, queue>> /\ row'.status = row.status
        /\ \A u \in Threads \ {"worker"} : loc'[u] = loc[u]
    BY <1>0, <1>10 DEF WorkerBook
  <2>2. CASE Whole(Task.key)
    <3>1. pos = 0
      BY <1>0, <1>1, <2>1, <2>2 DEF FlatLocals
    <3>2. PICK label \in {"mark", "answered"} : Goto("worker", label)
      BY <1>10 DEF WorkerBook
    <3> QED BY <1>4, <2>1, <3>1, <3>2 DEF WorkerLabels
  <2>3. CASE ~Whole(Task.key)
    <3>1. /\ Task.key \in {"TP1", "TP2"} /\ Goto("worker", "answered")
          /\ loc'["worker"] = [Carrying(Task) EXCEPT !.ok = TRUE]
      BY <1>0, <1>1, <1>10, <2>1, <2>3 DEF WorkerBook, Whole
    <3>2. loc'["worker"].task = Task
      BY <1>1, <2>1, <3>1, CarryingLocals, LocalsExcept
    <3>3. pc'["worker"] = "answered" /\ \A u \in Threads \ {"worker"} : pc'[u] = pc[u]
      BY <1>2, <3>1 DEF WorkerLabels
    <3>4. FlatLocals(loc'["worker"], "answered", pos) /\ FlatWorker(loc'["worker"], "answered", pos)
      BY <2>3, <3>1, <3>2 DEF FlatLocals, FlatWorker, Covers
    <3> QED BY <1>0, <2>1, <3>3, <3>4, FlatMove
  <2> QED BY <2>2, <2>3
<1>11. CASE WorkerRollback
  BY <1>0, <1>3, <1>11 DEF WorkerRollback, WorkerLabels, Asserting
<1>12. CASE WorkerFullDone
  BY <1>3, <1>12 DEF WorkerFullDone, WorkerLabels, Asserting
<1>13. CASE FinalizeRead
  <2>1. CASE Goto("worker", "release") /\ UNCHANGED loc
    BY <1>3, <1>13, <2>1 DEF FinalizeRead, WorkerLabels, Asserting
  <2>2. CASE Goto("worker", "finalize") /\ loc' = [loc EXCEPT !["worker"].flags = row.flags]
    <3>1. /\ UNCHANGED <<pos, queue, row>> /\ Task.key \in Levels /\ loc["worker"].ok
          /\ loc'["worker"].task = Task /\ loc'["worker"].ok = loc["worker"].ok
          /\ \A u \in Threads \ {"worker"} : loc'[u] = loc[u]
      BY <1>0, <1>1, <1>13, <2>2 DEF FinalizeRead, Locals
    <3>2. pc'["worker"] = "finalize" /\ \A u \in Threads \ {"worker"} : pc'[u] = pc[u]
      BY <1>2, <2>2 DEF WorkerLabels
    <3>3. FlatLocals(loc'["worker"], "finalize", pos)
      BY <1>0, <1>1, <3>1, FlatElsewhere DEF Asserting
    <3>4. FlatWorker(loc'["worker"], "finalize", pos)
      BY <1>0, <1>1, <3>1 DEF FlatWorker
    <3> QED BY <1>0, <3>1, <3>2, <3>3, <3>4, FlatMove
  <2> QED BY <1>13, <2>1, <2>2 DEF FinalizeRead
<1>14. CASE FinalizeWrite
  <2>1. /\ UNCHANGED <<pos, queue>> /\ row'.status = StatusOf(Task.key)
        /\ loc' = [loc EXCEPT !["worker"] = Carrying(Task)]
        /\ pc["worker"] = "finalize"
    BY <1>14 DEF FinalizeWrite
  <2>2. row'.status = "CLOSED" => pos = 0
    BY <1>0, <1>1, <2>1, ClosePipelineAssumption DEF StatusOf, FlatWorker
  <2>3. PICK label \in {"release", "answered"} : Goto("worker", label)
    BY <1>14 DEF FinalizeWrite
  <2>4. /\ pc'["worker"] = label /\ loc'["worker"] = Carrying(Task)
        /\ \A u \in Threads \ {"worker"} : pc'[u] = pc[u] /\ loc'[u] = loc[u]
    BY <1>0, <1>2, <2>1, <2>3 DEF WorkerLabels
  <2>5. FlatLocals(loc'["worker"], label, pos)
    BY <1>0, <1>1, <2>1, <2>4, FlatCarrying DEF Asserting
  <2>6. FlatWorker(loc'["worker"], label, pos)
    BY <1>1, <2>4 DEF FlatWorker
  <2> QED BY <1>0, <2>1, <2>2, <2>4, <2>5, <2>6, FlatMove
<1>15. CASE WorkerError
  BY <1>3, <1>15 DEF WorkerError, WorkerLabels, Asserting
<1>16. CASE WorkerRelease
  BY <1>3, <1>16 DEF WorkerRelease, WorkerLabels, Asserting
<1>17. CASE WorkerDone
  <2>1. /\ loc'["worker"] = Idle /\ pc'["worker"] = "idle"
        /\ \A u \in Threads \ {"worker"} : pc'[u] = pc[u] /\ loc'[u] = loc[u]
    BY <1>0, <1>2, <1>17 DEF WorkerDone, GotoIdle, WorkerLabels
  <2>2. FlatLocals(loc'["worker"], "idle", pos)
    BY <1>0, <2>1, FlatIdle DEF Asserting
  <2>3. FlatWorker(loc'["worker"], "idle", pos)
    BY <2>1 DEF FlatWorker, Idle
  <2> QED BY <1>0, <1>17, <2>1, <2>2, <2>3, FlatMove DEF WorkerDone
<1> QED
  BY <1>5, <1>6, <1>7, <1>8, <1>9, <1>10, <1>11, <1>12, <1>13, <1>14, <1>15, <1>16, <1>17
  DEF WorkerStep

(* The watchdog closes from the row and the position it read at the start of   *)
(* its cycle.                                                                *)
LEMMA FlatWatchdog ==
  ASSUME FlatInv, TypeOK', adds = 0, ~PartialFills, WatchdogStep \/ WatchdogCrash
  PROVE  Flat'
<1> USE DEF exchangeVars, closeVars
<1> DEFINE task == loc["watchdog"].task
<1>0. /\ "watchdog" \in Threads /\ "watchdog" # "worker" /\ pos \in Nat /\ TypeOK
      /\ loc \in [Threads -> Locals] /\ loc'["watchdog"] \in Locals
      /\ FlatLocals(loc["watchdog"], pc["watchdog"], pos)
      /\ pc["watchdog"] \in {"breach", "order", "book", "release"} => task \in Tasks
  BY LotsBound DEF FlatInv, Flat, FlatThreads, TypeOK, LocalsOK, CarriesTask
<1>1. UNCHANGED queue
  BY DEF WatchdogStep, WatchdogRead, WatchdogDefer, WatchdogClaim, WatchdogFill,
         WatchdogOrderError, WatchdogReduceOnlyReject, WatchdogBook, WatchdogRelease, WatchdogCrash
<1>2. ASSUME NEW label \in WatchdogLabels, Goto("watchdog", label)
      PROVE  /\ pc'["watchdog"] = label
             /\ \A u \in Threads \ {"watchdog"} : pc'[u] = pc[u]
  <2>1. label \in AllLabels
    BY DEF AllLabels
  <2> QED BY <1>0, <1>2, <2>1, MoveOf
<1>3. ASSUME NEW label \in {"order", "release"}, Goto("watchdog", label),
             UNCHANGED <<loc, pos>>, row'.status = "CLOSED" => row.status = "CLOSED" \/ pos = 0
      PROVE  Flat'
  <2>1. /\ pc'["watchdog"] = label /\ label \notin Asserting
        /\ \A u \in Threads \ {"watchdog"} : pc'[u] = pc[u] /\ loc'[u] = loc[u]
    BY <1>2, <1>3 DEF WatchdogLabels, Asserting
  <2>2. FlatLocals(loc'["watchdog"], label, pos)
    BY <1>0, <1>3, <2>1, FlatElsewhere
  <2> QED BY <1>0, <1>1, <1>3, <2>1, <2>2, FlatMove
<1>4. ASSUME GotoIdle("watchdog"), UNCHANGED <<pos, row>> PROVE Flat'
  <2>1. /\ pc'["watchdog"] = "idle" /\ loc'["watchdog"] = Idle
        /\ \A u \in Threads \ {"watchdog"} : pc'[u] = pc[u] /\ loc'[u] = loc[u]
    BY <1>0, <1>2, <1>4 DEF GotoIdle, WatchdogLabels
  <2>2. FlatLocals(loc'["watchdog"], "idle", pos)
    BY <1>0, <2>1, FlatIdle DEF Asserting
  <2> QED BY <1>0, <1>1, <1>4, <2>1, <2>2, FlatMove
<1>5. ASSUME NEW k \in Keys, WatchdogRead(k) PROVE Flat'
  <2>1. /\ UNCHANGED <<pos, row>> /\ loc'["watchdog"].task.key = k
        /\ loc'["watchdog"].task.qty = IF k \in {"TP1", "TP2"} THEN 1 ELSE pos
        /\ \A u \in Threads \ {"watchdog"} : loc'[u] = loc[u]
    BY <1>0, <1>5 DEF WatchdogRead, Locals
  <2>2. /\ pc'["watchdog"] = "breach"
        /\ \A u \in Threads \ {"watchdog"} : pc'[u] = pc[u]
    BY <1>2, <1>5 DEF WatchdogRead, WatchdogLabels
  <2>3. FlatLocals(loc'["watchdog"], "breach", pos)
    BY <1>0, <2>1 DEF FlatLocals, Covers, Whole
  <2> QED BY <1>0, <1>1, <2>1, <2>2, <2>3, FlatMove
<1>6. CASE WatchdogDefer \/ WatchdogRelease \/ WatchdogCrash
  BY <1>4, <1>6 DEF WatchdogDefer, WatchdogRelease, WatchdogCrash
<1>7. CASE WatchdogClaim \/ WatchdogOrderError
  BY <1>3, <1>7 DEF WatchdogClaim, WatchdogOrderError
<1>8. CASE WatchdogFill
  <2>1. pc["watchdog"] = "order" /\ pos' = pos - CutDown(task.qty) /\ UNCHANGED <<loc, row>>
    BY <1>8 DEF WatchdogFill, Fillable
  <2>2. pc'["watchdog"] = "book" /\ \A u \in Threads \ {"watchdog"} : pc'[u] = pc[u]
    BY <1>2, <1>8 DEF WatchdogFill, WatchdogLabels
  <2>3. pos' \in Nat /\ pos' <= pos /\ (Whole(task.key) => pos' = 0)
    BY <1>0, <2>1, FlatOrder
  <2>4. FlatLocals(loc'["watchdog"], "book", pos')
    <3>1. CASE pos' = 0
      BY <1>0, <3>1, FlatAtZero
    <3>2. CASE ~Whole(task.key)
      BY <2>1, <3>2 DEF FlatLocals, Covers
    <3> QED BY <2>3, <3>1, <3>2
  <2> QED BY <1>0, <1>1, <2>1, <2>2, <2>3, <2>4, FlatMove
<1>9. CASE WatchdogReduceOnlyReject
  BY <1>3, <1>9 DEF WatchdogReduceOnlyReject
<1>10. CASE WatchdogBook
  <2>1. task.key \in Keys /\ pc["watchdog"] = "book"
    BY <1>0, <1>10 DEF WatchdogBook, Tasks
  <2>2. row'.status = "CLOSED" => pos = 0
    BY <1>0, <1>10, <2>1 DEF WatchdogBook, StatusOf, FlatLocals, Whole
  <2> QED BY <1>3, <1>10, <2>2 DEF WatchdogBook
<1> QED
  BY <1>5, <1>6, <1>7, <1>8, <1>9, <1>10 DEF WatchdogStep

LEMMA FlatStep ==
  ASSUME ~PartialFills, FlatInv, [Next]_vars
  PROVE  FlatInv'
<1>1. TypeOK /\ TypeOK'
  BY TypeStep DEF FlatInv
<1>2. SUFFICES ASSUME adds' = 0 PROVE Flat'
  BY <1>1 DEF FlatInv, Flat
<1>3. pos \in Nat /\ loc \in [Threads -> Locals] /\ loc' \in [Threads -> Locals]
  BY <1>1, LotsBound DEF TypeOK, LocalsOK
<1>4. adds = 0
  <2>1. DcaAdd \/ UNCHANGED adds
    BY DEF Next, MonitorStep, Observe, TrailingWrite, NothingHit, StopHit, LockTakeProfit, AcceptClose,
           RefuseClose, FlatAtRequest, Enqueue, UnlockTakeProfit, ExternalClose,
           MarkStep, MarkSkip, MarkBegin, MarkCommit, MarkError, DrainFlat,
           WorkerStep, WorkerTake, WorkerRead, WorkerFill, WorkerOrderError,
           WorkerReduceOnlyReject, WorkerBook, WorkerRollback, WorkerFullDone, FinalizeRead,
           FinalizeWrite, WorkerError, WorkerRelease, WorkerDone,
           WatchdogStep, WatchdogRead, WatchdogDefer, WatchdogClaim, WatchdogFill,
           WatchdogOrderError, WatchdogReduceOnlyReject, WatchdogBook, WatchdogRelease,
           Environment, ExternalFlat, ClaimExpire, Crash, WatchdogCrash, exchangeVars, vars
  <2>2. adds \in Nat
    BY <1>1, ClosePipelineAssumption DEF TypeOK, DataOK
  <2> QED BY <1>2, <2>1, <2>2 DEF DcaAdd
<1>5. ASSUME NEW m \in Monitors, MonitorStep(m) PROVE Flat'
  BY <1>1, <1>4, <1>5, FlatMonitor
<1>6. ASSUME NEW t \in MainThreads, MarkStep(t) \/ MarkError(t) PROVE Flat'
  BY <1>1, <1>4, <1>6, FlatMark
<1>7. CASE WorkerStep
  BY <1>1, <1>4, <1>7, FlatWorkerStep
<1>8. CASE WatchdogStep \/ WatchdogCrash
  BY <1>1, <1>4, <1>8, FlatWatchdog
<1>9. ASSUME pos' = 0, UNCHANGED queue, pc'["worker"] = pc["worker"], loc' = loc PROVE Flat'
  <2>1. FlatThreads'
    BY <1>3, <1>9, FlatAtZero DEF FlatThreads
  <2>2. FlatWorker(loc'["worker"], pc'["worker"], pos')
    BY <1>4, <1>9 DEF FlatInv, Flat, FlatWorker
  <2>3. FlatQueue'
    <3>1. \A i \in DOMAIN queue : queue[i] \in Tasks
      BY <1>1 DEF TypeOK, DataOK
    <3>2. \A task \in Tasks : 0 <= task.qty
      BY ClosePipelineAssumption DEF Tasks
    <3> QED BY <1>9, <3>1, <3>2 DEF FlatQueue, Covers
  <2> QED BY <1>9, <2>1, <2>2, <2>3 DEF Flat
<1>10. CASE DrainFlat
  <2>1. pos' = 0 /\ UNCHANGED queue /\ loc' = loc
    BY <1>10 DEF DrainFlat, ConfirmedFlat, closeVars, exchangeVars
  <2>2. pc'["worker"] = pc["worker"]
    BY <1>1, <1>10, MoveOf DEF DrainFlat, AllLabels, MonitorLabels
  <2> QED BY <1>9, <2>1, <2>2
<1>11. CASE ExternalFlat
  BY <1>9, <1>11 DEF ExternalFlat, closeVars
<1>12. CASE DcaAdd
  BY <1>2, <1>4, <1>12 DEF DcaAdd
<1>13. CASE ClaimExpire \/ UNCHANGED vars
  BY <1>4, <1>13
  DEF ClaimExpire, vars, closeVars, exchangeVars, FlatInv, Flat, FlatThreads, FlatQueue
<1>14. CASE Crash
  <2>1. /\ UNCHANGED <<row, pos>> /\ queue' = <<>>
        /\ \A t \in Threads : IF t = "watchdog" THEN pc'[t] = pc[t] /\ loc'[t] = loc[t]
                                                ELSE pc'[t] = "idle" /\ loc'[t] = Idle
    BY <1>14 DEF Crash, exchangeVars
  <2>2. FlatThreads'
    <3>1. \A t \in Threads \ {"watchdog"} : FlatLocals(loc'[t], pc'[t], pos)
      BY <1>3, <2>1, FlatIdle DEF Asserting
    <3>2. FlatLocals(loc'["watchdog"], pc'["watchdog"], pos)
      BY <1>4, <2>1 DEF FlatInv, Flat, FlatThreads
    <3> QED BY <2>1, <3>1, <3>2 DEF FlatThreads
  <2>3. FlatWorker(loc'["worker"], pc'["worker"], pos')
    BY <2>1 DEF FlatWorker, Idle
  <2> QED BY <1>4, <2>1, <2>2, <2>3 DEF FlatInv, Flat, FlatQueue
<1> QED
  BY <1>5, <1>6, <1>7, <1>8, <1>10, <1>11, <1>12, <1>13, <1>14 DEF Next, Environment

(* A CLOSED row has nothing left on the exchange unless an add came in, if a   *)
(* MARKET order is answered with all it was for (PartialFills, README).       *)
THEOREM ClosedIsFlat ==
  ASSUME ~PartialFills
  PROVE  Spec => []ClosedMeansFlat
<1>1. Init => FlatInv
  <2> SUFFICES ASSUME Init PROVE FlatInv
    OBVIOUS
  <2>1. TypeOK
    BY TypeInit
  <2>2. FlatThreads
    BY <2>1, LotsBound, FlatIdle DEF Init, FlatThreads, Asserting, TypeOK
  <2>3. FlatWorker(loc["worker"], pc["worker"], pos)
    BY DEF Init, FlatWorker, Idle
  <2> QED BY <2>1, <2>2, <2>3 DEF Init, FlatInv, Flat, FlatQueue
<1>2. FlatInv /\ [Next]_vars => FlatInv'
  BY FlatStep
<1>3. FlatInv => ClosedMeansFlat
  BY DEF FlatInv, Flat, ClosedMeansFlat
<1> QED BY <1>1, <1>2, <1>3, PTL DEF Spec
=============================================================================
