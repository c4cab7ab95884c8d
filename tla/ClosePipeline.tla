--------------------------- MODULE ClosePipeline ---------------------------
(***************************************************************************)
(* The exit path of one trade: manager.py (TradeManager), the exit claim   *)
(* of exit_coordinator.py, core/trade_close_mutex.py, the emergency close  *)
(* of watchdog.py and the trade's row in database.py.                      *)
(*                                                                         *)
(* The main process runs the monitors (price-tick-worker and               *)
(* tp-sl-fast-monitor), one close-order worker that drains a FIFO queue,   *)
(* and the reconciler of external flats.  The watchdog is a process of its *)
(* own.  They meet in the row (written without a version check), in the    *)
(* exchange position, and in the exit claim, which is one operation here;  *)
(* module ExitClaims takes it apart into its file-system calls.            *)
(*                                                                         *)
(* A key is the reason of a close: a take-profit level (a partial close)   *)
(* or a full-close reason such as STOP_LOSS.  The trade id is the same     *)
(* everywhere, so `inflight_key' is the key alone.                         *)
(***************************************************************************)
EXTENDS Integers, Sequences, FiniteSets

CONSTANTS
    Monitors,       \* threads that run _monitor_single_trade
    Levels,         \* take-profit levels in use, a subset of TP1, TP2, TP3
    FullReasons,    \* reasons that close the whole position
    Lots,           \* size of the position at entry, in lots of one TP level
    MaxAdds,        \* DCA adds that may fill while the trade is open
    MaxAttempts,    \* MARKET_CLOSE_MAX_ATTEMPTS
    MaxRetries,     \* CLOSE_ORDER_MAX_RETRIES
    MaxCrashes,     \* crashes of the main process in a behaviour
    Claimers,       \* processes that claim exits: main, and watchdog or not
    ClaimsExpire,   \* may EXIT_CLAIM_TTL_SECONDS pass while a claim is held
    LostAcks,       \* may an order execute and its answer be an error
    StepErrors,     \* may a database or exchange call around a close raise
    PartialFills    \* may a MARKET order be answered before it filled whole

ASSUME ClosePipelineAssumption ==
    /\ Levels \subseteq {"TP1", "TP2", "TP3"}
    /\ FullReasons \cap {"TP1", "TP2", "TP3", "none"} = {}
    /\ "STOP_LOSS" \in FullReasons
    /\ Monitors \cap {"worker", "reconciler", "watchdog", "free"} = {}
    /\ Lots \in Nat \ {0}
    /\ MaxAdds \in Nat
    /\ MaxAttempts \in Nat \ {0}
    /\ MaxRetries \in Nat \ {0}
    /\ MaxCrashes \in Nat
    /\ Claimers \subseteq {"main", "watchdog"}
    /\ ClaimsExpire \in BOOLEAN
    /\ LostAcks \in BOOLEAN
    /\ StepErrors \in BOOLEAN
    /\ PartialFills \in BOOLEAN

VARIABLES
    row,        \* the trades row: status and the tpN_executed flags
    pos,        \* position size on the exchange
    claim,      \* the exit claim file
    inflight,   \* _close_inflight
    queue,      \* _close_queue
    attempts,   \* _market_close_attempts, capped at MaxAttempts
    mutex,      \* holder of trade_close_mutex, or "free"
    pc, loc,    \* control point and locals of every thread
    fills,      \* orders executed per take-profit level (history)
    adds,       \* DCA adds so far
    crashes,    \* crashes so far
    lapsed      \* a claim expired under a holder that was still closing

vars == <<row, pos, claim, inflight, queue, attempts, mutex, pc, loc, fills,
          adds, crashes, lapsed>>

MainThreads == Monitors \cup {"worker", "reconciler"}
Threads     == MainThreads \cup {"watchdog"}
Keys        == Levels \cup FullReasons
MaxLots     == Lots + MaxAdds
Active      == {"OPEN", "TP1_HIT", "TP2_HIT"}
Statuses    == Active \cup {"CLOSED"}

(* A _CloseTask: the reason, the quantity resolved when it was queued and   *)
(* the flags of the trade dict it carries.  A thread's locals add the       *)
(* order attempts left, the result, and whether _mark_trade_closed took a   *)
(* claim of its own.                                                        *)
Tasks  == [key : Keys, qty : 0..MaxLots, flags : SUBSET Levels]
NoTask == [key |-> "none", qty |-> 0, flags |-> {}]
Locals == [task : Tasks \cup {NoTask}, flags : SUBSET Levels,
           tries : 0..MaxRetries, ok : BOOLEAN, own : BOOLEAN]
Idle   == [task |-> NoTask, flags |-> {}, tries |-> 0, ok |-> FALSE, own |-> FALSE]

Owners  == {"none", "main", "close_pipeline", "watchdog"}
NoClaim == [owner |-> "none", live |-> FALSE]
ClaimBy(o)    == [owner |-> o, live |-> TRUE]
ReleasedNever(o) == claim                                        \* mutant
Released(o)   == IF claim.owner = o THEN NoClaim ELSE claim

Closed(r)       == [r EXCEPT !.status = "CLOSED"]
Goto(t, label)  == pc' = [pc EXCEPT ![t] = label]
Carrying(task)  == [Idle EXCEPT !.task = task]
GotoIdle(t)     == Goto(t, "idle") /\ loc' = [loc EXCEPT ![t] = Idle]
CutDownNot(q)   == q                                             \* mutant
CutDown(q)      == IF q < pos THEN q ELSE pos
Fillable(q)     == IF PartialFills THEN 0..CutDown(q) ELSE {CutDown(q)}
CountFill(k, q) == IF k \in Levels /\ q > 0
                   THEN fills' = [fills EXCEPT ![k] = @ + 1]
                   ELSE UNCHANGED fills
Exhausted(k)    == k \in FullReasons /\ attempts[k] = MaxAttempts
Noted(k)        == IF k \in FullReasons /\ attempts[k] < MaxAttempts
                   THEN [attempts EXCEPT ![k] = @ + 1] ELSE attempts
NoAttempts      == [k \in FullReasons |-> 0]

(* Is there room for a close of reason k: no duplicate, and nobody's claim. *)
MayQueueTwice(k)     == ~claim.live                              \* mutant
MayQueueUnclaimed(k) == k \notin inflight                        \* mutant
MayQueue(k)          == k \notin inflight /\ ~claim.live

(* The stop's retry cooldown ran out: its attempts are counted anew.        *)
CooldownNever(k) == FALSE                                        \* mutant
CooldownOver(k)  == k = "STOP_LOSS" /\ Exhausted(k)

(* What REST answers when asked whether anything is left.                   *)
FlatUnasked   == TRUE                                            \* mutant
ConfirmedFlat == pos = 0

MutexIgnored == TRUE                                             \* mutant
MutexFree    == mutex = "free"

(* The level is not taken in the monitor's copy of the row.                 *)
SellableAlways(m, k) == TRUE                                     \* mutant
Sellable(m, k)       == k \notin loc[m].flags

exchangeVars == <<pos, fills, adds>>
historyVars  == <<crashes, lapsed>>
closeVars    == <<inflight, queue>>

Init ==
    /\ row = [status |-> "OPEN", flags |-> {}]
    /\ pos = Lots
    /\ claim = NoClaim
    /\ inflight = {}
    /\ queue = <<>>
    /\ attempts = NoAttempts
    /\ mutex = "free"
    /\ pc = [t \in Threads |-> "idle"]
    /\ loc = [t \in Threads |-> Idle]
    /\ fills = [k \in Levels |-> 0]
    /\ adds = 0
    /\ crashes = 0
    /\ lapsed = FALSE

-----------------------------------------------------------------------------
(* Monitors: one turn of the loop in _manage_long_trade / _manage_short.    *)

(* The row is read at the head of the turn; later decisions use this copy.  *)
Observe(m) ==
    /\ pc[m] = "idle"
    /\ row.status # "CLOSED"
    /\ loc' = [loc EXCEPT ![m].flags = row.flags]
    /\ Goto(m, "observed")
    /\ UNCHANGED <<row, claim, attempts, mutex, closeVars, exchangeVars, historyVars>>

(* Trailing writes the whole metadata of the copy back.                     *)
TrailingWrite(m) ==
    /\ pc[m] = "observed"
    /\ row' = [row EXCEPT !.flags = loc[m].flags]
    /\ UNCHANGED <<pc, loc, claim, attempts, mutex, closeVars, exchangeVars, historyVars>>

(* No rung or stop is reached at this price.                                *)
NothingHit(m) ==
    /\ pc[m] = "observed"
    /\ GotoIdle(m)
    /\ UNCHANGED <<row, claim, attempts, mutex, closeVars, exchangeVars, historyVars>>

(* A full close: the quantity is the remaining position.  STOP_LOSS consults *)
(* the retry cooldown, which starts the count anew once 45 s have passed;    *)
(* the other reasons go on to _close_position whatever the count.            *)
StopHit(m, k) ==
    /\ pc[m] = "observed"
    /\ attempts' = IF CooldownOver(k) THEN [attempts EXCEPT ![k] = 0] ELSE attempts
    /\ loc' = [loc EXCEPT
         ![m] = Carrying([key |-> k, qty |-> pos, flags |-> loc[m].flags])]
    /\ Goto(m, "request")
    /\ UNCHANGED <<row, claim, mutex, closeVars, exchangeVars, historyVars>>

(* _handle_take_profit: lock the level in the row before the close is asked. *)
LockTakeProfit(m, k) ==
    /\ pc[m] = "observed"
    /\ Sellable(m, k)
    /\ LET flags == loc[m].flags \cup {k}
       IN  /\ row' = [row EXCEPT !.flags = flags]
           /\ loc' = [loc EXCEPT
                ![m] = Carrying([key   |-> k,
                                 qty   |-> IF k = "TP3" THEN pos ELSE 1,
                                 flags |-> flags])]
    /\ Goto(m, "request")
    /\ UNCHANGED <<claim, attempts, mutex, closeVars, exchangeVars, historyVars>>

(* What the caller does with a refused close: a take-profit is unlocked.    *)
Refused(m) == IF loc[m].task.key \in Levels
              THEN Goto(m, "unlock") /\ UNCHANGED loc
              ELSE GotoIdle(m)

(* _close_position under _close_lock: refuse a duplicate or a claimed trade, *)
(* else claim it for main and note the attempt.                              *)
AcceptClose(m) ==
    LET k == loc[m].task.key IN
    /\ pc[m] = "request"
    /\ ~Exhausted(k)
    /\ MayQueue(k)
    /\ claim' = ClaimBy("main")
    /\ inflight' = inflight \cup {k}
    /\ attempts' = Noted(k)
    /\ Goto(m, "enqueue")
    /\ UNCHANGED <<row, queue, mutex, loc, exchangeVars, historyVars>>

RefuseClose(m) ==
    LET k == loc[m].task.key IN
    /\ pc[m] = "request"
    /\ \/ ~MayQueue(k)
       \/ Exhausted(k)                     \* REST reports size, or nothing
       \/ k \in FullReasons /\ pos = 0     \* no size, and no REST answer
    /\ Refused(m)
    /\ UNCHANGED <<row, claim, attempts, mutex, closeVars, exchangeVars, historyVars>>

(* No quantity or no attempt left, and REST confirms the exchange is flat.  *)
FlatAtRequest(m) ==
    /\ pc[m] = "request"
    /\ loc[m].task.key \in FullReasons
    /\ ConfirmedFlat
    /\ Goto(m, "mark")
    /\ UNCHANGED <<row, claim, attempts, mutex, loc, closeVars, exchangeVars, historyVars>>

(* The queue is filled after the lock is given back.                        *)
Enqueue(m) ==
    /\ pc[m] = "enqueue"
    /\ queue' = Append(queue, loc[m].task)
    /\ GotoIdle(m)
    /\ UNCHANGED <<row, claim, inflight, attempts, mutex, exchangeVars, historyVars>>

(* _rollback_tp_lock writes the metadata of the trade dict without the flag. *)
UnlockTakeProfit(m) ==
    /\ pc[m] = "unlock"
    /\ row' = [row EXCEPT !.flags = loc[m].task.flags \ {loc[m].task.key}]
    /\ GotoIdle(m)
    /\ UNCHANGED <<claim, attempts, mutex, closeVars, exchangeVars, historyVars>>

(* The monitor finds the position gone and REST confirms it.                *)
ExternalClose(m) ==
    /\ pc[m] = "idle"
    /\ row.status # "CLOSED"
    /\ ConfirmedFlat
    /\ Goto(m, "mark")
    /\ UNCHANGED <<row, claim, attempts, mutex, loc, closeVars, exchangeVars, historyVars>>

-----------------------------------------------------------------------------
(* _drain_pending_external_flats, after an ACCOUNT_UPDATE with size 0.      *)
DrainFlat ==
    /\ pc["reconciler"] = "idle"
    /\ row.status # "CLOSED"
    /\ ConfirmedFlat
    /\ ~claim.live
    /\ inflight = {}
    /\ Goto("reconciler", "mark")
    /\ UNCHANGED <<row, claim, attempts, mutex, loc, closeVars, exchangeVars, historyVars>>

-----------------------------------------------------------------------------
(* _mark_trade_closed, run by any thread of the main process.               *)

Task == loc["worker"].task

MarkDone(t) == IF t = "worker"
               THEN /\ Goto(t, "answered")
                    /\ loc' = [loc EXCEPT ![t] = [Carrying(Task) EXCEPT !.ok = TRUE]]
               ELSE GotoIdle(t)

(* Somebody closed the row already, or another process holds the claim.     *)
MarkSkip(t) ==
    /\ pc[t] = "mark"
    /\ MutexFree
    /\ row.status = "CLOSED" \/ (claim.live /\ claim.owner = "watchdog")
    /\ MarkDone(t)
    /\ UNCHANGED <<row, claim, attempts, mutex, closeVars, exchangeVars, historyVars>>

MarkBegin(t) ==
    /\ pc[t] = "mark"
    /\ MutexFree
    /\ row.status # "CLOSED"
    /\ claim.live => claim.owner # "watchdog"
    /\ mutex' = t
    /\ claim' = IF claim.live THEN claim ELSE ClaimBy("close_pipeline")
    /\ loc' = [loc EXCEPT ![t].own = ~claim.live]
    /\ attempts' = NoAttempts
    /\ Goto(t, "closing")
    /\ UNCHANGED <<row, closeVars, exchangeVars, historyVars>>

(* db.close_trade_and_sync_stats, then the claim and the mutex are released. *)
MarkCommit(t) ==
    /\ pc[t] = "closing"
    /\ row' = Closed(row)
    /\ claim' = IF loc[t].own THEN Released("close_pipeline") ELSE claim
    /\ mutex' = "free"
    /\ MarkDone(t)
    /\ UNCHANGED <<attempts, closeVars, exchangeVars, historyVars>>

(* _finalize_trade_closed raises before the row is written: mutex and claim  *)
(* are given back on the way out, and the caller logs the exception.        *)
MarkError(t) ==
    /\ StepErrors
    /\ pc[t] = "closing"
    /\ claim' = IF loc[t].own THEN Released("close_pipeline") ELSE claim
    /\ mutex' = "free"
    /\ IF t = "worker"
       THEN Goto(t, "answered") /\ loc' = [loc EXCEPT ![t] = Carrying(Task)]
       ELSE GotoIdle(t)
    /\ UNCHANGED <<row, attempts, closeVars, exchangeVars, historyVars>>

-----------------------------------------------------------------------------
(* The close-order worker.                                                  *)

WorkerTake ==
    /\ pc["worker"] = "idle"
    /\ queue # <<>>
    /\ loc' = [loc EXCEPT !["worker"] = Carrying(Head(queue))]
    /\ queue' = Tail(queue)
    /\ Goto("worker", "read")
    /\ UNCHANGED <<row, claim, inflight, attempts, mutex, exchangeVars, historyVars>>

(* _execute_close_order reads the row afresh; a CLOSED trade needs no order, *)
(* and a full close of nothing is settled by REST.                           *)
WorkerRead ==
    /\ pc["worker"] = "read"
    /\ \/ /\ row.status = "CLOSED"
          /\ loc' = [loc EXCEPT !["worker"].ok = TRUE]
          /\ Goto("worker", "answered")
       \/ /\ row.status # "CLOSED"
          /\ loc' = [loc EXCEPT !["worker"].flags = row.flags,
                                !["worker"].tries = MaxRetries]
          /\ \/ Goto("worker", "order")
             \/ /\ Task.key \in FullReasons /\ ConfirmedFlat
                /\ Goto("worker", "mark") \/ Goto("worker", "answered")
    /\ UNCHANGED <<row, claim, attempts, mutex, closeVars, exchangeVars, historyVars>>

WorkerFill ==
    /\ pc["worker"] = "order"
    /\ pos > 0
    /\ \E q \in Fillable(Task.qty) :
          /\ pos' = pos - q
          /\ CountFill(Task.key, q)
    /\ Goto("worker", "book")
    /\ loc' = [loc EXCEPT !["worker"].tries = 0]
    /\ UNCHANGED <<row, claim, attempts, mutex, adds, closeVars, historyVars>>

(* The order fails, or its answer is lost after it executed: retry, and     *)
(* after the last try ask REST for the size (_handle_failed_market_close).  *)
WorkerOrderError ==
    /\ pc["worker"] = "order"
    /\ \/ UNCHANGED <<pos, fills>>
       \/ /\ LostAcks /\ pos > 0
          /\ pos' = pos - CutDown(Task.qty)
          /\ CountFill(Task.key, CutDown(Task.qty))
    /\ IF loc["worker"].tries > 1
       THEN /\ loc' = [loc EXCEPT !["worker"].tries = @ - 1]
            /\ UNCHANGED pc
       ELSE /\ loc' = [loc EXCEPT !["worker"] = Carrying(Task)]
            /\ \/ pos' = 0 /\ Goto("worker", "mark")
               \/ Goto("worker", "answered")
    /\ UNCHANGED <<row, claim, attempts, mutex, adds, closeVars, historyVars>>

(* -2022: the exchange has nothing to reduce.                               *)
WorkerReduceOnlyReject ==
    /\ pc["worker"] = "order"
    /\ pos = 0
    /\ Goto("worker", "mark") \/ Goto("worker", "answered")
    /\ loc' = [loc EXCEPT !["worker"] = Carrying(Task)]
    /\ UNCHANGED <<row, claim, attempts, mutex, closeVars, exchangeVars, historyVars>>

(* The fill is booked with the metadata read before the order.  A TP1 or TP2 *)
(* close is done then; a full close goes on to _mark_trade_closed.           *)
WorkerBook ==
    /\ pc["worker"] = "book"
    /\ row' = [row EXCEPT !.flags = loc["worker"].flags]
    /\ IF Task.key \in {"TP1", "TP2"}
       THEN /\ loc' = [loc EXCEPT !["worker"] = [Carrying(Task) EXCEPT !.ok = TRUE]]
            /\ Goto("worker", "answered")
       ELSE /\ loc' = [loc EXCEPT !["worker"] = Carrying(Task)]
            /\ Goto("worker", "mark")
    /\ UNCHANGED <<claim, attempts, mutex, closeVars, exchangeVars, historyVars>>

(* Back in _close_worker_loop with the result.                              *)
WorkerRollback ==
    /\ pc["worker"] = "answered"
    /\ Task.key \in Levels /\ ~loc["worker"].ok
    /\ row' = [row EXCEPT !.flags = Task.flags \ {Task.key}]
    /\ Goto("worker", "release")
    /\ UNCHANGED <<claim, attempts, mutex, loc, closeVars, exchangeVars, historyVars>>

WorkerFullDone ==
    /\ pc["worker"] = "answered"
    /\ Task.key \in FullReasons
    /\ Goto("worker", "release")
    /\ UNCHANGED <<row, claim, attempts, mutex, loc, closeVars, exchangeVars, historyVars>>

(* _finalize_take_profit: read the row, and write status and metadata; then  *)
(* the native stop is moved, which may raise.                                *)
FinalizeRead ==
    /\ pc["worker"] = "answered"
    /\ Task.key \in Levels /\ loc["worker"].ok
    /\ IF row.status = "CLOSED"
       THEN Goto("worker", "release") /\ UNCHANGED loc
       ELSE /\ Goto("worker", "finalize")
            /\ loc' = [loc EXCEPT !["worker"].flags = row.flags]
    /\ UNCHANGED <<row, claim, attempts, mutex, closeVars, exchangeVars, historyVars>>

StatusOf(k) == CASE k = "TP1" -> "TP1_HIT" [] k = "TP2" -> "TP2_HIT" [] OTHER -> "CLOSED"

FinalizeWrite ==
    /\ pc["worker"] = "finalize"
    /\ row' = [status |-> StatusOf(Task.key), flags |-> loc["worker"].flags]
    /\ loc' = [loc EXCEPT !["worker"] = Carrying(Task)]
    /\ Goto("worker", "release") \/ (StepErrors /\ Goto("worker", "answered"))
    /\ UNCHANGED <<claim, attempts, mutex, closeVars, exchangeVars, historyVars>>

(* A call of the turn raises: whatever the order did, the task has failed.  *)
WorkerError ==
    /\ StepErrors
    /\ pc["worker"] \in {"read", "order", "book", "mark", "answered", "finalize"}
    /\ Goto("worker", "answered")
    /\ loc' = [loc EXCEPT !["worker"] = Carrying(Task)]
    /\ UNCHANGED <<row, claim, attempts, mutex, closeVars, exchangeVars, historyVars>>

(* finally: release the claim, then drop the key under _close_lock.         *)
WorkerRelease ==
    /\ pc["worker"] = "release"
    /\ claim' = Released("main")
    /\ Goto("worker", "done")
    /\ UNCHANGED <<row, attempts, mutex, loc, closeVars, exchangeVars, historyVars>>

WorkerDoneKeepsKey ==                                            \* mutant
    /\ pc["worker"] = "done"
    /\ GotoIdle("worker")
    /\ UNCHANGED <<row, claim, attempts, mutex, closeVars, exchangeVars, historyVars>>

WorkerDone ==
    /\ pc["worker"] = "done"
    /\ inflight' = inflight \ {Task.key}
    /\ GotoIdle("worker")
    /\ UNCHANGED <<row, claim, queue, attempts, mutex, exchangeVars, historyVars>>

-----------------------------------------------------------------------------
(* The watchdog: check_open_positions and _emergency_close.                 *)

(* The open trades are read once per cycle, long before a close.            *)
WatchdogRead(k) ==
    /\ pc["watchdog"] = "idle"
    /\ "watchdog" \in Claimers
    /\ row.status # "CLOSED"
    /\ pos > 0
    /\ k \in Keys \ row.flags /\ k \in FullReasons => k = "STOP_LOSS"
    /\ loc' = [loc EXCEPT !["watchdog"].task =
                  [key   |-> k,
                   qty   |-> IF k \in {"TP1", "TP2"} THEN 1 ELSE pos,
                   flags |-> row.flags]]
    /\ Goto("watchdog", "breach")
    /\ UNCHANGED <<row, claim, attempts, mutex, closeVars, exchangeVars, historyVars>>

(* Grace not over, main healthy, or the trade claimed: nothing this cycle.  *)
WatchdogDefer ==
    /\ pc["watchdog"] = "breach"
    /\ GotoIdle("watchdog")
    /\ UNCHANGED <<row, claim, attempts, mutex, closeVars, exchangeVars, historyVars>>

WatchdogClaimAny ==                                              \* mutant
    /\ pc["watchdog"] = "breach"
    /\ claim' = ClaimBy("watchdog")
    /\ Goto("watchdog", "order")
    /\ UNCHANGED <<row, attempts, mutex, loc, closeVars, exchangeVars, historyVars>>

WatchdogClaim ==
    /\ pc["watchdog"] = "breach"
    /\ ~claim.live
    /\ claim' = ClaimBy("watchdog")
    /\ Goto("watchdog", "order")
    /\ UNCHANGED <<row, attempts, mutex, loc, closeVars, exchangeVars, historyVars>>

WatchdogFill ==
    LET task == loc["watchdog"].task IN
    /\ pc["watchdog"] = "order"
    /\ pos > 0
    /\ \E q \in Fillable(task.qty) :
          /\ pos' = pos - q
          /\ CountFill(task.key, q)
    /\ Goto("watchdog", "book")
    /\ UNCHANGED <<row, claim, attempts, mutex, loc, adds, closeVars, historyVars>>

WatchdogOrderError ==
    /\ pc["watchdog"] = "order"
    /\ Goto("watchdog", "release")
    /\ UNCHANGED <<row, claim, attempts, mutex, loc, closeVars, exchangeVars, historyVars>>

WatchdogReduceOnlyReject ==
    /\ pc["watchdog"] = "order"
    /\ pos = 0
    /\ row' = Closed(row)
    /\ Goto("watchdog", "release")
    /\ UNCHANGED <<claim, attempts, mutex, loc, closeVars, exchangeVars, historyVars>>

(* _apply_post_close_db writes from the row of the cycle's start.           *)
WatchdogBook ==
    LET task == loc["watchdog"].task IN
    /\ pc["watchdog"] = "book"
    /\ row' = IF task.key \in {"TP1", "TP2"}
              THEN [status |-> StatusOf(task.key), flags |-> task.flags \cup {task.key}]
              ELSE Closed(row)
    /\ Goto("watchdog", "release")
    /\ UNCHANGED <<claim, attempts, mutex, loc, closeVars, exchangeVars, historyVars>>

WatchdogRelease ==
    /\ pc["watchdog"] = "release"
    /\ claim' = Released("watchdog")
    /\ GotoIdle("watchdog")
    /\ UNCHANGED <<row, attempts, mutex, closeVars, exchangeVars, historyVars>>

-----------------------------------------------------------------------------
(* The environment.                                                         *)

(* A native stop, a manual close or a liquidation empties the position.     *)
ExternalFlat ==
    /\ pos > 0
    /\ pos' = 0
    /\ UNCHANGED <<row, claim, attempts, mutex, pc, loc, fills, adds, closeVars, historyVars>>

(* A DCA add fills (module DcaAdds): it does not look at the close queue,    *)
(* and the trade may have been closed since it was decided.                  *)
DcaAdd ==
    /\ adds < MaxAdds
    /\ pos' = pos + 1
    /\ adds' = adds + 1
    /\ UNCHANGED <<row, claim, attempts, mutex, pc, loc, fills, closeVars, historyVars>>

(* The holder of the claim is still between claim_exit and release_exit.    *)
Holding ==
    \/ claim.owner = "main" /\ \/ queue # <<>>
                               \/ pc["worker"] \notin {"idle", "done"}
                               \/ \E m \in Monitors : pc[m] = "enqueue"
    \/ claim.owner = "watchdog" /\ pc["watchdog"] \in {"order", "book", "release"}
    \/ claim.owner = "close_pipeline" /\ mutex # "free"

ClaimExpire ==
    /\ claim.live
    /\ Holding => ClaimsExpire
    /\ claim' = [claim EXCEPT !.live = FALSE]
    /\ lapsed' = (lapsed \/ Holding)
    /\ UNCHANGED <<row, attempts, mutex, pc, loc, crashes, closeVars, exchangeVars>>

(* The main process dies and starts again: its memory is gone, the claim    *)
(* file and the row stay.                                                   *)
Crash ==
    /\ crashes < MaxCrashes
    /\ crashes' = crashes + 1
    /\ inflight' = {}
    /\ queue' = <<>>
    /\ attempts' = NoAttempts
    /\ mutex' = "free"
    /\ pc' = [t \in Threads |-> IF t = "watchdog" THEN pc[t] ELSE "idle"]
    /\ loc' = [t \in Threads |-> IF t = "watchdog" THEN loc[t] ELSE Idle]
    /\ UNCHANGED <<row, claim, lapsed, exchangeVars>>

WatchdogCrash ==
    /\ crashes < MaxCrashes
    /\ pc["watchdog"] # "idle"
    /\ crashes' = crashes + 1
    /\ GotoIdle("watchdog")
    /\ UNCHANGED <<row, claim, attempts, mutex, lapsed, closeVars, exchangeVars>>

-----------------------------------------------------------------------------
MonitorStep(m) ==
    \/ Observe(m) \/ TrailingWrite(m) \/ NothingHit(m)
    \/ \E k \in FullReasons : StopHit(m, k)
    \/ \E k \in Levels : LockTakeProfit(m, k)
    \/ AcceptClose(m) \/ RefuseClose(m) \/ FlatAtRequest(m)
    \/ Enqueue(m) \/ UnlockTakeProfit(m) \/ ExternalClose(m)

MarkStep(t) == MarkSkip(t) \/ MarkBegin(t) \/ MarkCommit(t)

WorkerStep ==
    \/ WorkerTake \/ WorkerRead \/ WorkerFill \/ WorkerOrderError
    \/ WorkerReduceOnlyReject \/ WorkerBook \/ WorkerRollback \/ WorkerFullDone
    \/ FinalizeRead \/ FinalizeWrite \/ WorkerError \/ WorkerRelease \/ WorkerDone

WatchdogStep ==
    \/ \E k \in Keys : WatchdogRead(k)
    \/ WatchdogDefer \/ WatchdogClaim \/ WatchdogFill \/ WatchdogOrderError
    \/ WatchdogReduceOnlyReject \/ WatchdogBook \/ WatchdogRelease

Environment == ExternalFlat \/ DcaAdd \/ ClaimExpire \/ Crash \/ WatchdogCrash

Next ==
    \/ \E m \in Monitors : MonitorStep(m)
    \/ \E t \in MainThreads : MarkStep(t)
    \/ \E t \in MainThreads : MarkError(t)
    \/ WorkerStep
    \/ DrainFlat
    \/ WatchdogStep
    \/ Environment

Spec == Init /\ [][Next]_vars
-----------------------------------------------------------------------------
(* Properties.                                                              *)

MonitorLabels    == {"idle", "observed", "request", "enqueue", "unlock", "mark", "closing"}
WorkerLabels     == {"idle", "read", "order", "book", "answered", "finalize", "mark",
                     "closing", "release", "done"}
ReconcilerLabels == {"idle", "mark", "closing"}
WatchdogLabels   == {"idle", "breach", "order", "book", "release"}
AllLabels        == MonitorLabels \cup WorkerLabels \cup ReconcilerLabels \cup WatchdogLabels

DataOK ==
    /\ row \in [status : Statuses, flags : SUBSET Levels]
    /\ pos \in 0..(Lots + adds)
    /\ claim \in [owner : Owners, live : BOOLEAN]
    /\ inflight \in SUBSET Keys
    /\ queue \in Seq(Tasks)
    /\ attempts \in [FullReasons -> 0..MaxAttempts]
    /\ mutex \in MainThreads \cup {"free"}
    /\ fills \in [Levels -> Nat]
    /\ adds \in 0..MaxAdds
    /\ crashes \in 0..MaxCrashes
    /\ lapsed \in BOOLEAN

ControlOK ==
    /\ pc \in [Threads -> AllLabels]
    /\ \A m \in Monitors : pc[m] \in MonitorLabels
    /\ pc["worker"] \in WorkerLabels
    /\ pc["reconciler"] \in ReconcilerLabels
    /\ pc["watchdog"] \in WatchdogLabels

(* A thread carries a task wherever its program needs one.                  *)
CarriesTask(t) == pc[t] \notin {"idle", "observed", "mark", "closing"}
LocalsOK ==
    /\ loc \in [Threads -> Locals]
    /\ \A t \in Threads : CarriesTask(t) => loc[t].task \in Tasks
    /\ pc["worker"] # "idle" => Task \in Tasks

(* The type invariant: every variable stays in its type, every thread at a   *)
(* label of its own program, and with a task where the program needs one.   *)
TypeOK == DataOK /\ ControlOK /\ LocalsOK

Enqueuing(m) == m \in Monitors /\ pc[m] = "enqueue"
Working      == pc["worker"] # "idle"
Queued(k)    == \E i \in DOMAIN queue : queue[i].key = k

(* A reason is in _close_inflight exactly while its one task is between     *)
(* _close_position and the end of the worker's turn: no close is queued     *)
(* twice and none is forgotten as in flight, whichever threads ask for it.  *)
OneTaskPerKey ==
    /\ \A k \in Keys : k \in inflight <=>
          \/ \E m \in Monitors : Enqueuing(m) /\ loc[m].task.key = k
          \/ Queued(k)
          \/ Working /\ Task.key = k
    /\ \A m, n \in Monitors :
          Enqueuing(m) /\ Enqueuing(n) /\ loc[m].task.key = loc[n].task.key => m = n
    /\ \A i, j \in DOMAIN queue : queue[i].key = queue[j].key => i = j
    /\ \A m \in Monitors : Enqueuing(m) =>
          ~Queued(loc[m].task.key) /\ ~(Working /\ Task.key = loc[m].task.key)
    /\ Working => ~Queued(Task.key)

(* One thread at a time finalises the close of the trade.                   *)
MarkExclusive == \A t \in MainThreads : pc[t] = "closing" <=> mutex = t

MainBusy     == \/ \E m \in Monitors : Enqueuing(m)
                \/ queue # <<>>
                \/ pc["worker"] \notin {"idle", "done"}
WatchdogBusy == pc["watchdog"] \in {"order", "book", "release"}

(* As long as no claim ran into its TTL under its holder, every close on    *)
(* its way in the main process is covered by main's claim, every emergency  *)
(* close by the watchdog's, and a finaliser without main's claim by its own *)
(* close_pipeline claim.                                                    *)
ClaimCoversWork ==
    ~lapsed =>
    /\ MainBusy => claim = ClaimBy("main")
    /\ WatchdogBusy => claim = ClaimBy("watchdog")
    /\ \A t \in MainThreads :
          pc[t] = "closing" /\ loc[t].own => claim = ClaimBy("close_pipeline")

(* Unless the TTL passed under its holder, the claim admits one close of the *)
(* trade at a time into the main process, whatever the reasons asked for.   *)
OneCloseInFlight ==
    ~lapsed =>
    /\ \A m, n \in Monitors : Enqueuing(m) /\ Enqueuing(n) => m = n
    /\ \A m \in Monitors : Enqueuing(m) => queue = <<>> /\ pc["worker"] \in {"idle", "done"}
    /\ queue # <<>> => Len(queue) = 1 /\ pc["worker"] \in {"idle", "done"}

(* main.py and watchdog.py do not have a close order of the same trade on   *)
(* its way at the same time (exit_coordinator.py:2), unless the TTL passed  *)
(* under one of them.                                                       *)
ExclusiveClose ==
    ~lapsed => ~(/\ pc["worker"] \in {"order", "book"}
                 /\ pc["watchdog"] \in {"order", "book"})

(* Main's claim does not outlive its close: without a crash the claim file  *)
(* is main's only while a close is on its way, so a later close (or the     *)
(* watchdog) is never shut out by a finished one.                           *)
NoLeakedClaim == claim.owner = "main" /\ crashes = 0 => MainBusy

(* A row is CLOSED only when nothing is left on the exchange, as long as no  *)
(* DCA add came in between.                                                  *)
ClosedMeansFlat == row.status = "CLOSED" /\ adds = 0 => pos = 0

(* "Lock the TP level immediately to prevent repeated partial closes"       *)
(* (manager.py:1356): a level is sold at most once.                         *)
LevelSoldOnce == \A k \in Levels : fills[k] <= 1

(* The worker, and any thread that owes the queue or the mutex a step, go   *)
(* on.                                                                      *)
Fairness ==
    /\ WF_vars(WorkerStep \/ MarkStep("worker"))
    /\ \A m \in Monitors : WF_vars(Enqueue(m))
    /\ \A t \in MainThreads : WF_vars(MarkCommit(t))

FairSpec == Spec /\ Fairness

(* Every close that was accepted leaves _close_inflight again, so its       *)
(* reason can be asked for anew.                                            *)
CloseLeavesFlight == \A k \in Keys : []<>(k \notin inflight)

(* The price stays beyond the stop that reason k guards: every monitor       *)
(* comes back to it, REST reads, orders and the booking of a close succeed   *)
(* again and again, and a claim nobody releases runs into its TTL.           *)
BreachFairness(k) ==
    /\ \A m \in Monitors :
          /\ WF_vars(Observe(m)) /\ SF_vars(StopHit(m, k))
          /\ WF_vars(AcceptClose(m) \/ RefuseClose(m) \/ FlatAtRequest(m))
          /\ WF_vars(UnlockTakeProfit(m)) /\ WF_vars(MarkStep(m))
          /\ SF_vars(ExternalClose(m))
    /\ WF_vars(MarkStep("reconciler"))
    /\ \A t \in MainThreads : SF_vars(MarkCommit(t))
    /\ SF_vars(WorkerRead) /\ SF_vars(WorkerFill)
    /\ WF_vars(WatchdogOrderError \/ WatchdogBook \/ WatchdogRelease) /\ SF_vars(WatchdogFill)
    /\ WF_vars(ClaimExpire)

(* A breached stop ends with the trade CLOSED and the position flat (unless   *)
(* an add came in), even when the orders fail more often than MaxAttempts      *)
(* allows (the attempts start anew after a cooldown), the watchdog gets in    *)
(* the way, or one of the two crashes.                                       *)
BreachIsClosed == <>(row.status = "CLOSED" /\ (adds = 0 => pos = 0))
=============================================================================
