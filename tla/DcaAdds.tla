------------------------------ MODULE DcaAdds ------------------------------
(***************************************************************************)
(* The adds of one trade, Entry 2 and Entry 3: manager.py                  *)
(* (_maybe_execute_dca), executor.py (execute_dca_add and what follows an  *)
(* order), the stage claim of database.py and reconcile_uncertain_dca of   *)
(* reconciliation.py.                                                      *)
(*                                                                         *)
(* Monitor threads evaluate the trade and send the adds; the ops worker    *)
(* looks up adds whose answer was lost.  They meet in the row: the column  *)
(* entry_stage is changed under a condition, the metadata (a second copy   *)
(* of the stage and the uncertain marker) is written as a whole by whoever *)
(* read it, however long ago.                                              *)
(***************************************************************************)
EXTENDS Integers, FiniteSets, FiniteSetsExt

CONSTANTS
    Monitors,        \* threads that run _monitor_single_trade
    MaxEntries,      \* DCA_MAX_ENTRIES
    MaxCrashes,      \* crashes of the process in a behaviour
    MaxOrders        \* orders of one step in a behaviour

ASSUME DcaAddsAssumption ==
    /\ "reconciler" \notin Monitors
    /\ MaxEntries \in 1..3
    /\ MaxCrashes \in Nat
    /\ MaxOrders \in Nat \ {0}

VARIABLES
    col,        \* the column entry_stage
    meta,       \* the metadata: its stage and the step marked uncertain
    open,       \* is the trade active
    inflight,   \* _dca_inflight: is an add of the trade under way
    order,      \* the last order of a step, as the exchange has it
    sent,       \* orders sent per step (history)
    executed,   \* orders of a step the exchange executed (history)
    booked,     \* fills of a step booked into the row, capped (history)
    pc, loc,    \* control point and locals of every thread
    crashes,    \* crashes so far
    slipped     \* a monitor went on to give a claim back over an executed add

addVars == <<col, meta, open, inflight, order, sent, executed, booked, pc, loc,
             crashes, slipped>>

Steps    == 2..MaxEntries
Stages   == 1..3
Threads  == Monitors \cup {"reconciler"}
Metas    == [stage : Stages, uncertain : {0} \cup Steps]
Locals   == [step : {0} \cup Steps, meta : Metas]
Fresh    == [stage |-> 1, uncertain |-> 0]
NoLocals == [step |-> 0, meta |-> Fresh]

(* entry_stage_of: the larger of column and metadata.                       *)
StageOf == Max({col, meta.stage})

Goto(t, label) == pc' = [pc EXCEPT ![t] = label]
GotoIdle(t)    == Goto(t, "idle") /\ loc' = [loc EXCEPT ![t] = NoLocals]
Step(t)        == loc[t].step

rowVars      == <<col, meta, open>>
historyVars  == <<crashes, slipped>>
exchangeVars == <<order, sent, executed>>

AddsInit ==
    /\ col = 1
    /\ meta = Fresh
    /\ open = TRUE
    /\ inflight = FALSE
    /\ order = [s \in Steps |-> "none"]
    /\ sent = [s \in Steps |-> 0]
    /\ executed = [s \in Steps |-> 0]
    /\ booked = [s \in Steps |-> 0]
    /\ pc = [t \in Threads |-> "idle"]
    /\ loc = [t \in Threads |-> NoLocals]
    /\ crashes = 0
    /\ slipped = FALSE
-----------------------------------------------------------------------------
(* _maybe_execute_dca.                                                      *)

(* No add of the trade is under way; the row is read after that.            *)
Look(m) ==
    /\ pc[m] = "idle"
    /\ open /\ ~inflight
    /\ Goto(m, "look")
    /\ UNCHANGED <<rowVars, inflight, exchangeVars, booked, loc, historyVars>>

(* The price has reached the trigger of the step after the current stage.   *)
HasNextAlways == StageOf <= MaxEntries                           \* mutant
HasNext       == StageOf < MaxEntries

Read(m) ==
    /\ pc[m] = "look"
    /\ HasNext
    /\ loc' = [loc EXCEPT ![m] = [step |-> StageOf + 1, meta |-> meta]]
    /\ Goto(m, "claim")
    /\ UNCHANGED <<rowVars, inflight, exchangeVars, booked, historyVars>>

(* It has not, there is no next step, or the risk manager says no.          *)
NoTrigger(m) ==
    /\ pc[m] = "look"
    /\ GotoIdle(m)
    /\ UNCHANGED <<rowVars, inflight, exchangeVars, booked, historyVars>>

(* claim_entry_stage: one transaction, conditional on column and metadata;   *)
(* the metadata it writes is the caller's copy.                             *)
MayClaim(s) == StageOf = s - 1 /\ col = s - 1

Claim(m) ==
    /\ pc[m] = "claim"
    /\ IF MayClaim(Step(m))
       THEN /\ col' = Step(m)
            /\ meta' = [loc[m].meta EXCEPT !.stage = Step(m)]
            /\ loc' = [loc EXCEPT ![m].meta.stage = Step(m)]
            /\ Goto(m, "claimed")
       ELSE GotoIdle(m) /\ UNCHANGED <<col, meta>>
    /\ UNCHANGED <<open, inflight, exchangeVars, booked, historyVars>>

Enter(m) ==
    /\ pc[m] = "claimed"
    /\ inflight' = TRUE
    /\ Goto(m, "execute")
    /\ UNCHANGED <<rowVars, exchangeVars, booked, loc, historyVars>>

-----------------------------------------------------------------------------
(* execute_dca_add.                                                         *)

(* An earlier add is still uncertain: nothing is sent, the claim stays.      *)
StillUncertain(m) ==
    /\ pc[m] = "execute"
    /\ loc[m].meta.uncertain # 0
    /\ Goto(m, "leave")
    /\ UNCHANGED <<rowVars, inflight, exchangeVars, booked, loc, historyVars>>

(* REST blocked, no balance, no rules, no quantity: give the claim back.     *)
GiveUp(m) ==
    /\ pc[m] = "execute"
    /\ loc[m].meta.uncertain = 0
    /\ Goto(m, "revert")
    /\ UNCHANGED <<rowVars, inflight, exchangeVars, booked, loc, historyVars>>

(* The order, as the exchange has it afterwards: executed, refused, still    *)
(* working, or never arrived.                                               *)
MaySend(m)     == loc[m].meta.uncertain = 0

Outcome(s, state) ==
    /\ order' = [order EXCEPT ![s] = state]
    /\ executed' = IF state = "filled" THEN [executed EXCEPT ![s] = @ + 1] ELSE executed

Send(m) ==
    LET s == Step(m) IN
    /\ pc[m] = "execute"
    /\ MaySend(m)
    /\ sent[s] < MaxOrders
    /\ sent' = [sent EXCEPT ![s] = @ + 1]
    /\ \/ Outcome(s, "filled") /\ Goto(m, "apply")
       \/ Outcome(s, "refused") /\ Goto(m, "revert")
       \/ \E state \in {"filled", "refused", "working", "lost"} :
             Outcome(s, state) /\ Goto(m, "mark")
    /\ UNCHANGED <<rowVars, inflight, booked, loc, historyVars>>

(* The order is answered EXPIRED after it filled in part: a hard reject.     *)
SendExpired(m) ==
    LET s == Step(m) IN
    /\ pc[m] = "execute"
    /\ MaySend(m)
    /\ sent[s] < MaxOrders
    /\ sent' = [sent EXCEPT ![s] = @ + 1]
    /\ Outcome(s, "filled")
    /\ Goto(m, "revert")
    /\ slipped' = TRUE
    /\ UNCHANGED <<rowVars, inflight, booked, loc, crashes>>

(* revert_entry_stage, conditional on the stage it was claimed at; only the  *)
(* stage is taken back from the metadata of the row.                         *)
MayRevert(s) == StageOf = s /\ col = s
RevertRow(s) ==
    IF MayRevert(s) THEN col' = s - 1 /\ meta' = [meta EXCEPT !.stage = s - 1]
                    ELSE UNCHANGED <<col, meta>>

Revert(m) ==
    /\ pc[m] = "revert"
    /\ RevertRow(Step(m))
    /\ Goto(m, "leave")
    /\ UNCHANGED <<open, inflight, exchangeVars, booked, loc, historyVars>>

(* _mark_dca_uncertain writes the marker with the metadata of the claim.     *)
MarkNothing(m) == loc[m].meta                                    \* mutant
Marked(m)      == [loc[m].meta EXCEPT !.uncertain = Step(m)]

Mark(m) ==
    /\ pc[m] = "mark"
    /\ meta' = Marked(m)
    /\ Goto(m, "leave")
    /\ UNCHANGED <<col, open, inflight, exchangeVars, booked, loc, historyVars>>

(* _apply_confirmed_dca_fill, for the monitor and for the reconciler: column *)
(* and metadata take the stage of the step, the marker goes.                 *)
Book(s) ==
    /\ col' = s
    /\ meta' = [stage |-> s, uncertain |-> 0]
    /\ booked' = [booked EXCEPT ![s] = Min({@ + 1, 2})]

Apply(m) ==
    /\ pc[m] = "apply"
    /\ Book(Step(m))
    /\ Goto(m, "leave")
    /\ UNCHANGED <<open, inflight, exchangeVars, loc, historyVars>>

(* The native stop, the booking or the failsafe close raises: the except     *)
(* clause of _maybe_execute_dca gives the claim back.                        *)
ApplyError(m) ==
    /\ pc[m] = "apply"
    /\ Book(Step(m)) \/ UNCHANGED <<col, meta, booked>>
    /\ Goto(m, "revert")
    /\ slipped' = TRUE
    /\ UNCHANGED <<open, inflight, exchangeVars, loc, crashes>>

Leave(m) ==
    /\ pc[m] = "leave"
    /\ inflight' = FALSE
    /\ GotoIdle(m)
    /\ UNCHANGED <<rowVars, exchangeVars, booked, historyVars>>

-----------------------------------------------------------------------------
(* Trailing: the row is read, and its whole metadata written back later.     *)
TrailRead(m) ==
    /\ pc[m] = "idle"
    /\ open
    /\ loc' = [loc EXCEPT ![m].meta = meta]
    /\ Goto(m, "trail")
    /\ UNCHANGED <<rowVars, inflight, exchangeVars, booked, historyVars>>

TrailWrite(m) ==
    /\ pc[m] = "trail"
    /\ meta' = loc[m].meta
    /\ GotoIdle(m)
    /\ UNCHANGED <<col, open, inflight, exchangeVars, booked, historyVars>>

-----------------------------------------------------------------------------
(* reconcile_uncertain_dca, in the ops worker.                               *)
R == "reconciler"

ReconcileRead ==
    /\ pc[R] = "idle"
    /\ open
    /\ meta.uncertain # 0
    /\ loc' = [loc EXCEPT ![R] = [step |-> meta.uncertain, meta |-> meta]]
    /\ Goto(R, "lookup")
    /\ UNCHANGED <<rowVars, inflight, exchangeVars, booked, historyVars>>

(* The order as the exchange has it; an order it does not know, or a lookup  *)
(* that failed, leaves everything for the next round.                        *)
RefusedWhenSent(s) == order[s] # "filled"                       \* mutant
RefusedByLookup(s) == order[s] = "refused"

Lookup ==
    /\ pc[R] = "lookup"
    /\ \/ order[Step(R)] = "filled" /\ Goto(R, "adopt") /\ UNCHANGED loc
       \/ RefusedByLookup(Step(R)) /\ Goto(R, "unclaim") /\ UNCHANGED loc
       \/ GotoIdle(R)
    /\ UNCHANGED <<rowVars, inflight, exchangeVars, booked, historyVars>>

Adopt ==
    /\ pc[R] = "adopt"
    /\ Book(Step(R))
    /\ GotoIdle(R)
    /\ UNCHANGED <<open, inflight, exchangeVars, historyVars>>

Unclaim ==
    /\ pc[R] = "unclaim"
    /\ RevertRow(Step(R))
    /\ Goto(R, "unmark")
    /\ UNCHANGED <<open, inflight, exchangeVars, booked, loc, historyVars>>

(* The marker is taken out of the copy read at the start, and that copy,     *)
(* with the stage it had then, is written.                                   *)
Unmark ==
    /\ pc[R] = "unmark"
    /\ meta' = [loc[R].meta EXCEPT !.uncertain = 0]
    /\ GotoIdle(R)
    /\ UNCHANGED <<col, open, inflight, exchangeVars, booked, historyVars>>

-----------------------------------------------------------------------------
(* The environment: a working order is decided, the trade is closed, the     *)
(* process dies and starts again with the row as it is.                      *)
Settle(s) ==
    /\ order[s] = "working"
    /\ \E state \in {"filled", "refused"} : Outcome(s, state)
    /\ UNCHANGED <<rowVars, inflight, sent, booked, pc, loc, historyVars>>

Close ==
    /\ open
    /\ open' = FALSE
    /\ UNCHANGED <<col, meta, inflight, exchangeVars, booked, pc, loc, historyVars>>

Crash ==
    /\ crashes < MaxCrashes
    /\ crashes' = crashes + 1
    /\ inflight' = FALSE
    /\ pc' = [t \in Threads |-> "idle"]
    /\ loc' = [t \in Threads |-> NoLocals]
    /\ UNCHANGED <<rowVars, exchangeVars, booked, slipped>>

MonitorStep(m) ==
    \/ Look(m) \/ Read(m) \/ NoTrigger(m) \/ Claim(m) \/ Enter(m)
    \/ StillUncertain(m) \/ GiveUp(m) \/ Send(m) \/ SendExpired(m) \/ Revert(m)
    \/ Mark(m) \/ Apply(m) \/ ApplyError(m) \/ Leave(m) \/ TrailRead(m) \/ TrailWrite(m)

ReconcilerStep == ReconcileRead \/ Lookup \/ Adopt \/ Unclaim \/ Unmark

AddsNext ==
    \/ \E m \in Monitors : MonitorStep(m)
    \/ ReconcilerStep
    \/ \E s \in Steps : Settle(s)
    \/ Close
    \/ Crash

-----------------------------------------------------------------------------
MonitorLabels    == {"idle", "look", "claim", "claimed", "execute", "revert", "mark",
                     "apply", "leave", "trail"}
ReconcilerLabels == {"idle", "lookup", "adopt", "unclaim", "unmark"}

(* Types, and a thread beyond its decision carries the step it decided on.   *)
AddsTypeOK ==
    /\ col \in Stages
    /\ meta \in Metas
    /\ open \in BOOLEAN
    /\ inflight \in BOOLEAN
    /\ order \in [Steps -> {"none", "filled", "refused", "working", "lost"}]
    /\ sent \in [Steps -> 0..MaxOrders]
    /\ executed \in [Steps -> 0..MaxOrders]
    /\ booked \in [Steps -> 0..2]
    /\ pc \in [Threads -> MonitorLabels \cup ReconcilerLabels]
    /\ \A m \in Monitors : pc[m] \in MonitorLabels
    /\ pc[R] \in ReconcilerLabels
    /\ loc \in [Threads -> Locals]
    /\ \A t \in Threads : pc[t] \notin {"idle", "look", "trail"} => Step(t) \in Steps
    /\ crashes \in 0..MaxCrashes
    /\ slipped \in BOOLEAN

(* "Persist the stage claim BEFORE the order so a restart cannot re-fire"    *)
(* (manager.py:626): the exchange never executes two adds of one step,       *)
(* unless the claim of an executed add was given back.                       *)
AddOnce == ~slipped => \A s \in Steps : executed[s] <= 1

(* An executed add that is not booked is not forgotten while the process     *)
(* lives: a monitor is still about to book or mark it, or the row carries    *)
(* its marker, and the reconciler will find it.                              *)
InHand(s) == \E m \in Monitors : pc[m] \in {"apply", "mark"} /\ Step(m) = s
NoneForgotten ==
    crashes = 0 /\ ~slipped =>
        \A s \in Steps : executed[s] > 0 /\ booked[s] = 0 =>
            InHand(s) \/ meta.uncertain = s
=============================================================================
