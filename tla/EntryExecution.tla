--------------------------- MODULE EntryExecution ---------------------------
(***************************************************************************)
(* Entries into one symbol: executor.py (execute_trade to                  *)
(* _complete_filled_entry), core/execution_ledger.py, the adoption of late *)
(* fills by main.py and by reconcile_uncertain_executions, and the replay  *)
(* of orphan_fills.jsonl, both of reconciliation.py.                       *)
(*                                                                         *)
(* The main loop places entries and drains the fill events of the          *)
(* user-data stream; the ops worker looks unresolved orders up and replays *)
(* orphan lines.  Both end in _complete_filled_entry.  They share the      *)
(* records of the ledger, its file, and the orphan file; each file is      *)
(* written whole from what was read a moment before.                       *)
(*                                                                         *)
(* An order and its record have the same number here.  The client order id *)
(* is built from a counter which a restart restores from the unresolved    *)
(* records only, so two orders may carry the same one.                     *)
(***************************************************************************)
EXTENDS Integers, FiniteSets, FiniteSetsExt

CONSTANTS
    MaxOrders,      \* entries tried in a behaviour
    MaxCrashes,     \* crashes of the process in a behaviour
    BadLevels,      \* may the levels at the fill price be invalid
    StepErrors,     \* may the database or a call after the fill fail
    Foreign         \* may fills of other orders of the symbol be reported

ASSUME EntryExecutionAssumption ==
    /\ MaxOrders \in Nat \ {0}
    /\ MaxCrashes \in Nat
    /\ BadLevels \in BOOLEAN
    /\ StepErrors \in BOOLEAN
    /\ Foreign \in BOOLEAN

VARIABLES
    order,      \* every order as the exchange has it
    cid,        \* the client order id an order was given, 0 before
    seq,        \* _seq of the ledger
    record,     \* phase of every execution record in memory
    file,       \* uncertain_executions.json: the unresolved records in it
    pos,        \* executed orders whose position is open
    openRows,   \* active rows per record, capped
    lines,      \* lines of orphan_fills.jsonl whose trade has no row, capped
    events,     \* _pending_order_fills: order numbers, 0 for another order's
    pc, loc,    \* control point and locals of the two threads
    crashes,    \* crashes so far
    slips       \* what went wrong that the code does not notice (history)

vars == <<order, cid, seq, record, file, pos, openRows, lines, events, pc, loc,
          crashes, slips>>

Ids     == 1..MaxOrders
Threads == {"main", "worker"}
Counts  == 0..2
NoLines == [i \in Ids |-> 0]
Orders  == {"none", "working", "filled", "refused"}
Phases  == {"none", "queued", "unresolved", "opened", "failed"}
Slips   == {"lost_answer", "other_order", "stale_ledger", "lost_line", "unseen_position"}
Locals  == [id : 0..MaxOrders, next : {"idle", "gate", "send", "complete", "protect"},
            snap : SUBSET Ids, kept : [Ids -> Counts]]
NoLocals == [id |-> 0, next |-> "idle", snap |-> {}, kept |-> NoLines]

Up(n)          == Min({n + 1, 2})
Slip(what, if) == slips' = IF if THEN slips \cup {what} ELSE slips
Unresolved     == {i \in Ids : record[i] = "unresolved"}

Goto(t, label) == pc' = [pc EXCEPT ![t] = label]
GotoIdle(t)    == Goto(t, "idle") /\ loc' = [loc EXCEPT ![t] = NoLocals]

ledgerVars == <<cid, seq, record, file>>
bookVars   == <<openRows, lines>>
worldVars  == <<order, pos, events>>

(* transition: the phase is set, the list of unresolved records is built;   *)
(* it is written in a step of its own (WriteLedger).                        *)
Transition(t, i, phase, next) ==
    /\ record' = [record EXCEPT ![i] = phase]
    /\ loc' = [loc EXCEPT ![t].id = i, ![t].next = next,
                          ![t].snap = {j \in Ids : record'[j] = "unresolved"}]
    /\ Goto(t, "write")
    /\ UNCHANGED <<cid, seq, file>>

(* The latest order the exchange knows by the client order id of i, or 0.   *)
Latest(i) == Max({0} \cup {j \in Ids : order[j] # "none" /\ cid[j] = cid[i]})

Init ==
    /\ order = [i \in Ids |-> "none"]
    /\ cid = [i \in Ids |-> 0]
    /\ seq = 0
    /\ record = [i \in Ids |-> "none"]
    /\ file = {}
    /\ pos = {}
    /\ openRows = [i \in Ids |-> 0]
    /\ lines = NoLines
    /\ events = {}
    /\ pc = [t \in Threads |-> "idle"]
    /\ loc = [t \in Threads |-> NoLocals]
    /\ crashes = 0
    /\ slips = {}

(* _persist_unlocked replaces the file by the list, however old it is.      *)
Written(t)      == loc[t].snap

WriteLedger(t) ==
    /\ pc[t] = "write"
    /\ file' = Written(t)
    /\ Slip("stale_ledger", ~(Unresolved \subseteq loc[t].snap))
    /\ IF loc[t].next = "idle" THEN GotoIdle(t)
                               ELSE /\ Goto(t, loc[t].next)
                                    /\ loc' = [loc EXCEPT ![t] = [NoLocals EXCEPT !.id = loc[t].id]]
    /\ UNCHANGED <<cid, seq, record, worldVars, bookVars, crashes>>

-----------------------------------------------------------------------------
(* execute_trade, in the main loop.                                         *)

(* No record of the symbol is unresolved; a new one is queued.              *)
SymbolIgnored == TRUE                                            \* mutant
SymbolFree    == Unresolved = {}

Start(i) ==
    /\ pc["main"] = "idle"
    /\ cid[i] = 0 /\ \A j \in Ids : j < i => cid[j] # 0
    /\ SymbolFree
    /\ cid' = [cid EXCEPT ![i] = seq + 1]
    /\ seq' = seq + 1
    /\ record' = [record EXCEPT ![i] = "queued"]
    /\ loc' = [loc EXCEPT !["main"] = [NoLocals EXCEPT !.id = i, !.next = "gate",
                                                       !.snap = Unresolved]]
    /\ Goto("main", "write")
    /\ UNCHANGED <<file, worldVars, bookVars, crashes, slips>>

(* symbol_blocked_for_new_entry: rows first, then the position by REST.     *)
RowsOpen == \E i \in Ids : openRows[i] > 0

GateRows ==
    /\ pc["main"] = "gate"
    /\ IF RowsOpen THEN GotoIdle("main") ELSE Goto("main", "gate2") /\ UNCHANGED loc
    /\ UNCHANGED <<ledgerVars, worldVars, bookVars, crashes, slips>>

GatePosition ==
    /\ pc["main"] = "gate2"
    /\ \/ pos = {} /\ Goto("main", "submit") /\ UNCHANGED <<loc, slips>>
       \/ GotoIdle("main") /\ UNCHANGED slips
       \/ /\ pos # {}                     \* REST blocked, caches empty
          /\ Goto("main", "submit")
          /\ Slip("unseen_position", TRUE)
          /\ UNCHANGED loc
    /\ UNCHANGED <<ledgerVars, worldVars, bookVars, crashes>>

(* Levels, size and partition are computed, or the entry is given up; the   *)
(* record is unresolved, in the file too, before the order is sent.         *)
GiveUp ==
    /\ pc["main"] = "submit"
    /\ GotoIdle("main")
    /\ UNCHANGED <<ledgerVars, worldVars, bookVars, crashes, slips>>

Submit ==
    /\ pc["main"] = "submit"
    /\ Transition("main", loc["main"].id, "unresolved", "send")
    /\ UNCHANGED <<worldVars, bookVars, crashes, slips>>

Decide(i, state) ==
    /\ order' = [order EXCEPT ![i] = state]
    /\ pos' = IF state = "filled" THEN pos \cup {i} ELSE pos
    /\ events' = IF state = "filled" THEN events \cup {i} ELSE events

Send ==
    /\ pc["main"] = "send"
    /\ \E state \in Orders : Decide(loc["main"].id, state)
    /\ Goto("main", "sent")
    /\ UNCHANGED <<ledgerVars, bookVars, loc, crashes, slips>>

(* The answer, or what the lookup after an error found; it may be older     *)
(* than the order.  It overwrites whatever phase the record has by now.     *)
Answer ==
    LET i == loc["main"].id
        j == Latest(i) IN
    /\ pc["main"] = "sent"
    /\ j # 0
    /\ \E seen \in {order[j], "working"} :
         \/ seen = "filled" /\ Transition("main", i, "unresolved", "complete")
         \/ seen = "working" /\ Transition("main", i, "unresolved", "idle")
         \/ seen = "refused" /\ Transition("main", i, "failed", "idle")
    /\ Slip("other_order", j # i)
    /\ UNCHANGED <<worldVars, bookVars, crashes>>

(* The error is taken for the end of the order: the lookup found nothing,   *)
(* or it was answered EXPIRED after it filled in part.                      *)
AnswerLost ==
    LET i == loc["main"].id IN
    /\ pc["main"] = "sent"
    /\ Transition("main", i, "failed", "idle")
    /\ Slip("lost_answer", order[i] \in {"working", "filled"})
    /\ UNCHANGED <<worldVars, bookVars, crashes>>

-----------------------------------------------------------------------------
(* _complete_filled_entry, by either thread, for the record in its locals.  *)

AddRow(i)  == openRows' = [openRows EXCEPT ![i] = Up(@)]
AddLine(i) == lines' = [lines EXCEPT ![i] = Up(@)]
Flattened(i) == pos' = pos \ {i} /\ events' = IF Foreign /\ i \in pos THEN events \cup {0} ELSE events

AlreadyOpened(t) ==
    /\ pc[t] = "complete"
    /\ record[loc[t].id] = "opened"
    /\ GotoIdle(t)
    /\ UNCHANGED <<ledgerVars, worldVars, bookVars, crashes, slips>>

(* The stop is invalid at the fill price: an orphan line, then a close,     *)
(* which may fail; the record stays unresolved.                             *)
BadStop(t) ==
    /\ pc[t] = "complete"
    /\ BadLevels
    /\ record[loc[t].id] # "opened"
    /\ AddLine(loc[t].id)
    /\ Goto(t, "unwind")
    /\ UNCHANGED <<ledgerVars, worldVars, openRows, loc, crashes, slips>>

Unwind(t) ==
    /\ pc[t] = "unwind"
    /\ Flattened(loc[t].id) \/ UNCHANGED <<pos, events>>
    /\ GotoIdle(t)
    /\ UNCHANGED <<order, ledgerVars, bookVars, crashes, slips>>

LogRow(t) ==
    /\ pc[t] = "complete"
    /\ record[loc[t].id] # "opened"
    /\ AddRow(loc[t].id)
    /\ Goto(t, "booked")
    /\ UNCHANGED <<ledgerVars, worldVars, lines, loc, crashes, slips>>

(* The database refused three times: an orphan line instead.                *)
LogFails(t) ==
    /\ StepErrors
    /\ pc[t] = "complete"
    /\ record[loc[t].id] # "opened"
    /\ Goto(t, "unlogged")
    /\ UNCHANGED <<ledgerVars, worldVars, bookVars, loc, crashes, slips>>

OrphanLine(i) == AddLine(i)

Orphan(t) ==
    /\ pc[t] = "unlogged"
    /\ OrphanLine(loc[t].id)
    /\ Goto(t, "booked")
    /\ UNCHANGED <<ledgerVars, worldVars, openRows, loc, crashes, slips>>

Open(t) ==
    /\ pc[t] = "booked"
    /\ Transition(t, loc[t].id, "opened", "protect")
    /\ UNCHANGED <<worldVars, bookVars, crashes, slips>>

(* Seeding the position raises: another line for the same trade, which the  *)
(* replay skips, and the record stays unresolved.                           *)
OpenError(t) ==
    /\ StepErrors
    /\ pc[t] = "booked"
    /\ GotoIdle(t)
    /\ UNCHANGED <<ledgerVars, worldVars, bookVars, crashes, slips>>

(* The native stop is placed, or the position is closed, or that fails too. *)
Protect(t) ==
    LET i == loc[t].id IN
    /\ pc[t] = "protect"
    /\ \/ Transition(t, i, "opened", "idle") /\ UNCHANGED <<pos, events>>
       \/ StepErrors /\ GotoIdle(t) /\ UNCHANGED <<ledgerVars, pos, events>>
       \/ StepErrors /\ Flattened(i) /\ GotoIdle(t) /\ UNCHANGED ledgerVars
    /\ UNCHANGED <<order, bookVars, crashes, slips>>

-----------------------------------------------------------------------------
(* Late fills: adopt_confirmed_fill.                                        *)

(* find_by_ids: the first record with the client order id, or any           *)
(* unresolved one of the symbol.                                            *)
Matches(e) == {i \in Ids : /\ record[i] # "none"
                           /\ \/ e # 0 /\ cid[i] = cid[e]
                              \/ record[i] = "unresolved"}

(* The main loop drains an event of the user-data stream.                   *)
UserFill(e) ==
    /\ pc["main"] = "idle"
    /\ e \in events
    /\ events' = events \ {e}
    /\ LET found == Matches(e) IN
       IF found # {} /\ record[Min(found)] = "unresolved"
       THEN /\ loc' = [loc EXCEPT !["main"].id = Min(found)]
            /\ Goto("main", "complete")
            /\ Slip("other_order", Min(found) # e)
       ELSE UNCHANGED <<loc, pc, slips>>
    /\ UNCHANGED <<order, pos, ledgerVars, bookVars, crashes>>

(* reconcile_uncertain_executions looks an unresolved order up.             *)
LookupFilled(i) ==
    /\ pc["worker"] = "idle"
    /\ record[i] = "unresolved"
    /\ Latest(i) # 0 /\ order[Latest(i)] = "filled"
    /\ loc' = [loc EXCEPT !["worker"].id = i]
    /\ Goto("worker", "adopt")
    /\ Slip("other_order", Latest(i) # i)
    /\ UNCHANGED <<ledgerVars, worldVars, bookVars, crashes>>

LookupRefused(i) ==
    /\ pc["worker"] = "idle"
    /\ record[i] = "unresolved"
    /\ Latest(i) # 0 /\ order[Latest(i)] = "refused"
    /\ Transition("worker", i, "failed", "idle")
    /\ Slip("other_order", Latest(i) # i)
    /\ UNCHANGED <<worldVars, bookVars, crashes>>

Adopt ==
    /\ pc["worker"] = "adopt"
    /\ IF record[loc["worker"].id] = "unresolved"
       THEN Goto("worker", "complete") /\ UNCHANGED loc
       ELSE GotoIdle("worker")
    /\ UNCHANGED <<ledgerVars, worldVars, bookVars, crashes, slips>>

-----------------------------------------------------------------------------
(* recover_orphan_fills_from_disk: read all lines, log a row for each, and  *)
(* write back those that could not be logged.                               *)
ReplayNever == FALSE                                             \* mutant
ReplayDue   == lines # NoLines

RecoverRead ==
    /\ pc["worker"] = "idle"
    /\ ReplayDue
    /\ loc' = [loc EXCEPT !["worker"].kept = lines]
    /\ Goto("worker", "recover")
    /\ UNCHANGED <<ledgerVars, worldVars, bookVars, crashes, slips>>

RecoverLine(i) ==
    /\ pc["worker"] = "recover"
    /\ loc["worker"].kept[i] > 0 /\ lines[i] > 0
    /\ loc' = [loc EXCEPT !["worker"].kept[i] = @ - 1]
    /\ lines' = [lines EXCEPT ![i] = @ - 1]
    /\ AddRow(i)
    /\ UNCHANGED <<ledgerVars, worldVars, pc, crashes, slips>>

AppendKept == [i \in Ids |-> lines[i] + loc["worker"].kept[i]]   \* mutant
Remaining  == loc["worker"].kept

RecoverWrite ==
    /\ pc["worker"] = "recover"
    /\ StepErrors \/ loc["worker"].kept = NoLines
    /\ lines' = Remaining
    /\ Slip("lost_line", \E i \in Ids : lines[i] > loc["worker"].kept[i])
    /\ GotoIdle("worker")
    /\ UNCHANGED <<ledgerVars, worldVars, openRows, crashes>>

-----------------------------------------------------------------------------
(* The environment: a working order is decided; the position is closed by   *)
(* its stop, a monitor or by hand; rows over a flat position are closed; the *)
(* process dies, and starts with what the files and the database hold.      *)
Settle(i) ==
    /\ order[i] = "working"
    /\ \E state \in {"filled", "refused"} : Decide(i, state)
    /\ UNCHANGED <<ledgerVars, bookVars, pc, loc, crashes, slips>>

Flat ==
    /\ pos # {}
    /\ pos' = {}
    /\ events' = IF Foreign THEN events \cup {0} ELSE events
    /\ UNCHANGED <<order, ledgerVars, bookVars, pc, loc, crashes, slips>>

CloseRows ==
    /\ pos = {} /\ RowsOpen
    /\ openRows' = [i \in Ids |-> 0]
    /\ UNCHANGED <<ledgerVars, worldVars, lines, pc, loc, crashes, slips>>

Crash ==
    /\ crashes < MaxCrashes
    /\ crashes' = crashes + 1
    /\ record' = [i \in Ids |-> IF i \in file THEN "unresolved" ELSE "none"]
    /\ seq' = Max({0} \cup {cid[i] : i \in file})
    /\ events' = {}
    /\ pc' = [t \in Threads |-> "idle"]
    /\ loc' = [t \in Threads |-> NoLocals]
    /\ UNCHANGED <<order, cid, file, pos, bookVars, slips>>

Complete(t) ==
    \/ AlreadyOpened(t) \/ BadStop(t) \/ Unwind(t) \/ LogRow(t) \/ LogFails(t)
    \/ Orphan(t) \/ Open(t) \/ OpenError(t) \/ Protect(t)

MainBusy ==
    \/ GateRows \/ GatePosition \/ GiveUp \/ Submit \/ Send \/ Answer \/ AnswerLost
    \/ Complete("main") \/ WriteLedger("main")

MainStep ==
    \/ \E i \in Ids : Start(i)
    \/ \E e \in events : UserFill(e)
    \/ MainBusy

WorkerBusy == Adopt \/ RecoverWrite \/ Complete("worker") \/ WriteLedger("worker")

WorkerStep ==
    \/ \E i \in Ids : LookupFilled(i) \/ LookupRefused(i) \/ RecoverLine(i)
    \/ RecoverRead
    \/ WorkerBusy

Environment == (\E i \in Ids : Settle(i)) \/ Flat \/ CloseRows

Next ==
    \/ MainStep
    \/ WorkerStep
    \/ Environment
    \/ Crash

Spec == Init /\ [][Next]_vars

(* No thread stops in a call; the worker comes back to every unresolved     *)
(* order and to the orphan file, and the database takes a line in the end.  *)
FairSpec ==
    /\ Spec
    /\ WF_vars(MainBusy) /\ WF_vars(WorkerBusy)
    /\ \A i \in Ids : SF_vars(LookupFilled(i)) /\ SF_vars(RecoverLine(i))
    /\ SF_vars(RecoverRead)
-----------------------------------------------------------------------------
MainLabels   == {"idle", "write", "gate", "gate2", "submit", "send", "sent"}
WorkerLabels == {"idle", "write", "adopt", "recover"}
BothLabels   == {"complete", "unwind", "unlogged", "booked", "protect"}

(* Types, and a thread that acts on an order knows which.                   *)
TypeOK ==
    /\ order \in [Ids -> Orders]
    /\ cid \in [Ids -> 0..MaxOrders]
    /\ seq \in 0..MaxOrders
    /\ record \in [Ids -> Phases]
    /\ file \subseteq Ids
    /\ pos \subseteq Ids
    /\ openRows \in [Ids -> Counts]
    /\ lines \in [Ids -> Counts]
    /\ events \subseteq 0..MaxOrders
    /\ pc["main"] \in MainLabels \cup BothLabels
    /\ pc["worker"] \in WorkerLabels \cup BothLabels
    /\ loc \in [Threads -> Locals]
    /\ \A t \in Threads : pc[t] \notin {"idle", "recover"} => loc[t].id \in Ids
    /\ crashes \in 0..MaxCrashes
    /\ slips \subseteq Slips

(* "not sending a second order" (executor.py:1415): the symbol never holds  *)
(* two entries, nor an entry and another that may still fill.               *)
Exposure == pos \cup {i \in Ids : order[i] = "working"}
OneEntry == slips = {} => Cardinality(Exposure) <= 1

(* An executed entry gets a row in the end, unless its position is closed.  *)
FillGetsRow ==
    \A i \in Ids : []<>(i \in pos /\ slips = {} => openRows[i] > 0)
=============================================================================
