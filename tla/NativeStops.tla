---------------------------- MODULE NativeStops -----------------------------
(***************************************************************************)
(* The exchange's stop of one open LONG trade: ensure_native_stop of        *)
(* core/exchange_protection.py at the grain of its REST calls, and its      *)
(* callers, which share nothing but the trade's row and the exchange: the   *)
(* bracket after the entry, the monitors that move the stop, the close      *)
(* worker after a take-profit, and the restore by the startup and then by   *)
(* the ops worker.  A SHORT trade is the mirror image.                      *)
(*                                                                         *)
(* Prices are levels.  A stop is a close-all order: when it fires, or the   *)
(* position ends otherwise, the trade is over and so is the model.          *)
(***************************************************************************)
EXTENDS Integers, FiniteSets

CONSTANTS
    Monitors,       \* threads that evaluate the trade
    Workers,        \* threads that finalise a take-profit
    MaxLevel,       \* prices are 1 .. MaxLevel
    Entry,          \* the level of the entry price
    FirstStop,      \* the level of the stop computed at the entry
    Targets,        \* the stops that TP1 and TP2 set: entry and TP1's price
    MaxMoves,       \* times a thread sets, or sets again, a stop or a best price
    MaxFailures,    \* failed calls (exchange or database) in a behaviour
    MaxCrashes      \* crashes of main in a behaviour

Levels == 1 .. MaxLevel

ASSUME NativeStopsAssumption ==
    /\ MaxLevel \in Nat
    /\ Entry \in Levels
    /\ FirstStop \in Levels /\ FirstStop < Entry
    /\ Targets \subseteq Levels
    /\ MaxMoves \in Nat
    /\ MaxFailures \in Nat
    /\ MaxCrashes \in Nat

VARIABLES
    row,        \* the trade's row: stop_loss, native_sl_order_id and _verified
    stops,      \* the exchange's open STOP orders
    last,       \* the exchange's latest order id
    newest,     \* the newest id that became an open stop (history)
    pc,         \* caller -> the call it makes next
    held,       \* caller -> its `trade` dict; parsed: metadata is a dict in it
    call,       \* caller -> arguments, locals and result of ensure_native_stop
    booted,     \* the startup restore has been made
    asked,      \* a fail-safe close has been asked for
    moves, failures, crashes

vars == <<row, stops, last, newest, pc, held, call, booted, asked,
          moves, failures, crashes>>

Callers  == Monitors \cup Workers \cup {"bracket", "ops"}
Statuses == {"MISSING", "UNCERTAIN", "VERIFIED"}
Jobs     == {"plain", "bracket", "ladder", "trail", "startup"}
Labels   == {"idle", "held", "list", "place", "verify", "cancel", "persist",
             "again"}

Ids    == {s.id : s \in stops}
NoRow  == [sl |-> 1, id |-> 0, verified |-> FALSE, parsed |-> FALSE]
NoCall == [job |-> "plain", want |-> 1, old |-> 0, seen |-> {}, new |-> 0,
           stale |-> {}, id |-> 0, status |-> "MISSING"]

(* Each failing call draws on the budget.                                   *)
Fails == failures < MaxFailures /\ failures' = failures + 1
Works == UNCHANGED failures

(* update_trade reports an error by its result, which no caller here reads.  *)
Store(r) == \/ row' = r /\ Works
            \/ row' = row /\ Fails

Move == moves < MaxMoves /\ moves' = moves + 1

Goto(c, label, k) ==
    /\ pc' = [pc EXCEPT ![c] = label]
    /\ call' = [call EXCEPT ![c] = k]

(* What ensure_native_stop returns; its locals are gone.                     *)
Answer(c, id, status) ==
    Goto(c, "persist", [NoCall EXCEPT !.job = call[c].job, !.id = id, !.status = status])

(* The row is in the database and its bracket is about to be placed.        *)
Init ==
    /\ row = [sl |-> FirstStop, id |-> 0, verified |-> FALSE]
    /\ stops = {}
    /\ last = 0
    /\ newest = 0
    /\ pc = [c \in Callers |-> IF c = "bracket" THEN "held" ELSE "idle"]
    /\ held = [c \in Callers |-> IF c = "bracket" THEN [NoRow EXCEPT !.sl = FirstStop]
                                                  ELSE NoRow]
    /\ call = [c \in Callers |-> NoCall]
    /\ booted = TRUE
    /\ asked = FALSE
    /\ moves = 0
    /\ failures = 0
    /\ crashes = 0
-----------------------------------------------------------------------------
(* ensure_native_stop: a stop on the wrong side of the entry is refused     *)
(* before anything is asked of the exchange.                                *)
ValidVsEntry(p) == p < Entry

Ensure(c, job, want, old) ==
    LET k == [NoCall EXCEPT !.job = job, !.want = want, !.old = old]
    IN  \/ ValidVsEntry(want) /\ Goto(c, "list", k)
        \/ ~ValidVsEntry(want) /\ Goto(c, "persist", [NoCall EXCEPT !.job = job])

(* Without the new stop: one of the listed ones is reported as kept.        *)
FallBack(c) ==
    \/ \E i \in call[c].seen : Answer(c, i, "UNCERTAIN")
    \/ call[c].seen = {} /\ Answer(c, 0, "MISSING")

MatchesAny(s, want) == TRUE                                       \* mutant
Matches(s, want) == s.price = want

(* A failed listing is an empty list.                                       *)
List(c) ==
    /\ pc[c] = "list"
    /\ \/ \E s \in stops : Matches(s, call[c].want) /\ Works /\ Answer(c, s.id, "VERIFIED")
       \/ /\ \A s \in stops : ~Matches(s, call[c].want)
          /\ Works
          /\ Goto(c, "place", [call[c] EXCEPT !.seen = Ids])
       \/ Fails /\ Goto(c, "place", call[c])
    /\ UNCHANGED <<row, stops, last, newest, held, booted, asked, moves, crashes>>

(* A stop price that is on a tick already is not rounded further.           *)
RoundedBelow(p) == p - 1                                          \* mutant
Rounded(p) == p

Accepted(c) ==
    /\ stops' = stops \cup {[id |-> last + 1, price |-> Rounded(call[c].want)]}
    /\ newest' = last + 1

(* The order is accepted; it is dead on arrival; the call fails, with or     *)
(* without an order left behind (a lost answer, an answer without an id).    *)
Place(c) ==
    /\ pc[c] = "place"
    /\ last' = last + 1
    /\ \/ /\ Accepted(c) /\ Works
          /\ Goto(c, "verify", [call[c] EXCEPT !.new = last + 1])
       \/ /\ UNCHANGED <<stops, newest>> /\ Fails
          /\ Goto(c, "verify", [call[c] EXCEPT !.new = last + 1])
       \/ (Accepted(c) \/ UNCHANGED <<stops, newest>>) /\ Fails /\ FallBack(c)
    /\ UNCHANGED <<row, held, booted, asked, moves, crashes>>

(* The stops to cancel: those listed before the new one was placed and the  *)
(* one on record.                                                           *)
StaleOpenNow(k)   == Ids \ {k.new}                                \* mutant
StaleOf(k)        == (k.seen \cup {k.old}) \ {0, k.new}

(* Cancelling an id that is no longer open changes nothing.                  *)
Confirmed(c, ids) ==
    LET stale == ids \cap Ids IN
    \/ stale # {} /\ Goto(c, "cancel", [NoCall EXCEPT !.job = call[c].job,
                                       !.new = call[c].new, !.stale = stale])
    \/ stale = {} /\ Answer(c, call[c].new, "VERIFIED")

AliveAnyway(i) == TRUE                                            \* mutant
Alive(i) == i \in Ids

(* The lookup: NEW; CANCELED, EXPIRED or REJECTED; or no answer.             *)
Verify(c) ==
    LET k == call[c]
    IN  /\ pc[c] = "verify"
        /\ \/ Works /\ Alive(k.new) /\ Confirmed(c, StaleOf(k))
           \/ Works /\ ~Alive(k.new) /\ FallBack(c)
           \/ /\ Fails
              /\ \/ k.seen # {} /\ FallBack(c)
                 \/ k.seen = {} /\ Answer(c, k.new, "UNCERTAIN")
        /\ UNCHANGED <<row, stops, last, newest, held, booted, asked, moves, crashes>>

(* One cancel, which may fail.                                              *)
Cancel(c) ==
    /\ pc[c] = "cancel"
    /\ \E i \in call[c].stale :
          /\ Confirmed(c, call[c].stale \ {i})
          /\ \/ stops' = {s \in stops : s.id # i} /\ Works
             \/ UNCHANGED stops /\ Fails
    /\ UNCHANGED <<row, last, newest, held, booted, asked, moves, crashes>>

(* What the callers do with the answer: apply_protection_metadata, one write *)
(* of the whole metadata, and a fail-safe close where they ask for one.  The *)
(* bracket writes again when its take-profits are placed; the trailing stop  *)
(* writes again the metadata it parsed at its start, which is the dict just  *)
(* changed only when the ladder had already put a dict into the trade.       *)
Persist(c) ==
    LET k == call[c]
        shared == \/ k.job \in {"bracket", "ladder"}
                  \/ k.job = "trail" /\ held[c].parsed
        next == CASE k.job = "ladder" -> "held"
                  [] k.job = "trail" -> "again"
                  [] k.job = "bracket" /\ k.status = "VERIFIED" -> "again"
                  [] OTHER -> "idle"
    IN  /\ pc[c] = "persist"
        /\ Store([row EXCEPT !.id = k.id, !.verified = (k.status = "VERIFIED")])
        /\ held' = [held EXCEPT ![c] =
                      IF next = "idle" THEN NoRow
                      ELSE IF shared
                      THEN [@ EXCEPT !.id = k.id, !.verified = (k.status = "VERIFIED"),
                                     !.parsed = TRUE]
                      ELSE @]
        /\ asked' = (asked \/ (k.job = "bracket" /\ k.status # "VERIFIED")
                           \/ (k.job = "startup" /\ k.status = "MISSING"))
        /\ booted' = (booted \/ k.job = "startup")
        /\ Goto(c, next, NoCall)
        /\ UNCHANGED <<stops, last, newest, moves, crashes>>

Again(c) ==
    /\ pc[c] = "again"
    /\ Store([row EXCEPT !.id = held[c].id, !.verified = held[c].verified])
    /\ held' = [held EXCEPT ![c] = NoRow]
    /\ Goto(c, "idle", NoCall)
    /\ UNCHANGED <<stops, last, newest, booted, asked, moves, crashes>>
-----------------------------------------------------------------------------
Bracket ==
    /\ pc["bracket"] = "held"
    /\ Ensure("bracket", "bracket", held["bracket"].sl, 0)
    /\ held' = [held EXCEPT !["bracket"] = NoRow]
    /\ UNCHANGED <<row, stops, last, newest, booted, asked, moves, failures, crashes>>

(* A turn of a monitor, and the close worker's finalisation, start from a    *)
(* fresh row.                                                               *)
ReadRow(c) ==
    /\ pc[c] = "idle"
    /\ moves < MaxMoves
    /\ Goto(c, "held", NoCall)
    /\ held' = [held EXCEPT ![c] = [sl |-> row.sl, id |-> row.id,
                                    verified |-> row.verified, parsed |-> FALSE]]
    /\ UNCHANGED <<row, stops, last, newest, booted, asked, moves, failures, crashes>>

(* _advance_profit_stop_ladder: the next rung, written by itself.            *)
Ladder(m) ==
    /\ pc[m] = "held" /\ ~held[m].parsed
    /\ Move
    /\ \E p \in Levels :
          /\ p > held[m].sl
          /\ Store([row EXCEPT !.sl = p])
          /\ held' = [held EXCEPT ![m].sl = p]
          /\ Ensure(m, "ladder", p, held[m].id)
    /\ UNCHANGED <<stops, last, newest, booted, asked, crashes>>

(* _apply_trailing_stop: the stop and the metadata in one write; when only   *)
(* the best price rose, the metadata alone.                                 *)
Trail(m) ==
    /\ pc[m] = "held"
    /\ Move
    /\ \/ \E p \in Levels :
             /\ p > held[m].sl
             /\ Store([sl |-> p, id |-> held[m].id, verified |-> held[m].verified])
             /\ held' = [held EXCEPT ![m].sl = p]
             /\ Ensure(m, "trail", p, held[m].id)
       \/ Works /\ Goto(m, "again", NoCall) /\ UNCHANGED <<row, held>>
    /\ UNCHANGED <<stops, last, newest, booted, asked, crashes>>

(* A stop is hit whose close is not to be tried again yet.                   *)
Resync(m) ==
    /\ pc[m] = "held" /\ ~held[m].parsed
    /\ Move
    /\ Ensure(m, "plain", held[m].sl, held[m].id)
    /\ held' = [held EXCEPT ![m] = NoRow]
    /\ UNCHANGED <<row, stops, last, newest, booted, asked, failures, crashes>>

Leave(m) ==
    /\ pc[m] = "held"
    /\ held' = [held EXCEPT ![m] = NoRow]
    /\ Goto(m, "idle", NoCall)
    /\ UNCHANGED <<row, stops, last, newest, booted, asked, moves, failures, crashes>>

(* _finalize_take_profit: TP1 sets the stop to the entry, TP2 to TP1,        *)
(* whatever it was.                                                         *)
TakeProfit(w) ==
    /\ pc[w] = "held" /\ ~held[w].parsed
    /\ Move
    /\ \E p \in Targets :
          /\ Store([sl |-> p, id |-> held[w].id, verified |-> held[w].verified])
          /\ Ensure(w, "plain", p, held[w].id)
    /\ held' = [held EXCEPT ![w] = NoRow]
    /\ UNCHANGED <<stops, last, newest, booted, asked, crashes>>

(* restore_open_trade_protection: once after a start, then by the ops worker *)
(* every RECONCILIATION_INTERVAL_SECONDS.                                    *)
Restore ==
    /\ pc["ops"] = "idle"
    /\ Ensure("ops", IF booted THEN "plain" ELSE "startup", row.sl, row.id)
    /\ UNCHANGED <<row, stops, last, newest, held, booted, asked,
                   moves, failures, crashes>>

(* Main dies: row and exchange stay.                                        *)
Crash ==
    /\ crashes < MaxCrashes
    /\ crashes' = crashes + 1
    /\ booted' = FALSE
    /\ pc' = [c \in Callers |-> "idle"]
    /\ held' = [c \in Callers |-> NoRow]
    /\ call' = [c \in Callers |-> NoCall]
    /\ UNCHANGED <<row, stops, last, newest, asked, moves, failures>>
-----------------------------------------------------------------------------
EnsureStep(c) == List(c) \/ Place(c) \/ Verify(c) \/ Cancel(c) \/ Persist(c) \/ Again(c)
MonitorStep(m) == Ladder(m) \/ Trail(m) \/ Resync(m) \/ Leave(m)

Next ==
    \/ \E c \in Callers : EnsureStep(c)
    \/ \E c \in Monitors \cup Workers : ReadRow(c)
    \/ \E m \in Monitors : MonitorStep(m)
    \/ \E w \in Workers : TakeProfit(w)
    \/ Bracket
    \/ Restore
    \/ Crash

Spec == Init /\ [][Next]_vars

(* Threads run, and the ops worker restores again and again.                *)
Fairness ==
    /\ \A c \in Callers \ {"ops"} : WF_vars(EnsureStep(c))
    /\ WF_vars(EnsureStep("ops") \/ Restore)
FairSpec == Spec /\ Fairness
-----------------------------------------------------------------------------
(* Types; an order id is one the exchange has given.                         *)
Rows(n)  == [sl : Levels, id : 0 .. n, verified : BOOLEAN]
Holds(n) == [sl : Levels, id : 0 .. n, verified : BOOLEAN, parsed : BOOLEAN]
Calls(n) == [job : Jobs, want : Levels, old : 0 .. n, seen : SUBSET (1 .. n),
             new : 0 .. n, stale : SUBSET (1 .. n), id : 0 .. n, status : Statuses]

TypeOK ==
    /\ row \in Rows(last)
    /\ stops \subseteq [id : 1 .. last, price : Levels]
    /\ last \in Nat /\ newest \in 0 .. last
    /\ pc \in [Callers -> Labels]
    /\ held \in [Callers -> Holds(last)]
    /\ call \in [Callers -> Calls(last)]
    /\ booted \in BOOLEAN /\ asked \in BOOLEAN
    /\ moves \in 0 .. MaxMoves
    /\ failures \in 0 .. MaxFailures
    /\ crashes \in 0 .. MaxCrashes

(* Once the position has had a stop on the exchange it is never without one, *)
(* however the callers' listing, placing and cancelling interleave, fail or  *)
(* are cut off by a crash ("no unprotected gap", exchange.py:4214).          *)
NeverBare == newest # 0 => stops # {}

(* A stop is cancelled only while a newer one is open: of two callers that   *)
(* replace stops at the same time, neither cancels the other's later order.  *)
ReplacedByNewer ==
    [][\A s \in stops \ stops' : \E t \in stops' : t.id > s.id]_vars

(* When stops move no more, the exchange has in the end a stop at the row's  *)
(* level, and the row names it as verified, whatever stale writes and failed *)
(* calls came before -- provided the level is one that is not refused.       *)
RecordCatchesUp ==
    <>[](row.sl < Entry =>
            /\ [id |-> row.id, price |-> row.sl] \in stops
            /\ row.verified)
=============================================================================
