------------------------- MODULE NativeStops_proofs -------------------------
(***************************************************************************)
(* For any numbers of monitors, workers, levels, moves, failures and        *)
(* crashes: the types of NativeStops, that a position which had a stop on   *)
(* the exchange is never without one, and that a stop is cancelled only     *)
(* while a newer one is open.                                              *)
(*                                                                         *)
(* The argument is about the order of ids.  What a caller cancels it has    *)
(* seen, or read from the row, before it placed its own stop, so all of it  *)
(* is older; and it cancels only after its own stop was found open.  The    *)
(* newest stop of all is therefore cancelled by nobody.                     *)
(***************************************************************************)
EXTENDS NativeStops, TLAPS

USE NativeStopsAssumption

LEMMA LevelsType == 1 \in Levels /\ FirstStop \in Levels
  BY DEF Levels

(* The locals of a caller that has none.                                    *)
LEMMA NothingType ==
  ASSUME NEW n \in Nat
  PROVE  NoCall \in Calls(n) /\ NoRow \in Holds(n)
  BY LevelsType DEF NoCall, NoRow, Calls, Holds, Jobs, Statuses

(* Ids stay ids when the exchange gives another.                            *)
LEMMA IdsGrow ==
  ASSUME NEW n \in Nat
  PROVE  /\ Rows(n) \subseteq Rows(n + 1)
         /\ Holds(n) \subseteq Holds(n + 1)
         /\ Calls(n) \subseteq Calls(n + 1)
<1>1. 0 .. n \subseteq 0 .. (n + 1) /\ SUBSET (1 .. n) \subseteq SUBSET (1 .. (n + 1))
  OBVIOUS
<1>2. Rows(n) \subseteq Rows(n + 1)
  BY <1>1 DEF Rows
<1>3. Holds(n) \subseteq Holds(n + 1)
  BY <1>1 DEF Holds
<1>4. Calls(n) \subseteq Calls(n + 1)
  BY <1>1 DEF Calls
<1>5. QED BY <1>2, <1>3, <1>4

(* One caller goes on.                                                      *)
LEMMA GotoType ==
  ASSUME NEW n \in Nat, pc \in [Callers -> Labels], call \in [Callers -> Calls(n)],
         NEW c \in Callers, NEW label \in Labels, NEW k \in Calls(n), Goto(c, label, k)
  PROVE  pc' \in [Callers -> Labels] /\ call' \in [Callers -> Calls(n)]
  BY DEF Goto

LEMMA AnswerType ==
  ASSUME NEW n \in Nat, pc \in [Callers -> Labels], call \in [Callers -> Calls(n)],
         NEW c \in Callers, NEW id \in 0 .. n, NEW status \in Statuses,
         Answer(c, id, status)
  PROVE  pc' \in [Callers -> Labels] /\ call' \in [Callers -> Calls(n)]
<1> DEFINE k == [NoCall EXCEPT !.job = call[c].job, !.id = id, !.status = status]
<1>1. k \in Calls(n)
  BY NothingType DEF Calls, NoCall
<1>2. Goto(c, "persist", k) /\ "persist" \in Labels
  BY DEF Answer, Labels
<1> HIDE DEF k
<1>3. QED BY <1>1, <1>2, GotoType

LEMMA FallBackType ==
  ASSUME NEW n \in Nat, pc \in [Callers -> Labels], call \in [Callers -> Calls(n)],
         NEW c \in Callers, FallBack(c)
  PROVE  pc' \in [Callers -> Labels] /\ call' \in [Callers -> Calls(n)]
<1>1. CASE \E i \in call[c].seen : Answer(c, i, "UNCERTAIN")
  <2>1. PICK i \in call[c].seen : Answer(c, i, "UNCERTAIN")
    BY <1>1
  <2>2. i \in 0 .. n /\ "UNCERTAIN" \in Statuses
    BY DEF Calls, Statuses
  <2>3. QED BY <2>1, <2>2, AnswerType
<1>2. CASE Answer(c, 0, "MISSING")
  BY <1>2, AnswerType DEF Statuses
<1>3. QED BY <1>1, <1>2 DEF FallBack

LEMMA ConfirmedType ==
  ASSUME NEW n \in Nat, pc \in [Callers -> Labels], call \in [Callers -> Calls(n)],
         NEW c \in Callers, NEW ids, Ids \subseteq 1 .. n, Confirmed(c, ids)
  PROVE  pc' \in [Callers -> Labels] /\ call' \in [Callers -> Calls(n)]
<1> DEFINE stale == ids \cap Ids
           k == [NoCall EXCEPT !.job = call[c].job, !.new = call[c].new, !.stale = stale]
<1>1. CASE Goto(c, "cancel", k)
  <2>1. stale \in SUBSET (1 .. n)
    OBVIOUS
  <2> HIDE DEF stale
  <2>2. k \in Calls(n)
    BY <2>1, NothingType DEF Calls, NoCall
  <2> HIDE DEF k
  <2>3. QED BY <1>1, <2>2, GotoType DEF Labels
<1>2. CASE Answer(c, call[c].new, "VERIFIED")
  <2>1. call[c].new \in 0 .. n /\ "VERIFIED" \in Statuses
    BY DEF Calls, Statuses
  <2>2. QED BY <1>2, <2>1, AnswerType
<1>3. QED BY <1>1, <1>2 DEF Confirmed

LEMMA EnsureType ==
  ASSUME NEW n \in Nat, pc \in [Callers -> Labels], call \in [Callers -> Calls(n)],
         NEW c \in Callers, NEW job \in Jobs, NEW want \in Levels, NEW old \in 0 .. n,
         Ensure(c, job, want, old)
  PROVE  pc' \in [Callers -> Labels] /\ call' \in [Callers -> Calls(n)]
<1> DEFINE k == [NoCall EXCEPT !.job = job, !.want = want, !.old = old]
           r == [NoCall EXCEPT !.job = job]
<1>1. k \in Calls(n) /\ r \in Calls(n)
  BY NothingType DEF Calls, NoCall
<1>2. Goto(c, "list", k) \/ Goto(c, "persist", r)
  BY DEF Ensure
<1> HIDE DEF k, r
<1>3. QED BY <1>1, <1>2, GotoType DEF Labels

(* The budgets and the row.                                                 *)
LEMMA BudgetType ==
  ASSUME failures \in 0 .. MaxFailures, Works \/ Fails
  PROVE  failures' \in 0 .. MaxFailures
  BY DEF Works, Fails

LEMMA StoreType ==
  ASSUME NEW n \in Nat, row \in Rows(n), failures \in 0 .. MaxFailures,
         NEW r \in Rows(n), Store(r)
  PROVE  row' \in Rows(n) /\ failures' \in 0 .. MaxFailures
  BY BudgetType DEF Store

LEMMA MoveType ==
  ASSUME moves \in 0 .. MaxMoves, Move
  PROVE  moves' \in 0 .. MaxMoves
  BY DEF Move

LEMMA IdsType ==
  ASSUME TypeOK
  PROVE  Ids \subseteq 1 .. last
  BY DEF TypeOK, Ids
-----------------------------------------------------------------------------
LEMMA ListType ==
  ASSUME TypeOK, NEW c \in Callers, List(c)
  PROVE  TypeOK'
<1>0. failures' \in 0 .. MaxFailures
  BY BudgetType DEF TypeOK, List
<1>1. CASE \E s \in stops : Answer(c, s.id, "VERIFIED")
  <2>1. PICK s \in stops : Answer(c, s.id, "VERIFIED")
    BY <1>1
  <2>2. s.id \in 0 .. last /\ "VERIFIED" \in Statuses
    BY DEF TypeOK, Statuses
  <2>3. pc' \in [Callers -> Labels] /\ call' \in [Callers -> Calls(last)]
    BY <2>1, <2>2, AnswerType DEF TypeOK
  <2>4. QED BY <1>0, <2>3 DEF TypeOK, List
<1>2. CASE Goto(c, "place", [call[c] EXCEPT !.seen = Ids])
  <2>1. [call[c] EXCEPT !.seen = Ids] \in Calls(last)
    BY IdsType DEF TypeOK, Calls
  <2>2. pc' \in [Callers -> Labels] /\ call' \in [Callers -> Calls(last)]
    BY <1>2, <2>1, GotoType DEF TypeOK, Labels
  <2>3. QED BY <1>0, <2>2 DEF TypeOK, List
<1>3. CASE Goto(c, "place", call[c])
  <2>1. pc' \in [Callers -> Labels] /\ call' \in [Callers -> Calls(last)]
    BY <1>3, GotoType DEF TypeOK, Labels
  <2>2. QED BY <1>0, <2>1 DEF TypeOK, List
<1>4. QED BY <1>1, <1>2, <1>3 DEF List

LEMMA PlaceType ==
  ASSUME TypeOK, NEW c \in Callers, Place(c)
  PROVE  TypeOK'
<1> DEFINE n == last + 1
           k == [call[c] EXCEPT !.new = last + 1]
<1>1. n \in Nat /\ last' = n /\ 0 .. last \subseteq 0 .. n /\ 1 .. last \subseteq 1 .. n
  BY DEF TypeOK, Place
<1>2. row \in Rows(n) /\ held \in [Callers -> Holds(n)] /\ call \in [Callers -> Calls(n)]
  BY IdsGrow DEF TypeOK
<1>3. stops' \subseteq [id : 1 .. n, price : Levels] /\ newest' \in 0 .. n
  <2>1. CASE Accepted(c)
    <3>1. [id |-> last + 1, price |-> Rounded(call[c].want)] \in [id : 1 .. n, price : Levels]
      BY DEF TypeOK, Calls, Rounded
    <3>2. stops \subseteq [id : 1 .. n, price : Levels]
      BY <1>1 DEF TypeOK
    <3>3. QED BY <1>1, <2>1, <3>1, <3>2 DEF Accepted
  <2>2. CASE UNCHANGED <<stops, newest>>
    BY <1>1, <2>2 DEF TypeOK
  <2>3. QED BY <2>1, <2>2 DEF Place
<1>4. pc' \in [Callers -> Labels] /\ call' \in [Callers -> Calls(n)]
  <2>1. CASE Goto(c, "verify", k)
    <3>1. k \in Calls(n)
      BY <1>1, <1>2 DEF Calls
    <3> HIDE DEF k, n
    <3>2. QED BY <1>1, <1>2, <2>1, <3>1, GotoType DEF TypeOK, Labels
  <2>2. CASE FallBack(c)
    BY <1>1, <1>2, <2>2, FallBackType DEF TypeOK
  <2>3. QED BY <2>1, <2>2 DEF Place
<1>5. failures' \in 0 .. MaxFailures
  BY BudgetType DEF TypeOK, Place
<1> HIDE DEF n, k
<1>6. QED BY <1>1, <1>2, <1>3, <1>4, <1>5 DEF TypeOK, Place

LEMMA VerifyType ==
  ASSUME TypeOK, NEW c \in Callers, Verify(c)
  PROVE  TypeOK'
<1>0. failures' \in 0 .. MaxFailures
  BY BudgetType DEF TypeOK, Verify
<1>1. pc' \in [Callers -> Labels] /\ call' \in [Callers -> Calls(last)]
  <2>1. CASE Confirmed(c, StaleOf(call[c]))
    BY <2>1, ConfirmedType, IdsType DEF TypeOK
  <2>2. CASE FallBack(c)
    BY <2>2, FallBackType DEF TypeOK
  <2>3. CASE Answer(c, call[c].new, "UNCERTAIN")
    <3>1. call[c].new \in 0 .. last /\ "UNCERTAIN" \in Statuses
      BY DEF TypeOK, Calls, Statuses
    <3>2. QED BY <2>3, <3>1, AnswerType DEF TypeOK
  <2>4. QED BY <2>1, <2>2, <2>3 DEF Verify
<1>2. QED BY <1>0, <1>1 DEF TypeOK, Verify

LEMMA CancelType ==
  ASSUME TypeOK, NEW c \in Callers, Cancel(c)
  PROVE  TypeOK'
<1>1. PICK i \in call[c].stale :
         /\ Confirmed(c, call[c].stale \ {i})
         /\ \/ stops' = {s \in stops : s.id # i} /\ Works
            \/ UNCHANGED stops /\ Fails
  BY DEF Cancel
<1>2. pc' \in [Callers -> Labels] /\ call' \in [Callers -> Calls(last)]
  BY <1>1, ConfirmedType, IdsType DEF TypeOK
<1>3. stops' \subseteq stops /\ failures' \in 0 .. MaxFailures
  BY <1>1, BudgetType DEF TypeOK
<1>4. QED BY <1>2, <1>3 DEF TypeOK, Cancel

LEMMA PersistType ==
  ASSUME TypeOK, NEW c \in Callers, Persist(c)
  PROVE  TypeOK'
<1> DEFINE k == call[c]
           r == [row EXCEPT !.id = k.id, !.verified = (k.status = "VERIFIED")]
<1>1. k \in Calls(last)
  BY DEF TypeOK
<1>2. r \in Rows(last)
  BY <1>1 DEF TypeOK, Rows, Calls
<1>3. row' \in Rows(last) /\ failures' \in 0 .. MaxFailures
  <2>1. Store(r)
    BY DEF Persist
  <2> HIDE DEF r
  <2>2. QED BY <1>2, <2>1, StoreType DEF TypeOK
<1>4. PICK next \in Labels, h \in Holds(last) :
         held' = [held EXCEPT ![c] = h] /\ Goto(c, next, NoCall)
  <2> DEFINE next == CASE k.job = "ladder" -> "held"
                       [] k.job = "trail" -> "again"
                       [] k.job = "bracket" /\ k.status = "VERIFIED" -> "again"
                       [] OTHER -> "idle"
             shared == \/ k.job \in {"bracket", "ladder"}
                       \/ k.job = "trail" /\ held[c].parsed
             new == [held[c] EXCEPT !.id = k.id, !.verified = (k.status = "VERIFIED"),
                                    !.parsed = TRUE]
             h == IF next = "idle" THEN NoRow ELSE IF shared THEN new ELSE held[c]
  <2>1. next \in Labels
    BY DEF Labels
  <2>2. new \in Holds(last)
    BY <1>1 DEF TypeOK, Holds, Calls
  <2>3. NoRow \in Holds(last) /\ held[c] \in Holds(last)
    BY NothingType DEF TypeOK
  <2>4. held' = [held EXCEPT ![c] = h] /\ Goto(c, next, NoCall)
    BY DEF Persist
  <2> HIDE DEF next, shared, new
  <2>5. h \in Holds(last)
    BY <2>2, <2>3
  <2>6. QED BY <2>1, <2>4, <2>5
<1>5. pc' \in [Callers -> Labels] /\ call' \in [Callers -> Calls(last)]
  BY <1>4, GotoType, NothingType DEF TypeOK
<1>6. held' \in [Callers -> Holds(last)]
  BY <1>4 DEF TypeOK
<1>7. asked' \in BOOLEAN /\ booted' \in BOOLEAN
  BY DEF TypeOK, Persist
<1>8. UNCHANGED <<stops, last, newest, moves, crashes>>
  BY DEF Persist
<1>9. QED BY <1>3, <1>5, <1>6, <1>7, <1>8 DEF TypeOK

LEMMA AgainType ==
  ASSUME TypeOK, NEW c \in Callers, Again(c)
  PROVE  TypeOK'
<1> DEFINE r == [row EXCEPT !.id = held[c].id, !.verified = held[c].verified]
<1>1. r \in Rows(last)
  BY DEF TypeOK, Rows, Holds
<1>2. Store(r)
  BY DEF Again
<1> HIDE DEF r
<1>3. row' \in Rows(last) /\ failures' \in 0 .. MaxFailures
  BY <1>1, <1>2, StoreType DEF TypeOK
<1>4. pc' \in [Callers -> Labels] /\ call' \in [Callers -> Calls(last)]
  BY GotoType, NothingType DEF TypeOK, Again, Labels
<1>5. held' \in [Callers -> Holds(last)]
  BY NothingType DEF TypeOK, Again
<1>6. QED BY <1>3, <1>4, <1>5 DEF TypeOK, Again

LEMMA BracketType ==
  ASSUME TypeOK, Bracket
  PROVE  TypeOK'
<1>1. "bracket" \in Callers /\ held["bracket"].sl \in Levels
  BY DEF TypeOK, Callers, Holds
<1>2. pc' \in [Callers -> Labels] /\ call' \in [Callers -> Calls(last)]
  BY <1>1, EnsureType DEF TypeOK, Bracket, Jobs
<1>3. held' \in [Callers -> Holds(last)]
  BY NothingType DEF TypeOK, Bracket
<1>4. QED BY <1>2, <1>3 DEF TypeOK, Bracket

LEMMA ReadRowType ==
  ASSUME TypeOK, NEW c \in Callers, ReadRow(c)
  PROVE  TypeOK'
<1> DEFINE h == [sl |-> row.sl, id |-> row.id, verified |-> row.verified, parsed |-> FALSE]
<1>1. h \in Holds(last)
  BY DEF TypeOK, Rows, Holds
<1>2. held' = [held EXCEPT ![c] = h] /\ Goto(c, "held", NoCall)
  BY DEF ReadRow
<1> HIDE DEF h
<1>3. held' \in [Callers -> Holds(last)]
  BY <1>1, <1>2 DEF TypeOK
<1>4. pc' \in [Callers -> Labels] /\ call' \in [Callers -> Calls(last)]
  BY <1>2, GotoType, NothingType DEF TypeOK, Labels
<1>5. QED BY <1>3, <1>4 DEF TypeOK, ReadRow

LEMMA LadderType ==
  ASSUME TypeOK, NEW m \in Monitors, Ladder(m)
  PROVE  TypeOK'
<1>0. m \in Callers
  BY DEF Callers
<1>1. PICK p \in Levels : /\ Store([row EXCEPT !.sl = p])
                          /\ held' = [held EXCEPT ![m].sl = p]
                          /\ Ensure(m, "ladder", p, held[m].id)
  BY DEF Ladder
<1>2. row' \in Rows(last) /\ failures' \in 0 .. MaxFailures
  <2>1. [row EXCEPT !.sl = p] \in Rows(last)
    BY DEF TypeOK, Rows
  <2>2. QED BY <1>1, <2>1, StoreType DEF TypeOK
<1>3. held' \in [Callers -> Holds(last)]
  <2>1. [held[m] EXCEPT !.sl = p] \in Holds(last)
    BY <1>0 DEF TypeOK, Holds
  <2>2. held' = [held EXCEPT ![m] = [held[m] EXCEPT !.sl = p]]
    BY <1>0, <1>1 DEF TypeOK
  <2>3. QED BY <2>1, <2>2 DEF TypeOK
<1>4. held[m].id \in 0 .. last
  BY <1>0 DEF TypeOK, Holds
<1>5. pc' \in [Callers -> Labels] /\ call' \in [Callers -> Calls(last)]
  BY <1>0, <1>1, <1>4, EnsureType DEF TypeOK, Jobs
<1>6. moves' \in 0 .. MaxMoves
  BY MoveType DEF TypeOK, Ladder
<1>7. QED BY <1>2, <1>3, <1>5, <1>6 DEF TypeOK, Ladder

LEMMA TrailType ==
  ASSUME TypeOK, NEW m \in Monitors, Trail(m)
  PROVE  TypeOK'
<1>0. m \in Callers /\ held[m] \in Holds(last)
  BY DEF TypeOK, Callers
<1>1. moves' \in 0 .. MaxMoves
  BY MoveType DEF TypeOK, Trail
<1>2. CASE \E p \in Levels :
             /\ Store([sl |-> p, id |-> held[m].id, verified |-> held[m].verified])
             /\ held' = [held EXCEPT ![m].sl = p]
             /\ Ensure(m, "trail", p, held[m].id)
  <2>1. PICK p \in Levels :
             /\ Store([sl |-> p, id |-> held[m].id, verified |-> held[m].verified])
             /\ held' = [held EXCEPT ![m].sl = p]
             /\ Ensure(m, "trail", p, held[m].id)
    BY <1>2
  <2>2. row' \in Rows(last) /\ failures' \in 0 .. MaxFailures
    <3>1. [sl |-> p, id |-> held[m].id, verified |-> held[m].verified] \in Rows(last)
      BY <1>0 DEF Rows, Holds
    <3>2. QED BY <2>1, <3>1, StoreType DEF TypeOK
  <2>3. held' \in [Callers -> Holds(last)]
    <3>1. [held[m] EXCEPT !.sl = p] \in Holds(last)
      BY <1>0 DEF Holds
    <3>2. held' = [held EXCEPT ![m] = [held[m] EXCEPT !.sl = p]]
      BY <1>0, <2>1 DEF TypeOK
    <3>3. QED BY <3>1, <3>2 DEF TypeOK
  <2>4. held[m].id \in 0 .. last
    BY <1>0 DEF Holds
  <2>5. pc' \in [Callers -> Labels] /\ call' \in [Callers -> Calls(last)]
    BY <1>0, <2>1, <2>4, EnsureType DEF TypeOK, Jobs
  <2>6. QED BY <1>1, <2>2, <2>3, <2>5 DEF TypeOK, Trail
<1>3. CASE Works /\ Goto(m, "again", NoCall) /\ UNCHANGED <<row, held>>
  <2>1. pc' \in [Callers -> Labels] /\ call' \in [Callers -> Calls(last)]
    BY <1>0, <1>3, GotoType, NothingType DEF TypeOK, Labels
  <2>2. failures' \in 0 .. MaxFailures
    BY <1>3, BudgetType DEF TypeOK
  <2>3. QED BY <1>1, <1>3, <2>1, <2>2 DEF TypeOK, Trail
<1>4. QED BY <1>2, <1>3 DEF Trail

LEMMA ResyncType ==
  ASSUME TypeOK, NEW m \in Monitors, Resync(m)
  PROVE  TypeOK'
<1>1. m \in Callers /\ held[m].sl \in Levels /\ held[m].id \in 0 .. last
  BY DEF TypeOK, Callers, Holds
<1>2. pc' \in [Callers -> Labels] /\ call' \in [Callers -> Calls(last)]
  BY <1>1, EnsureType DEF TypeOK, Resync, Jobs
<1>3. held' \in [Callers -> Holds(last)]
  BY NothingType DEF TypeOK, Resync
<1>4. moves' \in 0 .. MaxMoves
  BY MoveType DEF TypeOK, Resync
<1>5. QED BY <1>2, <1>3, <1>4 DEF TypeOK, Resync

LEMMA LeaveType ==
  ASSUME TypeOK, NEW m \in Monitors, Leave(m)
  PROVE  TypeOK'
<1>1. pc' \in [Callers -> Labels] /\ call' \in [Callers -> Calls(last)]
  BY GotoType, NothingType DEF TypeOK, Leave, Labels, Callers
<1>2. held' \in [Callers -> Holds(last)]
  BY NothingType DEF TypeOK, Leave
<1>3. QED BY <1>1, <1>2 DEF TypeOK, Leave

LEMMA TakeProfitType ==
  ASSUME TypeOK, NEW w \in Workers, TakeProfit(w)
  PROVE  TypeOK'
<1>0. w \in Callers /\ held[w] \in Holds(last)
  BY DEF TypeOK, Callers
<1>1. PICK p \in Targets :
          /\ Store([sl |-> p, id |-> held[w].id, verified |-> held[w].verified])
          /\ Ensure(w, "plain", p, held[w].id)
  BY DEF TakeProfit
<1>2. p \in Levels /\ held[w].id \in 0 .. last
  BY <1>0 DEF Holds
<1>3. row' \in Rows(last) /\ failures' \in 0 .. MaxFailures
  <2>1. [sl |-> p, id |-> held[w].id, verified |-> held[w].verified] \in Rows(last)
    BY <1>0, <1>2 DEF Rows, Holds
  <2>2. QED BY <1>1, <2>1, StoreType DEF TypeOK
<1>4. pc' \in [Callers -> Labels] /\ call' \in [Callers -> Calls(last)]
  BY <1>0, <1>1, <1>2, EnsureType DEF TypeOK, Jobs
<1>5. held' \in [Callers -> Holds(last)]
  BY NothingType DEF TypeOK, TakeProfit
<1>6. moves' \in 0 .. MaxMoves
  BY MoveType DEF TypeOK, TakeProfit
<1>7. QED BY <1>3, <1>4, <1>5, <1>6 DEF TypeOK, TakeProfit

LEMMA RestoreType ==
  ASSUME TypeOK, Restore
  PROVE  TypeOK'
<1>1. "ops" \in Callers /\ row.sl \in Levels /\ row.id \in 0 .. last
  BY DEF TypeOK, Callers, Rows
<1>2. PICK job \in Jobs : Ensure("ops", job, row.sl, row.id)
  BY DEF Restore, Jobs
<1>3. pc' \in [Callers -> Labels] /\ call' \in [Callers -> Calls(last)]
  BY <1>1, <1>2, EnsureType DEF TypeOK
<1>4. QED BY <1>3 DEF TypeOK, Restore

LEMMA CrashType ==
  ASSUME TypeOK, Crash
  PROVE  TypeOK'
<1>1. pc' \in [Callers -> Labels]
  BY DEF Crash, Labels
<1>2. call' \in [Callers -> Calls(last)] /\ held' \in [Callers -> Holds(last)]
  BY NothingType DEF TypeOK, Crash
<1>3. booted' \in BOOLEAN
  BY DEF Crash
<1>4. crashes' \in 0 .. MaxCrashes
  <2>1. crashes < MaxCrashes /\ crashes' = crashes + 1
    BY DEF Crash
  <2>2. crashes \in 0 .. MaxCrashes /\ MaxCrashes \in Nat
    BY NativeStopsAssumption DEF TypeOK
  <2>3. QED BY <2>1, <2>2
<1>5. UNCHANGED <<row, stops, last, newest, asked, moves, failures>>
  BY DEF Crash
<1>6. QED BY <1>1, <1>2, <1>3, <1>4, <1>5 DEF TypeOK
-----------------------------------------------------------------------------
LEMMA InitType == Init => TypeOK
<1> SUFFICES ASSUME Init PROVE TypeOK
  OBVIOUS
<1>1. row \in Rows(last) /\ stops \subseteq [id : 1 .. last, price : Levels]
  BY LevelsType DEF Init, Rows
<1>2. pc \in [Callers -> Labels]
  BY DEF Init, Labels
<1>3. NoCall \in Calls(0) /\ NoRow \in Holds(0) /\ [NoRow EXCEPT !.sl = FirstStop] \in Holds(0)
  BY NothingType, LevelsType DEF Holds
<1>4. held \in [Callers -> Holds(0)] /\ call \in [Callers -> Calls(0)]
  BY <1>3 DEF Init
<1>5. last = 0 /\ newest = 0 /\ booted \in BOOLEAN /\ asked \in BOOLEAN
  BY DEF Init
<1>6. /\ moves \in 0 .. MaxMoves
      /\ failures \in 0 .. MaxFailures
      /\ crashes \in 0 .. MaxCrashes
  BY DEF Init
<1>7. QED BY <1>1, <1>2, <1>4, <1>5, <1>6 DEF TypeOK

LEMMA StepType == TypeOK /\ [Next]_vars => TypeOK'
<1> SUFFICES ASSUME TypeOK, [Next]_vars PROVE TypeOK'
  OBVIOUS
<1>1. CASE \E c \in Callers : EnsureStep(c)
  BY <1>1, ListType, PlaceType, VerifyType, CancelType, PersistType, AgainType
     DEF EnsureStep
<1>2. CASE \E c \in Monitors \cup Workers : ReadRow(c)
  BY <1>2, ReadRowType DEF Callers
<1>3. CASE \E m \in Monitors : MonitorStep(m)
  BY <1>3, LadderType, TrailType, ResyncType, LeaveType DEF MonitorStep
<1>4. CASE \E w \in Workers : TakeProfit(w)
  BY <1>4, TakeProfitType
<1>5. CASE Bracket \/ Restore \/ Crash
  BY <1>5, BracketType, RestoreType, CrashType
<1>6. CASE UNCHANGED vars
  BY <1>6 DEF vars, TypeOK
<1>7. QED BY <1>1, <1>2, <1>3, <1>4, <1>5, <1>6 DEF Next

(* Every reachable state is well typed: an order id anywhere is one the      *)
(* exchange has given.                                                      *)
THEOREM TypeCorrect == Spec => []TypeOK
  BY InitType, StepType, PTL DEF Spec
-----------------------------------------------------------------------------
(* The strengthening of NeverBare: the newest stop is open, and what a       *)
(* caller is going to cancel is older than its own stop, which is no newer.  *)
NewestOpen == newest # 0 => newest \in Ids
NoneNewer  == \A i \in Ids : i <= newest
OlderSeen(c) ==
    pc[c] = "verify" => \A i \in call[c].seen \cup {call[c].old} : i < call[c].new
OlderStale(c) ==
    pc[c] = "cancel" => /\ call[c].new <= newest
                        /\ \A i \in call[c].stale : i < call[c].new

OrderInv ==
    /\ TypeOK
    /\ NewestOpen
    /\ NoneNewer
    /\ \A c \in Callers : OlderSeen(c) /\ OlderStale(c)

(* What a step leaves alone.                                                *)
LEMMA GotoElsewhere ==
  ASSUME TypeOK, NEW c \in Callers, NEW label, NEW k, Goto(c, label, k)
  PROVE  /\ pc'[c] = label /\ call'[c] = k
         /\ \A d \in Callers \ {c} : pc'[d] = pc[d] /\ call'[d] = call[d]
  BY DEF TypeOK, Goto

LEMMA AnswerElsewhere ==
  ASSUME TypeOK, NEW c \in Callers, NEW id, NEW status, Answer(c, id, status)
  PROVE  /\ pc'[c] = "persist"
         /\ \A d \in Callers \ {c} : pc'[d] = pc[d] /\ call'[d] = call[d]
  BY GotoElsewhere DEF Answer

LEMMA FallBackElsewhere ==
  ASSUME TypeOK, NEW c \in Callers, FallBack(c)
  PROVE  /\ pc'[c] = "persist"
         /\ \A d \in Callers \ {c} : pc'[d] = pc[d] /\ call'[d] = call[d]
  BY AnswerElsewhere DEF FallBack

LEMMA EnsureElsewhere ==
  ASSUME TypeOK, NEW c \in Callers, NEW job, NEW want, NEW old, Ensure(c, job, want, old)
  PROVE  /\ pc'[c] \in {"list", "persist"}
         /\ \A d \in Callers \ {c} : pc'[d] = pc[d] /\ call'[d] = call[d]
<1> DEFINE k == [NoCall EXCEPT !.job = job, !.want = want, !.old = old]
           r == [NoCall EXCEPT !.job = job]
<1>1. Goto(c, "list", k) \/ Goto(c, "persist", r)
  BY DEF Ensure
<1> HIDE DEF k, r
<1>2. QED BY <1>1, GotoElsewhere

(* A caller goes on to a step at which OrderInv says nothing of it, and the  *)
(* exchange does not change.                                                *)
LEMMA QuietStep ==
  ASSUME OrderInv, TypeOK', UNCHANGED <<stops, newest>>,
         NEW c \in Callers, pc'[c] \notin {"verify", "cancel"},
         \A d \in Callers \ {c} : pc'[d] = pc[d] /\ call'[d] = call[d]
  PROVE  OrderInv'
<1>1. NewestOpen' /\ NoneNewer'
  BY DEF OrderInv, NewestOpen, NoneNewer, Ids
<1>2. \A d \in Callers : (OlderSeen(d) /\ OlderStale(d))'
  BY DEF OrderInv, OlderSeen, OlderStale
<1>3. QED BY <1>1, <1>2 DEF OrderInv

(* A caller that has confirmed its stop goes on to cancel what is older.     *)
LEMMA ConfirmedOrder ==
  ASSUME OrderInv, NEW c \in Callers, NEW ids, Confirmed(c, ids),
         call[c].new <= newest, \A i \in ids \cap Ids : i < call[c].new
  PROVE  /\ pc'[c] = "cancel" => /\ call'[c].new = call[c].new
                                 /\ call'[c].stale \subseteq ids \cap Ids
         /\ pc'[c] # "verify"
         /\ \A d \in Callers \ {c} : pc'[d] = pc[d] /\ call'[d] = call[d]
<1> DEFINE stale == ids \cap Ids
           k == [NoCall EXCEPT !.job = call[c].job, !.new = call[c].new, !.stale = stale]
<1>0. k.new = call[c].new /\ k.stale = stale
  BY DEF NoCall
<1>1. CASE Goto(c, "cancel", k)
  <2> HIDE DEF k
  <2>1. QED BY <1>0, <1>1, GotoElsewhere DEF OrderInv
<1>2. CASE Answer(c, call[c].new, "VERIFIED")
  BY <1>2, AnswerElsewhere DEF OrderInv
<1>3. QED BY <1>1, <1>2 DEF Confirmed
-----------------------------------------------------------------------------
LEMMA PlaceOrder ==
  ASSUME OrderInv, NEW c \in Callers, Place(c), TypeOK'
  PROVE  OrderInv'
<1>0. last \in Nat /\ newest \in 0 .. last /\ Ids \subseteq 1 .. last
  BY IdsType DEF OrderInv, TypeOK
<1>1. /\ NewestOpen' /\ NoneNewer'
      /\ newest <= newest'
  <2>1. CASE Accepted(c)
    <3> DEFINE r == [id |-> last + 1, price |-> Rounded(call[c].want)]
    <3>1. newest' = last + 1 /\ stops' = stops \cup {r} /\ r.id = last + 1
      BY <2>1 DEF Accepted
    <3> HIDE DEF r
    <3>2. Ids' = Ids \cup {last + 1}
      BY <3>1 DEF Ids
    <3>3. QED BY <1>0, <3>1, <3>2 DEF NewestOpen, NoneNewer
  <2>2. CASE UNCHANGED <<stops, newest>>
    BY <1>0, <2>2 DEF OrderInv, NewestOpen, NoneNewer, Ids
  <2>3. QED BY <2>1, <2>2 DEF Place
<1>2. \A d \in Callers \ {c} : pc'[d] = pc[d] /\ call'[d] = call[d]
  BY GotoElsewhere, FallBackElsewhere DEF OrderInv, Place
<1>3. OlderSeen(c)' /\ OlderStale(c)'
  <2>1. CASE Goto(c, "verify", [call[c] EXCEPT !.new = last + 1])
    <3>1. /\ call'[c] = [call[c] EXCEPT !.new = last + 1]
          /\ pc'[c] = "verify"
      BY <2>1, GotoElsewhere DEF OrderInv
    <3>2. call[c] \in Calls(last)
      BY DEF OrderInv, TypeOK
    <3>3. /\ call'[c].new = last + 1
          /\ call'[c].seen = call[c].seen
          /\ call'[c].old = call[c].old
      BY <3>1, <3>2 DEF Calls
    <3>4. call[c].seen \subseteq 1 .. last /\ call[c].old \in 0 .. last
      BY <3>2 DEF Calls
    <3>5. QED BY <1>0, <3>1, <3>3, <3>4 DEF OlderSeen, OlderStale
  <2>2. CASE FallBack(c)
    BY <2>2, FallBackElsewhere DEF OrderInv, OlderSeen, OlderStale
  <2>3. QED BY <2>1, <2>2 DEF Place
<1>4. \A d \in Callers \ {c} : (OlderSeen(d) /\ OlderStale(d))'
  <2> SUFFICES ASSUME NEW d \in Callers \ {c} PROVE (OlderSeen(d) /\ OlderStale(d))'
    OBVIOUS
  <2>1. OlderSeen(d) /\ OlderStale(d) /\ call[d].new \in Nat
    BY <1>0 DEF OrderInv, TypeOK, Calls
  <2>2. newest' \in Nat
    BY DEF TypeOK
  <2>3. QED BY <1>0, <1>1, <1>2, <2>1, <2>2 DEF OlderSeen, OlderStale
<1>5. QED BY <1>1, <1>3, <1>4 DEF OrderInv

LEMMA VerifyOrder ==
  ASSUME OrderInv, NEW c \in Callers, Verify(c), TypeOK'
  PROVE  OrderInv'
<1> DEFINE k == call[c]
<1>0. UNCHANGED <<stops, newest>> /\ pc[c] = "verify"
  BY DEF Verify
<1>1. CASE Alive(k.new) /\ Confirmed(c, StaleOf(k))
  <2>1. k.new <= newest
    BY <1>1 DEF OrderInv, NoneNewer, Alive
  <2>2. \A i \in StaleOf(k) : i < k.new
    BY <1>0 DEF OrderInv, OlderSeen, StaleOf
  <2>3. /\ pc'[c] = "cancel" => /\ call'[c].new = k.new
                                /\ call'[c].stale \subseteq StaleOf(k)
        /\ pc'[c] # "verify"
        /\ \A d \in Callers \ {c} : pc'[d] = pc[d] /\ call'[d] = call[d]
    BY <1>1, <2>1, <2>2, ConfirmedOrder
  <2>4. OlderSeen(c)' /\ OlderStale(c)'
    BY <1>0, <2>1, <2>2, <2>3 DEF OlderSeen, OlderStale
  <2>5. \A d \in Callers \ {c} : (OlderSeen(d) /\ OlderStale(d))'
    BY <1>0, <2>3 DEF OrderInv, OlderSeen, OlderStale
  <2>6. NewestOpen' /\ NoneNewer'
    BY <1>0 DEF OrderInv, NewestOpen, NoneNewer, Ids
  <2>7. QED BY <2>4, <2>5, <2>6 DEF OrderInv
<1>2. CASE FallBack(c)
  <2>1. /\ pc'[c] = "persist"
        /\ \A d \in Callers \ {c} : pc'[d] = pc[d] /\ call'[d] = call[d]
    BY <1>2, FallBackElsewhere DEF OrderInv
  <2>2. QED BY <1>0, <2>1, QuietStep
<1>3. CASE Answer(c, k.new, "UNCERTAIN")
  <2>1. /\ pc'[c] = "persist"
        /\ \A d \in Callers \ {c} : pc'[d] = pc[d] /\ call'[d] = call[d]
    BY <1>3, AnswerElsewhere DEF OrderInv
  <2>2. QED BY <1>0, <2>1, QuietStep
<1>4. QED BY <1>1, <1>2, <1>3 DEF Verify

(* Whatever a cancel does to the exchange, the newest stop is left.          *)
LEMMA CancelKeepsNewest ==
  ASSUME OrderInv, NEW c \in Callers, Cancel(c)
  PROVE  /\ Ids' \subseteq Ids
         /\ newest # 0 => newest \in Ids'
         /\ \A s \in stops \ stops' : s.id < newest
<1>1. PICK i \in call[c].stale :
         \/ stops' = {s \in stops : s.id # i}
         \/ UNCHANGED stops
  BY DEF Cancel
<1>2. i < call[c].new /\ call[c].new <= newest
  BY DEF OrderInv, OlderStale, Cancel
<1>3. i \in Nat /\ call[c].new \in Nat /\ newest \in Nat
  BY DEF OrderInv, TypeOK, Calls
<1>4. i < newest
  BY <1>2, <1>3
<1>5. QED BY <1>1, <1>3, <1>4 DEF OrderInv, NewestOpen, Ids

LEMMA CancelOrder ==
  ASSUME OrderInv, NEW c \in Callers, Cancel(c), TypeOK'
  PROVE  OrderInv'
<1>0. UNCHANGED newest /\ pc[c] = "cancel"
  BY DEF Cancel
<1>1. NewestOpen' /\ NoneNewer'
  BY <1>0, CancelKeepsNewest DEF OrderInv, NewestOpen, NoneNewer
<1>2. PICK i \in call[c].stale : Confirmed(c, call[c].stale \ {i})
  BY DEF Cancel
<1>3. call[c].new <= newest /\ \A j \in call[c].stale : j < call[c].new
  BY <1>0 DEF OrderInv, OlderStale
<1>4. /\ pc'[c] = "cancel" => /\ call'[c].new = call[c].new
                              /\ call'[c].stale \subseteq call[c].stale
      /\ pc'[c] # "verify"
      /\ \A d \in Callers \ {c} : pc'[d] = pc[d] /\ call'[d] = call[d]
  BY <1>2, <1>3, ConfirmedOrder
<1>5. OlderSeen(c)' /\ OlderStale(c)'
  BY <1>0, <1>3, <1>4 DEF OlderSeen, OlderStale
<1>6. \A d \in Callers \ {c} : (OlderSeen(d) /\ OlderStale(d))'
  BY <1>0, <1>4 DEF OrderInv, OlderSeen, OlderStale
<1>7. QED BY <1>1, <1>5, <1>6 DEF OrderInv

(* The steps that do not touch the exchange.                                *)
LEMMA ListOrder ==
  ASSUME OrderInv, NEW c \in Callers, List(c), TypeOK'
  PROVE  OrderInv'
<1>1. UNCHANGED <<stops, newest>>
  BY DEF List
<1>2. /\ pc'[c] \in {"persist", "place"}
      /\ \A d \in Callers \ {c} : pc'[d] = pc[d] /\ call'[d] = call[d]
  <2>1. CASE \E s \in stops : Answer(c, s.id, "VERIFIED")
    BY <2>1, AnswerElsewhere DEF OrderInv
  <2>2. CASE \E k : Goto(c, "place", k)
    BY <2>2, GotoElsewhere DEF OrderInv
  <2>3. QED BY <2>1, <2>2 DEF List
<1>3. QED BY <1>1, <1>2, QuietStep

LEMMA PersistOrder ==
  ASSUME OrderInv, NEW c \in Callers, Persist(c) \/ Again(c), TypeOK'
  PROVE  OrderInv'
<1>1. UNCHANGED <<stops, newest>>
  BY DEF Persist, Again
<1>2. PICK label \in {"held", "again", "idle"} : Goto(c, label, NoCall)
  BY DEF Persist, Again
<1>3. /\ pc'[c] = label
      /\ \A d \in Callers \ {c} : pc'[d] = pc[d] /\ call'[d] = call[d]
  BY <1>2, GotoElsewhere DEF OrderInv
<1>4. QED BY <1>1, <1>3, QuietStep

LEMMA ThreadOrder ==
  ASSUME OrderInv, NEW c \in Callers, TypeOK', UNCHANGED <<stops, newest>>,
         \/ \E job, want, old : Ensure(c, job, want, old)
         \/ \E label \in {"held", "again", "idle"} : Goto(c, label, NoCall)
  PROVE  OrderInv'
<1>1. CASE \E job, want, old : Ensure(c, job, want, old)
  <2>1. /\ pc'[c] \in {"list", "persist"}
        /\ \A d \in Callers \ {c} : pc'[d] = pc[d] /\ call'[d] = call[d]
    BY <1>1, EnsureElsewhere DEF OrderInv
  <2>2. QED BY <2>1, QuietStep
<1>2. CASE \E label \in {"held", "again", "idle"} : Goto(c, label, NoCall)
  <2>1. /\ pc'[c] \in {"held", "again", "idle"}
        /\ \A d \in Callers \ {c} : pc'[d] = pc[d] /\ call'[d] = call[d]
    BY <1>2, GotoElsewhere DEF OrderInv
  <2>2. QED BY <2>1, QuietStep
<1>3. QED BY <1>1, <1>2

LEMMA CrashOrder ==
  ASSUME OrderInv, Crash, TypeOK'
  PROVE  OrderInv'
<1>1. NewestOpen' /\ NoneNewer'
  BY DEF OrderInv, Crash, NewestOpen, NoneNewer, Ids
<1>2. \A c \in Callers : pc'[c] = "idle"
  BY DEF Crash
<1>3. QED BY <1>1, <1>2 DEF OrderInv, OlderSeen, OlderStale
-----------------------------------------------------------------------------
LEMMA InitOrder == Init => OrderInv
<1> SUFFICES ASSUME Init PROVE OrderInv
  OBVIOUS
<1>1. NewestOpen /\ NoneNewer
  BY DEF Init, NewestOpen, NoneNewer, Ids
<1>2. \A c \in Callers : pc[c] \in {"held", "idle"}
  BY DEF Init
<1>3. QED BY <1>1, <1>2, InitType DEF OrderInv, OlderSeen, OlderStale

LEMMA StepOrder == OrderInv /\ [Next]_vars => OrderInv'
<1> SUFFICES ASSUME OrderInv, [Next]_vars PROVE OrderInv'
  OBVIOUS
<1>0. TypeOK'
  BY StepType DEF OrderInv
<1>1. CASE \E c \in Callers : EnsureStep(c)
  BY <1>0, <1>1, ListOrder, PlaceOrder, VerifyOrder, CancelOrder, PersistOrder
     DEF EnsureStep
<1>2. CASE \E c \in Monitors \cup Workers : ReadRow(c)
  <2>1. PICK c \in Callers : ReadRow(c)
    BY <1>2 DEF Callers
  <2>2. QED BY <1>0, <2>1, ThreadOrder DEF ReadRow
<1>3. CASE \E m \in Monitors : MonitorStep(m)
  <2>1. PICK m \in Monitors : MonitorStep(m)
    BY <1>3
  <2>2. m \in Callers
    BY DEF Callers
  <2>3. CASE Ladder(m)
    BY <1>0, <2>2, <2>3, ThreadOrder DEF Ladder
  <2>4. CASE Trail(m)
    BY <1>0, <2>2, <2>4, ThreadOrder DEF Trail
  <2>5. CASE Resync(m)
    BY <1>0, <2>2, <2>5, ThreadOrder DEF Resync
  <2>6. CASE Leave(m)
    BY <1>0, <2>2, <2>6, ThreadOrder DEF Leave
  <2>7. QED BY <2>1, <2>3, <2>4, <2>5, <2>6 DEF MonitorStep
<1>4. CASE \E w \in Workers : TakeProfit(w)
  <2>1. PICK w \in Callers : TakeProfit(w)
    BY <1>4 DEF Callers
  <2>2. QED BY <1>0, <2>1, ThreadOrder DEF TakeProfit
<1>5. CASE Bracket
  <2>1. "bracket" \in Callers
    BY DEF Callers
  <2>2. QED BY <1>0, <1>5, <2>1, ThreadOrder DEF Bracket
<1>6. CASE Restore
  <2>1. "ops" \in Callers
    BY DEF Callers
  <2>2. PICK job : Ensure("ops", job, row.sl, row.id)
    BY <1>6 DEF Restore
  <2>3. UNCHANGED <<stops, newest>>
    BY <1>6 DEF Restore
  <2>4. QED BY <1>0, <2>1, <2>2, <2>3, ThreadOrder
<1>7. CASE Crash
  BY <1>0, <1>7, CrashOrder
<1>8. CASE UNCHANGED vars
  BY <1>8 DEF vars, OrderInv, TypeOK, NewestOpen, NoneNewer, OlderSeen, OlderStale, Ids
<1>9. QED BY <1>1, <1>2, <1>3, <1>4, <1>5, <1>6, <1>7, <1>8 DEF Next

(* Once the position has had a stop on the exchange it is never without one. *)
THEOREM NeverBareCorrect == Spec => []NeverBare
<1>1. OrderInv => NeverBare
  BY DEF OrderInv, NewestOpen, NeverBare, Ids
<1>2. QED BY <1>1, InitOrder, StepOrder, PTL DEF Spec

(* Only a cancel takes a stop away, and it leaves the newest.                *)
LEMMA StepKeepsNewer ==
  ASSUME OrderInv, [Next]_vars
  PROVE  \A s \in stops \ stops' : \E t \in stops' : t.id > s.id
<1>1. CASE \E c \in Callers : Cancel(c)
  <2>1. PICK c \in Callers : Cancel(c)
    BY <1>1
  <2> SUFFICES ASSUME NEW s \in stops \ stops'
               PROVE  \E t \in stops' : t.id > s.id
    OBVIOUS
  <2>2. s.id < newest /\ s.id \in Nat \ {0} /\ newest \in Nat
    BY <2>1, CancelKeepsNewest DEF OrderInv, TypeOK
  <2>3. newest \in Ids'
    BY <2>1, <2>2, CancelKeepsNewest
  <2>4. PICK t \in stops' : t.id = newest
    BY <2>3 DEF Ids
  <2>5. QED BY <2>2, <2>4
<1>2. CASE ~ \E c \in Callers : Cancel(c)
  <2>1. stops \subseteq stops'
    BY <1>2 DEF Next, EnsureStep, MonitorStep, List, Place, Accepted, Verify, Persist,
       Again, ReadRow, Ladder, Trail, Resync, Leave, TakeProfit, Bracket, Restore,
       Crash, vars
  <2>2. QED BY <2>1
<1>3. QED BY <1>1, <1>2

(* A stop is cancelled only while a newer one is open.                       *)
THEOREM ReplacedByNewerCorrect == Spec => ReplacedByNewer
<1>1. OrderInv /\ [Next]_vars =>
        [\A s \in stops \ stops' : \E t \in stops' : t.id > s.id]_vars
  BY StepKeepsNewer
<1>2. QED BY <1>1, InitOrder, StepOrder, PTL DEF Spec, ReplacedByNewer
=============================================================================
