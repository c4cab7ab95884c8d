---------------------------- MODULE Trades_proofs ----------------------------
(* An open trade: that an add is executed once and not forgotten, and what    *)
(* is known of a position that is closed as gone.                           *)
EXTENDS MCTrades, TLAPS

USE DEF R, Step
-----------------------------------------------------------------------------
(******************************** The adds ********************************)

LEMMA MaxOfTwo ==
    ASSUME NEW a \in Int, NEW b \in Int
    PROVE  Max({a, b}) \in {a, b} /\ Max({a, b}) >= a /\ Max({a, b}) >= b
<1>1. \E x \in {a, b} : \A y \in {a, b} : x >= y
  <2>1. CASE a >= b BY <2>1
  <2>2. CASE b >= a BY <2>2
  <2> QED BY <2>1, <2>2
<1> QED BY <1>1 DEF Max

LEMMA MinOfTwo ==
    ASSUME NEW a \in Int, NEW b \in Int
    PROVE  Min({a, b}) \in {a, b} /\ Min({a, b}) <= a /\ Min({a, b}) <= b
<1>1. \E x \in {a, b} : \A y \in {a, b} : x <= y
  <2>1. CASE a <= b BY <2>1
  <2>2. CASE b <= a BY <2>2
  <2> QED BY <2>1, <2>2
<1> QED BY <1>1 DEF Min

LEMMA StepsAreStages == Steps \subseteq Stages /\ \A s \in Steps : s - 1 \in Stages /\ s \in Int
BY DcaAddsAssumption DEF Steps, Stages

(* The stage of the row, and what one thread may claim after it.            *)
LEMMA StageType ==
    ASSUME AddsTypeOK
    PROVE  StageOf \in Stages /\ (HasNext => StageOf + 1 \in Steps)
<1>1. col \in Int /\ meta.stage \in Int /\ col \in Stages /\ meta.stage \in Stages
  BY DEF AddsTypeOK, Metas, Stages
<1>2. StageOf \in Stages
  BY <1>1, MaxOfTwo DEF StageOf
<1> QED BY <1>2, DcaAddsAssumption DEF HasNext, Stages, Steps

LEMMA AddsTypeInit == AddsInit => AddsTypeOK
<1> SUFFICES ASSUME AddsInit PROVE AddsTypeOK
  OBVIOUS
<1>1. Fresh \in Metas /\ NoLocals \in Locals
  BY DEF Fresh, NoLocals, Metas, Locals, Stages
<1>2. /\ sent \in [Steps -> 0 .. MaxOrders] /\ executed \in [Steps -> 0 .. MaxOrders]
      /\ booked \in [Steps -> 0 .. 2] /\ crashes \in 0 .. MaxCrashes
  BY DcaAddsAssumption DEF AddsInit
<1>3. /\ pc \in [Threads -> MonitorLabels \cup ReconcilerLabels]
      /\ \A t \in Threads : pc[t] = "idle"
  BY DEF AddsInit, MonitorLabels
<1>4. loc \in [Threads -> Locals] /\ col \in Stages /\ meta \in Metas
  BY <1>1 DEF AddsInit, Stages
<1>5. \A m \in Monitors : pc[m] \in MonitorLabels
  BY <1>3 DEF Threads, MonitorLabels
<1>6. pc[R] \in ReconcilerLabels
  BY <1>3 DEF Threads, ReconcilerLabels
<1> QED BY <1>2, <1>3, <1>4, <1>5, <1>6 DEF AddsInit, AddsTypeOK

(* Where a thread may be and what it carries there.                         *)
Labelled(t) == IF t = R THEN ReconcilerLabels ELSE MonitorLabels
Carrying(t, label, l) ==
    /\ label \in Labelled(t)
    /\ l \in Locals
    /\ label \notin {"idle", "look", "trail"} => l.step \in Steps
ThreadTypes ==
    /\ pc \in [Threads -> MonitorLabels \cup ReconcilerLabels]
    /\ \A m \in Monitors : pc[m] \in MonitorLabels
    /\ pc[R] \in ReconcilerLabels
    /\ loc \in [Threads -> Locals]
    /\ \A t \in Threads : pc[t] \notin {"idle", "look", "trail"} => Step(t) \in Steps

LEMMA ThreadMoves ==
    ASSUME ThreadTypes, NEW t \in Threads, NEW label, NEW l, Carrying(t, label, l),
           pc' = [pc EXCEPT ![t] = label], loc' = [loc EXCEPT ![t] = l]
    PROVE  ThreadTypes'
<1>1. R \in Threads /\ \A m \in Monitors : m \in Threads /\ m # R
  BY DcaAddsAssumption DEF Threads
<1>2. label \in MonitorLabels \cup ReconcilerLabels
  BY DEF Carrying, Labelled
<1>3. pc' \in [Threads -> MonitorLabels \cup ReconcilerLabels] /\ loc' \in [Threads -> Locals]
  BY <1>2 DEF ThreadTypes, Carrying
<1>4. \A u \in Threads : /\ pc'[u] = IF u = t THEN label ELSE pc[u]
                         /\ loc'[u] = IF u = t THEN l ELSE loc[u]
  BY DEF ThreadTypes
<1>5. \A m \in Monitors : pc'[m] \in MonitorLabels
  BY <1>1, <1>4 DEF ThreadTypes, Carrying, Labelled
<1>6. pc'[R] \in ReconcilerLabels
  BY <1>1, <1>4 DEF ThreadTypes, Carrying, Labelled
<1>7. \A u \in Threads : pc'[u] \notin {"idle", "look", "trail"} => loc'[u].step \in Steps
  BY <1>4 DEF ThreadTypes, Carrying
<1> QED BY <1>3, <1>5, <1>6, <1>7 DEF ThreadTypes

LEMMA ThreadStays ==
    ASSUME ThreadTypes, NEW t \in Threads, NEW label, Carrying(t, label, loc[t]),
           pc' = [pc EXCEPT ![t] = label], UNCHANGED loc
    PROVE  ThreadTypes'
<1>1. loc' = [loc EXCEPT ![t] = loc[t]]
  BY DEF ThreadTypes
<1> QED BY <1>1, ThreadMoves

(* What the threads share.                                                  *)
SharedTypes ==
    /\ col \in Stages /\ meta \in Metas
    /\ open \in BOOLEAN /\ inflight \in BOOLEAN
    /\ order \in [Steps -> {"none", "filled", "refused", "working", "lost"}]
    /\ sent \in [Steps -> 0..MaxOrders]
    /\ executed \in [Steps -> 0..MaxOrders]
    /\ booked \in [Steps -> 0..2]
    /\ crashes \in 0..MaxCrashes
    /\ slipped \in BOOLEAN

LEMMA TypesInTwo == AddsTypeOK <=> ThreadTypes /\ SharedTypes
BY DEF AddsTypeOK, ThreadTypes, SharedTypes

(* An order is executed at most as often as one is sent.                     *)
Covered == \A s \in Steps : executed[s] + (IF order[s] = "working" THEN 1 ELSE 0) <= sent[s]
AddsTypes == ThreadTypes /\ SharedTypes /\ Covered

LEMMA LocalTypes ==
    ASSUME NEW l \in Locals, NEW s \in Steps, NEW k \in Metas
    PROVE  /\ NoLocals \in Locals
           /\ [step |-> s, meta |-> k] \in Locals
           /\ [l EXCEPT !.meta = k] \in Locals
           /\ [l EXCEPT !.meta.stage = s] \in Locals
           /\ [l EXCEPT !.meta.stage = s].step = l.step
           /\ [k EXCEPT !.stage = s] \in Metas
           /\ [k EXCEPT !.stage = s - 1] \in Metas
           /\ [k EXCEPT !.uncertain = s] \in Metas
           /\ [k EXCEPT !.uncertain = 0] \in Metas
           /\ [stage |-> s, uncertain |-> 0] \in Metas
<1>1. s \in Stages /\ s - 1 \in Stages /\ 1 \in Stages
  BY StepsAreStages DEF Stages
<1> QED BY <1>1 DEF Locals, Metas, NoLocals, Fresh

LEMMA NoLocalsType == NoLocals \in Locals
BY DEF NoLocals, Fresh, Locals, Metas, Stages

LEMMA MonitorIsThread ==
    ASSUME NEW m \in Monitors
    PROVE  m \in Threads /\ m # R /\ R \in Threads /\ Labelled(m) = MonitorLabels
BY DcaAddsAssumption DEF Threads, Labelled

LEMMA IdleTypes ==
    ASSUME ThreadTypes, NEW t \in Threads, GotoIdle(t)
    PROVE  ThreadTypes'
<1>1. Carrying(t, "idle", NoLocals)
  BY NoLocalsType DEF Carrying, Labelled, MonitorLabels, ReconcilerLabels
<1> QED BY <1>1, ThreadMoves DEF GotoIdle, Goto

(* The steps of a monitor.                                                  *)
LEMMA MonitorThread ==
    ASSUME AddsTypes, NEW m \in Monitors, MonitorStep(m)
    PROVE  ThreadTypes'
<1> USE MonitorIsThread DEF AddsTypes
<1>0. ThreadTypes /\ m \in Threads /\ loc[m] \in Locals
  BY DEF ThreadTypes
<1>1. CASE Look(m)
  <2>1. Carrying(m, "look", loc[m])
    BY <1>0 DEF Carrying, MonitorLabels
  <2> QED BY <1>0, <1>1, <2>1, ThreadStays DEF Look, Goto
<1>2. CASE NoTrigger(m) \/ Leave(m) \/ TrailWrite(m)
  BY <1>0, <1>2, IdleTypes DEF NoTrigger, Leave, TrailWrite
<1>3. CASE Read(m)
  <2>1. meta \in Metas /\ StageOf + 1 \in Steps
    BY <1>3, StageType, TypesInTwo DEF Read, SharedTypes
  <2>2. Carrying(m, "claim", [step |-> StageOf + 1, meta |-> meta])
    BY <2>1, LocalTypes, <1>0 DEF Carrying, MonitorLabels
  <2> QED BY <1>0, <1>3, <2>2, ThreadMoves DEF Read, Goto
<1>4. CASE Claim(m)
  <2>1. Step(m) \in Steps /\ meta \in Metas
    BY <1>0, <1>4 DEF Claim, ThreadTypes, SharedTypes
  <2>2. Carrying(m, "claimed", [loc[m] EXCEPT !.meta.stage = Step(m)])
    BY <1>0, <2>1, LocalTypes DEF Carrying, MonitorLabels
  <2>3. CASE loc' = [loc EXCEPT ![m].meta.stage = Step(m)] /\ Goto(m, "claimed")
    BY <1>0, <2>2, <2>3, ThreadMoves DEF Goto
  <2>4. CASE GotoIdle(m)
    BY <1>0, <2>4, IdleTypes
  <2> QED BY <1>4, <2>3, <2>4 DEF Claim
<1>5. CASE Enter(m) \/ StillUncertain(m) \/ GiveUp(m) \/ Send(m) \/ SendExpired(m)
           \/ Revert(m) \/ Mark(m) \/ Apply(m) \/ ApplyError(m)
  <2>1. pc[m] \in {"claimed", "execute", "revert", "mark", "apply"} /\ UNCHANGED loc
    BY <1>5 DEF Enter, StillUncertain, GiveUp, Send, SendExpired, Revert, Mark, Apply, ApplyError
  <2>2. PICK label \in MonitorLabels : pc' = [pc EXCEPT ![m] = label]
    BY <1>5 DEF Enter, StillUncertain, GiveUp, Send, SendExpired, Revert, Mark, Apply,
                ApplyError, Goto, MonitorLabels
  <2>3. Carrying(m, label, loc[m])
    BY <1>0, <2>1, <2>2 DEF Carrying, ThreadTypes
  <2> QED BY <1>0, <2>1, <2>2, <2>3, ThreadStays
<1>6. CASE TrailRead(m)
  <2>1. meta \in Metas
    BY DEF SharedTypes
  <2>2. [loc[m] EXCEPT !.meta = meta] \in Locals
    BY <1>0, <2>1 DEF Locals
  <2>3. Carrying(m, "trail", [loc[m] EXCEPT !.meta = meta])
    BY <2>2 DEF Carrying, MonitorLabels
  <2> QED BY <1>0, <1>6, <2>3, ThreadMoves DEF TrailRead, Goto
<1> QED BY <1>1, <1>2, <1>3, <1>4, <1>5, <1>6 DEF MonitorStep

LEMMA ReconcilerThread ==
    ASSUME AddsTypes, ReconcilerStep
    PROVE  ThreadTypes'
<1>0. ThreadTypes /\ R \in Threads /\ loc[R] \in Locals /\ Labelled(R) = ReconcilerLabels
  BY DEF AddsTypes, ThreadTypes, Threads, Labelled
<1>1. CASE ReconcileRead
  <2>1. meta \in Metas /\ meta.uncertain \in Steps
    BY <1>1 DEF ReconcileRead, AddsTypes, SharedTypes, Metas
  <2>2. Carrying(R, "lookup", [step |-> meta.uncertain, meta |-> meta])
    BY <1>0, <2>1, LocalTypes DEF Carrying, ReconcilerLabels
  <2> QED BY <1>0, <1>1, <2>2, ThreadMoves DEF ReconcileRead, Goto
<1>2. CASE GotoIdle(R)
  BY <1>0, <1>2, IdleTypes
<1>3. CASE \E label \in ReconcilerLabels : Goto(R, label) /\ UNCHANGED loc /\ pc[R] \in {"lookup", "unclaim"}
  <2>1. PICK label \in ReconcilerLabels : Goto(R, label)
    BY <1>3
  <2>2. Carrying(R, label, loc[R])
    BY <1>0, <1>3 DEF Carrying, ThreadTypes
  <2> QED BY <1>0, <1>3, <2>1, <2>2, ThreadStays DEF Goto
<1> QED BY <1>1, <1>2, <1>3 DEF ReconcilerStep, Lookup, Adopt, Unclaim, Unmark, ReconcilerLabels

(* The row and what the exchange executed.                                  *)
LEMMA BookTypes ==
    ASSUME SharedTypes, NEW s \in Steps, Book(s)
    PROVE  col' \in Stages /\ meta' \in Metas /\ booked' \in [Steps -> 0 .. 2]
<1>1. s \in Stages /\ [stage |-> s, uncertain |-> 0] \in Metas
  BY StepsAreStages DEF Metas
<1>2. Min({booked[s] + 1, 2}) \in 0 .. 2
  <2>1. booked[s] + 1 \in Int /\ booked[s] + 1 >= 0 /\ 2 \in Int
    BY DEF SharedTypes
  <2>2. Min({booked[s] + 1, 2}) \in {booked[s] + 1, 2} /\ Min({booked[s] + 1, 2}) <= 2
    BY <2>1, MinOfTwo
  <2> QED BY <2>1, <2>2
<1> QED BY <1>1, <1>2 DEF Book, SharedTypes

LEMMA RevertTypes ==
    ASSUME SharedTypes, NEW s \in Steps, RevertRow(s)
    PROVE  col' \in Stages /\ meta' \in Metas
<1>1. s - 1 \in Stages
  BY StepsAreStages
<1> QED BY <1>1 DEF RevertRow, SharedTypes, Metas

LEMMA SendShared ==
    ASSUME AddsTypes, NEW m \in Monitors, Send(m) \/ SendExpired(m)
    PROVE  SharedTypes' /\ Covered'
<1>1. Step(m) \in Steps /\ m \in Threads
  BY MonitorIsThread DEF Send, SendExpired, AddsTypes, ThreadTypes
<1> DEFINE s == Step(m)
<1>2. PICK state \in {"filled", "refused", "working", "lost"} :
         /\ order' = [order EXCEPT ![s] = state]
         /\ executed' = IF state = "filled" THEN [executed EXCEPT ![s] = @ + 1] ELSE executed
         /\ sent' = [sent EXCEPT ![s] = @ + 1] /\ sent[s] < MaxOrders
  BY DEF Send, SendExpired, Outcome
<1>3. /\ executed[s] \in Nat /\ sent[s] \in Nat /\ executed[s] <= sent[s]
      /\ sent[s] + 1 \in 0 .. MaxOrders
  <2>1. executed[s] \in 0 .. MaxOrders /\ sent[s] \in 0 .. MaxOrders
    BY <1>1 DEF AddsTypes, SharedTypes
  <2>2. executed[s] <= sent[s]
    BY <1>1, <2>1, DcaAddsAssumption DEF AddsTypes, Covered
  <2> QED BY <1>2, <2>1, <2>2, DcaAddsAssumption
<1>4. UNCHANGED <<rowVars, inflight, booked, crashes>> /\ slipped' \in BOOLEAN
  BY DEF Send, SendExpired, historyVars, AddsTypes, SharedTypes
<1>5. SharedTypes'
  <2>1. executed' \in [Steps -> 0 .. MaxOrders]
    BY <1>1, <1>2, <1>3, DcaAddsAssumption DEF AddsTypes, SharedTypes
  <2>2. sent' \in [Steps -> 0 .. MaxOrders]
    BY <1>1, <1>2, <1>3 DEF AddsTypes, SharedTypes
  <2>3. order' \in [Steps -> {"none", "filled", "refused", "working", "lost"}]
    BY <1>2 DEF AddsTypes, SharedTypes
  <2> QED BY <1>4, <2>1, <2>2, <2>3 DEF AddsTypes, SharedTypes, rowVars
<1>6. Covered'
  <2> SUFFICES ASSUME NEW u \in Steps
               PROVE (executed[u] + (IF order[u] = "working" THEN 1 ELSE 0) <= sent[u])'
    BY DEF Covered
  <2>1. CASE u = s
    <3>1. sent'[u] = sent[u] + 1 /\ order'[u] = state
          /\ executed'[u] = IF state = "filled" THEN executed[u] + 1 ELSE executed[u]
      BY <1>2, <2>1 DEF AddsTypes, SharedTypes
    <3> QED BY <1>3, <2>1, <3>1
  <2>2. CASE u # s
    BY <1>2, <2>2 DEF AddsTypes, SharedTypes, Covered
  <2> QED BY <2>1, <2>2
<1> QED BY <1>5, <1>6

LEMMA SettleTypes ==
    ASSUME AddsTypes, NEW s \in Steps, Settle(s)
    PROVE  AddsTypes'
<1>1. PICK state \in {"filled", "refused"} : Outcome(s, state)
  BY DEF Settle
<1>2. executed[s] \in 0 .. MaxOrders /\ executed[s] + 1 <= sent[s] /\ sent[s] \in 0 .. MaxOrders
  BY DEF Settle, AddsTypes, SharedTypes, Covered
<1>3. executed' \in [Steps -> 0 .. MaxOrders]
  BY <1>1, <1>2, DcaAddsAssumption DEF Outcome, AddsTypes, SharedTypes
<1>4. SharedTypes' /\ ThreadTypes'
  BY <1>1, <1>3 DEF Settle, Outcome, AddsTypes, SharedTypes, ThreadTypes, rowVars, historyVars
<1>5. Covered'
  <2> SUFFICES ASSUME NEW u \in Steps
               PROVE (executed[u] + (IF order[u] = "working" THEN 1 ELSE 0) <= sent[u])'
    BY DEF Covered
  <2>1. CASE u = s
    <3>1. sent'[u] = sent[u] /\ order'[u] = state
          /\ executed'[u] = IF state = "filled" THEN executed[u] + 1 ELSE executed[u]
      BY <1>1, <2>1 DEF Settle, Outcome, AddsTypes, SharedTypes
    <3> QED BY <1>2, <2>1, <3>1
  <2>2. CASE u # s
    BY <1>1, <2>2 DEF Settle, Outcome, AddsTypes, SharedTypes, Covered
  <2> QED BY <2>1, <2>2
<1> QED BY <1>4, <1>5 DEF AddsTypes

(* All other steps leave the exchange alone.                                *)
LEMMA RowShared ==
    ASSUME AddsTypes, UNCHANGED <<order, sent, executed>>,
           col' \in Stages, meta' \in Metas, open' \in BOOLEAN, inflight' \in BOOLEAN,
           booked' \in [Steps -> 0 .. 2], crashes' \in 0 .. MaxCrashes, slipped' \in BOOLEAN
    PROVE  SharedTypes' /\ Covered'
BY DEF AddsTypes, SharedTypes, Covered

LEMMA MonitorShared ==
    ASSUME AddsTypes, NEW m \in Monitors, MonitorStep(m), ~Send(m), ~SendExpired(m)
    PROVE  SharedTypes' /\ Covered'
<1> USE DEF rowVars, exchangeVars, historyVars
<1>0. SharedTypes /\ loc[m] \in Locals /\ m \in Threads
  BY MonitorIsThread DEF AddsTypes, ThreadTypes
<1>1. UNCHANGED <<order, sent, executed, open, crashes>>
  BY DEF MonitorStep, Look, Read, NoTrigger, Claim, Enter, StillUncertain, GiveUp, Revert, Mark,
         Apply, ApplyError, Leave, TrailRead, TrailWrite
<1>2. inflight' \in BOOLEAN /\ slipped' \in BOOLEAN
  BY <1>0 DEF MonitorStep, Look, Read, NoTrigger, Claim, Enter, StillUncertain, GiveUp, Revert,
     Mark, Apply, ApplyError, Leave, TrailRead, TrailWrite, SharedTypes
<1>3. col' \in Stages /\ meta' \in Metas /\ booked' \in [Steps -> 0 .. 2]
  <2>1. CASE UNCHANGED <<col, meta, booked>>
    BY <1>0, <2>1 DEF SharedTypes
  <2>2. pc[m] \notin {"idle", "look", "trail"} => Step(m) \in Steps
    BY <1>0 DEF AddsTypes, ThreadTypes
  <2>3. CASE Claim(m)
    <3>1. Step(m) \in Steps /\ loc[m].meta \in Metas
      BY <1>0, <2>2, <2>3 DEF Claim, Locals
    <3>2. [loc[m].meta EXCEPT !.stage = Step(m)] \in Metas /\ Step(m) \in Stages
      BY <3>1, StepsAreStages DEF Metas
    <3> QED BY <1>0, <2>3, <3>2 DEF Claim, SharedTypes
  <2>4. CASE Revert(m)
    BY <1>0, <2>2, <2>4, RevertTypes DEF Revert, SharedTypes
  <2>5. CASE Mark(m)
    <3>1. Step(m) \in Steps /\ loc[m].meta \in Metas
      BY <1>0, <2>2, <2>5 DEF Mark, Locals
    <3> QED BY <1>0, <2>5, <3>1 DEF Mark, Marked, SharedTypes, Metas
  <2>6. CASE Apply(m) \/ (ApplyError(m) /\ Book(Step(m)))
    BY <1>0, <2>2, <2>6, BookTypes DEF Apply, ApplyError
  <2>7. CASE TrailWrite(m)
    BY <1>0, <2>7 DEF TrailWrite, SharedTypes, Locals
  <2>8. CASE Look(m) \/ Read(m) \/ NoTrigger(m) \/ Enter(m) \/ StillUncertain(m) \/ GiveUp(m)
             \/ Leave(m) \/ TrailRead(m)
    BY <2>1, <2>8 DEF Look, Read, NoTrigger, Enter, StillUncertain, GiveUp, Leave, TrailRead
  <2>9. CASE ApplyError(m) /\ ~Book(Step(m))
    BY <2>1, <2>9 DEF ApplyError
  <2> QED BY <2>3, <2>4, <2>5, <2>6, <2>7, <2>8, <2>9 DEF MonitorStep
<1> QED BY <1>0, <1>1, <1>2, <1>3, RowShared DEF SharedTypes

LEMMA ReconcilerShared ==
    ASSUME AddsTypes, ReconcilerStep
    PROVE  SharedTypes' /\ Covered'
<1> USE DEF rowVars, exchangeVars, historyVars
<1>0. SharedTypes /\ loc[R] \in Locals /\ R \in Threads
  BY DEF AddsTypes, ThreadTypes, Threads
<1>1. UNCHANGED <<order, sent, executed, open, inflight, crashes, slipped>>
  BY DEF ReconcilerStep, ReconcileRead, Lookup, Adopt, Unclaim, Unmark
<1>2. pc[R] # "idle" => Step(R) \in Steps
  BY <1>0 DEF AddsTypes, ThreadTypes, ReconcilerLabels
<1>3. col' \in Stages /\ meta' \in Metas /\ booked' \in [Steps -> 0 .. 2]
  <2>1. CASE ReconcileRead \/ Lookup
    BY <1>0, <2>1 DEF ReconcileRead, Lookup, SharedTypes
  <2>2. CASE Adopt
    BY <1>0, <1>2, <2>2, BookTypes DEF Adopt
  <2>3. CASE Unclaim
    BY <1>0, <1>2, <2>3, RevertTypes DEF Unclaim, SharedTypes
  <2>4. CASE Unmark
    BY <1>0, <2>4 DEF Unmark, SharedTypes, Locals, Metas
  <2> QED BY <2>1, <2>2, <2>3, <2>4 DEF ReconcilerStep
<1> QED BY <1>0, <1>1, <1>3, RowShared DEF SharedTypes

LEMMA AddsTypesInit == AddsInit => AddsTypes
<1> SUFFICES ASSUME AddsInit PROVE AddsTypes
  OBVIOUS
<1>1. Covered
  BY DEF AddsInit, Covered
<1> QED BY <1>1, AddsTypeInit, TypesInTwo DEF AddsTypes

LEMMA AddsTypesStep == AddsTypes /\ [AddsNext]_addVars => AddsTypes'
<1> SUFFICES ASSUME AddsTypes, [AddsNext]_addVars PROVE AddsTypes'
  OBVIOUS
<1>1. ASSUME NEW m \in Monitors, MonitorStep(m) PROVE AddsTypes'
  BY <1>1, MonitorThread, MonitorShared, SendShared DEF AddsTypes
<1>2. CASE ReconcilerStep
  BY <1>2, ReconcilerThread, ReconcilerShared DEF AddsTypes
<1>3. CASE Close
  BY <1>3 DEF Close, AddsTypes, ThreadTypes, SharedTypes, Covered, exchangeVars, historyVars
<1>4. CASE Crash
  <2>1. crashes' \in 0 .. MaxCrashes
    BY <1>4, DcaAddsAssumption DEF Crash, AddsTypes, SharedTypes
  <2>2. ThreadTypes'
    BY <1>4, NoLocalsType, MonitorIsThread DEF Crash, ThreadTypes, Threads, MonitorLabels, ReconcilerLabels
  <2> QED BY <1>4, <2>1, <2>2, RowShared DEF Crash, AddsTypes, SharedTypes, rowVars, exchangeVars
<1>5. CASE UNCHANGED addVars
  BY <1>5 DEF addVars, AddsTypes, ThreadTypes, SharedTypes, Covered
<1> QED BY <1>1, <1>2, <1>3, <1>4, <1>5, SettleTypes DEF AddsNext
-----------------------------------------------------------------------------
(* Why no step is executed twice while one monitor looks after the trade: an  *)
(* order of a step is executed, or still may be, only while the column is at  *)
(* that step or beyond, and then nobody claims it.  The column falls when a   *)
(* claim is given back, and when an uncertain add of a lower step is booked; *)
(* the first is only of steps nothing was executed of, the second would need *)
(* a monitor that sends while the row carries a marker.  It does not, because *)
(* what it holds in its copy of the metadata is at most behind by a marker   *)
(* that was taken away.                                                     *)
Pending(s)  == order[s] \in {"filled", "working"}
Marks(s)    == \A t \in Steps : Pending(t) => t <= s
HasCopy(m)  == pc[m] \in {"claim", "claimed", "execute", "revert", "mark", "apply", "trail"}
Sending(m)  == pc[m] \in {"claimed", "execute", "revert", "mark", "apply"}
Copy(m)     == loc[m].meta.uncertain

Counted == \A s \in Steps : executed[s] = IF order[s] = "filled" THEN 1 ELSE 0
Claimed == Marks(col)
Marker  == meta.uncertain # 0 => Marks(meta.uncertain)
CopyFits(m) ==
    HasCopy(m) => /\ meta.uncertain # 0 => Copy(m) = meta.uncertain
                  /\ Copy(m) # 0 => Marks(Copy(m))
Turn(m) ==
    /\ Sending(m) /\ Copy(m) = 0 => col = Step(m)
    /\ pc[m] \in {"claimed", "execute", "revert"} /\ Copy(m) = 0 => ~Pending(Step(m))
    /\ pc[m] \in {"revert", "mark", "apply"} => Copy(m) = 0
Reconciles ==
    /\ pc[R] # "idle" => meta.uncertain = Step(R)
    /\ pc[R] \in {"unclaim", "unmark"} => ~Pending(Step(R))
Ledger == Counted /\ Claimed /\ Marker /\ Reconciles
          /\ \A m \in Monitors : CopyFits(m) /\ Turn(m)
Once == ~slipped => Ledger

(* A step that may have been executed and is not booked is in hand or marked. *)
Remembered ==
    crashes = 0 /\ ~slipped =>
        \A s \in Steps : Pending(s) /\ booked[s] = 0 => InHand(s) \/ meta.uncertain = s

(* One thread looks after a trade at a time.                                *)
OneMonitor == \A m, n \in Monitors : m = n

LEMMA OnceInit == AddsInit => Once /\ Remembered
<1> SUFFICES ASSUME AddsInit PROVE Once /\ Remembered
  OBVIOUS
<1>1. \A s \in Steps : ~Pending(s) /\ executed[s] = 0 /\ order[s] = "none"
  BY DEF AddsInit, Pending
<1>2. pc[R] = "idle" /\ \A m \in Monitors : pc[m] = "idle"
  BY MonitorIsThread DEF AddsInit, Threads
<1>3. Ledger
  BY <1>1, <1>2 DEF Ledger, Counted, Claimed, Marks, Marker, Reconciles, CopyFits, HasCopy,
     Turn, Sending
<1> QED BY <1>1, <1>3 DEF Once, Remembered

(* While a monitor holds a copy without a marker, the reconciler is idle.     *)
LEMMA NoMarker ==
    ASSUME AddsTypes, Ledger, NEW m \in Monitors, HasCopy(m), Copy(m) = 0
    PROVE  meta.uncertain = 0 /\ pc[R] = "idle"
<1>1. meta.uncertain = 0
  BY DEF Ledger, CopyFits
<1>2. pc[R] # "idle" => Step(R) \in Steps /\ Step(R) # 0
  BY DEF AddsTypes, ThreadTypes, ReconcilerLabels, Threads, Steps
<1> QED BY <1>1, <1>2 DEF Ledger, Reconciles

LEMMA MonitorLedger ==
    ASSUME OneMonitor, Ledger, NEW m \in Monitors,
           UNCHANGED <<order, executed>>, Claimed', Marker', Reconciles', CopyFits(m)', Turn(m)'
    PROVE  Ledger'
BY DEF OneMonitor, Ledger, Counted

(* Where the monitor that moves was, and where the reconciler still is.      *)
LEMMA OneMoves ==
    ASSUME AddsTypes, NEW m \in Monitors,
           NEW label, pc' = [pc EXCEPT ![m] = label],
           NEW l, loc' = [loc EXCEPT ![m] = l]
    PROVE  /\ pc'[m] = label /\ loc'[m] = l
           /\ pc'[R] = pc[R] /\ loc'[R] = loc[R]
BY MonitorIsThread DEF AddsTypes, ThreadTypes

LEMMA OneGoesOn ==
    ASSUME AddsTypes, NEW m \in Monitors,
           NEW label, pc' = [pc EXCEPT ![m] = label], UNCHANGED loc
    PROVE  /\ pc'[m] = label /\ loc'[m] = loc[m]
           /\ pc'[R] = pc[R] /\ loc'[R] = loc[R]
BY MonitorIsThread DEF AddsTypes, ThreadTypes

(* A monitor that only looks, waits or gives up.                            *)
LEMMA LooksLedger ==
    ASSUME OneMonitor, AddsTypes, Ledger, NEW m \in Monitors,
           \/ Look(m) \/ NoTrigger(m) \/ Enter(m) \/ StillUncertain(m) \/ GiveUp(m) \/ Leave(m)
    PROVE  Ledger'
<1>1. UNCHANGED <<col, meta, order, executed>>
  BY DEF Look, NoTrigger, Enter, StillUncertain, GiveUp, Leave, rowVars, exchangeVars
<1>2. pc'[R] = pc[R] /\ loc'[R] = loc[R]
  BY OneMoves, OneGoesOn DEF Look, NoTrigger, Enter, StillUncertain, GiveUp, Leave, Goto, GotoIdle
<1>3. Claimed' /\ Marker' /\ Reconciles'
  BY <1>1, <1>2 DEF Ledger, Claimed, Marker, Marks, Pending, Reconciles
<1>4. CASE Look(m) \/ NoTrigger(m) \/ StillUncertain(m) \/ Leave(m)
  <2>1. pc'[m] \in {"look", "idle", "leave"}
    BY <1>4, OneMoves, OneGoesOn DEF Look, NoTrigger, StillUncertain, Leave, Goto, GotoIdle
  <2>2. CopyFits(m)' /\ Turn(m)'
    BY <2>1 DEF CopyFits, Turn, HasCopy, Sending
  <2> QED BY <1>1, <1>3, <2>2, MonitorLedger
<1>5. CASE Enter(m) \/ GiveUp(m)
  <2>1. /\ pc[m] \in {"claimed", "execute"} /\ pc'[m] \in {"execute", "revert"}
        /\ loc'[m] = loc[m] /\ (pc'[m] = "revert" => Copy(m) = 0)
    BY <1>5, OneGoesOn DEF Enter, GiveUp, Goto, Copy
  <2>2. CopyFits(m) /\ Turn(m)
    BY DEF Ledger
  <2>3. CopyFits(m)' /\ Turn(m)'
    BY <1>1, <2>1, <2>2 DEF CopyFits, Turn, HasCopy, Sending, Copy, Marks, Pending
  <2> QED BY <1>1, <1>3, <2>3, MonitorLedger
<1> QED BY <1>4, <1>5

(* A copy of the metadata is taken.                                         *)
LEMMA CopiesLedger ==
    ASSUME OneMonitor, AddsTypes, Ledger, NEW m \in Monitors, Read(m) \/ TrailRead(m)
    PROVE  Ledger'
<1>1. UNCHANGED <<col, meta, order, executed>>
  BY DEF Read, TrailRead, rowVars, exchangeVars
<1>2. /\ pc'[R] = pc[R] /\ loc'[R] = loc[R]
      /\ pc'[m] \in {"claim", "trail"} /\ loc'[m].meta = meta
  <2>1. PICK l : loc' = [loc EXCEPT ![m] = l] /\ l.meta = meta
    <3>1. CASE Read(m)
      <4>1. loc' = [loc EXCEPT ![m] = [step |-> StageOf + 1, meta |-> meta]]
        BY <3>1 DEF Read
      <4>2. [step |-> StageOf + 1, meta |-> meta].meta = meta
        OBVIOUS
      <4> QED BY <4>1, <4>2
    <3>2. CASE TrailRead(m)
      <4>1. loc' = [loc EXCEPT ![m] = [loc[m] EXCEPT !.meta = meta]]
        BY <3>2 DEF TrailRead
      <4>2. [loc[m] EXCEPT !.meta = meta].meta = meta
        BY MonitorIsThread DEF AddsTypes, ThreadTypes, Locals
      <4> QED BY <4>1, <4>2
    <3> QED BY <3>1, <3>2
  <2>2. PICK label \in {"claim", "trail"} : pc' = [pc EXCEPT ![m] = label]
    BY DEF Read, TrailRead, Goto
  <2> QED BY <2>1, <2>2, OneMoves
<1>3. Claimed' /\ Marker' /\ Reconciles'
  BY <1>1, <1>2 DEF Ledger, Claimed, Marker, Marks, Pending, Reconciles
<1>4. CopyFits(m)' /\ Turn(m)'
  BY <1>1, <1>2 DEF Ledger, Marker, Marks, Pending, CopyFits, Turn, HasCopy, Sending, Copy
<1> QED BY <1>1, <1>3, <1>4, MonitorLedger

(* What the row says after a monitor wrote its copy back.                    *)
LEMMA CopyWritten ==
    ASSUME AddsTypes, Ledger, NEW m \in Monitors, HasCopy(m), meta'.uncertain = Copy(m),
           pc'[R] = pc[R], loc'[R] = loc[R], UNCHANGED order
    PROVE  Marker' /\ Reconciles'
<1>1. pc[R] # "idle" => meta.uncertain = Step(R) /\ Step(R) # 0
  BY DEF Ledger, Reconciles, AddsTypes, ThreadTypes, ReconcilerLabels, Threads, Steps
<1>2. CopyFits(m)
  BY DEF Ledger
<1> QED BY <1>1, <1>2 DEF Ledger, CopyFits, Marker, Marks, Pending, Reconciles

LEMMA ClaimLedger ==
    ASSUME OneMonitor, AddsTypes, Ledger, NEW m \in Monitors, Claim(m)
    PROVE  Ledger'
<1>1. /\ pc[m] = "claim" /\ HasCopy(m) /\ UNCHANGED <<order, executed>>
      /\ loc[m] \in Locals /\ Step(m) \in Steps /\ Step(m) \in Int
  BY MonitorIsThread, StepsAreStages DEF Claim, HasCopy, AddsTypes, ThreadTypes, exchangeVars
<1>2. CASE MayClaim(Step(m))
  <2> DEFINE l == [loc[m] EXCEPT !.meta.stage = Step(m)]
  <2>1. /\ col' = Step(m) /\ col = Step(m) - 1
        /\ meta' = [loc[m].meta EXCEPT !.stage = Step(m)]
        /\ loc' = [loc EXCEPT ![m] = l]
        /\ pc' = [pc EXCEPT ![m] = "claimed"]
    BY <1>2 DEF Claim, MayClaim, Goto
  <2>2. meta'.uncertain = Copy(m) /\ l.meta.uncertain = Copy(m) /\ l.step = Step(m)
    BY <1>1, <2>1 DEF Copy, Locals, Metas
  <2> HIDE DEF l
  <2>3. /\ pc'[m] = "claimed" /\ Step(m)' = Step(m) /\ Copy(m)' = Copy(m)
        /\ pc'[R] = pc[R] /\ loc'[R] = loc[R]
    BY <2>1, <2>2, OneMoves DEF Copy
  <2>4. \A t \in Steps : Pending(t) => t < Step(m)
    <3>1. \A t \in Steps : Pending(t) => t <= Step(m) - 1
      BY <2>1 DEF Ledger, Claimed, Marks
    <3> QED BY <1>1, <3>1, StepsAreStages
  <2>5. Claimed'
    BY <1>1, <2>1, <2>4, StepsAreStages DEF Claimed, Marks, Pending
  <2>6. Marker' /\ Reconciles'
    BY <1>1, <2>2, <2>3, CopyWritten
  <2>7. CopyFits(m)
    BY DEF Ledger
  <2>8. CopyFits(m)'
    BY <1>1, <2>2, <2>3, <2>7 DEF CopyFits, Marks, Pending
  <2>9. ~Pending(Step(m))
    BY <1>1, <2>4
  <2>10. Turn(m)'
    BY <1>1, <2>1, <2>3, <2>9 DEF Turn, Pending
  <2> QED BY <1>1, <2>5, <2>6, <2>8, <2>10, MonitorLedger
<1>3. CASE ~MayClaim(Step(m))
  <2>1. GotoIdle(m) /\ UNCHANGED <<col, meta>>
    BY <1>3 DEF Claim
  <2>2. pc'[m] = "idle" /\ pc'[R] = pc[R] /\ loc'[R] = loc[R]
    BY <2>1, OneMoves DEF GotoIdle, Goto
  <2>3. Claimed' /\ Marker' /\ Reconciles' /\ CopyFits(m)' /\ Turn(m)'
    BY <1>1, <2>1, <2>2 DEF Ledger, Claimed, Marker, Marks, Pending, Reconciles, CopyFits,
       HasCopy, Turn, Sending
  <2> QED BY <1>1, <2>3, MonitorLedger
<1> QED BY <1>2, <1>3

LEMMA TrailLedger ==
    ASSUME OneMonitor, AddsTypes, Ledger, NEW m \in Monitors, TrailWrite(m)
    PROVE  Ledger'
<1>1. /\ HasCopy(m) /\ UNCHANGED <<col, order, executed>> /\ meta'.uncertain = Copy(m)
  BY DEF TrailWrite, HasCopy, Copy, exchangeVars
<1>2. pc'[m] = "idle" /\ pc'[R] = pc[R] /\ loc'[R] = loc[R]
  BY OneMoves DEF TrailWrite, GotoIdle, Goto
<1>3. Marker' /\ Reconciles'
  BY <1>1, <1>2, CopyWritten
<1>4. Claimed' /\ CopyFits(m)' /\ Turn(m)'
  BY <1>1, <1>2 DEF Ledger, Claimed, Marks, Pending, CopyFits, HasCopy, Turn, Sending
<1> QED BY <1>1, <1>3, <1>4, MonitorLedger

(* A claim given back, a marker written, a fill booked: the column is at the  *)
(* step, the row has no marker, and the reconciler is idle.                  *)
LEMMA EndsAdd ==
    ASSUME OneMonitor, AddsTypes, Ledger, NEW m \in Monitors,
           Revert(m) \/ Mark(m) \/ Apply(m)
    PROVE  Ledger'
<1>1. /\ Copy(m) = 0 /\ col = Step(m) /\ meta.uncertain = 0 /\ pc[R] = "idle"
      /\ Step(m) \in Steps /\ Step(m) \in Int /\ m \in Threads
  <2>1. Turn(m) /\ pc[m] \in {"revert", "mark", "apply"}
    BY DEF Ledger, Revert, Mark, Apply
  <2>2. HasCopy(m) /\ Copy(m) = 0 /\ col = Step(m)
    BY <2>1 DEF Turn, HasCopy, Sending
  <2>3. m \in Threads /\ Step(m) \in Steps /\ Step(m) \in Int
    BY <2>1, MonitorIsThread, StepsAreStages DEF AddsTypes, ThreadTypes
  <2> QED BY <2>2, <2>3, NoMarker
<1>2. /\ UNCHANGED <<order, executed>>
      /\ pc'[m] = "leave" /\ pc'[R] = "idle"
  BY <1>1, OneGoesOn DEF Revert, Mark, Apply, Goto, exchangeVars
<1>3. Reconciles' /\ CopyFits(m)' /\ Turn(m)'
  BY <1>2 DEF Reconciles, CopyFits, HasCopy, Turn, Sending
<1>4. Marks(Step(m))
  BY <1>1 DEF Ledger, Claimed
<1>5. CASE Revert(m)
  <2>1. ~Pending(Step(m))
    BY <1>1, <1>5 DEF Ledger, Turn, Revert
  <2>2. col' \in {col, Step(m) - 1} /\ meta'.uncertain = 0
    BY <1>1, <1>5 DEF Revert, RevertRow, AddsTypes, SharedTypes, Metas
  <2>3. \A t \in Steps : Pending(t) => t <= Step(m) - 1
    BY <1>1, <1>4, <2>1, StepsAreStages DEF Marks
  <2>4. Claimed' /\ Marker'
    BY <1>1, <1>2, <1>4, <2>2, <2>3 DEF Claimed, Marks, Marker, Pending
  <2> QED BY <1>2, <1>3, <2>4, MonitorLedger
<1>6. CASE Mark(m)
  <2>1. UNCHANGED col /\ meta'.uncertain = Step(m)
    BY <1>1, <1>6 DEF Mark, Marked, AddsTypes, ThreadTypes, Locals, Metas
  <2>2. Claimed' /\ Marker'
    BY <1>1, <1>2, <1>4, <2>1 DEF Claimed, Marks, Marker, Pending
  <2> QED BY <1>2, <1>3, <2>2, MonitorLedger
<1>7. CASE Apply(m)
  <2>1. UNCHANGED col /\ meta'.uncertain = 0
    BY <1>1, <1>7 DEF Apply, Book
  <2>2. Claimed' /\ Marker'
    BY <1>1, <1>2, <1>4, <2>1 DEF Claimed, Marks, Marker, Pending
  <2> QED BY <1>2, <1>3, <2>2, MonitorLedger
<1> QED BY <1>5, <1>6, <1>7

(* An order is sent for a step nothing was executed of.                      *)
LEMMA SendLedger ==
    ASSUME OneMonitor, AddsTypes, Ledger, NEW m \in Monitors, Send(m)
    PROVE  Ledger'
<1>1. /\ Copy(m) = 0 /\ col = Step(m) /\ meta.uncertain = 0 /\ pc[R] = "idle"
      /\ Step(m) \in Steps /\ m \in Threads /\ ~Pending(Step(m))
  <2>1. Turn(m) /\ pc[m] = "execute" /\ Copy(m) = 0
    BY DEF Ledger, Send, MaySend, Copy
  <2>2. HasCopy(m) /\ col = Step(m) /\ ~Pending(Step(m))
    BY <2>1 DEF Turn, HasCopy, Sending
  <2>3. m \in Threads /\ Step(m) \in Steps
    BY <2>1, MonitorIsThread DEF AddsTypes, ThreadTypes
  <2> QED BY <2>1, <2>2, <2>3, NoMarker
<1>2. PICK state \in {"filled", "refused", "working", "lost"}, label \in {"apply", "revert", "mark"} :
         /\ Outcome(Step(m), state) /\ Goto(m, label) /\ UNCHANGED <<col, meta, loc>>
         /\ label = "revert" => state = "refused"
  BY DEF Send, rowVars
<1>3. /\ pc'[m] = label /\ loc'[m] = loc[m] /\ pc'[R] = "idle"
  BY <1>1, <1>2, OneGoesOn DEF Goto
<1>4. \A t \in Steps : order'[t] = IF t = Step(m) THEN state ELSE order[t]
  BY <1>2 DEF Outcome, AddsTypes, SharedTypes
<1>5. executed[Step(m)] = 0
  BY <1>1 DEF Ledger, Counted, Pending
<1>6. Counted'
  <2>1. \A t \in Steps : executed'[t] = IF t = Step(m) /\ state = "filled"
                                         THEN executed[t] + 1 ELSE executed[t]
    BY <1>1, <1>2 DEF Outcome, AddsTypes, SharedTypes
  <2> QED BY <1>1, <1>4, <1>5, <2>1 DEF Ledger, Counted, Pending
<1>7. \A t \in Steps : Pending(t)' => t <= col
  BY <1>1, <1>4, StepsAreStages DEF Pending, Ledger, Claimed, Marks
<1>8. Claimed' /\ Marker' /\ Reconciles'
  BY <1>1, <1>2, <1>3, <1>7 DEF Claimed, Marks, Marker, Reconciles
<1>9. CopyFits(m)'
  BY <1>1, <1>2, <1>3 DEF CopyFits, Copy
<1>10. Turn(m)'
  BY <1>1, <1>2, <1>3, <1>4 DEF Turn, Copy, Pending
<1> QED BY <1>6, <1>8, <1>9, <1>10 DEF Ledger, OneMonitor

(* The reconciler acts on a marker, and while there is one nobody sends.     *)
LEMMA Marking ==
    ASSUME AddsTypes, Ledger, pc[R] # "idle"
    PROVE  /\ Step(R) \in Steps /\ Step(R) \in Int /\ meta.uncertain = Step(R)
           /\ Marks(Step(R))
           /\ \A m \in Monitors : HasCopy(m) => Copy(m) # 0
<1>1. Step(R) \in Steps /\ Step(R) \in Int /\ Step(R) # 0
  BY StepsAreStages DEF AddsTypes, ThreadTypes, ReconcilerLabels, Threads, Steps
<1>2. meta.uncertain = Step(R)
  BY DEF Ledger, Reconciles
<1>3. Marks(Step(R))
  BY <1>1, <1>2 DEF Ledger, Marker
<1> QED BY <1>1, <1>2, <1>3, NoMarker

LEMMA ReconcilerLedger ==
    ASSUME AddsTypes, Ledger, ReconcilerStep
    PROVE  Ledger'
<1>0. R \in Threads
  BY DEF Threads
<1>1. UNCHANGED <<order, executed>>
  BY DEF ReconcilerStep, ReconcileRead, Lookup, Adopt, Unclaim, Unmark, exchangeVars
<1>2. \A m \in Monitors : pc'[m] = pc[m] /\ loc'[m] = loc[m]
  BY MonitorIsThread DEF ReconcilerStep, ReconcileRead, Lookup, Adopt, Unclaim, Unmark,
     Goto, GotoIdle, AddsTypes, ThreadTypes
<1>3. Counted'
  BY <1>1 DEF Ledger, Counted
<1>4. CASE ReconcileRead \/ Lookup
  <2>1. UNCHANGED <<col, meta>>
    BY <1>4 DEF ReconcileRead, Lookup, rowVars
  <2>2. Claimed' /\ Marker'
    BY <1>1, <2>1 DEF Ledger, Claimed, Marker, Marks, Pending
  <2>3. \A m \in Monitors : CopyFits(m)' /\ Turn(m)'
    BY <1>1, <1>2, <2>1 DEF Ledger, CopyFits, Turn, HasCopy, Sending, Copy, Marks, Pending
  <2>4. Reconciles'
    <3>1. CASE ReconcileRead
      <4>1. pc'[R] = "lookup" /\ loc'[R].step = meta.uncertain
        BY <1>0, <3>1 DEF ReconcileRead, Goto, AddsTypes, ThreadTypes
      <4> QED BY <2>1, <4>1 DEF Reconciles
    <3>2. CASE Lookup
      <4>1. \/ pc'[R] = "adopt" /\ loc'[R] = loc[R]
            \/ pc'[R] = "unclaim" /\ loc'[R] = loc[R] /\ order[Step(R)] = "refused"
            \/ pc'[R] = "idle"
        BY <1>0, <3>2 DEF Lookup, RefusedByLookup, Goto, GotoIdle, AddsTypes, ThreadTypes
      <4>2. pc[R] = "lookup"
        BY <3>2 DEF Lookup
      <4> QED BY <1>1, <2>1, <4>1, <4>2 DEF Ledger, Reconciles, Pending
    <3> QED BY <1>4, <3>1, <3>2
  <2> QED BY <1>3, <2>2, <2>3, <2>4 DEF Ledger
<1>5. CASE Adopt
  <2>1. pc[R] # "idle" /\ pc'[R] = "idle"
    BY <1>0, <1>5 DEF Adopt, GotoIdle, Goto, AddsTypes, ThreadTypes
  <2>2. col' = Step(R) /\ meta'.uncertain = 0
    BY <1>5 DEF Adopt, Book
  <2>3. Claimed' /\ Marker' /\ Reconciles'
    BY <1>1, <2>1, <2>2, Marking DEF Claimed, Marker, Marks, Pending, Reconciles
  <2>4. \A m \in Monitors : CopyFits(m)' /\ Turn(m)'
    BY <1>1, <1>2, <2>1, <2>2, Marking DEF Ledger, CopyFits, Turn, HasCopy, Sending, Copy,
       Marks, Pending
  <2> QED BY <1>3, <2>3, <2>4 DEF Ledger
<1>6. CASE Unclaim
  <2>1. pc[R] = "unclaim" /\ pc'[R] = "unmark" /\ loc'[R] = loc[R]
    BY <1>0, <1>6 DEF Unclaim, Goto, AddsTypes, ThreadTypes
  <2>2. meta'.uncertain = meta.uncertain /\ (col' = col \/ (col = Step(R) /\ col' = Step(R) - 1))
    BY <1>6 DEF Unclaim, RevertRow, MayRevert, AddsTypes, SharedTypes, Metas
  <2>3. ~Pending(Step(R))
    BY <2>1 DEF Ledger, Reconciles
  <2>4. \A t \in Steps : Pending(t) => t <= Step(R) - 1
    BY <2>1, <2>3, Marking, StepsAreStages DEF Marks
  <2>5. Claimed'
    BY <1>1, <2>2, <2>4 DEF Ledger, Claimed, Marks, Pending
  <2>6. Marker' /\ Reconciles'
    BY <1>1, <2>1, <2>2, <2>3 DEF Ledger, Marker, Marks, Pending, Reconciles
  <2>7. \A m \in Monitors : CopyFits(m)' /\ Turn(m)'
    BY <1>1, <1>2, <2>1, <2>2, Marking DEF Ledger, CopyFits, Turn, HasCopy, Sending, Copy,
       Marks, Pending
  <2> QED BY <1>3, <2>5, <2>6, <2>7 DEF Ledger
<1>7. CASE Unmark
  <2>1. pc[R] # "idle" /\ pc'[R] = "idle" /\ UNCHANGED col
    BY <1>0, <1>7 DEF Unmark, GotoIdle, Goto, AddsTypes, ThreadTypes
  <2>2. meta'.uncertain = 0
    BY <1>0, <1>7 DEF Unmark, AddsTypes, ThreadTypes, Locals, Metas
  <2>3. Claimed' /\ Marker' /\ Reconciles'
    BY <1>1, <2>1, <2>2 DEF Ledger, Claimed, Marker, Marks, Pending, Reconciles
  <2>4. \A m \in Monitors : CopyFits(m)' /\ Turn(m)'
    BY <1>1, <1>2, <2>1, <2>2, Marking DEF Ledger, CopyFits, Turn, HasCopy, Sending, Copy,
       Marks, Pending
  <2> QED BY <1>3, <2>3, <2>4 DEF Ledger
<1> QED BY <1>4, <1>5, <1>6, <1>7 DEF ReconcilerStep

(* What is decided was pending.                                             *)
LEMMA SettleLedger ==
    ASSUME AddsTypes, Ledger, NEW s \in Steps, Settle(s)
    PROVE  Ledger'
<1>1. PICK state \in {"filled", "refused"} :
         /\ \A t \in Steps : order'[t] = IF t = s THEN state ELSE order[t]
         /\ \A t \in Steps : executed'[t] = IF t = s /\ state = "filled"
                                             THEN executed[t] + 1 ELSE executed[t]
  BY DEF Settle, Outcome, AddsTypes, SharedTypes
<1>2. order[s] = "working" /\ UNCHANGED <<col, meta, pc, loc>>
  BY DEF Settle, rowVars
<1>3. \A t \in Steps : Pending(t)' => Pending(t)
  BY <1>1, <1>2 DEF Pending
<1>4. Counted'
  BY <1>1, <1>2 DEF Ledger, Counted
<1>5. Claimed' /\ Marker'
  BY <1>2, <1>3 DEF Ledger, Claimed, Marker, Marks
<1>6. Reconciles'
  <2>1. pc[R] # "idle" => Step(R) \in Steps
    BY DEF AddsTypes, ThreadTypes, ReconcilerLabels, Threads
  <2> QED BY <1>2, <1>3, <2>1 DEF Ledger, Reconciles
<1>7. ASSUME NEW m \in Monitors PROVE CopyFits(m)' /\ Turn(m)'
  <2>1. pc[m] \in {"claimed", "execute", "revert"} => Step(m) \in Steps
    BY MonitorIsThread DEF AddsTypes, ThreadTypes
  <2>2. CopyFits(m) /\ Turn(m)
    BY DEF Ledger
  <2> QED BY <1>2, <1>3, <2>1, <2>2 DEF CopyFits, Turn, HasCopy, Sending, Copy, Marks
<1> QED BY <1>4, <1>5, <1>6, <1>7 DEF Ledger

LEMMA OnceStep ==
    ASSUME OneMonitor, AddsTypes, Once, [AddsNext]_addVars
    PROVE  Once'
<1> SUFFICES ASSUME ~slipped' PROVE Ledger'
  BY DEF Once
<1>1. ASSUME NEW m \in Monitors, MonitorStep(m) PROVE Ledger'
  <2>1. ~SendExpired(m) /\ ~ApplyError(m)
    BY DEF SendExpired, ApplyError
  <2>2. ~slipped
    BY <1>1, <2>1 DEF MonitorStep, Look, Read, NoTrigger, Claim, Enter, StillUncertain, GiveUp,
       Send, Revert, Mark, Apply, Leave, TrailRead, TrailWrite, historyVars
  <2> QED BY <1>1, <2>1, <2>2, LooksLedger, CopiesLedger, ClaimLedger, TrailLedger, EndsAdd,
             SendLedger DEF MonitorStep, Once
<1>2. CASE ReconcilerStep
  <2>1. ~slipped
    BY <1>2 DEF ReconcilerStep, ReconcileRead, Lookup, Adopt, Unclaim, Unmark, historyVars
  <2> QED BY <1>2, <2>1, ReconcilerLedger DEF Once
<1>3. ASSUME NEW s \in Steps, Settle(s) PROVE Ledger'
  BY <1>3, SettleLedger DEF Once, Settle, historyVars
<1>4. CASE Crash
  <2>1. UNCHANGED <<col, meta, order, executed, slipped>>
    BY <1>4 DEF Crash, rowVars, exchangeVars
  <2>2. pc'[R] = "idle" /\ \A m \in Monitors : pc'[m] = "idle"
    BY <1>4, MonitorIsThread DEF Crash, Threads
  <2> QED BY <2>1, <2>2 DEF Once, Ledger, Counted, Claimed, Marker, Marks, Pending, Reconciles,
             CopyFits, HasCopy, Turn, Sending
<1>5. CASE Close \/ UNCHANGED addVars
  <2>1. UNCHANGED <<col, meta, order, executed, pc, loc, slipped>>
    BY <1>5 DEF Close, addVars, rowVars, exchangeVars, historyVars
  <2> QED BY <2>1 DEF Once, Ledger, Counted, Claimed, Marker, Marks, Pending, Reconciles,
             CopyFits, HasCopy, Turn, Sending, Copy
<1> QED BY <1>1, <1>2, <1>3, <1>4, <1>5 DEF AddsNext

(* What is not booked stays in hand or marked.                              *)
NotLost(s) == Pending(s) /\ booked[s] = 0 => InHand(s) \/ meta.uncertain = s
Traced  == \A s \in Steps : NotLost(s)

(* A step that neither sends nor books, and leaves the marker and the        *)
(* threads that have an add in hand.                                        *)
LEMMA TraceStays ==
    ASSUME Traced, UNCHANGED <<order, booked>>, meta'.uncertain = meta.uncertain,
           \A m \in Monitors : pc[m] \in {"apply", "mark"}
                                   => pc'[m] = pc[m] /\ loc'[m].step = loc[m].step
    PROVE  Traced'
<1> SUFFICES ASSUME NEW s \in Steps, Pending(s)', booked'[s] = 0
             PROVE  InHand(s)' \/ meta'.uncertain = s
  BY DEF Traced, NotLost
<1>1. InHand(s) \/ meta.uncertain = s
  BY DEF Traced, NotLost, Pending
<1> QED BY <1>1 DEF InHand

LEMMA MonitorTrace ==
    ASSUME OneMonitor, AddsTypes, Ledger, Traced, NEW m \in Monitors, MonitorStep(m),
           ~SendExpired(m), ~ApplyError(m)
    PROVE  Traced'
<1>0. m \in Threads /\ \A n \in Monitors : n = m
  BY MonitorIsThread DEF OneMonitor
<1>1. CASE Look(m) \/ NoTrigger(m) \/ Enter(m) \/ StillUncertain(m) \/ GiveUp(m) \/ Leave(m)
           \/ Read(m) \/ TrailRead(m) \/ Revert(m)
  <2>1. pc[m] \notin {"apply", "mark"} /\ UNCHANGED <<order, booked>>
    BY <1>1 DEF Look, NoTrigger, Enter, StillUncertain, GiveUp, Leave, Read, TrailRead, Revert,
       exchangeVars
  <2>2. meta'.uncertain = meta.uncertain
    BY <1>1 DEF Look, NoTrigger, Enter, StillUncertain, GiveUp, Leave, Read, TrailRead, Revert,
       RevertRow, rowVars, AddsTypes, SharedTypes, Metas
  <2> QED BY <1>0, <2>1, <2>2, TraceStays
<1>2. CASE Claim(m) \/ TrailWrite(m)
  <2>1. pc[m] \in {"claim", "trail"} /\ HasCopy(m) /\ UNCHANGED <<order, booked>>
    BY <1>2 DEF Claim, TrailWrite, HasCopy, exchangeVars
  <2>2. meta'.uncertain = Copy(m) \/ meta' = meta
    BY <1>2, <1>0 DEF Claim, TrailWrite, Copy, AddsTypes, ThreadTypes, Locals, Metas
  <2>3. meta.uncertain # 0 => Copy(m) = meta.uncertain
    BY <2>1 DEF Ledger, CopyFits
  <2> SUFFICES ASSUME NEW s \in Steps, Pending(s)', booked'[s] = 0
               PROVE  meta'.uncertain = s
    BY DEF Traced, NotLost
  <2>4. ~InHand(s)
    BY <1>0, <2>1 DEF InHand
  <2>5. meta.uncertain = s /\ s # 0
    BY <2>1, <2>4 DEF Traced, NotLost, Pending, Steps
  <2> QED BY <2>2, <2>3, <2>5
<1>3. CASE Send(m)
  <2>1. pc[m] = "execute" /\ Copy(m) = 0 /\ HasCopy(m) /\ Step(m) \in Steps
    BY <1>0, <1>3 DEF Send, MaySend, Copy, HasCopy, AddsTypes, ThreadTypes
  <2>2. meta.uncertain = 0
    BY <2>1, NoMarker
  <2>3. PICK state \in {"filled", "refused", "working", "lost"},
             label \in {"apply", "revert", "mark"} :
         /\ Outcome(Step(m), state) /\ Goto(m, label) /\ UNCHANGED <<booked, loc>>
         /\ label = "revert" => state = "refused"
    BY <1>3 DEF Send
  <2> SUFFICES ASSUME NEW s \in Steps, Pending(s)', booked'[s] = 0
               PROVE  InHand(s)'
    BY DEF Traced, NotLost
  <2>4. CASE s = Step(m)
    <3>1. state # "refused"
      BY <2>3, <2>4 DEF Outcome, Pending, AddsTypes, SharedTypes
    <3> QED BY <1>0, <2>3, <2>4, <3>1 DEF InHand, Goto, AddsTypes, ThreadTypes
  <2>5. CASE s # Step(m)
    <3>1. Pending(s) /\ ~InHand(s)
      BY <1>0, <2>1, <2>3, <2>5 DEF Outcome, Pending, InHand, AddsTypes, SharedTypes
    <3> QED BY <2>2, <2>3, <3>1 DEF Traced, NotLost, Steps
  <2> QED BY <2>4, <2>5
<1>4. CASE Mark(m) \/ Apply(m)
  <2>1. pc[m] \in {"mark", "apply"} /\ Copy(m) = 0 /\ HasCopy(m) /\ Step(m) \in Steps
    <3>1. pc[m] \in {"mark", "apply"} /\ Turn(m)
      BY <1>4 DEF Mark, Apply, Ledger
    <3> QED BY <1>0, <3>1 DEF Turn, HasCopy, AddsTypes, ThreadTypes
  <2>2. meta.uncertain = 0 /\ UNCHANGED order
    BY <1>4, <2>1, NoMarker DEF Mark, Apply, exchangeVars
  <2> SUFFICES ASSUME NEW s \in Steps, Pending(s)', booked'[s] = 0
               PROVE  meta'.uncertain = s
    BY DEF Traced, NotLost
  <2>3. CASE Mark(m)
    <3>1. UNCHANGED booked /\ meta'.uncertain = Step(m)
      BY <1>0, <2>3 DEF Mark, Marked, AddsTypes, ThreadTypes, Locals, Metas
    <3>2. InHand(s)
      BY <2>2, <3>1 DEF Traced, NotLost, Pending, Steps
    <3> QED BY <1>0, <3>1, <3>2 DEF InHand
  <2>4. CASE Apply(m)
    <3>1. booked' = [booked EXCEPT ![Step(m)] = Min({@ + 1, 2})]
      BY <2>4 DEF Apply, Book
    <3>2. s # Step(m)
      <4>1. SUFFICES ASSUME s = Step(m) PROVE FALSE
        OBVIOUS
      <4>2. booked[s] + 1 \in Int /\ booked[s] + 1 > 0
        BY DEF AddsTypes, SharedTypes
      <4>3. Min({booked[s] + 1, 2}) \in {booked[s] + 1, 2}
        <5>1. 2 \in Int OBVIOUS
        <5> QED BY <4>2, <5>1, MinOfTwo
      <4>4. booked'[s] = Min({booked[s] + 1, 2})
        BY <3>1, <4>1 DEF AddsTypes, SharedTypes
      <4> QED BY <4>2, <4>3, <4>4
    <3>3. booked[s] = 0 /\ ~InHand(s)
      BY <1>0, <2>1, <3>1, <3>2 DEF InHand, AddsTypes, SharedTypes
    <3> QED BY <2>2, <3>3 DEF Traced, NotLost, Pending, Steps
  <2> QED BY <1>4, <2>3, <2>4
<1> QED BY <1>1, <1>2, <1>3, <1>4 DEF MonitorStep

LEMMA ReconcilerTrace ==
    ASSUME AddsTypes, Ledger, Traced, ReconcilerStep
    PROVE  Traced'
<1>1. /\ UNCHANGED order /\ \A m \in Monitors : pc'[m] = pc[m] /\ loc'[m] = loc[m]
  BY MonitorIsThread DEF ReconcilerStep, ReconcileRead, Lookup, Adopt, Unclaim, Unmark,
     Goto, GotoIdle, AddsTypes, ThreadTypes, exchangeVars
<1>2. CASE ReconcileRead \/ Lookup \/ Unclaim
  <2>1. UNCHANGED booked /\ meta'.uncertain = meta.uncertain
    BY <1>2 DEF ReconcileRead, Lookup, Unclaim, RevertRow, rowVars, AddsTypes, SharedTypes, Metas
  <2> QED BY <1>1, <2>1, TraceStays
<1>3. CASE Adopt \/ Unmark
  <2>1. pc[R] # "idle"
    BY <1>3 DEF Adopt, Unmark
  <2>2. Step(R) \in Steps /\ meta.uncertain = Step(R)
    BY <2>1, Marking
  <2>3. \A s \in Steps \ {Step(R)} : Pending(s)' /\ booked'[s] = 0 => InHand(s)'
    <3> SUFFICES ASSUME NEW s \in Steps \ {Step(R)}, Pending(s)', booked'[s] = 0
                 PROVE  InHand(s)'
      OBVIOUS
    <3>1. booked[s] = 0 /\ Pending(s)
      BY <1>1, <1>3 DEF Adopt, Unmark, Book, Pending, AddsTypes, SharedTypes
    <3> QED BY <1>1, <2>2, <3>1 DEF Traced, NotLost, InHand
  <2>4. CASE Unmark
    <3>1. ~Pending(Step(R))
      BY <2>4 DEF Ledger, Reconciles, Unmark, Pending
    <3>2. ASSUME NEW s \in Steps, Pending(s)', booked'[s] = 0 PROVE InHand(s)'
      <4>1. s # Step(R)
        BY <1>1, <3>1, <3>2 DEF Pending
      <4> QED BY <2>3, <3>2, <4>1
    <3> QED BY <3>2 DEF Traced, NotLost
  <2>5. CASE Adopt
    <3>1. booked'[Step(R)] # 0
      <4>1. booked[Step(R)] + 1 \in Int /\ booked[Step(R)] + 1 > 0
        BY <2>2 DEF AddsTypes, SharedTypes
      <4>2. Min({booked[Step(R)] + 1, 2}) \in {booked[Step(R)] + 1, 2}
        <5>1. 2 \in Int OBVIOUS
        <5> QED BY <4>1, <5>1, MinOfTwo
      <4>3. booked'[Step(R)] = Min({booked[Step(R)] + 1, 2})
        BY <2>2, <2>5 DEF Adopt, Book, AddsTypes, SharedTypes
      <4> QED BY <4>1, <4>2, <4>3
    <3> QED BY <2>3, <3>1 DEF Traced, NotLost
  <2> QED BY <1>3, <2>4, <2>5
<1> QED BY <1>2, <1>3 DEF ReconcilerStep

LEMMA RememberedStep ==
    ASSUME OneMonitor, AddsTypes, Once, Remembered, [AddsNext]_addVars
    PROVE  Remembered'
<1> SUFFICES ASSUME crashes' = 0, ~slipped' PROVE Traced'
  BY DEF Remembered, Traced, NotLost
<1>1. ASSUME crashes = 0, ~slipped PROVE Traced /\ Ledger
  BY <1>1 DEF Remembered, Traced, NotLost, Once
<1>2. ASSUME NEW m \in Monitors, MonitorStep(m) PROVE Traced'
  <2>1. ~SendExpired(m) /\ ~ApplyError(m)
    BY DEF SendExpired, ApplyError
  <2>2. ~slipped /\ crashes = 0
    BY <1>2, <2>1 DEF MonitorStep, Look, Read, NoTrigger, Claim, Enter, StillUncertain, GiveUp,
       Send, Revert, Mark, Apply, Leave, TrailRead, TrailWrite, historyVars
  <2> QED BY <1>1, <1>2, <2>1, <2>2, MonitorTrace
<1>3. CASE ReconcilerStep
  <2>1. ~slipped /\ crashes = 0
    BY <1>3 DEF ReconcilerStep, ReconcileRead, Lookup, Adopt, Unclaim, Unmark, historyVars
  <2> QED BY <1>1, <1>3, <2>1, ReconcilerTrace
<1>4. ASSUME NEW s \in Steps, Settle(s) PROVE Traced'
  <2>1. Traced /\ UNCHANGED <<meta, booked, pc, loc>>
    BY <1>1, <1>4 DEF Settle, historyVars, rowVars
  <2>2. \A t \in Steps : Pending(t)' => Pending(t)
    BY <1>4 DEF Settle, Outcome, Pending, AddsTypes, SharedTypes
  <2> QED BY <2>1, <2>2 DEF Traced, NotLost, InHand
<1>5. CASE Crash
  BY <1>5 DEF Crash, AddsTypes, SharedTypes
<1>6. CASE Close \/ UNCHANGED addVars
  <2>1. UNCHANGED <<order, booked, meta, pc, loc, crashes, slipped>>
    BY <1>6 DEF Close, addVars, rowVars, exchangeVars, historyVars
  <2> QED BY <1>1, <2>1, TraceStays
<1> QED BY <1>2, <1>3, <1>4, <1>5, <1>6 DEF AddsNext

LEMMA OnceShows == AddsTypes /\ Once => AddOnce
BY DEF Once, Ledger, Counted, AddOnce

LEMMA RememberedShows == AddsTypes /\ Once /\ Remembered => NoneForgotten
<1> SUFFICES ASSUME AddsTypes, Once, Remembered, crashes = 0, ~slipped,
                    NEW s \in Steps, executed[s] > 0, booked[s] = 0
             PROVE  InHand(s) \/ meta.uncertain = s
  BY DEF NoneForgotten
<1>1. Pending(s)
  BY DEF Once, Ledger, Counted, Pending
<1> QED BY <1>1 DEF Remembered

(* The adds of one trade as a system of their own.                          *)
AddsSpec == AddsInit /\ [][AddsNext]_addVars

(* The type invariant of the adds.                                          *)
THEOREM AddsTypesCorrect == AddsSpec => []AddsTypeOK
<1>1. AddsTypes => AddsTypeOK
  BY TypesInTwo DEF AddsTypes
<1> QED BY <1>1, AddsTypesInit, AddsTypesStep, PTL DEF AddsSpec

(* AddOnce: under one monitor, and however often the process crashes, the     *)
(* reconciler looks or trailing writes its copy back, a step is executed once *)
(* unless the claim of an executed add was given back.                      *)
THEOREM AddOnceCorrect ==
    ASSUME OneMonitor
    PROVE  AddsSpec => []AddOnce
<1>1. AddsTypes /\ Once /\ [AddsNext]_addVars => (AddsTypes /\ Once)'
  BY AddsTypesStep, OnceStep
<1> QED BY <1>1, AddsTypesInit, OnceInit, OnceShows, PTL DEF AddsSpec

(* NoneForgotten: and as long as it does not crash, an executed add is in the *)
(* hands of the monitor, or marked for the reconciler, until it is booked.    *)
THEOREM NoneForgottenCorrect ==
    ASSUME OneMonitor
    PROVE  AddsSpec => []NoneForgotten
<1>1. AddsTypes /\ Once /\ Remembered /\ [AddsNext]_addVars
          => (AddsTypes /\ Once /\ Remembered)'
  BY AddsTypesStep, OnceStep, RememberedStep
<1> QED BY <1>1, AddsTypesInit, OnceInit, RememberedShows, PTL DEF AddsSpec
-----------------------------------------------------------------------------
(***************************** The positions ******************************)

RestAnswers == {Unknown} \cup {<<S>> : S \in SUBSET Symbols}
KeptAnswers == [rows : RestAnswers, young : BOOLEAN, before : BOOLEAN, genuine : BOOLEAN]
AtLabels == {"idle", "inspect", "confirm", "ask", "clear", "mark", "list", "approved",
             "order", "filled", "logged"}
UserEvents == [symbol : Symbols, open : BOOLEAN]

LEMMA ActorsKnown ==
    /\ Checkers \subseteq Actors
    /\ MainLoop \in Actors /\ MainLoop \notin Checkers
    /\ Monitor \in Checkers /\ Ops \in Checkers /\ Operator \in Checkers
BY PositionAssumption DEF Checkers, Actors

(* The trades, and the threads at them.                                     *)
TradeTypes ==
    /\ held \in SUBSET Symbols /\ fresh \in SUBSET Symbols
    /\ trade \in [Symbols -> Nat] /\ entries \in 1 .. MaxOpens
    /\ events \in Seq(UserEvents)
ViewTypes ==
    /\ rows \in SUBSET Symbols /\ flats \in SUBSET Symbols /\ cache \in SUBSET Symbols
    /\ orphans \in SUBSET Symbols /\ heard \in BOOLEAN
    /\ answers \in [Symbols -> KeptAnswers] /\ everything \in RestAnswers
    /\ faults \in 0 .. MaxFaults
CheckTypes ==
    /\ at \in [Actors -> AtLabels] /\ about \in [Actors -> Symbols]
    /\ todo \in [Actors -> SUBSET Symbols] /\ seen \in [Actors -> SUBSET Symbols]
    /\ record \in [Actors -> [Symbols -> Nat]]

(* An entry under way is of a symbol without a trade, and fits the bound.     *)
Entering ==
    at[MainLoop] \in {"approved", "order", "filled"} =>
        trade[about[MainLoop]] = 0 /\ entries < MaxOpens

(* Trades are numbered in the order of their entries; a thread's record of a  *)
(* trade it is to look at is of an open one.                                *)
Numbered ==
    /\ \A s \in Symbols : trade[s] <= entries
    /\ \A t \in Checkers : \A s \in Symbols : record[t][s] <= entries
    /\ \A t \in Checkers : \A s \in todo[t] : record[t][s] # 0
    /\ \A t \in Checkers : at[t] \in {"clear", "mark"} => record[t][about[t]] # 0

PositionTypes == TradeTypes /\ ViewTypes /\ CheckTypes /\ Entering /\ Numbered

LEMMA AnswerTypes ==
    ASSUME ViewTypes, held \in SUBSET Symbols, NEW s \in Symbols, NEW a \in PlainAnswers(s)
    PROVE  /\ a.rows \in RestAnswers /\ a.genuine \in BOOLEAN /\ a.kept \in BOOLEAN
           /\ a.fault \in {0, 1} /\ faults + a.fault \in 0 .. MaxFaults
<1>0. 0 # 1 OBVIOUS
<1>1. answers[s].rows \in RestAnswers /\ answers[s].genuine \in BOOLEAN
  BY DEF ViewTypes, KeptAnswers
<1>2. <<held \cap {s}>> \in RestAnswers /\ <<Local>> \in RestAnswers /\ Unknown \in RestAnswers
  BY DEF RestAnswers, Local, ViewTypes
<1>3. ASSUME NEW raw \in RestAnswers, NEW g \in BOOLEAN, NEW k \in BOOLEAN, NEW f \in {0, 1},
             a = Told(raw, g, k, f), f = 1 => faults # MaxFaults
      PROVE  /\ a.rows \in RestAnswers /\ a.genuine \in BOOLEAN /\ a.kept \in BOOLEAN
             /\ a.fault \in {0, 1} /\ faults + a.fault \in 0 .. MaxFaults
  <2>1. a.rows = raw /\ a.genuine = g /\ a.kept = k /\ a.fault = f
    BY <1>3 DEF Told
  <2>2. faults + f \in 0 .. MaxFaults
    BY <1>3, PositionAssumption DEF ViewTypes
  <2> QED BY <2>1, <2>2
<1>4. CASE a = Told(<<held \cap {s}>>, TRUE, TRUE, 0)
  BY <1>0, <1>2, <1>3, <1>4
<1>5. CASE a = Told(<<Local>>, FALSE, TRUE, 0)
  BY <1>0, <1>2, <1>3, <1>5
<1>6. CASE a = Told(answers[s].rows, answers[s].genuine, FALSE, 0)
  BY <1>0, <1>1, <1>3, <1>6
<1>7. CASE faults # MaxFaults /\ a = Told(Unknown, FALSE, FALSE, 1)
  BY <1>2, <1>3, <1>7
<1>8. CASE faults # MaxFaults /\ a = Told(answers[s].rows, FALSE, FALSE, 1)
  BY <1>1, <1>3, <1>8
<1> QED BY <1>4, <1>5, <1>6, <1>7, <1>8 DEF PlainAnswers, PriorityAnswers, UrgentAnswers

LEMMA UrgentIsPlain ==
    ASSUME NEW s
    PROVE  UrgentAnswers(s) \subseteq PlainAnswers(s) /\ PriorityAnswers(s) \subseteq PlainAnswers(s)
BY DEF PlainAnswers, PriorityAnswers

(* An answer is kept as it came.                                            *)
LEMMA AsksTypes ==
    ASSUME ViewTypes, held \in SUBSET Symbols, NEW t, NEW s \in Symbols,
           NEW a \in PlainAnswers(s), Asks(t, s, a)
    PROVE  answers' \in [Symbols -> KeptAnswers] /\ faults' \in 0 .. MaxFaults
<1>1. /\ a.rows \in RestAnswers /\ a.genuine \in BOOLEAN /\ faults + a.fault \in 0 .. MaxFaults
  BY AnswerTypes
<1>2. [rows |-> a.rows, young |-> TRUE, before |-> FALSE, genuine |-> a.genuine] \in KeptAnswers
  BY <1>1 DEF KeptAnswers
<1> QED BY <1>1, <1>2 DEF Asks, ViewTypes

LEMMA AllTypes ==
    ASSUME ViewTypes, held \in SUBSET Symbols, NEW a \in AllAnswers
    PROVE  /\ a.rows \in RestAnswers /\ a.parsed \in BOOLEAN /\ faults + a.fault \in 0 .. MaxFaults
           /\ a.parsed => a.rows # Unknown
           /\ a.rows # Unknown => a.rows[1] \in SUBSET Symbols
<1>1. held \in SUBSET Symbols /\ Local \in SUBSET Symbols
  BY DEF Local, ViewTypes
<1>2. CASE \E S \in {held, Local} : a = [rows |-> <<S>>, parsed |-> TRUE, fault |-> 0]
  <2>1. PICK S \in SUBSET Symbols : a = [rows |-> <<S>>, parsed |-> TRUE, fault |-> 0]
    BY <1>1, <1>2
  <2>2. a.rows = <<S>> /\ a.parsed = TRUE /\ a.fault = 0
    BY <2>1
  <2>3. <<S>> \in RestAnswers /\ <<S>> # Unknown /\ <<S>>[1] = S
    BY DEF RestAnswers, Unknown
  <2>4. faults + 0 \in 0 .. MaxFaults
    BY DEF ViewTypes
  <2> QED BY <2>2, <2>3, <2>4
<1>3. CASE \E r \in {everything, Unknown} :
             faults # MaxFaults /\ a = [rows |-> r, parsed |-> FALSE, fault |-> 1]
  <2>1. PICK r \in {everything, Unknown} :
           faults # MaxFaults /\ a = [rows |-> r, parsed |-> FALSE, fault |-> 1]
    BY <1>3
  <2>2. a.rows = r /\ a.parsed = FALSE /\ a.fault = 1
    BY <2>1
  <2>3. r \in RestAnswers
    BY <2>1 DEF RestAnswers, ViewTypes
  <2>4. faults + 1 \in 0 .. MaxFaults
    BY <2>1, PositionAssumption DEF ViewTypes
  <2>5. r # Unknown => r[1] \in SUBSET Symbols
    BY <2>3 DEF RestAnswers
  <2> QED BY <2>2, <2>3, <2>4, <2>5
<1> QED BY <1>2, <1>3 DEF AllAnswers

LEMMA RefreshedTypes ==
    ASSUME ViewTypes, held \in SUBSET Symbols, NEW kept \in SUBSET Symbols,
           NEW S \in Refreshed(kept)
    PROVE  S \in SUBSET Symbols
BY DEF Refreshed, ViewTypes

LEMMA PositionTypesInit == PositionsInit => PositionTypes
<1> SUFFICES ASSUME PositionsInit PROVE PositionTypes
  OBVIOUS
<1>1. (CHOOSE s \in Symbols : TRUE) \in Symbols
  BY PositionAssumption
<1>2. PICK S \in SUBSET Symbols :
         /\ held = S
         /\ trade = [s \in Symbols |-> IF s \in S THEN 1 ELSE 0]
         /\ \/ rows = S /\ cache = S /\ heard = (S # {})
            \/ rows = {} /\ cache = {} /\ heard = FALSE
  BY DEF PositionsInit
<1>3. entries = 1 /\ 1 \in 1 .. MaxOpens
  BY PositionAssumption DEF PositionsInit
<1>4. TradeTypes
  BY <1>2, <1>3 DEF PositionsInit, TradeTypes
<1>5. ViewTypes
  <2>1. NeverAsked \in KeptAnswers /\ Unknown \in RestAnswers
    BY DEF NeverAsked, KeptAnswers, RestAnswers
  <2>2. rows \in SUBSET Symbols /\ cache \in SUBSET Symbols /\ heard \in BOOLEAN
    BY <1>2
  <2>3. faults \in 0 .. MaxFaults
    BY PositionAssumption DEF PositionsInit
  <2> QED BY <2>1, <2>2, <2>3 DEF PositionsInit, ViewTypes
<1>6. CheckTypes
  <2>1. record \in [Actors -> [Symbols -> Nat]]
    BY DEF PositionsInit, NoRows
  <2>2. at \in [Actors -> AtLabels]
    BY DEF PositionsInit, AtLabels
  <2>3. about \in [Actors -> Symbols] /\ todo \in [Actors -> SUBSET Symbols]
        /\ seen \in [Actors -> SUBSET Symbols]
    BY <1>1 DEF PositionsInit
  <2> QED BY <2>1, <2>2, <2>3 DEF CheckTypes
<1>7. Entering
  BY ActorsKnown DEF PositionsInit, Entering
<1>8. Numbered
  <2>1. \A s \in Symbols : trade[s] <= entries
    BY <1>2, <1>3
  <2>2. \A t \in Checkers : /\ todo[t] = {} /\ at[t] = "idle"
                            /\ \A s \in Symbols : record[t][s] <= entries
    BY <1>3, ActorsKnown DEF PositionsInit, NoRows
  <2> QED BY <2>1, <2>2 DEF Numbered
<1> QED BY <1>4, <1>5, <1>6, <1>7, <1>8 DEF PositionTypes

(* What the exchange and time do leaves the threads alone.                   *)
LEMMA OutsideTypes ==
    ASSUME PositionTypes,
           \/ \E s \in Symbols : CloseOutside(s) \/ AnswerAges(s) \/ GraceEnds(s)
           \/ OnUserMessage \/ EventsLost \/ UNCHANGED positionVars
    PROVE  PositionTypes'
<1> USE DEF PositionTypes
<1>1. UNCHANGED <<trade, entries, at, about, todo, record, seen>>
  BY DEF CloseOutside, AnswerAges, GraceEnds, OnUserMessage, EventsLost, positionVars, tradeVars,
     threadVars
<1>2. CheckTypes' /\ Entering' /\ Numbered'
  BY <1>1 DEF CheckTypes, Entering, Numbered
<1>3. ASSUME NEW s \in Symbols
      PROVE  [NeverAsked EXCEPT !.rows = answers[s].rows] \in KeptAnswers
  BY DEF ViewTypes, NeverAsked, KeptAnswers
<1>4. ASSUME NEW s \in Symbols, CloseOutside(s) PROVE TradeTypes' /\ ViewTypes'
  <2>1. [symbol |-> s, open |-> FALSE] \in UserEvents
    BY DEF UserEvents
  <2>2. events' \in Seq(UserEvents) /\ held' \in SUBSET Symbols
    BY <1>4, <2>1 DEF CloseOutside, TradeTypes
  <2> QED BY <1>1, <1>4, <2>2 DEF CloseOutside, TradeTypes, ViewTypes, viewVars
<1>5. ASSUME NEW s \in Symbols, AnswerAges(s) PROVE TradeTypes' /\ ViewTypes'
  BY <1>3, <1>5 DEF AnswerAges, TradeTypes, ViewTypes, tradeVars
<1>6. ASSUME NEW s \in Symbols, GraceEnds(s) PROVE TradeTypes' /\ ViewTypes'
  <2>1. answers' \in [Symbols -> KeptAnswers]
    BY <1>3, <1>6 DEF GraceEnds, ViewTypes
  <2> QED BY <1>6, <2>1 DEF GraceEnds, TradeTypes, ViewTypes
<1>7. CASE OnUserMessage
  <2>1. events # <<>> /\ events \in Seq(UserEvents)
    BY <1>7 DEF OnUserMessage, TradeTypes
  <2>2. Head(events) \in UserEvents /\ Tail(events) \in Seq(UserEvents)
    BY <2>1
  <2>3. Head(events).symbol \in Symbols
    BY <2>2 DEF UserEvents
  <2>4. rows' \in SUBSET Symbols /\ flats' \in SUBSET Symbols
    BY <1>7, <2>3 DEF OnUserMessage, ViewTypes
  <2>5. TradeTypes'
    BY <1>7, <2>2 DEF OnUserMessage, TradeTypes
  <2>6. ViewTypes'
    BY <1>7, <2>4 DEF OnUserMessage, ViewTypes
  <2> QED BY <1>2, <2>5, <2>6
<1>8. CASE EventsLost
  <2>1. faults' \in 0 .. MaxFaults
    BY <1>8, PositionAssumption DEF EventsLost, ViewTypes
  <2>2. events' \in Seq(UserEvents)
    BY <1>8 DEF EventsLost
  <2>3. TradeTypes'
    BY <1>8, <2>2 DEF EventsLost, TradeTypes
  <2>4. ViewTypes'
    BY <1>8, <2>1 DEF EventsLost, ViewTypes, viewVars
  <2> QED BY <1>2, <2>3, <2>4
<1>9. CASE UNCHANGED positionVars
  <2>1. TradeTypes'
    BY <1>9 DEF positionVars, tradeVars, TradeTypes
  <2>2. ViewTypes'
    BY <1>9 DEF positionVars, viewVars, ViewTypes
  <2> QED BY <1>2, <2>1, <2>2
<1> QED BY <1>2, <1>4, <1>5, <1>6, <1>7, <1>8, <1>9

(* A checker goes on; trades are closed at most.                            *)
Others(t) ==
    \A u \in Actors \ {t} : /\ at'[u] = at[u] /\ about'[u] = about[u]
                            /\ todo'[u] = todo[u] /\ record'[u] = record[u]

LEMMA CheckerGoesOn ==
    ASSUME PositionTypes, NEW t \in Checkers, Others(t), UNCHANGED entries,
           \A s \in Symbols : trade'[s] \in {trade[s], 0},
           \A s \in Symbols : record'[t][s] <= entries,
           \A s \in todo'[t] : record'[t][s] # 0,
           at'[t] \in {"clear", "mark"} => record'[t][about'[t]] # 0
    PROVE  Entering' /\ Numbered'
<1>1. t # MainLoop /\ MainLoop \in Actors /\ Checkers \subseteq Actors
  BY ActorsKnown
<1>2. Entering'
  <2>1. at'[MainLoop] = at[MainLoop] /\ about'[MainLoop] = about[MainLoop]
    BY <1>1 DEF Others
  <2>2. about[MainLoop] \in Symbols
    BY <1>1 DEF PositionTypes, CheckTypes
  <2> QED BY <2>1, <2>2 DEF PositionTypes, Entering
<1>3. \A s \in Symbols : trade'[s] <= entries'
  BY DEF PositionTypes, TradeTypes, Numbered
<1>4. \A u \in Checkers : \A s \in Symbols : record'[u][s] <= entries'
  BY <1>1 DEF PositionTypes, Numbered, Others
<1>5. \A u \in Checkers : \A s \in todo'[u] : record'[u][s] # 0
  BY <1>1 DEF PositionTypes, Numbered, Others
<1>6. \A u \in Checkers : at'[u] \in {"clear", "mark"} => record'[u][about'[u]] # 0
  BY <1>1 DEF PositionTypes, Numbered, Others
<1> QED BY <1>2, <1>3, <1>4, <1>5, <1>6 DEF Numbered

(* A round begins: the trades that are open are taken down.                  *)
LEMMA BeginTypes ==
    ASSUME PositionTypes,
           \/ DrainFlats \/ (\E s \in Symbols : MissPosition(s)) \/ Reconcile \/ SyncOnDemand
           \/ \E t \in Checkers : ListTrades(t)
    PROVE  PositionTypes'
<1> USE DEF PositionTypes, Goes
<1> USE ActorsKnown
<1>0. TradeTypes'
  BY DEF DrainFlats, MissPosition, Reconcile, SyncOnDemand, ListTrades, tradeVars, TradeTypes
<1>1. CASE DrainFlats
  <2>1. ViewTypes'
    BY <1>1 DEF DrainFlats, ViewTypes
  <2>2. CheckTypes'
    BY <1>1 DEF DrainFlats, CheckTypes, TradeTypes, ViewTypes, AtLabels
  <2>3. /\ record'[Monitor] = trade /\ at'[Monitor] = "inspect"
        /\ \A s \in todo'[Monitor] : trade[s] # 0
    BY <1>1 DEF DrainFlats, CheckTypes
  <2>4. Others(Monitor) /\ UNCHANGED <<trade, entries>>
    BY <1>1 DEF DrainFlats, Others, CheckTypes, tradeVars
  <2>5. Entering' /\ Numbered'
    BY <2>3, <2>4, CheckerGoesOn DEF Numbered
  <2> QED BY <1>0, <2>1, <2>2, <2>5
<1>2. ASSUME NEW s \in Symbols, MissPosition(s) PROVE PositionTypes'
  <2>1. ViewTypes'
    BY <1>2 DEF MissPosition, ViewTypes, viewVars
  <2>2. CheckTypes'
    BY <1>2 DEF MissPosition, CheckTypes, TradeTypes, AtLabels
  <2>3. /\ record'[Monitor] = trade /\ at'[Monitor] = "confirm"
        /\ \A u \in todo'[Monitor] : trade[u] # 0
    BY <1>2 DEF MissPosition, CheckTypes
  <2>4. Others(Monitor) /\ UNCHANGED <<trade, entries>>
    BY <1>2 DEF MissPosition, Others, CheckTypes, tradeVars
  <2>5. Entering' /\ Numbered'
    BY <2>3, <2>4, CheckerGoesOn DEF Numbered
  <2> QED BY <1>0, <2>1, <2>2, <2>5
<1>3. ASSUME NEW t \in Checkers, NEW S \in SUBSET Symbols, Snapshot(t, S), at[t] = "idle",
             UNCHANGED <<trade, entries, about, todo, record>>
      PROVE  CheckTypes' /\ Entering' /\ Numbered'
  <2>1. CheckTypes'
    BY <1>3 DEF Snapshot, CheckTypes, AtLabels
  <2>2. Others(t) /\ at'[t] = "list"
    BY <1>3 DEF Snapshot, Others, CheckTypes
  <2> QED BY <1>3, <2>1, <2>2, CheckerGoesOn DEF Numbered
<1>4. CASE Reconcile
  <2>1. at[Ops] = "idle" /\ UNCHANGED <<trade, entries, about, todo, record>>
    BY <1>4 DEF Reconcile, Begins, IsAt, tradeVars
  <2>2. UNCHANGED <<rows, heard, flats, answers, orphans>>
    BY <1>4 DEF Reconcile
  <2>3. CASE \E S \in Refreshed(cache) :
                Snapshot(Ops, S) /\ cache' = S /\ UNCHANGED <<everything, faults>>
    <3>1. PICK S \in Refreshed(cache) : Snapshot(Ops, S) /\ cache' = S
                                        /\ UNCHANGED <<everything, faults>>
      BY <2>3
    <3>2. S \in SUBSET Symbols
      BY RefreshedTypes DEF ViewTypes, TradeTypes
    <3>3. ViewTypes'
      BY <2>2, <3>1, <3>2 DEF ViewTypes
    <3> QED BY <1>0, <1>3, <2>1, <3>1, <3>2, <3>3
  <2>4. CASE \E a \in AllAnswers :
                /\ a.rows # Unknown /\ Snapshot(Ops, a.rows[1])
                /\ cache' = IF a.parsed THEN a.rows[1] ELSE cache
                /\ everything' = IF a.parsed THEN a.rows ELSE everything
                /\ faults' = faults + a.fault
    <3>1. PICK a \in AllAnswers :
                /\ a.rows # Unknown /\ Snapshot(Ops, a.rows[1])
                /\ cache' = IF a.parsed THEN a.rows[1] ELSE cache
                /\ everything' = IF a.parsed THEN a.rows ELSE everything
                /\ faults' = faults + a.fault
      BY <2>4
    <3>2. /\ a.rows \in RestAnswers /\ faults + a.fault \in 0 .. MaxFaults
          /\ a.rows[1] \in SUBSET Symbols
      BY <3>1, AllTypes DEF TradeTypes
    <3>3. cache' \in SUBSET Symbols /\ everything' \in RestAnswers /\ faults' \in 0 .. MaxFaults
      BY <3>1, <3>2 DEF ViewTypes
    <3>4. ViewTypes'
      BY <2>2, <3>3 DEF ViewTypes
    <3> QED BY <1>0, <1>3, <2>1, <3>1, <3>2, <3>4
  <2> QED BY <1>4, <2>3, <2>4 DEF Reconcile
<1>5. CASE SyncOnDemand
  <2>1. at[Operator] = "idle" /\ UNCHANGED <<trade, entries, about, todo, record>>
    BY <1>5 DEF SyncOnDemand, Begins, IsAt, tradeVars
  <2>2. UNCHANGED <<flats, answers, orphans>>
    BY <1>5 DEF SyncOnDemand
  <2>3. PICK a \in AllAnswers :
          /\ faults' = faults + a.fault
          /\ everything' = IF a.parsed THEN a.rows ELSE everything
          /\ LET kept == IF a.parsed THEN a.rows[1] ELSE cache IN
             IF a.rows # Unknown /\ a.rows[1] # {}
             THEN /\ Snapshot(Operator, a.rows[1])
                  /\ rows' = rows \cup a.rows[1] /\ heard' = TRUE
                  /\ cache' = kept \cup a.rows[1]
             ELSE /\ \E S \in Refreshed(kept) : Snapshot(Operator, S) /\ cache' = S
                  /\ UNCHANGED <<rows, heard>>
    BY <1>5 DEF SyncOnDemand
  <2> DEFINE kept == IF a.parsed THEN a.rows[1] ELSE cache
  <2>4. /\ a.rows \in RestAnswers /\ faults + a.fault \in 0 .. MaxFaults
        /\ a.rows # Unknown => a.rows[1] \in SUBSET Symbols
        /\ kept \in SUBSET Symbols
    BY AllTypes DEF TradeTypes, ViewTypes
  <2>5. everything' \in RestAnswers /\ faults' \in 0 .. MaxFaults
    BY <2>3, <2>4 DEF ViewTypes
  <2>6. CASE a.rows # Unknown /\ a.rows[1] # {}
    <3>1. ViewTypes'
      BY <2>2, <2>3, <2>4, <2>5, <2>6 DEF ViewTypes
    <3> QED BY <1>0, <1>3, <2>1, <2>3, <2>4, <2>6, <3>1
  <2>7. CASE ~(a.rows # Unknown /\ a.rows[1] # {})
    <3>1. PICK S \in Refreshed(kept) : Snapshot(Operator, S) /\ cache' = S /\ UNCHANGED <<rows, heard>>
      BY <2>3, <2>7
    <3>2. S \in SUBSET Symbols
      BY <2>4, RefreshedTypes DEF TradeTypes
    <3>3. ViewTypes'
      BY <2>2, <2>5, <3>1, <3>2 DEF ViewTypes
    <3> QED BY <1>0, <1>3, <2>1, <3>1, <3>2, <3>3
  <2> QED BY <2>6, <2>7
<1>6. ASSUME NEW t \in Checkers, ListTrades(t) PROVE PositionTypes'
  <2>1. ViewTypes'
    BY <1>6 DEF ListTrades, ViewTypes, viewVars
  <2>2. /\ record' = [record EXCEPT ![t] = trade] /\ UNCHANGED about
        /\ todo' = [todo EXCEPT ![t] = {s \in Symbols : trade[s] # 0} \ seen[t]]
        /\ at' = [at EXCEPT ![t] = IF t = Ops THEN "confirm" ELSE "ask"]
        /\ seen' = [seen EXCEPT ![Operator] = IF t = Operator THEN {} ELSE @]
    BY <1>6 DEF ListTrades
  <2>3. CheckTypes'
    BY <2>2 DEF CheckTypes, TradeTypes, AtLabels
  <2>4. /\ record'[t] = trade /\ at'[t] \notin {"clear", "mark"}
        /\ \A s \in todo'[t] : trade[s] # 0
    BY <2>2 DEF CheckTypes
  <2>5. Others(t) /\ UNCHANGED <<trade, entries>>
    BY <1>6, <2>2 DEF ListTrades, Others, CheckTypes, tradeVars
  <2>6. Entering' /\ Numbered'
    BY <2>4, <2>5, CheckerGoesOn DEF Numbered
  <2> QED BY <1>0, <2>1, <2>3, <2>6
<1> QED BY <1>1, <1>2, <1>4, <1>5, <1>6

(* A thread takes a trade in turn: what it asks of it goes with its record.   *)
LEMMA TakeTypes ==
    ASSUME PositionTypes, NEW t \in Checkers, NEW s \in Symbols, Take(t, s),
           NEW label \in AtLabels, Goes(t, label),
           UNCHANGED <<trade, entries, record, seen>>
    PROVE  CheckTypes' /\ Entering' /\ Numbered'
<1> USE ActorsKnown
<1>1. CheckTypes'
  BY DEF Take, Goes, PositionTypes, CheckTypes
<1>2. /\ Others(t) /\ record[t][s] # 0 /\ about'[t] = s
      /\ todo'[t] \subseteq todo[t]
  BY DEF Take, Goes, Others, PositionTypes, CheckTypes, Numbered
<1>3. \A u \in todo'[t] : record'[t][u] # 0
  BY <1>2 DEF PositionTypes, Numbered
<1>4. \A u \in Symbols : record'[t][u] <= entries
  BY DEF PositionTypes, Numbered
<1> QED BY <1>1, <1>2, <1>3, <1>4, CheckerGoesOn

LEMMA QuestionTypes ==
    ASSUME PositionTypes, NEW s \in Symbols,
           AskOnDemand(s) \/ \E t \in Checkers : AskUrgently(t, s) \/ Spare(t, s)
    PROVE  PositionTypes'
<1> USE DEF PositionTypes
<1> USE ActorsKnown
<1>0. TradeTypes'
  BY DEF AskOnDemand, AskUrgently, Spare, tradeVars, TradeTypes
<1>1. CASE AskOnDemand(s)
  <2>1. Take(Operator, s) /\ UNCHANGED <<trade, entries, record, seen>>
    BY <1>1 DEF AskOnDemand, tradeVars
  <2>2. PICK a \in PlainAnswers(s) :
          /\ Asks(Operator, s, a)
          /\ Goes(Operator, IF SaysFlat(a) THEN "mark" ELSE "ask")
          /\ IF SaysOpen(a)
             THEN rows' = rows \cup {s} /\ heard' = TRUE /\ cache' = cache \cup {s}
             ELSE UNCHANGED <<rows, heard, cache>>
    BY <1>1 DEF AskOnDemand
  <2>3. answers' \in [Symbols -> KeptAnswers] /\ faults' \in 0 .. MaxFaults
    BY <2>2, AsksTypes DEF TradeTypes
  <2>4. rows' \in SUBSET Symbols /\ cache' \in SUBSET Symbols /\ heard' \in BOOLEAN
    BY <2>2 DEF ViewTypes
  <2>5. ViewTypes'
    BY <1>1, <2>3, <2>4 DEF AskOnDemand, ViewTypes
  <2>6. (IF SaysFlat(a) THEN "mark" ELSE "ask") \in AtLabels
    BY DEF AtLabels
  <2>7. CheckTypes' /\ Entering' /\ Numbered'
    BY <2>1, <2>2, <2>6, TakeTypes
  <2> QED BY <1>0, <2>5, <2>7
<1>2. ASSUME NEW t \in Checkers, AskUrgently(t, s) PROVE PositionTypes'
  <2>1. Take(t, s) /\ UNCHANGED <<trade, entries, record, seen>> /\ at[t] \in AtLabels
    BY <1>2 DEF AskUrgently, tradeVars, CheckTypes
  <2>2. PICK a \in UrgentAnswers(s) :
          /\ Asks(t, s, a)
          /\ Goes(t, IF ~SaysFlat(a) THEN at[t]
                     ELSE IF at[t] = "inspect" THEN "clear" ELSE "mark")
    BY <1>2 DEF AskUrgently
  <2>3. a \in PlainAnswers(s)
    BY <2>2, UrgentIsPlain
  <2>4. answers' \in [Symbols -> KeptAnswers] /\ faults' \in 0 .. MaxFaults
    BY <2>2, <2>3, AsksTypes DEF TradeTypes
  <2>5. ViewTypes'
    BY <1>2, <2>4 DEF AskUrgently, ViewTypes
  <2>6. (IF ~SaysFlat(a) THEN at[t] ELSE IF at[t] = "inspect" THEN "clear" ELSE "mark")
            \in AtLabels
    BY <2>1 DEF AtLabels
  <2>7. CheckTypes' /\ Entering' /\ Numbered'
    BY <2>1, <2>2, <2>6, TakeTypes
  <2> QED BY <1>0, <2>5, <2>7
<1>3. ASSUME NEW t \in Checkers, Spare(t, s) PROVE PositionTypes'
  <2>1. UNCHANGED <<tradeVars, viewVars, at, about, record, seen, faults>>
        /\ todo' = [todo EXCEPT ![t] = @ \ {s}]
        /\ at[t] \in {"confirm", "ask"}
    BY <1>3 DEF Spare
  <2>2. ViewTypes'
    BY <2>1 DEF viewVars, ViewTypes
  <2>3. CheckTypes'
    BY <2>1 DEF CheckTypes
  <2>4. Others(t) /\ todo'[t] \subseteq todo[t] /\ UNCHANGED <<trade, entries>>
    BY <2>1 DEF Others, CheckTypes, tradeVars
  <2>5. Entering' /\ Numbered'
    BY <2>1, <2>4, CheckerGoesOn DEF Numbered
  <2> QED BY <1>0, <2>2, <2>3, <2>5
<1> QED BY <1>1, <1>2, <1>3

(* A trade that is closed is numbered 0.                                    *)
LEMMA CloseTypes ==
    ASSUME PositionTypes, NEW t \in Checkers, ClearPosition(t) \/ MarkClosed(t) \/ EndRound(t)
    PROVE  PositionTypes'
<1> USE DEF PositionTypes, Goes
<1> USE ActorsKnown
<1>1. CASE ClearPosition(t)
  <2>1. TradeTypes'
    BY <1>1 DEF ClearPosition, TradeTypes, tradeVars
  <2>2. ViewTypes'
    BY <1>1 DEF ClearPosition, ClearRows, ViewTypes
  <2>3. CheckTypes'
    BY <1>1 DEF ClearPosition, CheckTypes, AtLabels
  <2>4. Others(t) /\ UNCHANGED <<trade, entries, about, todo, record>> /\ at[t] = "clear"
    BY <1>1 DEF ClearPosition, Others, CheckTypes, tradeVars, IsAt
  <2>5. Entering' /\ Numbered'
    BY <2>4, CheckerGoesOn DEF Numbered
  <2> QED BY <2>1, <2>2, <2>3, <2>5
<1>2. CASE MarkClosed(t)
  <2>1. /\ trade' \in [Symbols -> Nat] /\ fresh' \in SUBSET Symbols
        /\ rows' \in SUBSET Symbols /\ cache' \in SUBSET Symbols
        /\ \A s \in Symbols : trade'[s] \in {trade[s], 0}
    <3>1. CASE trade[about[t]] = record[t][about[t]]
      <4>1. /\ trade' = [trade EXCEPT ![about[t]] = 0] /\ fresh' = fresh \ {about[t]}
            /\ rows' = rows \ {about[t]} /\ cache' = cache \ {about[t]}
        BY <1>2, <3>1 DEF MarkClosed, ClearRows
      <4>2. trade' \in [Symbols -> Nat] /\ \A s \in Symbols : trade'[s] \in {trade[s], 0}
        BY <4>1 DEF TradeTypes
      <4>3. fresh' \in SUBSET Symbols /\ rows' \in SUBSET Symbols /\ cache' \in SUBSET Symbols
        BY <4>1 DEF TradeTypes, ViewTypes
      <4> QED BY <4>2, <4>3
    <3>2. CASE trade[about[t]] # record[t][about[t]]
      BY <1>2, <3>2 DEF MarkClosed, TradeTypes, ViewTypes
    <3> QED BY <3>1, <3>2
  <2>2. TradeTypes'
    BY <1>2, <2>1 DEF MarkClosed, TradeTypes
  <2>3. ViewTypes'
    BY <1>2, <2>1 DEF MarkClosed, ViewTypes
  <2>4. CheckTypes'
    BY <1>2 DEF MarkClosed, CheckTypes, AtLabels
  <2>5. Others(t) /\ UNCHANGED <<entries, about, todo, record>> /\ at'[t] \notin {"clear", "mark"}
    BY <1>2 DEF MarkClosed, Others, CheckTypes
  <2>6. Entering' /\ Numbered'
    BY <2>1, <2>5, CheckerGoesOn DEF Numbered
  <2> QED BY <2>2, <2>3, <2>4, <2>6
<1>3. CASE EndRound(t)
  <2>1. TradeTypes'
    BY <1>3 DEF EndRound, TradeTypes, tradeVars
  <2>2. orphans' \in SUBSET Symbols
    BY <1>3 DEF EndRound, ViewTypes, CheckTypes
  <2>3. ViewTypes'
    BY <1>3, <2>2 DEF EndRound, ViewTypes
  <2>4. (CHOOSE s \in Symbols : TRUE) \in Symbols /\ NoRows \in [Symbols -> Nat]
    BY PositionAssumption DEF NoRows
  <2>5. CheckTypes'
    BY <1>3, <2>4 DEF EndRound, CheckTypes, AtLabels
  <2>6. Others(t) /\ todo[t] = {} /\ UNCHANGED <<trade, entries, todo>>
        /\ record'[t] = NoRows /\ at'[t] = "idle"
    BY <1>3 DEF EndRound, Others, CheckTypes, tradeVars
  <2>7. \A s \in Symbols : record'[t][s] <= entries
    BY <2>6 DEF NoRows, TradeTypes
  <2>8. Entering' /\ Numbered'
    BY <2>6, <2>7, CheckerGoesOn
  <2> QED BY <2>1, <2>3, <2>5, <2>8
<1> QED BY <1>1, <1>2, <1>3

(* An entry, from its approval to its seeding.                              *)
LEMMA EntryTypes ==
    ASSUME PositionTypes,
           (\E s \in Symbols : Approve(s)) \/ Execute \/ Fill \/ LogTrade \/ SeedPosition
    PROVE  PositionTypes'
<1> USE DEF PositionTypes, Goes
<1> USE ActorsKnown
<1>1. \A t \in Checkers : at'[t] = at[t] /\ about'[t] = about[t]
                          /\ todo'[t] = todo[t] /\ record'[t] = record[t]
  BY DEF Approve, Execute, AskForEntry, Fill, LogTrade, SeedPosition, CheckTypes
<1>2. CheckTypes' /\ UNCHANGED <<todo, record, seen>>
  <2>1. UNCHANGED <<todo, record, seen>>
    BY DEF Approve, Execute, Fill, LogTrade, SeedPosition
  <2>2. at' \in [Actors -> AtLabels]
    <3>1. \E label \in AtLabels : Goes(MainLoop, label)
      BY DEF Approve, Execute, AskForEntry, Fill, LogTrade, SeedPosition, AtLabels
    <3> QED BY <3>1 DEF CheckTypes
  <2>3. about' \in [Actors -> Symbols]
    <3>1. CASE (\E s \in Symbols : Approve(s)) \/ Execute
      <4>1. \E s \in Symbols : about' = [about EXCEPT ![MainLoop] = s]
        BY <3>1 DEF Approve, Execute, AskForEntry, CheckTypes
      <4> QED BY <4>1 DEF CheckTypes
    <3>2. CASE Fill \/ LogTrade \/ SeedPosition
      BY <3>2 DEF Fill, LogTrade, SeedPosition, CheckTypes
    <3> QED BY <3>1, <3>2
  <2> QED BY <2>1, <2>2, <2>3 DEF CheckTypes
<1>3. ASSUME \A s \in Symbols : trade'[s] <= entries', entries' \in Nat, entries <= entries'
      PROVE  Numbered'
  <2>1. \A t \in Checkers : \A s \in Symbols : record'[t][s] <= entries'
    <3>1. ASSUME NEW t \in Checkers, NEW s \in Symbols PROVE record'[t][s] <= entries'
      <4>1. record[t][s] \in Nat /\ record[t][s] <= entries /\ record'[t][s] = record[t][s]
        BY <1>1 DEF CheckTypes, Numbered
      <4> QED BY <1>3, <4>1 DEF TradeTypes
    <3> QED BY <3>1
  <2>2. \A t \in Checkers : \A s \in todo'[t] : record'[t][s] # 0
    BY <1>1 DEF Numbered
  <2>3. \A t \in Checkers : at'[t] \in {"clear", "mark"} => record'[t][about'[t]] # 0
    BY <1>1 DEF Numbered
  <2> QED BY <1>3, <2>1, <2>2, <2>3 DEF Numbered
<1>4. ASSUME NEW s \in Symbols, NEW possible \in SUBSET PlainAnswers(s), NEW label \in AtLabels,
             AskForEntry(s, possible, label), entries < MaxOpens,
             UNCHANGED <<tradeVars, rows, heard, flats, cache, everything, orphans>>
      PROVE  PositionTypes'
  <2>1. PICK a \in PlainAnswers(s) : Asks(MainLoop, s, a)
    BY <1>4 DEF AskForEntry
  <2>2. ViewTypes'
    BY <1>4, <2>1, AsksTypes DEF ViewTypes, TradeTypes
  <2>3. TradeTypes'
    BY <1>4 DEF TradeTypes, tradeVars
  <2>4. trade[s] = 0 /\ about'[MainLoop] = s
    BY <1>4 DEF AskForEntry, CheckTypes
  <2>5. Entering'
    BY <1>4, <2>4 DEF Entering, tradeVars
  <2>6. Numbered'
    BY <1>3, <1>4 DEF Numbered, TradeTypes, tradeVars
  <2> QED BY <1>2, <2>2, <2>3, <2>5, <2>6
<1>5. ASSUME NEW s \in Symbols, Approve(s) PROVE PositionTypes'
  <2>1. "approved" \in AtLabels /\ PlainAnswers(s) \subseteq PlainAnswers(s)
    BY DEF AtLabels
  <2> QED BY <1>4, <1>5, <2>1 DEF Approve
<1>6. CASE Execute
  <2>1. about[MainLoop] \in Symbols /\ entries < MaxOpens /\ "order" \in AtLabels
    BY <1>6 DEF Execute, IsAt, CheckTypes, Entering, AtLabels
  <2>2. PriorityAnswers(about[MainLoop]) \subseteq PlainAnswers(about[MainLoop])
    BY UrgentIsPlain
  <2> QED BY <1>4, <1>6, <2>1, <2>2 DEF Execute
<1>7. CASE Fill
  <2>1. about[MainLoop] \in Symbols
    BY DEF CheckTypes
  <2>2. [symbol |-> about[MainLoop], open |-> TRUE] \in UserEvents
    BY <2>1 DEF UserEvents
  <2>3. held' \in SUBSET Symbols /\ events' \in Seq(UserEvents)
    BY <1>7, <2>1, <2>2 DEF Fill, TradeTypes
  <2>4. TradeTypes'
    BY <1>7, <2>3 DEF Fill, TradeTypes
  <2>5. answers[about[MainLoop]] \in KeptAnswers
    BY <2>1 DEF ViewTypes
  <2>6. [answers[about[MainLoop]] EXCEPT !.before = answers[about[MainLoop]].young] \in KeptAnswers
    BY <2>5 DEF KeptAnswers
  <2>7. answers' = [answers EXCEPT ![about[MainLoop]] =
                        [answers[about[MainLoop]] EXCEPT !.before = answers[about[MainLoop]].young]]
    BY <1>7, <2>1 DEF Fill, ViewTypes
  <2>8. answers' \in [Symbols -> KeptAnswers]
    BY <2>1, <2>6, <2>7 DEF ViewTypes
  <2>9. ViewTypes'
    BY <1>7, <2>8 DEF Fill, ViewTypes
  <2>10. Entering'
    BY <1>7 DEF Fill, Entering, IsAt
  <2>11. Numbered'
    BY <1>3, <1>7 DEF Fill, Numbered, TradeTypes
  <2> QED BY <1>2, <2>4, <2>9, <2>10, <2>11
<1>8. CASE LogTrade
  <2>1. about[MainLoop] \in Symbols /\ entries < MaxOpens
    BY <1>8 DEF LogTrade, IsAt, CheckTypes, Entering
  <2>2. entries' \in 1 .. MaxOpens /\ entries' \in Nat /\ entries' = entries + 1
    BY <1>8, <2>1, PositionAssumption DEF LogTrade, TradeTypes
  <2>3. trade' \in [Symbols -> Nat] /\ fresh' \in SUBSET Symbols
    BY <1>8, <2>1, <2>2 DEF LogTrade, TradeTypes
  <2>4. TradeTypes'
    BY <1>8, <2>2, <2>3 DEF LogTrade, TradeTypes
  <2>5. ViewTypes'
    BY <1>8 DEF LogTrade, ViewTypes, viewVars
  <2>6. Entering'
    BY <1>8 DEF LogTrade, Entering, CheckTypes
  <2>7. \A s \in Symbols : trade'[s] <= entries'
    BY <1>8, <2>2 DEF LogTrade, Numbered, TradeTypes
  <2>8. Numbered'
    BY <1>3, <2>2, <2>7 DEF TradeTypes
  <2> QED BY <1>2, <2>4, <2>5, <2>6, <2>8
<1>9. CASE SeedPosition
  <2>1. TradeTypes'
    BY <1>9 DEF SeedPosition, TradeTypes, tradeVars
  <2>2. ViewTypes'
    BY <1>9 DEF SeedPosition, Seeds, ViewTypes, CheckTypes
  <2>3. Entering'
    BY <1>9 DEF SeedPosition, Entering, CheckTypes
  <2>4. Numbered'
    BY <1>3, <1>9 DEF SeedPosition, Numbered, TradeTypes, tradeVars
  <2> QED BY <1>2, <2>1, <2>2, <2>3, <2>4
<1> QED BY <1>5, <1>6, <1>7, <1>8, <1>9

LEMMA PositionTypesStep == PositionTypes /\ [PositionsNext]_positionVars => PositionTypes'
<1> SUFFICES ASSUME PositionTypes, [PositionsNext]_positionVars PROVE PositionTypes'
  OBVIOUS
<1>1. ASSUME NEW t \in Checkers, CheckStep(t) PROVE PositionTypes'
  BY <1>1, BeginTypes, QuestionTypes, CloseTypes DEF CheckStep
<1>2. CASE PositionsNext
  BY <1>1, <1>2, OutsideTypes, BeginTypes, QuestionTypes, EntryTypes DEF PositionsNext
<1> QED BY <1>2, OutsideTypes

LEMMA PositionTypesShow == PositionTypes => PositionsTypeOK
<1> SUFFICES ASSUME PositionTypes PROVE PositionsTypeOK
  OBVIOUS
<1>1. \A i \in DOMAIN events : events[i] \in [symbol : Symbols, open : BOOLEAN]
  <2>1. events \in Seq(UserEvents)
    BY DEF PositionTypes, TradeTypes
  <2>2. \A i \in DOMAIN events : events[i] \in UserEvents
    BY <2>1
  <2> QED BY <2>2 DEF UserEvents
<1>2. UNION {held, fresh, rows, flats, cache, orphans} \subseteq Symbols
  BY DEF PositionTypes, TradeTypes, ViewTypes
<1>3. \A s \in Symbols : trade[s] \in 0 .. MaxOpens
  BY PositionAssumption DEF PositionTypes, TradeTypes, Numbered
<1>4. trade \in [Symbols -> 0 .. MaxOpens]
  BY <1>3 DEF PositionTypes, TradeTypes
<1> QED BY <1>1, <1>2, <1>4
        DEF PositionTypes, TradeTypes, ViewTypes, CheckTypes, AtLabels, PositionsTypeOK
-----------------------------------------------------------------------------
(* A kept answer that speaks of no position, with one there, is from before   *)
(* the entry, whose grace lasts longer than the answer.                      *)
KeptFits ==
    \A s \in Symbols :
        answers[s].young /\ answers[s].genuine /\ answers[s].rows = <<{}>> /\ s \in held =>
            answers[s].before /\ (s \in fresh \/ trade[s] = 0)

(* What a thread's verdict rests on: the exchange's own answer, and a symbol  *)
(* that is still without a position.                                        *)
Verdict(t) ==
    Condemns(t) => /\ t \in genuine => t \in wasFlat
                   /\ t \in wasFlat => about[t] \notin held
Judged == KeptFits /\ \A t \in Checkers : Verdict(t)

LEMMA JudgedInit == PositionsInit => Judged
<1> SUFFICES ASSUME PositionsInit PROVE Judged
  OBVIOUS
<1>1. \A s \in Symbols : answers[s].young = FALSE
  BY DEF PositionsInit, NeverAsked
<1>2. \A t \in Checkers : at[t] = "idle"
  BY ActorsKnown DEF PositionsInit
<1> QED BY <1>1, <1>2 DEF Judged, KeptFits, Verdict, Condemns

(* Nothing but time, the exchange and the stream.                            *)
LEMMA OutsideJudged ==
    ASSUME PositionTypes, Judged,
           \/ \E s \in Symbols : CloseOutside(s) \/ AnswerAges(s) \/ GraceEnds(s)
           \/ OnUserMessage \/ EventsLost \/ UNCHANGED positionVars
    PROVE  Judged'
<1>1. UNCHANGED <<trade, at, about, record, genuine>>
  BY DEF CloseOutside, AnswerAges, GraceEnds, OnUserMessage, EventsLost, positionVars, tradeVars,
     threadVars, ghostVars
<1>2. ASSUME NEW s \in Symbols, CloseOutside(s) PROVE Judged'
  <2>1. UNCHANGED <<answers, fresh>> /\ held' = held \ {s} /\ wasFlat' = Flat(s)
    BY <1>2 DEF CloseOutside, viewVars
  <2>2. KeptFits'
    BY <1>1, <2>1 DEF Judged, KeptFits
  <2>3. ASSUME NEW t \in Checkers PROVE Verdict(t)'
    <3>1. CASE about[t] = s
      <4>1. at[t] \in {"clear", "mark"} => t \in wasFlat'
        BY <2>1, <3>1 DEF Flat, About
      <4> QED BY <1>1, <2>1, <3>1, <4>1 DEF Verdict, Condemns
    <3>2. CASE about[t] # s
      <4>1. wasFlat' \cap {t} = wasFlat \cap {t}
        BY <2>1, <3>2 DEF Flat, About
      <4> QED BY <1>1, <2>1, <3>2, <4>1 DEF Judged, Verdict, Condemns
    <3> QED BY <3>1, <3>2
  <2> QED BY <2>2, <2>3 DEF Judged
<1>3. ASSUME UNCHANGED <<held, wasFlat>> PROVE \A t \in Checkers : Verdict(t)'
  BY <1>1, <1>3 DEF Judged, Verdict, Condemns
<1>4. ASSUME NEW s \in Symbols, AnswerAges(s) PROVE Judged'
  <2>1. \A u \in Symbols : u # s => answers'[u] = answers[u]
    BY <1>4 DEF AnswerAges, PositionTypes, ViewTypes
  <2>2. answers'[s].young = FALSE
    BY <1>4 DEF AnswerAges, PositionTypes, ViewTypes, NeverAsked
  <2>3. UNCHANGED <<held, wasFlat, fresh>>
    BY <1>4 DEF AnswerAges, tradeVars, ghostVars
  <2> QED BY <1>1, <1>3, <2>1, <2>2, <2>3 DEF Judged, KeptFits
<1>5. ASSUME NEW s \in Symbols, GraceEnds(s) PROVE Judged'
  <2>1. \A u \in Symbols : u # s => answers'[u] = answers[u]
    BY <1>5 DEF GraceEnds, PositionTypes, ViewTypes
  <2>2. IF answers[s].before THEN answers'[s].young = FALSE ELSE answers'[s] = answers[s]
    BY <1>5 DEF GraceEnds, PositionTypes, ViewTypes, NeverAsked
  <2>3. UNCHANGED <<held, wasFlat>> /\ fresh' = fresh \ {s}
    BY <1>5 DEF GraceEnds, ghostVars
  <2> QED BY <1>1, <1>3, <2>1, <2>2, <2>3 DEF Judged, KeptFits
<1>6. CASE OnUserMessage \/ EventsLost \/ UNCHANGED positionVars
  <2>1. UNCHANGED <<answers, held, fresh, wasFlat>>
    BY <1>6 DEF OnUserMessage, EventsLost, positionVars, tradeVars, viewVars, ghostVars
  <2> QED BY <1>1, <1>3, <2>1 DEF Judged, KeptFits
<1> QED BY <1>2, <1>4, <1>5, <1>6

(* A round begins, spares a trade or ends: no verdict comes of it.            *)
LEMMA RoundsJudged ==
    ASSUME PositionTypes, Judged,
           \/ DrainFlats \/ (\E s \in Symbols : MissPosition(s)) \/ Reconcile \/ SyncOnDemand
           \/ \E t \in Checkers : \/ ListTrades(t) \/ EndRound(t)
                                  \/ \E s \in Symbols : Spare(t, s)
    PROVE  Judged'
<1> USE ActorsKnown
<1>1. UNCHANGED <<held, trade, fresh, answers>>
  BY DEF DrainFlats, MissPosition, Reconcile, SyncOnDemand, ListTrades, EndRound, Spare,
     tradeVars, viewVars
<1>2. KeptFits'
  BY <1>1 DEF Judged, KeptFits
<1>3. ASSUME NEW t \in Checkers, Others(t), at'[t] \notin {"clear", "mark"},
             \A u \in Checkers \ {t} : /\ u \in genuine' <=> u \in genuine
                                       /\ u \in wasFlat' <=> u \in wasFlat
      PROVE  \A u \in Checkers : Verdict(u)'
  <2>1. ASSUME NEW u \in Checkers, u # t PROVE Verdict(u)'
    <3>1. at'[u] = at[u] /\ about'[u] = about[u] /\ record'[u] = record[u]
      BY <1>3, <2>1 DEF Others
    <3> QED BY <1>1, <1>3, <2>1, <3>1 DEF Judged, Verdict, Condemns
  <2>2. Verdict(t)'
    BY <1>3 DEF Verdict, Condemns
  <2> QED BY <2>1, <2>2
<1>4. CASE DrainFlats \/ \E s \in Symbols : MissPosition(s)
  <2>1. Others(Monitor) /\ at'[Monitor] \notin {"clear", "mark"} /\ UNCHANGED <<genuine, wasFlat>>
    BY <1>4 DEF DrainFlats, MissPosition, Others, PositionTypes, CheckTypes, Goes, ghostVars
  <2> QED BY <1>2, <1>3, <2>1 DEF Judged
<1>5. CASE Reconcile
  <2>1. Others(Ops) /\ at'[Ops] \notin {"clear", "mark"} /\ UNCHANGED <<genuine, wasFlat>>
    BY <1>5 DEF Reconcile, Snapshot, Others, PositionTypes, CheckTypes, Goes, ghostVars
  <2> QED BY <1>2, <1>3, <2>1 DEF Judged
<1>6. CASE SyncOnDemand
  <2>1. \E S : Snapshot(Operator, S)
    BY <1>6 DEF SyncOnDemand
  <2>2. UNCHANGED <<about, todo, record, genuine, wasFlat>>
    BY <1>6 DEF SyncOnDemand, ghostVars
  <2>3. Others(Operator) /\ at'[Operator] \notin {"clear", "mark"}
    BY <2>1, <2>2 DEF Snapshot, Others, PositionTypes, CheckTypes, Goes
  <2> QED BY <1>2, <1>3, <2>2, <2>3 DEF Judged
<1>7. ASSUME NEW t \in Checkers, ListTrades(t) \/ EndRound(t) PROVE Judged'
  <2>1. Others(t) /\ at'[t] \notin {"clear", "mark"}
    BY <1>7 DEF ListTrades, EndRound, Others, PositionTypes, CheckTypes, Goes
  <2>2. \A u \in Checkers \ {t} : /\ u \in genuine' <=> u \in genuine
                                  /\ u \in wasFlat' <=> u \in wasFlat
    BY <1>7 DEF ListTrades, EndRound, ghostVars
  <2> QED BY <1>2, <1>3, <2>1, <2>2 DEF Judged
<1>8. ASSUME NEW t \in Checkers, NEW s \in Symbols, Spare(t, s) PROVE Judged'
  <2>1. Others(t) /\ at'[t] \notin {"clear", "mark"} /\ UNCHANGED <<genuine, wasFlat>>
    BY <1>8 DEF Spare, Others, PositionTypes, CheckTypes, ghostVars
  <2> QED BY <1>2, <1>3, <2>1 DEF Judged
<1> QED BY <1>4, <1>5, <1>6, <1>7, <1>8

(* A question is answered.  Only the exchange's own answers count: one that   *)
(* it gives now is right, and one that was kept is not asked in the grace.    *)
LEMMA AskedKept ==
    ASSUME PositionTypes, KeptFits, NEW t, NEW s \in Symbols, NEW a \in PlainAnswers(s),
           Asks(t, s, a), UNCHANGED <<held, trade, fresh>>
    PROVE  KeptFits'
<1>1. CASE ~a.kept
  BY <1>1 DEF Asks, KeptFits
<1>2. CASE a.kept
  <2>1. \A u \in Symbols : u # s => answers'[u] = answers[u]
    BY <1>2 DEF Asks, PositionTypes, ViewTypes
  <2>2. answers'[s].rows = a.rows /\ answers'[s].genuine = a.genuine
    BY <1>2 DEF Asks, PositionTypes, ViewTypes
  <2>3. a = Told(<<held \cap {s}>>, TRUE, TRUE, 0) \/ ~a.genuine
    BY <1>2 DEF PlainAnswers, PriorityAnswers, UrgentAnswers, Told
  <2>4. a.genuine /\ s \in held => a.rows # <<{}>>
    <3>1. ASSUME a = Told(<<held \cap {s}>>, TRUE, TRUE, 0), a.rows = <<{}>> PROVE s \notin held
      <4>1. <<held \cap {s}>> = <<{}>>
        BY <3>1 DEF Told
      <4>2. held \cap {s} = {}
        BY <4>1
      <4> QED BY <4>2
    <3> QED BY <2>3, <3>1
  <2> QED BY <2>1, <2>2, <2>4 DEF KeptFits
<1> QED BY <1>1, <1>2

LEMMA GenuineIsRight ==
    ASSUME PositionTypes, KeptFits, NEW s \in Symbols, NEW a \in PlainAnswers(s),
           a.genuine, SaysFlat(a), s \in held
    PROVE  /\ a \notin UrgentAnswers(s)
           /\ s \in fresh \/ trade[s] = 0
<1>1. a # Told(<<held \cap {s}>>, TRUE, TRUE, 0)
  <2>1. ASSUME a = Told(<<held \cap {s}>>, TRUE, TRUE, 0) PROVE FALSE
    <3>1. <<held \cap {s}>> = <<{}>>
      BY <2>1 DEF Told, SaysFlat
    <3>2. held \cap {s} = {}
      BY <3>1
    <3> QED BY <3>2
  <2> QED BY <2>1
<1>2. a \notin UrgentAnswers(s)
  BY <1>1 DEF UrgentAnswers, Told
<1>3. answers[s].young /\ a = Told(answers[s].rows, answers[s].genuine, FALSE, 0)
  BY <1>2 DEF PlainAnswers, PriorityAnswers, Told
<1>4. answers[s].rows = <<{}>> /\ answers[s].genuine
  BY <1>3 DEF Told, SaysFlat
<1> QED BY <1>2, <1>3, <1>4 DEF KeptFits

LEMMA AskedJudged ==
    ASSUME PositionTypes, Judged, NEW t \in Checkers, NEW s \in Symbols, Take(t, s),
           NEW a \in PlainAnswers(s), Asks(t, s, a), NEW label, Goes(t, label),
           label \in {"clear", "mark"} => SaysFlat(a),
           a \in UrgentAnswers(s) \/ at[t] = "ask",
           UNCHANGED <<tradeVars, record>>
    PROVE  Judged'
<1> USE ActorsKnown
<1>1. KeptFits'
  BY AskedKept DEF Judged, tradeVars
<1>2. ASSUME NEW u \in Checkers, u # t PROVE Verdict(u)'
  <2>1. at'[u] = at[u] /\ about'[u] = about[u] /\ record'[u] = record[u]
    BY <1>2 DEF Goes, Take, PositionTypes, CheckTypes
  <2>2. (u \in genuine' <=> u \in genuine) /\ (u \in wasFlat' <=> u \in wasFlat)
    BY <1>2 DEF Asks, Take
  <2> QED BY <2>1, <2>2 DEF Judged, Verdict, Condemns, tradeVars
<1>3. Verdict(t)'
  <2>1. about'[t] = s /\ at'[t] = label /\ (t \in wasFlat' <=> s \notin held)
    BY DEF Goes, Take, PositionTypes, CheckTypes
  <2>2. t \in genuine' => a.genuine
    BY DEF Asks
  <2>3. record[t][s] # 0
    BY DEF Take, PositionTypes, Numbered
  <2>4. ASSUME label \in {"clear", "mark"}, a.genuine, s \in held, trade[s] = record[t][s]
        PROVE  FALSE
    <3>1. a \notin UrgentAnswers(s) /\ s \in fresh
      BY <2>3, <2>4, GenuineIsRight DEF Judged
    <3>2. ~InGrace(s, record[t][s])
      BY <3>1 DEF Take
    <3> QED BY <2>4, <3>1, <3>2 DEF InGrace
  <2> QED BY <2>1, <2>2, <2>4 DEF Verdict, Condemns, tradeVars
<1> QED BY <1>1, <1>2, <1>3 DEF Judged

LEMMA QuestionJudged ==
    ASSUME PositionTypes, Judged, NEW s \in Symbols,
           AskOnDemand(s) \/ \E t \in Checkers : AskUrgently(t, s)
    PROVE  Judged'
<1> USE ActorsKnown
<1>1. CASE AskOnDemand(s)
  <2>1. PICK a \in PlainAnswers(s) :
          Asks(Operator, s, a) /\ Goes(Operator, IF SaysFlat(a) THEN "mark" ELSE "ask")
    BY <1>1 DEF AskOnDemand
  <2>2. Take(Operator, s) /\ at[Operator] = "ask" /\ UNCHANGED <<tradeVars, record>>
    BY <1>1 DEF AskOnDemand, IsAt
  <2> QED BY <2>1, <2>2, AskedJudged
<1>2. ASSUME NEW t \in Checkers, AskUrgently(t, s) PROVE Judged'
  <2>1. PICK a \in UrgentAnswers(s) :
          /\ Asks(t, s, a)
          /\ Goes(t, IF ~SaysFlat(a) THEN at[t] ELSE IF at[t] = "inspect" THEN "clear" ELSE "mark")
    BY <1>2 DEF AskUrgently
  <2>2. a \in PlainAnswers(s)
    BY <2>1, UrgentIsPlain
  <2>3. Take(t, s) /\ at[t] \in {"inspect", "confirm"} /\ UNCHANGED <<tradeVars, record>>
    BY <1>2 DEF AskUrgently
  <2> DEFINE label == IF ~SaysFlat(a) THEN at[t] ELSE IF at[t] = "inspect" THEN "clear" ELSE "mark"
  <2>4. label \in {"clear", "mark"} => SaysFlat(a)
    BY <2>3
  <2> HIDE DEF label
  <2> QED BY <2>1, <2>2, <2>3, <2>4, AskedJudged DEF label
<1> QED BY <1>1, <1>2

(* A trade that is closed is nobody's any more.                              *)
LEMMA CloseJudged ==
    ASSUME PositionTypes, Judged, NEW t \in Checkers, ClearPosition(t) \/ MarkClosed(t)
    PROVE  Judged'
<1> USE ActorsKnown
<1>1. CASE ClearPosition(t)
  <2>1. UNCHANGED <<held, trade, fresh, answers, about, record, genuine, wasFlat>>
        /\ at' = [at EXCEPT ![t] = "mark"] /\ at[t] = "clear"
    BY <1>1 DEF ClearPosition, tradeVars, Goes, IsAt
  <2>2. \A u \in Checkers : at'[u] \in {"clear", "mark"} => at[u] \in {"clear", "mark"}
    BY <2>1 DEF PositionTypes, CheckTypes
  <2> QED BY <2>1, <2>2 DEF Judged, KeptFits, Verdict, Condemns
<1>2. CASE MarkClosed(t)
  <2>1. UNCHANGED <<held, answers, about, record>> /\ at'[t] \notin {"clear", "mark"}
    BY <1>2 DEF MarkClosed, Goes, PositionTypes, CheckTypes
  <2>2. /\ \A s \in Symbols : trade'[s] \in {trade[s], 0}
        /\ \A s \in fresh : s \in fresh' \/ trade'[s] = 0
    BY <1>2 DEF MarkClosed, PositionTypes, TradeTypes, CheckTypes
  <2>3. KeptFits'
    BY <2>1, <2>2 DEF Judged, KeptFits
  <2>4. ASSUME NEW u \in Checkers, u # t PROVE Verdict(u)'
    <3>1. at'[u] = at[u] /\ (u \in genuine' <=> u \in genuine) /\ (u \in wasFlat' <=> u \in wasFlat)
      BY <1>2, <2>4 DEF MarkClosed, Goes, PositionTypes, CheckTypes
    <3>2. at[u] \in {"clear", "mark"} => record[u][about[u]] # 0
      BY DEF PositionTypes, Numbered
    <3>3. about[u] \in Symbols
      BY DEF PositionTypes, CheckTypes
    <3> QED BY <2>1, <2>2, <3>1, <3>2, <3>3 DEF Judged, Verdict, Condemns
  <2>5. Verdict(t)'
    BY <2>1 DEF Verdict, Condemns
  <2> QED BY <2>3, <2>4, <2>5 DEF Judged
<1> QED BY <1>1, <1>2

(* An entry is of a symbol nobody has a trade of, and its number is new.      *)
LEMMA EntryJudged ==
    ASSUME PositionTypes, Judged,
           (\E s \in Symbols : Approve(s)) \/ Execute \/ Fill \/ LogTrade \/ SeedPosition
    PROVE  Judged'
<1> USE ActorsKnown
<1>1. \A t \in Checkers : /\ at'[t] = at[t] /\ about'[t] = about[t] /\ record'[t] = record[t]
                          /\ about[t] \in Symbols
  BY DEF Approve, Execute, AskForEntry, Fill, LogTrade, SeedPosition, Goes, PositionTypes, CheckTypes
<1>2. wasFlat' = wasFlat /\ \A t \in Checkers : t \in genuine' => t \in genuine
  BY DEF Approve, Execute, AskForEntry, Asks, Fill, LogTrade, SeedPosition, ghostVars
<1>3. ASSUME UNCHANGED tradeVars PROVE \A t \in Checkers : Verdict(t)'
  BY <1>1, <1>2, <1>3 DEF Judged, Verdict, Condemns, tradeVars
<1>4. ASSUME NEW s \in Symbols, NEW a \in PlainAnswers(s), Asks(MainLoop, s, a), UNCHANGED tradeVars
      PROVE  Judged'
  BY <1>3, <1>4, AskedKept DEF Judged, tradeVars
<1>5. CASE \E s \in Symbols : Approve(s)
  <2>1. PICK s \in Symbols : \E a \in PlainAnswers(s) : Asks(MainLoop, s, a)
    BY <1>5 DEF Approve, AskForEntry
  <2>2. UNCHANGED tradeVars
    BY <1>5 DEF Approve
  <2> QED BY <1>4, <2>1, <2>2
<1>6. CASE Execute
  <2>1. PICK a \in PriorityAnswers(about[MainLoop]) : Asks(MainLoop, about[MainLoop], a)
    BY <1>6 DEF Execute, AskForEntry
  <2>2. a \in PlainAnswers(about[MainLoop]) /\ about[MainLoop] \in Symbols
    BY <2>1, UrgentIsPlain DEF PositionTypes, CheckTypes
  <2>3. UNCHANGED tradeVars
    BY <1>6 DEF Execute
  <2> QED BY <1>4, <2>1, <2>2, <2>3
<1>7. CASE Fill
  <2>1. about[MainLoop] \in Symbols /\ trade[about[MainLoop]] = 0 /\ UNCHANGED <<trade, fresh>>
        /\ held' = held \cup {about[MainLoop]}
    BY <1>7 DEF Fill, IsAt, PositionTypes, CheckTypes, Entering
  <2>2. \A u \in Symbols : u # about[MainLoop] => answers'[u] = answers[u]
    BY <1>7 DEF Fill, PositionTypes, ViewTypes
  <2>3. /\ answers'[about[MainLoop]].before = answers[about[MainLoop]].young
        /\ answers'[about[MainLoop]].young = answers[about[MainLoop]].young
    <3>1. answers'[about[MainLoop]] = [answers[about[MainLoop]] EXCEPT
                                           !.before = answers[about[MainLoop]].young]
      BY <1>7, <2>1 DEF Fill, PositionTypes, ViewTypes
    <3>2. answers[about[MainLoop]] \in KeptAnswers
      BY <2>1 DEF PositionTypes, ViewTypes
    <3> QED BY <3>1, <3>2 DEF KeptAnswers
  <2>4. KeptFits'
    BY <2>1, <2>2, <2>3 DEF Judged, KeptFits
  <2>5. ASSUME NEW t \in Checkers PROVE Verdict(t)'
    <3>1. at[t] \in {"clear", "mark"} => record[t][about[t]] # 0
      BY DEF PositionTypes, Numbered
    <3> QED BY <1>1, <1>2, <2>1, <3>1 DEF Judged, Verdict, Condemns
  <2> QED BY <2>4, <2>5 DEF Judged
<1>8. CASE LogTrade
  <2>1. about[MainLoop] \in Symbols /\ UNCHANGED <<held, answers>>
        /\ trade' = [trade EXCEPT ![about[MainLoop]] = entries + 1]
        /\ fresh' = fresh \cup {about[MainLoop]}
    BY <1>8 DEF LogTrade, viewVars, PositionTypes, CheckTypes
  <2>2. /\ trade'[about[MainLoop]] = entries + 1
        /\ \A u \in Symbols : u # about[MainLoop] => trade'[u] = trade[u]
    BY <2>1 DEF PositionTypes, TradeTypes
  <2>3. KeptFits'
    BY <2>1, <2>2 DEF Judged, KeptFits
  <2>4. ASSUME NEW t \in Checkers PROVE Verdict(t)'
    <3>1. record[t][about[MainLoop]] # entries + 1
      BY <2>1 DEF PositionTypes, Numbered, TradeTypes, CheckTypes
    <3> QED BY <1>1, <1>2, <2>1, <2>2, <3>1 DEF Judged, Verdict, Condemns
  <2> QED BY <2>3, <2>4 DEF Judged
<1>9. CASE SeedPosition
  <2>1. UNCHANGED <<tradeVars, answers>>
    BY <1>9 DEF SeedPosition
  <2> QED BY <1>3, <2>1 DEF Judged, KeptFits, tradeVars
<1> QED BY <1>5, <1>6, <1>7, <1>8, <1>9

LEMMA JudgedStep == PositionTypes /\ Judged /\ [PositionsNext]_positionVars => Judged'
<1> SUFFICES ASSUME PositionTypes, Judged, [PositionsNext]_positionVars PROVE Judged'
  OBVIOUS
<1>1. ASSUME NEW t \in Checkers, CheckStep(t) PROVE Judged'
  BY <1>1, RoundsJudged, QuestionJudged, CloseJudged DEF CheckStep
<1>2. CASE PositionsNext
  BY <1>1, <1>2, OutsideJudged, RoundsJudged, QuestionJudged, EntryJudged DEF PositionsNext
<1> QED BY <1>2, OutsideJudged
-----------------------------------------------------------------------------
(* The row of a position, and the events on their way that will set or clear  *)
(* it: it is there to stay, or its opening is on its way and no close after it.*)
Closing(s) == [symbol |-> s, open |-> FALSE]
Opening(s) == [symbol |-> s, open |-> TRUE]
NoClose(s, i) == \A j \in DOMAIN events : j > i => events[j] # Closing(s)
Settled(s) == s \in rows /\ NoClose(s, 0)
Announced(s) == \E i \in DOMAIN events : events[i] = Opening(s) /\ NoClose(s, i)

Entered(s) == s \in held /\ trade[s] > 1
Seeding(s) == at[MainLoop] = "logged" /\ about[MainLoop] = s
Filling(s) == at[MainLoop] = "filled" /\ about[MainLoop] = s /\ s \in held

RowFits(s) ==
    /\ Entered(s) /\ ~Seeding(s) /\ s \notin late => Settled(s)
    /\ (Entered(s) \/ Filling(s)) /\ faults = 0 => Settled(s) \/ Announced(s)
InSight == ~overlap => \A s \in Symbols : RowFits(s)

LEMMA InSightInit == PositionsInit => InSight
<1> SUFFICES ASSUME PositionsInit PROVE InSight
  OBVIOUS
<1>1. \A s \in Symbols : trade[s] \in {0, 1}
  BY DEF PositionsInit
<1>2. at[MainLoop] = "idle"
  BY ActorsKnown DEF PositionsInit
<1> QED BY <1>1, <1>2 DEF InSight, RowFits, Entered, Filling

(* A step that sends no event and takes no row away, of a thread that checks   *)
(* or asks.                                                                 *)
LEMMA RowStays ==
    ASSUME NEW s \in Symbols, RowFits(s), faults \in Nat, faults' \in Nat, faults' = 0 => faults = 0,
           UNCHANGED <<held, events>>, trade'[s] \in {trade[s], 0},
           trade[s] \in Nat,
           s \in rows /\ (Entered(s) \/ Filling(s)) => s \in rows',
           Seeding(s)' <=> Seeding(s), Filling(s)' => Filling(s),
           s \in late' <=> s \in late
    PROVE  RowFits(s)'
<1>1. Entered(s)' => Entered(s)
  BY DEF Entered
<1>2. (Entered(s) \/ Filling(s)) /\ Settled(s) => Settled(s)'
  BY DEF Settled, NoClose
<1>3. Announced(s) => Announced(s)'
  BY DEF Announced, NoClose
<1> QED BY <1>1, <1>2, <1>3 DEF RowFits

(* Rounds, questions, and the passing of time.                              *)
LEMMA ChecksInSight ==
    ASSUME PositionTypes, InSight,
           \/ \E s \in Symbols : AnswerAges(s) \/ GraceEnds(s)
           \/ UNCHANGED positionVars
           \/ DrainFlats \/ (\E s \in Symbols : MissPosition(s)) \/ Reconcile \/ SyncOnDemand
           \/ \E s \in Symbols : AskOnDemand(s)
           \/ \E t \in Checkers : \/ ListTrades(t) \/ EndRound(t)
                                  \/ \E s \in Symbols : Spare(t, s) \/ AskUrgently(t, s)
    PROVE  InSight'
<1> USE ActorsKnown
<1>1. UNCHANGED <<held, events, trade, overlap, late>> /\ rows \subseteq rows'
  <2>1. UNCHANGED <<held, events, trade>>
    BY DEF AnswerAges, GraceEnds, positionVars, DrainFlats, MissPosition, Reconcile, SyncOnDemand,
       AskOnDemand, ListTrades, EndRound, Spare, AskUrgently, tradeVars
  <2>2. UNCHANGED <<overlap, late>>
    BY DEF AnswerAges, GraceEnds, positionVars, DrainFlats, MissPosition, Reconcile, SyncOnDemand,
       AskOnDemand, ListTrades, EndRound, Spare, AskUrgently, ghostVars
  <2>3. rows \subseteq rows'
    BY DEF AnswerAges, GraceEnds, positionVars, DrainFlats, MissPosition, Reconcile, SyncOnDemand,
       AskOnDemand, ListTrades, EndRound, Spare, AskUrgently, viewVars
  <2> QED BY <2>1, <2>2, <2>3
<1>2. at'[MainLoop] = at[MainLoop] /\ about'[MainLoop] = about[MainLoop]
  <2>1. CASE \/ \E s \in Symbols : AnswerAges(s) \/ GraceEnds(s)
             \/ UNCHANGED positionVars
             \/ DrainFlats \/ (\E s \in Symbols : MissPosition(s)) \/ Reconcile
    BY <2>1 DEF AnswerAges, GraceEnds, positionVars, DrainFlats, MissPosition, Reconcile, Snapshot,
       threadVars, Goes, PositionTypes, CheckTypes
  <2>2. CASE SyncOnDemand
    <3>1. \E S : Snapshot(Operator, S)
      BY <2>2 DEF SyncOnDemand
    <3>2. UNCHANGED about
      BY <2>2 DEF SyncOnDemand
    <3> QED BY <3>1, <3>2 DEF Snapshot, Goes, PositionTypes, CheckTypes
  <2>3. CASE \/ \E s \in Symbols : AskOnDemand(s)
             \/ \E t \in Checkers : \/ ListTrades(t) \/ EndRound(t)
                                    \/ \E s \in Symbols : Spare(t, s) \/ AskUrgently(t, s)
    BY <2>3 DEF AskOnDemand, ListTrades, EndRound, Spare, AskUrgently, Take, Goes, PositionTypes,
       CheckTypes
  <2> QED BY <2>1, <2>2, <2>3
<1>3. faults \in Nat /\ faults' \in Nat /\ (faults' = 0 => faults = 0)
  <2>1. PositionTypes'
    BY PositionTypesStep DEF PositionsNext, CheckStep
  <2>2. faults' \in Nat /\ faults \in Nat
    BY <2>1, PositionAssumption DEF PositionTypes, ViewTypes
  <2>3. \/ faults' = faults \/ (\E s \in Symbols, a \in UNION {PlainAnswers(u) : u \in Symbols} :
                                   a \in PlainAnswers(s) /\ faults' = faults + a.fault)
        \/ \E a \in AllAnswers : faults' = faults + a.fault
    BY UrgentIsPlain DEF AnswerAges, GraceEnds, positionVars, DrainFlats, MissPosition, Reconcile, SyncOnDemand,
       AskOnDemand, ListTrades, EndRound, Spare, AskUrgently, Asks
  <2>4. \A s \in Symbols : \A a \in PlainAnswers(s) : a.fault \in {0, 1}
    BY AnswerTypes DEF PositionTypes, TradeTypes
  <2>5. \A a \in AllAnswers : a.fault \in {0, 1}
    BY DEF AllAnswers
  <2> QED BY <2>2, <2>3, <2>4, <2>5
<1>4. ASSUME ~overlap', NEW s \in Symbols PROVE RowFits(s)'
  <2>1. RowFits(s) /\ trade[s] \in Nat
    BY <1>1, <1>4 DEF InSight, PositionTypes, TradeTypes
  <2>2. (Seeding(s)' <=> Seeding(s)) /\ (Filling(s)' => Filling(s))
    BY <1>1, <1>2 DEF Seeding, Filling
  <2> QED BY <1>1, <1>3, <2>1, <2>2, RowStays
<1> QED BY <1>4 DEF InSight

(* Rows that a check clears are of a position that is gone, unless the check  *)
(* was overtaken.                                                           *)
LEMMA CloseInSight ==
    ASSUME PositionTypes, Judged, InSight, NEW t \in Checkers, ClearPosition(t) \/ MarkClosed(t)
    PROVE  InSight'
<1> USE ActorsKnown
<1>1. UNCHANGED <<held, events, about, faults, late>> /\ at'[MainLoop] = at[MainLoop]
  BY DEF ClearPosition, MarkClosed, tradeVars, Goes, PositionTypes, CheckTypes
<1>2. about[t] \in Symbols /\ faults \in Nat
  BY PositionAssumption DEF PositionTypes, CheckTypes, ViewTypes
<1>3. \A s \in Symbols : trade[s] \in Nat /\ trade'[s] \in {trade[s], 0}
  BY DEF ClearPosition, MarkClosed, tradeVars, PositionTypes, TradeTypes, CheckTypes
<1>4. CASE ClearPosition(t)
  <2>1. ASSUME ~overlap', NEW s \in Symbols PROVE RowFits(s)'
    <3>1. ~overlap /\ Condemns(t) /\ t \in genuine
      BY <1>4, <2>1 DEF ClearPosition, IsAt, Condemns
    <3>2. about[t] \notin held
      BY <3>1 DEF Judged, Verdict
    <3>3. s \in rows /\ s \in held => s \in rows'
      BY <1>4, <3>2 DEF ClearPosition, ClearRows
    <3>4. RowFits(s)
      BY <2>1, <3>1 DEF InSight
    <3>5. (Seeding(s)' <=> Seeding(s)) /\ (Filling(s)' => Filling(s))
      BY <1>1 DEF Seeding, Filling
    <3> QED BY <1>1, <1>2, <1>3, <3>3, <3>4, <3>5, RowStays DEF Entered, Filling
  <2> QED BY <2>1 DEF InSight
<1>5. CASE MarkClosed(t)
  <2>1. ASSUME ~overlap', NEW s \in Symbols PROVE RowFits(s)'
    <3>1. RowFits(s)
      BY <1>5, <2>1 DEF MarkClosed, InSight
    <3>2. (Seeding(s)' <=> Seeding(s)) /\ (Filling(s)' => Filling(s))
      BY <1>1 DEF Seeding, Filling
    <3>3. CASE s \in rows'  \/ s \notin rows
      BY <1>1, <1>2, <1>3, <3>1, <3>2, <3>3, RowStays
    <3>4. CASE s \notin rows' /\ s \in rows
      <4>1. s = about[t] /\ trade[s] = record[t][s] /\ trade'[s] = 0
        BY <1>5, <1>2, <3>4 DEF MarkClosed, ClearRows, PositionTypes, TradeTypes
      <4>2. record[t][s] # 0
        BY <1>5, <4>1 DEF MarkClosed, IsAt, PositionTypes, Numbered
      <4>3. ~Filling(s)
        BY <4>1, <4>2 DEF Filling, PositionTypes, Entering
      <4>4. ~Entered(s)' /\ ~Filling(s)'
        BY <3>2, <4>1, <4>3 DEF Entered
      <4> QED BY <4>4 DEF RowFits
    <3> QED BY <3>3, <3>4
  <2> QED BY <2>1 DEF InSight
<1> QED BY <1>4, <1>5

LEMMA Appended ==
    ASSUME NEW e, events \in Seq(UserEvents), e \in UserEvents, events' = Append(events, e)
    PROVE  /\ \A s : e # Closing(s) => /\ \A i \in Nat : NoClose(s, i) => NoClose(s, i)'
                                       /\ Announced(s) => Announced(s)'
           /\ \A s : e = Opening(s) => Announced(s)'
<1>1. Len(events) \in Nat /\ DOMAIN events = 1 .. Len(events)
      /\ DOMAIN events' = 1 .. Len(events) + 1
      /\ events'[Len(events) + 1] = e
      /\ \A j \in 1 .. Len(events) : events'[j] = events[j]
  BY DEF UserEvents
<1>2. ASSUME NEW s, e # Closing(s), NEW i \in Nat, NoClose(s, i) PROVE NoClose(s, i)'
  <2>1. ASSUME NEW j \in DOMAIN events', j > i PROVE events'[j] # Closing(s)
    <3>1. CASE j = Len(events) + 1
      BY <1>1, <1>2, <3>1
    <3>2. CASE j # Len(events) + 1
      <4>1. j \in 1 .. Len(events)
        BY <1>1, <2>1, <3>2
      <4> QED BY <1>1, <1>2, <2>1, <4>1 DEF NoClose
    <3> QED BY <3>1, <3>2
  <2> QED BY <2>1 DEF NoClose, Closing
<1>3. ASSUME NEW s, e # Closing(s), Announced(s) PROVE Announced(s)'
  <2>1. PICK i \in DOMAIN events : events[i] = Opening(s) /\ NoClose(s, i)
    BY <1>3 DEF Announced
  <2>2. i \in DOMAIN events' /\ events'[i] = Opening(s) /\ NoClose(s, i)'
    BY <1>1, <1>2, <1>3, <2>1
  <2> QED BY <2>2 DEF Announced, Opening
<1>4. ASSUME NEW s, e = Opening(s) PROVE Announced(s)'
  <2>1. Len(events) + 1 \in DOMAIN events' /\ events'[Len(events) + 1] = Opening(s)
    BY <1>1, <1>4
  <2>2. \A j \in DOMAIN events' : ~(j > Len(events) + 1)
    BY <1>1
  <2>3. PICK i \in DOMAIN events' : i = Len(events) + 1
    BY <2>1
  <2>4. events'[i] = Opening(s) /\ NoClose(s, i)'
    BY <2>1, <2>2, <2>3 DEF NoClose
  <2> QED BY <2>4 DEF Announced, Opening
<1> QED BY <1>2, <1>3, <1>4

(* The first event is taken.                                                *)
LEMMA Taken ==
    ASSUME events \in Seq(UserEvents), events # <<>>, events' = Tail(events), NEW s
    PROVE  /\ NoClose(s, 0) => NoClose(s, 0)' /\ Head(events) # Closing(s)
           /\ Announced(s) => \/ Announced(s)'
                              \/ Head(events) = Opening(s) /\ NoClose(s, 0)'
<1>1. /\ Len(events) \in Nat \ {0} /\ DOMAIN events = 1 .. Len(events)
      /\ DOMAIN events' = 1 .. Len(events) - 1
      /\ Head(events) = events[1]
      /\ \A j \in 1 .. Len(events) - 1 : events'[j] = events[j + 1]
  BY DEF UserEvents
<1>2. ASSUME NEW i \in Nat, NoClose(s, i + 1) PROVE NoClose(s, i)'
  <2>1. ASSUME NEW j \in DOMAIN events', j > i PROVE events'[j] # Closing(s)
    <3>1. j + 1 \in DOMAIN events /\ j + 1 > i + 1 /\ events'[j] = events[j + 1]
      BY <1>1, <2>1
    <3> QED BY <1>2, <3>1 DEF NoClose
  <2> QED BY <2>1 DEF NoClose, Closing
<1>3. ASSUME NoClose(s, 0) PROVE NoClose(s, 0)' /\ Head(events) # Closing(s)
  <2>1. NoClose(s, 0 + 1) /\ events[1] # Closing(s)
    BY <1>1, <1>3 DEF NoClose
  <2> QED BY <1>1, <1>2, <2>1
<1>4. ASSUME Announced(s)
      PROVE  \/ Announced(s)'
             \/ Head(events) = Opening(s) /\ NoClose(s, 0)'
  <2>1. PICK i \in DOMAIN events : events[i] = Opening(s) /\ NoClose(s, i)
    BY <1>4 DEF Announced
  <2>2. CASE i = 1
    <3>1. NoClose(s, 0 + 1)
      BY <2>1, <2>2
    <3> QED BY <1>1, <1>2, <2>1, <2>2, <3>1
  <2>3. CASE i # 1
    <3>1. PICK k \in DOMAIN events' : k + 1 = i /\ k \in Nat
      <4>1. i - 1 \in DOMAIN events' /\ i - 1 + 1 = i /\ i - 1 \in Nat
        BY <1>1, <2>3
      <4> QED BY <4>1
    <3>2. events'[k] = Opening(s) /\ NoClose(s, k)'
      BY <1>1, <1>2, <2>1, <3>1
    <3> QED BY <3>2 DEF Announced, Opening
  <2> QED BY <2>2, <2>3
<1> QED BY <1>3, <1>4

(* The exchange closes, and the stream tells, or is cut off.                  *)
LEMMA StreamInSight ==
    ASSUME PositionTypes, InSight,
           (\E s \in Symbols : CloseOutside(s)) \/ OnUserMessage \/ EventsLost
    PROVE  InSight'
<1>1. UNCHANGED <<trade, at, about, overlap, late>>
  BY DEF CloseOutside, OnUserMessage, EventsLost, threadVars, ghostVars
<1>2. events \in Seq(UserEvents) /\ faults \in Nat
  BY PositionAssumption DEF PositionTypes, TradeTypes, ViewTypes
<1>3. ASSUME NEW s \in Symbols PROVE Seeding(s)' <=> Seeding(s)
  BY <1>1 DEF Seeding
<1>4. ASSUME NEW s \in Symbols, CloseOutside(s), ~overlap, NEW u \in Symbols PROVE RowFits(u)'
  <2>1. UNCHANGED <<rows, faults>> /\ held' = held \ {s}
        /\ events' = Append(events, Closing(s)) /\ Closing(s) \in UserEvents
    BY <1>4 DEF CloseOutside, viewVars, Closing, UserEvents
  <2>2. CASE u = s
    BY <2>1, <2>2 DEF RowFits, Entered, Filling
  <2>3. CASE u # s
    <3>1. Closing(s) # Closing(u)
      <4>1. Closing(s).symbol = s /\ Closing(u).symbol = u
        BY DEF Closing
      <4> QED BY <2>3, <4>1
    <3>2. (NoClose(u, 0) => NoClose(u, 0)') /\ (Announced(u) => Announced(u)')
      BY <1>2, <2>1, <3>1, Appended
    <3>3. (Entered(u)' => Entered(u)) /\ (Filling(u)' => Filling(u))
      BY <1>1, <2>1 DEF Entered, Filling
    <3>4. Settled(u) => Settled(u)'
      BY <2>1, <3>2 DEF Settled
    <3> QED BY <1>1, <1>3, <1>4, <2>1, <3>2, <3>3, <3>4 DEF InSight, RowFits
  <2> QED BY <2>2, <2>3
<1>5. ASSUME OnUserMessage, ~overlap, NEW u \in Symbols PROVE RowFits(u)'
  <2>1. /\ UNCHANGED <<held, faults>> /\ events # <<>> /\ events' = Tail(events)
        /\ rows' = IF Head(events).open THEN rows \cup {Head(events).symbol}
                   ELSE rows \ {Head(events).symbol}
    BY <1>5 DEF OnUserMessage
  <2>2. Head(events) \in UserEvents
    BY <1>2, <2>1
  <2>3. Head(events) # Closing(u) /\ u \in rows => u \in rows'
    <3>1. ASSUME Head(events).symbol = u, ~Head(events).open PROVE Head(events) = Closing(u)
      BY <2>2, <3>1 DEF UserEvents, Closing
    <3> QED BY <2>1, <3>1
  <2>4. Settled(u) => Settled(u)'
    BY <1>2, <2>1, <2>3, Taken DEF Settled
  <2>5. Head(events) = Opening(u) => u \in rows'
    BY <2>1 DEF Opening
  <2>6. Announced(u) => Announced(u)' \/ Settled(u)'
    BY <1>2, <2>1, <2>5, Taken DEF Settled
  <2>7. (Entered(u)' <=> Entered(u)) /\ (Filling(u)' <=> Filling(u))
    BY <1>1, <2>1 DEF Entered, Filling
  <2> QED BY <1>1, <1>3, <1>5, <2>1, <2>4, <2>6, <2>7 DEF InSight, RowFits
<1>6. ASSUME EventsLost, ~overlap, NEW u \in Symbols PROVE RowFits(u)'
  <2>1. UNCHANGED <<held, rows>> /\ events' = <<>> /\ faults' # 0
    BY <1>2, <1>6 DEF EventsLost, viewVars
  <2>2. Settled(u) => Settled(u)'
    BY <2>1 DEF Settled, NoClose
  <2>3. Entered(u)' <=> Entered(u)
    BY <1>1, <2>1 DEF Entered
  <2> QED BY <1>1, <1>3, <1>6, <2>1, <2>2, <2>3 DEF InSight, RowFits
<1> QED BY <1>1, <1>4, <1>5, <1>6 DEF InSight

(* An entry: its event is on its way when it is logged, its row is there when *)
(* it is seeded.                                                            *)
LEMMA EntryInSight ==
    ASSUME PositionTypes, InSight,
           (\E s \in Symbols : Approve(s)) \/ Execute \/ Fill \/ LogTrade \/ SeedPosition
    PROVE  InSight'
<1> USE ActorsKnown
<1>1. about[MainLoop] \in Symbols /\ at[MainLoop] \in AtLabels /\ events \in Seq(UserEvents)
      /\ faults \in Nat
  BY PositionAssumption DEF PositionTypes, CheckTypes, TradeTypes, ViewTypes
<1>2. ASSUME \/ (\E s \in Symbols : Approve(s)) \/ Execute, ~overlap', NEW u \in Symbols
      PROVE  RowFits(u)'
  <2>1. UNCHANGED <<held, events, trade, rows, overlap, late>>
        /\ at[MainLoop] \in {"idle", "approved"} /\ at'[MainLoop] \in {"idle", "approved", "order"}
    BY <1>2 DEF Approve, Execute, AskForEntry, Goes, IsAt, tradeVars, PositionTypes, CheckTypes
  <2>2. ~Seeding(u) /\ ~Seeding(u)' /\ ~Filling(u)'
    BY <2>1 DEF Seeding, Filling
  <2>3. PICK s \in Symbols : \E a \in PlainAnswers(s) : faults' = faults + a.fault
    BY <1>1, <1>2, UrgentIsPlain DEF Approve, Execute, AskForEntry, Asks
  <2>4. faults' \in Nat /\ (faults' = 0 => faults = 0)
    <3>1. PICK a \in PlainAnswers(s) : faults' = faults + a.fault
      BY <2>3
    <3>2. a.fault \in {0, 1}
      BY AnswerTypes DEF PositionTypes, TradeTypes
    <3> QED BY <1>1, <3>1, <3>2
  <2>5. RowFits(u) /\ trade[u] \in Nat
    BY <1>2, <2>1 DEF InSight, PositionTypes, TradeTypes
  <2> QED BY <1>1, <2>1, <2>2, <2>4, <2>5, RowStays
<1>3. ASSUME Fill, ~overlap', NEW u \in Symbols PROVE RowFits(u)'
  <2> DEFINE s == about[MainLoop]
  <2>1. /\ UNCHANGED <<trade, rows, faults, overlap, late, about>>
        /\ held' = held \cup {s} /\ events' = Append(events, Opening(s))
        /\ Opening(s) \in UserEvents /\ trade[s] = 0
        /\ at[MainLoop] = "order" /\ at'[MainLoop] = "filled"
    BY <1>1, <1>3 DEF Fill, ghostVars, Opening, UserEvents, IsAt, Goes, PositionTypes, CheckTypes,
       Entering
  <2>2. Opening(s) # Closing(u)
    <3>1. Opening(s).open = TRUE /\ Closing(u).open = FALSE
      BY DEF Opening, Closing
    <3> QED BY <3>1
  <2>3. (NoClose(u, 0) => NoClose(u, 0)') /\ (Announced(u) => Announced(u)')
        /\ (u = s => Announced(u)')
    BY <1>1, <2>1, <2>2, Appended
  <2>4. (Entered(u)' => Entered(u)) /\ (Filling(u)' => u = s) /\ ~Seeding(u)
    BY <1>1, <2>1 DEF Entered, Filling, Seeding
  <2>5. Settled(u) => Settled(u)'
    BY <2>1, <2>3 DEF Settled
  <2> QED BY <1>3, <2>1, <2>3, <2>4, <2>5 DEF InSight, RowFits
<1>4. ASSUME LogTrade, ~overlap', NEW u \in Symbols PROVE RowFits(u)'
  <2>1. UNCHANGED <<held, events, rows, faults, overlap, late, about>>
        /\ at[MainLoop] = "filled" /\ at'[MainLoop] = "logged"
        /\ \A v \in Symbols : v # about[MainLoop] => trade'[v] = trade[v]
    BY <1>1, <1>4 DEF LogTrade, viewVars, ghostVars, IsAt, Goes, PositionTypes, CheckTypes,
       TradeTypes
  <2>2. (Settled(u) => Settled(u)') /\ (Announced(u) => Announced(u)')
    BY <2>1 DEF Settled, Announced, NoClose
  <2>3. CASE u = about[MainLoop]
    <3>1. Seeding(u)' /\ ~Filling(u)' /\ (Entered(u)' => Filling(u))
      BY <2>1, <2>3 DEF Seeding, Filling, Entered
    <3> QED BY <1>4, <2>1, <2>2, <3>1 DEF InSight, RowFits
  <2>4. CASE u # about[MainLoop]
    <3>1. ~Seeding(u) /\ ~Filling(u)' /\ (Entered(u)' <=> Entered(u))
      BY <2>1, <2>4 DEF Seeding, Filling, Entered
    <3> QED BY <1>4, <2>1, <2>2, <3>1 DEF InSight, RowFits
  <2> QED BY <2>3, <2>4
<1>5. ASSUME SeedPosition, ~overlap', NEW u \in Symbols PROVE RowFits(u)'
  <2>1. UNCHANGED <<held, events, trade, faults, overlap, about>>
        /\ at[MainLoop] = "logged" /\ at'[MainLoop] = "idle"
        /\ rows' = rows \cup {about[MainLoop]}
    BY <1>5 DEF SeedPosition, Seeds, tradeVars, IsAt, Goes, PositionTypes, CheckTypes
  <2>2. /\ u # about[MainLoop] => (u \in late' <=> u \in late)
        /\ u = about[MainLoop] /\ u \notin late' => NoClose(u, 0)
    BY <1>5 DEF SeedPosition, NoClose, Closing
  <2>3. (Settled(u) => Settled(u)') /\ (Announced(u) => Announced(u)')
    BY <2>1 DEF Settled, Announced, NoClose
  <2>4. u = about[MainLoop] /\ u \notin late' => Settled(u)'
    BY <2>1, <2>2 DEF Settled, NoClose
  <2>5. ~Filling(u)' /\ (Entered(u)' <=> Entered(u)) /\ (u # about[MainLoop] => ~Seeding(u))
    BY <2>1 DEF Filling, Entered, Seeding
  <2> QED BY <1>5, <2>1, <2>2, <2>3, <2>4, <2>5 DEF InSight, RowFits
<1> QED BY <1>2, <1>3, <1>4, <1>5 DEF InSight

LEMMA InSightStep == PositionTypes /\ Judged /\ InSight /\ [PositionsNext]_positionVars => InSight'
<1> SUFFICES ASSUME PositionTypes, Judged, InSight, [PositionsNext]_positionVars PROVE InSight'
  OBVIOUS
<1>1. ASSUME NEW t \in Checkers, CheckStep(t) PROVE InSight'
  BY <1>1, ChecksInSight, CloseInSight DEF CheckStep
<1>2. CASE PositionsNext
  BY <1>1, <1>2, StreamInSight, ChecksInSight, EntryInSight DEF PositionsNext
<1> QED BY <1>2, ChecksInSight

LEMMA JudgedShows == Judged => AnsweredClosesFlat
BY DEF Judged, Verdict, AnsweredClosesFlat

LEMMA InSightShows == PositionTypes /\ InSight => OpenIsSeen
<1> SUFFICES ASSUME PositionTypes, InSight, ~overlap, NEW s \in held, trade[s] > 1, ~Seeding(s),
                    s \in late => events = <<>> /\ faults = 0
             PROVE  Sees(s)
  BY DEF OpenIsSeen, Seeding, IsAt
<1>1. s \in Symbols /\ Entered(s)
  BY DEF PositionTypes, TradeTypes, Entered
<1>2. RowFits(s)
  BY <1>1 DEF InSight
<1>3. CASE s \in late
  <2>1. ~Announced(s)
    BY <1>3 DEF Announced
  <2> QED BY <1>1, <1>2, <1>3, <2>1 DEF RowFits, Settled, Sees
<1>4. CASE s \notin late
  BY <1>1, <1>2, <1>4 DEF RowFits, Settled, Sees
<1> QED BY <1>3, <1>4
-----------------------------------------------------------------------------
PositionsSpec == PositionsInit /\ [][PositionsNext]_positionVars

(* PositionsTypesCorrect: rows, answers, trades and threads keep their types;  *)
(* an entry under way fits the number of entries.                            *)
THEOREM PositionsTypesCorrect == PositionsSpec => []PositionsTypeOK
<1> QED BY PositionTypesInit, PositionTypesStep, PositionTypesShow, PTL DEF PositionsSpec

(* AnsweredCorrect: a thread about to close a trade that the exchange, or a    *)
(* kept answer of it, called flat closes one whose position was gone when it   *)
(* asked, or went since: for every number of symbols, entries, failing calls    *)
(* and threads in a check at once.                                          *)
THEOREM AnsweredCorrect == PositionsSpec => []AnsweredClosesFlat
<1>1. PositionTypes /\ Judged /\ [PositionsNext]_positionVars => (PositionTypes /\ Judged)'
  BY PositionTypesStep, JudgedStep
<1> QED BY <1>1, PositionTypesInit, JudgedInit, JudgedShows, PTL DEF PositionsSpec

(* SeenCorrect: and a position this process entered stays in sight of the     *)
(* entry gates.                                                            *)
THEOREM SeenCorrect == PositionsSpec => []OpenIsSeen
<1>1. PositionTypes /\ Judged /\ InSight /\ [PositionsNext]_positionVars
          => (PositionTypes /\ Judged /\ InSight)'
  BY PositionTypesStep, JudgedStep, InSightStep
<1> QED BY <1>1, PositionTypesInit, JudgedInit, InSightInit, InSightShows, PTL DEF PositionsSpec

(* TradesProject: a behaviour of the runs' module is one of the positions and  *)
(* one of the adds, of which one stands still; so it has all that either has.  *)
THEOREM TradesProject == TradesSpec => PositionsSpec /\ AddsSpec
<1>1. TradesInit => PositionsInit /\ AddsInit
  BY DEF TradesInit
<1>2. [TradesNext]_tradesVars => [PositionsNext]_positionVars /\ [AddsNext]_addVars
  BY DEF TradesNext, tradesVars
<1> QED BY <1>1, <1>2, PTL DEF TradesSpec, PositionsSpec, AddsSpec

(* TradesTypesCorrect: the types of the part a behaviour is about.           *)
THEOREM TradesTypesCorrect == TradesSpec => []TradesTypesOK
<1>1. PositionsTypeOK /\ AddsTypeOK => TradesTypesOK
  BY DEF TradesTypesOK
<1> QED BY <1>1, TradesProject, PositionsTypesCorrect, AddsTypesCorrect, PTL

(* TradesCorrect: the runs' module has the properties of its positions.       *)
THEOREM TradesCorrect == TradesSpec => [](AnsweredClosesFlat /\ OpenIsSeen)
BY TradesProject, AnsweredCorrect, SeenCorrect, PTL
=============================================================================
