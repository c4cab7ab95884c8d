------------------------ MODULE EntryExecution_proofs -----------------------
(* Proofs about EntryExecution, for any number of orders and crashes: its     *)
(* types, and one entry at a time while nothing slipped.                     *)
EXTENDS EntryExecution, FiniteSetTheorems, WellFoundedInduction, TLAPS
-----------------------------------------------------------------------------
(* A set of naturals has a least element, a bounded one a greatest.           *)
LEMMA Least ==
    ASSUME NEW S \in SUBSET Nat, S # {} PROVE \E m \in S : \A n \in S : m <= n
<1>1. IsWellFoundedOn(OpToRel(<, Nat), Nat)
  BY NatLessThanWellFounded
<1>2. PICK m \in S : \A n \in S : ~(<<n, m>> \in OpToRel(<, Nat))
  BY <1>1, WFMin
<1>3. ASSUME NEW n \in S PROVE m <= n
  <2>1. ~(<<n, m>> \in OpToRel(<, Nat))
    BY <1>2
  <2>2. ~(n < m)
    BY <2>1 DEF OpToRel
  <2> QED BY <2>2
<1> QED BY <1>3

LEMMA MinIs ==
    ASSUME NEW S \in SUBSET Nat, S # {} PROVE Min(S) \in S
<1>1. \E m \in S : \A n \in S : m <= n
  BY Least
<1> QED BY <1>1 DEF Min

LEMMA MaxIs ==
    ASSUME NEW N \in Nat, NEW S \in SUBSET (0 .. N), S # {} PROVE Max(S) \in S
<1> DEFINE R == {x \in 0 .. N : N - x \in S}
<1>1. R \in SUBSET Nat /\ R # {}
  <2>1. PICK y \in S : TRUE
    OBVIOUS
  <2>2. N - y \in 0 .. N /\ N - (N - y) = y
    OBVIOUS
  <2> QED BY <2>2
<1>2. PICK m \in R : \A n \in R : m <= n
  BY <1>1, Least
<1>3. \A y \in S : N - y \in R
  <2>1. ASSUME NEW y \in S PROVE N - y \in R
    <3>1. N - y \in 0 .. N /\ N - (N - y) = y
      OBVIOUS
    <3> QED BY <3>1
  <2> QED BY <2>1
<1>4. N - m \in S /\ \A y \in S : N - m >= y
  BY <1>2, <1>3
<1>5. \E x \in S : \A y \in S : x >= y
  BY <1>4
<1> QED BY <1>5 DEF Max

LEMMA UpType == \A n \in Counts : Up(n) \in Counts
<1>1. ASSUME NEW n \in Counts PROVE Up(n) \in {n + 1, 2} /\ Up(n) <= 2
  <2>1. {n + 1, 2} \in SUBSET Nat /\ {n + 1, 2} # {}
    BY DEF Counts
  <2>3. \E m \in {n + 1, 2} : \A k \in {n + 1, 2} : m <= k
    BY <2>1, Least
  <2> DEFINE u == CHOOSE m \in {n + 1, 2} : \A k \in {n + 1, 2} : m <= k
  <2>4. u \in {n + 1, 2} /\ \A k \in {n + 1, 2} : u <= k
    BY <2>3
  <2>5. Up(n) = u
    BY DEF Up, Min
  <2> HIDE DEF u
  <2> QED BY <2>4, <2>5
<1> QED BY <1>1 DEF Counts
-----------------------------------------------------------------------------
(* Types.  Numbers are given in order, and a client order id is not larger    *)
(* than the number of its order.                                            *)
MainAt   == MainLabels \cup BothLabels
WorkerAt == WorkerLabels \cup BothLabels
Labels   == MainAt \cup WorkerAt
Numbered ==
    /\ \A i \in Ids : cid[i] <= i /\ (cid[i] = 0 => seq < i)
    /\ \A i, j \in Ids : i < j /\ cid[j] # 0 => cid[i] # 0
LedgerOK ==
    /\ cid \in [Ids -> 0..MaxOrders] /\ seq \in 0..MaxOrders
    /\ record \in [Ids -> Phases] /\ file \subseteq Ids
WorldOK ==
    /\ order \in [Ids -> Orders] /\ pos \subseteq Ids /\ events \subseteq 0..MaxOrders
    /\ openRows \in [Ids -> Counts] /\ lines \in [Ids -> Counts]
    /\ crashes \in 0..MaxCrashes
DataOK == LedgerOK /\ WorldOK /\ slips \subseteq Slips
(* A thread at a label with these locals.                                    *)
Fit(t, label, l) ==
    /\ t = "main" => label \in MainAt
    /\ t = "worker" => label \in WorkerAt /\ l.next \in {"idle", "protect"}
    /\ label \notin {"idle", "recover"} => l.id \in Ids
ThreadsOK ==
    /\ pc \in [Threads -> Labels] /\ loc \in [Threads -> Locals]
    /\ \A t \in Threads : Fit(t, pc[t], loc[t])
Types == DataOK /\ Numbered /\ ThreadsOK

LEMMA ThreadsAre ==
    "main" \in Threads /\ "worker" \in Threads /\ \A t \in Threads : t = "main" \/ t = "worker"
BY DEF Threads

LEMMA TypesShow == Types => TypeOK
<1> SUFFICES ASSUME Types PROVE TypeOK
  OBVIOUS
<1>1. pc["main"] \in MainAt /\ pc["worker"] \in WorkerAt
      /\ \A t \in Threads : pc[t] \notin {"idle", "recover"} => loc[t].id \in Ids
  BY ThreadsAre DEF Types, ThreadsOK, Fit
<1> QED BY <1>1 DEF Types, DataOK, LedgerOK, WorldOK, ThreadsOK, TypeOK, MainAt, WorkerAt

LEMMA LocalsAre ==
    /\ NoLocals \in Locals /\ NoLocals.next = "idle" /\ NoLocals.id = 0 /\ NoLocals.snap = {}
    /\ \A l \in Locals : /\ l.id \in 0..MaxOrders /\ l.snap \in SUBSET Ids /\ l.kept \in [Ids -> Counts]
                         /\ l.next \in {"idle", "gate", "send", "complete", "protect"}
<1>1. NoLines \in [Ids -> Counts] /\ 0 \in 0..MaxOrders
  BY EntryExecutionAssumption DEF NoLines, Counts
<1> QED BY <1>1 DEF NoLocals, Locals

LEMMA TypesInit == Init => Types
<1> SUFFICES ASSUME Init PROVE Types
  OBVIOUS
<1> USE EntryExecutionAssumption
<1>1. NoLines \in [Ids -> Counts]
  BY DEF NoLines, Counts
<1>2. loc \in [Threads -> Locals] /\ \A t \in Threads : loc[t] = NoLocals /\ pc[t] = "idle"
  BY LocalsAre DEF Init
<1>3. Numbered
  BY DEF Init, Numbered, Ids
<1>4. DataOK
  BY <1>1 DEF Init, DataOK, LedgerOK, WorldOK, Orders, Phases, Slips, Counts
<1>5. pc \in [Threads -> Labels]
  BY DEF Init, Labels, MainAt, MainLabels
<1>6. \A t \in Threads : Fit(t, pc[t], loc[t])
  BY <1>2, LocalsAre DEF Fit, MainAt, WorkerAt, MainLabels, WorkerLabels
<1> QED BY <1>2, <1>3, <1>4, <1>5, <1>6 DEF Types, ThreadsOK

(* One thread moves.                                                         *)
LEMMA MoveTypes ==
    ASSUME ThreadsOK, NEW t \in Threads, NEW label \in Labels, NEW l \in Locals, Fit(t, label, l),
           pc' = [pc EXCEPT ![t] = label], loc' = [loc EXCEPT ![t] = l]
    PROVE  /\ ThreadsOK' /\ pc'[t] = label /\ loc'[t] = l
           /\ \A u \in Threads : u # t => pc'[u] = pc[u] /\ loc'[u] = loc[u]
<1>1. /\ pc' \in [Threads -> Labels] /\ loc' \in [Threads -> Locals]
      /\ pc'[t] = label /\ loc'[t] = l
      /\ \A u \in Threads : u # t => pc'[u] = pc[u] /\ loc'[u] = loc[u]
  BY DEF ThreadsOK
<1>2. \A u \in Threads : Fit(u, pc'[u], loc'[u])
  <2>1. ASSUME NEW u \in Threads, u # t PROVE Fit(u, pc'[u], loc'[u])
    BY <1>1, <2>1 DEF ThreadsOK
  <2> QED BY <1>1, <2>1
<1> QED BY <1>1, <1>2 DEF ThreadsOK

LEMMA StayTypes ==
    ASSUME ThreadsOK, NEW t \in Threads, NEW label \in Labels, Fit(t, label, loc[t]),
           Goto(t, label), UNCHANGED loc
    PROVE  /\ ThreadsOK' /\ pc'[t] = label /\ loc'[t] = loc[t]
           /\ \A u \in Threads : u # t => pc'[u] = pc[u] /\ loc'[u] = loc[u]
<1>1. loc[t] \in Locals /\ loc' = [loc EXCEPT ![t] = loc[t]] /\ pc' = [pc EXCEPT ![t] = label]
  BY DEF ThreadsOK, Goto
<1> QED BY <1>1, MoveTypes

LEMMA IdleTypes ==
    ASSUME ThreadsOK, NEW t \in Threads, GotoIdle(t)
    PROVE  /\ ThreadsOK' /\ pc'[t] = "idle" /\ loc'[t] = NoLocals
           /\ \A u \in Threads : u # t => pc'[u] = pc[u] /\ loc'[u] = loc[u]
<1>1. pc' = [pc EXCEPT ![t] = "idle"] /\ loc' = [loc EXCEPT ![t] = NoLocals]
  BY DEF GotoIdle, Goto
<1>2. "idle" \in Labels /\ Fit(t, "idle", NoLocals)
  BY LocalsAre DEF Fit, Labels, MainAt, WorkerAt, MainLabels, WorkerLabels
<1> QED BY <1>1, <1>2, LocalsAre, MoveTypes

LEMMA TransitionTypes ==
    ASSUME ThreadsOK, LedgerOK, NEW t \in Threads, NEW i \in Ids, NEW phase \in Phases,
           NEW next \in {"idle", "gate", "send", "complete", "protect"},
           t = "worker" => next \in {"idle", "protect"},
           Transition(t, i, phase, next)
    PROVE  /\ ThreadsOK' /\ LedgerOK' /\ pc'[t] = "write"
           /\ UNCHANGED <<cid, seq, file>> /\ record' = [record EXCEPT ![i] = phase]
           /\ loc'[t].id = i /\ loc'[t].next = next
           /\ loc'[t].snap = {j \in Ids : record'[j] = "unresolved"}
           /\ \A u \in Threads : u # t => pc'[u] = pc[u] /\ loc'[u] = loc[u]
<1> DEFINE s == {j \in Ids : record'[j] = "unresolved"}
           l == [loc[t] EXCEPT !.id = i, !.next = next, !.snap = s]
<1>1. loc[t] \in Locals
  BY DEF ThreadsOK
<1>2. /\ record' = [record EXCEPT ![i] = phase] /\ pc' = [pc EXCEPT ![t] = "write"]
      /\ UNCHANGED <<cid, seq, file>>
      /\ loc' = [loc EXCEPT ![t].id = i, ![t].next = next, ![t].snap = s]
  BY DEF Transition, Goto
<1>3. l \in Locals /\ l.id = i /\ l.next = next /\ l.snap = s
  <2>1. s \in SUBSET Ids /\ i \in 0..MaxOrders
    BY EntryExecutionAssumption DEF Ids
  <2> HIDE DEF s
  <2> QED BY <1>1, <2>1 DEF Locals
<1>4. loc' = [loc EXCEPT ![t] = l]
  BY <1>2
<1>5. "write" \in Labels /\ Fit(t, "write", l)
  BY DEF Fit, Labels, MainAt, WorkerAt, MainLabels, WorkerLabels
<1> HIDE DEF l, s
<1>6. /\ ThreadsOK' /\ pc'[t] = "write" /\ loc'[t] = l
      /\ \A u \in Threads : u # t => pc'[u] = pc[u] /\ loc'[u] = loc[u]
  BY <1>2, <1>3, <1>4, <1>5, MoveTypes
<1>7. LedgerOK'
  BY <1>2 DEF LedgerOK
<1> QED BY <1>2, <1>3, <1>6, <1>7 DEF s
(* Labels and slips, spelled out.                                            *)
LEMMA LabelsAre ==
    /\ MainLabels = {"idle", "write", "gate", "gate2", "submit", "send", "sent"}
    /\ WorkerLabels = {"idle", "write", "adopt", "recover"}
    /\ BothLabels = {"complete", "unwind", "unlogged", "booked", "protect"}
    /\ MainAt = MainLabels \cup BothLabels /\ WorkerAt = WorkerLabels \cup BothLabels
    /\ Labels = MainAt \cup WorkerAt
BY DEF MainLabels, WorkerLabels, BothLabels, MainAt, WorkerAt, Labels

LEMMA SlipIs ==
    ASSUME NEW what \in Slips, NEW if \in BOOLEAN, Slip(what, if), slips \subseteq Slips
    PROVE  /\ slips' \subseteq Slips /\ slips \subseteq slips'
           /\ slips' = {} => slips = {} /\ ~if
BY DEF Slip

(* What a thread knows of itself.                                            *)
LEMMA ThreadIs ==
    ASSUME ThreadsOK, NEW t \in Threads
    PROVE  /\ loc[t] \in Locals /\ pc[t] \in Labels /\ Fit(t, pc[t], loc[t])
           /\ pc[t] \notin {"idle", "recover"} => loc[t].id \in Ids
           /\ loc[t].id \in 0..MaxOrders /\ loc[t].snap \in SUBSET Ids
           /\ loc[t].kept \in [Ids -> Counts]
           /\ loc[t].next \in {"idle", "gate", "send", "complete", "protect"}
           /\ t = "worker" => loc[t].next \in {"idle", "protect"}
BY LocalsAre DEF ThreadsOK, Fit

LEMMA WriteTypes ==
    ASSUME Types, NEW t \in Threads, WriteLedger(t)
    PROVE  /\ Types'
           /\ slips' = {} => slips = {} /\ Unresolved \subseteq loc[t].snap
           /\ pc'[t] = loc[t].next
           /\ pc'[t] # "idle" => loc'[t].id = loc[t].id
           /\ loc'[t].next = "idle"
           /\ \A u \in Threads : u # t => pc'[u] = pc[u] /\ loc'[u] = loc[u]
<1>0. DataOK /\ ThreadsOK /\ Numbered
  BY DEF Types
<1>1. /\ pc[t] = "write" /\ loc[t].id \in Ids /\ loc[t].snap \subseteq Ids
      /\ loc[t].next \in {"idle", "gate", "send", "complete", "protect"}
      /\ t = "worker" => loc[t].next \in {"idle", "protect"}
  BY <1>0, ThreadIs DEF WriteLedger
<1>2. /\ slips' \subseteq Slips
      /\ slips' = {} => slips = {} /\ Unresolved \subseteq loc[t].snap
  <2>1. Slip("stale_ledger", ~(Unresolved \subseteq loc[t].snap)) /\ slips \subseteq Slips
    BY <1>0 DEF WriteLedger, DataOK
  <2>2. "stale_ledger" \in Slips
    BY DEF Slips
  <2> QED BY <2>1, <2>2, SlipIs
<1>3. DataOK'
  <2>1. file' = loc[t].snap /\ UNCHANGED <<cid, seq, record, order, pos, events, openRows, lines, crashes>>
    BY DEF WriteLedger, Written, worldVars, bookVars
  <2>2. LedgerOK'
    BY <1>0, <1>1, <2>1 DEF DataOK, LedgerOK
  <2>3. WorldOK'
    BY <1>0, <2>1 DEF DataOK, WorldOK
  <2> QED BY <1>2, <2>2, <2>3 DEF DataOK
<1>4. Numbered'
  BY <1>0 DEF WriteLedger, Numbered
<1>5. /\ ThreadsOK' /\ pc'[t] = loc[t].next
      /\ pc'[t] # "idle" => loc'[t].id = loc[t].id
      /\ loc'[t].next = "idle"
      /\ \A u \in Threads : u # t => pc'[u] = pc[u] /\ loc'[u] = loc[u]
  <2>1. CASE loc[t].next = "idle"
    BY <1>0, <2>1, IdleTypes, LocalsAre DEF WriteLedger
  <2>2. CASE loc[t].next # "idle"
    <3> DEFINE l == [NoLocals EXCEPT !.id = loc[t].id]
               label == loc[t].next
    <3>1. pc' = [pc EXCEPT ![t] = label] /\ loc' = [loc EXCEPT ![t] = l]
      BY <2>2 DEF WriteLedger, Goto
    <3>2. l \in Locals /\ l.id = loc[t].id /\ l.next = "idle"
      BY <1>1, LocalsAre, EntryExecutionAssumption DEF Locals, NoLocals, Ids
    <3>3. label \in Labels /\ (t = "main" => label \in MainAt) /\ (t = "worker" => label \in WorkerAt)
      BY <1>1, <2>2, LabelsAre
    <3> HIDE DEF l
    <3>4. Fit(t, label, l)
      BY <1>1, <3>2, <3>3 DEF Fit
    <3> QED BY <1>0, <3>1, <3>2, <3>3, <3>4, MoveTypes
  <2> QED BY <2>1, <2>2
<1> QED BY <1>2, <1>3, <1>4, <1>5 DEF Types

LEMMA StartTypes ==
    ASSUME Types, NEW i \in Ids, Start(i)
    PROVE  /\ Types' /\ pc'["main"] = "write" /\ loc'["main"].id = i /\ loc'["main"].next = "gate"
           /\ pc'["worker"] = pc["worker"] /\ loc'["worker"] = loc["worker"]
<1>0. DataOK /\ ThreadsOK /\ Numbered
  BY DEF Types
<1> DEFINE l == [NoLocals EXCEPT !.id = i, !.next = "gate", !.snap = Unresolved]
<1>1. pc' = [pc EXCEPT !["main"] = "write"] /\ loc' = [loc EXCEPT !["main"] = l]
  BY DEF Start, Goto
<1>2. l \in Locals /\ l.id = i /\ l.next = "gate"
  <2>1. Unresolved \subseteq Ids /\ i \in 0..MaxOrders
    BY EntryExecutionAssumption DEF Unresolved, Ids
  <2> QED BY <2>1, LocalsAre DEF Locals, NoLocals
<1> HIDE DEF l
<1>3. "write" \in Labels /\ Fit("main", "write", l)
  BY <1>2, LabelsAre DEF Fit
<1>4. /\ ThreadsOK' /\ pc'["main"] = "write" /\ loc'["main"] = l
      /\ pc'["worker"] = pc["worker"] /\ loc'["worker"] = loc["worker"]
  <2>1. "main" \in Threads /\ "worker" \in Threads /\ "worker" # "main"
    BY ThreadsAre
  <2>2. /\ ThreadsOK' /\ pc'["main"] = "write" /\ loc'["main"] = l
        /\ \A u \in Threads : u # "main" => pc'[u] = pc[u] /\ loc'[u] = loc[u]
    BY <1>0, <1>1, <1>2, <1>3, <2>1, MoveTypes
  <2> QED BY <2>1, <2>2
<1>5. /\ cid[i] = 0 /\ (\A j \in Ids : j < i => cid[j] # 0)
      /\ cid' = [cid EXCEPT ![i] = seq + 1] /\ seq' = seq + 1
      /\ record' = [record EXCEPT ![i] = "queued"]
      /\ UNCHANGED <<file, order, pos, events, openRows, lines, crashes, slips>>
  BY DEF Start, worldVars, bookVars
<1>6. seq + 1 <= i /\ seq \in Nat /\ i \in 1..MaxOrders /\ cid \in [Ids -> 0..MaxOrders]
  BY <1>0, <1>5, EntryExecutionAssumption DEF Numbered, DataOK, LedgerOK, Ids
<1>7. DataOK'
  <2>1. seq + 1 \in 0..MaxOrders
    BY <1>6, EntryExecutionAssumption
  <2> QED BY <1>0, <1>5, <2>1 DEF DataOK, LedgerOK, WorldOK, Phases
<1>8. Numbered'
  <2>1. ASSUME NEW k \in Ids PROVE cid'[k] <= k /\ (cid'[k] = 0 => seq' < k)
    <3>1. CASE k = i
      BY <1>5, <1>6, <3>1
    <3>2. CASE k # i
      <4>1. cid'[k] = cid[k] /\ cid[k] <= k /\ k \in Int /\ i \in Int
        BY <1>0, <1>5, <3>2, EntryExecutionAssumption DEF Numbered, DataOK, LedgerOK, Ids
      <4>2. cid[k] = 0 => i < k
        BY <1>5, <3>2, <4>1
      <4> QED BY <1>5, <1>6, <4>1, <4>2
    <3> QED BY <3>1, <3>2
  <2>2. ASSUME NEW j \in Ids, NEW k \in Ids, j < k, cid'[k] # 0 PROVE cid'[j] # 0
    BY <1>0, <1>5, <1>6, <2>2 DEF Numbered
  <2> QED BY <2>1, <2>2 DEF Numbered
<1> QED BY <1>2, <1>4, <1>7, <1>8 DEF Types

LEMMA CrashTypes ==
    ASSUME Types, Crash
    PROVE  Types' /\ \A t \in Threads : pc'[t] = "idle" /\ loc'[t] = NoLocals
<1>0. DataOK /\ ThreadsOK /\ Numbered
  BY DEF Types
<1>1. /\ crashes < MaxCrashes /\ crashes' = crashes + 1
      /\ record' = [i \in Ids |-> IF i \in file THEN "unresolved" ELSE "none"]
      /\ seq' = Max({0} \cup {cid[i] : i \in file}) /\ events' = {}
      /\ pc' = [t \in Threads |-> "idle"] /\ loc' = [t \in Threads |-> NoLocals]
      /\ UNCHANGED <<order, cid, file, pos, openRows, lines, slips>>
  BY DEF Crash, bookVars
<1>2. ThreadsOK' /\ \A t \in Threads : pc'[t] = "idle" /\ loc'[t] = NoLocals
  BY <1>1, LocalsAre, LabelsAre DEF ThreadsOK, Fit
<1>3. seq' \in {0} \cup {cid[i] : i \in file}
  <2> DEFINE S == {0} \cup {cid[i] : i \in file}
  <2>1. S \in SUBSET (0..MaxOrders) /\ S # {} /\ MaxOrders \in Nat
    BY <1>0, EntryExecutionAssumption DEF DataOK, LedgerOK
  <2> HIDE DEF S
  <2>2. Max(S) \in S
    BY <2>1, MaxIs
  <2> QED BY <1>1, <2>2 DEF S
<1>4. DataOK'
  <2>1. seq' \in 0..MaxOrders
    BY <1>0, <1>3, EntryExecutionAssumption DEF DataOK, LedgerOK
  <2>2. crashes' \in 0..MaxCrashes
    BY <1>0, <1>1, EntryExecutionAssumption DEF DataOK, WorldOK
  <2> QED BY <1>0, <1>1, <2>1, <2>2 DEF DataOK, LedgerOK, WorldOK, Phases
<1>5. Numbered'
  <2>1. ASSUME NEW k \in Ids, cid[k] = 0 PROVE seq' < k
    <3>1. CASE seq' = 0
      BY <3>1 DEF Ids
    <3>2. CASE seq' # 0
      <4>1. PICK j \in file : seq' = cid[j]
        BY <1>3, <3>2
      <4>2. j \in Ids /\ cid[j] # 0 /\ cid[j] <= j /\ cid[j] \in Int
        BY <1>0, <3>2, <4>1 DEF Numbered, DataOK, LedgerOK
      <4>3. j < k
        BY <1>0, <2>1, <4>2 DEF Numbered, Ids
      <4> QED BY <4>1, <4>2, <4>3 DEF Ids
    <3> QED BY <3>1, <3>2
  <2> QED BY <1>0, <1>1, <2>1 DEF Numbered
<1> QED BY <1>2, <1>4, <1>5 DEF Types

(* Orders, positions and events after one is decided or a position closed.     *)
LEMMA DecideTypes ==
    ASSUME WorldOK, NEW i \in Ids, NEW state \in Orders, Decide(i, state)
    PROVE  order' \in [Ids -> Orders] /\ pos' \subseteq Ids /\ events' \subseteq 0..MaxOrders
<1>1. i \in 0..MaxOrders
  BY EntryExecutionAssumption DEF Ids
<1> QED BY <1>1 DEF Decide, WorldOK

LEMMA FlattenTypes ==
    ASSUME WorldOK, NEW i \in Ids, Flattened(i)
    PROVE  /\ pos' = pos \ {i} /\ pos' \subseteq Ids /\ events' \subseteq 0..MaxOrders
           /\ events' \subseteq events \cup {0}
BY EntryExecutionAssumption DEF Flattened, WorldOK

LEMMA RowTypes ==
    ASSUME WorldOK, NEW i \in Ids
    PROVE  /\ AddRow(i) => openRows' \in [Ids -> Counts]
           /\ AddLine(i) => lines' \in [Ids -> Counts]
BY UpType DEF AddRow, AddLine, WorldOK

LEMMA MainTypes ==
    ASSUME Types, \/ GateRows \/ GatePosition \/ GiveUp \/ Submit \/ Send
                  \/ Answer \/ AnswerLost
    PROVE  Types'
<1>0. DataOK /\ ThreadsOK /\ Numbered /\ "main" \in Threads
  BY ThreadsAre DEF Types
<1>a. LedgerOK /\ WorldOK /\ slips \subseteq Slips
  BY <1>0 DEF DataOK
<1> USE LabelsAre
<1>1. CASE GateRows
  <2>1. UNCHANGED <<cid, seq, record, file, order, pos, events, openRows, lines, crashes, slips>>
    BY <1>1 DEF GateRows, ledgerVars, worldVars, bookVars
  <2>2. Fit("main", "gate2", loc["main"])
    BY <1>0, <1>1, ThreadIs DEF GateRows, Fit
  <2>3. ThreadsOK'
    BY <1>0, <1>1, <2>2, IdleTypes, StayTypes DEF GateRows
  <2> QED BY <1>0, <2>1, <2>3 DEF Types, DataOK, LedgerOK, WorldOK, Numbered
<1>2. CASE GatePosition
  <2>1. UNCHANGED <<cid, seq, record, file, order, pos, events, openRows, lines, crashes>>
    BY <1>2 DEF GatePosition, ledgerVars, worldVars, bookVars
  <2>2. Fit("main", "submit", loc["main"])
    BY <1>0, <1>2, ThreadIs DEF GatePosition, Fit
  <2>3. ThreadsOK'
    BY <1>0, <1>2, <2>2, IdleTypes, StayTypes DEF GatePosition
  <2>4. slips' \subseteq Slips
    BY <1>a, <1>2 DEF GatePosition, Slip, Slips
  <2> QED BY <1>0, <2>1, <2>3, <2>4 DEF Types, DataOK, LedgerOK, WorldOK, Numbered
<1>3. CASE GiveUp
  <2>1. UNCHANGED <<cid, seq, record, file, order, pos, events, openRows, lines, crashes, slips>>
    BY <1>3 DEF GiveUp, ledgerVars, worldVars, bookVars
  <2>2. ThreadsOK'
    BY <1>0, <1>3, IdleTypes DEF GiveUp
  <2> QED BY <1>0, <2>1, <2>2 DEF Types, DataOK, LedgerOK, WorldOK, Numbered
<1>4. CASE Submit
  <2>1. UNCHANGED <<order, pos, events, openRows, lines, crashes, slips>>
    BY <1>4 DEF Submit, worldVars, bookVars
  <2>2. loc["main"].id \in Ids /\ "unresolved" \in Phases
    BY <1>0, <1>4, ThreadIs DEF Submit, Phases
  <2>3. ThreadsOK' /\ LedgerOK' /\ UNCHANGED <<cid, seq>>
    BY <1>0, <1>a, <1>4, <2>2, TransitionTypes DEF Submit
  <2> QED BY <1>0, <1>a, <2>1, <2>3 DEF Types, DataOK, WorldOK, Numbered
<1>5. CASE Send
  <2>1. UNCHANGED <<cid, seq, record, file, openRows, lines, crashes, slips>>
    BY <1>5 DEF Send, ledgerVars, bookVars
  <2>2. loc["main"].id \in Ids /\ Fit("main", "sent", loc["main"])
    BY <1>0, <1>5, ThreadIs DEF Send, Fit
  <2>3. ThreadsOK'
    BY <1>0, <1>5, <2>2, StayTypes DEF Send
  <2>4. order' \in [Ids -> Orders] /\ pos' \subseteq Ids /\ events' \subseteq 0..MaxOrders
    BY <1>a, <1>5, <2>2, DecideTypes DEF Send
  <2> QED BY <1>0, <1>a, <2>1, <2>3, <2>4 DEF Types, DataOK, LedgerOK, WorldOK, Numbered
<1>6. CASE Answer \/ AnswerLost
  <2>1. UNCHANGED <<order, pos, events, openRows, lines, crashes>>
    BY <1>6 DEF Answer, AnswerLost, worldVars, bookVars
  <2>2. loc["main"].id \in Ids /\ {"unresolved", "failed"} \subseteq Phases
    BY <1>0, <1>6, ThreadIs DEF Answer, AnswerLost, Phases
  <2>3. PICK phase \in Phases, next \in {"complete", "idle"} :
           Transition("main", loc["main"].id, phase, next)
    BY <1>6, <2>2 DEF Answer, AnswerLost
  <2>4. ThreadsOK' /\ LedgerOK' /\ UNCHANGED <<cid, seq>>
    BY <1>0, <1>a, <2>2, <2>3, TransitionTypes
  <2>5. slips' \subseteq Slips
    BY <1>a, <1>6 DEF Answer, AnswerLost, Slip, Slips
  <2> QED BY <1>0, <1>a, <2>1, <2>4, <2>5 DEF Types, DataOK, WorldOK, Numbered
<1> QED BY <1>1, <1>2, <1>3, <1>4, <1>5, <1>6

LEMMA CompleteTypes ==
    ASSUME Types, NEW t \in Threads, Complete(t)
    PROVE  Types'
<1>0. DataOK /\ ThreadsOK /\ Numbered
  BY DEF Types
<1>a. LedgerOK /\ WorldOK /\ slips \subseteq Slips
  BY <1>0 DEF DataOK
<1> USE LabelsAre
<1>1. loc[t].id \in Ids /\ "opened" \in Phases
  <2>1. pc[t] \in BothLabels
    BY DEF Complete, AlreadyOpened, BadStop, Unwind, LogRow, LogFails, Orphan, Open, OpenError, Protect
  <2> QED BY <1>0, <2>1, ThreadIs DEF Phases
<1>2. \A label \in BothLabels : Fit(t, label, loc[t]) /\ label \in Labels
  BY <1>0, <1>1, ThreadIs DEF Fit
<1>3. CASE AlreadyOpened(t) \/ LogFails(t) \/ OpenError(t)
  <2>1. UNCHANGED <<cid, seq, record, file, order, pos, events, openRows, lines, crashes, slips>>
    BY <1>3 DEF AlreadyOpened, LogFails, OpenError, ledgerVars, worldVars, bookVars
  <2>2. GotoIdle(t) \/ (Goto(t, "unlogged") /\ UNCHANGED loc)
    BY <1>3 DEF AlreadyOpened, LogFails, OpenError
  <2>3. ThreadsOK'
    BY <1>0, <1>2, <2>2, IdleTypes, StayTypes
  <2> QED BY <1>0, <2>1, <2>3 DEF Types, DataOK, LedgerOK, WorldOK, Numbered
<1>4. CASE BadStop(t) \/ LogRow(t) \/ Orphan(t)
  <2>1. UNCHANGED <<cid, seq, record, file, order, pos, events, crashes, slips>>
    BY <1>4 DEF BadStop, LogRow, Orphan, ledgerVars, worldVars
  <2>2. \E label \in BothLabels : Goto(t, label) /\ UNCHANGED loc
    BY <1>4 DEF BadStop, LogRow, Orphan
  <2>3. ThreadsOK'
    BY <1>0, <1>2, <2>2, StayTypes
  <2>4. openRows' \in [Ids -> Counts] /\ lines' \in [Ids -> Counts]
    BY <1>a, <1>1, <1>4, RowTypes DEF BadStop, LogRow, Orphan, OrphanLine, WorldOK
  <2> QED BY <1>0, <1>a, <2>1, <2>3, <2>4 DEF Types, DataOK, LedgerOK, WorldOK, Numbered
<1>5. CASE Unwind(t)
  <2>1. UNCHANGED <<order, cid, seq, record, file, openRows, lines, crashes, slips>>
    BY <1>5 DEF Unwind, ledgerVars, bookVars
  <2>2. pos' \subseteq Ids /\ events' \subseteq 0..MaxOrders
    BY <1>a, <1>1, <1>5, FlattenTypes DEF Unwind, WorldOK
  <2>3. ThreadsOK'
    BY <1>0, <1>5, IdleTypes DEF Unwind
  <2> QED BY <1>0, <1>a, <2>1, <2>2, <2>3 DEF Types, DataOK, LedgerOK, WorldOK, Numbered
<1>6. CASE Open(t)
  <2>1. UNCHANGED <<order, pos, events, openRows, lines, crashes, slips>>
    BY <1>6 DEF Open, worldVars, bookVars
  <2>2. ThreadsOK' /\ LedgerOK' /\ UNCHANGED <<cid, seq>>
    BY <1>0, <1>a, <1>1, <1>6, TransitionTypes DEF Open
  <2> QED BY <1>0, <1>a, <2>1, <2>2 DEF Types, DataOK, WorldOK, Numbered
<1>7. CASE Protect(t)
  <2>1. UNCHANGED <<order, openRows, lines, crashes, slips>>
    BY <1>7 DEF Protect, bookVars
  <2>2. pos' \subseteq Ids /\ events' \subseteq 0..MaxOrders
    BY <1>a, <1>1, <1>7, FlattenTypes DEF Protect, WorldOK
  <2>3. \/ Transition(t, loc[t].id, "opened", "idle")
        \/ GotoIdle(t) /\ UNCHANGED <<cid, seq, record, file>>
    BY <1>7 DEF Protect, ledgerVars
  <2>4. ThreadsOK' /\ LedgerOK' /\ UNCHANGED <<cid, seq>>
    <3>1. CASE Transition(t, loc[t].id, "opened", "idle")
      BY <1>0, <1>a, <1>1, <3>1, TransitionTypes
    <3>2. CASE GotoIdle(t) /\ UNCHANGED <<cid, seq, record, file>>
      BY <1>0, <1>a, <3>2, IdleTypes DEF LedgerOK
    <3> QED BY <2>3, <3>1, <3>2
  <2> QED BY <1>0, <1>a, <2>1, <2>2, <2>4 DEF Types, DataOK, WorldOK, Numbered
<1> QED BY <1>3, <1>4, <1>5, <1>6, <1>7 DEF Complete

LEMMA LateTypes ==
    ASSUME Types, NEW e \in events, UserFill(e)
    PROVE  /\ Types'
           /\ UNCHANGED <<cid, seq, record, file, order, pos>> /\ events' = events \ {e}
           /\ pc'["worker"] = pc["worker"] /\ loc'["worker"] = loc["worker"]
           /\ \/ UNCHANGED <<pc, loc, slips>>
              \/ /\ pc'["main"] = "complete" /\ loc'["main"].next = loc["main"].next
                 /\ slips' = {} => slips = {} /\ loc'["main"].id = e
<1>0. DataOK /\ ThreadsOK /\ Numbered /\ "main" \in Threads /\ "worker" \in Threads
  BY ThreadsAre DEF Types
<1>a. LedgerOK /\ WorldOK /\ slips \subseteq Slips
  BY <1>0 DEF DataOK
<1> DEFINE found == Matches(e)
           m == Min(found)
<1>1. /\ UNCHANGED <<cid, seq, record, file, order, pos, openRows, lines, crashes>>
      /\ events' = events \ {e}
  BY DEF UserFill, ledgerVars, bookVars
<1>2. slips' \subseteq Slips => DataOK' /\ Numbered'
  BY <1>0, <1>a, <1>1 DEF DataOK, LedgerOK, WorldOK, Numbered
<1>3. CASE UNCHANGED <<loc, pc, slips>>
  BY <1>0, <1>a, <1>1, <1>2, <1>3 DEF Types, ThreadsOK
<1>4. CASE ~UNCHANGED <<loc, pc, slips>>
  <2>1. /\ found # {}
        /\ loc' = [loc EXCEPT !["main"].id = m]
        /\ Goto("main", "complete")
        /\ Slip("other_order", m # e)
    BY <1>4 DEF UserFill
  <2>2. m \in Ids
    <3>1. found \in SUBSET Ids /\ Ids \in SUBSET Nat
      BY EntryExecutionAssumption DEF Matches, Ids
    <3> HIDE DEF found
    <3>2. found \in SUBSET Nat
      BY <3>1
    <3>3. Min(found) \in found
      BY <2>1, <3>2, MinIs
    <3> QED BY <3>1, <3>3
  <2> HIDE DEF m, found
  <2> DEFINE l == [loc["main"] EXCEPT !.id = m]
  <2>3. l \in Locals /\ l.id = m /\ l.next = loc["main"].next
    <3>1. loc["main"] \in Locals /\ m \in 0..MaxOrders
      BY <1>0, <2>2, EntryExecutionAssumption DEF ThreadsOK, Ids
    <3> QED BY <3>1 DEF Locals
  <2>4. loc' = [loc EXCEPT !["main"] = l] /\ pc' = [pc EXCEPT !["main"] = "complete"]
    BY <2>1 DEF Goto
  <2> HIDE DEF l
  <2>5. "complete" \in Labels /\ Fit("main", "complete", l)
    BY <2>2, <2>3, LabelsAre DEF Fit
  <2>6. /\ ThreadsOK' /\ pc'["main"] = "complete" /\ loc'["main"] = l
        /\ \A u \in Threads : u # "main" => pc'[u] = pc[u] /\ loc'[u] = loc[u]
    BY <1>0, <2>3, <2>4, <2>5, MoveTypes
  <2>7. pc'["worker"] = pc["worker"] /\ loc'["worker"] = loc["worker"]
    <3>1. "worker" # "main"
      OBVIOUS
    <3> QED BY <1>0, <2>6, <3>1
  <2>8. slips' \subseteq Slips /\ (slips' = {} => slips = {} /\ m = e)
    <3>1. "other_order" \in Slips /\ (m # e) \in BOOLEAN
      BY DEF Slips
    <3> QED BY <1>a, <2>1, <3>1, SlipIs
  <2> QED BY <1>1, <1>2, <2>3, <2>6, <2>7, <2>8 DEF Types
<1> QED BY <1>3, <1>4

LEMMA LatestIs ==
    ASSUME LedgerOK, WorldOK, NEW i \in Ids
    PROVE  Latest(i) # 0 => Latest(i) \in Ids /\ order[Latest(i)] # "none"
<1> DEFINE S == {0} \cup {j \in Ids : order[j] # "none" /\ cid[j] = cid[i]}
<1>1. S \in SUBSET (0..MaxOrders) /\ S # {} /\ MaxOrders \in Nat
  BY EntryExecutionAssumption DEF Ids
<1>2. Latest(i) = Max(S)
  BY DEF Latest
<1> HIDE DEF S
<1>3. Max(S) \in S
  BY <1>1, MaxIs
<1> QED BY <1>2, <1>3 DEF S

LEMMA LookupTypes ==
    ASSUME Types, NEW i \in Ids, LookupFilled(i)
    PROVE  /\ Types' /\ UNCHANGED <<cid, seq, record, file, order, pos, events>>
           /\ pc'["main"] = pc["main"] /\ loc'["main"] = loc["main"]
           /\ pc'["worker"] = "adopt" /\ loc'["worker"].id = i
           /\ loc'["worker"].next = loc["worker"].next
           /\ slips' = {} => slips = {} /\ order[i] = "filled"
<1>0. DataOK /\ ThreadsOK /\ Numbered /\ "main" \in Threads /\ "worker" \in Threads
  BY ThreadsAre DEF Types
<1>a. LedgerOK /\ WorldOK /\ slips \subseteq Slips
  BY <1>0 DEF DataOK
<1> DEFINE l == [loc["worker"] EXCEPT !.id = i]
<1>1. /\ UNCHANGED <<cid, seq, record, file, order, pos, events, openRows, lines, crashes>>
      /\ loc' = [loc EXCEPT !["worker"] = l] /\ pc' = [pc EXCEPT !["worker"] = "adopt"]
      /\ order[Latest(i)] = "filled" /\ Slip("other_order", Latest(i) # i)
  BY DEF LookupFilled, ledgerVars, bookVars, worldVars, Goto
<1>2. loc["worker"] \in Locals /\ l \in Locals /\ l.id = i /\ l.next = loc["worker"].next
  <2>1. loc["worker"] \in Locals /\ i \in 0..MaxOrders
    BY <1>0, EntryExecutionAssumption DEF ThreadsOK, Ids
  <2> QED BY <2>1 DEF Locals
<1>3. "adopt" \in Labels /\ Fit("worker", "adopt", l)
  BY <1>0, <1>2, ThreadIs, LabelsAre DEF Fit
<1> HIDE DEF l
<1>4. /\ ThreadsOK' /\ pc'["worker"] = "adopt" /\ loc'["worker"] = l
      /\ \A u \in Threads : u # "worker" => pc'[u] = pc[u] /\ loc'[u] = loc[u]
  BY <1>0, <1>1, <1>2, <1>3, MoveTypes
<1>5. pc'["main"] = pc["main"] /\ loc'["main"] = loc["main"]
  <2>1. "main" # "worker"
    OBVIOUS
  <2> QED BY <1>0, <1>4, <2>1
<1>6. slips' \subseteq Slips /\ (slips' = {} => slips = {} /\ Latest(i) = i)
  <2>1. "other_order" \in Slips /\ (Latest(i) # i) \in BOOLEAN
    BY DEF Slips
  <2> QED BY <1>a, <1>1, <2>1, SlipIs
<1>7. DataOK' /\ Numbered'
  BY <1>0, <1>a, <1>1, <1>6 DEF DataOK, LedgerOK, WorldOK, Numbered
<1> QED BY <1>1, <1>2, <1>4, <1>5, <1>6, <1>7 DEF Types

LEMMA WorkerTypes ==
    ASSUME Types, \/ \E i \in Ids : LookupRefused(i) \/ RecoverLine(i)
                  \/ Adopt \/ RecoverRead \/ RecoverWrite
    PROVE  Types'
<1>0. DataOK /\ ThreadsOK /\ Numbered /\ "worker" \in Threads
  BY ThreadsAre DEF Types
<1>a. LedgerOK /\ WorldOK /\ slips \subseteq Slips
  BY <1>0 DEF DataOK
<1>b. loc["worker"] \in Locals /\ Fit("worker", pc["worker"], loc["worker"])
  BY <1>0, ThreadIs
<1> USE LabelsAre
<1>1. ASSUME NEW i \in Ids, LookupRefused(i) PROVE Types'
  <2>1. UNCHANGED <<order, pos, events, openRows, lines, crashes>>
    BY <1>1 DEF LookupRefused, worldVars, bookVars
  <2>2. "failed" \in Phases /\ Transition("worker", i, "failed", "idle")
    BY <1>1 DEF LookupRefused, Phases
  <2>3. ThreadsOK' /\ LedgerOK' /\ UNCHANGED <<cid, seq>>
    BY <1>0, <1>a, <2>2, TransitionTypes
  <2>4. slips' \subseteq Slips
    BY <1>a, <1>1 DEF LookupRefused, Slip, Slips
  <2> QED BY <1>0, <1>a, <2>1, <2>3, <2>4 DEF Types, DataOK, WorldOK, Numbered
<1>2. ASSUME NEW i \in Ids, RecoverLine(i) PROVE Types'
  <2> DEFINE k == [loc["worker"].kept EXCEPT ![i] = @ - 1]
             l == [loc["worker"] EXCEPT !.kept = k]
  <2>1. /\ UNCHANGED <<cid, seq, record, file, order, pos, events, crashes, slips, pc>>
        /\ loc' = [loc EXCEPT !["worker"] = l] /\ lines' = [lines EXCEPT ![i] = @ - 1]
        /\ pc["worker"] = "recover" /\ loc["worker"].kept[i] > 0 /\ lines[i] > 0 /\ AddRow(i)
    BY <1>2 DEF RecoverLine, ledgerVars, worldVars
  <2>2. loc["worker"].kept \in [Ids -> Counts] /\ lines \in [Ids -> Counts]
    BY <1>a, <1>b, LocalsAre DEF WorldOK
  <2>3. k \in [Ids -> Counts] /\ lines' \in [Ids -> Counts] /\ openRows' \in [Ids -> Counts]
    BY <1>a, <2>1, <2>2, RowTypes DEF Counts
  <2>4. l \in Locals /\ l.next = loc["worker"].next
    <3> HIDE DEF k
    <3> QED BY <1>b, <2>3 DEF Locals
  <2>5. "recover" \in Labels /\ Fit("worker", "recover", l)
    BY <1>b, <2>1, <2>4 DEF Fit
  <2>6. pc' = [pc EXCEPT !["worker"] = "recover"]
    BY <1>0, <2>1 DEF ThreadsOK
  <2> HIDE DEF l, k
  <2>7. ThreadsOK'
    BY <1>0, <2>1, <2>4, <2>5, <2>6, MoveTypes
  <2> QED BY <1>0, <1>a, <2>1, <2>3, <2>7 DEF Types, DataOK, LedgerOK, WorldOK, Numbered
<1>3. CASE Adopt
  <2>1. UNCHANGED <<cid, seq, record, file, order, pos, events, openRows, lines, crashes, slips>>
    BY <1>3 DEF Adopt, ledgerVars, worldVars, bookVars
  <2>2. Fit("worker", "complete", loc["worker"])
    BY <1>0, <1>3, ThreadIs DEF Adopt, Fit
  <2>3. ThreadsOK'
    BY <1>0, <1>3, <2>2, IdleTypes, StayTypes DEF Adopt
  <2> QED BY <1>0, <2>1, <2>3 DEF Types, DataOK, LedgerOK, WorldOK, Numbered
<1>4. CASE RecoverRead
  <2> DEFINE l == [loc["worker"] EXCEPT !.kept = lines]
  <2>1. /\ UNCHANGED <<cid, seq, record, file, order, pos, events, openRows, lines, crashes, slips>>
        /\ loc' = [loc EXCEPT !["worker"] = l] /\ pc' = [pc EXCEPT !["worker"] = "recover"]
    BY <1>4 DEF RecoverRead, ledgerVars, worldVars, bookVars, Goto
  <2>2. l \in Locals /\ l.next = loc["worker"].next
    BY <1>a, <1>b DEF Locals, WorldOK
  <2>3. "recover" \in Labels /\ Fit("worker", "recover", l)
    BY <1>b, <2>2 DEF Fit
  <2> HIDE DEF l
  <2>4. ThreadsOK'
    BY <1>0, <2>1, <2>2, <2>3, MoveTypes
  <2> QED BY <1>0, <2>1, <2>4 DEF Types, DataOK, LedgerOK, WorldOK, Numbered
<1>5. CASE RecoverWrite
  <2>1. UNCHANGED <<cid, seq, record, file, order, pos, events, openRows, crashes>>
    BY <1>5 DEF RecoverWrite, ledgerVars, worldVars
  <2>2. lines' \in [Ids -> Counts]
    BY <1>b, <1>5, LocalsAre DEF RecoverWrite, Remaining
  <2>3. slips' \subseteq Slips
    BY <1>a, <1>5 DEF RecoverWrite, Slip, Slips
  <2>4. ThreadsOK'
    BY <1>0, <1>5, IdleTypes DEF RecoverWrite
  <2> QED BY <1>0, <1>a, <2>1, <2>2, <2>3, <2>4 DEF Types, DataOK, LedgerOK, WorldOK, Numbered
<1> QED BY <1>1, <1>2, <1>3, <1>4, <1>5

LEMMA EnvironmentTypes ==
    ASSUME Types, Environment PROVE Types'
<1>0. DataOK /\ ThreadsOK /\ Numbered /\ LedgerOK /\ WorldOK /\ slips \subseteq Slips
  BY DEF Types, DataOK
<1>1. ASSUME NEW i \in Ids, Settle(i) PROVE Types'
  <2>1. UNCHANGED <<cid, seq, record, file, openRows, lines, pc, loc, crashes, slips>>
    BY <1>1 DEF Settle, ledgerVars, bookVars
  <2>2. PICK state \in Orders : Decide(i, state)
    BY <1>1 DEF Settle, Orders
  <2>3. order' \in [Ids -> Orders] /\ pos' \subseteq Ids /\ events' \subseteq 0..MaxOrders
    BY <1>0, <2>2, DecideTypes
  <2> QED BY <1>0, <2>1, <2>3 DEF Types, DataOK, LedgerOK, WorldOK, Numbered, ThreadsOK
<1>2. CASE Flat
  <2>1. UNCHANGED <<order, cid, seq, record, file, openRows, lines, pc, loc, crashes, slips>>
    BY <1>2 DEF Flat, ledgerVars, bookVars
  <2>2. pos' \subseteq Ids /\ events' \subseteq 0..MaxOrders
    BY <1>0, <1>2, EntryExecutionAssumption DEF Flat, WorldOK
  <2> QED BY <1>0, <2>1, <2>2 DEF Types, DataOK, LedgerOK, WorldOK, Numbered, ThreadsOK
<1>3. CASE CloseRows
  <2>1. UNCHANGED <<order, pos, events, cid, seq, record, file, lines, pc, loc, crashes, slips>>
    BY <1>3 DEF CloseRows, ledgerVars, worldVars
  <2>2. openRows' \in [Ids -> Counts]
    BY <1>3 DEF CloseRows, Counts
  <2> QED BY <1>0, <2>1, <2>2 DEF Types, DataOK, LedgerOK, WorldOK, Numbered, ThreadsOK
<1> QED BY <1>1, <1>2, <1>3 DEF Environment

LEMMA TypesStep == Types /\ [Next]_vars => Types'
<1> SUFFICES ASSUME Types, [Next]_vars PROVE Types'
  OBVIOUS
<1>1. CASE MainStep
  BY <1>1, ThreadsAre, StartTypes, LateTypes, MainTypes, CompleteTypes, WriteTypes
     DEF MainStep, MainBusy
<1>2. CASE WorkerStep
  BY <1>2, ThreadsAre, LookupTypes, WorkerTypes, CompleteTypes, WriteTypes DEF WorkerStep, WorkerBusy
<1>3. CASE Environment \/ Crash
  BY <1>3, EnvironmentTypes, CrashTypes
<1>4. CASE UNCHANGED vars
  <2>1. UNCHANGED <<order, cid, seq, record, file, pos, openRows, lines, events, pc, loc, crashes, slips>>
    BY <1>4 DEF vars
  <2>2. DataOK' /\ Numbered' /\ ThreadsOK'
    BY <2>1 DEF Types, DataOK, LedgerOK, WorldOK, Numbered, ThreadsOK
  <2> QED BY <2>2 DEF Types
<1> QED BY <1>1, <1>2, <1>3, <1>4 DEF Next

(* Every record, order, file and thread has the type the code gives it; a     *)
(* client order id never exceeds the number of its order, so _seq of the     *)
(* ledger (core/execution_ledger.py) stays within the orders tried.         *)
THEOREM TypesCorrect == Spec => []TypeOK
<1>1. Init => Types
  BY TypesInit
<1>2. Types /\ [Next]_vars => Types'
  BY TypesStep
<1>3. Types => TypeOK
  BY TypesShow
<1> QED BY <1>1, <1>2, <1>3, PTL DEF Spec

-----------------------------------------------------------------------------
(* One entry at a time.  What makes it so, while nothing slipped:             *)
(* Exchange: only numbered orders were sent, only executed ones are reported,  *)
(*   and one at most is open or may still fill;                               *)
(* Tracked: an order that may still fill has an unresolved record, in the      *)
(*   file too, so a new entry is refused before and after a crash;            *)
(* Entering: while the main loop is between its check of the records and the   *)
(*   order, no order works and its own is unsent; after its check of the      *)
(*   position there is none; its record is unresolved before it sends;        *)
(* Completed: a thread completes only an order that was executed.             *)
Working == {j \in Ids : order[j] = "working"}
Exchange ==
    /\ \A j \in Ids : order[j] # "none" => cid[j] # 0
    /\ \A e \in events \ {0} : order[e] = "filled"
    /\ \A i, j \in Exposure : i = j
Tracked == \A j \in Working : record[j] = "unresolved" /\ j \in file

Placing(label, l) ==
    label \in {"gate", "gate2", "submit", "send"} \/ (label = "write" /\ l.next \in {"gate", "send"})
Alone(label, l) == label \in {"submit", "send"} \/ (label = "write" /\ l.next = "send")
Completing(label, l) ==
    \/ label \in {"adopt", "complete", "unwind", "unlogged", "booked", "protect"}
    \/ label = "write" /\ l.next \in {"complete", "protect"}
EnteringAt(label, l) ==
    /\ Placing(label, l) => Working = {} /\ order[l.id] = "none" /\ cid[l.id] # 0
    /\ Alone(label, l) => pos = {}
    /\ label = "write" /\ l.next = "send" => record[l.id] = "unresolved" /\ l.id \in l.snap
    /\ label = "send" => record[l.id] = "unresolved" /\ l.id \in file
CompletedAt(label, l) == Completing(label, l) => order[l.id] = "filled"
Entering     == EnteringAt(pc["main"], loc["main"])
Completed(t) == CompletedAt(pc[t], loc[t])
Sane == Exchange /\ Tracked /\ Entering /\ \A t \in Threads : Completed(t)

LEMMA SaneInit == Init => Sane
<1> SUFFICES ASSUME Init PROVE Sane
  OBVIOUS
<1>1. pc["main"] = "idle" /\ (\A t \in Threads : pc[t] = "idle") /\ Working = {} /\ Exposure = {}
  BY DEF Init, Threads, Working, Exposure
<1>2. Exchange /\ Tracked
  BY <1>1 DEF Init, Exchange, Tracked
<1>3. Entering /\ \A t \in Threads : Completed(t)
  BY <1>1 DEF Entering, EnteringAt, Placing, Alone, Completed, CompletedAt, Completing
<1> QED BY <1>2, <1>3 DEF Sane

(* Steps that neither send nor decide an order nor open a position.          *)
LEMMA ExchangeKept ==
    ASSUME Exchange, UNCHANGED order, pos' \subseteq pos, events' \subseteq events \cup {0},
           \A j \in Ids : cid[j] # 0 => cid'[j] # 0
    PROVE  Exchange'
<1>1. Exposure' \subseteq Exposure
  BY DEF Exposure
<1> QED BY <1>1 DEF Exchange

(* A thread that does not move keeps what it knows.                          *)
LEMMA CompletedKept ==
    ASSUME UNCHANGED order, NEW u \in Threads, Completed(u), pc'[u] = pc[u], loc'[u] = loc[u]
    PROVE  Completed(u)'
BY DEF Completed, CompletedAt, Completing

LEMMA EnteringKept ==
    ASSUME ThreadsOK, Entering, UNCHANGED order, pos' \subseteq pos, pc'["main"] = pc["main"],
           loc'["main"] = loc["main"], cid'[loc["main"].id] = cid[loc["main"].id],
           \A i \in Ids : record[i] = "unresolved" /\ order[i] = "none" => record'[i] = "unresolved",
           pc["main"] = "send" /\ loc["main"].id \in file => loc["main"].id \in file'
    PROVE  Entering'
<1>1. Working' = Working
  BY DEF Working
<1>2. pc["main"] \notin {"idle", "recover"} => loc["main"].id \in Ids
  BY ThreadsAre, ThreadIs
<1> QED BY <1>1, <1>2 DEF Entering, EnteringAt, Placing, Alone

(* A thread that goes where it neither enters nor completes.                 *)
LEMMA EnteringLeft ==
    ASSUME ~Placing(pc'["main"], loc'["main"])
    PROVE  Entering'
BY DEF Entering, EnteringAt, Placing, Alone

(* One thread moves; nothing is sent, decided or opened.                     *)
LEMMA MoveSane ==
    ASSUME ThreadsOK, Sane, NEW t \in Threads, UNCHANGED order, pos' \subseteq pos,
           events' \subseteq events \cup {0}, \A j \in Ids : cid[j] # 0 => cid'[j] # 0,
           Tracked', Completed(t)', t = "main" => Entering',
           \A u \in Threads : u # t => pc'[u] = pc[u] /\ loc'[u] = loc[u],
           t = "worker" =>
              /\ UNCHANGED cid
              /\ \A i \in Ids : record[i] = "unresolved" /\ order[i] = "none"
                                 => record'[i] = "unresolved"
              /\ pc["main"] = "send" /\ loc["main"].id \in file => loc["main"].id \in file'
    PROVE  Sane'
<1>1. Exchange'
  BY ExchangeKept DEF Sane
<1>2. \A u \in Threads : Completed(u)'
  <2>1. ASSUME NEW u \in Threads, u # t PROVE Completed(u)'
    BY <2>1, CompletedKept DEF Sane
  <2> QED BY <2>1
<1>3. Entering'
  <2>1. CASE t = "main"
    BY <2>1
  <2>2. CASE t # "main"
    <3>1. t = "worker" /\ pc'["main"] = pc["main"] /\ loc'["main"] = loc["main"]
      BY <2>2, ThreadsAre
    <3> QED BY <3>1, EnteringKept DEF Sane
  <2> QED BY <2>1, <2>2
<1> QED BY <1>1, <1>2, <1>3 DEF Sane

LEMMA WriteSane ==
    ASSUME Types, Sane, slips' = {}, NEW t \in Threads, WriteLedger(t)
    PROVE  Sane'
<1>1. /\ Unresolved \subseteq loc[t].snap /\ file' = loc[t].snap /\ pc[t] = "write"
      /\ UNCHANGED <<cid, record, order, pos, events>>
      /\ pc'[t] = loc[t].next
      /\ pc'[t] # "idle" => loc'[t].id = loc[t].id
      /\ \A u \in Threads : u # t => pc'[u] = pc[u] /\ loc'[u] = loc[u]
  BY WriteTypes DEF WriteLedger, Written, worldVars
<1>2. ThreadsOK /\ ThreadsOK'
  BY WriteTypes DEF Types
<1>3. loc[t].next \in {"idle", "gate", "send", "complete", "protect"} /\ loc[t].id \in Ids
  BY <1>1, <1>2, ThreadIs
<1>4. Tracked'
  BY <1>1 DEF Sane, Tracked, Working, Unresolved
<1>5. Completed(t)'
  BY <1>1, <1>3 DEF Sane, Completed, CompletedAt, Completing
<1>6. t = "main" => Entering'
  BY <1>1, <1>3 DEF Sane, Entering, EnteringAt, Placing, Alone, Working
<1>7. pc["main"] = "send" /\ loc["main"].id \in file => loc["main"].id \in file'
  <2>1. pc["main"] = "send" => loc["main"].id \in Unresolved
    BY <1>2, ThreadIs, ThreadsAre DEF Sane, Entering, EnteringAt, Unresolved
  <2> QED BY <1>1, <2>1
<1> QED BY <1>1, <1>2, <1>4, <1>5, <1>6, <1>7, MoveSane

LEMMA StartSane ==
    ASSUME Types, Sane, NEW i \in Ids, Start(i)
    PROVE  Sane'
<1>1. /\ cid[i] = 0 /\ Unresolved = {} /\ cid' = [cid EXCEPT ![i] = seq + 1]
      /\ record' = [record EXCEPT ![i] = "queued"] /\ UNCHANGED <<file, order, pos, events>>
  BY DEF Start, SymbolFree, worldVars
<1>2. /\ pc'["main"] = "write" /\ loc'["main"].id = i /\ loc'["main"].next = "gate"
      /\ \A u \in Threads : u # "main" => pc'[u] = pc[u] /\ loc'[u] = loc[u]
  BY StartTypes, ThreadsAre
<1>3. cid' \in [Ids -> 0..MaxOrders] /\ cid \in [Ids -> 0..MaxOrders] /\ cid'[i] # 0
  <2>1. cid \in [Ids -> 0..MaxOrders] /\ seq \in 0..MaxOrders /\ cid' \in [Ids -> 0..MaxOrders]
    BY StartTypes DEF Types, DataOK, LedgerOK
  <2> QED BY <1>1, <2>1, EntryExecutionAssumption
<1>4. \A j \in Ids : cid[j] # 0 => cid'[j] # 0
  BY <1>1, <1>3
<1>5. Working = {} /\ order[i] = "none"
  BY <1>1 DEF Sane, Tracked, Working, Unresolved, Exchange
<1>6. Tracked' /\ Working' = {}
  BY <1>1, <1>5 DEF Tracked, Working
<1>7. Completed("main")'
  BY <1>2 DEF Completed, CompletedAt, Completing
<1>8. Entering'
  BY <1>1, <1>2, <1>3, <1>5, <1>6 DEF Entering, EnteringAt, Placing, Alone
<1> QED BY <1>1, <1>2, <1>4, <1>6, <1>7, <1>8, ThreadsAre, MoveSane DEF Types

LEMMA QuietSane ==
    ASSUME ThreadsOK, Sane, NEW t \in Threads, UNCHANGED <<order, cid, record, file>>, pos' \subseteq pos,
           events' \subseteq events \cup {0}, Completed(t)', t = "main" => Entering',
           \A u \in Threads : u # t => pc'[u] = pc[u] /\ loc'[u] = loc[u]
    PROVE  Sane'
<1>1. Tracked'
  BY DEF Sane, Tracked, Working
<1>2. UNCHANGED order /\ UNCHANGED cid /\ UNCHANGED record /\ UNCHANGED file
  OBVIOUS
<1> QED BY <1>1, <1>2, MoveSane

LEMMA GatesSane ==
    ASSUME Types, Sane, slips' = {}, GateRows \/ GatePosition \/ GiveUp
    PROVE  Sane'
<1>1. UNCHANGED <<order, cid, record, file, pos, events>>
  BY DEF GateRows, GatePosition, GiveUp, ledgerVars, worldVars
<1>2. "main" \in Threads /\ ThreadsOK
  BY ThreadsAre DEF Types
<1>3. \/ pc'["main"] = "idle"
      \/ pc["main"] = "gate" /\ pc'["main"] = "gate2" /\ loc'["main"] = loc["main"]
      \/ pc["main"] = "gate2" /\ pc'["main"] = "submit" /\ loc'["main"] = loc["main"] /\ pos = {}
  <2>1. CASE GotoIdle("main")
    BY <1>2, <2>1, IdleTypes
  <2>2. CASE pc["main"] = "gate" /\ Goto("main", "gate2") /\ UNCHANGED loc
    BY <1>2, <2>2 DEF Goto, ThreadsOK
  <2>3. CASE pc["main"] = "gate2" /\ Goto("main", "submit") /\ UNCHANGED loc /\ pos = {}
    BY <1>2, <2>3 DEF Goto, ThreadsOK
  <2> QED BY <2>1, <2>2, <2>3 DEF GateRows, GatePosition, GiveUp, Slip
<1>4. \A u \in Threads : u # "main" => pc'[u] = pc[u] /\ loc'[u] = loc[u]
  BY <1>2 DEF GateRows, GatePosition, GiveUp, GotoIdle, Goto, ThreadsOK
<1>5. Completed("main")'
  BY <1>3 DEF Completed, CompletedAt, Completing
<1>6. Entering'
  BY <1>1, <1>3 DEF Sane, Entering, EnteringAt, Placing, Alone, Working
<1> QED BY <1>1, <1>2, <1>4, <1>5, <1>6, QuietSane

LEMMA SubmitSane ==
    ASSUME Types, Sane, Submit
    PROVE  Sane'
<1> DEFINE i == loc["main"].id
<1>1. ThreadsOK /\ LedgerOK /\ "main" \in Threads /\ i \in Ids /\ "unresolved" \in Phases
  BY ThreadsAre, ThreadIs DEF Types, DataOK, Submit, Phases
<1>2. /\ UNCHANGED <<order, cid, file, pos, events>> /\ record' = [record EXCEPT ![i] = "unresolved"]
      /\ record'[i] = "unresolved" /\ pc'["main"] = "write" /\ loc'["main"].id = i
      /\ loc'["main"].next = "send" /\ i \in loc'["main"].snap
      /\ \A u \in Threads : u # "main" => pc'[u] = pc[u] /\ loc'[u] = loc[u]
  <2>1. Transition("main", i, "unresolved", "send") /\ UNCHANGED <<order, pos, events>>
    BY DEF Submit, worldVars
  <2>2. record'[i] = "unresolved"
    BY <1>1, <2>1 DEF Transition, LedgerOK
  <2>3. /\ UNCHANGED <<cid, seq, file>> /\ record' = [record EXCEPT ![i] = "unresolved"]
        /\ pc'["main"] = "write" /\ loc'["main"].id = i /\ loc'["main"].next = "send"
        /\ loc'["main"].snap = {j \in Ids : record'[j] = "unresolved"}
        /\ \A u \in Threads : u # "main" => pc'[u] = pc[u] /\ loc'[u] = loc[u]
    BY <1>1, <2>1, TransitionTypes
  <2> QED BY <1>1, <2>1, <2>2, <2>3
<1>3. Tracked'
  BY <1>1, <1>2 DEF Sane, Tracked, Working, LedgerOK
<1>4. Completed("main")'
  BY <1>2 DEF Completed, CompletedAt, Completing
<1>5. Entering'
  <2>1. pc["main"] = "submit"
    BY DEF Submit
  <2> QED BY <1>2, <2>1 DEF Sane, Entering, EnteringAt, Placing, Alone, Working
<1> QED BY <1>1, <1>2, <1>3, <1>4, <1>5, MoveSane

LEMMA SendSane ==
    ASSUME Types, Sane, Send
    PROVE  Sane'
<1> DEFINE i == loc["main"].id
<1>1. ThreadsOK /\ "main" \in Threads /\ i \in Ids /\ pc["main"] = "send"
  BY ThreadsAre, ThreadIs DEF Types, Send
<1>2. /\ Working = {} /\ order[i] = "none" /\ cid[i] # 0 /\ pos = {}
      /\ record[i] = "unresolved" /\ i \in file
  BY <1>1 DEF Sane, Entering, EnteringAt, Placing, Alone
<1>3. PICK state \in Orders : Decide(i, state)
  BY DEF Send
<1>4. /\ order' = [order EXCEPT ![i] = state] /\ order \in [Ids -> Orders]
      /\ pos' \subseteq {i} /\ events' \subseteq events \cup {i}
      /\ (state # "filled" => pos' = {} /\ events' = events)
      /\ UNCHANGED <<cid, record, file, loc>> /\ pc' = [pc EXCEPT !["main"] = "sent"]
  BY <1>2, <1>3 DEF Decide, Send, ledgerVars, Goto, Types, DataOK, WorldOK
<1>5. events \subseteq 0..MaxOrders /\ Working' \subseteq {i} /\ Exposure' \subseteq {i}
  BY <1>1, <1>2, <1>4 DEF Working, Exposure, Types, DataOK, WorldOK
<1>6. \A e \in events' \ {0} : order'[e] = "filled"
  <2>1. \A e \in events \ {0} : e \in Ids /\ e # i /\ order[e] = "filled"
    BY <1>2, <1>5, EntryExecutionAssumption DEF Sane, Exchange, Ids
  <2>2. \A e \in events \ {0} : order'[e] = "filled"
    BY <1>4, <2>1
  <2>3. state = "filled" => order'[i] = "filled"
    BY <1>1, <1>4
  <2> QED BY <1>4, <2>2, <2>3
<1>7. Exchange'
  BY <1>1, <1>2, <1>4, <1>5, <1>6 DEF Sane, Exchange
<1>8. Tracked'
  BY <1>2, <1>4, <1>5 DEF Tracked
<1>9. Entering'
  <2>1. pc'["main"] = "sent"
    BY <1>1, <1>4 DEF ThreadsOK
  <2> QED BY <2>1, EnteringLeft DEF Placing
<1>10. ASSUME NEW u \in Threads PROVE Completed(u)'
  <2>1. CASE u = "main"
    <3>1. pc'["main"] = "sent"
      BY <1>1, <1>4 DEF ThreadsOK
    <3> QED BY <2>1, <3>1 DEF Completed, CompletedAt, Completing
  <2>2. CASE u # "main"
    <3>1. pc'[u] = pc[u] /\ loc'[u] = loc[u]
      BY <1>1, <1>4, <2>2 DEF ThreadsOK
    <3>2. Completing(pc[u], loc[u]) => loc[u].id \in Ids /\ loc[u].id # i /\ order[loc[u].id] = "filled"
      <4>1. Completing(pc[u], loc[u]) => pc[u] \notin {"idle", "recover"}
        BY DEF Completing
      <4> QED BY <1>1, <1>2, <4>1, ThreadIs DEF Sane, Completed, CompletedAt
    <3> QED BY <1>4, <3>1, <3>2 DEF Completed, CompletedAt
  <2> QED BY <2>1, <2>2
<1> QED BY <1>7, <1>8, <1>9, <1>10 DEF Sane

LEMMA AnswerSane ==
    ASSUME Types, Sane, slips' = {}, Answer \/ AnswerLost
    PROVE  Sane'
<1> DEFINE i == loc["main"].id
<1>1. /\ ThreadsOK /\ LedgerOK /\ WorldOK /\ slips \subseteq Slips /\ "main" \in Threads
      /\ i \in Ids /\ {"unresolved", "failed"} \subseteq Phases
  BY ThreadsAre, ThreadIs DEF Types, DataOK, Answer, AnswerLost, Phases
<1>2. PICK phase \in {"unresolved", "failed"}, next \in {"complete", "idle"} :
         /\ Transition("main", i, phase, next)
         /\ phase = "failed" => order[i] # "working"
         /\ next = "complete" => order[i] = "filled"
  <2>1. CASE Answer
    <3>1. Latest(i) = i
      <4>1. Slip("other_order", Latest(i) # i)
        BY <2>1 DEF Answer
      <4> QED BY <4>1 DEF Slip
    <3> QED BY <2>1, <3>1 DEF Answer
  <2>2. CASE AnswerLost
    <3>1. order[i] \notin {"working", "filled"}
      <4>1. Slip("lost_answer", order[i] \in {"working", "filled"})
        BY <2>2 DEF AnswerLost
      <4> QED BY <4>1 DEF Slip
    <3> QED BY <2>2, <3>1 DEF AnswerLost
  <2> QED BY <2>1, <2>2
<1>3. /\ UNCHANGED <<order, cid, file, pos, events>> /\ record' = [record EXCEPT ![i] = phase]
      /\ pc'["main"] = "write" /\ loc'["main"].id = i /\ loc'["main"].next = next
      /\ \A u \in Threads : u # "main" => pc'[u] = pc[u] /\ loc'[u] = loc[u]
  <2>1. UNCHANGED <<order, pos, events>>
    BY DEF Answer, AnswerLost, worldVars
  <2>2. /\ UNCHANGED <<cid, seq, file>> /\ record' = [record EXCEPT ![i] = phase]
        /\ pc'["main"] = "write" /\ loc'["main"].id = i /\ loc'["main"].next = next
        /\ \A u \in Threads : u # "main" => pc'[u] = pc[u] /\ loc'[u] = loc[u]
    BY <1>1, <1>2, TransitionTypes
  <2> QED BY <2>1, <2>2
<1>4. Tracked'
  BY <1>1, <1>2, <1>3 DEF Sane, Tracked, Working, LedgerOK
<1>5. Completed("main")'
  BY <1>2, <1>3 DEF Completed, CompletedAt, Completing
<1>6. Entering'
  BY <1>3, EnteringLeft DEF Placing
<1> QED BY <1>1, <1>3, <1>4, <1>5, <1>6, MoveSane

LEMMA LateSane ==
    ASSUME Types, Sane, slips' = {}, NEW e \in events, UserFill(e)
    PROVE  Sane'
<1>1. /\ UNCHANGED <<cid, record, file, order, pos>> /\ events' = events \ {e}
      /\ pc'["worker"] = pc["worker"] /\ loc'["worker"] = loc["worker"]
      /\ \/ UNCHANGED <<pc, loc>>
         \/ pc'["main"] = "complete" /\ loc'["main"].id = e
  BY LateTypes
<1>2. "main" \in Threads /\ ThreadsOK /\ \A u \in Threads : u # "main" => u = "worker"
  BY ThreadsAre DEF Types
<1>3. Completed("main")' /\ Entering'
  <2>1. CASE UNCHANGED <<pc, loc>>
    <3>1. UNCHANGED order /\ pc'["main"] = pc["main"] /\ loc'["main"] = loc["main"] /\ pos' \subseteq pos
      BY <1>1, <2>1
    <3> QED BY <1>1, <1>2, <3>1, EnteringKept, CompletedKept DEF Sane
  <2>2. CASE pc'["main"] = "complete" /\ loc'["main"].id = e
    <3>1. e \in Ids
      <4>1. ThreadsOK'
        BY LateTypes DEF Types
      <4>2. loc'["main"].id \in Ids
        BY <1>2, <2>2, <4>1 DEF ThreadsOK, Fit
      <4> QED BY <2>2, <4>2
    <3>2. order'[e] = "filled"
      BY <1>1, <3>1, EntryExecutionAssumption DEF Sane, Exchange, Ids
    <3> QED BY <2>2, <3>2, EnteringLeft DEF Completed, CompletedAt, Placing
  <2> QED BY <1>1, <2>1, <2>2
<1>4. events' \subseteq events \cup {0}
  BY <1>1
<1> QED BY <1>1, <1>2, <1>3, <1>4, QuietSane

LEMMA WorkerSane ==
    ASSUME Types, Sane, slips' = {},
           \/ \E i \in Ids : LookupFilled(i) \/ LookupRefused(i) \/ RecoverLine(i)
           \/ Adopt \/ RecoverRead \/ RecoverWrite
    PROVE  Sane'
<1>0. ThreadsOK /\ LedgerOK /\ "worker" \in Threads /\ "main" # "worker"
  BY ThreadsAre DEF Types, DataOK
<1>1. ASSUME NEW i \in Ids, LookupFilled(i) PROVE Sane'
  <2>1. /\ UNCHANGED <<cid, record, file, order, pos, events>>
        /\ pc'["main"] = pc["main"] /\ loc'["main"] = loc["main"]
        /\ pc'["worker"] = "adopt" /\ loc'["worker"].id = i /\ order[i] = "filled"
    BY <1>1, LookupTypes
  <2>2. Completed("worker")'
    BY <2>1 DEF Completed, CompletedAt
  <2> QED BY <1>0, <2>1, <2>2, ThreadsAre, QuietSane
<1>2. ASSUME NEW i \in Ids, LookupRefused(i) PROVE Sane'
  <2>1. /\ Transition("worker", i, "failed", "idle") /\ "failed" \in Phases
        /\ UNCHANGED <<order, pos, events>>
    BY <1>2 DEF LookupRefused, worldVars, Phases
  <2>2. order[i] = "refused"
    BY <1>2 DEF LookupRefused, Slip
  <2>3. /\ UNCHANGED <<cid, file>> /\ record' = [record EXCEPT ![i] = "failed"]
        /\ pc'["worker"] = "write" /\ loc'["worker"].next = "idle"
        /\ \A u \in Threads : u # "worker" => pc'[u] = pc[u] /\ loc'[u] = loc[u]
    BY <1>0, <2>1, TransitionTypes
  <2>4. Tracked'
    BY <1>0, <2>1, <2>2, <2>3 DEF Sane, Tracked, Working, LedgerOK
  <2>5. Completed("worker")'
    BY <2>3 DEF Completed, CompletedAt, Completing
  <2>6. \A j \in Ids : record[j] = "unresolved" /\ order[j] = "none" => record'[j] = "unresolved"
    BY <1>0, <2>2, <2>3 DEF LedgerOK
  <2> QED BY <1>0, <2>1, <2>3, <2>4, <2>5, <2>6, MoveSane
<1>3. ASSUME NEW i \in Ids, RecoverLine(i) PROVE Sane'
  <2>1. /\ UNCHANGED <<order, cid, record, file, pos, events>> /\ pc'["worker"] = "recover"
        /\ \A u \in Threads : u # "worker" => pc'[u] = pc[u] /\ loc'[u] = loc[u]
    BY <1>0, <1>3 DEF RecoverLine, ledgerVars, worldVars, ThreadsOK
  <2>2. Completed("worker")'
    BY <2>1 DEF Completed, CompletedAt, Completing
  <2> QED BY <1>0, <2>1, <2>2, QuietSane
<1>4. CASE Adopt
  <2>1. /\ UNCHANGED <<order, cid, record, file, pos, events>> /\ pc["worker"] = "adopt"
        /\ \/ pc'["worker"] = "complete" /\ loc'["worker"] = loc["worker"]
           \/ pc'["worker"] = "idle"
        /\ \A u \in Threads : u # "worker" => pc'[u] = pc[u] /\ loc'[u] = loc[u]
    BY <1>0, <1>4 DEF Adopt, ledgerVars, worldVars, ThreadsOK, Goto, GotoIdle
  <2>2. Completed("worker")'
    BY <1>0, <2>1 DEF Sane, Completed, CompletedAt, Completing
  <2> QED BY <1>0, <2>1, <2>2, QuietSane
<1>5. CASE RecoverRead \/ RecoverWrite
  <2>1. /\ UNCHANGED <<order, cid, record, file, pos, events>>
        /\ pc'["worker"] \in {"idle", "recover"}
        /\ \A u \in Threads : u # "worker" => pc'[u] = pc[u] /\ loc'[u] = loc[u]
    BY <1>0, <1>5 DEF RecoverRead, RecoverWrite, ledgerVars, worldVars, ThreadsOK, Goto, GotoIdle
  <2>2. Completed("worker")'
    BY <2>1 DEF Completed, CompletedAt, Completing
  <2> QED BY <1>0, <2>1, <2>2, QuietSane
<1> QED BY <1>1, <1>2, <1>3, <1>4, <1>5

LEMMA CompleteSane ==
    ASSUME Types, Sane, NEW t \in Threads, Complete(t)
    PROVE  Sane'
<1> DEFINE i == loc[t].id
<1>0. ThreadsOK /\ LedgerOK /\ WorldOK
  BY DEF Types, DataOK
<1>1. pc[t] \in BothLabels /\ i \in Ids /\ order[i] = "filled" /\ "opened" \in Phases
  <2>1. pc[t] \in BothLabels
    BY DEF Complete, AlreadyOpened, BadStop, Unwind, LogRow, LogFails, Orphan, Open, OpenError,
           Protect, BothLabels
  <2>2. pc[t] \notin {"idle", "recover"} /\ Completing(pc[t], loc[t])
    BY <2>1 DEF BothLabels, Completing
  <2> QED BY <1>0, <2>1, <2>2, ThreadIs DEF Sane, Completed, CompletedAt, Phases
<1>2. UNCHANGED <<order, cid, file>> /\ pos' \subseteq pos /\ events' \subseteq events \cup {0}
  <2>1. CASE Unwind(t)
    BY <2>1 DEF Unwind, Flattened, ledgerVars
  <2>2. CASE Protect(t)
    BY <2>2 DEF Protect, Flattened, ledgerVars, Transition
  <2>3. CASE AlreadyOpened(t) \/ BadStop(t) \/ LogRow(t) \/ LogFails(t) \/ Orphan(t) \/ OpenError(t)
    BY <2>3 DEF AlreadyOpened, BadStop, LogRow, LogFails, Orphan, OpenError, ledgerVars, worldVars
  <2>4. CASE Open(t)
    BY <2>4 DEF Open, Transition, worldVars
  <2> QED BY <2>1, <2>2, <2>3, <2>4 DEF Complete
<1>3. \/ /\ UNCHANGED record
         /\ \/ GotoIdle(t)
            \/ \E label \in BothLabels : Goto(t, label) /\ UNCHANGED loc
      \/ \E next \in {"idle", "protect"} : Transition(t, i, "opened", next)
  <2>1. CASE Unwind(t) \/ AlreadyOpened(t) \/ OpenError(t)
    BY <2>1 DEF Unwind, AlreadyOpened, OpenError, ledgerVars
  <2>2. CASE BadStop(t) \/ LogRow(t) \/ LogFails(t) \/ Orphan(t)
    BY <2>2 DEF BadStop, LogRow, LogFails, Orphan, ledgerVars, BothLabels
  <2>3. CASE Open(t) \/ Protect(t)
    BY <2>3 DEF Open, Protect, ledgerVars
  <2> QED BY <2>1, <2>2, <2>3 DEF Complete
<1>4. /\ loc'[t].id = i \/ pc'[t] = "idle"
      /\ pc'[t] \in BothLabels \cup {"idle"} \/ (pc'[t] = "write" /\ loc'[t].next \in {"idle", "protect"})
      /\ \A j \in Ids : j # i => record'[j] = record[j]
      /\ \A u \in Threads : u # t => pc'[u] = pc[u] /\ loc'[u] = loc[u]
  <2>1. CASE UNCHANGED record /\ GotoIdle(t)
    BY <1>0, <2>1, IdleTypes
  <2>2. CASE UNCHANGED record /\ UNCHANGED loc /\ \E label \in BothLabels : Goto(t, label)
    BY <1>0, <2>2 DEF Goto, ThreadsOK
  <2>3. CASE \E next \in {"idle", "protect"} : Transition(t, i, "opened", next)
    <3>1. PICK next \in {"idle", "protect"} : Transition(t, i, "opened", next)
      BY <2>3
    <3>2. /\ pc'[t] = "write" /\ record' = [record EXCEPT ![i] = "opened"]
          /\ loc'[t].id = i /\ loc'[t].next = next
          /\ \A u \in Threads : u # t => pc'[u] = pc[u] /\ loc'[u] = loc[u]
      BY <1>0, <1>1, <3>1, TransitionTypes
    <3> QED BY <1>0, <3>2 DEF LedgerOK
  <2> QED BY <1>3, <2>1, <2>2, <2>3
<1>5. Completed(t)'
  BY <1>1, <1>2, <1>4 DEF Completed, CompletedAt, Completing
<1>6. t = "main" => Entering'
  BY <1>4, EnteringLeft DEF Placing, BothLabels
<1>7. Tracked'
  BY <1>1, <1>2, <1>4 DEF Sane, Tracked, Working
<1>8. \A j \in Ids : record[j] = "unresolved" /\ order[j] = "none" => record'[j] = "unresolved"
  BY <1>1, <1>4
<1>9. \A j \in Ids : cid[j] # 0 => cid'[j] # 0
  BY <1>2
<1> QED BY <1>0, <1>2, <1>4, <1>5, <1>6, <1>7, <1>8, <1>9, MoveSane

LEMMA EnvironmentSane ==
    ASSUME Types, Sane, Environment
    PROVE  Sane'
<1>0. ThreadsOK /\ "main" \in Threads /\ "worker" \in Threads
  BY ThreadsAre DEF Types
<1>1. ASSUME NEW i \in Ids, Settle(i) PROVE Sane'
  <2>1. PICK state \in {"filled", "refused"} : Decide(i, state)
    BY <1>1 DEF Settle
  <2>2. /\ order' = [order EXCEPT ![i] = state] /\ order \in [Ids -> Orders] /\ order[i] = "working"
        /\ pos' \subseteq pos \cup {i} /\ events' \subseteq events \cup {i}
        /\ state # "filled" => UNCHANGED <<pos, events>>
        /\ UNCHANGED <<cid, record, file, pc, loc>> /\ events \subseteq 0..MaxOrders
    BY <1>1, <2>1 DEF Settle, Decide, ledgerVars, Types, DataOK, WorldOK
  <2>3. Exposure' \subseteq Exposure /\ Working' \subseteq Working /\ i \in Working
    BY <2>1, <2>2 DEF Exposure, Working
  <2>4. \A j \in Ids : order[j] # "none" => order'[j] # "none"
    BY <2>1, <2>2
  <2>5. \A j \in Ids : order[j] = "filled" => order'[j] = "filled"
    BY <2>2
  <2>6. \A e \in events' \ {0} : order'[e] = "filled"
    <3>1. ASSUME NEW e \in events \ {0} PROVE order'[e] = "filled"
      <4>1. e \in Ids /\ order[e] = "filled"
        BY <2>2, EntryExecutionAssumption DEF Sane, Exchange, Ids
      <4> QED BY <2>5, <4>1
    <3>2. state = "filled" => order'[i] = "filled"
      BY <2>2
    <3> QED BY <2>2, <3>1, <3>2
  <2>7. Exchange'
    <3>1. \A j \in Ids : order'[j] # "none" => cid'[j] # 0
      BY <2>2 DEF Sane, Exchange
    <3> QED BY <2>3, <2>6, <3>1 DEF Sane, Exchange
  <2>8. Tracked'
    BY <2>2, <2>3 DEF Sane, Tracked
  <2>9. Entering'
    BY <2>2, <2>3, EnteringLeft DEF Sane, Entering, EnteringAt, Placing
  <2>10. ASSUME NEW u \in Threads PROVE Completed(u)'
    <3>1. Completing(pc[u], loc[u]) => loc[u].id \in Ids /\ order[loc[u].id] = "filled"
      <4>1. Completing(pc[u], loc[u]) => pc[u] \notin {"idle", "recover"}
        BY DEF Completing
      <4> QED BY <1>0, <4>1, ThreadIs DEF Sane, Completed, CompletedAt
    <3> QED BY <2>2, <2>5, <3>1 DEF Completed, CompletedAt
  <2> QED BY <2>7, <2>8, <2>9, <2>10 DEF Sane
<1>2. CASE Flat \/ CloseRows
  <2>1. /\ UNCHANGED <<order, cid, record, file, pc, loc>>
        /\ pos' \subseteq pos /\ events' \subseteq events \cup {0}
    BY <1>2 DEF Flat, CloseRows, ledgerVars, worldVars
  <2>2. Completed("main")'
    BY <1>0, <2>1 DEF Sane, Completed, CompletedAt, Completing
  <2>3. Entering'
    BY <1>0, <2>1, EnteringKept DEF Sane
  <2> QED BY <1>0, <2>1, <2>2, <2>3, QuietSane
<1> QED BY <1>1, <1>2 DEF Environment

LEMMA CrashSane ==
    ASSUME Types, Sane, Crash
    PROVE  Sane'
<1>1. /\ UNCHANGED <<order, cid, file, pos>> /\ events' = {}
      /\ record' = [i \in Ids |-> IF i \in file THEN "unresolved" ELSE "none"]
      /\ \A t \in Threads : pc'[t] = "idle"
  BY CrashTypes DEF Crash
<1>2. Exchange'
  BY <1>1, ExchangeKept DEF Sane
<1>3. Tracked'
  BY <1>1 DEF Sane, Tracked, Working
<1>4. Entering' /\ \A t \in Threads : Completed(t)'
  BY <1>1, ThreadsAre, EnteringLeft DEF Placing, Completed, CompletedAt, Completing
<1> QED BY <1>2, <1>3, <1>4 DEF Sane

(* What slipped is not forgotten.                                            *)
LEMMA SlipsStay == Types /\ [Next]_vars => slips \subseteq slips'
<1> SUFFICES ASSUME Types, [Next]_vars PROVE slips \subseteq slips'
  OBVIOUS
<1>1. CASE MainStep
  BY <1>1 DEF MainStep, MainBusy, Complete, Start, UserFill, GateRows, GatePosition, GiveUp, Submit,
     Send, Answer, AnswerLost, AlreadyOpened, BadStop, Unwind, LogRow, LogFails, Orphan, Open,
     OpenError, Protect, WriteLedger, Slip
<1>2. CASE WorkerStep
  BY <1>2 DEF WorkerStep, WorkerBusy, Complete, LookupFilled, LookupRefused, RecoverLine, RecoverRead,
     RecoverWrite, Adopt, AlreadyOpened, BadStop, Unwind, LogRow, LogFails, Orphan, Open,
     OpenError, Protect, WriteLedger, Slip
<1>3. CASE Environment \/ Crash \/ UNCHANGED vars
  BY <1>3 DEF Environment, Settle, Flat, CloseRows, Crash, vars
<1> QED BY <1>1, <1>2, <1>3 DEF Next

LEMMA SaneStep == Types /\ (slips = {} => Sane) /\ [Next]_vars => (slips = {} => Sane)'
<1> SUFFICES ASSUME Types, slips = {} => Sane, [Next]_vars, slips' = {} PROVE Sane'
  OBVIOUS
<1>0. Sane
  BY SlipsStay
<1>1. CASE MainStep
  BY <1>0, <1>1, ThreadsAre, StartSane, LateSane, GatesSane, SubmitSane, SendSane, AnswerSane,
     CompleteSane, WriteSane DEF MainStep, MainBusy
<1>2. CASE WorkerStep
  BY <1>0, <1>2, ThreadsAre, WorkerSane, CompleteSane, WriteSane DEF WorkerStep, WorkerBusy
<1>3. CASE Environment \/ Crash
  BY <1>0, <1>3, EnvironmentSane, CrashSane
<1>4. CASE UNCHANGED vars
  <2>1. /\ UNCHANGED <<order, cid, record, file, pos, events, pc, loc>>
    BY <1>4 DEF vars
  <2> QED BY <1>0, <2>1 DEF Sane, Exchange, Exposure, Tracked, Working, Entering, EnteringAt, Placing, Alone,
             Completed, CompletedAt, Completing
<1> QED BY <1>1, <1>2, <1>3, <1>4 DEF Next

LEMMA SaneIsOne == (slips = {} => Sane) => OneEntry
<1> SUFFICES ASSUME Sane PROVE Cardinality(Exposure) <= 1
  BY DEF OneEntry
<1>1. \A i, j \in Exposure : i = j
  BY DEF Sane, Exchange
<1>2. CASE Exposure = {}
  BY <1>2, FS_EmptySet
<1>3. CASE Exposure # {}
  <2>1. PICK i \in Exposure : TRUE
    BY <1>3
  <2>2. Exposure = {i}
    BY <1>1, <2>1
  <2> QED BY <2>2, FS_Singleton
<1> QED BY <1>2, <1>3

(* "not sending a second order" (executor.py:1415): however the main loop,    *)
(* the worker, late fills, crashes and restarts interleave, the symbol never  *)
(* holds two entries, nor one and another that may still fill, unless one of  *)
(* the named slips happened: every such breach goes through one of them.      *)
THEOREM OneEntryCorrect == Spec => []OneEntry
<1>1. Init => Types /\ (slips = {} => Sane)
  BY TypesInit, SaneInit
<1>2. Types /\ (slips = {} => Sane) /\ [Next]_vars => Types' /\ (slips = {} => Sane)'
  BY TypesStep, SaneStep
<1>3. Types /\ (slips = {} => Sane) => OneEntry
  BY SaneIsOne
<1> QED BY <1>1, <1>2, <1>3, PTL DEF Spec
=============================================================================
