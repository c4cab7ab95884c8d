----------------------------- MODULE Feeds_proofs -----------------------------
(* What the bot reads from the exchange, for any number of threads, budgets,   *)
(* bans, streams and sockets: what a call may weigh, what a ban keeps silent,  *)
(* and the sockets of what is subscribed.                                    *)
EXTENDS MCFeeds, FiniteSetTheorems, SequenceTheorems, WellFoundedInduction, TLAPS
-----------------------------------------------------------------------------
(* The weight of a minute.  What the scan's lanes reserve stays under the soft *)
(* ceiling; orders add to it.  A thread that was told there is room enters its *)
(* weight later: a window passes its budget by what the others entered since.  *)
LaneStages == {"idle", "budget", "enter", "reserve", "send"}
LaneTypes ==
    /\ stage \in [LaneCallers -> LaneStages]
    /\ weight \in [LaneCallers -> Weights \cup {0}]
    /\ window \in [Lanes -> Nat] /\ reserved \in [Lanes -> Nat]
    /\ header \in 0 .. Hard
Told(l) == {t \in LaneCallers : stage[t] = "enter" /\ LaneOf[t] = l}
Most == MostWeight
Windows ==
    \A l \in Lanes : window[l] <= Budget[l] + (Cardinality(LaneCallers) - Cardinality(Told(l))) * Most
Reservations ==
    /\ reserved["order"] <= MaxOrders
    /\ reserved["hot"] + reserved["normal"] <= Soft
(* An order asks neither.                                                   *)
OrdersPass == \A t \in LaneCallers : IsOrder(t) => stage[t] \in {"idle", "send"}
LanesInv == LaneTypes /\ Windows /\ Reservations /\ OrdersPass

LEMMA MostType == Most \in Nat /\ \A w \in Weights \cup {0} : w \in Nat /\ w <= Most
<1>1. Most \in Weights /\ \A v \in Weights : v <= Most
  BY LanesAssumption DEF Most, MostWeight
<1> QED BY <1>1, LanesAssumption

LEMMA Few ==
    ASSUME NEW S \in SUBSET LaneCallers
    PROVE  /\ IsFiniteSet(S) /\ Cardinality(S) \in Nat /\ Cardinality(LaneCallers) \in Nat
           /\ Cardinality(S) <= Cardinality(LaneCallers)
<1>1. IsFiniteSet(LaneCallers)
  BY LanesAssumption
<1>2. IsFiniteSet(S) /\ Cardinality(S) <= Cardinality(LaneCallers)
  BY <1>1, FS_Subset
<1> QED BY <1>1, <1>2, FS_CardinalityType

(* Those who were told are threads, and one more or less is one.              *)
LEMMA ToldType ==
    ASSUME NEW l
    PROVE  /\ Cardinality(Told(l)) \in Nat /\ IsFiniteSet(Told(l))
           /\ Cardinality(LaneCallers) \in Nat
           /\ Cardinality(Told(l)) <= Cardinality(LaneCallers)
<1>1. Told(l) \in SUBSET LaneCallers
  BY DEF Told
<1> QED BY <1>1, Few

LEMMA Room ==
    ASSUME NEW n \in Nat, NEW k \in Nat, k <= n
    PROVE  (n - k) * Most \in Nat
BY MostType, SMTT(30)

LEMMA OneFewer ==
    ASSUME NEW n \in Nat, NEW k \in Nat, 0 < k, k <= n
    PROVE  (n - (k - 1)) * Most = (n - k) * Most + Most
BY MostType, SMTT(30)

LEMMA LanesInitHolds == LanesInit => LanesInv
<1> SUFFICES ASSUME LanesInit PROVE LanesInv
  OBVIOUS
<1>1. LaneTypes
  BY LanesAssumption DEF LanesInit, LaneTypes, LaneStages
<1>2. Reservations
  BY LanesAssumption DEF LanesInit, Reservations, Lanes
<1>4. OrdersPass
  BY DEF LanesInit, OrdersPass
<1>3. Windows
  <2>1. ASSUME NEW l \in Lanes
        PROVE  window[l] <= Budget[l] + (Cardinality(LaneCallers) - Cardinality(Told(l))) * Most
    <3>1. window[l] = 0 /\ Budget[l] \in Nat
      BY LanesAssumption DEF LanesInit
    <3>2. (Cardinality(LaneCallers) - Cardinality(Told(l))) * Most \in Nat
      BY ToldType, Room
    <3> QED BY <3>1, <3>2
  <2> QED BY <2>1 DEF Windows
<1> QED BY <1>1, <1>2, <1>3, <1>4 DEF LanesInv

(* The threads that were told are as before, or one of them has entered.      *)
LEMMA WindowsStay ==
    ASSUME LanesInv, UNCHANGED window,
           \A t \in LaneCallers : stage'[t] = "enter" => stage[t] = "enter"
    PROVE  Windows'
<1>1. ASSUME NEW l \in Lanes
      PROVE  window[l] <= Budget[l] + (Cardinality(LaneCallers) - Cardinality(Told(l)')) * Most
  <2>1. Told(l)' \subseteq Told(l)
    BY DEF Told
  <2>2. /\ Cardinality(Told(l)') \in Nat /\ Cardinality(Told(l)') <= Cardinality(Told(l))
        /\ Cardinality(Told(l)) \in Nat /\ Cardinality(LaneCallers) \in Nat
        /\ Cardinality(Told(l)) <= Cardinality(LaneCallers)
    BY <2>1, ToldType, FS_Subset, FS_CardinalityType
  <2> DEFINE n == Cardinality(LaneCallers)
             k == Cardinality(Told(l))
             j == Cardinality(Told(l)')
  <2>3. n \in Nat /\ k \in Nat /\ j \in Nat /\ j <= k /\ k <= n
    BY <2>2
  <2>4. window[l] \in Nat /\ Budget[l] \in Nat /\ window[l] <= Budget[l] + (n - k) * Most
    BY LanesAssumption DEF LanesInv, LaneTypes, Windows
  <2> HIDE DEF n, k, j
  <2>5. (n - k) * Most <= (n - j) * Most /\ (n - k) * Most \in Nat /\ (n - j) * Most \in Nat
    BY <2>3, MostType, SMTT(30)
  <2>6. window[l] <= Budget[l] + (n - j) * Most
    BY <2>4, <2>5
  <2> QED BY <2>6 DEF n, j
<1> QED BY <1>1 DEF Windows

LEMMA LanesStep == LanesInv /\ [LanesNext]_laneVars => LanesInv'
<1> SUFFICES ASSUME LanesInv, [LanesNext]_laneVars PROVE LanesInv'
  OBVIOUS
<1> USE LanesAssumption
<1>0. OrdersPass'
  BY DEF LanesNext, BeginCall, AskBudget, EnterBudget, TryReserve, NoteResponse, MinutePasses, Passes,
     Ends, laneVars, LanesInv, LaneTypes, OrdersPass, IsOrder
<1>1. ASSUME NEW t \in LaneCallers, BeginCall(t) PROVE LanesInv'
  <2>1. PICK w \in Weights :
          /\ weight' = [weight EXCEPT ![t] = w]
          /\ \/ /\ IsOrder(t) /\ reserved["order"] + w <= MaxOrders
                /\ reserved' = [reserved EXCEPT !["order"] = @ + w]
                /\ Passes(t, "send")
             \/ ~IsOrder(t) /\ Passes(t, "budget") /\ UNCHANGED reserved
    BY <1>1 DEF BeginCall
  <2>2. w \in Nat /\ UNCHANGED <<window, header>>
    BY <1>1 DEF BeginCall
  <2>3. LaneTypes'
    BY <2>1, <2>2 DEF LanesInv, LaneTypes, LaneStages, Passes, Lanes
  <2>4. Reservations'
    BY <2>1, <2>2 DEF LanesInv, LaneTypes, Reservations, Lanes
  <2>5. \A u \in LaneCallers : stage'[u] = "enter" => stage[u] = "enter"
    BY <2>1 DEF LanesInv, LaneTypes, Passes
  <2> QED BY <1>0, <2>2, <2>3, <2>4, <2>5, WindowsStay DEF LanesInv
<1>2. ASSUME NEW t \in LaneCallers, AskBudget(t) PROVE LanesInv'
  <2>1. LaneTypes' /\ Reservations'
    BY <1>2 DEF AskBudget, Ends, Passes, LanesInv, LaneTypes, LaneStages, Reservations
  <2>2. CASE ~HasBudgetFor(t)
    <3>1. \A u \in LaneCallers : stage'[u] = "enter" => stage[u] = "enter"
      BY <1>2, <2>2 DEF AskBudget, Ends, Passes, LanesInv, LaneTypes
    <3> QED BY <1>0, <1>2, <2>1, <3>1, WindowsStay DEF AskBudget, LanesInv
  <2>3. CASE HasBudgetFor(t)
    <3>1. stage' = [stage EXCEPT ![t] = "enter"] /\ UNCHANGED window
      BY <1>2, <2>3 DEF AskBudget, Passes
    <3>2. ASSUME NEW l \in Lanes
          PROVE  window[l] <= Budget[l] + (Cardinality(LaneCallers) - Cardinality(Told(l)')) * Most
      <4>1. CASE l = LaneOf[t]
        <5>1. weight[t] \in Nat /\ window[l] \in Nat /\ Budget[l] \in Nat
          BY MostType DEF LanesInv, LaneTypes
        <5>2. window[l] <= Budget[l]
          BY <2>3, <4>1, <5>1 DEF HasBudgetFor
        <5>3. Told(l)' \in SUBSET LaneCallers
          BY DEF Told
        <5>4. /\ Cardinality(Told(l)') \in Nat /\ Cardinality(LaneCallers) \in Nat
              /\ Cardinality(Told(l)') <= Cardinality(LaneCallers)
          BY <5>3, Few
        <5>5. (Cardinality(LaneCallers) - Cardinality(Told(l)')) * Most \in Nat
          BY <5>4, Room
        <5> QED BY <5>1, <5>2, <5>5
      <4>2. CASE l # LaneOf[t]
        <5>1. Told(l)' = Told(l)
          BY <3>1, <4>2 DEF Told, LanesInv, LaneTypes
        <5> QED BY <5>1 DEF LanesInv, Windows
      <4> QED BY <4>1, <4>2
    <3>3. Windows'
      BY <3>1, <3>2 DEF Windows
    <3> QED BY <1>0, <2>1, <3>3 DEF LanesInv
  <2> QED BY <2>2, <2>3
<1>3. ASSUME NEW t \in LaneCallers, EnterBudget(t) PROVE LanesInv'
  <2>1. /\ stage[t] = "enter" /\ stage' = [stage EXCEPT ![t] = "reserve"]
        /\ window' = [window EXCEPT ![LaneOf[t]] = @ + weight[t]]
        /\ UNCHANGED <<weight, reserved, header>>
    BY <1>3 DEF EnterBudget, Passes
  <2>2. weight[t] \in Nat /\ weight[t] <= Most
    BY MostType DEF LanesInv, LaneTypes
  <2>3. LaneTypes' /\ Reservations'
    BY <2>1, <2>2 DEF LanesInv, LaneTypes, LaneStages, Reservations
  <2>4. ASSUME NEW l \in Lanes
        PROVE  window'[l] <= Budget[l] + (Cardinality(LaneCallers) - Cardinality(Told(l)')) * Most
    <3> DEFINE n == Cardinality(LaneCallers)
               k == Cardinality(Told(l))
    <3>0. n \in Nat /\ k \in Nat /\ k <= n /\ IsFiniteSet(Told(l))
          /\ window[l] \in Nat /\ Budget[l] \in Nat /\ window[l] <= Budget[l] + (n - k) * Most
      BY ToldType DEF LanesInv, LaneTypes, Windows
    <3>1. CASE l = LaneOf[t]
      <4>1. Told(l)' = Told(l) \ {t} /\ t \in Told(l)
        BY <2>1, <3>1 DEF Told, LanesInv, LaneTypes
      <4>2. Cardinality(Told(l)') = k - 1 /\ 0 < k
        BY <3>0, <4>1, FS_RemoveElement, FS_EmptySet
      <4>3. window'[l] = window[l] + weight[t]
        BY <2>1, <3>1 DEF LanesInv, LaneTypes
      <4> HIDE DEF n, k
      <4>4. (n - (k - 1)) * Most = (n - k) * Most + Most /\ (n - k) * Most \in Nat
        BY <3>0, <4>2, OneFewer, Room
      <4>5. window'[l] <= Budget[l] + (n - (k - 1)) * Most
        BY <2>2, <3>0, <4>3, <4>4, MostType
      <4> QED BY <4>2, <4>5 DEF n, k
    <3>2. CASE l # LaneOf[t]
      <4>1. Told(l)' = Told(l) /\ window'[l] = window[l]
        BY <2>1, <3>2 DEF Told, LanesInv, LaneTypes
      <4> QED BY <3>0, <4>1
    <3> QED BY <3>1, <3>2
  <2>5. Windows'
    BY <2>4 DEF Windows
  <2> QED BY <1>0, <2>3, <2>5 DEF LanesInv
<1>4. ASSUME NEW t \in LaneCallers, TryReserve(t) PROVE LanesInv'
  <2>1. \A u \in LaneCallers : stage'[u] = "enter" => stage[u] = "enter"
    BY <1>4 DEF TryReserve, Ends, Passes, LanesInv, LaneTypes
  <2>2. /\ weight[t] \in Nat /\ LaneOf[t] \in Lanes /\ UNCHANGED <<window, header>>
        /\ \A l \in Lanes : reserved[l] \in Nat
    BY <1>4, MostType DEF TryReserve, LanesInv, LaneTypes
  <2>3. CASE ~Fits(t)
    <3>1. LaneTypes' /\ Reservations'
      BY <1>4, <2>3 DEF TryReserve, Ends, Passes, LanesInv, LaneTypes, LaneStages, Reservations
    <3> QED BY <1>0, <2>1, <2>2, <3>1, WindowsStay DEF LanesInv
  <2>4. CASE Fits(t)
    <3>1. /\ reserved' = [reserved EXCEPT ![LaneOf[t]] = @ + weight[t]]
          /\ Passes(t, "send") /\ UNCHANGED weight
      BY <1>4, <2>4 DEF TryReserve
    <3>2. LaneTypes'
      BY <2>2, <3>1 DEF Passes, LanesInv, LaneTypes, LaneStages
    <3>3. Projected + weight[t] <= Soft /\ Projected \in Nat /\ Local <= Projected
          /\ Local = reserved["order"] + reserved["hot"] + reserved["normal"]
      BY <2>2, <2>4 DEF Fits, Projected, Local, LanesInv, LaneTypes, Lanes
    <3>4. Reservations'
      <4>1. CASE LaneOf[t] = "order"
        <5>1. FALSE
          BY <1>4, <4>1 DEF TryReserve, LanesInv, OrdersPass, IsOrder
        <5> QED BY <5>1
      <4>2. CASE LaneOf[t] # "order"
        <5>1. reserved["order"] \in Nat /\ reserved["hot"] \in Nat /\ reserved["normal"] \in Nat
          BY <2>2 DEF Lanes
        <5>2. reserved'["order"] = reserved["order"]
          BY <3>1, <4>2 DEF LanesInv, LaneTypes, Lanes
        <5>3. reserved'["hot"] + reserved'["normal"] = reserved["hot"] + reserved["normal"] + weight[t]
          BY <2>2, <3>1, <4>2, <5>1 DEF LanesInv, LaneTypes, Lanes
        <5> QED BY <2>2, <3>3, <5>1, <5>2, <5>3 DEF LanesInv, Reservations
      <4> QED BY <4>1, <4>2
    <3> QED BY <1>0, <2>1, <2>2, <3>2, <3>4, WindowsStay DEF LanesInv
  <2> QED BY <2>3, <2>4
<1>5. ASSUME NEW t \in LaneCallers, NoteResponse(t) PROVE LanesInv'
  <2>1. \A u \in LaneCallers : stage'[u] = "enter" => stage[u] = "enter"
    BY <1>5 DEF NoteResponse, Ends, Passes, LanesInv, LaneTypes
  <2>2. LaneTypes' /\ Reservations'
    BY <1>5 DEF NoteResponse, Ends, Passes, LanesInv, LaneTypes, LaneStages, Reservations
  <2> QED BY <1>0, <1>5, <2>1, <2>2, WindowsStay DEF NoteResponse, LanesInv
<1>6. CASE MinutePasses
  <2>1. LaneTypes' /\ Reservations'
    BY <1>6 DEF MinutePasses, LanesInv, LaneTypes, Reservations, Lanes
  <2>2. ASSUME NEW l \in Lanes
        PROVE  window'[l] <= Budget[l] + (Cardinality(LaneCallers) - Cardinality(Told(l)')) * Most
    <3>1. Told(l)' = Told(l) /\ window'[l] = 0 /\ Budget[l] \in Nat
      BY <1>6 DEF MinutePasses, Told
    <3>2. (Cardinality(LaneCallers) - Cardinality(Told(l))) * Most \in Nat
      BY ToldType, Room
    <3> QED BY <3>1, <3>2
  <2> QED BY <1>0, <2>1, <2>2 DEF Windows, LanesInv
<1>7. CASE UNCHANGED laneVars
  <2>1. LaneTypes' /\ Reservations' /\ UNCHANGED <<stage, window>>
    BY <1>7 DEF laneVars, LanesInv, LaneTypes, Reservations
  <2> QED BY <1>0, <2>1, WindowsStay DEF LanesInv
<1> QED BY <1>1, <1>2, <1>3, <1>4, <1>5, <1>6, <1>7 DEF LanesNext

LEMMA LanesShow == LanesInv => EntriesHaveRoom /\ LanesTypeOK
<1> SUFFICES ASSUME LanesInv PROVE EntriesHaveRoom /\ LanesTypeOK
  OBVIOUS
<1> USE LanesAssumption
<1>1. reserved["order"] \in Nat /\ reserved["hot"] \in Nat /\ reserved["normal"] \in Nat
  BY DEF LanesInv, LaneTypes, Lanes
<1>2. EntriesHaveRoom
  BY <1>1 DEF LanesInv, Reservations, EntriesHaveRoom, Local
<1>3. reserved \in [Lanes -> 0 .. Hard + MaxOrders]
  BY <1>1 DEF LanesInv, LaneTypes, Reservations, Lanes
<1>4. ASSUME NEW l \in Lanes PROVE window[l] <= Budget[l] + Cardinality(LaneCallers) * MostWeight
  <2> DEFINE n == Cardinality(LaneCallers)
             k == Cardinality(Told(l))
  <2>1. n \in Nat /\ k \in Nat /\ k <= n /\ window[l] \in Nat /\ Budget[l] \in Nat
        /\ window[l] <= Budget[l] + (n - k) * Most
    BY ToldType DEF LanesInv, LaneTypes, Windows
  <2> HIDE DEF n, k
  <2>2. (n - k) * Most <= n * Most /\ (n - k) * Most \in Nat /\ n * Most \in Nat
    BY <2>1, MostType, SMTT(30)
  <2>3. window[l] <= Budget[l] + n * Most
    BY <2>1, <2>2
  <2> QED BY <2>3 DEF n, Most
<1>5. stage \in [LaneCallers -> {"idle", "budget", "enter", "reserve", "send"}]
      /\ weight \in [LaneCallers -> Weights \cup {0}] /\ window \in [Lanes -> Nat]
      /\ header \in 0 .. Hard
  BY DEF LanesInv, LaneTypes, LaneStages
<1>6. \A l \in Lanes : window[l] <= Budget[l] + Cardinality(LaneCallers) * MostWeight
  BY <1>4
<1>7. LanesTypeOK
  BY <1>3, <1>5, <1>6 DEF LanesTypeOK
<1> QED BY <1>2, <1>7
-----------------------------------------------------------------------------
(* The bans.  The hub blocks until the latest end that was handled, unless an  *)
(* older one overwrote its status; then a call that finds no block, or finds  *)
(* one that is over, starts after every end it could know of.                *)
GuardSteps == {"idle", "clear_safety", "clear_stop", "safety", "stop", "acquire",
               "send", "refused", "halt", "ban", "timer"}
HubKeeps ==
    /\ known > now => hubUntil >= known /\ (hubBan = 0 \/ hubBan >= known)
    /\ \A t \in Callers : step[t] = "timer" => hubBan = 0 \/ hubBan >= answer[t]
    /\ \A t \in Callers \ Execution : asked[t] <= now
KnownBans ==
    /\ known <= banEnd /\ \A t \in Callers : answer[t] <= banEnd
    /\ ~reordered => HubKeeps
GuardInv == RestTypeOK /\ KnownBans

LEMMA GuardInitHolds == RestInit => GuardInv
<1> SUFFICES ASSUME RestInit PROVE GuardInv
  OBVIOUS
<1> USE GuardAssumption
<1>1. klineHalted \in BOOLEAN /\ reordered \in BOOLEAN
  BY Zenon DEF RestInit
<1>2. RestTypeOK
  BY <1>1 DEF RestInit, RestTypeOK
<1>3. KnownBans
  BY DEF RestInit, KnownBans, HubKeeps
<1> QED BY <1>2, <1>3 DEF GuardInv

(* Every step keeps the types.                                              *)
LEMMA GuardTypesStep ==
    ASSUME RestTypeOK, [RestNext]_restVars PROVE RestTypeOK'
<1> USE GuardAssumption
<1>a. \A a, b : Later(a, b) \in {a, b}
  BY DEF Later
<1>b. /\ step \in [Callers -> GuardSteps] /\ answer \in [Callers -> 0 .. MaxNow]
      /\ asked \in [Callers -> 0 .. MaxNow] /\ now \in 1 .. MaxNow /\ known \in 0 .. MaxNow
      /\ banEnd \in 0 .. MaxNow /\ hubBan \in 0 .. MaxNow
      /\ safetyUntil \in 0 .. MaxNow + Halt /\ stopUntil \in 0 .. MaxNow + Halt
      /\ hubUntil \in 0 .. MaxNow + Halt
  BY DEF RestTypeOK, GuardSteps
<1>1. ASSUME NEW t \in Callers, CallStep(t) PROVE RestTypeOK'
  <2>0. HaltEnd(t) \in 0 .. MaxNow + Halt /\ answer[t] \in 0 .. MaxNow
    BY <1>a, <1>b DEF HaltEnd, Later
  <2>1. CASE StartCall(t)
    <3>1. klineHalted' \in BOOLEAN
      BY <2>1, Zenon DEF StartCall, RestTypeOK
    <3>2. /\ stopUntil' \in 0 .. MaxNow + Halt /\ hubUntil' \in 0 .. MaxNow + Halt
          /\ hubBan' \in 0 .. MaxNow
      BY <2>1, <1>b DEF StartCall, Later
    <3>3. step' \in [Callers -> GuardSteps] /\ asked' \in [Callers -> 0 .. MaxNow]
      BY <2>1, <1>b DEF StartCall, To, GuardSteps
    <3> QED BY <2>1, <3>1, <3>2, <3>3 DEF StartCall, RestTypeOK, GuardSteps
  <2>2. CASE ClearSafety(t)
    BY <2>2, <1>b DEF ClearSafety, To, histVars, RestTypeOK, GuardSteps
  <2>3. CASE ClearStop(t)
    <3>1. klineHalted' \in BOOLEAN
      BY <2>3, Zenon DEF ClearStop
    <3> QED BY <2>3, <3>1, <1>b DEF ClearStop, To, histVars, RestTypeOK, GuardSteps
  <2>4. CASE AskSafety(t)
    <3>1. klineHalted' \in BOOLEAN
      BY <2>4, Zenon DEF AskSafety, RestTypeOK
    <3>2. step' \in [Callers -> GuardSteps] /\ asked' \in [Callers -> 0 .. MaxNow]
      BY <2>4, <1>b DEF AskSafety, GiveUp, To, GuardSteps
    <3> QED BY <2>4, <3>1, <3>2 DEF AskSafety, RestTypeOK, GuardSteps
  <2>5. CASE AskStop(t)
    <3>1. klineHalted' \in BOOLEAN
      BY <2>5, Zenon DEF AskStop, RestTypeOK
    <3>2. step' \in [Callers -> GuardSteps] /\ asked' \in [Callers -> 0 .. MaxNow]
      BY <2>5, <1>b DEF AskStop, GiveUp, To, GuardSteps
    <3> QED BY <2>5, <3>1, <3>2 DEF AskStop, RestTypeOK, GuardSteps
  <2>6. CASE Acquire(t)
    BY <2>6, <1>b DEF Acquire, To, haltVars, histVars, RestTypeOK, GuardSteps
  <2>7. CASE Send(t)
    <3>1. /\ asked' = [asked EXCEPT ![t] = 0]
          /\ UNCHANGED <<now, haltVars, recovering, known, reordered>>
      BY <2>7 DEF Send
    <3>2. step' \in [Callers -> GuardSteps] /\ answer' \in [Callers -> 0 .. MaxNow]
          /\ banEnd' \in 0 .. MaxNow /\ limits' \in 0 .. MaxLimits
      BY <2>7, <1>b DEF Send, Refused, To, RestTypeOK, GuardSteps
    <3> QED BY <3>1, <3>2, <1>b DEF haltVars, RestTypeOK, GuardSteps
  <2>8. CASE NoteSafety(t)
    BY <2>8, <2>0, <1>a, <1>b DEF NoteSafety, To, histVars, RestTypeOK, GuardSteps
  <2>9. CASE NoteStop(t)
    BY <2>9, <2>0, <1>a, <1>b DEF NoteStop, To, histVars, RestTypeOK, GuardSteps
  <2>10. CASE NoteBan(t)
    BY <2>10, <2>0, <1>b DEF NoteBan, To, RestTypeOK, GuardSteps
  <2>11. CASE NoteTimer(t)
    <3>1. hubUntil' \in 0 .. MaxNow + Halt /\ known' \in 0 .. MaxNow
      BY <2>11, <2>0, <1>b DEF NoteTimer, NewTimer, Later
    <3> QED BY <2>11, <3>1, <1>b DEF NoteTimer, To, RestTypeOK, GuardSteps
  <2> QED BY <1>1, <2>1, <2>2, <2>3, <2>4, <2>5, <2>6, <2>7, <2>8, <2>9, <2>10, <2>11 DEF CallStep
<1>2. CASE Tick
  BY <1>2 DEF Tick, haltVars, histVars, RestTypeOK
<1>3. CASE UNCHANGED restVars
  BY <1>3 DEF restVars, haltVars, histVars, RestTypeOK
<1> QED BY <1>1, <1>2, <1>3 DEF RestNext

(* A step that leaves what is known of the bans, or lets time pass.           *)
LEMMA BansStay ==
    ASSUME GuardInv, RestTypeOK', now <= now', banEnd <= banEnd',
           UNCHANGED <<hubUntil, hubBan, known, reordered>>,
           \A t \in Callers : answer'[t] <= banEnd'
                              /\ (step'[t] = "timer" => step[t] = "timer" /\ answer'[t] = answer[t]),
           \A t \in Callers \ Execution : asked'[t] <= asked[t]
    PROVE  KnownBans'
<1>1. /\ now \in Int /\ now' \in Int /\ banEnd \in Int /\ banEnd' \in Int /\ known \in Int
      /\ hubUntil \in Int /\ hubBan \in Int
      /\ \A t \in Callers : asked[t] \in Int /\ asked'[t] \in Int /\ answer[t] \in Int /\ answer'[t] \in Int
  BY GuardAssumption DEF GuardInv, RestTypeOK
<1>2. known' <= banEnd' /\ \A t \in Callers : answer'[t] <= banEnd'
  BY <1>1 DEF GuardInv, KnownBans
<1>3. ASSUME ~reordered' PROVE HubKeeps'
  <2>1. HubKeeps
    BY <1>3 DEF GuardInv, KnownBans
  <2>2. known' > now' => hubUntil' >= known' /\ (hubBan' = 0 \/ hubBan' >= known')
    BY <1>1, <2>1 DEF HubKeeps
  <2>3. ASSUME NEW t \in Callers, step'[t] = "timer" PROVE hubBan' = 0 \/ hubBan' >= answer'[t]
    BY <2>1, <2>3 DEF HubKeeps
  <2>4. ASSUME NEW t \in Callers \ Execution PROVE asked'[t] <= now'
    <3>1. asked'[t] <= asked[t] /\ asked[t] <= now /\ t \in Callers
      BY <2>1 DEF HubKeeps
    <3> QED BY <1>1, <3>1
  <2> QED BY <2>2, <2>3, <2>4 DEF HubKeeps
<1> QED BY <1>2, <1>3 DEF KnownBans

(* While a ban that was handled runs, the hub blocks and needs no recovery.   *)
LEMMA HubStands ==
    ASSUME RestTypeOK, HubKeeps, known > now PROVE HubBlocks /\ ~RecoveryDue
<1>1. /\ known \in Int /\ now \in Int /\ hubUntil \in Int /\ hubBan \in Int /\ now > 0
  BY GuardAssumption DEF RestTypeOK
<1> QED BY <1>1 DEF HubKeeps, HubBlocks, RecoveryDue, TimerOn, TimestampOver

LEMMA GuardCallStep ==
    ASSUME GuardInv, RestTypeOK', NEW t \in Callers, CallStep(t) PROVE KnownBans'
<1> USE GuardAssumption
<1>a. /\ step \in [Callers -> GuardSteps] /\ answer \in [Callers -> 0 .. MaxNow]
      /\ asked \in [Callers -> 0 .. MaxNow] /\ now \in 1 .. MaxNow /\ known \in 0 .. MaxNow
      /\ banEnd \in 0 .. MaxNow /\ hubBan \in 0 .. MaxNow /\ hubUntil \in 0 .. MaxNow + Halt
      /\ known <= banEnd /\ \A u \in Callers : answer[u] <= banEnd
  BY DEF GuardInv, RestTypeOK, GuardSteps, KnownBans
<1>1. CASE StartCall(t)
  <2>1. /\ UNCHANGED <<now, banEnd, answer, known, reordered>>
        /\ \A u \in Callers : step'[u] = "timer" => step[u] = "timer"
    BY <1>1, <1>a DEF StartCall, To, At
  <2>2. CASE UNCHANGED <<hubUntil, hubBan, asked>>
    BY <2>1, <2>2, <1>a, BansStay
  <2>3. CASE ~UNCHANGED <<hubUntil, hubBan, asked>>
    <3>1. /\ asked' = [asked EXCEPT ![t] = known]
          /\ \/ RecoveryDue /\ hubBan' = 0
             \/ ~HubRefuses(t) /\ UNCHANGED <<hubUntil, hubBan>>
      BY <1>1, <2>3 DEF StartCall
    <3>2. ASSUME ~reordered' PROVE HubKeeps'
      <4>1. HubKeeps /\ ~reordered
        BY <3>2, <2>1 DEF GuardInv, KnownBans
      <4>2. known <= now \/ (t \in Execution /\ UNCHANGED <<hubUntil, hubBan>>)
        <5> SUFFICES ASSUME known > now PROVE t \in Execution /\ UNCHANGED <<hubUntil, hubBan>>
          BY <1>a
        <5>1. HubBlocks /\ ~RecoveryDue
          BY <4>1, HubStands DEF GuardInv
        <5> QED BY <3>1, <5>1 DEF HubRefuses
      <4>3. known' > now' => hubUntil' >= known' /\ (hubBan' = 0 \/ hubBan' >= known')
        BY <2>1, <4>1, <4>2, <1>a DEF HubKeeps
      <4>4. ASSUME NEW u \in Callers, step'[u] = "timer" PROVE hubBan' = 0 \/ hubBan' >= answer'[u]
        BY <2>1, <3>1, <4>1, <4>4 DEF HubKeeps
      <4>5. ASSUME NEW u \in Callers \ Execution PROVE asked'[u] <= now'
        BY <2>1, <3>1, <4>1, <4>2, <1>a DEF HubKeeps
      <4> QED BY <4>3, <4>4, <4>5 DEF HubKeeps
    <3> QED BY <2>1, <3>2, <1>a DEF KnownBans
  <2> QED BY <2>2, <2>3
<1>2. CASE ClearSafety(t)
  BY <1>2, <1>a, BansStay DEF ClearSafety, To, At, histVars
<1>3. CASE ClearStop(t)
  BY <1>3, <1>a, BansStay DEF ClearStop, To, At, histVars
<1>4. CASE AskSafety(t)
  BY <1>4, <1>a, BansStay DEF AskSafety, GiveUp, To, At
<1>5. CASE AskStop(t)
  BY <1>5, <1>a, BansStay DEF AskStop, GiveUp, To, At
<1>6. CASE Acquire(t)
  BY <1>6, <1>a, BansStay DEF Acquire, To, At, haltVars, histVars
<1>7. CASE Send(t)
  <2>1. /\ UNCHANGED <<now, hubUntil, hubBan, known, reordered>>
        /\ asked' = [asked EXCEPT ![t] = 0] /\ step[t] = "send"
    BY <1>7 DEF Send, haltVars, At
  <2>2. /\ banEnd <= banEnd' /\ \A u \in Callers : answer'[u] <= banEnd'
        /\ \A u \in Callers : u # t => answer'[u] = answer[u] /\ step'[u] = step[u]
        /\ step'[t] \in {"idle", "refused"}
    BY <1>7, <1>a DEF Send, Refused, To
  <2> QED BY <2>1, <2>2, <1>a, BansStay
<1>8. CASE NoteSafety(t)
  BY <1>8, <1>a, BansStay DEF NoteSafety, To, At, histVars
<1>9. CASE NoteStop(t)
  BY <1>9, <1>a, BansStay DEF NoteStop, To, At, histVars
<1>10. CASE NoteBan(t)
  <2>1. /\ UNCHANGED <<now, banEnd, hubUntil, answer, known, asked>>
        /\ hubBan' = IF answer[t] # 0 THEN answer[t] ELSE hubBan
        /\ \A u \in Callers : u # t => step'[u] = step[u]
    BY <1>10, <1>a DEF NoteBan, To
  <2>2. ASSUME ~reordered' PROVE HubKeeps'
    <3>1. ~reordered /\ (answer[t] = 0 \/ answer[t] = banEnd)
      <4>1. ~reordered /\ answer[t] \notin 1 .. banEnd - 1
        BY <1>10, <2>2, Zenon DEF NoteBan
      <4> QED BY <4>1, <1>a
    <3>2. HubKeeps
      BY <3>1 DEF GuardInv, KnownBans
    <3>3. CASE answer[t] = 0
      BY <2>1, <3>2, <3>3, <1>a DEF HubKeeps
    <3>4. CASE answer[t] # 0
      BY <2>1, <3>1, <3>2, <3>4, <1>a DEF HubKeeps
    <3> QED BY <3>3, <3>4
  <2> QED BY <2>1, <2>2, <1>a DEF KnownBans
<1>11. CASE NoteTimer(t)
  <2>1. /\ UNCHANGED <<now, banEnd, hubBan, asked, reordered>> /\ step[t] = "timer"
        /\ known' = Later(known, answer[t]) /\ answer' = [answer EXCEPT ![t] = 0]
        /\ step' = [step EXCEPT ![t] = "idle"]
        /\ hubUntil' >= hubUntil /\ hubUntil' >= answer[t]
    BY <1>11, <1>a DEF NoteTimer, NewTimer, HaltEnd, Later, To, At
  <2>2. ASSUME ~reordered' PROVE HubKeeps'
    <3>1. HubKeeps /\ (hubBan = 0 \/ hubBan >= answer[t])
      BY <2>1, <2>2 DEF GuardInv, KnownBans, HubKeeps
    <3>2. hubUntil' \in Int /\ answer[t] \in Int
      BY <1>a DEF RestTypeOK
    <3>3. known' > now' => hubUntil' >= known' /\ (hubBan' = 0 \/ hubBan' >= known')
      BY <2>1, <3>1, <3>2, <1>a DEF HubKeeps, Later
    <3> QED BY <2>1, <3>1, <3>3, <1>a DEF HubKeeps
  <2> QED BY <2>1, <2>2, <1>a DEF KnownBans, Later
<1> QED BY <1>1, <1>2, <1>3, <1>4, <1>5, <1>6, <1>7, <1>8, <1>9, <1>10, <1>11 DEF CallStep

LEMMA GuardStep == GuardInv /\ [RestNext]_restVars => GuardInv'
<1> SUFFICES ASSUME GuardInv, [RestNext]_restVars PROVE GuardInv'
  OBVIOUS
<1>0. RestTypeOK'
  BY GuardTypesStep DEF GuardInv
<1>1. ASSUME NEW t \in Callers, CallStep(t) PROVE KnownBans'
  BY <1>0, <1>1, GuardCallStep
<1>2. /\ answer \in [Callers -> 0 .. MaxNow] /\ asked \in [Callers -> 0 .. MaxNow]
      /\ now \in Int /\ banEnd \in Int /\ \A u \in Callers : answer[u] <= banEnd
      /\ \A u \in Callers : asked[u] <= asked[u]
  BY GuardAssumption DEF GuardInv, RestTypeOK, KnownBans
<1>3. ASSUME now <= now', UNCHANGED <<banEnd, hubUntil, hubBan, known, reordered, answer, step, asked>>
      PROVE  KnownBans'
  BY <1>0, <1>2, <1>3, BansStay
<1>4. CASE Tick
  <2>1. now <= now'
    BY <1>2, <1>4 DEF Tick
  <2>2. UNCHANGED <<banEnd, hubUntil, hubBan, known, reordered, answer, step, asked>>
    BY <1>4 DEF Tick, haltVars, histVars
  <2> QED BY <1>0, <1>3, <2>1, <2>2 DEF GuardInv
<1>5. CASE UNCHANGED restVars
  <2>1. UNCHANGED <<now, banEnd, hubUntil, hubBan, known, reordered, answer, step, asked>>
    BY <1>5 DEF restVars, haltVars, histVars
  <2>2. now <= now'
    BY <1>2, <2>1
  <2> QED BY <1>0, <1>3, <2>1, <2>2 DEF GuardInv
<1> QED BY <1>0, <1>1, <1>4, <1>5 DEF RestNext, GuardInv

LEMMA GuardShows == GuardInv => BackgroundSilent
<1>1. Background \cup Bootstrap \subseteq Callers \ Execution
  BY GuardAssumption DEF Callers
<1> QED BY <1>1 DEF GuardInv, KnownBans, HubKeeps, BackgroundSilent, SilentInBan

-----------------------------------------------------------------------------
(* The sockets.  A subscribed stream without a socket is on somebody's way:   *)
(* the streams are down or being taken down, or a thread that rebuilds the     *)
(* pool, or the worker of a socket, still has to open it.                    *)
Labels == {"idle", "stop", "start", "sockets", "resubscribe", "open", "failed",
           "add", "closed", "close_pool", "clear_pool"}
Sockets == [stream: Streams, conn: Nat, worker: {"idle", "asked", "closed"}]
HubTypes ==
    /\ manager \in Nat /\ created \in Nat /\ manager <= created
    /\ wsRunning \in BOOLEAN /\ reconnecting \in BOOLEAN /\ hubStopped \in BOOLEAN
    /\ subscribed \subseteq Streams /\ missed \subseteq Streams
    /\ broken \in 0 .. MaxBroken
    /\ doing \in [HubThreads -> Labels] /\ todo \in [HubThreads -> SUBSET Streams]
PoolTypes == pool \in Seq(Sockets) /\ \A i \in DOMAIN pool : pool[i].conn <= created
Phases ==
    /\ wsRunning => manager # 0
    /\ reconnecting <=> ~Is(Reconnector, "idle")
    /\ doing[Reconnector] \in {"start", "sockets", "failed"} => ~wsRunning
    /\ doing[Reconnector] = "sockets" => manager # 0

Rebuilding == {"stop", "start", "sockets", "resubscribe"}
Clearing   == {"close_pool", "clear_pool"}
Stands(i, s) == pool[i].stream = s /\ (pool[i].worker = "closed" \/ pool[i].conn = manager)
Pending(s) ==
    \/ ~wsRunning \/ doing[Reconnector] \in Rebuilding
    \/ \E t \in HubThreads : Is(t, "open") /\ s \in todo[t]
    \/ \E t \in Scanners : doing[t] \in Clearing
    \/ \E i \in DOMAIN pool : Stands(i, s)
AllPending == \A s \in subscribed \ missed : Pending(s)
StreamsInv == HubTypes /\ PoolTypes /\ Phases /\ AllPending

LEMMA StreamsInitHolds == StreamsInit => StreamsInv
<1> SUFFICES ASSUME StreamsInit PROVE StreamsInv
  OBVIOUS
<1> USE StreamsAssumption
<1>1. reconnecting = FALSE /\ hubStopped = FALSE /\ wsRunning \in BOOLEAN
  BY DEF StreamsInit
<1>2. reconnecting \in BOOLEAN /\ hubStopped \in BOOLEAN
  BY <1>1, Zenon
<1>3. HubTypes
  BY <1>1, <1>2 DEF StreamsInit, HubTypes, Labels
<1>4. PoolTypes
  BY DEF StreamsInit, PoolTypes
<1>5. Phases
  BY DEF StreamsInit, Phases, Is, HubThreads
<1>6. AllPending
  BY DEF StreamsInit, AllPending
<1> QED BY <1>3, <1>4, <1>5, <1>6 DEF StreamsInv

(* The worker is not one of the scan's threads.                              *)
LEMMA HubThreadsAre ==
    /\ Reconnector \in HubThreads
    /\ \A t \in Scanners : t \in HubThreads /\ t # Reconnector
BY StreamsAssumption DEF HubThreads

(* A stream stays on its way when the threads and sockets it waits for do.    *)
LEMMA PendingStays ==
    ASSUME NEW s, Pending(s), wsRunning' => wsRunning,
           doing[Reconnector] \in Rebuilding => doing'[Reconnector] \in Rebuilding,
           \A t \in HubThreads : doing[t] = "open" /\ s \in todo[t]
                                 => doing'[t] = "open" /\ s \in todo'[t],
           \A t \in Scanners : doing[t] \in Clearing => doing'[t] \in Clearing,
           \A i \in DOMAIN pool : Stands(i, s) => i \in DOMAIN pool' /\ Stands(i, s)'
    PROVE  Pending(s)'
<1>1. CASE ~wsRunning
  BY <1>1 DEF Pending
<1>2. CASE doing[Reconnector] \in Rebuilding
  BY <1>2 DEF Pending
<1>3. CASE \E t \in HubThreads : Is(t, "open") /\ s \in todo[t]
  <2>1. PICK t \in HubThreads : doing[t] = "open" /\ s \in todo[t]
    BY <1>3 DEF Is
  <2>2. doing'[t] = "open" /\ s \in todo'[t]
    BY <2>1
  <2>3. Is(t, "open")'
    BY <2>2 DEF Is
  <2> QED BY <2>2, <2>3 DEF Pending
<1>4. CASE \E t \in Scanners : doing[t] \in Clearing
  BY <1>4 DEF Pending
<1>5. CASE \E i \in DOMAIN pool : Stands(i, s)
  <2>1. PICK i \in DOMAIN pool : Stands(i, s)
    BY <1>5
  <2>2. i \in DOMAIN pool' /\ Stands(i, s)'
    BY <2>1
  <2> QED BY <2>2 DEF Pending
<1> QED BY <1>1, <1>2, <1>3, <1>4, <1>5 DEF Pending

LEMMA SocketIs ==
    ASSUME PoolTypes, NEW i \in DOMAIN pool
    PROVE  /\ pool[i] \in Sockets /\ pool[i].conn <= created
           /\ pool[i].stream \in Streams /\ pool[i].conn \in Nat
           /\ pool[i].worker \in {"idle", "asked", "closed"}
<1>1. pool[i] \in Sockets
  <2>1. pool \in Seq(Sockets)
    BY DEF PoolTypes
  <2> HIDE DEF Sockets
  <2> QED BY <2>1
<1> QED BY <1>1 DEF PoolTypes, Sockets

(* What the threads of the scan and the sockets do leaves the manager alone.   *)
LEMMA HubIsLeft ==
    ASSUME HubTypes, Phases, UNCHANGED hubVars, UNCHANGED hubStopped,
           doing' \in [HubThreads -> Labels], doing'[Reconnector] = doing[Reconnector],
           todo' \in [HubThreads -> SUBSET Streams],
           subscribed' \subseteq Streams, missed' \subseteq Streams, broken' \in 0 .. MaxBroken
    PROVE  HubTypes' /\ Phases'
<1>1. UNCHANGED <<manager, created, wsRunning, reconnecting, hubStopped>>
  BY DEF hubVars
<1>2. wsRunning' \in BOOLEAN /\ reconnecting' \in BOOLEAN /\ hubStopped' \in BOOLEAN
  BY <1>1, Zenon DEF HubTypes
<1>3. HubTypes'
  BY <1>1, <1>2 DEF HubTypes
<1>4. Phases'
  BY <1>1, Zenon DEF Phases, Is
<1> QED BY <1>3, <1>4

LEMMA HubScanStep ==
    ASSUME HubTypes, PoolTypes, Phases, NEW t \in Scanners, ScanStep(t) PROVE HubTypes' /\ Phases'
<1>1. t \in HubThreads /\ t # Reconnector
  BY HubThreadsAre
<1>2. /\ doing \in [HubThreads -> Labels] /\ todo \in [HubThreads -> SUBSET Streams]
      /\ subscribed \subseteq Streams /\ missed \subseteq Streams /\ broken \in 0 .. MaxBroken
  BY DEF HubTypes
<1>3. UNCHANGED hubVars /\ UNCHANGED hubStopped
  BY DEF ScanStep, BeginSubscribe, AddStreams, OpenSocket, EndScan, Demote, ClosePool, ClearPool
<1>4. doing' \in [HubThreads -> Labels] /\ doing'[Reconnector] = doing[Reconnector]
  <2>1. \/ UNCHANGED doing
        \/ \E l \in Labels : doing' = [doing EXCEPT ![t] = l]
    <3>1. CASE BeginSubscribe(t) \/ EndScan(t)
      BY <3>1 DEF BeginSubscribe, EndScan, Go, Labels
    <3>2. CASE AddStreams(t) \/ ClearPool(t)
      BY <3>2 DEF AddStreams, ClearPool, Go, Labels
    <3>3. CASE Demote(t) \/ ClosePool(t) \/ OpenSocket(t)
      BY <3>3 DEF Demote, ClosePool, OpenSocket, Go, Labels
    <3> QED BY <3>1, <3>2, <3>3 DEF ScanStep
  <2>2. CASE UNCHANGED doing
    BY <2>2, <1>2
  <2>3. ASSUME NEW l \in Labels, doing' = [doing EXCEPT ![t] = l]
        PROVE  doing' \in [HubThreads -> Labels] /\ doing'[Reconnector] = doing[Reconnector]
    BY <2>3, <1>1, <1>2, HubThreadsAre
  <2> QED BY <2>1, <2>2, <2>3
<1>5. /\ todo' \in [HubThreads -> SUBSET Streams]
      /\ subscribed' \subseteq Streams /\ missed' \subseteq Streams
  <2>1. CASE OpenSocket(t)
    BY <2>1, <1>1, <1>2, <1>3 DEF OpenSocket, Do
  <2>2. CASE BeginSubscribe(t) \/ AddStreams(t) \/ EndScan(t)
    BY <2>2, <1>1, <1>2 DEF BeginSubscribe, AddStreams, EndScan, Do, poolVars
  <2>3. CASE Demote(t) \/ ClosePool(t) \/ ClearPool(t)
    BY <2>3, <1>1, <1>2 DEF Demote, ClosePool, ClearPool, Do, poolVars
  <2> QED BY <2>1, <2>2, <2>3 DEF ScanStep
<1>6. broken' \in 0 .. MaxBroken
  <2>1. CASE OpenSocket(t)
    BY <2>1, <1>2, StreamsAssumption DEF OpenSocket
  <2>2. CASE BeginSubscribe(t) \/ AddStreams(t) \/ EndScan(t)
    BY <2>2, <1>2 DEF BeginSubscribe, AddStreams, EndScan
  <2>3. CASE Demote(t) \/ ClosePool(t) \/ ClearPool(t)
    BY <2>3, <1>2 DEF Demote, ClosePool, ClearPool
  <2> QED BY <2>1, <2>2, <2>3 DEF ScanStep
<1> QED BY <1>2, <1>3, <1>4, <1>5, <1>6, HubIsLeft

LEMMA HubSocketStep ==
    ASSUME HubTypes, PoolTypes, Phases, SocketStep PROVE HubTypes' /\ Phases'
<1>1. PICK i \in DOMAIN pool : SocketDies(i) \/ CloseSocket(i) \/ StartSocket(i)
  BY DEF SocketStep
<1>2. UNCHANGED hubVars /\ UNCHANGED <<hubStopped, subscribed, doing, todo>>
  BY <1>1 DEF SocketDies, CloseSocket, StartSocket
<1>3. pool[i].stream \in Streams
  BY SocketIs
<1>4. missed' \subseteq Streams /\ broken' \in 0 .. MaxBroken
  BY <1>1, <1>3, StreamsAssumption DEF SocketDies, CloseSocket, StartSocket, HubTypes
<1> QED BY <1>2, <1>4, HubIsLeft DEF HubTypes

LEMMA HubWorkerStep ==
    ASSUME HubTypes, PoolTypes, Phases, RequestReconnect \/ ReconnectStep \/ StopHub
    PROVE  HubTypes' /\ Phases'
<1>1. /\ doing \in [HubThreads -> Labels] /\ todo \in [HubThreads -> SUBSET Streams]
      /\ subscribed \subseteq Streams /\ missed \subseteq Streams /\ broken \in 0 .. MaxBroken
      /\ manager \in Nat /\ created \in Nat /\ manager <= created
  BY DEF HubTypes
<1>2. Reconnector \in HubThreads
  BY HubThreadsAre
<1>3. CASE RequestReconnect
  <2>1. wsRunning' \in BOOLEAN /\ reconnecting' = TRUE /\ hubStopped' \in BOOLEAN /\ (wsRunning' <=> wsRunning)
    BY <1>3, Zenon DEF RequestReconnect, HubTypes
  <2>2. reconnecting' \in BOOLEAN
    BY <2>1, Zenon
  <2>3. doing' = [doing EXCEPT ![Reconnector] = "stop"] /\ UNCHANGED <<manager, created, poolVars, todo, broken>>
    BY <1>3 DEF RequestReconnect, Go
  <2>4. HubTypes'
    BY <1>1, <1>2, <2>1, <2>2, <2>3 DEF HubTypes, poolVars, Labels
  <2>5. doing'[Reconnector] = "stop"
    BY <1>1, <1>2, <2>3
  <2> QED BY <2>1, <2>3, <2>4, <2>5 DEF Phases, Is
<1>4. CASE StopStreams
  <2>1. wsRunning' = FALSE /\ wsRunning' \in BOOLEAN /\ UNCHANGED reconnecting /\ UNCHANGED hubStopped
    BY <1>4, Zenon DEF StopStreams, StopWs
  <2>2. reconnecting' \in BOOLEAN /\ hubStopped' \in BOOLEAN /\ (reconnecting' <=> reconnecting)
    BY <2>1, Zenon DEF HubTypes
  <2>3. /\ doing' = [doing EXCEPT ![Reconnector] = "start"] /\ doing[Reconnector] = "stop"
        /\ manager' = 0 /\ UNCHANGED <<created, subscribed, missed, todo, broken>>
    BY <1>4 DEF StopStreams, StopWs, Go, Is
  <2>4. HubTypes'
    BY <1>1, <1>2, <2>1, <2>2, <2>3 DEF HubTypes, Labels
  <2>5. doing'[Reconnector] = "start"
    BY <1>1, <1>2, <2>3
  <2> QED BY <2>1, <2>2, <2>3, <2>4, <2>5 DEF Phases, Is
<1>5. CASE StartManager
  <2>1. UNCHANGED wsRunning /\ UNCHANGED reconnecting /\ UNCHANGED hubStopped
    BY <1>5 DEF StartManager
  <2>2. /\ wsRunning' \in BOOLEAN /\ reconnecting' \in BOOLEAN /\ hubStopped' \in BOOLEAN
        /\ (reconnecting' <=> reconnecting) /\ (wsRunning' <=> wsRunning)
    BY <2>1, Zenon DEF HubTypes
  <2>3. /\ doing' = [doing EXCEPT ![Reconnector] = "sockets"] /\ doing[Reconnector] = "start"
        /\ manager' = created + 1 /\ created' = created + 1
        /\ UNCHANGED <<subscribed, missed, todo, broken>>
    BY <1>5 DEF StartManager, Go, Is, poolVars
  <2>4. HubTypes'
    BY <1>1, <1>2, <2>2, <2>3 DEF HubTypes, Labels
  <2>5. doing'[Reconnector] = "sockets"
    BY <1>1, <1>2, <2>3
  <2>6. manager' # 0
    BY <1>1, <2>3
  <2> QED BY <2>2, <2>3, <2>4, <2>5, <2>6 DEF Phases, Is
<1>6. CASE StartSockets
  <2>1. /\ UNCHANGED reconnecting /\ UNCHANGED hubStopped
        /\ wsRunning' = TRUE \/ wsRunning' = wsRunning
    BY <1>6 DEF StartSockets
  <2>2. /\ wsRunning' \in BOOLEAN /\ reconnecting' \in BOOLEAN /\ hubStopped' \in BOOLEAN
        /\ (reconnecting' <=> reconnecting)
    BY <2>1, Zenon DEF HubTypes
  <2>3. /\ \/ doing' = [doing EXCEPT ![Reconnector] = "resubscribe"]
           \/ doing' = [doing EXCEPT ![Reconnector] = "failed"] /\ wsRunning' = wsRunning
        /\ doing[Reconnector] = "sockets" /\ UNCHANGED <<manager, created, subscribed, missed, todo>>
    BY <1>6 DEF StartSockets, Go, Is, poolVars
  <2>4. broken' \in 0 .. MaxBroken
    BY <1>6, <1>1, StreamsAssumption DEF StartSockets
  <2>5. HubTypes'
    BY <1>1, <1>2, <2>2, <2>3, <2>4 DEF HubTypes, Labels
  <2>6. /\ doing'[Reconnector] \in {"resubscribe", "failed"}
        /\ doing'[Reconnector] = "failed" => wsRunning' = wsRunning
    BY <1>1, <1>2, <2>3
  <2>7. manager' # 0 /\ ~wsRunning /\ reconnecting
    BY <2>3 DEF Phases, Is
  <2>8. doing'[Reconnector] = "failed" => ~wsRunning'
    BY <2>6, <2>7, Zenon
  <2> QED BY <2>2, <2>5, <2>6, <2>7, <2>8 DEF Phases, Is
<1>7. CASE Resubscribe
  <2>1. UNCHANGED hubVars /\ UNCHANGED <<hubStopped, subscribed, missed, broken>>
    BY <1>7 DEF Resubscribe
  <2>2. /\ doing' = [doing EXCEPT ![Reconnector] = "open"] /\ doing[Reconnector] = "resubscribe"
        /\ todo' = [todo EXCEPT ![Reconnector] = subscribed]
    BY <1>7 DEF Resubscribe, Go, Do, Is, Reopened
  <2>3. UNCHANGED <<manager, created, wsRunning, reconnecting, hubStopped>>
    BY <2>1 DEF hubVars
  <2>4. /\ wsRunning' \in BOOLEAN /\ reconnecting' \in BOOLEAN /\ hubStopped' \in BOOLEAN
        /\ (wsRunning' <=> wsRunning) /\ (reconnecting' <=> reconnecting)
    BY <2>3, Zenon DEF HubTypes
  <2>5. doing'[Reconnector] = "open" /\ HubTypes'
    BY <1>1, <1>2, <2>1, <2>2, <2>3, <2>4 DEF HubTypes, Labels
  <2> QED BY <2>2, <2>3, <2>4, <2>5 DEF Phases, Is
<1>8. CASE OpenSocket(Reconnector)
  <2>1. UNCHANGED hubVars /\ UNCHANGED <<hubStopped, subscribed, doing>>
    BY <1>8 DEF OpenSocket
  <2>2. /\ todo' \in [HubThreads -> SUBSET Streams] /\ missed' \subseteq Streams
        /\ broken' \in 0 .. MaxBroken
    BY <1>8, <1>1, <1>2, StreamsAssumption DEF OpenSocket, Do
  <2> QED BY <2>1, <2>2, <1>1, HubIsLeft
<1>9. CASE EndReconnect
  <2>1. reconnecting' = FALSE /\ UNCHANGED wsRunning /\ UNCHANGED hubStopped
    BY <1>9 DEF EndReconnect, ReleasedAfter
  <2>2. /\ wsRunning' \in BOOLEAN /\ reconnecting' \in BOOLEAN /\ hubStopped' \in BOOLEAN
        /\ (wsRunning' <=> wsRunning)
    BY <2>1, Zenon DEF HubTypes
  <2>3. /\ doing' = [doing EXCEPT ![Reconnector] = "idle"]
        /\ UNCHANGED <<manager, created, subscribed, missed, todo, broken>>
    BY <1>9 DEF EndReconnect, Go, poolVars
  <2>4. doing'[Reconnector] = "idle" /\ HubTypes'
    BY <1>1, <1>2, <2>2, <2>3 DEF HubTypes, Labels
  <2> QED BY <2>1, <2>2, <2>3, <2>4 DEF Phases, Is
<1>10. CASE StopHub
  <2>1. hubStopped' = TRUE /\ wsRunning' = FALSE /\ UNCHANGED reconnecting
    BY <1>10 DEF StopHub, StopWs
  <2>2. /\ wsRunning' \in BOOLEAN /\ reconnecting' \in BOOLEAN /\ hubStopped' \in BOOLEAN
        /\ (reconnecting' <=> reconnecting)
    BY <2>1, Zenon DEF HubTypes
  <2>3. /\ doing[Reconnector] # "sockets" /\ manager' = 0 /\ subscribed' \subseteq Streams
        /\ UNCHANGED <<created, missed, doing, todo, broken>>
    BY <1>10, <1>1 DEF StopHub, StopWs
  <2>4. HubTypes'
    BY <1>1, <2>2, <2>3 DEF HubTypes
  <2> QED BY <2>1, <2>2, <2>3, <2>4 DEF Phases, Is
<1> QED BY <1>3, <1>4, <1>5, <1>6, <1>7, <1>8, <1>9, <1>10 DEF ReconnectStep

(* The pool keeps its length, or is emptied, or gets one socket more.          *)
LEMMA PoolFrom ==
    ASSUME PoolTypes, NEW p \in [DOMAIN pool -> Sockets] PROVE p \in Seq(Sockets)
<1>1. pool \in Seq(Sockets)
  BY DEF PoolTypes
<1>2. DOMAIN pool = 1 .. Len(pool) /\ Len(pool) \in Nat
  BY <1>1
<1>3. p \in [1 .. Len(pool) -> Sockets]
  BY <1>2
<1> QED BY <1>2, <1>3, SeqDef

LEMMA PoolKeeps ==
    ASSUME PoolTypes, created <= created', created \in Nat, created' \in Nat,
           \/ pool' = <<>> \/ UNCHANGED pool
           \/ /\ pool' \in [DOMAIN pool -> Sockets]
              /\ \A i \in DOMAIN pool : pool'[i].conn <= created'
    PROVE  PoolTypes'
<1>1. CASE pool' = <<>>
  BY <1>1 DEF PoolTypes
<1>2. CASE UNCHANGED pool
  <2>1. \A i \in DOMAIN pool : pool[i].conn \in Nat /\ pool[i].conn <= created
    BY SocketIs
  <2> QED BY <1>2, <2>1 DEF PoolTypes
<1>3. CASE /\ pool' \in [DOMAIN pool -> Sockets]
           /\ \A i \in DOMAIN pool : pool'[i].conn <= created'
  BY <1>3, PoolFrom DEF PoolTypes
<1> QED BY <1>1, <1>2, <1>3

(* A new socket of the manager that runs.                                    *)
LEMMA SocketType ==
    ASSUME HubTypes, NEW s \in Streams
    PROVE  /\ Socket(s) \in Sockets /\ Socket(s).conn = manager /\ Socket(s).stream = s
           /\ Socket(s).worker = "idle" /\ manager <= created
BY DEF HubTypes, Socket, Sockets

(* What a death, a close and a start change of the sockets.                   *)
LEMMA DeathIs ==
    ASSUME PoolTypes, NEW i \in DOMAIN pool, SocketDies(i)
    PROVE  \A k \in DOMAIN pool :
             /\ k \in DOMAIN pool' /\ pool'[k] \in Sockets /\ pool'[k].stream = pool[k].stream
             /\ pool'[k].conn = IF k = i THEN 0 ELSE pool[k].conn
             /\ pool[k].worker = "closed" => pool'[k].worker = "closed"
<1>1. PICK j \in DOMAIN pool :
         pool' = [pool EXCEPT ![i].conn = 0,
                              ![j].worker = IF @ = "idle" THEN "asked" ELSE @]
  BY DEF SocketDies
<1>2. SUFFICES ASSUME NEW k \in DOMAIN pool
      PROVE  /\ k \in DOMAIN pool' /\ pool'[k] \in Sockets /\ pool'[k].stream = pool[k].stream
             /\ pool'[k].conn = IF k = i THEN 0 ELSE pool[k].conn
             /\ pool[k].worker = "closed" => pool'[k].worker = "closed"
  OBVIOUS
<1> DEFINE one == [pool EXCEPT ![i] = [pool[i] EXCEPT !.conn = 0]]
<1>3. /\ DOMAIN one = DOMAIN pool
      /\ one[k] = IF k = i THEN [pool[i] EXCEPT !.conn = 0] ELSE pool[k]
  OBVIOUS
<1>4. /\ one[k] \in Sockets /\ one[k].stream = pool[k].stream /\ one[k].worker = pool[k].worker
      /\ one[k].conn = IF k = i THEN 0 ELSE pool[k].conn
  BY <1>3, SocketIs DEF Sockets
<1>5. pool' = [one EXCEPT ![j] = [one[j] EXCEPT !.worker =
                                     IF one[j].worker = "idle" THEN "asked" ELSE one[j].worker]]
  BY <1>1
<1> HIDE DEF one
<1>6. /\ k \in DOMAIN pool'
      /\ k # j => pool'[k] = one[k]
      /\ k = j => pool'[k] = [one[k] EXCEPT !.worker =
                                 IF one[k].worker = "idle" THEN "asked" ELSE one[k].worker]
  BY <1>3, <1>5
<1>7. CASE k # j
  BY <1>4, <1>6, <1>7
<1>8. CASE k = j
  <2>1. /\ pool'[k] \in Sockets /\ pool'[k].stream = one[k].stream /\ pool'[k].conn = one[k].conn
        /\ pool'[k].worker = IF one[k].worker = "idle" THEN "asked" ELSE one[k].worker
    BY <1>4, <1>6, <1>8 DEF Sockets
  <2> QED BY <1>4, <1>6, <2>1
<1> QED BY <1>7, <1>8

LEMMA WorkerIs ==
    ASSUME PoolTypes, HubTypes, NEW i \in DOMAIN pool, CloseSocket(i) \/ StartSocket(i)
    PROVE  /\ DOMAIN pool' = DOMAIN pool
           /\ \A k \in DOMAIN pool : k # i => pool'[k] = pool[k]
           /\ pool'[i] \in Sockets /\ pool'[i].stream = pool[i].stream
           /\ pool'[i].conn <= created
           /\ CloseSocket(i) => \/ pool'[i].worker = "closed"
                                \/ pool[i].worker = "asked" /\ pool'[i].conn = pool[i].conn
           /\ StartSocket(i) /\ manager # 0 => pool'[i].conn = manager
<1> DEFINE s == pool[i]
<1>1. /\ s \in Sockets /\ s.conn <= created /\ s.stream \in Streams
      /\ created \in Nat
  BY SocketIs DEF HubTypes
<1>2. /\ [[s EXCEPT !.conn = 0] EXCEPT !.worker = "closed"] \in Sockets
      /\ [[s EXCEPT !.conn = 0] EXCEPT !.worker = "closed"].stream = s.stream
      /\ [[s EXCEPT !.conn = 0] EXCEPT !.worker = "closed"].conn = 0
      /\ [[s EXCEPT !.conn = 0] EXCEPT !.worker = "closed"].worker = "closed"
  BY <1>1 DEF Sockets
<1>3. /\ [s EXCEPT !.worker = "idle"] \in Sockets
      /\ [s EXCEPT !.worker = "idle"].stream = s.stream
      /\ [s EXCEPT !.worker = "idle"].conn = s.conn
  BY <1>1 DEF Sockets
<1>4. /\ Socket(s.stream) \in Sockets /\ Socket(s.stream).conn = manager
      /\ Socket(s.stream).stream = s.stream /\ manager <= created
  BY <1>1, SocketType
<1>5. CASE CloseSocket(i)
  <2>1. \/ pool' = [pool EXCEPT ![i] = [[s EXCEPT !.conn = 0] EXCEPT !.worker = "closed"]]
        \/ pool' = [pool EXCEPT ![i] = [s EXCEPT !.worker = "idle"]]
    BY <1>5 DEF CloseSocket, SocketWorker, Closed
  <2>2. DOMAIN pool' = DOMAIN pool /\ \A k \in DOMAIN pool : k # i => pool'[k] = pool[k]
    BY <2>1
  <2>3. \/ pool'[i] = [[s EXCEPT !.conn = 0] EXCEPT !.worker = "closed"]
        \/ pool'[i] = [s EXCEPT !.worker = "idle"]
    BY <2>1
  <2>4. s.worker = "asked"
    BY <1>5 DEF CloseSocket
  <2>5. ~StartSocket(i)
    BY <2>4 DEF StartSocket
  <2> HIDE DEF s
  <2>6. pool'[i] \in Sockets /\ pool'[i].stream = s.stream /\ pool'[i].conn <= created
        /\ (pool'[i].worker = "closed" \/ pool'[i].conn = s.conn)
    <3>1. CASE pool'[i] = [[s EXCEPT !.conn = 0] EXCEPT !.worker = "closed"]
      <4>1. 0 <= created
        BY <1>1
      <4> QED BY <1>2, <3>1, <4>1, Zenon
    <3>2. CASE pool'[i] = [s EXCEPT !.worker = "idle"]
      BY <1>1, <1>3, <3>2
    <3> QED BY <2>3, <3>1, <3>2
  <2> QED BY <2>2, <2>4, <2>5, <2>6 DEF s
<1>6. CASE StartSocket(i)
  <2>1. \/ pool' = [pool EXCEPT ![i] = Socket(s.stream)]
        \/ manager = 0 /\ pool' = [pool EXCEPT ![i] = [s EXCEPT !.worker = "idle"]]
    BY <1>6 DEF StartSocket, SocketWorker
  <2>2. DOMAIN pool' = DOMAIN pool /\ \A k \in DOMAIN pool : k # i => pool'[k] = pool[k]
    BY <2>1
  <2>3. \/ pool'[i] = Socket(s.stream)
        \/ manager = 0 /\ pool'[i] = [s EXCEPT !.worker = "idle"]
    BY <2>1
  <2>4. s.worker = "closed"
    BY <1>6 DEF StartSocket
  <2>5. ~CloseSocket(i)
    BY <2>4 DEF CloseSocket
  <2> HIDE DEF s
  <2>6. pool'[i] \in Sockets /\ pool'[i].stream = s.stream /\ pool'[i].conn <= created
        /\ (manager # 0 => pool'[i].conn = manager)
    BY <1>1, <1>3, <1>4, <2>3
  <2> QED BY <2>2, <2>5, <2>6 DEF s
<1> QED BY <1>5, <1>6

LEMMA PoolSocketStep ==
    ASSUME HubTypes, PoolTypes, SocketStep PROVE PoolTypes'
<1>1. PICK i \in DOMAIN pool : SocketDies(i) \/ CloseSocket(i) \/ StartSocket(i)
  BY DEF SocketStep
<1>2. UNCHANGED created /\ created \in Nat
  BY <1>1 DEF SocketDies, CloseSocket, StartSocket, hubVars, HubTypes
<1>3. ASSUME DOMAIN pool' = DOMAIN pool, pool' = [k \in DOMAIN pool |-> pool'[k]],
             \A k \in DOMAIN pool : pool'[k] \in Sockets /\ pool'[k].conn <= created
      PROVE  PoolTypes'
  <2>1. pool' \in [DOMAIN pool -> Sockets]
    BY <1>3
  <2> QED BY <1>2, <1>3, <2>1, PoolKeeps
<1>4. DOMAIN pool' = DOMAIN pool /\ pool' = [k \in DOMAIN pool |-> pool'[k]]
  BY <1>1 DEF SocketDies, CloseSocket, StartSocket, SocketWorker
<1>5. CASE SocketDies(i)
  BY <1>2, <1>3, <1>4, <1>5, DeathIs, SocketIs
<1>6. CASE CloseSocket(i) \/ StartSocket(i)
  BY <1>3, <1>4, <1>6, WorkerIs, SocketIs
<1> QED BY <1>1, <1>5, <1>6

LEMMA PoolOpens ==
    ASSUME HubTypes, PoolTypes, NEW s \in Streams, UNCHANGED created,
           pool' = Append(pool, Socket(s))
    PROVE  /\ PoolTypes' /\ Len(pool) + 1 \in DOMAIN pool' /\ pool'[Len(pool) + 1] = Socket(s)
           /\ \A i \in DOMAIN pool : i \in DOMAIN pool' /\ pool'[i] = pool[i]
<1>1. pool \in Seq(Sockets) /\ Socket(s) \in Sockets
  BY SocketType DEF PoolTypes
<1> HIDE DEF Sockets
<1>2. /\ pool' \in Seq(Sockets) /\ Len(pool') = Len(pool) + 1 /\ Len(pool) \in Nat
      /\ DOMAIN pool = 1 .. Len(pool) /\ DOMAIN pool' = 1 .. Len(pool) + 1
      /\ pool'[Len(pool) + 1] = Socket(s)
      /\ \A i \in DOMAIN pool : pool'[i] = pool[i]
  BY <1>1
<1>3. \A i \in DOMAIN pool' : i = Len(pool) + 1 \/ i \in DOMAIN pool
  BY <1>2
<1>4. \A i \in DOMAIN pool' : pool'[i].conn <= created
  BY <1>2, <1>3, SocketIs, SocketType
<1> QED BY <1>2, <1>4 DEF PoolTypes

LEMMA PoolStep ==
    ASSUME HubTypes, PoolTypes, HubTypes', [StreamsNext]_streamVars PROVE PoolTypes'
<1>0. created \in Nat /\ created' \in Nat
  BY DEF HubTypes
<1>1. CASE RequestReconnect
  BY <1>0, <1>1, PoolKeeps DEF RequestReconnect, poolVars
<1>2. CASE StopStreams \/ StopHub
  <2>1. (pool' = <<>> \/ UNCHANGED pool) /\ UNCHANGED created
    BY <1>2 DEF StopStreams, StopHub, StopWs
  <2> QED BY <1>0, <2>1, PoolKeeps
<1>3. CASE StartManager
  BY <1>0, <1>3, PoolKeeps DEF StartManager, poolVars
<1>4. CASE StartSockets
  BY <1>0, <1>4, PoolKeeps DEF StartSockets, poolVars
<1>5. CASE Resubscribe
  BY <1>0, <1>5, PoolKeeps DEF Resubscribe, hubVars
<1>6. CASE EndReconnect
  BY <1>0, <1>6, PoolKeeps DEF EndReconnect, poolVars
<1>7. ASSUME NEW t \in HubThreads, OpenSocket(t) PROVE PoolTypes'
  <2>1. UNCHANGED created
    BY <1>7 DEF OpenSocket, hubVars
  <2>2. PICK s \in todo[t] : pool' = Append(pool, Socket(s)) \/ UNCHANGED pool
    BY <1>7 DEF OpenSocket
  <2>3. s \in Streams
    BY <2>2 DEF HubTypes
  <2> QED BY <1>0, <2>1, <2>2, <2>3, PoolOpens, PoolKeeps
<1>8. ASSUME NEW t \in Scanners, ScanStep(t) PROVE PoolTypes'
  <2>1. t \in HubThreads
    BY HubThreadsAre
  <2>2. CASE OpenSocket(t)
    BY <1>7, <2>1, <2>2
  <2>3. CASE BeginSubscribe(t) \/ AddStreams(t) \/ EndScan(t) \/ Demote(t)
    <3>1. UNCHANGED pool /\ UNCHANGED created
      BY <2>3 DEF BeginSubscribe, AddStreams, EndScan, Demote, poolVars, hubVars
    <3> QED BY <1>0, <3>1, PoolKeeps
  <2>4. CASE ClearPool(t)
    BY <1>0, <2>4, PoolKeeps DEF ClearPool, hubVars
  <2>5. CASE ClosePool(t)
    <3>1. pool' = [i \in DOMAIN pool |-> Closed(pool[i])] /\ UNCHANGED created
      BY <2>5 DEF ClosePool, hubVars
    <3>2. \A i \in DOMAIN pool : Closed(pool[i]) \in Sockets /\ Closed(pool[i]).conn = 0
      BY SocketIs DEF Closed, Sockets
    <3> HIDE DEF Sockets
    <3> QED BY <1>0, <3>1, <3>2, PoolKeeps
  <2> QED BY <1>8, <2>2, <2>3, <2>4, <2>5 DEF ScanStep
<1>9. CASE SocketStep
  BY <1>9, PoolSocketStep
<1>10. CASE UNCHANGED streamVars
  BY <1>0, <1>10, PoolKeeps DEF streamVars, poolVars, hubVars
<1>11. Reconnector \in HubThreads
  BY HubThreadsAre
<1> QED BY <1>1, <1>2, <1>3, <1>4, <1>5, <1>6, <1>7, <1>8, <1>9, <1>10, <1>11
        DEF StreamsNext, ReconnectStep

(* One lemma per thread: what it takes off a stream's way it finishes itself.  *)
LEMMA PendingScanStep ==
    ASSUME StreamsInv, NEW t \in Scanners, BeginSubscribe(t) \/ AddStreams(t) \/ EndScan(t)
    PROVE  AllPending'
<1>1. t \in HubThreads /\ t # Reconnector
  BY HubThreadsAre
<1>2. /\ doing \in [HubThreads -> Labels] /\ todo \in [HubThreads -> SUBSET Streams]
  BY DEF StreamsInv, HubTypes
<1>3. UNCHANGED <<manager, wsRunning, pool, missed>>
  BY DEF BeginSubscribe, AddStreams, EndScan, hubVars, poolVars
<1>4. \E l \in {"add", "open", "closed", "idle"} : doing' = [doing EXCEPT ![t] = l]
  BY DEF BeginSubscribe, AddStreams, EndScan, Go
<1>5. /\ \A u \in HubThreads : u # t => doing'[u] = doing[u] /\ todo'[u] = todo[u]
      /\ doing[t] \in {"idle", "add", "closed"} \/ todo[t] = {}
      /\ doing[t] \notin Clearing
  <2>1. \E S : todo' = [todo EXCEPT ![t] = S]
    BY DEF BeginSubscribe, AddStreams, EndScan, Do
  <2>2. /\ doing[t] \in {"idle", "add", "closed"} \/ todo[t] = {}
        /\ doing[t] \in {"idle", "add", "closed", "open"}
    BY DEF BeginSubscribe, AddStreams, EndScan, Is
  <2> QED BY <1>1, <1>2, <1>4, <2>1, <2>2 DEF Clearing
<1>6. ASSUME NEW s, Pending(s) PROVE Pending(s)'
  <2>1. \A i \in DOMAIN pool : Stands(i, s) => i \in DOMAIN pool' /\ Stands(i, s)'
    BY <1>3 DEF Stands
  <2>2. wsRunning' => wsRunning
    BY <1>3, Zenon
  <2>3. \A u \in Scanners : doing[u] \in Clearing => doing'[u] \in Clearing
    BY <1>1, <1>5, HubThreadsAre
  <2>4. doing'[Reconnector] = doing[Reconnector]
    BY <1>1, <1>5, HubThreadsAre
  <2>5. \A u \in HubThreads : doing[u] = "open" /\ s \in todo[u] => doing'[u] = "open" /\ s \in todo'[u]
    BY <1>5
  <2> QED BY <1>6, <2>1, <2>2, <2>3, <2>4, <2>5, PendingStays
<1>7. ASSUME NEW s \in subscribed' \ missed', s \notin subscribed PROVE Pending(s)'
  <2>1. AddStreams(t)
    BY <1>7 DEF BeginSubscribe, AddStreams, EndScan, poolVars
  <2>2. s \in todo[t] \ subscribed /\ todo' = [todo EXCEPT ![t] = todo[t] \ subscribed]
    BY <1>7, <2>1 DEF AddStreams, Do
  <2>3. CASE manager = 0
    <3>1. ~wsRunning'
      BY <1>3, <2>3, Zenon DEF StreamsInv, Phases
    <3> QED BY <3>1 DEF Pending
  <2>4. CASE manager # 0
    <3>1. doing' = [doing EXCEPT ![t] = "open"]
      BY <2>1, <2>4 DEF AddStreams, Go
    <3>2. doing'[t] = "open" /\ s \in todo'[t]
      BY <1>1, <1>2, <2>2, <3>1
    <3> QED BY <1>1, <3>2 DEF Pending, Is
  <2> QED BY <2>3, <2>4
<1>8. \A s \in (subscribed' \ missed') : s \in subscribed => s \in subscribed \ missed
  BY <1>3
<1> QED BY <1>6, <1>7, <1>8 DEF AllPending, StreamsInv

LEMMA PendingPoolStep ==
    ASSUME StreamsInv, NEW t \in Scanners, Demote(t) \/ ClosePool(t) \/ ClearPool(t)
    PROVE  AllPending'
<1>1. t \in HubThreads /\ t # Reconnector
  BY HubThreadsAre
<1>2. /\ doing \in [HubThreads -> Labels] /\ todo \in [HubThreads -> SUBSET Streams]
  BY DEF StreamsInv, HubTypes
<1>3. CASE Demote(t) \/ ClosePool(t)
  <2>1. \E l \in Clearing : doing' = [doing EXCEPT ![t] = l]
    BY <1>3 DEF Demote, ClosePool, Go, Clearing
  <2>2. doing'[t] \in Clearing
    BY <1>1, <1>2, <2>1
  <2> QED BY <2>2 DEF AllPending, Pending
<1>4. CASE ClearPool(t)
  <2>1. UNCHANGED <<manager, wsRunning, subscribed>> /\ todo' = [todo EXCEPT ![t] = subscribed]
    BY <1>4 DEF ClearPool, Do, hubVars
  <2>2. CASE manager = 0
    <3>1. ~wsRunning'
      BY <2>1, <2>2, Zenon DEF StreamsInv, Phases
    <3> QED BY <3>1 DEF AllPending, Pending
  <2>3. CASE manager # 0
    <3>1. doing' = [doing EXCEPT ![t] = "open"]
      BY <1>4, <2>3 DEF ClearPool, Go
    <3>2. doing'[t] = "open" /\ todo'[t] = subscribed'
      BY <1>1, <1>2, <2>1, <3>1
    <3> QED BY <1>1, <3>2 DEF AllPending, Pending, Is
  <2> QED BY <2>2, <2>3
<1> QED BY <1>3, <1>4

LEMMA PendingOpenStep ==
    ASSUME StreamsInv, NEW t \in HubThreads, OpenSocket(t) PROVE AllPending'
<1>1. /\ doing \in [HubThreads -> Labels] /\ todo \in [HubThreads -> SUBSET Streams]
  BY DEF StreamsInv, HubTypes
<1>2. PICK s \in todo[t] :
        /\ todo' = [todo EXCEPT ![t] = todo[t] \ {s}]
        /\ \/ manager # 0 /\ pool' = Append(pool, Socket(s)) /\ missed' = missed \ {s}
           \/ manager = 0 /\ UNCHANGED <<pool, missed>>
           \/ missed' = missed \cup {s} /\ UNCHANGED pool
  BY DEF OpenSocket, Do
<1>3. UNCHANGED <<manager, created, wsRunning, subscribed, doing>> /\ s \in Streams
  BY <1>1, <1>2 DEF OpenSocket, hubVars
<1>4. wsRunning' => wsRunning
  BY <1>3, Zenon
<1>5. CASE manager = 0
  <2>1. ~wsRunning'
    BY <1>4, <1>5 DEF StreamsInv, Phases
  <2> QED BY <2>1 DEF AllPending, Pending
<1>6. CASE manager # 0
  <2>1. \A i \in DOMAIN pool : i \in DOMAIN pool' /\ pool'[i] = pool[i]
    BY <1>2, <1>3, <1>6, PoolOpens DEF StreamsInv
  <2>2. ASSUME NEW r \in subscribed' \ missed', r # s PROVE Pending(r)'
    <3>1. Pending(r)
      BY <1>2, <1>3, <1>6, <2>2 DEF StreamsInv, AllPending
    <3>2. \A u \in HubThreads : doing[u] = "open" /\ r \in todo[u] => doing'[u] = "open" /\ r \in todo'[u]
      BY <1>1, <1>2, <1>3, <2>2
    <3>3. \A i \in DOMAIN pool : Stands(i, r) => i \in DOMAIN pool' /\ Stands(i, r)'
      BY <1>3, <2>1 DEF Stands
    <3> QED BY <1>3, <1>4, <3>1, <3>2, <3>3, PendingStays
  <2>3. ASSUME s \in subscribed' \ missed' PROVE Pending(s)'
    <3>1. pool' = Append(pool, Socket(s)) \/ (UNCHANGED pool /\ s \in missed')
      BY <1>2, <1>6
    <3>2. Len(pool) + 1 \in DOMAIN pool' /\ pool'[Len(pool) + 1] = Socket(s)
      BY <1>3, <2>3, <3>1, PoolOpens DEF StreamsInv
    <3>3. Socket(s).conn = manager /\ Socket(s).stream = s
      BY <1>3, SocketType DEF StreamsInv
    <3>4. PICK i \in DOMAIN pool' : pool'[i] = Socket(s)
      BY <3>2
    <3>5. Stands(i, s)'
      BY <1>3, <3>3, <3>4 DEF Stands
    <3> QED BY <3>4, <3>5 DEF Pending
  <2> QED BY <2>2, <2>3 DEF AllPending
<1> QED BY <1>5, <1>6

LEMMA PendingSocketStep ==
    ASSUME StreamsInv, SocketStep PROVE AllPending'
<1>1. PICK i \in DOMAIN pool : SocketDies(i) \/ CloseSocket(i) \/ StartSocket(i)
  BY DEF SocketStep
<1>2. UNCHANGED <<manager, created, wsRunning, subscribed, doing, todo>>
  BY <1>1 DEF SocketDies, CloseSocket, StartSocket, hubVars
<1>3. wsRunning' => wsRunning
  BY <1>2, Zenon
<1>4. ASSUME NEW s, Pending(s),
             \A k \in DOMAIN pool : Stands(k, s) => k \in DOMAIN pool' /\ Stands(k, s)'
      PROVE  Pending(s)'
  BY <1>2, <1>3, <1>4, PendingStays
<1>5. ASSUME NEW s \in subscribed' \ missed' PROVE Pending(s)'
  <2>1. CASE SocketDies(i)
    <3>1. missed' = missed \cup {pool[i].stream}
      BY <2>1 DEF SocketDies
    <3>2. Pending(s) /\ s # pool[i].stream
      BY <1>2, <1>5, <3>1 DEF StreamsInv, AllPending
    <3>3. \A k \in DOMAIN pool : Stands(k, s) => k \in DOMAIN pool' /\ Stands(k, s)'
      BY <1>2, <2>1, <3>2, DeathIs DEF StreamsInv, Stands
    <3> QED BY <1>4, <3>2, <3>3
  <2>2. CASE CloseSocket(i)
    <3>1. Pending(s)
      BY <1>2, <1>5, <2>2 DEF CloseSocket, StreamsInv, AllPending
    <3>2. \A k \in DOMAIN pool : Stands(k, s) => k \in DOMAIN pool' /\ Stands(k, s)'
      <4>1. /\ DOMAIN pool' = DOMAIN pool /\ \A k \in DOMAIN pool : k # i => pool'[k] = pool[k]
            /\ pool'[i].stream = pool[i].stream
            /\ \/ pool'[i].worker = "closed"
               \/ pool[i].worker = "asked" /\ pool'[i].conn = pool[i].conn
        BY <2>2, WorkerIs DEF StreamsInv
      <4>2. Stands(i, s) => Stands(i, s)'
        BY <1>2, <4>1 DEF Stands
      <4>3. ASSUME NEW k \in DOMAIN pool, k # i PROVE Stands(k, s) => Stands(k, s)'
        BY <1>2, <4>1, <4>3 DEF Stands
      <4> QED BY <4>1, <4>2, <4>3
    <3> QED BY <1>4, <3>1, <3>2
  <2>3. CASE StartSocket(i) /\ manager = 0
    <3>1. ~wsRunning'
      BY <1>3, <2>3 DEF StreamsInv, Phases
    <3> QED BY <3>1 DEF Pending
  <2>4. CASE StartSocket(i) /\ manager # 0
    <3>1. /\ DOMAIN pool' = DOMAIN pool /\ \A k \in DOMAIN pool : k # i => pool'[k] = pool[k]
          /\ pool'[i].stream = pool[i].stream /\ pool'[i].conn = manager
          /\ missed' = missed \ {pool[i].stream}
      BY <2>4, WorkerIs DEF StreamsInv, StartSocket
    <3>2. CASE s = pool[i].stream
      <4>1. Stands(i, s)' /\ i \in DOMAIN pool'
        BY <1>2, <3>1, <3>2 DEF Stands
      <4> QED BY <4>1 DEF Pending
    <3>3. CASE s # pool[i].stream
      <4>1. Pending(s)
        BY <1>2, <1>5, <3>1, <3>3 DEF StreamsInv, AllPending
      <4>2. \A k \in DOMAIN pool : Stands(k, s) => k \in DOMAIN pool' /\ Stands(k, s)'
        BY <1>2, <3>1, <3>3 DEF Stands
      <4> QED BY <1>4, <4>1, <4>2
    <3> QED BY <3>2, <3>3
  <2> QED BY <1>1, <2>1, <2>2, <2>3, <2>4
<1> QED BY <1>5 DEF AllPending

LEMMA PendingWorkerStep ==
    ASSUME StreamsInv, HubTypes', Phases', \/ RequestReconnect \/ StopStreams \/ StartManager \/ StartSockets
                               \/ Resubscribe \/ EndReconnect \/ StopHub
    PROVE  AllPending'
<1>1. /\ doing \in [HubThreads -> Labels] /\ todo \in [HubThreads -> SUBSET Streams]
      /\ Reconnector \in HubThreads
  BY HubThreadsAre DEF StreamsInv, HubTypes
<1>2. CASE RequestReconnect
  <2>1. doing'[Reconnector] = "stop"
    BY <1>1, <1>2 DEF RequestReconnect, Go
  <2> QED BY <2>1 DEF AllPending, Pending, Rebuilding
<1>3. CASE StopStreams \/ StopHub
  <2>1. ~wsRunning'
    BY <1>3, Zenon DEF StopStreams, StopHub, StopWs
  <2> QED BY <2>1 DEF AllPending, Pending
<1>4. CASE StartManager
  <2>1. doing'[Reconnector] = "sockets"
    BY <1>1, <1>4 DEF StartManager, Go
  <2> QED BY <2>1 DEF AllPending, Pending, Rebuilding
<1>5. CASE StartSockets
  <2>1. doing'[Reconnector] \in {"resubscribe", "failed"}
    BY <1>1, <1>5 DEF StartSockets, Go
  <2>2. doing'[Reconnector] = "failed" => ~wsRunning'
    BY DEF Phases
  <2> QED BY <2>1, <2>2 DEF AllPending, Pending, Rebuilding
<1>6. CASE Resubscribe
  <2>1. doing'[Reconnector] = "open" /\ todo'[Reconnector] = subscribed /\ UNCHANGED subscribed
    BY <1>1, <1>6 DEF Resubscribe, Go, Do, Reopened
  <2> QED BY <1>1, <2>1 DEF AllPending, Pending, Is
<1>7. CASE EndReconnect
  <2>1. /\ doing' = [doing EXCEPT ![Reconnector] = "idle"]
        /\ doing[Reconnector] = "failed" \/ (doing[Reconnector] = "open" /\ todo[Reconnector] = {})
        /\ UNCHANGED <<manager, wsRunning, pool, subscribed, missed, todo>>
    BY <1>7 DEF EndReconnect, Go, Is, poolVars
  <2>2. wsRunning' => wsRunning
    BY <2>1, Zenon
  <2>3. CASE doing[Reconnector] = "failed"
    <3>1. ~wsRunning'
      BY <2>2, <2>3 DEF StreamsInv, Phases
    <3> QED BY <3>1 DEF AllPending, Pending
  <2>4. CASE doing[Reconnector] = "open" /\ todo[Reconnector] = {}
    <3>1. ASSUME NEW s \in subscribed' \ missed' PROVE Pending(s)'
      <4>1. Pending(s)
        BY <2>1, <3>1 DEF StreamsInv, AllPending
      <4>2. \A t \in HubThreads : doing[t] = "open" /\ s \in todo[t] => doing'[t] = "open" /\ s \in todo'[t]
        BY <1>1, <2>1, <2>4
      <4>3. \A t \in Scanners : doing[t] \in Clearing => doing'[t] \in Clearing
        BY <1>1, <2>1, HubThreadsAre
      <4>4. \A i \in DOMAIN pool : Stands(i, s) => i \in DOMAIN pool' /\ Stands(i, s)'
        BY <2>1 DEF Stands
      <4>5. doing[Reconnector] \notin Rebuilding
        BY <2>4 DEF Rebuilding
      <4> QED BY <2>2, <4>1, <4>2, <4>3, <4>4, <4>5, PendingStays
    <3> QED BY <3>1 DEF AllPending
  <2> QED BY <2>1, <2>3, <2>4
<1> QED BY <1>2, <1>3, <1>4, <1>5, <1>6, <1>7

LEMMA StreamsStep == StreamsInv /\ [StreamsNext]_streamVars => StreamsInv'
<1> SUFFICES ASSUME StreamsInv, [StreamsNext]_streamVars PROVE StreamsInv'
  OBVIOUS
<1>0. HubTypes /\ PoolTypes /\ Phases
  BY DEF StreamsInv
<1>1. ASSUME HubTypes' /\ Phases', AllPending' PROVE StreamsInv'
  <2>1. PoolTypes'
    BY <1>0, <1>1, PoolStep
  <2> QED BY <1>1, <2>1 DEF StreamsInv
<1>2. CASE RequestReconnect \/ ReconnectStep \/ StopHub
  <2>1. HubTypes' /\ Phases'
    BY <1>0, <1>2, HubWorkerStep
  <2>2. CASE OpenSocket(Reconnector)
    BY <1>1, <2>1, <2>2, HubThreadsAre, PendingOpenStep
  <2>3. CASE ~OpenSocket(Reconnector)
    BY <1>1, <1>2, <2>1, <2>3, PendingWorkerStep DEF ReconnectStep
  <2> QED BY <2>2, <2>3
<1>3. ASSUME NEW t \in Scanners, ScanStep(t) PROVE StreamsInv'
  <2>1. HubTypes' /\ Phases'
    BY <1>0, <1>3, HubScanStep
  <2>2. AllPending'
    BY <1>3, HubThreadsAre, PendingScanStep, PendingPoolStep, PendingOpenStep DEF ScanStep
  <2> QED BY <1>1, <2>1, <2>2
<1>4. CASE SocketStep
  BY <1>0, <1>1, <1>4, HubSocketStep, PendingSocketStep
<1>5. CASE UNCHANGED streamVars
  <2>1. UNCHANGED <<manager, created, wsRunning, reconnecting, hubStopped, subscribed, pool, missed,
                    doing, todo, broken>>
    BY <1>5 DEF streamVars, hubVars, poolVars
  <2>2. UNCHANGED hubVars /\ UNCHANGED hubStopped
    BY <1>5 DEF streamVars
  <2>3. HubTypes' /\ Phases'
    BY <1>0, <2>1, <2>2, HubIsLeft DEF HubTypes
  <2>4. ASSUME NEW s \in subscribed' \ missed' PROVE Pending(s)'
    <3>1. Pending(s)
      BY <2>1, <2>4 DEF StreamsInv, AllPending
    <3>2. wsRunning' => wsRunning
      BY <2>1, Zenon
    <3>3. \A i \in DOMAIN pool : Stands(i, s) => i \in DOMAIN pool' /\ Stands(i, s)'
      BY <2>1 DEF Stands
    <3> QED BY <2>1, <3>1, <3>2, <3>3, PendingStays
  <2> QED BY <1>1, <2>3, <2>4 DEF AllPending
<1> QED BY <1>2, <1>3, <1>4, <1>5 DEF StreamsNext

LEMMA StreamsShow == StreamsInv => SubscribedAreServed /\ StreamsTypeOK
<1> SUFFICES ASSUME StreamsInv PROVE SubscribedAreServed /\ StreamsTypeOK
  OBVIOUS
<1>1. ASSUME Settled, NEW s \in subscribed \ missed PROVE Served(s)
  <2>1. Pending(s)
    BY <1>1 DEF StreamsInv, AllPending
  <2>2. /\ wsRunning /\ \A t \in HubThreads : doing[t] = "idle"
        /\ \A i \in DOMAIN pool : pool[i].worker = "idle"
    BY <1>1 DEF Settled, Is
  <2>3. \A t \in Scanners : doing[t] \notin Clearing
    BY <2>2, HubThreadsAre DEF Clearing
  <2>4. doing[Reconnector] \notin Rebuilding
    BY <2>2, HubThreadsAre DEF Rebuilding
  <2>5. PICK i \in DOMAIN pool : Stands(i, s)
    BY <2>1, <2>2, <2>3, <2>4 DEF Pending, Is
  <2> QED BY <2>2, <2>5 DEF Stands, Served
<1>2. SubscribedAreServed
  BY <1>1 DEF SubscribedAreServed
<1>3. \A i \in DOMAIN pool :
         pool[i] \in [stream: Streams, conn: 0 .. created, worker: {"idle", "asked", "closed"}]
  <2>1. ASSUME NEW i \in DOMAIN pool
        PROVE  pool[i] \in [stream: Streams, conn: 0 .. created, worker: {"idle", "asked", "closed"}]
    <3>1. /\ pool[i] \in Sockets /\ pool[i].conn \in 0 .. created
      BY <2>1, SocketIs DEF StreamsInv, HubTypes
    <3> QED BY <3>1 DEF Sockets
  <2> QED BY <2>1
<1>4. manager \in 0 .. created
  BY DEF StreamsInv, HubTypes
<1>5. StreamsTypeOK
  BY <1>3, <1>4 DEF StreamsInv, HubTypes, StreamsTypeOK
<1> QED BY <1>2, <1>5
-----------------------------------------------------------------------------
(* The candles.  A buffer of frames alone is in order, and what a thread took   *)
(* of it to extend is; once a series was seeded, _kline_bars may be out of      *)
(* order, and the history is long enough for good.                           *)
Rising(s)  == \A i, j \in DOMAIN s : i < j => s[i].t < s[j].t
InTurn(s)    == \A i, j \in DOMAIN s : i < j => s[i].t <= s[j].t
Sequel(s, z) == \A i \in DOMAIN s, j \in DOMAIN z : s[i].t <= z[j].t
Enough(s)  == Len(s) >= Need

(* Types, the frames in the order of the exchange, what holds as long as no     *)
(* seed was stored, and what the seeds bring about.                          *)
CandleTypes ==
    /\ bar \in FirstBar .. LastBar /\ listed \in BOOLEAN /\ bootstrapped \in BOOLEAN
    /\ klineBars \in Seq(Bars) /\ history \in Seq(Bars) /\ frames \in Seq(Bars)
    /\ Len(klineBars) <= Depth /\ Len(history) <= Depth
    /\ rows \in [Fetchers -> Seq(Bars)] /\ \A f \in Fetchers : Len(rows[f]) <= Depth
    /\ fetch \in [Fetchers -> {"none", "asked", "seed", "mark"}]
Frames ==
    /\ InTurn(frames) /\ \A j \in DOMAIN frames : frames[j].t <= bar
Unseeded ==
    ~Enough(history) =>
        /\ Rising(klineBars) /\ Sequel(klineBars, frames)
        /\ \A i \in DOMAIN klineBars : klineBars[i].t <= bar
        /\ \A f \in Fetchers : fetch[f] = "asked" => Rising(rows[f])
        /\ \A f \in Fetchers : fetch[f] = "seed" => Enough(rows[f])
Seeds ==
    /\ Rising(history)
    /\ \A f \in Fetchers : fetch[f] = "seed" => Rising(rows[f])
    /\ \A f \in Fetchers : fetch[f] = "mark" => Enough(history)
    /\ bootstrapped => Enough(history) \/ Enough(klineBars)
CandlesInv == Frames /\ Unseeded /\ Seeds

(* Every set of numbers up to k can be put in order: the least k for which     *)
(* that fails is in its set, and what is left without it can be.             *)
Orders(q, T) ==
    /\ q \in [1 .. Cardinality(T) -> T]
    /\ \A i, j \in DOMAIN q : i < j => q[i] < q[j]
Orderable(T) == \E q : Orders(q, T)

(* The least of a set of natural numbers.                                     *)
LEMMA LeastOf ==
    ASSUME NEW S \in SUBSET Nat, S # {} PROVE \E m \in S : \A n \in S : m <= n
<1>1. IsWellFoundedOn(OpToRel(<, Nat), Nat)
  BY NatLessThanWellFounded
<1>2. PICK m \in S : \A n \in S : ~(<<n, m>> \in OpToRel(<, Nat))
  BY <1>1, WFMin
<1>3. ASSUME NEW n \in S PROVE m <= n
  <2>1. ~(n < m)
    BY <1>2 DEF OpToRel
  <2> QED BY <2>1
<1> QED BY <1>3

LEMMA AllOrderable == \A k \in Nat : \A T \in SUBSET (1 .. k) : Orderable(T)
<1> DEFINE Bad == {k \in Nat : \E T \in SUBSET (1 .. k) : ~Orderable(T)}
<1> SUFFICES ASSUME Bad # {} PROVE FALSE
  OBVIOUS
<1>1. PICK k \in Bad : \A n \in Bad : k <= n
  <2>1. Bad \in SUBSET Nat
    OBVIOUS
  <2> HIDE DEF Bad
  <2> QED BY <2>1, LeastOf
<1>2. k \in Nat
  OBVIOUS
<1>3. PICK T \in SUBSET (1 .. k) : ~Orderable(T)
  OBVIOUS
<1>4. CASE k = 0
  <2>1. T = {}
    BY <1>4
  <2>2. Cardinality(T) = 0
    BY <2>1, FS_EmptySet
  <2>3. Orders(<<>>, T)
    BY <2>1, <2>2 DEF Orders
  <2> QED BY <2>3, <1>3 DEF Orderable
<1>5. CASE k # 0
  <2> DEFINE R == T \ {k}
  <2>1. k - 1 \in Nat /\ R \in SUBSET (1 .. k - 1)
    BY <1>2, <1>5
  <2>2. k - 1 \notin Bad
    BY <1>1, <1>2, <2>1
  <2>3. Orderable(R)
    BY <2>1, <2>2
  <2>4. k \in T
    <3>1. ASSUME k \notin T PROVE FALSE
      <4>1. R = T
        BY <3>1
      <4> QED BY <4>1, <2>3, <1>3
    <3> QED BY <3>1
  <2>5. PICK q : Orders(q, R)
    BY <2>3 DEF Orderable
  <2>6. IsFiniteSet(T) /\ IsFiniteSet(R)
    <3>1. IsFiniteSet(1 .. k)
      BY <1>2, FS_Interval
    <3>2. IsFiniteSet(T)
      BY <3>1, FS_Subset
    <3> QED BY <3>2, FS_RemoveElement
  <2>7. Cardinality(R) \in Nat /\ Cardinality(T) = Cardinality(R) + 1
    BY <2>4, <2>6, FS_RemoveElement, FS_CardinalityType
  <2> DEFINE n == Cardinality(R)
             p == [i \in 1 .. n + 1 |-> IF i <= n THEN q[i] ELSE k]
  <2>8. \A i \in 1 .. n : q[i] \in R /\ q[i] < k /\ q[i] \in Int
    <3>1. q \in [1 .. n -> R]
      BY <2>5 DEF Orders
    <3>2. \A r \in R : r < k /\ r \in Int
      BY <2>1, <1>2
    <3> HIDE DEF R, n
    <3> QED BY <3>1, <3>2
  <2>9. p \in [1 .. n + 1 -> T]
    <3>1. ASSUME NEW i \in 1 .. n + 1 PROVE (IF i <= n THEN q[i] ELSE k) \in T
      BY <3>1, <2>4, <2>7, <2>8
    <3> QED BY <3>1
  <2>10. \A i, j \in DOMAIN q : i < j => q[i] < q[j]
    BY <2>5 DEF Orders
  <2>11. DOMAIN q = 1 .. n
    BY <2>5 DEF Orders
  <2>12. ASSUME NEW i \in 1 .. n + 1, NEW j \in 1 .. n + 1, i < j PROVE p[i] < p[j]
    <3>1. i \in 1 .. n /\ p[i] = q[i]
      BY <2>12, <2>7
    <3>2. CASE j <= n
      <4>1. j \in 1 .. n /\ p[j] = q[j]
        BY <3>2, <2>7
      <4>2. q[i] < q[j]
        BY <3>1, <4>1, <2>10, <2>11, <2>12
      <4> QED BY <3>1, <4>1, <4>2
    <3>3. CASE ~(j <= n)
      BY <3>1, <3>3, <2>8
    <3> QED BY <3>2, <3>3
  <2>13. Orders(p, T)
    BY <2>7, <2>9, <2>12 DEF Orders
  <2> QED BY <2>13, <1>3 DEF Orderable
<1> QED BY <1>4, <1>5

(* So the order Merged takes is one, and it misses no number.                *)
LEMMA OrderedIs ==
    ASSUME NEW k \in Nat, NEW T \in SUBSET (1 .. k)
    PROVE  /\ Orders(Ordered(T), T)
           /\ IsFiniteSet(T) /\ Cardinality(T) \in Nat
           /\ \A t \in T : \E i \in 1 .. Cardinality(T) : Ordered(T)[i] = t
<1>1. IsFiniteSet(T) /\ Cardinality(T) \in Nat
  <2>1. IsFiniteSet(1 .. k)
    BY FS_Interval
  <2>2. IsFiniteSet(T)
    BY <2>1, FS_Subset
  <2> QED BY <2>2, FS_CardinalityType
<1>2. Orders(Ordered(T), T)
  <2>1. \E q \in [1 .. Cardinality(T) -> T] : \A i, j \in DOMAIN q : i < j => q[i] < q[j]
    BY AllOrderable DEF Orderable, Orders
  <2> QED BY <2>1 DEF Ordered, Orders
<1> DEFINE D == 1 .. Cardinality(T)
<1>3. IsFiniteSet(D) /\ Cardinality(D) = Cardinality(T)
  BY <1>1, FS_Interval
<1>4. Ordered(T) \in Injection(D, T)
  <2>1. ASSUME NEW i \in D, NEW j \in D, Ordered(T)[i] = Ordered(T)[j] PROVE i = j
    <3>1. Ordered(T)[i] \in Int /\ Ordered(T)[j] \in Int
      <4>1. Ordered(T)[i] \in T /\ Ordered(T)[j] \in T
        BY <1>2 DEF Orders
      <4>2. \A t \in T : t \in Int
        OBVIOUS
      <4> QED BY <4>1, <4>2
    <3>2. DOMAIN Ordered(T) = D
      BY <1>2 DEF Orders
    <3>3. ~(i < j) /\ ~(j < i)
      BY <1>2, <2>1, <3>1, <3>2 DEF Orders
    <3> QED BY <3>3
  <2> QED BY <1>2, <2>1 DEF Orders, Injection, IsInjective
<1>5. Ordered(T) \in Surjection(D, T)
  BY <1>1, <1>3, <1>4, FS_Injection
<1> QED BY <1>1, <1>2, <1>5 DEF Surjection

-----------------------------------------------------------------------------
(* Rows in order: as many as the numbers they have.                           *)
LEMMA BarsCount ==
    /\ \A b \in Bars : b.t \in 1 .. LastBar /\ b.t \in Int
    /\ \A s \in Seq(Bars) : \A i \in DOMAIN s : s[i] \in Bars /\ s[i].t \in Int
<1>1. \A b \in Bars : b.t \in 1 .. LastBar /\ b.t \in Int
  BY CandlesAssumption DEF Bars
<1>2. \A s \in Seq(Bars) : \A i \in DOMAIN s : s[i] \in Bars
  OBVIOUS
<1> QED BY <1>1, <1>2

LEMMA RisingCounts ==
    ASSUME NEW s \in Seq(Bars), Rising(s)
    PROVE  IsFiniteSet(Numbers(s)) /\ Cardinality(Numbers(s)) = Len(s)
<1> DEFINE f == [i \in 1 .. Len(s) |-> s[i].t]
<1>1. DOMAIN s = 1 .. Len(s) /\ Len(s) \in Nat /\ \A i \in 1 .. Len(s) : s[i].t \in Int
  BY BarsCount
<1>2. f \in [1 .. Len(s) -> Numbers(s)]
  BY <1>1 DEF Numbers
<1>3. ASSUME NEW i \in 1 .. Len(s), NEW j \in 1 .. Len(s), f[i] = f[j] PROVE i = j
  <2>1. s[i].t = s[j].t
    BY <1>3
  <2>2. ~(i < j) /\ ~(j < i)
    BY <1>1, <2>1 DEF Rising
  <2> QED BY <2>2
<1>4. f \in Surjection(1 .. Len(s), Numbers(s))
  <2>1. \A t \in Numbers(s) : \E i \in 1 .. Len(s) : f[i] = t
    BY <1>1 DEF Numbers
  <2> QED BY <1>2, <2>1 DEF Surjection
<1>5. f \in Injection(1 .. Len(s), Numbers(s))
  BY <1>2, <1>3 DEF Injection, IsInjective
<1>6. IsFiniteSet(1 .. Len(s)) /\ Cardinality(1 .. Len(s)) = Len(s)
  BY <1>1, FS_Interval
<1> HIDE DEF f
<1> QED BY <1>4, <1>5, <1>6, FS_Surjection

LEMMA RisingBounds ==
    ASSUME NEW s \in Seq(Bars), Rising(s), NEW z \in Seq(Bars), Rising(z),
           Numbers(s) \subseteq Numbers(z)
    PROVE  Len(s) <= Len(z)
BY RisingCounts, FS_Subset

LEMMA NumbersBound ==
    ASSUME NEW s \in Seq(Bars) PROVE Numbers(s) \in SUBSET (1 .. LastBar)
<1>1. \A i \in DOMAIN s : s[i] \in Bars
  OBVIOUS
<1> QED BY <1>1 DEF Numbers, Bars

LEMMA BarOfIs ==
    ASSUME NEW s \in Seq(Bars), NEW t \in Numbers(s)
    PROVE  BarOf(s, t) \in Bars /\ BarOf(s, t).t = t
<1>1. \E i \in DOMAIN s : s[i].t = t
  BY DEF Numbers
<1> QED BY <1>1 DEF BarOf

(* merge_closed_kline_bars: whatever the two are like, the merged bars are in  *)
(* order and have exactly the numbers of both.                               *)
LEMMA MergedIs ==
    ASSUME NEW old \in Seq(Bars), NEW new \in Seq(Bars)
    PROVE  /\ Merged(old, new) \in Seq(Bars) /\ Rising(Merged(old, new))
           /\ Numbers(Merged(old, new)) = Numbers(old) \cup Numbers(new)
<1> DEFINE N == Numbers(old) \cup Numbers(new)
           T == Ordered(N)
           n == Cardinality(N)
           row(t) == IF t \in Numbers(new) THEN BarOf(new, t) ELSE BarOf(old, t)
           m == Merged(old, new)
<1>1. N \in SUBSET (1 .. LastBar) /\ LastBar \in Nat
  BY NumbersBound, CandlesAssumption
<1>2. /\ T \in [1 .. n -> N] /\ n \in Nat
      /\ \A i, j \in 1 .. n : i < j => T[i] < T[j]
      /\ \A t \in N : \E i \in 1 .. n : T[i] = t
  <2> HIDE DEF N
  <2> QED BY <1>1, OrderedIs DEF Orders
<1>3. \A t \in N : row(t) \in Bars /\ row(t).t = t
  BY BarOfIs
<1>4. m = [i \in 1 .. n |-> row(T[i])]
  <2>1. DOMAIN T = 1 .. n
    <3> HIDE DEF T, n
    <3> QED BY <1>2
  <2> QED BY <2>1 DEF Merged
<1> HIDE DEF N, T, n, row, m
<1>5. \A i \in 1 .. n : m[i] \in Bars /\ m[i].t = T[i] /\ T[i] \in N
  BY <1>2, <1>3, <1>4
<1>6. m \in Seq(Bars) /\ DOMAIN m = 1 .. n
  BY <1>2, <1>4, <1>5
<1>7. Rising(m)
  BY <1>2, <1>5, <1>6 DEF Rising
<1>8. Numbers(m) = N
  BY <1>2, <1>5, <1>6 DEF Numbers
<1> QED BY <1>6, <1>7, <1>8 DEF m, N

LEMMA MergedHolds ==
    ASSUME NEW old \in Seq(Bars), NEW new \in Seq(Bars)
    PROVE  /\ Rising(old) => Len(old) <= Len(Merged(old, new))
           /\ Rising(new) => Len(new) <= Len(Merged(old, new))
BY MergedIs, RisingBounds

LEMMA CappedIs ==
    ASSUME NEW s \in Seq(Bars)
    PROVE  /\ Capped(s) \in Seq(Bars) /\ Len(Capped(s)) <= Depth
           /\ Len(s) <= Depth => Len(Capped(s)) = Len(s)
           /\ Len(s) >= Depth => Len(Capped(s)) = Depth
           /\ \A i \in DOMAIN Capped(s) : \E j \in DOMAIN s : Capped(s)[i] = s[j]
           /\ Rising(s) => Rising(Capped(s))
<1> DEFINE o == IF Len(s) > Depth THEN Len(s) - Depth ELSE 0
           c == Capped(s)
<1>1. Len(s) \in Nat /\ Depth \in Nat /\ Depth > 0 /\ o \in Nat /\ o <= Len(s)
  BY CandlesAssumption
<1>2. c = SubSeq(s, o + 1, Len(s))
  BY <1>1 DEF Capped
<1>3. c \in Seq(Bars) /\ Len(c) = Len(s) - o /\ \A j \in 1 .. Len(c) : c[j] = s[j + o]
  <2> HIDE DEF o, c
  <2>1. Len(c) = Len(s) - o
    BY <1>1, <1>2
  <2>2. ASSUME NEW j \in 1 .. Len(c) PROVE c[j] = s[j + o]
    BY <1>1, <1>2, <2>1
  <2> QED BY <1>1, <1>2, <2>1, <2>2
<1>4. \A j \in 1 .. Len(c) : j + o \in 1 .. Len(s)
  BY <1>1, <1>3
<1>5. DOMAIN c = 1 .. Len(c) /\ DOMAIN s = 1 .. Len(s)
  BY <1>3
<1>6. Rising(s) => Rising(c)
  <2> HIDE DEF o, c
  <2>1. ASSUME Rising(s), NEW i \in 1 .. Len(c), NEW j \in 1 .. Len(c), i < j PROVE c[i].t < c[j].t
    <3>1. i + o < j + o /\ i + o \in 1 .. Len(s) /\ j + o \in 1 .. Len(s)
      BY <1>1, <1>4, <2>1
    <3> QED BY <1>3, <1>5, <2>1, <3>1 DEF Rising
  <2> QED BY <2>1, <1>5 DEF Rising
<1>7. Len(c) <= Depth /\ (Len(s) <= Depth => Len(c) = Len(s)) /\ (Len(s) >= Depth => Len(c) = Depth)
  BY <1>1, <1>3
<1> HIDE DEF o, c
<1> QED BY <1>1, <1>3, <1>4, <1>5, <1>6, <1>7 DEF c
-----------------------------------------------------------------------------
(* A page has one row for each of its numbers.                               *)
LEMMA PageIs ==
    ASSUME NEW a \in 1 .. LastBar + 1, NEW b \in 0 .. LastBar
    PROVE  /\ Page(a, b) \in Seq(Bars) /\ Rising(Page(a, b))
           /\ Len(Page(a, b)) = IF b >= a THEN b - a + 1 ELSE 0
<1> DEFINE n == IF b >= a THEN b - a + 1 ELSE 0
           p == Page(a, b)
<1>1. n \in Nat /\ LastBar \in Nat
  BY CandlesAssumption
<1>2. p = [i \in 1 .. n |-> Bar(a + i - 1)]
  BY DEF Page
<1>3. ASSUME NEW i \in 1 .. n PROVE Bar(a + i - 1) \in Bars /\ Bar(a + i - 1).t = a + i - 1
  <2>1. a + i - 1 \in 1 .. LastBar
    BY <1>1
  <2> QED BY <2>1 DEF Bar, Bars
<1> HIDE DEF n, p
<1>4. p \in Seq(Bars) /\ Len(p) = n /\ DOMAIN p = 1 .. n
  <2>1. p \in [1 .. n -> Bars]
    BY <1>2, <1>3
  <2> QED BY <1>1, <2>1
<1>5. \A i \in 1 .. n : p[i].t = a + i - 1
  BY <1>2, <1>3
<1>6. Rising(p)
  BY <1>1, <1>4, <1>5 DEF Rising
<1> QED BY <1>4, <1>6 DEF p, n

LEMMA LatestIs ==
    ASSUME CandleTypes
    PROVE  Latest \in Seq(Bars) /\ Rising(Latest) /\ Enough(Latest)
<1>1. bar \in Nat /\ Need <= bar /\ bar <= LastBar /\ Need <= Depth /\ Depth \in Nat /\ Need \in Nat
  BY CandlesAssumption DEF CandleTypes
<1>2. Back(bar, Depth) \in 1 .. LastBar + 1 /\ bar \in 0 .. LastBar
  BY <1>1, CandlesAssumption DEF Back
<1>3. bar >= Back(bar, Depth) /\ bar - Back(bar, Depth) + 1 >= Need
  BY <1>1, CandlesAssumption DEF Back
<1> QED BY <1>1, <1>2, <1>3, PageIs DEF Latest, Enough

(* What a fetch brings is in order, and enough if what it was to extend was    *)
(* in order.                                                               *)
LEMMA AnswerIs ==
    ASSUME CandleTypes, NEW have \in Seq(Bars), Len(have) <= Depth
    PROVE  /\ Answer(have) \in Seq(Bars) /\ Rising(Answer(have))
           /\ Rising(have) => Enough(Answer(have))
<1> DEFINE oldest == have[1].t
           page == Page(Back(oldest - 1, Depth - Len(have)), oldest - 1)
           paged == Merged(have, page)
<1>1. Latest \in Seq(Bars) /\ Rising(Latest) /\ Enough(Latest)
  BY LatestIs
<1>2. CASE have = <<>>
  BY <1>1, <1>2 DEF Answer
<1>3. CASE have # <<>>
  <2>1. oldest \in 1 .. LastBar
    <3>1. have[1] \in Bars
      BY <1>3
    <3> QED BY <3>1 DEF Bars
  <2>2. page \in Seq(Bars)
    <3>1. Len(have) \in Nat /\ Depth \in Nat /\ LastBar \in Nat
      BY CandlesAssumption
    <3> DEFINE n == Depth - Len(have)
    <3>2. n \in Nat
      BY <3>1
    <3> HIDE DEF n, oldest
    <3>3. Back(oldest - 1, n) \in 1 .. LastBar + 1 /\ oldest - 1 \in 0 .. LastBar
      BY <2>1, <3>1, <3>2 DEF Back
    <3>4. Page(Back(oldest - 1, n), oldest - 1) \in Seq(Bars)
      BY <3>3, PageIs
    <3> QED BY <3>4 DEF n, oldest
  <2>3. Answer(have) = IF Len(have) >= Need \/ Len(paged) >= Need THEN paged ELSE Merged(paged, Latest)
    BY <1>3 DEF Answer
  <2> HIDE DEF oldest, page
  <2>4. paged \in Seq(Bars) /\ Rising(paged) /\ (Rising(have) => Len(have) <= Len(paged))
    BY <2>2, MergedIs, MergedHolds
  <2> HIDE DEF paged
  <2>5. /\ Merged(paged, Latest) \in Seq(Bars) /\ Rising(Merged(paged, Latest))
        /\ Len(Latest) <= Len(Merged(paged, Latest))
    BY <1>1, <2>4, MergedIs, MergedHolds
  <2>6. Len(have) \in Nat /\ Len(paged) \in Nat /\ Len(Latest) \in Nat
        /\ Len(Merged(paged, Latest)) \in Nat /\ Need \in Nat
    BY <1>1, <2>4, <2>5, CandlesAssumption
  <2>7. CASE Len(have) >= Need \/ Len(paged) >= Need
    BY <2>3, <2>4, <2>6, <2>7 DEF Enough
  <2>8. CASE ~(Len(have) >= Need \/ Len(paged) >= Need)
    BY <1>1, <2>3, <2>5, <2>6, <2>8 DEF Enough
  <2> QED BY <2>7, <2>8
<1> QED BY <1>2, <1>3

(* _on_kline_message: the row that came last is replaced by one of the same    *)
(* number, else a row is added.  Nothing is lost below what a buffer holds.    *)
LEMMA ReplacedIs ==
    ASSUME NEW s \in Seq(Bars), Len(s) <= Depth, NEW row \in Bars
    PROVE  /\ Replaced(s, row) \in Seq(Bars)
           /\ Len(Replaced(s, row)) <= Depth /\ Len(s) <= Len(Replaced(s, row))
           /\ \A i \in DOMAIN Replaced(s, row) :
                 Replaced(s, row)[i] = row \/ \E j \in DOMAIN s : Replaced(s, row)[i] = s[j]
           /\ Rising(s) /\ (\A i \in DOMAIN s : s[i].t <= row.t) => Rising(Replaced(s, row))
<1>1. \A i \in DOMAIN s : s[i] \in Bars /\ s[i].t \in Int
  BY BarsCount
<1>2. row.t \in Int /\ Depth \in Nat /\ Depth > 0 /\ Len(s) \in Nat
  BY CandlesAssumption DEF Bars
<1>3. CASE s # <<>> /\ Newest(s) = row.t
  <2> DEFINE z == [s EXCEPT ![Len(s)] = row]
  <2>1. Replaced(s, row) = z
    BY <1>3 DEF Replaced
  <2>2. z \in Seq(Bars) /\ Len(z) = Len(s) /\ DOMAIN z = DOMAIN s /\ Len(s) \in DOMAIN s
    BY <1>3
  <2>3. \A i \in DOMAIN s : z[i] = (IF i = Len(s) THEN row ELSE s[i]) /\ z[i].t = s[i].t
    BY <1>3 DEF Newest
  <2> HIDE DEF z
  <2>4. Rising(s) => Rising(z)
    BY <2>2, <2>3 DEF Rising
  <2> QED BY <1>2, <2>1, <2>2, <2>3, <2>4
<1>4. CASE ~(s # <<>> /\ Newest(s) = row.t)
  <2> DEFINE z == Append(s, row)
  <2>1. Replaced(s, row) = Capped(z)
    BY <1>4 DEF Replaced
  <2>2. z \in Seq(Bars) /\ Len(z) = Len(s) + 1 /\ DOMAIN z = 1 .. Len(s) + 1
    OBVIOUS
  <2>3. z[Len(s) + 1] = row /\ \A i \in 1 .. Len(s) : z[i] = s[i]
    OBVIOUS
  <2> HIDE DEF z
  <2>4. \A i \in DOMAIN z : z[i] = row \/ \E j \in DOMAIN s : z[i] = s[j]
    <3>1. ASSUME NEW i \in DOMAIN z, i # Len(s) + 1 PROVE i \in 1 .. Len(s)
      BY <1>2, <2>2, <3>1
    <3>2. DOMAIN s = 1 .. Len(s)
      OBVIOUS
    <3> QED BY <2>3, <3>1, <3>2
  <2>5. ASSUME Rising(s), \A i \in DOMAIN s : s[i].t <= row.t PROVE Rising(z)
    <3>1. \A i \in 1 .. Len(s) : s[i].t < row.t
      <4>1. CASE s = <<>>
        BY <4>1
      <4>2. CASE s # <<>>
        <5>1. Len(s) \in DOMAIN s /\ DOMAIN s = 1 .. Len(s)
          BY <4>2
        <5>2. s[Len(s)].t < row.t
          BY <1>1, <1>2, <1>4, <2>5, <4>2, <5>1 DEF Newest
        <5>3. ASSUME NEW i \in 1 .. Len(s) PROVE s[i].t < row.t
          <6>1. s[i].t <= s[Len(s)].t
            BY <1>1, <2>5, <5>1 DEF Rising
          <6> QED BY <1>1, <1>2, <5>1, <5>2, <6>1
        <5> QED BY <5>3
      <4> QED BY <4>1, <4>2
    <3>2. ASSUME NEW i \in 1 .. Len(s) + 1, NEW j \in 1 .. Len(s) + 1, i < j PROVE z[i].t < z[j].t
      <4>1. i \in 1 .. Len(s) /\ z[i] = s[i]
        BY <1>2, <2>3, <3>2
      <4>2. CASE j = Len(s) + 1
        BY <2>3, <3>1, <4>1, <4>2
      <4>3. CASE j # Len(s) + 1
        <5>1. j \in 1 .. Len(s) /\ z[j] = s[j] /\ DOMAIN s = 1 .. Len(s)
          BY <1>2, <2>3, <4>3
        <5> QED BY <2>5, <3>2, <4>1, <5>1 DEF Rising
      <4> QED BY <4>2, <4>3
    <3> QED BY <2>2, <3>2 DEF Rising
  <2>6. Len(Capped(z)) <= Depth /\ Len(s) <= Len(Capped(z))
    BY <1>2, <2>2, CappedIs
  <2>7. /\ Capped(z) \in Seq(Bars) /\ (Rising(z) => Rising(Capped(z)))
        /\ \A i \in DOMAIN Capped(z) : \E j \in DOMAIN z : Capped(z)[i] = z[j]
    BY <2>2, CappedIs
  <2>8. \A i \in DOMAIN Capped(z) :
          Capped(z)[i] = row \/ \E j \in DOMAIN s : Capped(z)[i] = s[j]
    BY <2>4, <2>7
  <2>9. Rising(s) /\ (\A i \in DOMAIN s : s[i].t <= row.t) => Rising(Capped(z))
    BY <2>5, <2>7
  <2> QED BY <2>1, <2>6, <2>7, <2>8, <2>9
<1> QED BY <1>3, <1>4

(* merge_closed_kline_bar: a late row is sorted in.                            *)
LEMMA UpsertedIs ==
    ASSUME NEW s \in Seq(Bars), Len(s) <= Depth, Rising(s), NEW row \in Bars
    PROVE  /\ Upserted(s, row) \in Seq(Bars) /\ Rising(Upserted(s, row))
           /\ Len(Upserted(s, row)) <= Depth /\ Len(s) <= Len(Upserted(s, row))
<1>1. Depth \in Nat /\ Len(s) \in Nat /\ row.t \in Int
  BY CandlesAssumption DEF Bars
<1>2. CASE s # <<>> /\ Newest(s) > row.t
  <2>1. Upserted(s, row) = Capped(Merged(s, <<row>>))
    BY <1>2 DEF Upserted
  <2>2. <<row>> \in Seq(Bars)
    OBVIOUS
  <2>3. /\ Merged(s, <<row>>) \in Seq(Bars) /\ Rising(Merged(s, <<row>>))
        /\ Len(s) <= Len(Merged(s, <<row>>))
    BY <2>2, MergedIs, MergedHolds
  <2> DEFINE m == Merged(s, <<row>>)
  <2> HIDE DEF m
  <2>4. m \in Seq(Bars) /\ Rising(m) /\ Len(s) <= Len(m) /\ Len(m) \in Nat
    BY <2>3 DEF m
  <2>5. /\ Capped(m) \in Seq(Bars) /\ Rising(Capped(m)) /\ Len(Capped(m)) <= Depth
        /\ Len(m) <= Depth => Len(Capped(m)) = Len(m)
        /\ Len(m) >= Depth => Len(Capped(m)) = Depth
    BY <2>4, CappedIs
  <2>6. Len(s) <= Len(Capped(m))
    BY <1>1, <2>4, <2>5
  <2> QED BY <2>1, <2>5, <2>6 DEF m
<1>3. CASE ~(s # <<>> /\ Newest(s) > row.t)
  <2>1. Upserted(s, row) = Replaced(s, row)
    BY <1>3 DEF Upserted
  <2>2. \A i \in DOMAIN s : s[i].t <= row.t
    <3>1. \A i \in DOMAIN s : s[i].t \in Int /\ DOMAIN s = 1 .. Len(s)
      BY BarsCount
    <3>2. ASSUME NEW i \in DOMAIN s PROVE s[i].t <= row.t
      <4>1. s # <<>> /\ Len(s) \in DOMAIN s
        BY <1>1, <3>1
      <4>2. s[Len(s)].t <= row.t
        BY <1>1, <1>3, <3>1, <4>1 DEF Newest
      <4>3. s[i].t <= s[Len(s)].t
        BY <3>1, <4>1 DEF Rising
      <4> QED BY <1>1, <3>1, <4>1, <4>2, <4>3
    <3> QED BY <3>2
  <2> QED BY <2>1, <2>2, ReplacedIs
<1> QED BY <1>2, <1>3
-----------------------------------------------------------------------------
LEMMA CandlesStart == CandlesInit => CandleTypes /\ CandlesInv
<1> SUFFICES ASSUME CandlesInit PROVE CandleTypes /\ CandlesInv
  OBVIOUS
<1>1. /\ Need \in Nat /\ Need > 0 /\ Depth \in Nat /\ FirstBar \in Nat /\ LastBar \in Nat
      /\ FirstBar <= LastBar
  BY CandlesAssumption
<1>2. CandleTypes
  <2>1. <<>> \in Seq(Bars) /\ Len(<<>>) <= Depth
    BY <1>1
  <2>2. bar \in FirstBar .. LastBar
    BY <1>1 DEF CandlesInit
  <2>3. /\ rows \in [Fetchers -> Seq(Bars)] /\ \A f \in Fetchers : rows[f] = <<>>
        /\ fetch \in [Fetchers -> {"none", "asked", "seed", "mark"}]
    BY <2>1 DEF CandlesInit
  <2> QED BY <2>1, <2>2, <2>3 DEF CandlesInit, CandleTypes
<1>3. Frames
  BY DEF CandlesInit, Frames, InTurn
<1>4. Unseeded
  BY DEF CandlesInit, Unseeded, Rising, Sequel
<1>5. Seeds
  BY DEF CandlesInit, Seeds, Rising
<1> QED BY <1>2, <1>3, <1>4, <1>5 DEF CandlesInv

(* A frame of the forming bar comes after all that came before.                *)
LEMMA FrameComes ==
    ASSUME CandleTypes, Frames, Unseeded, NEW b \in Bars, b.t = bar
    PROVE  LET z == Append(frames, b) IN
           /\ z \in Seq(Bars) /\ InTurn(z) /\ \A j \in DOMAIN z : z[j].t <= bar
           /\ ~Enough(history) => Sequel(klineBars, z)
<1> DEFINE z == Append(frames, b)
<1>1. frames \in Seq(Bars) /\ klineBars \in Seq(Bars) /\ bar \in Int
  BY CandlesAssumption DEF CandleTypes
<1>2. z \in Seq(Bars) /\ DOMAIN z = 1 .. Len(frames) + 1 /\ Len(frames) \in Nat
  BY <1>1
<1>3. z[Len(frames) + 1] = b /\ \A i \in 1 .. Len(frames) : z[i] = frames[i]
  BY <1>1
<1>4. DOMAIN frames = 1 .. Len(frames)
  BY <1>1
<1> HIDE DEF z
<1>5. \A j \in 1 .. Len(frames) + 1 : z[j].t <= bar /\ (j # Len(frames) + 1 => j \in 1 .. Len(frames))
  BY <1>1, <1>2, <1>3, <1>4 DEF Frames
<1>6. ASSUME NEW i \in 1 .. Len(frames) + 1, NEW j \in 1 .. Len(frames) + 1, i < j PROVE z[i].t <= z[j].t
  <2>1. i \in 1 .. Len(frames)
    BY <1>2, <1>6
  <2>2. CASE j = Len(frames) + 1
    BY <1>3, <1>5, <2>2
  <2>3. CASE j # Len(frames) + 1
    BY <1>3, <1>4, <1>5, <1>6, <2>1, <2>3 DEF Frames, InTurn
  <2> QED BY <2>2, <2>3
<1>7. ASSUME ~Enough(history), NEW i \in DOMAIN klineBars, NEW j \in 1 .. Len(frames) + 1
      PROVE  klineBars[i].t <= z[j].t
  <2>1. CASE j = Len(frames) + 1
    BY <1>3, <1>7, <2>1 DEF Unseeded
  <2>2. CASE j # Len(frames) + 1
    BY <1>3, <1>4, <1>5, <1>7, <2>2 DEF Unseeded, Sequel
  <2> QED BY <2>1, <2>2
<1> QED BY <1>2, <1>5, <1>6, <1>7 DEF z, InTurn, Sequel

LEMMA TickStep == CandleTypes /\ CandlesInv /\ BarTicks => (CandleTypes /\ CandlesInv)'
<1> SUFFICES ASSUME CandleTypes, CandlesInv, BarTicks PROVE (CandleTypes /\ CandlesInv)'
  OBVIOUS
<1>1. Bar(bar) \in Bars /\ Bar(bar).t = bar
  BY CandlesAssumption DEF CandleTypes, Bar, Bars
<1>2. /\ frames' \in Seq(Bars) /\ InTurn(frames') /\ \A j \in DOMAIN frames' : frames'[j].t <= bar
      /\ ~Enough(history) => Sequel(klineBars, frames')
  BY <1>1, FrameComes DEF BarTicks, CandlesInv
<1>3. UNCHANGED <<bar, listed, klineBars, history, bootstrapped, fetch, rows>>
  BY DEF BarTicks, bufferVars
<1>4. CandleTypes'
  BY <1>2, <1>3 DEF CandleTypes
<1>5. Frames'
  BY <1>2, <1>3 DEF Frames
<1>6. Unseeded'
  BY <1>2, <1>3 DEF CandlesInv, Unseeded
<1>7. Seeds'
  BY <1>3 DEF CandlesInv, Seeds
<1> QED BY <1>4, <1>5, <1>6, <1>7 DEF CandlesInv

LEMMA CloseStep == CandleTypes /\ CandlesInv /\ BarCloses => (CandleTypes /\ CandlesInv)'
<1> SUFFICES ASSUME CandleTypes, CandlesInv, BarCloses PROVE (CandleTypes /\ CandlesInv)'
  OBVIOUS
<1> DEFINE b == [t |-> bar, final |-> TRUE]
<1>1. b \in Bars /\ b.t = bar
  BY CandlesAssumption DEF CandleTypes, Bars
<1>2. /\ frames' \in Seq(Bars) /\ InTurn(frames') /\ \A j \in DOMAIN frames' : frames'[j].t <= bar
      /\ ~Enough(history) => Sequel(klineBars, frames')
  <2>1. CASE frames' = Append(frames, b)
    <3> HIDE DEF b
    <3> QED BY <1>1, <2>1, FrameComes DEF CandlesInv
  <2>2. CASE UNCHANGED frames
    BY <2>2 DEF CandleTypes, CandlesInv, Frames, Unseeded
  <2> QED BY <2>1, <2>2 DEF BarCloses
<1>3. UNCHANGED <<listed, klineBars, history, bootstrapped, fetch, rows>> /\ bar' = bar + 1 /\ bar < LastBar
  BY DEF BarCloses, bufferVars
<1>4. bar \in Int /\ bar' \in FirstBar .. LastBar
  BY <1>3, CandlesAssumption DEF CandleTypes
<1>5. CandleTypes'
  BY <1>2, <1>3, <1>4 DEF CandleTypes
<1>6. Frames'
  <2>1. \A j \in DOMAIN frames' : frames'[j].t \in Int
    BY <1>2, BarsCount
  <2> QED BY <1>2, <1>3, <1>4, <2>1 DEF Frames
<1>7. Unseeded'
  <2>1. \A i \in DOMAIN klineBars : klineBars[i].t \in Int
    BY BarsCount DEF CandleTypes
  <2>2. ~Enough(history) => \A i \in DOMAIN klineBars : klineBars[i].t <= bar + 1
    BY <1>4, <2>1 DEF CandlesInv, Unseeded
  <2> QED BY <1>2, <1>3, <2>2 DEF CandlesInv, Unseeded
<1>8. Seeds'
  BY <1>3 DEF CandlesInv, Seeds
<1> QED BY <1>5, <1>6, <1>7, <1>8 DEF CandlesInv

(* A buffer that only grows stays long enough.                                *)
LEMMA EnoughStays ==
    ASSUME NEW s \in Seq(Bars), NEW z \in Seq(Bars), Len(s) <= Len(z), Enough(s)
    PROVE  Enough(z)
<1>1. Len(s) \in Nat /\ Len(z) \in Nat /\ Need \in Nat
  BY CandlesAssumption
<1> QED BY <1>1 DEF Enough

LEMMA KlineStep == CandleTypes /\ CandlesInv /\ OnKline => (CandleTypes /\ CandlesInv)'
<1> SUFFICES ASSUME CandleTypes, CandlesInv, OnKline PROVE (CandleTypes /\ CandlesInv)'
  OBVIOUS
<1> DEFINE b == Head(frames)
<1>1. frames # <<>> /\ frames \in Seq(Bars) /\ klineBars \in Seq(Bars) /\ history \in Seq(Bars)
      /\ Len(klineBars) <= Depth /\ Len(history) <= Depth /\ Rising(history)
  BY DEF OnKline, CandleTypes, CandlesInv, Seeds
<1>2. b \in Bars /\ b = frames[1] /\ 1 \in DOMAIN frames
  BY <1>1
<1>3. /\ frames' = Tail(frames) /\ klineBars' = Replaced(klineBars, b)
      /\ history' = IF b.final THEN Upserted(history, b) ELSE history
      /\ UNCHANGED <<bar, listed, bootstrapped, fetch, rows>>
  BY DEF OnKline
<1>4. /\ frames' \in Seq(Bars) /\ DOMAIN frames' = 1 .. Len(frames) - 1 /\ Len(frames) \in Nat
      /\ DOMAIN frames = 1 .. Len(frames)
      /\ \A j \in DOMAIN frames' : j + 1 \in DOMAIN frames /\ frames'[j] = frames[j + 1]
  <2>1. Tail(frames) \in Seq(Bars) /\ Len(Tail(frames)) = Len(frames) - 1 /\ Len(frames) \in Nat
    BY <1>1
  <2>2. \A j \in 1 .. Len(frames) - 1 : Tail(frames)[j] = frames[j + 1]
    BY <1>1
  <2>3. DOMAIN Tail(frames) = 1 .. Len(frames) - 1 /\ DOMAIN frames = 1 .. Len(frames)
    BY <1>1, <2>1
  <2> QED BY <1>3, <2>1, <2>2, <2>3
<1> HIDE DEF b
<1>5. /\ klineBars' \in Seq(Bars) /\ Len(klineBars') <= Depth /\ Len(klineBars) <= Len(klineBars')
      /\ \A i \in DOMAIN klineBars' : klineBars'[i] = b \/ \E j \in DOMAIN klineBars : klineBars'[i] = klineBars[j]
      /\ Rising(klineBars) /\ (\A i \in DOMAIN klineBars : klineBars[i].t <= b.t) => Rising(klineBars')
  BY <1>1, <1>2, <1>3, ReplacedIs
<1>6. history' \in Seq(Bars) /\ Rising(history') /\ Len(history') <= Depth /\ Len(history) <= Len(history')
  <2>1. CASE b.final
    BY <1>1, <1>2, <1>3, <2>1, UpsertedIs
  <2>2. CASE ~b.final
    BY <1>1, <1>3, <2>2
  <2> QED BY <2>1, <2>2
<1>7. (Enough(history) => Enough(history')) /\ (Enough(klineBars) => Enough(klineBars'))
  BY <1>1, <1>5, <1>6, EnoughStays
<1>8. CandleTypes'
  BY <1>3, <1>4, <1>5, <1>6 DEF CandleTypes
<1>9. Frames'
  <2>1. \A j \in DOMAIN frames' : frames'[j].t <= bar'
    BY <1>3, <1>4 DEF CandlesInv, Frames
  <2>2. ASSUME NEW i \in DOMAIN frames', NEW j \in DOMAIN frames', i < j PROVE frames'[i].t <= frames'[j].t
    <3>1. i + 1 \in DOMAIN frames /\ j + 1 \in DOMAIN frames /\ i + 1 < j + 1
      BY <1>4, <2>2
    <3> QED BY <1>4, <3>1 DEF CandlesInv, Frames, InTurn
  <2> QED BY <2>1, <2>2 DEF Frames, InTurn
<1>10. Unseeded'
  <2> SUFFICES ASSUME ~Enough(history')
               PROVE  /\ Rising(klineBars') /\ Sequel(klineBars', frames')
                      /\ \A i \in DOMAIN klineBars' : klineBars'[i].t <= bar'
                      /\ \A f \in Fetchers : fetch'[f] = "asked" => Rising(rows'[f])
                      /\ \A f \in Fetchers : fetch'[f] = "seed" => Enough(rows'[f])
    BY DEF Unseeded
  <2>1. ~Enough(history)
    BY <1>7
  <2>2. /\ Rising(klineBars) /\ Sequel(klineBars, frames) /\ \A i \in DOMAIN klineBars : klineBars[i].t <= bar
        /\ \A f \in Fetchers : fetch[f] = "asked" => Rising(rows[f])
        /\ \A f \in Fetchers : fetch[f] = "seed" => Enough(rows[f])
    BY <2>1 DEF CandlesInv, Unseeded
  <2>3. \A i \in DOMAIN klineBars : klineBars[i].t <= b.t
    BY <1>2, <2>2 DEF Sequel
  <2>4. b.t <= bar /\ \A j \in DOMAIN frames' : b.t <= frames'[j].t
    <3>1. b.t <= bar
      BY <1>2 DEF CandlesInv, Frames
    <3>2. ASSUME NEW j \in DOMAIN frames' PROVE b.t <= frames'[j].t
      <4>1. 1 < j + 1 /\ j + 1 \in DOMAIN frames /\ frames'[j] = frames[j + 1]
        BY <1>4, <3>2
      <4> QED BY <1>2, <4>1 DEF CandlesInv, Frames, InTurn
    <3> QED BY <3>1, <3>2
  <2>5. \A i \in DOMAIN klineBars, j \in DOMAIN frames' : klineBars[i].t <= frames'[j].t
    BY <1>4, <2>2 DEF Sequel
  <2>6. Sequel(klineBars', frames') /\ \A i \in DOMAIN klineBars' : klineBars'[i].t <= bar
    BY <1>5, <2>2, <2>4, <2>5 DEF Sequel
  <2> QED BY <1>3, <1>5, <2>2, <2>3, <2>6
<1>11. Seeds'
  BY <1>3, <1>6, <1>7 DEF CandlesInv, Seeds
<1> QED BY <1>8, <1>9, <1>10, <1>11 DEF CandlesInv
-----------------------------------------------------------------------------
(* Subscribing, demoting, and marking what is cached.                         *)
LEMMA ListedStep ==
    CandleTypes /\ CandlesInv /\ (Subscribe \/ DemoteSymbol \/ Satisfied) => (CandleTypes /\ CandlesInv)'
<1> SUFFICES ASSUME CandleTypes, CandlesInv, Subscribe \/ DemoteSymbol \/ Satisfied
             PROVE  (CandleTypes /\ CandlesInv)'
  OBVIOUS
<1>1. UNCHANGED <<bar, frames, history, fetch, rows>> /\ listed' \in BOOLEAN
  BY DEF Subscribe, DemoteSymbol, Satisfied, bufferVars, KeptHistory, CandleTypes
<1>2. klineBars' \in {klineBars, <<>>}
  BY DEF Subscribe, DemoteSymbol, Satisfied, bufferVars
<1>3. bootstrapped' \in BOOLEAN /\ (bootstrapped' => Enough(history) \/ Enough(klineBars'))
  <2>1. CASE Subscribe
    BY <2>1 DEF Subscribe, bufferVars, CandlesInv, Seeds, CandleTypes
  <2>2. CASE DemoteSymbol
    BY <2>2 DEF DemoteSymbol
  <2>3. CASE Satisfied
    BY <2>3 DEF Satisfied, Cached, Enough
  <2> QED BY <2>1, <2>2, <2>3
<1>4. CandleTypes'
  <2>1. <<>> \in Seq(Bars) /\ Len(<<>>) <= Depth
    BY CandlesAssumption
  <2> QED BY <1>1, <1>2, <1>3, <2>1 DEF CandleTypes
<1>5. Frames'
  BY <1>1 DEF CandlesInv, Frames
<1>6. Unseeded'
  <2>1. CASE klineBars' = klineBars
    BY <1>1, <2>1 DEF CandlesInv, Unseeded
  <2>2. CASE klineBars' = <<>>
    BY <1>1, <2>2 DEF CandlesInv, Unseeded, Rising, Sequel
  <2> QED BY <1>2, <2>1, <2>2
<1>7. Seeds'
  BY <1>1, <1>3 DEF CandlesInv, Seeds
<1> QED BY <1>4, <1>5, <1>6, <1>7 DEF CandlesInv

(* A thread takes what is cached, gets an answer, stores it and marks it.       *)
LEMMA AskStep ==
    ASSUME NEW f \in Fetchers
    PROVE  CandleTypes /\ CandlesInv /\ StartFetch(f) => (CandleTypes /\ CandlesInv)'
<1> SUFFICES ASSUME CandleTypes, CandlesInv, StartFetch(f) PROVE (CandleTypes /\ CandlesInv)'
  OBVIOUS
<1>1. UNCHANGED <<bar, listed, frames, klineBars, history, bootstrapped>>
      /\ fetch' = [fetch EXCEPT ![f] = "asked"] /\ rows' = [rows EXCEPT ![f] = Cached]
  BY DEF StartFetch, bufferVars
<1>2. Cached \in Seq(Bars) /\ Len(Cached) <= Depth
  BY DEF Cached, CandleTypes
<1>3. ~Enough(history) => Rising(Cached)
  BY DEF Cached, CandlesInv, Unseeded, Seeds
<1>4. CandleTypes'
  BY <1>1, <1>2 DEF CandleTypes
<1>5. \A g \in Fetchers : IF g = f THEN fetch'[g] = "asked" /\ rows'[g] = Cached
                          ELSE fetch'[g] = fetch[g] /\ rows'[g] = rows[g]
  BY <1>1 DEF CandleTypes
<1>6. Frames'
  BY <1>1 DEF CandlesInv, Frames
<1>7. Unseeded'
  BY <1>1, <1>3, <1>5 DEF CandlesInv, Unseeded
<1>8. Seeds'
  BY <1>1, <1>5 DEF CandlesInv, Seeds
<1> QED BY <1>4, <1>6, <1>7, <1>8 DEF CandlesInv

LEMMA FetchedStep ==
    ASSUME NEW f \in Fetchers
    PROVE  CandleTypes /\ CandlesInv /\ Fetched(f) => (CandleTypes /\ CandlesInv)'
<1> SUFFICES ASSUME CandleTypes, CandlesInv, Fetched(f) PROVE (CandleTypes /\ CandlesInv)'
  OBVIOUS
<1> DEFINE a == Answer(rows[f])
           c == Capped(a)
<1>1. UNCHANGED <<bar, listed, frames, klineBars, history, bootstrapped>> /\ fetch[f] = "asked"
  BY DEF Fetched, bufferVars
<1>2. a \in Seq(Bars) /\ Rising(a) /\ (Rising(rows[f]) => Enough(a))
  BY AnswerIs DEF CandleTypes
<1> HIDE DEF a
<1>3. c \in Seq(Bars) /\ Len(c) <= Depth /\ Rising(c)
      /\ (Len(a) <= Depth => Len(c) = Len(a)) /\ (Len(a) >= Depth => Len(c) = Depth)
  BY <1>2, CappedIs
<1> HIDE DEF c
<1>4. ~Enough(history) => Enough(c)
  <2>1. Len(a) \in Nat /\ Len(c) \in Nat /\ Need \in Nat /\ Depth \in Nat /\ Need <= Depth
    BY <1>2, <1>3, CandlesAssumption
  <2>2. ~Enough(history) => Enough(a)
    BY <1>1, <1>2 DEF CandlesInv, Unseeded
  <2> QED BY <1>3, <2>1, <2>2 DEF Enough
<1>5. \/ fetch' = [fetch EXCEPT ![f] = "seed"] /\ rows' = [rows EXCEPT ![f] = c]
      \/ fetch' = [fetch EXCEPT ![f] = "none"] /\ rows' = [rows EXCEPT ![f] = <<>>]
  BY DEF Fetched, a, c
<1>6. CandleTypes'
  <2>1. <<>> \in Seq(Bars) /\ Len(<<>>) <= Depth
    BY CandlesAssumption
  <2> QED BY <1>1, <1>3, <1>5, <2>1 DEF CandleTypes
<1>7. \A g \in Fetchers : IF g = f THEN fetch'[g] = "none" \/ (fetch'[g] = "seed" /\ rows'[g] = c)
                          ELSE fetch'[g] = fetch[g] /\ rows'[g] = rows[g]
  <2>1. DOMAIN fetch = Fetchers /\ DOMAIN rows = Fetchers
    BY DEF CandleTypes
  <2>2. CASE fetch' = [fetch EXCEPT ![f] = "seed"] /\ rows' = [rows EXCEPT ![f] = c]
    BY <2>1, <2>2
  <2>3. CASE fetch' = [fetch EXCEPT ![f] = "none"] /\ rows' = [rows EXCEPT ![f] = <<>>]
    BY <2>1, <2>3
  <2> QED BY <1>5, <2>2, <2>3
<1>8. Frames'
  BY <1>1 DEF CandlesInv, Frames
<1>9. Unseeded'
  BY <1>1, <1>4, <1>7 DEF CandlesInv, Unseeded
<1>10. Seeds'
  BY <1>1, <1>3, <1>7 DEF CandlesInv, Seeds
<1> QED BY <1>6, <1>8, <1>9, <1>10 DEF CandlesInv

LEMMA SeedStep ==
    ASSUME NEW f \in Fetchers
    PROVE  CandleTypes /\ CandlesInv /\ Seed(f) => (CandleTypes /\ CandlesInv)'
<1> SUFFICES ASSUME CandleTypes, CandlesInv, Seed(f) PROVE (CandleTypes /\ CandlesInv)'
  OBVIOUS
<1> DEFINE m == Merged(history, rows[f])
<1>1. /\ UNCHANGED <<bar, listed, frames, bootstrapped, rows>> /\ fetch[f] = "seed"
      /\ klineBars' = rows[f] /\ history' = Capped(m)
      /\ fetch' = [fetch EXCEPT ![f] = IF f \in Bootstrappers THEN "mark" ELSE "none"]
  BY DEF Seed
<1>2. /\ rows[f] \in Seq(Bars) /\ Len(rows[f]) <= Depth /\ Rising(rows[f])
      /\ history \in Seq(Bars) /\ Rising(history)
  BY <1>1 DEF CandleTypes, CandlesInv, Seeds
<1>3. m \in Seq(Bars) /\ Rising(m) /\ Len(history) <= Len(m) /\ Len(rows[f]) <= Len(m)
  BY <1>2, MergedIs, MergedHolds
<1> HIDE DEF m
<1>4. history' \in Seq(Bars) /\ Len(history') <= Depth /\ Rising(history')
      /\ (Len(m) <= Depth => Len(history') = Len(m)) /\ (Len(m) >= Depth => Len(history') = Depth)
  BY <1>1, <1>3, CappedIs
<1>5. Enough(history')
  <2>1. Enough(history) \/ Enough(rows[f])
    BY <1>1 DEF CandlesInv, Unseeded
  <2>2. Enough(m)
    BY <1>2, <1>3, <2>1, EnoughStays
  <2>3. Len(m) \in Nat /\ Len(history') \in Nat /\ Need \in Nat /\ Depth \in Nat /\ Need <= Depth
    BY <1>3, <1>4, CandlesAssumption
  <2> QED BY <1>4, <2>2, <2>3 DEF Enough
<1>6. CandleTypes'
  BY <1>1, <1>2, <1>4 DEF CandleTypes
<1>7. \A g \in Fetchers : fetch'[g] = "seed" => fetch[g] = "seed"
  BY <1>1 DEF CandleTypes
<1>8. Frames'
  BY <1>1 DEF CandlesInv, Frames
<1>9. Unseeded'
  BY <1>5 DEF Unseeded
<1>10. Seeds'
  BY <1>1, <1>4, <1>5, <1>7 DEF CandlesInv, Seeds
<1> QED BY <1>6, <1>8, <1>9, <1>10 DEF CandlesInv

LEMMA MarkStep ==
    ASSUME NEW f \in Fetchers
    PROVE  CandleTypes /\ CandlesInv /\ Mark(f) => (CandleTypes /\ CandlesInv)'
<1> SUFFICES ASSUME CandleTypes, CandlesInv, Mark(f) PROVE (CandleTypes /\ CandlesInv)'
  OBVIOUS
<1>1. /\ UNCHANGED <<bar, listed, frames, klineBars, history>> /\ fetch[f] = "mark"
      /\ bootstrapped' \in BOOLEAN
      /\ fetch' = [fetch EXCEPT ![f] = "none"] /\ rows' = [rows EXCEPT ![f] = <<>>]
  BY DEF Mark, CandleTypes
<1>2. Enough(history)
  BY <1>1 DEF CandlesInv, Seeds
<1>3. CandleTypes'
  <2>1. <<>> \in Seq(Bars) /\ Len(<<>>) <= Depth
    BY CandlesAssumption
  <2> QED BY <1>1, <2>1 DEF CandleTypes
<1>4. \A g \in Fetchers : IF g = f THEN fetch'[g] = "none" ELSE fetch'[g] = fetch[g] /\ rows'[g] = rows[g]
  BY <1>1 DEF CandleTypes
<1>5. Frames'
  BY <1>1 DEF CandlesInv, Frames
<1>6. Unseeded'
  BY <1>1, <1>2 DEF Unseeded
<1>7. Seeds'
  BY <1>1, <1>2, <1>4 DEF CandlesInv, Seeds
<1> QED BY <1>3, <1>5, <1>6, <1>7 DEF CandlesInv

LEMMA CandlesStep == CandleTypes /\ CandlesInv /\ [CandlesNext]_candleVars => (CandleTypes /\ CandlesInv)'
<1> SUFFICES ASSUME CandleTypes, CandlesInv, [CandlesNext]_candleVars PROVE (CandleTypes /\ CandlesInv)'
  OBVIOUS
<1>1. CASE UNCHANGED candleVars
  BY <1>1 DEF candleVars, bufferVars, CandleTypes, CandlesInv, Frames, Unseeded, Seeds
<1>2. CASE CandlesNext
  BY <1>2, TickStep, CloseStep, KlineStep, ListedStep, AskStep, FetchedStep, SeedStep, MarkStep
  DEF CandlesNext
<1> QED BY <1>1, <1>2

LEMMA CandlesShow == CandleTypes /\ CandlesInv => CandlesTypeOK /\ BootstrappedHasBars
<1> SUFFICES ASSUME CandleTypes, CandlesInv PROVE CandlesTypeOK /\ BootstrappedHasBars
  OBVIOUS
<1>1. Len(klineBars) \in 0 .. Depth /\ Len(history) \in 0 .. Depth
  BY CandlesAssumption DEF CandleTypes
<1>2. \A s \in {klineBars, history, frames} \cup {rows[f] : f \in Fetchers} : s \in Seq(Bars)
  BY DEF CandleTypes
<1>3. CandlesTypeOK
  <2>1. \A s \in Seq(Bars) : \A i \in DOMAIN s : s[i] \in Bars
    OBVIOUS
  <2> QED BY <1>1, <1>2, <2>1 DEF CandlesTypeOK, CandleTypes
<1>4. BootstrappedHasBars
  <2>1. Len(history) \in Nat /\ Len(klineBars) \in Nat /\ Need \in Nat
    BY <1>1, CandlesAssumption
  <2> QED BY <2>1 DEF CandlesInv, Seeds, Enough, BootstrappedHasBars, Cached
<1> QED BY <1>3, <1>4
-----------------------------------------------------------------------------
(* Each of the parts goes on by its own steps, whatever the others do.         *)
GuardSpec   == RestInit /\ [][RestNext]_restVars
LanesSpec   == LanesInit /\ [][LanesNext]_laneVars
StreamsSpec == StreamsInit /\ [][StreamsNext]_streamVars
CandlesSpec == CandlesInit /\ [][CandlesNext]_candleVars

(* A run of the feeds is a run of the guard, of the lanes, of the streams and  *)
(* of the candles.                                                         *)
THEOREM FeedsProject == FeedsSpec => GuardSpec /\ LanesSpec /\ StreamsSpec /\ CandlesSpec
<1>1. FeedsInit => RestInit /\ LanesInit /\ StreamsInit /\ CandlesInit
  BY DEF FeedsInit
<1>2. [FeedsNext]_feedsVars => [RestNext]_restVars
  BY DEF FeedsNext, feedsVars
<1>3. [FeedsNext]_feedsVars => [LanesNext]_laneVars
  BY DEF FeedsNext, feedsVars
<1>4. [FeedsNext]_feedsVars => [StreamsNext]_streamVars
  BY DEF FeedsNext, feedsVars
<1>5. [FeedsNext]_feedsVars => [CandlesNext]_candleVars
  BY DEF FeedsNext, feedsVars
<1> QED BY <1>1, <1>2, <1>3, <1>4, <1>5, PTL
        DEF FeedsSpec, GuardSpec, LanesSpec, StreamsSpec, CandlesSpec

(* BackgroundSilent and the guard's types: for any number of threads and       *)
(* refusals, no call outside the orders' lane is sent that was started after   *)
(* the end of the running ban had been handled, unless an older end was       *)
(* handled after a later one (_throttled_call, _apply_rate_limit_halt).        *)
THEOREM SilenceCorrect == GuardSpec => [](BackgroundSilent /\ RestTypeOK)
<1>1. GuardInv => BackgroundSilent /\ RestTypeOK
  BY GuardShows DEF GuardInv
<1> QED BY <1>1, GuardInitHolds, GuardStep, PTL DEF GuardSpec

(* EntriesHaveRoom and the lanes' types: while the orders fit between the soft *)
(* and the hard cap, the scan's reservations leave them room, and a window      *)
(* passes its budget by no more than one call per thread (try_acquire).        *)
THEOREM RoomCorrect == LanesSpec => [](EntriesHaveRoom /\ LanesTypeOK)
BY LanesInitHolds, LanesStep, LanesShow, PTL DEF LanesSpec

(* SubscribedAreServed and the streams' types: after any interleaving of        *)
(* subscribes, demotions, socket and full reconnects and stops, a settled hub  *)
(* serves every subscribed stream whose socket did not break.                 *)
THEOREM ServedCorrect == StreamsSpec => [](SubscribedAreServed /\ StreamsTypeOK)
BY StreamsInitHolds, StreamsStep, StreamsShow, PTL DEF StreamsSpec

(* BootstrappedHasBars and the candles' types: however frames, seeds, marks and *)
(* demotions interleave, a series that gets no seed any more can be read at the *)
(* length that needs none (_pending_bootstrap_pairs, get_candles_cached_only).  *)
THEOREM BarsCorrect == CandlesSpec => [](BootstrappedHasBars /\ CandlesTypeOK)
BY CandlesStart, CandlesStep, CandlesShow, PTL DEF CandlesSpec

(* All four, and all types, of the specification the runs check.               *)
THEOREM FeedsCorrect ==
    FeedsSpec => [](BackgroundSilent /\ EntriesHaveRoom /\ SubscribedAreServed
                    /\ BootstrappedHasBars /\ FeedTypesOK)
<1>1. RestTypeOK /\ LanesTypeOK /\ StreamsTypeOK /\ CandlesTypeOK => FeedTypesOK
  BY DEF FeedTypesOK
<1> QED BY <1>1, FeedsProject, SilenceCorrect, RoomCorrect, ServedCorrect, BarsCorrect, PTL
=============================================================================
