------------------------------ MODULE RestLanes -----------------------------
(***************************************************************************)
(* How much a minute of REST calls may weigh: the lanes of _throttled_call   *)
(* after its halts, with RestBudgetManager and RestUsageTracker.  A call     *)
(* takes from them one after the other and gives nothing back when a later   *)
(* one refuses it.  The intervals between calls (ComponentRestPacer,         *)
(* RateLimiter) and the tokens of RestTokenBucket only delay an order and    *)
(* turn any other call away.                                                *)
(***************************************************************************)
EXTENDS Integers, FiniteSets

CONSTANTS
    LaneCallers,    \* threads
    LaneOf,         \* thread -> "order", "hot" or "normal"
    Weights,        \* what a call may weigh (weight_for_call)
    Budget,         \* lane -> REST_BUDGET_*_WEIGHT
    Throttle,       \* REST_PRIORITY_THROTTLE_TOTAL
    Soft,           \* REST_SOFT_WEIGHT_CEILING
    Hard,           \* REST_HARD_WEIGHT_CAP
    MaxOrders       \* weight of the orders in one window

Lanes == {"order", "hot", "normal"}

ASSUME LanesAssumption ==
    /\ IsFiniteSet(LaneCallers) /\ LaneOf \in [LaneCallers -> Lanes]
    /\ Weights \subseteq Nat /\ \E w \in Weights : \A v \in Weights : v <= w
    /\ Budget \in [Lanes -> Nat] /\ MaxOrders \in Nat
    /\ Soft \in Nat /\ Hard \in Nat /\ Soft <= Hard /\ Throttle \in Nat

VARIABLES
    stage,          \* thread -> which of them its call has passed
    weight,         \* thread -> what its call weighs
    window,         \* lane -> weight in RestBudgetManager._windows
    reserved,       \* lane -> weight in RestUsageTracker._local_weight_window
    header          \* _used_weight_1m, from the last answer

laneVars == <<stage, weight, window, reserved, header>>

LanesInit ==
    /\ stage = [t \in LaneCallers |-> "idle"]
    /\ weight = [t \in LaneCallers |-> 0]
    /\ window = [l \in Lanes |-> 0] /\ reserved = [l \in Lanes |-> 0]
    /\ header = 0

Passes(t, label) == stage' = [stage EXCEPT ![t] = label]
Ends(t) == Passes(t, "idle") /\ weight' = [weight EXCEPT ![t] = 0]
IsOrder(t) == LaneOf[t] = "order"
Local == reserved["order"] + reserved["hot"] + reserved["normal"]
Projected == IF header > Local THEN header ELSE Local
-----------------------------------------------------------------------------
(* weight_for_call; an order notes its weight before anything may hold it,   *)
(* any other call needs a slot and a token at once.                          *)
BeginCall(t) ==
    /\ stage[t] = "idle"
    /\ \E w \in Weights :
          /\ weight' = [weight EXCEPT ![t] = w]
          /\ \/ /\ IsOrder(t) /\ reserved["order"] + w <= MaxOrders
                /\ reserved' = [reserved EXCEPT !["order"] = @ + w]
                /\ Passes(t, "send")
             \/ ~IsOrder(t) /\ Passes(t, "budget") /\ UNCHANGED reserved
    /\ UNCHANGED <<window, header>>

(* RestBudgetManager.try_acquire asks has_budget_for and enters the weight   *)
(* under two takings of its lock.                                           *)
HasBudgetFor(t) == window[LaneOf[t]] + weight[t] <= Budget[LaneOf[t]]

AskBudget(t) ==
    /\ stage[t] = "budget"
    /\ IF HasBudgetFor(t) THEN Passes(t, "enter") /\ UNCHANGED weight ELSE Ends(t)
    /\ UNCHANGED <<window, reserved, header>>

EnterBudget(t) ==
    /\ stage[t] = "enter"
    /\ window' = [window EXCEPT ![LaneOf[t]] = @ + weight[t]]
    /\ Passes(t, "reserve")
    /\ UNCHANGED <<weight, reserved, header>>

(* RestUsageTracker.try_reserve: what is told and what is reserved, under    *)
(* the ceilings and the budget of the lane.                                  *)
FitsUnderHard(t) ==                                               \* mutant
    Projected + weight[t] <= Hard /\ reserved[LaneOf[t]] + weight[t] <= Budget[LaneOf[t]]
Fits(t) ==
    /\ Projected + weight[t] <= Soft
    /\ LaneOf[t] = "normal" => Projected + weight[t] <= Throttle
    /\ reserved[LaneOf[t]] + weight[t] <= Budget[LaneOf[t]]

TryReserve(t) ==
    /\ stage[t] = "reserve"
    /\ IF Fits(t)
       THEN /\ reserved' = [reserved EXCEPT ![LaneOf[t]] = @ + weight[t]]
            /\ Passes(t, "send") /\ UNCHANGED weight
       ELSE Ends(t) /\ UNCHANGED reserved
    /\ UNCHANGED <<window, header>>

(* The answer brings what the exchange counts, in a minute of its own.       *)
NoteResponse(t) ==
    /\ stage[t] = "send"
    /\ header' \in 0 .. Hard
    /\ Ends(t)
    /\ UNCHANGED <<window, reserved>>
-----------------------------------------------------------------------------
(* A minute passes with what was entered in it.                              *)
MinutePasses ==
    /\ window' = [l \in Lanes |-> 0] /\ reserved' = [l \in Lanes |-> 0]
    /\ header' = 0
    /\ UNCHANGED <<stage, weight>>

LanesNext ==
    \/ \E t \in LaneCallers :
          \/ BeginCall(t) \/ AskBudget(t) \/ EnterBudget(t)
          \/ TryReserve(t) \/ NoteResponse(t)
    \/ MinutePasses
-----------------------------------------------------------------------------
MostWeight == CHOOSE w \in Weights : \A v \in Weights : v <= w
LanesTypeOK ==
    /\ stage \in [LaneCallers -> {"idle", "budget", "enter", "reserve", "send"}]
    /\ weight \in [LaneCallers -> Weights \cup {0}]
    /\ window \in [Lanes -> Nat]
    /\ \A l \in Lanes : window[l] <= Budget[l] + Cardinality(LaneCallers) * MostWeight
    /\ reserved \in [Lanes -> 0 .. Hard + MaxOrders]
    /\ header \in 0 .. Hard

(* "Orders proceed unless the IP is halted or the 1500 hard cap is hit"      *)
(* (allows_new_entries): while the orders alone fit between the two caps,     *)
(* what scanning and seeding reserve in the same minute stops no entry.      *)
EntriesHaveRoom == reserved["order"] < Hard - Soft => Local < Hard
=============================================================================
