----------------------------- MODULE MCDecisions -----------------------------
(* What decides whether a coin is traded, for TLC: the tiers of the scan and   *)
(* the limits of the day.  The two modules share no state (each leaves open   *)
(* what the other may refuse), so a behaviour is about one of them, chosen at  *)
(* its start.                                                                *)
EXTENDS TradingDay, TierFunnel, TLC

VARIABLE part
decisionVars == <<part, dayVars, funnelVars>>

TopCoins == {Coins}
SameCoins == Permutations(Coins)

DecisionInit == part \in {"day", "funnel"} /\ DayInit /\ FunnelInit

DecisionNext ==
    /\ \/ part = "day" /\ DayNext /\ UNCHANGED funnelVars
       \/ part = "funnel" /\ FunnelNext /\ UNCHANGED dayVars
    /\ UNCHANGED part

DecisionSpec == DecisionInit /\ [][DecisionNext]_decisionVars

(* No step reads or changes what was counted on a day that is over.           *)
Counts(d)  == IF d < day THEN <<>> ELSE <<stats[d].entries, opened[d]>>
Uncounted(d) == [stats[d] EXCEPT !.entries = 0]
DayView == <<day, today, file, [d \in Days |-> <<Uncounted(d), Counts(d)>>], override,
             dayThreadVars, restarts>>

(* The part that a behaviour is not about stays as it began.                  *)
DecisionView    == IF part = "day" THEN DayView ELSE <<funnelVars>>
DecisionTypesOK == IF part = "day" THEN DayTypeOK ELSE FunnelTypeOK
=============================================================================
