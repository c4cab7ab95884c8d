----------------------------- MODULE StrictTiers -----------------------------
(***************************************************************************)
(* What core/tier_funnel.py promises in its first line, a strict three-tier   *)
(* funnel: Normal (wide), Hot (backtest), Super (execution).  A coin climbs    *)
(* one tier at a time, to Super only when the backtest of this stay in Hot     *)
(* passed, and falls back to Normal from anywhere.  TierFunnel implements it.  *)
(***************************************************************************)
CONSTANT Coins

VARIABLES
    tier,       \* coin -> the tier it is in
    tested      \* coins that passed the backtest in the stay they are in

TiersInit == tier = [c \in Coins |-> "normal"] /\ tested = {}

Stays(c)  == tier'[c] = tier[c]
Enters(c) == tier[c] = "normal" /\ tier'[c] = "hot" /\ c \notin tested'
Climbs(c) == tier[c] = "hot" /\ tier'[c] = "super" /\ c \in tested'
Falls(c)  == tier'[c] = "normal" /\ c \notin tested'

TiersNext ==
    /\ tier' \in [Coins -> {"normal", "hot", "super"}]
    /\ \A c \in Coins : Stays(c) \/ Enters(c) \/ Climbs(c) \/ Falls(c)
    /\ \A c \in tested' \ tested : tier[c] = "hot"

TiersSpec == TiersInit /\ [][TiersNext]_<<tier, tested>>
=============================================================================
