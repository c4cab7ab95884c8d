------------------------------ MODULE MCTrades -------------------------------
(* An open trade, for TLC: what the bot takes the exchange's positions to be,  *)
(* and the adds to a trade.  The two modules share no state (a position is     *)
(* there or not, whatever its size), so a behaviour is about one of them,      *)
(* chosen at its start.                                                      *)
EXTENDS PositionView, DcaAdds, TLC

VARIABLE part
tradesVars == <<part, positionVars, addVars>>

MonitorSymmetry == Permutations(Monitors)

(* The adds do not depend on the positions: theirs start without any.         *)
TradesInit ==
    /\ part \in {"positions", "adds"}
    /\ PositionsInit /\ AddsInit
    /\ part = "adds" => held = {} /\ rows = {}

TradesNext ==
    /\ \/ part = "positions" /\ PositionsNext /\ UNCHANGED addVars
       \/ part = "adds" /\ AddsNext /\ UNCHANGED positionVars
    /\ UNCHANGED part

TradesSpec == TradesInit /\ [][TradesNext]_tradesVars

(* What a thread took for flat is set anew by its next question, and a kept    *)
(* answer that is old serves a call that fails, as long as one still may.      *)
Judging    == {t \in Checkers : at[t] \in {"clear", "mark"}}
MayFail    == faults < MaxFaults
Kept       == [s \in Symbols |-> IF answers[s].young \/ MayFail THEN answers[s] ELSE NeverAsked]
TradesView == IF part = "positions"
              THEN <<tradeVars, threadVars, rows, heard, flats, cache, orphans, faults, Kept,
                     IF MayFail THEN everything ELSE Unknown,
                     wasFlat \cap Judging, genuine \cap Judging, overlap, late>>
              ELSE <<addVars>>

(* The part that a behaviour is not about stays as it began.                  *)
TradesTypesOK == IF part = "positions" THEN PositionsTypeOK ELSE AddsTypeOK

(* For a counterexample about the positions alone, or the adds alone.         *)
PositionsAlone == TradesInit /\ part = "positions" /\ [][TradesNext]_tradesVars
AddsAlone      == TradesInit /\ part = "adds" /\ [][TradesNext]_tradesVars
=============================================================================
