------------------------------- MODULE MCCloses ------------------------------
(* The close of a trade, for TLC: who may close it (ClosePipeline) and what    *)
(* its close puts into the books (ProfitBooking).  The two modules share no    *)
(* state, so a behaviour is about one of them, chosen at its start.           *)
EXTENDS MCClosePipeline, ProfitBooking

VARIABLE part
closesVars == <<part, vars, profitVars>>

PieceSymmetry == Permutations(Pieces)

(* The part that a behaviour is not about stays as it began.                  *)
ClosesView == IF part = "close" THEN WithoutFills ELSE <<profitVars>>

ClosesInit == part \in {"close", "profit"} /\ Init /\ ProfitInit

ClosesNext ==
    /\ \/ part = "close" /\ Next /\ UNCHANGED profitVars
       \/ part = "profit" /\ ProfitNext /\ UNCHANGED vars
    /\ UNCHANGED part

ClosesSpec == ClosesInit /\ [][ClosesNext]_closesVars
=============================================================================
