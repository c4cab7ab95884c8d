--------------------------- MODULE MCNativeStops ----------------------------
(* NativeStops for TLC: levels 1 to 3 with the entry at 3: two stops on the       *)
(* protective side of the entry, one that is not.                           *)
EXTENDS NativeStops

(* Order ids matter by their order and by whether they are still open: an    *)
(* id that is gone never comes back, and a list of such ids only matters by  *)
(* not being empty.  States that agree up to that are one state to TLC.     *)
Rank(i)   == IF i \in Ids THEN Cardinality({j \in Ids : j <= i}) ELSE 0
Ranks(is) == {Rank(i) : i \in is}
ById(r)   == [r EXCEPT !.id = Rank(@)]
UpToIds ==
    <<ById(row), {ById(s) : s \in stops}, Rank(newest), newest = 0, pc,
      [c \in Callers |-> ById(held[c])],
      [c \in Callers |-> [call[c] EXCEPT !.id = Rank(@), !.old = Rank(@),
          !.new = Rank(@), !.seen = Ranks(@), !.stale = Ranks(@)]],
      booted, asked, moves, failures, crashes>>
=============================================================================
