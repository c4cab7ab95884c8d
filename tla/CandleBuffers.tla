---------------------------- MODULE CandleBuffers ---------------------------
(***************************************************************************)
(* The candles of one symbol and interval in MarketDataHub: the buffer of     *)
(* the websocket (_kline_bars), the history of closed bars (_backtest_bars)   *)
(* and the mark of a series that needs no REST seed (_bootstrapped_pairs).    *)
(* Frames arrive in order, REST answers whenever they come: a seed is         *)
(* fetched, stored and marked in three steps, and the symbol may be demoted   *)
(* in between.                                                              *)
(*                                                                         *)
(* A bar is its number and whether it has its closing values.  _candles       *)
(* repeats the tail of _kline_bars and is left out; the floor of ten bars is   *)
(* one here.  Pacing, budgets and bans only keep a fetch from being made.      *)
(***************************************************************************)
EXTENDS Integers, Sequences, FiniteSets

CONSTANTS
    Bootstrappers,  \* threads that seed a series and mark it
    Validators,     \* threads that seed a series to backtest it
    Need,           \* WS_KLINE_BOOTSTRAP_MIN_BARS
    Depth,          \* what a fetch asks for and a buffer holds
    FirstBar,       \* the bar that forms when the bot starts
    LastBar,        \* the last bar that forms
    MaxFrames       \* frames that wait to be handled

(* A page and a buffer hold what counts as enough (config.py:279, 1107; the    *)
(* defaults are 250 and 500), and the exchange has that many bars of the       *)
(* symbol: a younger listing is outside the model.                           *)
ASSUME CandlesAssumption ==
    /\ Need \in Nat \ {0} /\ Depth \in Nat /\ Need <= Depth
    /\ FirstBar \in Nat /\ Need <= FirstBar
    /\ LastBar \in Nat /\ FirstBar <= LastBar

VARIABLES
    bar,            \* the bar that forms
    listed,         \* the stream is subscribed
    frames,         \* websocket frames not yet handled
    klineBars, history, bootstrapped,
    fetch,          \* thread -> where its fetch is
    rows            \* thread -> the bars it has

bufferVars == <<klineBars, history, bootstrapped>>
candleVars == <<bar, listed, frames, bufferVars, fetch, rows>>

Fetchers == Bootstrappers \cup Validators
Bar(t)  == [t |-> t, final |-> t < bar]
Uncapped(s) == s                                                  \* mutant
Capped(s) == SubSeq(s, IF Len(s) > Depth THEN Len(s) - Depth + 1 ELSE 1, Len(s))
Newest(s) == s[Len(s)].t

CandlesInit ==
    /\ bar = FirstBar /\ listed = FALSE /\ frames = <<>>
    /\ klineBars = <<>> /\ history = <<>> /\ bootstrapped = FALSE
    /\ fetch = [f \in Fetchers |-> "none"]
    /\ rows = [f \in Fetchers |-> <<>>]

(* merge_closed_kline_bars and merge_ohlcv_frames: by open time, the second   *)
(* one's bar where both have it.                                            *)
Numbers(s) == {s[i].t : i \in DOMAIN s}
Ordered(T) ==
    CHOOSE q \in [1 .. Cardinality(T) -> T] : \A i, j \in DOMAIN q : i < j => q[i] < q[j]
BarOf(s, t) == s[CHOOSE i \in DOMAIN s : s[i].t = t]
Merged(old, new) ==
    LET T == Ordered(Numbers(old) \cup Numbers(new))
    IN  [i \in DOMAIN T |-> IF T[i] \in Numbers(new) THEN BarOf(new, T[i]) ELSE BarOf(old, T[i])]

(* get_candles_cached_only: the longest it has.                              *)
Cached == IF Len(history) >= Len(klineBars) THEN history ELSE klineBars
-----------------------------------------------------------------------------
(* The exchange: the bar that forms changes and closes; frames are lost with  *)
(* the connection.                                                          *)
BarTicks ==
    /\ listed /\ Len(frames) < MaxFrames
    /\ frames' = Append(frames, Bar(bar))
    /\ UNCHANGED <<bar, listed, bufferVars, fetch, rows>>

BarCloses ==
    /\ bar < LastBar /\ bar' = bar + 1
    /\ \/ listed /\ Len(frames) < MaxFrames
          /\ frames' = Append(frames, [t |-> bar, final |-> TRUE])
       \/ UNCHANGED frames
    /\ UNCHANGED <<listed, bufferVars, fetch, rows>>

(* _on_kline_message and merge_closed_kline_bar.                             *)
Replaced(s, row) ==
    IF s # <<>> /\ Newest(s) = row.t THEN [s EXCEPT ![Len(s)] = row]
    ELSE Capped(Append(s, row))
Upserted(s, row) ==
    IF s # <<>> /\ Newest(s) > row.t THEN Capped(Merged(s, <<row>>))
    ELSE Replaced(s, row)

OnKline ==
    /\ frames # <<>>
    /\ frames' = Tail(frames)
    /\ klineBars' = Replaced(klineBars, Head(frames))
    /\ history' = IF Head(frames).final THEN Upserted(history, Head(frames)) ELSE history
    /\ UNCHANGED <<bar, listed, bootstrapped, fetch, rows>>
-----------------------------------------------------------------------------
Subscribe ==
    /\ ~listed /\ listed' = TRUE
    /\ UNCHANGED <<bar, frames, bufferVars, fetch, rows>>

(* demote_symbols_klines drops the buffer and the mark, not the history.      *)
DroppedAll == <<>>                                                \* mutant
KeptHistory == history

DemoteSymbol ==
    /\ listed /\ listed' = FALSE
    /\ klineBars' = <<>> /\ bootstrapped' = FALSE
    /\ history' = KeptHistory
    /\ UNCHANGED <<bar, frames, fetch, rows>>

(* _pending_bootstrap_pairs: a long enough cache marks the series.            *)
Satisfied ==
    /\ listed /\ ~bootstrapped /\ Len(Cached) >= Need
    /\ bootstrapped' = TRUE
    /\ UNCHANGED <<bar, listed, frames, klineBars, history, fetch, rows>>

StartFetch(f) ==
    /\ fetch[f] = "none" /\ listed
    /\ f \in Bootstrappers => ~bootstrapped /\ Len(Cached) < Need
    /\ fetch' = [fetch EXCEPT ![f] = "asked"]
    /\ rows' = [rows EXCEPT ![f] = Cached]
    /\ UNCHANGED <<bar, listed, frames, bufferVars>>

(* _fetch_bootstrap_klines_direct: what was cached with an older page, and     *)
(* the latest bars when that is too short or nothing was cached.  The latest  *)
(* of them is still forming.                                                *)
Page(from, to) == [i \in 1 .. (IF to >= from THEN to - from + 1 ELSE 0) |-> Bar(from + i - 1)]
Back(t, n) == IF t - n + 1 > 1 THEN t - n + 1 ELSE 1
Latest == Page(Back(bar, Depth), bar)
Answer(have) ==
    LET oldest == have[1].t
        paged  == Merged(have, Page(Back(oldest - 1, Depth - Len(have)), oldest - 1))
    IN  IF have = <<>> THEN Latest
        ELSE IF Len(have) >= Need \/ Len(paged) >= Need THEN paged
        ELSE Merged(paged, Latest)

Fetched(f) ==
    /\ fetch[f] = "asked"
    /\ \/ /\ fetch' = [fetch EXCEPT ![f] = "seed"]
          /\ rows' = [rows EXCEPT ![f] = Capped(Answer(@))]
       \/ /\ fetch' = [fetch EXCEPT ![f] = "none"]
          /\ rows' = [rows EXCEPT ![f] = <<>>]
    /\ UNCHANGED <<bar, listed, frames, bufferVars>>

(* seed_klines_from_dataframe: every row counts as closed.                    *)
Seed(f) ==
    /\ fetch[f] = "seed"
    /\ klineBars' = rows[f]
    /\ history' = Capped(Merged(history, rows[f]))
    /\ fetch' = [fetch EXCEPT ![f] = IF f \in Bootstrappers THEN "mark" ELSE "none"]
    /\ UNCHANGED <<bar, listed, frames, bootstrapped, rows>>

Mark(f) ==
    /\ fetch[f] = "mark"
    /\ bootstrapped' = (bootstrapped \/ Len(rows[f]) >= Need)
    /\ fetch' = [fetch EXCEPT ![f] = "none"]
    /\ rows' = [rows EXCEPT ![f] = <<>>]
    /\ UNCHANGED <<bar, listed, frames, klineBars, history>>
-----------------------------------------------------------------------------
CandlesNext ==
    \/ BarTicks \/ BarCloses \/ OnKline
    \/ Subscribe \/ DemoteSymbol \/ Satisfied
    \/ \E f \in Fetchers : StartFetch(f) \/ Fetched(f) \/ Seed(f) \/ Mark(f)
-----------------------------------------------------------------------------
Bars == [t: 1 .. LastBar, final: BOOLEAN]
CandlesTypeOK ==
    /\ bar \in FirstBar .. LastBar /\ listed \in BOOLEAN /\ bootstrapped \in BOOLEAN
    /\ {Len(klineBars), Len(history)} \subseteq 0 .. Depth
    /\ \A s \in {klineBars, history, frames} \cup {rows[f] : f \in Fetchers} :
          \A i \in DOMAIN s : s[i] \in Bars
    /\ fetch \in [Fetchers -> {"none", "asked", "seed", "mark"}]

(* A series that counts as bootstrapped, and so gets no REST seed any more,   *)
(* can be read at the length that needs none, even when the symbol was        *)
(* demoted between the seed and its mark.                                   *)
BootstrappedHasBars == bootstrapped => Len(Cached) >= Need
=============================================================================
