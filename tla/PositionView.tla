---------------------------- MODULE PositionView ----------------------------
(***************************************************************************)
(* What the bot believes of its positions, and what it does on that belief:  *)
(* the rows of the user stream (MarketDataHub._positions), the cache of       *)
(* BinanceExchangeManager, the kept answers of futures_position_information,  *)
(* and the open trades of the database.  The monitor, the periodic            *)
(* reconciliation and the operator's /active close trades the exchange no     *)
(* longer holds; the main loop refuses entries where it sees a position.      *)
(*                                                                         *)
(* One side of every symbol; a quantity is there or not.  A REST call is      *)
(* answered, fails, or is deferred, and then what looks like its answer comes  *)
(* from the rows or the cache.  The claim and the bookkeeping of a close are  *)
(* ClosePipeline's.                                                         *)
(***************************************************************************)
EXTENDS Integers, Sequences, FiniteSets

CONSTANTS
    Symbols,
    Monitor, Ops, Operator, MainLoop,   \* the threads
    MaxOpens,     \* entries of the bot
    MaxBusy,        \* threads in a check at once
    MaxFaults       \* REST calls that fail, and losses of the user stream's connection

ASSUME PositionAssumption ==
    /\ Symbols # {}
    /\ Monitor \notin {Ops, Operator, MainLoop} /\ Ops \notin {Operator, MainLoop}
    /\ Operator # MainLoop
    /\ MaxOpens \in Nat \ {0} /\ MaxFaults \in Nat

VARIABLES
    held,           \* symbols the exchange holds a position of
    events,         \* ACCOUNT_UPDATEs on their way
    trade,          \* symbol -> number of its open trade, 0: none
    fresh,          \* symbols whose trade is within POSITION_GRACE_PERIOD
    entries,        \* entries so far
    rows,           \* MarketDataHub._positions
    heard,          \* _last_user_event_at > 0
    flats,          \* _pending_flat_positions
    cache,          \* _position_cache.positions
    answers,        \* symbol -> _symbol_position_rest_cache
    everything,     \* _all_positions_rest_data
    orphans,        \* _unresolved_orphan_exchange
    at,             \* thread -> where it is
    about,          \* thread -> the symbol it is at
    todo,           \* thread -> symbols still to look at
    record,         \* thread -> symbol -> the trade it read
    seen,           \* thread -> the symbols it takes for held
    faults,
    wasFlat,        \* threads whose symbol was not held at their question or since
    genuine,        \* threads whose last answer was the exchange's
    overlap,        \* rows were cleared by a check that an entry has overtaken, or that
                    \* rests on no answer
    late            \* symbols entered with the close of the last position on its way

tradeVars == <<held, events, trade, fresh, entries>>
viewVars == <<rows, heard, flats, cache, answers, everything, orphans>>
threadVars == <<at, about, todo, record, seen>>
ghostVars == <<wasFlat, genuine, overlap, late>>
positionVars == <<tradeVars, viewVars, threadVars, faults, ghostVars>>

Checkers == {Monitor, Ops, Operator}
Actors   == Checkers \cup {MainLoop}
NoRows  == [s \in Symbols |-> 0]
Unknown == <<>>
NeverAsked == [rows |-> Unknown, young |-> FALSE, before |-> FALSE, genuine |-> FALSE]
Goes(t, label) == at' = [at EXCEPT ![t] = label]
IsAt(t, label) == at[t] = label
Begins(t)      == IsAt(t, "idle") /\ Cardinality({c \in Checkers : ~IsAt(c, "idle")}) < MaxBusy

(* A process that has traded since it was started, or one that was just       *)
(* started and knows its trades from the database only.                      *)
PositionsInit ==
    /\ \E S \in SUBSET Symbols :
          /\ held = S
          /\ trade = [s \in Symbols |-> IF s \in S THEN 1 ELSE 0]
          /\ \/ rows = S /\ cache = S /\ heard = (S # {})
             \/ rows = {} /\ cache = {} /\ heard = FALSE
    /\ events = <<>> /\ fresh = {} /\ entries = 1
    /\ flats = {} /\ orphans = {}
    /\ answers = [s \in Symbols |-> NeverAsked]
    /\ everything = Unknown
    /\ at = [t \in Actors |-> "idle"]
    /\ about = [t \in Actors |-> CHOOSE s \in Symbols : TRUE]
    /\ todo = [t \in Actors |-> {}]
    /\ record = [t \in Actors |-> NoRows]
    /\ seen = [t \in Actors |-> {}]
    /\ faults = 0
    /\ wasFlat = {} /\ genuine = {} /\ overlap = FALSE /\ late = {}
-----------------------------------------------------------------------------
(* The exchange and its user stream.                                         *)
About(s) == {t \in Checkers : about[t] = s /\ at[t] \in {"clear", "mark"}}
Flat(s)  == wasFlat \cup About(s)

CloseOutside(s) ==
    /\ s \in held /\ trade[s] # 0
    /\ held' = held \ {s}
    /\ events' = Append(events, [symbol |-> s, open |-> FALSE])
    /\ wasFlat' = Flat(s)
    /\ UNCHANGED <<trade, fresh, entries, viewVars, threadVars, faults, genuine,
                   overlap, late>>

(* _on_user_message, ACCOUNT_UPDATE: a row that goes is also noted as flat.   *)
OnUserMessage ==
    /\ events # <<>>
    /\ events' = Tail(events)
    /\ heard' = TRUE
    /\ LET s == Head(events).symbol IN
       IF Head(events).open
       THEN rows' = rows \cup {s} /\ UNCHANGED flats
       ELSE rows' = rows \ {s} /\ flats' = IF s \in rows THEN flats \cup {s} ELSE flats
    /\ UNCHANGED <<held, trade, fresh, entries, cache, answers, everything, orphans,
                   threadVars, faults, ghostVars>>

EventsLost ==
    /\ events # <<>> /\ faults < MaxFaults
    /\ faults' = faults + 1
    /\ events' = <<>>
    /\ UNCHANGED <<held, trade, fresh, entries, viewVars, threadVars, ghostVars>>

(* Time: a kept answer serves for POSITION_REST_VERIFY_MIN_INTERVAL at most    *)
(* (60 s with a degraded stream), the grace period of a trade is longer.      *)
AnswerAges(s) ==
    /\ answers[s].young
    /\ answers' = [answers EXCEPT ![s] = [NeverAsked EXCEPT !.rows = answers[s].rows]]
    /\ UNCHANGED <<tradeVars, rows, heard, flats, cache, everything, orphans,
                   threadVars, faults, ghostVars>>

GraceEnds(s) ==
    /\ s \in fresh
    /\ fresh' = fresh \ {s}
    /\ answers' = [answers EXCEPT ![s] =
                      IF answers[s].before THEN [NeverAsked EXCEPT !.rows = answers[s].rows] ELSE @]
    /\ UNCHANGED <<held, events, trade, entries, rows, heard, flats, cache, everything,
                   orphans, threadVars, faults, ghostVars>>
-----------------------------------------------------------------------------
(* What stands for an answer: _cached_futures_position_information.           *)
Local == IF heard THEN rows ELSE cache

(* fetch_symbol_positions_rest.  An urgent call that fails falls back to the   *)
(* kept answer too, however old; one of the executor's may be served by a kept *)
(* one that is young, and any other may also be deferred to Local, which is    *)
(* not about the symbol alone.                                              *)
Told(raw, isGenuine, isKept, fault) ==
    [rows |-> raw, genuine |-> isGenuine, kept |-> isKept, fault |-> fault]
UrgentAnswers(s) ==
    {Told(<<held \cap {s}>>, TRUE, TRUE, 0)}
    \cup (IF faults = MaxFaults THEN {}
          ELSE {Told(Unknown, FALSE, FALSE, 1), Told(answers[s].rows, FALSE, FALSE, 1)})
PriorityAnswers(s) ==
    UrgentAnswers(s)
    \cup (IF answers[s].young THEN {Told(answers[s].rows, answers[s].genuine, FALSE, 0)} ELSE {})
PlainAnswers(s) == PriorityAnswers(s) \cup {Told(<<Local>>, FALSE, TRUE, 0)}

Asks(t, s, answer) ==
    /\ faults' = faults + answer.fault
    /\ answers' = IF answer.kept
                  THEN [answers EXCEPT ![s] = [rows |-> answer.rows, young |-> TRUE,
                                               before |-> FALSE, genuine |-> answer.genuine]]
                  ELSE answers
    /\ genuine' = IF answer.genuine THEN genuine \cup ({t} \cap Checkers) ELSE genuine \ {t}

(* get_position_quantity_rest looks at the side of a row, not at its symbol.  *)
SaysOpen(answer) == answer.rows # Unknown /\ answer.rows[1] # {}
SaysFlat(answer) == answer.rows = <<{}>>

(* fetch_all_open_positions_rest(force=True): an answer, or what stands for   *)
(* one, becomes the cache (_parse_open_positions); an error brings the last.  *)
AllAnswers ==
    {[rows |-> <<S>>, parsed |-> TRUE, fault |-> 0] : S \in {held, Local}}
    \cup (IF faults = MaxFaults THEN {}
          ELSE {[rows |-> everything, parsed |-> FALSE, fault |-> 1],
                [rows |-> Unknown, parsed |-> FALSE, fault |-> 1]})

(* get_all_open_positions, _refresh_positions_cache and                       *)
(* _merge_ws_positions_into_cache: rows are added to the cache, never taken.  *)
Refreshed(kept) ==
    {IF heard /\ rows # {} THEN rows \cup kept ELSE kept}
    \cup (IF heard /\ rows \cup kept # {} THEN {} ELSE {held, IF heard THEN rows ELSE kept})
-----------------------------------------------------------------------------
(* A check of one trade: its grace, an answer, and what follows from it.      *)
InGraceNever(s, number) == FALSE                                  \* mutant
InGrace(s, number) == s \in fresh /\ number = trade[s]

(* drain_pending_flat_positions, _process_pending_flat_positions.             *)
DrainFlats ==
    /\ Begins(Monitor) /\ flats # {}
    /\ todo' = [todo EXCEPT ![Monitor] = {s \in flats : trade[s] # 0}]
    /\ record' = [record EXCEPT ![Monitor] = trade]
    /\ flats' = {}
    /\ Goes(Monitor, "inspect")
    /\ UNCHANGED <<tradeVars, rows, heard, cache, answers, everything, orphans, about,
                   seen, faults, ghostVars>>

(* A trade whose quantity is nowhere to be seen, past its grace.              *)
MissPosition(s) ==
    /\ Begins(Monitor)
    /\ trade[s] # 0 /\ s \notin rows \cup cache /\ ~InGrace(s, trade[s])
    /\ todo' = [todo EXCEPT ![Monitor] = {s}]
    /\ record' = [record EXCEPT ![Monitor] = trade]
    /\ Goes(Monitor, "confirm")
    /\ UNCHANGED <<tradeVars, viewVars, about, seen, faults, ghostVars>>

(* The snapshot a reconciliation starts from; only the first one of a process *)
(* asks for it.                                                             *)
Snapshot(t, S) ==
    /\ seen' = [seen EXCEPT ![t] = S]
    /\ Goes(t, "list")

Reconcile ==
    /\ Begins(Ops)
    /\ \/ \E S \in Refreshed(cache) :
             Snapshot(Ops, S) /\ cache' = S /\ UNCHANGED <<everything, faults>>
       \/ /\ ~heard
          /\ \E a \in AllAnswers :
                /\ a.rows # Unknown /\ Snapshot(Ops, a.rows[1])
                /\ cache' = IF a.parsed THEN a.rows[1] ELSE cache
                /\ everything' = IF a.parsed THEN a.rows ELSE everything
                /\ faults' = faults + a.fault
    /\ UNCHANGED <<tradeVars, rows, heard, flats, answers, orphans, about, todo, record,
                   ghostVars>>

(* sync_active_trades_on_demand: what the answer holds is seeded, an empty or  *)
(* missing one gives way to the caches.                                     *)
SyncOnDemand ==
    /\ Begins(Operator)
    /\ \E a \in AllAnswers :
          /\ faults' = faults + a.fault
          /\ everything' = IF a.parsed THEN a.rows ELSE everything
          /\ LET kept == IF a.parsed THEN a.rows[1] ELSE cache IN
             IF a.rows # Unknown /\ a.rows[1] # {}
             THEN /\ Snapshot(Operator, a.rows[1])
                  /\ rows' = rows \cup a.rows[1] /\ heard' = TRUE
                  /\ cache' = kept \cup a.rows[1]
             ELSE /\ \E S \in Refreshed(kept) : Snapshot(Operator, S) /\ cache' = S
                  /\ UNCHANGED <<rows, heard>>
    /\ UNCHANGED <<tradeVars, flats, answers, orphans, about, todo, record, ghostVars>>

ListTrades(t) ==
    /\ IsAt(t, "list")
    /\ record' = [record EXCEPT ![t] = trade]
    /\ todo' = [todo EXCEPT ![t] = {s \in Symbols : trade[s] # 0} \ seen[t]]
    /\ seen' = [seen EXCEPT ![Operator] = IF t = Operator THEN {} ELSE @]
    /\ Goes(t, IF t = Ops THEN "confirm" ELSE "ask")
    /\ UNCHANGED <<tradeVars, viewVars, about, faults, ghostVars>>
-----------------------------------------------------------------------------
(* The next trade of a round.  The monitor's inspection knows no grace.       *)
Spare(t, s) ==
    /\ at[t] \in {"confirm", "ask"} /\ s \in todo[t]
    /\ InGrace(s, record[t][s])
    /\ todo' = [todo EXCEPT ![t] = @ \ {s}]
    /\ UNCHANGED <<tradeVars, viewVars, at, about, record, seen, faults, ghostVars>>

Take(t, s) ==
    /\ s \in todo[t]
    /\ at[t] = "inspect" \/ ~InGrace(s, record[t][s])
    /\ todo' = [todo EXCEPT ![t] = @ \ {s}]
    /\ about' = [about EXCEPT ![t] = s]
    /\ wasFlat' = IF s \in held THEN wasFlat \ {t} ELSE wasFlat \cup {t}

(* _inspect_exchange_position_qty and rest_position_quantity(urgent): 0 means  *)
(* that the exchange confirms.  _reconcile_exchange_flat clears the caches    *)
(* before it marks the trade, confirm_external_close_allowed leaves that to   *)
(* the close.                                                               *)
AskUrgently(t, s) ==
    /\ at[t] \in {"inspect", "confirm"}
    /\ Take(t, s)
    /\ \E a \in UrgentAnswers(s) :
          /\ Asks(t, s, a)
          /\ Goes(t, IF ~SaysFlat(a) THEN at[t] ELSE IF at[t] = "inspect" THEN "clear" ELSE "mark")
    /\ UNCHANGED <<tradeVars, rows, heard, flats, cache, everything, orphans, record,
                   seen, overlap, late>>

(* The operator's question is not urgent; a position it finds is seeded.      *)
AskOnDemand(s) ==
    /\ IsAt(Operator, "ask")
    /\ Take(Operator, s)
    /\ \E a \in PlainAnswers(s) :
          /\ Asks(Operator, s, a)
          /\ Goes(Operator, IF SaysFlat(a) THEN "mark" ELSE "ask")
          /\ IF SaysOpen(a)
             THEN rows' = rows \cup {s} /\ heard' = TRUE /\ cache' = cache \cup {s}
             ELSE UNCHANGED <<rows, heard, cache>>
    /\ UNCHANGED <<tradeVars, flats, everything, orphans, record, seen, overlap, late>>

(* clear_position_cache and clear_position.                                  *)
ClearRows(s) == rows' = rows \ {s} /\ cache' = cache \ {s}

ClearPosition(t) ==
    /\ IsAt(t, "clear")
    /\ ClearRows(about[t])
    /\ overlap' = (overlap \/ t \notin genuine \/ trade[about[t]] # record[t][about[t]])
    /\ Goes(t, "mark")
    /\ UNCHANGED <<tradeVars, heard, flats, answers, everything, orphans, about, todo,
                   record, seen, faults, wasFlat, genuine, late>>

(* _mark_trade_closed: a trade that is closed already stays as it is.         *)
MarkClosed(t) ==
    /\ IsAt(t, "mark")
    /\ IF trade[about[t]] = record[t][about[t]]
       THEN /\ trade' = [trade EXCEPT ![about[t]] = 0]
            /\ fresh' = fresh \ {about[t]}
            /\ ClearRows(about[t])
       ELSE UNCHANGED <<trade, fresh, rows, cache>>
    /\ Goes(t, CASE t = Monitor -> "inspect" [] t = Ops -> "confirm" [] OTHER -> "ask")
    /\ wasFlat' = wasFlat \ {t} /\ genuine' = genuine \ {t}
    /\ UNCHANGED <<held, events, entries, heard, flats, answers, everything, orphans,
                   about, todo, record, seen, faults, overlap, late>>

(* A round ends; a reconciliation leaves the positions without a trade as     *)
(* orphans, by the trades it read.                                          *)
EndRound(t) ==
    /\ at[t] \in {"inspect", "confirm", "ask"} /\ todo[t] = {}
    /\ orphans' = IF t = Ops THEN {s \in seen[Ops] : record[Ops][s] = 0} ELSE orphans
    /\ Goes(t, "idle")
    /\ seen' = [seen EXCEPT ![t] = {}]
    /\ record' = [record EXCEPT ![t] = NoRows]
    /\ genuine' = genuine \ {t} /\ wasFlat' = wasFlat \ {t}
    /\ about' = [about EXCEPT ![t] = CHOOSE s \in Symbols : TRUE]
    /\ UNCHANGED <<tradeVars, rows, heard, flats, cache, answers, everything, todo,
                   faults, overlap, late>>
-----------------------------------------------------------------------------
(* An entry: PortfolioAllocator.approve and the executor ask the same question *)
(* (symbol_blocked_for_new_entry), the executor with priority.               *)
Sees(s) == s \in rows \cup cache

AskForEntry(s, possible, label) ==
    /\ trade[s] = 0
    /\ \E a \in possible :
          /\ Asks(MainLoop, s, a)
          /\ Goes(MainLoop, IF SaysOpen(a) \/ Sees(s) THEN "idle" ELSE label)
    /\ about' = [about EXCEPT ![MainLoop] = s]

Approve(s) ==
    /\ IsAt(MainLoop, "idle") /\ entries < MaxOpens /\ orphans = {}
    /\ AskForEntry(s, PlainAnswers(s), "approved")
    /\ UNCHANGED <<tradeVars, rows, heard, flats, cache, everything, orphans, todo,
                   record, seen, wasFlat, overlap, late>>

Execute ==
    /\ IsAt(MainLoop, "approved")
    /\ AskForEntry(about[MainLoop], PriorityAnswers(about[MainLoop]), "order")
    /\ UNCHANGED <<tradeVars, rows, heard, flats, cache, everything, orphans, todo,
                   record, seen, wasFlat, overlap, late>>

Fill ==
    /\ IsAt(MainLoop, "order")
    /\ held' = held \cup {about[MainLoop]}
    /\ events' = Append(events, [symbol |-> about[MainLoop], open |-> TRUE])
    /\ answers' = [answers EXCEPT ![about[MainLoop]].before = answers[about[MainLoop]].young]
    /\ Goes(MainLoop, "filled")
    /\ UNCHANGED <<trade, fresh, entries, rows, heard, flats, cache, everything,
                   orphans, about, todo, record, seen, faults, ghostVars>>

(* The row first, then seed_position_after_fill: the hub's row and the cache.  *)
LogTrade ==
    /\ IsAt(MainLoop, "filled")
    /\ entries' = entries + 1
    /\ trade' = [trade EXCEPT ![about[MainLoop]] = entries + 1]
    /\ fresh' = fresh \cup {about[MainLoop]}
    /\ Goes(MainLoop, "logged")
    /\ UNCHANGED <<held, events, viewVars, about, todo, record, seen, faults,
                   ghostVars>>

SeedsCacheOnly(s) == cache' = cache \cup {s} /\ UNCHANGED <<rows, heard>>  \* mutant
Seeds(s) == cache' = cache \cup {s} /\ rows' = rows \cup {s} /\ heard' = TRUE

SeedPosition ==
    /\ IsAt(MainLoop, "logged")
    /\ Seeds(about[MainLoop])
    /\ Goes(MainLoop, "idle")
    /\ late' = IF \E i \in DOMAIN events : events[i] = [symbol |-> about[MainLoop], open |-> FALSE]
               THEN late \cup {about[MainLoop]} ELSE late \ {about[MainLoop]}
    /\ UNCHANGED <<tradeVars, flats, answers, everything, orphans, about, todo, record,
                   seen, faults, wasFlat, genuine, overlap>>
-----------------------------------------------------------------------------
CheckStep(t) ==
    \/ ListTrades(t) \/ (\E s \in Symbols : Spare(t, s) \/ AskUrgently(t, s))
    \/ ClearPosition(t) \/ MarkClosed(t) \/ EndRound(t)

PositionsNext ==
    \/ \E s \in Symbols : CloseOutside(s) \/ AnswerAges(s) \/ GraceEnds(s)
    \/ OnUserMessage \/ EventsLost
    \/ DrainFlats \/ (\E s \in Symbols : MissPosition(s))
    \/ Reconcile \/ SyncOnDemand
    \/ \E s \in Symbols : AskOnDemand(s)
    \/ \E t \in Checkers : CheckStep(t)
    \/ (\E s \in Symbols : Approve(s)) \/ Execute \/ Fill \/ LogTrade \/ SeedPosition
-----------------------------------------------------------------------------
PositionsTypeOK ==
    /\ UNION {held, fresh, rows, flats, cache, orphans} \subseteq Symbols
    /\ \A i \in DOMAIN events : events[i] \in [symbol: Symbols, open: BOOLEAN]
    /\ trade \in [Symbols -> 0 .. MaxOpens] /\ entries \in 1 .. MaxOpens
    /\ at \in [Actors -> {"idle", "inspect", "confirm", "ask", "clear", "mark", "list",
                          "approved", "order", "filled", "logged"}]
    /\ about \in [Actors -> Symbols] /\ todo \in [Actors -> SUBSET Symbols]
    /\ faults \in 0 .. MaxFaults

(* "REST confirms positionAmt == 0" (get_position_quantity_rest): no trade is  *)
(* closed as gone whose position is open since the question.                   *)
Condemns(t) ==
    at[t] \in {"clear", "mark"} /\ trade[about[t]] = record[t][about[t]]
FlatConfirmed == \A t \in Checkers : Condemns(t) => t \in wasFlat

(* So it is while the answer, or the kept one that served for it, was the      *)
(* exchange's: no grace ends while an answer from before the entry serves.    *)
AnsweredClosesFlat ==
    \A t \in Checkers : Condemns(t) /\ t \in genuine => t \in wasFlat

(* A position this process entered is in sight whatever answers and snapshots  *)
(* of before the entry still come, and whether or not its own event does: only *)
(* the late close event of an earlier position may hide it, until the stream    *)
(* has told the rest.                                                       *)
OpenIsSeen ==
    ~overlap =>
        \A s \in held :
            /\ trade[s] > 1 /\ ~(IsAt(MainLoop, "logged") /\ about[MainLoop] = s)
            /\ s \in late => events = <<>> /\ faults = 0
            => Sees(s)
=============================================================================
