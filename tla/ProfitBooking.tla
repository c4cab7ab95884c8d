---------------------------- MODULE ProfitBooking ----------------------------
(***************************************************************************)
(* The profit of one trade on its way into the books: the fills the exchange *)
(* reports (FillPnlTracker, userTrades, income), the pnl of the trade's row   *)
(* and the total of the day.  The close worker, the threads that find the     *)
(* position gone, the watchdog and the operator's reports write them, each in *)
(* transactions of its own.                                                 *)
(*                                                                         *)
(* A position is a set of lots, each of which earns 1 when it is sold, so a   *)
(* profit is a number of lots.  What a claim and the mutex of the close admit *)
(* is ClosePipeline's; the claim does not run out here under its holder.      *)
(***************************************************************************)
EXTENDS Integers, FiniteSets

CONSTANTS
    Pieces,           \* of the position at entry
    Closers,        \* threads of the main process that close what is gone
    Worker, Watchdog, Report,
    MaxGaps         \* restarts, and losses of the user stream's connection

ASSUME ProfitAssumption ==
    /\ IsFiniteSet(Pieces)
    /\ MaxGaps \in Nat
    /\ Cardinality({Worker, Watchdog, Report}) = 3
    /\ Closers \cap {Worker, Watchdog, Report} = {}

VARIABLES
    sold,           \* lots sold
    onWay,          \* sold lots whose ORDER_TRADE_UPDATE is on its way
    tracked,          \* sold lots in FillPnlTracker
    result,         \* the trade's row: closed or not, and its pnl
    day,            \* daily_stats.total_pnl
    closeClaim,     \* owner of the exit claim
    step,           \* thread -> where it is
    job,            \* thread -> what it has read and resolved
    gaps,
    guessed,        \* a result was estimated from the market price
    behind          \* the last sync of the day was overtaken, or died

fillVars == <<sold, onWay, tracked>>
bookVars == <<result, day, behind>>
profitVars == <<fillVars, bookVars, closeClaim, step, job, gaps, guessed>>

MainBookers == Closers \cup {Worker}
Bookers     == MainBookers \cup {Watchdog, Report}
Size        == Cardinality(Pieces)

NoJob == [order |-> {}, partial |-> FALSE, prior |-> 0, leg |-> 0, total |-> 0,
          delta |-> 0, books |-> FALSE, closing |-> FALSE, day |-> 0]

Stands(t, label)  == step[t] = label
MovesTo(t, label) == step' = [step EXCEPT ![t] = label]
Rests(t)      == MovesTo(t, "idle") /\ job' = [job EXCEPT ![t] = NoJob]

ProfitInit ==
    /\ sold = {} /\ onWay = {} /\ tracked = {}
    /\ result = [closed |-> FALSE, pnl |-> 0]
    /\ day = 0
    /\ closeClaim = "none"
    /\ step = [t \in Bookers |-> "idle"]
    /\ job = [t \in Bookers |-> NoJob]
    /\ gaps = 0
    /\ guessed = FALSE /\ behind = FALSE
-----------------------------------------------------------------------------
(* The exchange, its user stream, and restarts.                              *)
Sell(S) ==
    /\ S # {}
    /\ sold' = sold \cup S
    /\ onWay' = onWay \cup S
    /\ UNCHANGED tracked

SellOutside(S) ==
    /\ Sell(S)
    /\ UNCHANGED <<bookVars, closeClaim, step, job, gaps, guessed>>

(* _record_order_trade_update: an order is told of in several messages;       *)
(* FillPnlTracker.record adds each to what it knows of the order.            *)
RecordFill(lot) ==
    /\ lot \in onWay
    /\ tracked' = tracked \cup {lot}
    /\ onWay' = onWay \ {lot}
    /\ UNCHANGED <<sold, bookVars, closeClaim, step, job, gaps, guessed>>

FillsLost ==
    /\ onWay # {} /\ gaps < MaxGaps
    /\ gaps' = gaps + 1
    /\ onWay' = {}
    /\ UNCHANGED <<sold, tracked, bookVars, closeClaim, step, job, guessed>>

(* A process dies and starts again: the tracker is empty, the claim stays.    *)
Booking(t) == step[t] \in {"add", "read", "write"}

Restart(process) ==
    /\ gaps < MaxGaps /\ \E t \in process : ~Stands(t, "idle")
    /\ gaps' = gaps + 1
    /\ step' = [t \in Bookers |-> IF t \in process THEN "idle" ELSE step[t]]
    /\ job' = [t \in Bookers |-> IF t \in process THEN NoJob ELSE job[t]]
    /\ IF Worker \in process THEN tracked' = {} /\ onWay' = {} ELSE UNCHANGED <<tracked, onWay>>
    /\ behind' = (behind \/ \E t \in process : Booking(t))
    /\ UNCHANGED <<sold, result, day, closeClaim, guessed>>

ClaimExpires ==
    /\ \/ closeClaim \in {"main", "close_pipeline"} /\ \A t \in MainBookers : Stands(t, "idle")
       \/ closeClaim = "watchdog" /\ Stands(Watchdog, "idle")
    /\ closeClaim' = "none"
    /\ UNCHANGED <<fillVars, bookVars, step, job, gaps, guessed>>
-----------------------------------------------------------------------------
(* What a profit is resolved to; 0 stands for an answer that is missing.      *)

(* resolve_order_fill_pnl: what is tracked of the order when the first of it   *)
(* was, else REST.  The watchdog has no user stream.                         *)
Hears(t) == t # Watchdog
LegAnswers(t) ==
    IF Hears(t) /\ tracked \cap job[t].order # {}
    THEN {Cardinality(tracked \cap job[t].order)}
    ELSE {0, Cardinality(job[t].order)}

(* fetch_closed_position_realized_pnl: what is tracked of the trade, else      *)
(* userTrades and income.                                                   *)
LifecycleAnswers(t) ==
    IF Hears(t) /\ tracked # {}
    THEN {Cardinality(tracked)}
    ELSE {0, Cardinality(sold)}

(* estimate_trade_pnl: what is booked already, else the whole quantity at a   *)
(* market price that is off, or missing.                                    *)
Made(n)    == [profit |-> n, guess |-> FALSE]
Guessed(n) == [profit |-> n, guess |-> TRUE]
Estimates(booked) == IF booked # 0 THEN {Made(booked)} ELSE {Made(0), Guessed(Size + 1)}

(* resolve_exchange_close_pnl.                                              *)
Profits(t, booked) ==
    {Made(n) : n \in LifecycleAnswers(t) \ {0}}
    \cup (IF 0 \in LifecycleAnswers(t) THEN Estimates(booked) ELSE {})

(* _resolve_full_close_pnl: the trade's profit replaces what was booked of it *)
(* before, the leg adds to that.                                            *)
FullProfitsAdded(t) ==                                            \* mutant
    {Made(job[t].prior + n) : n \in LifecycleAnswers(t) \ {0}}
    \cup (IF 0 \in LifecycleAnswers(t) THEN {Made(job[t].prior + job[t].leg)} ELSE {})
FullProfits(t) ==
    {Made(n) : n \in LifecycleAnswers(t) \ {0}}
    \cup (IF 0 \notin LifecycleAnswers(t) THEN {}
          ELSE IF job[t].leg # 0 \/ t = Watchdog THEN {Made(job[t].prior + job[t].leg)}
          ELSE Profits(t, job[t].prior))
-----------------------------------------------------------------------------
(* _execute_close_order, from the row it reads to what it has resolved.       *)
TakeJob(partial) ==
    /\ Stands(Worker, "idle") /\ closeClaim = "none" /\ ~result.closed
    /\ closeClaim' = "main"
    /\ job' = [job EXCEPT ![Worker] = [NoJob EXCEPT !.partial = partial, !.prior = result.pnl]]
    /\ MovesTo(Worker, "order")
    /\ UNCHANGED <<fillVars, bookVars, gaps, guessed>>

(* A partial close sells a lot, a full one what is left.                     *)
Quantity(t, S) == IF job[t].partial THEN Cardinality(S) = 1 ELSE S = Pieces \ sold

WorkerSells(S) ==
    /\ Stands(Worker, "order") /\ Quantity(Worker, S)
    /\ Sell(S)
    /\ job' = [job EXCEPT ![Worker].order = S]
    /\ MovesTo(Worker, "leg")
    /\ UNCHANGED <<bookVars, closeClaim, gaps, guessed>>

(* -2022, or failed in every try: what is gone is closed as the closers do.    *)
WorkerFindsNothing ==
    /\ Stands(Worker, "order")
    /\ \/ sold = Pieces /\ MovesTo(Worker, "gone") /\ UNCHANGED <<job, closeClaim>>
       \/ Rests(Worker) /\ closeClaim' = "none"
    /\ UNCHANGED <<fillVars, bookVars, gaps, guessed>>

ResolveLeg(t) ==
    /\ Stands(t, "leg")
    /\ \E n \in LegAnswers(t) : job' = [job EXCEPT ![t].leg = n]
    /\ MovesTo(t, "total")
    /\ UNCHANGED <<fillVars, bookVars, closeClaim, gaps, guessed>>

(* A partial close after which nothing seems left counts as a full one; the   *)
(* quantity may be older than the last sale.                                *)
CountsAsFull(t) == IF job[t].partial /\ t = Worker /\ sold = Pieces
                   THEN BOOLEAN ELSE {~job[t].partial}

ResolveTotal(t) ==
    /\ Stands(t, "total")
    /\ \E full \in CountsAsFull(t) :
       \E p \in IF full THEN FullProfits(t) ELSE {Made(job[t].prior + job[t].leg)} :
          /\ job' = [job EXCEPT ![t] = [NoJob EXCEPT !.partial = job[t].partial, !.total = p.profit,
                                                   !.delta = p.profit - job[t].prior]]
          /\ guessed' = (guessed \/ p.guess)
    /\ MovesTo(t, IF t = Watchdog /\ ~job[t].partial THEN "mark" ELSE "row")
    /\ UNCHANGED <<fillVars, bookVars, closeClaim, gaps>>

(* update_trade, which asks for no status; the watchdog's sets that of the     *)
(* level too.                                                               *)
UpdateTrade(t) ==
    /\ Stands(t, "row")
    /\ result' = [closed |-> result.closed /\ t # Watchdog, pnl |-> job[t].total]
    /\ MovesTo(t, "add")
    /\ UNCHANGED <<fillVars, day, behind, closeClaim, job, gaps, guessed>>
-----------------------------------------------------------------------------
(* The day: add_daily_realized_pnl, and sync_daily_stats_from_trades, which    *)
(* reads the closed trades and writes their sum in two transactions.         *)
AddDaily(t) ==
    /\ Stands(t, "add")
    /\ day' = day + job[t].delta
    /\ job' = [job EXCEPT ![t].delta = 0]
    /\ MovesTo(t, "read")
    /\ UNCHANGED <<fillVars, result, behind, closeClaim, gaps, guessed>>

(* get_daily_trade_analytics.                                               *)
AnalyticsOfAll == result.pnl                                      \* mutant
Analytics == IF result.closed THEN result.pnl ELSE 0

(* get_today_stats and the reports of the operator start with it.             *)
SyncRead(t) ==
    /\ Stands(t, IF t = Report THEN "idle" ELSE "read")
    /\ job' = [job EXCEPT ![t].day = Analytics]
    /\ MovesTo(t, "write")
    /\ UNCHANGED <<fillVars, bookVars, closeClaim, gaps, guessed>>

(* The close goes on with a full close that is not in the row yet, else it is *)
(* over and its claim is given back.                                        *)
GivesBack(t) ==
    closeClaim' = CASE t = Worker /\ closeClaim = "main" -> "none"
                    [] t = Watchdog /\ closeClaim = "watchdog" -> "none"
                    [] t \in Closers /\ closeClaim = "close_pipeline" -> "none"
                    [] OTHER -> closeClaim
Ends(t) == Rests(t) /\ GivesBack(t)

SyncWrite(t) ==
    /\ Stands(t, "write")
    /\ day' = job[t].day
    /\ behind' = (job[t].day # Analytics)
    /\ IF t = Worker /\ ~job[t].partial /\ ~job[t].closing
       THEN MovesTo(t, "mark") /\ job' = [job EXCEPT ![t].day = 0] /\ UNCHANGED closeClaim
       ELSE Ends(t)
    /\ UNCHANGED <<fillVars, result, gaps, guessed>>
-----------------------------------------------------------------------------
(* Closing the row: _mark_trade_closed and close_trade_and_sync_stats.        *)
FindGone(t) ==
    /\ t \in Closers /\ Stands(t, "idle")
    /\ sold = Pieces /\ ~result.closed
    /\ MovesTo(t, "gone")
    /\ job' = [job EXCEPT ![t] = [NoJob EXCEPT !.prior = result.pnl]]
    /\ UNCHANGED <<fillVars, bookVars, closeClaim, gaps, guessed>>

ResolveGone(t) ==
    /\ Stands(t, "gone")
    /\ \E p \in Profits(t, job[t].prior), books \in BOOLEAN :
          /\ p.profit # 0 => books
          /\ job' = [job EXCEPT ![t] = [NoJob EXCEPT !.total = p.profit, !.books = books]]
          /\ guessed' = (guessed \/ p.guess)
    /\ MovesTo(t, "mark")
    /\ UNCHANGED <<fillVars, bookVars, closeClaim, gaps>>

MayEnter(t) == t \in MainBookers => \A u \in MainBookers : ~job[u].closing
Shut(t)     == result.closed \/ (t \in MainBookers /\ closeClaim = "watchdog")

MarkSkips(t) ==
    /\ Stands(t, "mark") /\ MayEnter(t)
    /\ Shut(t)
    /\ Ends(t)
    /\ UNCHANGED <<fillVars, bookVars, gaps, guessed>>

(* The row is read again; a result that is missing is asked for again by the   *)
(* closers, and what is missing still is not added to the day.                *)
MarkBegins(t) ==
    /\ Stands(t, "mark") /\ MayEnter(t)
    /\ ~Shut(t)
    /\ closeClaim' = IF closeClaim = "none" THEN "close_pipeline" ELSE closeClaim
    /\ \E p \in IF t \in Closers /\ job[t].total = 0
                THEN Profits(t, result.pnl) ELSE {Made(job[t].total)} :
          /\ job' = [job EXCEPT
                ![t].total = p.profit, ![t].closing = TRUE, ![t].books = FALSE,
                ![t].delta = IF t = Watchdog \/ (job[t].books /\ p.profit # 0)
                             THEN p.profit - result.pnl ELSE 0]
          /\ guessed' = (guessed \/ p.guess)
    /\ MovesTo(t, "commit")
    /\ UNCHANGED <<fillVars, bookVars, gaps>>

CloseTrade(t) ==
    /\ Stands(t, "commit")
    /\ IF result.closed
       THEN Ends(t) /\ UNCHANGED result
       ELSE /\ result' = [closed |-> TRUE, pnl |-> job[t].total]
            /\ MovesTo(t, "add") /\ UNCHANGED <<job, closeClaim>>
    /\ UNCHANGED <<fillVars, day, behind, gaps, guessed>>
-----------------------------------------------------------------------------
(* The watchdog: the row is read at the start of its cycle, the trade claimed  *)
(* before the order, and nothing is read again.                             *)
WatchdogReads(partial) ==
    /\ Stands(Watchdog, "idle") /\ ~result.closed /\ sold # Pieces
    /\ job' = [job EXCEPT ![Watchdog] = [NoJob EXCEPT !.partial = partial,
                                                      !.prior = result.pnl]]
    /\ MovesTo(Watchdog, "breach")
    /\ UNCHANGED <<fillVars, bookVars, closeClaim, gaps, guessed>>

WatchdogDefers ==
    /\ Stands(Watchdog, "breach")
    /\ Rests(Watchdog)
    /\ UNCHANGED <<fillVars, bookVars, closeClaim, gaps, guessed>>

WatchdogSells(S) ==
    /\ Stands(Watchdog, "breach") /\ closeClaim = "none" /\ Quantity(Watchdog, S)
    /\ closeClaim' = "watchdog"
    /\ Sell(S)
    /\ job' = [job EXCEPT ![Watchdog].order = S]
    /\ MovesTo(Watchdog, "leg")
    /\ UNCHANGED <<bookVars, gaps, guessed>>

(* -2022: the row is closed with what it holds, or an estimate.               *)
WatchdogFindsNothing ==
    /\ Stands(Watchdog, "breach") /\ closeClaim = "none" /\ sold = Pieces
    /\ closeClaim' = "watchdog"
    /\ \E p \in Estimates(result.pnl) :
          /\ job' = [job EXCEPT ![Watchdog].total = p.profit,
                                ![Watchdog].delta = p.profit - result.pnl,
                                ![Watchdog].closing = TRUE]
          /\ guessed' = (guessed \/ p.guess)
    /\ MovesTo(Watchdog, "commit")
    /\ UNCHANGED <<fillVars, bookVars, gaps>>
-----------------------------------------------------------------------------
BookStep(t) ==
    \/ ResolveLeg(t) \/ ResolveTotal(t) \/ UpdateTrade(t)
    \/ AddDaily(t) \/ SyncRead(t) \/ SyncWrite(t)
    \/ FindGone(t) \/ ResolveGone(t) \/ MarkSkips(t) \/ MarkBegins(t) \/ CloseTrade(t)

ProfitNext ==
    \/ \E S \in SUBSET (Pieces \ sold) : SellOutside(S) \/ WorkerSells(S) \/ WatchdogSells(S)
    \/ \E lot \in Pieces : RecordFill(lot)
    \/ FillsLost \/ Restart(MainBookers \cup {Report}) \/ Restart({Watchdog}) \/ ClaimExpires
    \/ \E partial \in BOOLEAN : TakeJob(partial) \/ WatchdogReads(partial)
    \/ WorkerFindsNothing \/ WatchdogDefers \/ WatchdogFindsNothing
    \/ \E t \in Bookers : BookStep(t)

ProfitSpec == ProfitInit /\ [][ProfitNext]_profitVars
-----------------------------------------------------------------------------
Labels == {"idle", "order", "leg", "total", "row", "add", "read", "write", "gone",
           "mark", "commit", "breach"}
Jobs == [order : SUBSET Pieces, partial : BOOLEAN, prior : Nat, leg : Nat, total : Nat,
         delta : Int, books : BOOLEAN, closing : BOOLEAN, day : Nat]
ProfitTypeOK ==
    /\ sold \in SUBSET Pieces /\ onWay \in SUBSET sold /\ tracked \in SUBSET sold
    /\ result \in [closed : BOOLEAN, pnl : Nat]
    /\ day \in Int
    /\ closeClaim \in {"none", "main", "close_pipeline", "watchdog"}
    /\ step \in [Bookers -> Labels] /\ job \in [Bookers -> Jobs]
    /\ gaps \in 0 .. MaxGaps
    /\ guessed \in BOOLEAN /\ behind \in BOOLEAN

(* No lot's profit is in the row twice, whoever books it, from which answer,   *)
(* in which order and after which restart: the row holds at most what the     *)
(* exchange has paid, unless it is an estimate.                              *)
OnlyMadeIsBooked == ~guessed => result.pnl <= Cardinality(sold)

(* "Align daily_stats.total_pnl and trades_count with closed trades in DB"     *)
(* (sync_daily_stats_from_trades): between bookings the day is what the row    *)
(* says, once it is closed, although legs are added to the day on the way and *)
(* the row is rewritten after its close; only a sync that was overtaken, or a  *)
(* crash in one, leaves the day behind until the next.                       *)
DayHoldsClosed ==
    (\A t \in Bookers : ~Booking(t)) /\ ~behind =>
        day = IF result.closed THEN result.pnl ELSE 0

ProfitBookedOnce == OnlyMadeIsBooked /\ DayHoldsClosed
=============================================================================
