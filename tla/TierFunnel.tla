------------------------------ MODULE TierFunnel -----------------------------
(***************************************************************************)
(* The three tiers a coin climbs before it is traded (TierFunnel), the tick   *)
(* of the main loop that scans, promotes, rescores and dispatches them         *)
(* (EventScanOrchestrator), and the thread that backtests the Hot ones          *)
(* (AsyncBacktestValidator), which answers into the same funnel without a lock. *)
(*                                                                         *)
(* Scores, candles, spreads and clocks are choices.  A method of the funnel is *)
(* one step; the validator's demotion is two, for it builds a new _hot_order    *)
(* from the old one while the main loop may append to that.  The executor is   *)
(* EntryExecution: here an entry fills, is refused, or stays unknown.          *)
(***************************************************************************)
EXTENDS Integers, Sequences

CONSTANTS
    Coins,
    Universes,      \* the sets of coins that may be the top ones
    QueueMax,       \* BACKTEST_QUEUE_MAX
    MaxPasses,      \* hot_pending_max_passes()
    NoCoin

ASSUME FunnelAssumption ==
    /\ Universes \subseteq SUBSET Coins /\ NoCoin \notin Coins
    /\ QueueMax \in Nat \ {0} /\ MaxPasses \in Nat

VARIABLES
    pool,           \* _candidates, _normal and _demoted_hold
    waiting,        \* _kline_pending
    hot,            \* _hot
    listed,         \* _hot_order
    passed,         \* coins whose record says backtest_passed
    passes,         \* coin -> pending_passes, counted up to MaxPasses
    inFlight,       \* _pending_hot_rest
    super,          \* _super and _super_order
    promoted,       \* _promoted
    quarantine,     \* _demote_cooldown_until
    window,         \* day_validation_active()
    streams,        \* coins whose candle streams are subscribed
    inbound,        \* AsyncBacktestValidator._inbound
    queued,         \* AsyncBacktestValidator._pending
    approved,       \* AsyncBacktestValidator._approved
    vAt, vCoin, draft,      \* the validator: where, its coin, the order it builds
    mAt, mCoin, got, chosen,  \* the main loop: where, its coin, results it drained,
                              \* coins it dispatches
    open,           \* coins with an open position
    unknown         \* coins with an entry of which it is not known whether it filled

tierVars == <<hot, listed, passed, passes, inFlight, super, promoted>>
scanVars == <<pool, waiting, quarantine, window, streams>>
queueVars == <<inbound, queued, approved>>
validatorVars == <<vAt, vCoin, draft>>
tickVars == <<mAt, mCoin, got, chosen>>
tradeState == <<open, unknown>>
funnelVars == <<tierVars, scanVars, queueVars, validatorVars, tickVars, tradeState>>

FunnelInit ==
    /\ pool = {} /\ waiting = {} /\ quarantine = {} /\ window = FALSE /\ streams = {}
    /\ hot = {} /\ listed = {} /\ passed = {} /\ inFlight = {} /\ super = {}
    /\ passes = [c \in Coins |-> 0] /\ promoted = {}
    /\ inbound = <<>> /\ queued = {} /\ approved = <<>>
    /\ vAt = "get" /\ vCoin = NoCoin /\ draft = {}
    /\ mAt = "adopt" /\ mCoin = NoCoin /\ got = <<>> /\ chosen = {}
    /\ open = {} /\ unknown = {}

Ticks(from, to) == mAt = from /\ mAt' = to
Validates(from, to) == vAt = from /\ vAt' = to
-----------------------------------------------------------------------------
(* The steps of the tiers that several operations share.                     *)
Forgotten(S) == passes' = [c \in Coins |-> IF c \in S THEN 0 ELSE passes[c]]

DropSuper(S) ==    \* mutant: the coin's promotion is not forgotten with it
    /\ super' = super \ S
    /\ hot' = hot \ S /\ listed' = listed \ S
    /\ inFlight' = inFlight \ S
    /\ passed' = passed \ S /\ Forgotten(S)
    /\ UNCHANGED promoted

NoteFilled(S) ==
    /\ super' = super \ S
    /\ hot' = hot \ S /\ listed' = listed \ S
    /\ inFlight' = inFlight \ S
    /\ promoted' = promoted \ S
    /\ passed' = passed \ S /\ Forgotten(S)

(* promote_from_normal, of coins whose best score is in the Hot band.         *)
Promotable(S) == S \ (promoted \cup hot \cup super \cup quarantine)

PromoteFromNormal(S) ==
    /\ hot' = hot \cup S /\ listed' = listed \cup S
    /\ promoted' = promoted \cup S
    /\ UNCHANGED <<passed, passes, inFlight, super>>

(* apply_hot_scores: Super, Hot with its own or a backup strategy, or Normal.  *)
(* asking and tested are _pending_hot_rest and the passed coins by then.      *)
ApplyHotScores(c, asking, tested) ==
    \/ /\ super' = super \cup {c}
       /\ hot' = hot \ {c} /\ listed' = listed \ {c}
       /\ inFlight' = asking \ {c} /\ passed' = tested
       /\ UNCHANGED <<promoted, pool>>
    \/ inFlight' = asking /\ passed' = tested /\ UNCHANGED <<hot, listed, promoted, super, pool>>
    \/ /\ hot' = hot \ {c} /\ listed' = listed \ {c}
       /\ promoted' = promoted \ {c}
       /\ inFlight' = asking \ {c} /\ passed' = tested \ {c}
       /\ pool' = pool \cup {c}
       /\ UNCHANGED super
-----------------------------------------------------------------------------
(* The tick: _adopt_pending_user_fills, then process_priority_scan_cycle.      *)
AdoptFills ==
    /\ Ticks("adopt", "seed")
    /\ \E known \in SUBSET unknown : \E filled \in SUBSET known :
          /\ NoteFilled(filled)
          /\ open' = open \cup filled
          /\ unknown' = unknown \ known
    /\ UNCHANGED <<scanVars, queueVars, validatorVars, mCoin, got, chosen>>

(* replace_normal_universe with whatever coins are the top ones now; the       *)
(* streams of the coins that were flushed are given up.                       *)
KeptOpen == open \cup quarantine      \* mutant: a flush that forgets Hot and Super
Kept == hot \cup super \cup quarantine \cup open

SeedUniverse ==
    /\ Ticks("seed", "normal")
    /\ \E universe \in Universes :
          pool' = (pool \cap Kept) \cup (universe \ (hot \cup super))
    /\ streams' = streams \ (pool \ Kept)
    /\ waiting' = waiting \cap Kept
    /\ UNCHANGED <<tierVars, quarantine, window, queueVars, validatorVars, mCoin, got,
                   chosen, tradeState>>

LockHolds ==
    /\ Ticks("seed", "normal")
    /\ UNCHANGED <<tierVars, scanVars, queueVars, validatorVars, mCoin, got, chosen,
                   tradeState>>

(* take_normal gives a coin that is in neither tier.  It is subscribed, and    *)
(* scored when its candles are complete; otherwise it waits for them.         *)
ScanNormal ==
    /\ Ticks("normal", "pending")
    /\ \E c \in pool \ (hot \cup super) :
          /\ streams' = streams \cup {c}
          /\ \/ waiting' = waiting \cup {c} /\ UNCHANGED tierVars
             \/ c \in open /\ UNCHANGED <<waiting, tierVars>>
             \/ /\ c \notin open
                /\ waiting' = waiting \ {c}
                /\ \E S \in SUBSET {c} : PromoteFromNormal(Promotable(S))
    /\ UNCHANGED <<pool, quarantine, window, queueVars, validatorVars, mCoin, got,
                   chosen, tradeState>>

NoneDue ==
    /\ Ticks("normal", "pending")
    /\ UNCHANGED <<tierVars, scanVars, queueVars, validatorVars, mCoin, got, chosen,
                   tradeState>>

(* _score_ready_pending.                                                     *)
ScorePending ==
    /\ Ticks("pending", "rest")
    /\ \E ready \in SUBSET (waiting \ open) :
          /\ waiting' = waiting \ ready
          /\ \E S \in SUBSET ready : PromoteFromNormal(Promotable(S))
    /\ UNCHANGED <<pool, quarantine, window, streams, queueVars, validatorVars, mCoin,
                   got, chosen, tradeState>>

(* take_hot_for_rest: a coin that is listed, untested, and not being asked     *)
(* about.  None is due, or REST is blocked: the tick goes on.                 *)
TakeHotForRest ==
    /\ Ticks("rest", "put")
    /\ \E c \in (hot \cap listed) \ (passed \cup inFlight) :
          mCoin' = c /\ inFlight' = inFlight \cup {c}
    /\ UNCHANGED <<hot, listed, passed, passes, super, promoted, scanVars, queueVars,
                   validatorVars, got, chosen, tradeState>>

NoHotDue ==
    /\ Ticks("rest", "ingest")
    /\ UNCHANGED <<tierVars, scanVars, queueVars, validatorVars, mCoin, got, chosen,
                   tradeState>>

(* enqueue: a full queue drops its oldest request.                            *)
RoomOnly ==    \* mutant: a dropped request stays in _pending
    [left |-> IF Len(inbound) < QueueMax THEN inbound ELSE Tail(inbound), gone |-> {}]

RoomMade ==
    IF Len(inbound) < QueueMax THEN [left |-> inbound, gone |-> {}]
    ELSE [left |-> Tail(inbound), gone |-> {Head(inbound)}]

Enqueue ==
    /\ Ticks("put", "noted")
    /\ mCoin \notin queued
    /\ inbound' = Append(RoomMade.left, mCoin)
    /\ queued' = (queued \ RoomMade.gone) \cup {mCoin}
    /\ UNCHANGED <<tierVars, scanVars, approved, validatorVars, mCoin, got, chosen,
                   tradeState>>

EnqueueRefused ==
    /\ Ticks("put", "ingest")
    /\ mCoin \in queued
    /\ inFlight' = inFlight \ {mCoin}
    /\ mCoin' = NoCoin
    /\ UNCHANGED <<hot, listed, passed, passes, super, promoted, scanVars, queueVars,
                   validatorVars, got, chosen, tradeState>>

NoteHotRestStarted ==
    /\ Ticks("noted", "ingest")
    /\ inFlight' = inFlight \cup {mCoin}
    /\ mCoin' = NoCoin
    /\ UNCHANGED <<hot, listed, passed, passes, super, promoted, scanVars, queueVars,
                   validatorVars, got, chosen, tradeState>>

(* _ingest_hot_backtests: drain_approved, then one result after the other.     *)
DrainApproved ==
    /\ mAt = "ingest" /\ got = <<>> /\ approved # <<>>
    /\ mAt' = "results"
    /\ got' = approved /\ approved' = <<>>
    /\ UNCHANGED <<tierVars, scanVars, inbound, queued, validatorVars, mCoin, chosen,
                   tradeState>>

IngestResult ==
    /\ mAt = "results" /\ got # <<>>
    /\ got' = Tail(got)
    /\ mAt' = IF got' = <<>> THEN "rescore" ELSE "results"
    /\ LET c == Head(got) IN
       IF c \in hot
       THEN /\ passes' = [passes EXCEPT ![c] = 0]
            /\ ApplyHotScores(c, inFlight \ {c}, passed \cup {c})
       ELSE /\ inFlight' = inFlight \ {c}
            /\ UNCHANGED <<hot, listed, passed, passes, super, promoted, pool>>
    /\ UNCHANGED <<waiting, quarantine, window, streams, queueVars, validatorVars,
                   mCoin, chosen, tradeState>>

NothingApproved ==
    /\ mAt = "ingest" /\ approved = <<>>
    /\ mAt' = "rescore"
    /\ UNCHANGED <<tierVars, scanVars, queueVars, validatorVars, mCoin, got, chosen,
                   tradeState>>

(* _rescore_due_hot: a tested coin a minute.                                 *)
AllListed == hot \cap listed               \* mutant: the untested ones too
Parked == hot \cap listed \cap passed

RescoreHot ==
    /\ Ticks("rescore", "super")
    /\ \/ UNCHANGED <<tierVars, pool>>
       \/ \E c \in Parked :
             IF c \in open THEN NoteFilled({c}) /\ UNCHANGED pool
             ELSE ApplyHotScores(c, inFlight, passed) /\ UNCHANGED passes
    /\ UNCHANGED <<waiting, quarantine, window, streams, queueVars, validatorVars,
                   mCoin, got, chosen, tradeState>>

(* Super coins that are open leave; the others are dispatched when they have a *)
(* setup, or, in the validation window of a new day, only kept or demoted.     *)
EvaluateSuper ==
    /\ Ticks("super", "dispatch")
    /\ ~window
    /\ NoteFilled(super \cap open)
    /\ chosen' \in SUBSET (super \ open)
    /\ UNCHANGED <<scanVars, queueVars, validatorVars, mCoin, got, tradeState>>

ValidateSuper ==
    /\ Ticks("super", "adopt")
    /\ window
    /\ \E demoted \in SUBSET (super \ open) :
          LET filled == super \cap open
              gone == demoted \cup filled IN
          /\ super' = super \ gone /\ promoted' = promoted \ gone
          /\ hot' = hot \ filled /\ listed' = listed \ filled
          /\ inFlight' = inFlight \ filled
          /\ passed' = passed \ gone
          /\ pool' = pool \cup demoted
    /\ UNCHANGED <<passes, waiting, quarantine, window, streams, queueVars,
                   validatorVars, mCoin, got, chosen, tradeState>>

(* _execute_candidates: the gates and preflight_live_candidate may refuse any  *)
(* of them, and do in the window and where a position is open.  The executor   *)
(* places no second entry while it does not know what became of the first.    *)
Admitted(c) == c \in chosen /\ ~window /\ c \notin open /\ c \notin unknown

EntryFills(c) ==
    /\ mAt = "dispatch" /\ Admitted(c)
    /\ NoteFilled({c})
    /\ open' = open \cup {c}
    /\ chosen' = chosen \ {c}
    /\ UNCHANGED <<scanVars, queueVars, validatorVars, mAt, mCoin, got, unknown>>

EntryUnknown(c) ==
    /\ mAt = "dispatch" /\ Admitted(c)
    /\ unknown' = unknown \cup {c}
    /\ chosen' = chosen \ {c}
    /\ UNCHANGED <<tierVars, scanVars, queueVars, validatorVars, mAt, mCoin, got, open>>

EndTick ==
    /\ Ticks("dispatch", "adopt")
    /\ chosen' = {}
    /\ UNCHANGED <<tierVars, scanVars, queueVars, validatorVars, mCoin, got,
                   tradeState>>

(* An exception in a scan ends the tick, with what it had drained.            *)
TickFails ==
    /\ mAt \in {"normal", "pending", "results", "rescore", "super"}
    /\ mAt' = "adopt" /\ got' = <<>>
    /\ UNCHANGED <<tierVars, scanVars, queueVars, validatorVars, mCoin, chosen,
                   tradeState>>
-----------------------------------------------------------------------------
(* The validator's thread, _loop.                                            *)
TakeRequest ==
    /\ Validates("get", "decide")
    /\ inbound # <<>>
    /\ vCoin' = Head(inbound) /\ inbound' = Tail(inbound)
    /\ UNCHANGED <<tierVars, scanVars, queued, approved, draft, tickVars, tradeState>>

BacktestPassed ==
    /\ Validates("decide", "done")
    /\ approved' = Append(approved, vCoin)
    /\ UNCHANGED <<tierVars, scanVars, inbound, queued, vCoin, draft, tickVars,
                   tradeState>>

(* REST is blocked: release_hot_rest.                                        *)
Deferred ==
    /\ Validates("decide", "done")
    /\ inFlight' = inFlight \ {vCoin}
    /\ UNCHANGED <<hot, listed, passed, passes, super, promoted, scanVars, queueVars,
                   vCoin, draft, tickVars, tradeState>>

(* note_hot_backtest_pending: the history is still thin.  From the last pass   *)
(* on, a coin whose history grew is given another one.                        *)
ThinHistory ==
    /\ Validates("decide", "done")
    /\ inFlight' = inFlight \ {vCoin}
    /\ passes' = IF vCoin \in hot \ passed /\ passes[vCoin] < MaxPasses
                 THEN [passes EXCEPT ![vCoin] = @ + 1] ELSE passes
    /\ UNCHANGED <<hot, listed, passed, super, promoted, scanVars, queueVars, vCoin,
                   draft, tickVars, tradeState>>

(* _demote_hot, up to the new _hot_order: a rejected coin ("order"), or one    *)
(* whose history stays thin ("thin").                                        *)
BeginDemotion(label) ==
    /\ vCoin \in hot
    /\ Validates("decide", label)
    /\ inFlight' = inFlight \ {vCoin}
    /\ hot' = hot \ {vCoin} /\ draft' = listed \ {vCoin}
    /\ passed' = passed \ {vCoin} /\ Forgotten({vCoin})
    /\ UNCHANGED <<listed, super, promoted, scanVars, queueVars, vCoin, tickVars,
                   tradeState>>

Rejected == BeginDemotion("order")
RunsOutOfPasses ==
    vCoin \in hot \ passed /\ passes[vCoin] + 1 >= MaxPasses /\ BeginDemotion("thin")

(* A rejected or late request of a coin that has no record any more.          *)
RejectedTooLate ==
    /\ vCoin \notin hot
    /\ Validates("decide", "done")
    /\ inFlight' = inFlight \ {vCoin}
    /\ UNCHANGED <<hot, listed, passed, passes, super, promoted, scanVars, queueVars,
                   vCoin, draft, tickVars, tradeState>>

EndDemotion ==
    /\ vAt \in {"order", "thin"} /\ vAt' = "done"
    /\ listed' = draft /\ draft' = {}
    /\ inFlight' = inFlight \ {vCoin}
    /\ promoted' = promoted \ {vCoin}
    /\ pool' = pool \cup {vCoin}
    /\ quarantine' = IF vAt = "thin" THEN quarantine \cup {vCoin} ELSE quarantine
    /\ UNCHANGED <<hot, passed, passes, super, waiting, window, streams, queueVars,
                   vCoin, tickVars, tradeState>>

RequestEnds ==
    /\ Validates("done", "get")
    /\ queued' = queued \ {vCoin}
    /\ vCoin' = NoCoin
    /\ UNCHANGED <<tierVars, scanVars, inbound, approved, draft, tickVars, tradeState>>
-----------------------------------------------------------------------------
(* Time, the new day, and what becomes of entries and positions.              *)
QuarantineEnds(c) ==
    /\ c \in quarantine
    /\ quarantine' = quarantine \ {c}
    /\ UNCHANGED <<tierVars, pool, waiting, window, streams, queueVars, validatorVars,
                   tickVars, tradeState>>

BeginDayValidation ==
    /\ window # (super # {})
    /\ window' = (super # {})
    /\ UNCHANGED <<tierVars, pool, waiting, quarantine, streams, queueVars,
                   validatorVars, tickVars, tradeState>>

WindowEnds ==
    /\ window /\ window' = FALSE
    /\ UNCHANGED <<tierVars, pool, waiting, quarantine, streams, queueVars,
                   validatorVars, tickVars, tradeState>>

PositionCloses(c) ==
    /\ c \in open
    /\ open' = open \ {c}
    /\ UNCHANGED <<tierVars, scanVars, queueVars, validatorVars, tickVars, unknown>>

FunnelNext ==
    \/ AdoptFills \/ SeedUniverse \/ LockHolds \/ ScanNormal \/ NoneDue \/ ScorePending
    \/ TakeHotForRest \/ NoHotDue \/ Enqueue \/ EnqueueRefused \/ NoteHotRestStarted
    \/ DrainApproved \/ IngestResult \/ NothingApproved \/ RescoreHot
    \/ EvaluateSuper \/ ValidateSuper \/ EndTick \/ TickFails
    \/ TakeRequest \/ BacktestPassed \/ Deferred \/ ThinHistory \/ Rejected
    \/ RunsOutOfPasses \/ RejectedTooLate \/ EndDemotion \/ RequestEnds
    \/ BeginDayValidation \/ WindowEnds
    \/ \E c \in Coins : \/ EntryFills(c) \/ EntryUnknown(c) \/ QuarantineEnds(c) \/ PositionCloses(c)

FunnelSpec == FunnelInit /\ [][FunnelNext]_funnelVars
-----------------------------------------------------------------------------
(* Types, and the validator's set of queued symbols is what its queue holds:   *)
(* whatever is dropped, rejected or fails, a coin can be queued again.        *)
FunnelTypeOK ==
    /\ \A S \in {pool, waiting, hot, listed, passed, inFlight, super, promoted,
                 quarantine, streams, queued, draft, chosen, open, unknown} : S \subseteq Coins
    /\ passes \in [Coins -> 0 .. MaxPasses]
    /\ window \in BOOLEAN
    /\ inbound \in Seq(Coins) /\ approved \in Seq(Coins) /\ got \in Seq(Coins)
    /\ Len(inbound) <= QueueMax
    /\ queued = {inbound[i] : i \in 1 .. Len(inbound)} \cup ({vCoin} \ {NoCoin})
    /\ \A i, j \in 1 .. Len(inbound) : inbound[i] = inbound[j] => i = j
    /\ vAt \in {"get", "decide", "order", "thin", "done"}
    /\ mAt \in {"adopt", "seed", "normal", "pending", "rest", "put", "noted", "ingest",
                "results", "rescore", "super", "dispatch"}
    /\ {vCoin, mCoin} \subseteq Coins \cup {NoCoin}

(* A promotion is forgotten with the tier it led to: no coin is kept out of    *)
(* Hot by a promotion that it is not in a tier for any more.                  *)
NoneStranded ==
    promoted \subseteq hot \cup super \cup (IF vAt \in {"order", "thin"} THEN {vCoin} ELSE {})

(* No flush takes the candle streams of a coin that is in Hot or Super.        *)
TieredIsStreamed == hot \cup super \subseteq streams

(* The funnel implements the strict one: no coin skips a tier, none becomes     *)
(* Super unless the backtest passed in this very stay in Hot.                  *)
Tier(c) == IF c \in super THEN "super" ELSE IF c \in hot THEN "hot" ELSE "normal"
Strict == INSTANCE StrictTiers WITH tier <- [c \in Coins |-> Tier(c)], tested <- passed
StrictFunnel == Strict!TiersSpec
=============================================================================
