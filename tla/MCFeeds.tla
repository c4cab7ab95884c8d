------------------------------- MODULE MCFeeds ------------------------------
(* What the bot reads from the exchange, for TLC.  The four modules share no  *)
(* state (a ban or a budget only keeps a fetch or a reconnect from being      *)
(* made, which theirs leave open), so a behaviour is about one of them,       *)
(* chosen at its start.                                                     *)
EXTENDS RestGuard, RestLanes, KlineStreams, CandleBuffers, TLC

CONSTANTS o1, n1, n2, h1
MCLaneCallers == {o1, n1, n2, h1}
MCLaneOf == (o1 :> "order") @@ (n1 :> "normal") @@ (n2 :> "normal") @@ (h1 :> "hot")
MCBudget == [order |-> 2, hot |-> 3, normal |-> 2]

VARIABLE part
feedsVars == <<part, restVars, laneVars, streamVars, candleVars>>

FeedsInit ==
    /\ part \in {"guard", "lanes", "streams", "candles"}
    /\ RestInit /\ LanesInit /\ StreamsInit /\ CandlesInit
    /\ part # "streams" => wsRunning

FeedsNext ==
    /\ \/ part = "guard" /\ RestNext /\ UNCHANGED <<laneVars, streamVars, candleVars>>
       \/ part = "lanes" /\ LanesNext /\ UNCHANGED <<restVars, streamVars, candleVars>>
       \/ part = "streams" /\ StreamsNext /\ UNCHANGED <<restVars, laneVars, candleVars>>
       \/ part = "candles" /\ CandlesNext /\ UNCHANGED <<restVars, laneVars, streamVars>>
    /\ UNCHANGED part

(* The reconnect worker is a thread that runs to its end, and the watchdog    *)
(* asks again as long as it finds the streams down.                          *)
Streaming(A) == part = "streams" /\ A
FeedsFairness ==
    /\ WF_streamVars(Streaming(ReconnectStep))
    /\ WF_streamVars(Streaming(RequestReconnect))

FeedsSpec == FeedsInit /\ [][FeedsNext]_feedsVars /\ FeedsFairness

FeedTypesOK == RestTypeOK /\ LanesTypeOK /\ StreamsTypeOK /\ CandlesTypeOK
StreamsAlwaysComeBack == part = "streams" => StreamsComeBack
=============================================================================
