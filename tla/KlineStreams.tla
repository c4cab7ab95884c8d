---------------------------- MODULE KlineStreams ----------------------------
(***************************************************************************)
(* The websocket side of MarketDataHub: the manager and its sockets, the     *)
(* reconnect worker, the watchdog, the pool of kline sockets with a worker   *)
(* per socket, and the threads of the scan that subscribe and demote         *)
(* symbols.  Only the start and the stop of the manager share a lock.        *)
(*                                                                         *)
(* A socket carries one stream.  A socket that left the pool serves nobody   *)
(* here, although its connection may linger.  What makes a reconnect be      *)
(* asked for (a stale or degraded feed, an error frame, a stalled monitor,   *)
(* the end of a ban) is left open: it may be asked for at any time.          *)
(***************************************************************************)
EXTENDS Integers, Sequences

CONSTANTS
    Streams,        \* kline streams
    Scanners,       \* threads that subscribe and demote
    Reconnector,    \* the reconnect worker
    MaxManagers,    \* managers created, reconnects that are not recoveries
    MaxBroken       \* sockets that do not open or lose their connection

ASSUME StreamsAssumption ==
    /\ Reconnector \notin Scanners
    /\ MaxManagers \in Nat /\ MaxBroken \in Nat

VARIABLES
    manager,        \* _ws_manager: 0 none, else its number
    wsRunning,      \* _ws_running
    reconnecting,   \* _reconnect_in_progress
    created,        \* managers so far
    subscribed,     \* _subscribed_kline_streams
    pool,           \* _kline_sockets: [stream, conn: 0 or its manager, worker]
    doing,          \* thread -> where it is
    todo,           \* thread -> streams it is to add, to drop or to open
    hubStopped,     \* MarketDataHub.stop() was called
    broken,         \* sockets that did not open or died
    missed          \* streams whose last socket broke

poolVars == <<subscribed, pool, missed>>
hubVars == <<manager, wsRunning, reconnecting, created>>
streamVars == <<hubVars, poolVars, doing, todo, hubStopped, broken>>

HubThreads == Scanners \cup {Reconnector}
Is(t, label) == doing[t] = label
Go(t, label) == doing' = [doing EXCEPT ![t] = label]
Do(t, S)     == todo' = [todo EXCEPT ![t] = S]

(* start(): its manager runs or failed half-way.                             *)
StreamsInit ==
    /\ manager = 1 /\ created = 1 /\ wsRunning \in BOOLEAN
    /\ reconnecting = FALSE
    /\ subscribed = {} /\ pool = <<>> /\ missed = {}
    /\ doing = [t \in HubThreads |-> "idle"]
    /\ todo = [t \in HubThreads |-> {}]
    /\ hubStopped = FALSE /\ broken = 0
-----------------------------------------------------------------------------
(* _request_reconnect and force_hard_resubscribe; the watchdog asks whenever  *)
(* it finds the streams stopped.                                            *)
ShouldRecoverStopped == ~wsRunning /\ ~hubStopped

RequestReconnect ==
    /\ ~reconnecting
    /\ ShouldRecoverStopped \/ created < MaxManagers
    /\ reconnecting' = TRUE
    /\ Go(Reconnector, "stop")
    /\ UNCHANGED <<manager, wsRunning, created, poolVars, todo, hubStopped, broken>>

(* _stop_ws_internal keeps the subscriptions for a reconnect.                *)
StopWs ==
    /\ wsRunning' = FALSE
    /\ manager' = 0
    /\ pool' = IF manager = 0 THEN pool ELSE <<>>

StopStreams ==
    /\ Is(Reconnector, "stop")
    /\ StopWs
    /\ Go(Reconnector, "start")
    /\ UNCHANGED <<reconnecting, created, subscribed, missed, todo, hubStopped, broken>>

(* _start_ws_internal: a manager, its ticker and user sockets, then klines.  *)
StartManager ==
    /\ Is(Reconnector, "start")
    /\ manager' = created + 1 /\ created' = created + 1
    /\ Go(Reconnector, "sockets")
    /\ UNCHANGED <<wsRunning, reconnecting, poolVars, todo, hubStopped, broken>>

StartSockets ==
    /\ Is(Reconnector, "sockets")
    /\ \/ /\ wsRunning' = TRUE /\ Go(Reconnector, "resubscribe")
          /\ UNCHANGED broken
       \/ /\ broken < MaxBroken /\ broken' = broken + 1
          /\ Go(Reconnector, "failed")
          /\ UNCHANGED wsRunning
    /\ UNCHANGED <<manager, reconnecting, created, poolVars, todo, hubStopped>>

PoolStreams == {pool[i].stream : i \in DOMAIN pool}               \* mutant
Reopened    == subscribed

Resubscribe ==
    /\ Is(Reconnector, "resubscribe")
    /\ pool' = <<>>
    /\ Do(Reconnector, Reopened)
    /\ Go(Reconnector, "open")
    /\ UNCHANGED <<hubVars, subscribed, missed, hubStopped, broken>>

(* finally: the flag falls whether the worker got through or not.            *)
HeldAfter(label)     == label = "failed"                          \* mutant
ReleasedAfter(label) == FALSE

EndReconnect ==
    /\ \/ Is(Reconnector, "failed")
       \/ Is(Reconnector, "open") /\ todo[Reconnector] = {}
    /\ reconnecting' = ReleasedAfter(doing[Reconnector])
    /\ Go(Reconnector, "idle")
    /\ UNCHANGED <<manager, wsRunning, created, poolVars, todo, hubStopped, broken>>

(* stop(): the lifecycle lock keeps it out of a start, nothing keeps a       *)
(* worker from starting the streams again.                                  *)
StopHub ==
    /\ ~hubStopped /\ hubStopped' = TRUE
    /\ doing[Reconnector] \notin {"sockets", "resubscribe", "open"}
    /\ StopWs
    /\ subscribed' = IF manager = 0 THEN subscribed ELSE {}
    /\ UNCHANGED <<reconnecting, created, missed, doing, todo, broken>>
-----------------------------------------------------------------------------
(* subscribe_kline_streams: the set is extended before a socket is opened.   *)
BeginSubscribe(t) ==
    /\ Is(t, "idle") /\ manager # 0 /\ wsRunning
    /\ \E S \in SUBSET Streams \ {{}} : Do(t, S)
    /\ Go(t, "add")
    /\ UNCHANGED <<hubVars, poolVars, hubStopped, broken>>

AddStreams(t) ==
    /\ Is(t, "add")
    /\ Do(t, todo[t] \ subscribed)
    /\ subscribed' = subscribed \cup todo[t]
    /\ Go(t, IF manager = 0 THEN "closed" ELSE "open")
    /\ UNCHANGED <<hubVars, pool, missed, hubStopped, broken>>

(* _open_kline_socket_pool: a socket that does not open is logged and left.  *)
Socket(s) == [stream |-> s, conn |-> manager, worker |-> "idle"]

OpenSocket(t) ==
    /\ Is(t, "open")
    /\ \E s \in todo[t] :
          /\ Do(t, todo[t] \ {s})
          /\ \/ /\ manager # 0
                /\ pool' = Append(pool, Socket(s))
                /\ missed' = missed \ {s}
                /\ UNCHANGED broken
             \/ /\ manager = 0
                /\ UNCHANGED <<pool, missed, broken>>
             \/ /\ broken < MaxBroken /\ broken' = broken + 1
                /\ missed' = missed \cup {s}
                /\ UNCHANGED pool
    /\ UNCHANGED <<hubVars, subscribed, doing, hubStopped>>

EndScan(t) ==
    /\ Is(t, "closed") \/ (Is(t, "open") /\ todo[t] = {})
    /\ Go(t, "idle") /\ Do(t, {})
    /\ UNCHANGED <<hubVars, poolVars, hubStopped, broken>>

(* demote_symbols_klines and _rebuild_kline_socket_pool.                     *)
Demote(t) ==
    /\ Is(t, "idle")
    /\ \E S \in SUBSET Streams \ {{}} :
          /\ subscribed' = subscribed \ S
          /\ subscribed \cap S # {} /\ manager # 0 /\ wsRunning
          /\ Go(t, "close_pool")
    /\ UNCHANGED <<hubVars, pool, missed, todo, hubStopped, broken>>

Closed(sock) == [sock EXCEPT !.conn = 0]

ClosePool(t) ==
    /\ Is(t, "close_pool")
    /\ pool' = [i \in DOMAIN pool |-> Closed(pool[i])]
    /\ Go(t, "clear_pool")
    /\ UNCHANGED <<hubVars, subscribed, missed, todo, hubStopped, broken>>

ClearPool(t) ==
    /\ Is(t, "clear_pool")
    /\ pool' = <<>>
    /\ Do(t, subscribed)
    /\ Go(t, IF manager = 0 THEN "closed" ELSE "open")
    /\ UNCHANGED <<hubVars, subscribed, missed, hubStopped, broken>>
-----------------------------------------------------------------------------
(* A socket dies and says so, to whichever socket has its index now; the     *)
(* worker of that one closes and starts it.                                 *)
SocketWorker(i, label) == pool' = [pool EXCEPT ![i].worker = label]

SocketDies(i) ==
    /\ pool[i].conn # 0
    /\ broken < MaxBroken /\ broken' = broken + 1
    /\ \E j \in DOMAIN pool :
          pool' = [pool EXCEPT ![i].conn = 0,
                               ![j].worker = IF @ = "idle" THEN "asked" ELSE @]
    /\ missed' = missed \cup {pool[i].stream}
    /\ UNCHANGED <<hubVars, subscribed, doing, todo, hubStopped>>

CloseSocket(i) ==
    /\ pool[i].worker = "asked"
    /\ IF manager # 0 /\ wsRunning /\ ~reconnecting
       THEN pool' = [pool EXCEPT ![i] = [Closed(@) EXCEPT !.worker = "closed"]]
       ELSE SocketWorker(i, "idle")
    /\ UNCHANGED <<hubVars, subscribed, missed, doing, todo, hubStopped, broken>>

StartSocket(i) ==
    /\ pool[i].worker = "closed"
    /\ IF manager # 0
       THEN /\ pool' = [pool EXCEPT ![i] = Socket(pool[i].stream)]
            /\ missed' = missed \ {pool[i].stream}
       ELSE SocketWorker(i, "idle") /\ UNCHANGED missed
    /\ UNCHANGED <<hubVars, subscribed, doing, todo, hubStopped, broken>>
-----------------------------------------------------------------------------
ReconnectStep ==
    \/ StopStreams \/ StartManager \/ StartSockets \/ Resubscribe
    \/ OpenSocket(Reconnector) \/ EndReconnect

ScanStep(t) ==
    \/ BeginSubscribe(t) \/ AddStreams(t) \/ OpenSocket(t) \/ EndScan(t)
    \/ Demote(t) \/ ClosePool(t) \/ ClearPool(t)

SocketStep == \E i \in DOMAIN pool : SocketDies(i) \/ CloseSocket(i) \/ StartSocket(i)

StreamsNext ==
    \/ RequestReconnect \/ ReconnectStep \/ StopHub
    \/ (\E t \in Scanners : ScanStep(t))
    \/ SocketStep
-----------------------------------------------------------------------------
StreamsTypeOK ==
    /\ manager \in 0 .. created /\ created \in Nat
    /\ wsRunning \in BOOLEAN /\ reconnecting \in BOOLEAN /\ hubStopped \in BOOLEAN
    /\ subscribed \subseteq Streams /\ missed \subseteq Streams
    /\ \A i \in DOMAIN pool :
          pool[i] \in [stream: Streams, conn: 0 .. created,
                       worker: {"idle", "asked", "closed"}]
    /\ broken \in 0 .. MaxBroken
    /\ todo \in [HubThreads -> SUBSET Streams]

(* Whatever subscribing, demoting, one-socket and full reconnects do to one  *)
(* another's pool, once they are done every subscribed stream has a socket   *)
(* of the running manager, unless that socket broke.                         *)
Settled ==
    /\ wsRunning /\ ~reconnecting
    /\ \A t \in HubThreads : Is(t, "idle")
    /\ \A i \in DOMAIN pool : pool[i].worker = "idle"
Served(s) == \E i \in DOMAIN pool : pool[i].stream = s /\ pool[i].conn = manager
SubscribedAreServed == Settled => \A s \in subscribed \ missed : Served(s)

(* Streams that are down come back, unless the hub is being shut down: the   *)
(* worker that fails leaves the way free for the watchdog's next request.    *)
StreamsComeBack == []<>(wsRunning \/ hubStopped)
=============================================================================
