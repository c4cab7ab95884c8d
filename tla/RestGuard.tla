----------------------------- MODULE RestGuard ------------------------------
(***************************************************************************)
(* The way of a REST call to the exchange and what a ban does to it:        *)
(* _throttled_call of exchange.py with the three halts it asks, the safety  *)
(* mode of RestUsageTracker, the hard stop of RestTokenBucket and the ban   *)
(* of MarketDataHub; the answers that set them, and the recovery that       *)
(* clears them.  Threads interleave between any two of these objects: each  *)
(* has a lock of its own and no lock covers two of them.                    *)
(*                                                                         *)
(* Time is a clock.  The exchange bans until a time it tells, or answers    *)
(* "too many requests" without one; it may tell a later time to a later     *)
(* call, and answers are handled in any order.                              *)
(***************************************************************************)
EXTENDS Integers, FiniteSets

CONSTANTS
    Execution,      \* threads in execution_context
    Background,     \* threads that read for the scanner
    Bootstrap,      \* threads that seed candles in bootstrap_context
    Halt,           \* the shortest local halt, in ticks
    Nobody,         \* no thread
    MaxNow,         \* the clock
    MaxLimits       \* calls the exchange refuses of its own

ASSUME GuardAssumption ==
    /\ Execution \cap (Background \cup Bootstrap) = {}
    /\ Halt \in Nat /\ MaxNow \in Nat \ {0} /\ MaxLimits \in Nat

VARIABLES
    now,
    banEnd,         \* the exchange refuses every call before this time
    limits,         \* refusals so far
    safetyUntil,    \* RestUsageTracker._safety_until
    stopUntil,      \* RestTokenBucket._hard_stop_until
    hubUntil,       \* MarketDataHub._rest_blocked_until, 0: none
    hubBan,         \* MarketDataHub._ban_status.banned_until_ms, 0: no status
    klineHalted,    \* BinanceExchangeManager._kline_bootstrap_halted
    step,           \* thread -> where its call is
    answer,         \* thread -> the time a refusal tells, 0: none
    recovering,     \* the thread that has MarketDataHub._rest_recovery_lock
    known,          \* the latest end of a ban that was handled (history)
    asked,          \* thread -> known when its call started (history)
    reordered       \* an end was handled after the exchange told a later one (history)

haltVars == <<safetyUntil, stopUntil, hubUntil, hubBan, klineHalted>>
histVars == <<known, asked, reordered>>
restVars == <<now, banEnd, limits, haltVars, step, answer, recovering, histVars>>

Callers == Execution \cup Background \cup Bootstrap
Later(a, b) == IF a > b THEN a ELSE b

RestInit ==
    /\ now = 1 /\ banEnd = 0 /\ limits = 0
    /\ safetyUntil = 0 /\ stopUntil = 0 /\ hubUntil = 0 /\ hubBan = 0
    /\ klineHalted = FALSE
    /\ step = [t \in Callers |-> "idle"]
    /\ answer = [t \in Callers |-> 0]
    /\ recovering = Nobody
    /\ known = 0 /\ asked = [t \in Callers |-> 0] /\ reordered = FALSE

At(t, label) == step[t] = label
To(t, label) == step' = [step EXCEPT ![t] = label]

InSafety == now < safetyUntil
Stopped  == now < stopUntil
-----------------------------------------------------------------------------
(* MarketDataHub: a timestamp that has passed ends the block, whatever the   *)
(* timer says; a block that is over is cleared by whoever asks next.         *)
TimestampOver == hubBan # 0 /\ hubBan <= now
TimerOn       == now < hubUntil
RecoveryDue   == TimestampOver \/ (hubUntil # 0 /\ ~TimerOn)
HubBlocks     == ~TimestampOver /\ TimerOn

(* The block refuses orders only while a ban's own time runs.                *)
HubRefuses(t) == HubBlocks /\ (t \in Execution => hubBan > now)

(* Whoever finds a block over and no recovery under way clears the hub; the  *)
(* call it was about goes on.                                               *)
StartCall(t) ==
    /\ At(t, "idle")
    /\ \/ /\ RecoveryDue /\ recovering = Nobody
          /\ recovering' = t
          /\ hubUntil' = 0 /\ hubBan' = 0
          /\ To(t, "clear_safety")
          /\ asked' = [asked EXCEPT ![t] = known]
          /\ UNCHANGED <<stopUntil, klineHalted>>
       \/ /\ ~(RecoveryDue /\ recovering = Nobody)
          /\ HubRefuses(t)
          /\ stopUntil' = Later(stopUntil, IF hubBan # 0 THEN hubBan ELSE hubUntil)
          /\ klineHalted' = (klineHalted \/ (t \in Bootstrap /\ InSafety))
          /\ UNCHANGED <<step, asked, recovering, hubUntil, hubBan>>
       \/ /\ ~(RecoveryDue /\ recovering = Nobody)
          /\ ~HubRefuses(t)
          /\ To(t, "safety")
          /\ asked' = [asked EXCEPT ![t] = known]
          /\ UNCHANGED <<recovering, hubUntil, hubBan, stopUntil, klineHalted>>
    /\ UNCHANGED <<now, banEnd, limits, safetyUntil, answer, known, reordered>>

(* _notify_rest_governor_cleared, on_rest_ban_recovered.                     *)
ClearSafety(t) ==
    /\ At(t, "clear_safety")
    /\ safetyUntil' = 0
    /\ To(t, "clear_stop")
    /\ UNCHANGED <<now, banEnd, limits, stopUntil, hubUntil, hubBan, klineHalted,
                   answer, recovering, histVars>>

ClearStop(t) ==
    /\ At(t, "clear_stop")
    /\ stopUntil' = 0
    /\ klineHalted' = FALSE
    /\ recovering' = Nobody
    /\ To(t, "safety")
    /\ UNCHANGED <<now, banEnd, limits, safetyUntil, hubUntil, hubBan, answer,
                   histVars>>
-----------------------------------------------------------------------------
(* The safety mode holds everything but orders; a call that seeds candles    *)
(* then halts the bootstrap, which the next one resumes when it may.         *)
GiveUp(t) == To(t, "idle") /\ asked' = [asked EXCEPT ![t] = 0]

AskSafety(t) ==
    /\ At(t, "safety")
    /\ IF InSafety /\ t \notin Execution
       THEN /\ GiveUp(t)
            /\ klineHalted' = (klineHalted \/ t \in Bootstrap)
       ELSE /\ To(t, "stop")
            /\ klineHalted' = (klineHalted /\ (t \notin Bootstrap \/ Stopped))
            /\ UNCHANGED asked
    /\ UNCHANGED <<now, banEnd, limits, safetyUntil, stopUntil, hubUntil, hubBan,
                   answer, recovering, known, reordered>>

(* The hard stop refuses orders too.  The other calls must find room in the   *)
(* lanes of RestLanes now, or give up.                                       *)
Shut(t) == Stopped \/ (t \in Bootstrap /\ klineHalted)

AskStop(t) ==
    /\ At(t, "stop")
    /\ \/ /\ Shut(t) /\ GiveUp(t)
          /\ klineHalted' = (klineHalted \/ t \in Bootstrap)
       \/ /\ ~Shut(t)
          /\ To(t, IF t \in Execution THEN "acquire" ELSE "send")
          /\ UNCHANGED <<klineHalted, asked>>
       \/ /\ ~Shut(t) /\ t \notin Execution
          /\ GiveUp(t)
          /\ UNCHANGED klineHalted
    /\ UNCHANGED <<now, banEnd, limits, safetyUntil, stopUntil, hubUntil, hubBan,
                   answer, recovering, known, reordered>>

(* RestTokenBucket.acquire sleeps through a hard stop.                       *)
Acquire(t) ==
    /\ At(t, "acquire")
    /\ ~Stopped
    /\ To(t, "send")
    /\ UNCHANGED <<now, banEnd, limits, haltVars, answer, recovering, histVars>>
-----------------------------------------------------------------------------
(* The exchange: a ban refuses every call and may grow with it.  A call      *)
(* whose connection broke is sent again without asking anyone: it waits here. *)
Refused(t, end) ==
    /\ To(t, "refused")
    /\ answer' = [answer EXCEPT ![t] = end]

Send(t) ==
    /\ At(t, "send")
    /\ \/ /\ now >= banEnd
          /\ To(t, "idle")
          /\ UNCHANGED <<answer, banEnd, limits>>
       \/ /\ limits < MaxLimits
          /\ limits' = limits + 1
          /\ \/ \E end \in now + 1 .. MaxNow :
                   end > banEnd /\ banEnd' = end /\ Refused(t, end)
             \/ now >= banEnd /\ Refused(t, 0) /\ UNCHANGED banEnd
       \/ /\ now < banEnd /\ Refused(t, banEnd)
          /\ UNCHANGED <<banEnd, limits>>
    /\ asked' = [asked EXCEPT ![t] = 0]
    /\ UNCHANGED <<now, haltVars, recovering, known, reordered>>

(* _apply_rate_limit_halt, in its order: usage, bucket, hub status, timer.   *)
HaltEnd(t) == Later(answer[t], now + Halt)

NoteSafety(t) ==
    /\ At(t, "refused")
    /\ safetyUntil' = Later(safetyUntil, HaltEnd(t))
    /\ To(t, "halt")
    /\ UNCHANGED <<now, banEnd, limits, stopUntil, hubUntil, hubBan, klineHalted,
                   answer, recovering, histVars>>

NoteStop(t) ==
    /\ At(t, "halt")
    /\ stopUntil' = Later(stopUntil, HaltEnd(t))
    /\ To(t, "ban")
    /\ UNCHANGED <<now, banEnd, limits, safetyUntil, hubUntil, hubBan, klineHalted,
                   answer, recovering, histVars>>

NoteBan(t) ==
    /\ At(t, "ban")
    /\ hubBan' = IF answer[t] # 0 THEN answer[t] ELSE hubBan
    /\ reordered' = (reordered \/ answer[t] \in 1 .. banEnd - 1)
    /\ To(t, "timer")
    /\ UNCHANGED <<now, banEnd, limits, safetyUntil, stopUntil, hubUntil, klineHalted,
                   answer, recovering, known, asked>>

TimerForgotten(t) == hubUntil                                     \* mutant
NewTimer(t) == Later(hubUntil, HaltEnd(t))

NoteTimer(t) ==
    /\ At(t, "timer")
    /\ hubUntil' = NewTimer(t)
    /\ klineHalted' = (klineHalted \/ t \in Bootstrap)
    /\ known' = Later(known, answer[t])
    /\ answer' = [answer EXCEPT ![t] = 0]
    /\ To(t, "idle")
    /\ UNCHANGED <<now, banEnd, limits, safetyUntil, stopUntil, hubBan, recovering,
                   asked, reordered>>
-----------------------------------------------------------------------------
Tick ==
    /\ now < MaxNow /\ now' = now + 1
    /\ UNCHANGED <<banEnd, limits, haltVars, step, answer, recovering, histVars>>

CallStep(t) ==
    \/ StartCall(t) \/ ClearSafety(t) \/ ClearStop(t) \/ AskSafety(t) \/ AskStop(t)
    \/ Acquire(t) \/ Send(t)
    \/ NoteSafety(t) \/ NoteStop(t) \/ NoteBan(t) \/ NoteTimer(t)

RestNext == (\E t \in Callers : CallStep(t)) \/ Tick
-----------------------------------------------------------------------------
RestTypeOK ==
    /\ now \in 1 .. MaxNow /\ banEnd \in 0 .. MaxNow /\ limits \in 0 .. MaxLimits
    /\ safetyUntil \in 0 .. MaxNow + Halt /\ stopUntil \in 0 .. MaxNow + Halt
    /\ hubUntil \in 0 .. MaxNow + Halt
    /\ hubBan \in 0 .. MaxNow /\ known \in 0 .. MaxNow
    /\ klineHalted \in BOOLEAN /\ reordered \in BOOLEAN
    /\ step \in [Callers -> {"idle", "clear_safety", "clear_stop", "safety", "stop",
                             "acquire", "send", "refused", "halt", "ban", "timer"}]
    /\ answer \in [Callers -> 0 .. MaxNow] /\ asked \in [Callers -> 0 .. MaxNow]
    /\ recovering \in Callers \cup {Nobody}

(* "Hard-stop all REST for ban duration" (exchange.py:595): no call is sent     *)
(* that was started after the end of the running ban had been handled.  It     *)
(* holds for every lane but the orders' as long as no older end of a ban was   *)
(* handled after a later one.                                                *)
SilentInBan(t) == At(t, "send") => asked[t] <= now
BackgroundSilent == ~reordered => \A t \in Background \cup Bootstrap : SilentInBan(t)
=============================================================================
