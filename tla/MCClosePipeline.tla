-------------------------- MODULE MCClosePipeline --------------------------
(* ClosePipeline for TLC: the monitors are interchangeable, a run whose     *)
(* properties do not read the fill counts leaves them out of the state,     *)
(* with what no later step of a task reads, and the stop whose breach is    *)
(* followed to its end.                                                     *)
EXTENDS ClosePipeline, TLC

MonitorSymmetry == Permutations(Monitors)

(* Only the close of a level reads the flags its task carries; at the end of *)
(* its turn the worker needs the key, and a monitor that marks needs nothing. *)
LiveTask(task) == IF task.key \in FullReasons THEN [task EXCEPT !.flags = {}] ELSE task
LiveOf(t) ==
    CASE t = "worker" /\ pc[t] \in {"release", "done"} -> [Idle EXCEPT !.task.key = Task.key]
      [] t # "worker" /\ pc[t] \in {"mark", "closing", "release"} -> [Idle EXCEPT !.own = loc[t].own]
      [] OTHER -> [loc[t] EXCEPT !.task = LiveTask(@)]

WithoutFills ==
    <<row, pos, claim, inflight, [i \in DOMAIN queue |-> LiveTask(queue[i])], attempts,
      mutex, pc, [t \in Threads |-> LiveOf(t)], adds, crashes, lapsed>>

StopLossSpec == FairSpec /\ BreachFairness("STOP_LOSS")
=============================================================================
