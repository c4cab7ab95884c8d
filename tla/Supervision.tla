---------------------------- MODULE Supervision -----------------------------
(***************************************************************************)
(* Which main process trades: the lock file of core/instance_lock.py, one   *)
(* system call per step; main.py's loop around main() with its crash        *)
(* budget; the heartbeat file and the watchdog that judges it and starts a  *)
(* main process when none is left.                                          *)
(*                                                                         *)
(* A process is its pid.  A pid that no file names any more may be given    *)
(* out again.  An inode of the lock file lives while the path or an open    *)
(* descriptor names it; flock is on the inode, not on the path.             *)
(***************************************************************************)
EXTENDS Integers, FiniteSets

CONSTANTS
    Pids,           \* process ids
    Inodes,         \* inodes the lock file may have
    None,           \* no pid, no inode
    CrashLimit,     \* Config.max_crash_auto_restarts()
    MaxFaults       \* kills, hangs, crashes and requests in a behaviour

ASSUME SupervisionAssumption ==
    /\ None \notin Pids /\ None \notin Inodes
    /\ MaxFaults \in Nat

VARIABLES
    stage,      \* process -> where it is
    lockFd,     \* process -> the inode it has open
    held,       \* process -> _LOCK_FD is set
    seen,       \* process -> the pid release_main_lock read
    request,    \* process -> BotController's flags
    how,        \* process -> how its main() ended
    restarts,   \* process -> restart_count of run_with_auto_restart
    path,       \* the inode main_instance.lock names
    content,    \* inode -> the pid written in it
    flock,      \* inode -> the process that holds its flock
    beat,       \* bot_heartbeat.json: pid, and whether it is recent
    watchdog,   \* where the watchdog is
    due,        \* "main_restart_attempt" may be made again
    faults,
    orphaned    \* a lock file was removed that another process had open (history)

procVars == <<stage, lockFd, held, seen, request, how, restarts>>
fileVars == <<path, content, flock>>
supervisionVars == <<procVars, fileVars, beat, watchdog, due, faults, orphaned>>

Alive(p) == stage[p] # "dead"
Trading(p) == stage[p] \in {"setup", "run", "hung"}

SupervisionInit ==
    /\ stage = [p \in Pids |-> "dead"]
    /\ lockFd = [p \in Pids |-> None]
    /\ held = [p \in Pids |-> FALSE]
    /\ seen = [p \in Pids |-> None]
    /\ request = [p \in Pids |-> "none"]
    /\ how = [p \in Pids |-> "stop"]
    /\ restarts = [p \in Pids |-> 0]
    /\ path = None
    /\ content = [i \in Inodes |-> None]
    /\ flock = [i \in Inodes |-> None]
    /\ beat = [pid |-> None, fresh |-> FALSE]
    /\ watchdog = "idle"
    /\ due = TRUE
    /\ faults = 0
    /\ orphaned = FALSE

Goes(p, label) == stage' = [stage EXCEPT ![p] = label]
Fault == faults < MaxFaults /\ faults' = faults + 1

(* Ending a process closes its descriptors, and that gives back its flock.  *)
Ends(p) ==
    /\ Goes(p, "dead")
    /\ lockFd' = [lockFd EXCEPT ![p] = None]
    /\ held' = [held EXCEPT ![p] = FALSE]
    /\ seen' = [seen EXCEPT ![p] = None]
    /\ request' = [request EXCEPT ![p] = "none"]
    /\ how' = [how EXCEPT ![p] = "stop"]
    /\ restarts' = [restarts EXCEPT ![p] = 0]
    /\ flock' = [i \in Inodes |-> IF flock[i] = p THEN None ELSE flock[i]]
-----------------------------------------------------------------------------
(* acquire_main_lock, first half: the pid on file, unless the lock is ours   *)
(* from the main() before.  Refused, main() and with it the process ends.    *)
HeldByAnother(p) ==
    /\ path # None
    /\ content[path] \notin {None, p}
    /\ Alive(content[path])

CheckLock(p) ==
    /\ stage[p] = "check"
    /\ \/ held[p] /\ Goes(p, "setup") /\ UNCHANGED <<lockFd, held, seen, request, how,
                                                     restarts, flock>>
       \/ ~held[p] /\ ~HeldByAnother(p) /\ Goes(p, "open")
          /\ UNCHANGED <<lockFd, held, seen, request, how, restarts, flock>>
       \/ ~held[p] /\ HeldByAnother(p) /\ Ends(p)
    /\ UNCHANGED <<path, content, beat, watchdog, due, faults, orphaned>>

Unused == {i \in Inodes : i # path /\ \A p \in Pids : lockFd[p] # i}

(* The file is opened without truncating it: a holder's pid stays.           *)
OpenKept == content

OpenLock(p) ==
    /\ stage[p] = "open"
    /\ \/ /\ path # None
          /\ lockFd' = [lockFd EXCEPT ![p] = path]
          /\ content' = OpenKept
          /\ UNCHANGED path
       \/ /\ path = None
          /\ \E i \in Unused :
                /\ path' = i
                /\ content' = [content EXCEPT ![i] = None]
                /\ lockFd' = [lockFd EXCEPT ![p] = i]
    /\ Goes(p, "flock")
    /\ UNCHANGED <<held, seen, request, how, restarts, flock, beat, watchdog, due,
                   faults, orphaned>>

FreeAnyway(i) == TRUE                                             \* mutant
Free(i) == flock[i] = None

FlockLock(p) ==
    /\ stage[p] = "flock"
    /\ \/ /\ Free(lockFd[p])
          /\ flock' = [flock EXCEPT ![lockFd[p]] = p]
          /\ Goes(p, "write")
          /\ UNCHANGED <<lockFd, held, seen, request, how, restarts>>
       \/ ~Free(lockFd[p]) /\ Ends(p)
    /\ UNCHANGED <<path, content, beat, watchdog, due, faults, orphaned>>

(* The pid is written; main() resets its controller.                         *)
WriteLock(p) ==
    /\ stage[p] = "write"
    /\ content' = [content EXCEPT ![lockFd[p]] = p]
    /\ held' = [held EXCEPT ![p] = TRUE]
    /\ Goes(p, "setup")
    /\ UNCHANGED <<lockFd, seen, request, how, restarts, path, flock, beat, watchdog,
                   due, faults, orphaned>>
-----------------------------------------------------------------------------
(* From the lock to the loop.  What raises before main()'s try leaves the    *)
(* lock held for the next main() of the same process.                        *)
Setup(p) ==
    /\ stage[p] = "setup"
    /\ \/ /\ Goes(p, "run")
          /\ request' = [request EXCEPT ![p] = "none"]
          /\ beat' = [pid |-> p, fresh |-> TRUE]
          /\ UNCHANGED <<how, faults>>
       \/ /\ Fault
          /\ Goes(p, "ended")
          /\ how' = [how EXCEPT ![p] = "crash"]
          /\ UNCHANGED <<request, beat>>
    /\ UNCHANGED <<lockFd, held, seen, restarts, fileVars, watchdog, due, orphaned>>

Beat(p) ==
    /\ stage[p] = "run"
    /\ beat' = [pid |-> p, fresh |-> TRUE]
    /\ UNCHANGED <<procVars, fileVars, watchdog, due, faults, orphaned>>

(* /stop and /restart set the controller's flags.                            *)
Request(p) ==
    /\ stage[p] = "run" /\ request[p] = "none"
    /\ Fault
    /\ \E r \in {"stop", "restart"} : request' = [request EXCEPT ![p] = r]
    /\ UNCHANGED <<stage, lockFd, held, seen, how, restarts, fileVars, beat, watchdog,
                   due, orphaned>>

(* The loop ends as requested, or by an exception, also one raised while it  *)
(* is shutting down; the finally clause releases the lock either way.        *)
Finish(p) ==
    /\ stage[p] = "run"
    /\ \/ request[p] # "none" /\ how' = [how EXCEPT ![p] = request[p]] /\ UNCHANGED faults
       \/ how' = [how EXCEPT ![p] = "crash"] /\ Fault
    /\ Goes(p, "release")
    /\ UNCHANGED <<lockFd, held, seen, request, restarts, fileVars, beat, watchdog, due,
                   orphaned>>

(* release_main_lock.                                                        *)
ReadRelease(p) ==
    /\ stage[p] = "release"
    /\ seen' = [seen EXCEPT ![p] = IF path = None THEN None ELSE content[path]]
    /\ Goes(p, "unlock")
    /\ UNCHANGED <<lockFd, held, request, how, restarts, fileVars, beat, watchdog, due,
                   faults, orphaned>>

Unlock(p) ==
    /\ stage[p] = "unlock"
    /\ flock' = [flock EXCEPT ![lockFd[p]] = None]
    /\ lockFd' = [lockFd EXCEPT ![p] = None]
    /\ held' = [held EXCEPT ![p] = FALSE]
    /\ Goes(p, "unlink")
    /\ UNCHANGED <<seen, request, how, restarts, path, content, beat, watchdog, due,
                   faults, orphaned>>

Removes(p) == seen[p] \in {None, p}

Unlink(p) ==
    /\ stage[p] = "unlink"
    /\ IF Removes(p)
       THEN /\ path' = None
            /\ orphaned' = (orphaned \/ \E q \in Pids : path # None /\ lockFd[q] = path)
       ELSE UNCHANGED <<path, orphaned>>
    /\ seen' = [seen EXCEPT ![p] = None]
    /\ Goes(p, "ended")
    /\ UNCHANGED <<lockFd, held, request, how, restarts, content, flock, beat, watchdog,
                   due, faults>>

(* run_with_auto_restart: a graceful restart counts like a crash, and only   *)
(* a crash asks whether there were too many.                                 *)
Exhausted(p) == how[p] = "crash" /\ restarts[p] + 1 > CrashLimit

AfterMain(p) ==
    /\ stage[p] = "ended"
    /\ \/ how[p] = "stop" /\ Ends(p)
       \/ Exhausted(p) /\ Ends(p)
       \/ /\ how[p] # "stop" /\ ~Exhausted(p)
          /\ Goes(p, "check")
          /\ restarts' = [restarts EXCEPT ![p] = @ + 1]
          /\ request' = [request EXCEPT ![p] = "none"]
          /\ UNCHANGED <<lockFd, held, seen, how, flock>>
    /\ UNCHANGED <<path, content, beat, watchdog, due, faults, orphaned>>
-----------------------------------------------------------------------------
(* A new process gets a pid that no process and no file has.                  *)
Born(p) ==
    /\ stage[p] = "dead"
    /\ beat.pid # p
    /\ \A i \in Inodes : content[i] # p \/ i \in Unused
    /\ \A q \in Pids : seen[q] # p
    /\ Goes(p, "check")

(* An operator, the launcher or systemd starts a main process.               *)
Start(p) ==
    /\ Fault
    /\ Born(p)
    /\ UNCHANGED <<lockFd, held, seen, request, how, restarts, fileVars, beat, watchdog,
                   due, orphaned>>

Kill(p) ==
    /\ Alive(p)
    /\ Fault
    /\ Ends(p)
    /\ UNCHANGED <<path, content, beat, watchdog, due, orphaned>>

(* The process lives and its loop does not.                                  *)
Hang(p) ==
    /\ stage[p] = "run"
    /\ Fault
    /\ Goes(p, "hung")
    /\ UNCHANGED <<lockFd, held, seen, request, how, restarts, fileVars, beat, watchdog,
                   due, orphaned>>

(* Time: a heartbeat gets old, the alert interval passes.                    *)
BeatAges ==
    /\ beat.fresh
    /\ beat' = [beat EXCEPT !.fresh = FALSE]
    /\ UNCHANGED <<procVars, fileVars, watchdog, due, faults, orphaned>>

WindowPasses ==
    /\ ~due /\ due' = TRUE
    /\ UNCHANGED <<procVars, fileVars, beat, watchdog, faults, orphaned>>
-----------------------------------------------------------------------------
(* is_main_process_running: the heartbeat's pid decides when there is one;   *)
(* then the lock's; then the process list.                                  *)
LockAlive == path # None /\ content[path] # None /\ Alive(content[path])
ProcessRunning ==
    IF beat.pid # None THEN Alive(beat.pid)
    ELSE LockAlive \/ \E p \in Pids : Alive(p)

(* check_main_bot_health: restart only when the heartbeat is old and the     *)
(* process gone, and once per interval.                                      *)
AllowWhenBeaten == beat.fresh /\ ~ProcessRunning                  \* mutant
AllowRestart == ~beat.fresh /\ ~ProcessRunning

Judge ==
    /\ watchdog = "idle"
    /\ AllowRestart /\ due
    /\ due' = FALSE
    /\ watchdog' = "restart"
    /\ UNCHANGED <<procVars, fileVars, beat, faults, orphaned>>

(* _maybe_restart_main looks once more and then spawns.                      *)
LookAgain ==
    /\ watchdog = "restart"
    /\ watchdog' = IF LockAlive \/ ProcessRunning THEN "idle" ELSE "spawn"
    /\ UNCHANGED <<procVars, fileVars, beat, due, faults, orphaned>>

SpawnMain(p) ==
    /\ watchdog = "spawn"
    /\ Born(p)
    /\ watchdog' = "idle"
    /\ UNCHANGED <<lockFd, held, seen, request, how, restarts, fileVars, beat, due,
                   faults, orphaned>>

Restart == LookAgain \/ \E p \in Pids : SpawnMain(p)

(* What the thread of a process does next of its own.                        *)
OwnStep(p) ==
    \/ request[p] # "none" /\ Finish(p)
    \/ CheckLock(p) \/ OpenLock(p) \/ FlockLock(p) \/ WriteLock(p)
    \/ Setup(p) \/ ReadRelease(p) \/ Unlock(p) \/ Unlink(p) \/ AfterMain(p)

SupervisionNext ==
    \/ \E p \in Pids : \/ OwnStep(p) \/ Beat(p) \/ Request(p) \/ Finish(p)
                       \/ Start(p) \/ Kill(p) \/ Hang(p)
    \/ BeatAges \/ WindowPasses \/ Judge \/ Restart

SupervisionSpec == SupervisionInit /\ [][SupervisionNext]_supervisionVars

(* Processes and the watchdog run, time passes, a request is followed.       *)
SupervisionFairness ==
    /\ \A p \in Pids : WF_supervisionVars(OwnStep(p))
    /\ SF_supervisionVars(Judge)
    /\ WF_supervisionVars(Restart)
    /\ WF_supervisionVars(BeatAges)
    /\ WF_supervisionVars(WindowPasses)
-----------------------------------------------------------------------------
SupervisionTypeOK ==
    /\ stage \in [Pids -> {"check", "open", "flock", "write", "setup",
                        "run", "hung", "release", "unlock", "unlink", "ended", "dead"}]
    /\ lockFd \in [Pids -> Inodes \cup {None}]
    /\ held \in [Pids -> BOOLEAN]
    /\ seen \in [Pids -> Pids \cup {None}]
    /\ request \in [Pids -> {"none", "stop", "restart"}]
    /\ how \in [Pids -> {"stop", "restart", "crash"}]
    /\ restarts \in [Pids -> 0 .. MaxFaults]
    /\ path \in Inodes \cup {None}
    /\ content \in [Inodes -> Pids \cup {None}]
    /\ flock \in [Inodes -> Pids \cup {None}]
    /\ beat \in [pid : Pids \cup {None}, fresh : BOOLEAN]
    /\ watchdog \in {"idle", "restart", "spawn"}
    /\ due \in BOOLEAN /\ orphaned \in BOOLEAN
    /\ faults \in 0 .. MaxFaults

(* "Single-instance lock for main.py" (instance_lock.py:1): two main          *)
(* processes never trade at the same time.                                   *)
SingleInstance == \A p, q \in Pids : Trading(p) /\ Trading(q) => p = q

(* The one hole in that promise: a lock file that was removed while another  *)
(* process had it open, after its holder had read it and unlocked it.        *)
OneMain == ~orphaned => SingleInstance

(* Whatever was killed, crashed, given up or stopped: again and again there  *)
(* is a main process that has the lock.  (A hung one is only alerted about.) *)
MainComesBack == []<>(\E p \in Pids : Trading(p))
=============================================================================
