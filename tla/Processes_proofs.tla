-------------------------- MODULE Processes_proofs --------------------------
(* What holds of the bot's processes however many there are: one main        *)
(* process at a time, as long as no lock file was removed from under another *)
(* process, and one side at a time that sells a trade, as long as no claim   *)
(* was removed from under its writer.                                       *)
EXTENDS MCProcesses, TLAPS

USE DEF Goes, Fault, procVars, fileVars
-----------------------------------------------------------------------------
(*************************** The instance lock ****************************)

(* A process that will be charged a restart when its main() is over; the    *)
(* crash or the request that it is charged for is among the faults.         *)
Owes(p) ==
    \/ stage[p] \in {"release", "unlock", "unlink", "ended"}
    \/ stage[p] = "run" /\ request[p] # "none"
Paid == \A p \in Pids : restarts[p] + (IF Owes(p) THEN 1 ELSE 0) <= faults

LockTypes == SupervisionTypeOK /\ Paid

(* Ending a process keeps the types of what it owns.                        *)
LEMMA EndsTypes ==
    ASSUME NEW p \in Pids, LockTypes, Ends(p),
           UNCHANGED <<path, content, beat, watchdog, due, orphaned>>,
           faults' \in 0 .. MaxFaults, faults <= faults'
    PROVE  LockTypes'
<1>1. /\ stage' = [stage EXCEPT ![p] = "dead"]
      /\ request' = [request EXCEPT ![p] = "none"]
      /\ restarts' = [restarts EXCEPT ![p] = 0]
  BY DEF Ends
<1>2. SupervisionTypeOK'
  BY SupervisionAssumption DEF LockTypes, SupervisionTypeOK, Ends
<1>3. Paid'
  <2> SUFFICES ASSUME NEW q \in Pids
               PROVE (restarts[q] + (IF Owes(q) THEN 1 ELSE 0) <= faults)'
    BY DEF Paid
  <2>1. CASE q = p
    BY <1>1, <2>1 DEF LockTypes, SupervisionTypeOK, Owes
  <2>2. CASE q # p
    <3>1. restarts'[q] = restarts[q] /\ Owes(q)' = Owes(q)
      BY <1>1, <2>2 DEF LockTypes, SupervisionTypeOK, Owes
    <3>2. restarts[q] + (IF Owes(q) THEN 1 ELSE 0) <= faults
      BY DEF LockTypes, Paid
    <3> QED BY <3>1, <3>2, SupervisionAssumption DEF LockTypes, SupervisionTypeOK
  <2> QED BY <2>1, <2>2
<1> QED BY <1>2, <1>3 DEF LockTypes

(* A step of one process keeps what the others owe, and its own account is   *)
(* judged by its own new state.                                             *)
Apart(p) ==
    \A q \in Pids \ {p} : /\ stage'[q] = stage[q]
                          /\ request'[q] = request[q]
                          /\ restarts'[q] = restarts[q]

LEMMA PaidStep ==
    ASSUME NEW p \in Pids, LockTypes, SupervisionTypeOK', Apart(p),
           faults <= faults', restarts'[p] <= faults',
           restarts'[p] + 1 <= faults' \/ ~Owes(p)'
    PROVE  LockTypes'
<1>1. Paid'
  <2> SUFFICES ASSUME NEW q \in Pids
               PROVE (restarts[q] + (IF Owes(q) THEN 1 ELSE 0) <= faults)'
    BY DEF Paid
  <2>1. CASE q = p
    BY <2>1, SupervisionAssumption DEF SupervisionTypeOK
  <2>2. CASE q # p
    <3>1. restarts'[q] = restarts[q] /\ Owes(q)' = Owes(q)
      BY <2>2 DEF Apart, Owes
    <3>2. restarts[q] + (IF Owes(q) THEN 1 ELSE 0) <= faults
      BY DEF LockTypes, Paid
    <3> QED BY <3>1, <3>2, SupervisionAssumption DEF LockTypes, SupervisionTypeOK
  <2> QED BY <2>1, <2>2
<1> QED BY <1>1 DEF LockTypes

LEMMA LockTypesInit == SupervisionInit => LockTypes
<1> SUFFICES ASSUME SupervisionInit PROVE LockTypes
  OBVIOUS
<1>1. restarts \in [Pids -> 0 .. MaxFaults] /\ faults \in 0 .. MaxFaults
  BY SupervisionAssumption DEF SupervisionInit
<1>2. beat \in [pid : Pids \cup {None}, fresh : BOOLEAN]
  BY DEF SupervisionInit
<1>3. SupervisionTypeOK
  BY <1>1, <1>2 DEF SupervisionInit, SupervisionTypeOK
<1>4. Paid
  BY SupervisionAssumption DEF SupervisionInit, Paid, Owes
<1> QED BY <1>3, <1>4 DEF LockTypes

(* What a process owes was paid for.                                        *)
LEMMA Account ==
    ASSUME NEW p \in Pids, LockTypes
    PROVE  /\ SupervisionTypeOK
           /\ faults \in 0 .. MaxFaults
           /\ restarts[p] \in 0 .. MaxFaults
           /\ restarts[p] <= faults
           /\ Owes(p) => restarts[p] + 1 <= faults
BY SupervisionAssumption DEF LockTypes, SupervisionTypeOK, Paid

(* The way of a process to the lock, call by call.                          *)
LEMMA LockStepTypes ==
    ASSUME NEW p \in Pids, LockTypes, ~Ends(p),
           CheckLock(p) \/ OpenLock(p) \/ FlockLock(p) \/ WriteLock(p)
    PROVE  LockTypes'
<1> USE Account
<1>1. SupervisionTypeOK'
  <2>1. CASE CheckLock(p) \/ FlockLock(p)
    BY <2>1 DEF CheckLock, FlockLock, SupervisionTypeOK
  <2>2. CASE WriteLock(p)
    BY <2>2 DEF WriteLock, SupervisionTypeOK
  <2>3. CASE OpenLock(p)
    <3>1. path' \in Inodes \cup {None} /\ lockFd' \in [Pids -> Inodes \cup {None}]
          /\ content' \in [Inodes -> Pids \cup {None}]
      BY <2>3 DEF OpenLock, OpenKept, Unused, SupervisionTypeOK
    <3> QED BY <2>3, <3>1 DEF OpenLock, SupervisionTypeOK
  <2> QED BY <2>1, <2>2, <2>3
<1>2. Apart(p) /\ UNCHANGED <<restarts, faults>>
  BY DEF CheckLock, OpenLock, FlockLock, WriteLock, Apart, SupervisionTypeOK
<1>3. ~Owes(p)'
  BY DEF CheckLock, OpenLock, FlockLock, WriteLock, Owes, SupervisionTypeOK
<1> QED BY <1>1, <1>2, <1>3, PaidStep

LEMMA SetupTypes ==
    ASSUME NEW p \in Pids, LockTypes, Setup(p)
    PROVE  LockTypes'
<1> USE Account
<1>1. CASE Goes(p, "run") /\ request' = [request EXCEPT ![p] = "none"]
           /\ beat' = [pid |-> p, fresh |-> TRUE] /\ UNCHANGED <<how, faults>>
  <2>1. SupervisionTypeOK'
    BY <1>1 DEF Setup, SupervisionTypeOK
  <2>2. Apart(p) /\ ~Owes(p)' /\ UNCHANGED <<restarts, faults>>
    BY <1>1 DEF Setup, Apart, Owes, SupervisionTypeOK
  <2> QED BY <2>1, <2>2, PaidStep
<1>2. CASE Fault /\ Goes(p, "ended") /\ how' = [how EXCEPT ![p] = "crash"]
           /\ UNCHANGED <<request, beat>>
  <2>1. SupervisionTypeOK'
    BY <1>2, SupervisionAssumption DEF Setup, SupervisionTypeOK
  <2>2. Apart(p) /\ UNCHANGED restarts
    BY <1>2 DEF Setup, Apart, SupervisionTypeOK
  <2>3. faults <= faults' /\ restarts'[p] <= faults' /\ restarts'[p] + 1 <= faults'
    BY <1>2, <2>2
  <2> QED BY <2>1, <2>2, <2>3, PaidStep
<1> QED BY <1>1, <1>2 DEF Setup

(* The end of a main(): what it was charged with stays on its account.      *)
LEMMA FinishTypes ==
    ASSUME NEW p \in Pids, LockTypes, Finish(p)
    PROVE  LockTypes'
<1> USE Account
<1>1. SupervisionTypeOK'
  BY SupervisionAssumption DEF Finish, SupervisionTypeOK
<1>2. Apart(p) /\ UNCHANGED restarts
  BY DEF Finish, Apart, SupervisionTypeOK
<1>3. faults <= faults' /\ restarts[p] + 1 <= faults'
  BY DEF Finish, Owes
<1>4. restarts'[p] <= faults' /\ restarts'[p] + 1 <= faults'
  BY <1>1, <1>2, <1>3, SupervisionAssumption DEF SupervisionTypeOK
<1> QED BY <1>1, <1>2, <1>3, <1>4, PaidStep

LEMMA ReleaseTypes ==
    ASSUME NEW p \in Pids, LockTypes, ReadRelease(p) \/ Unlock(p) \/ Unlink(p)
    PROVE  LockTypes'
<1> USE Account
<1>1. SupervisionTypeOK'
  <2>1. CASE ReadRelease(p)
    BY <2>1 DEF ReadRelease, SupervisionTypeOK
  <2>2. CASE Unlock(p)
    BY <2>2 DEF Unlock, SupervisionTypeOK
  <2>3. CASE Unlink(p)
    BY <2>3 DEF Unlink, SupervisionTypeOK
  <2> QED BY <2>1, <2>2, <2>3
<1>2. Apart(p) /\ Owes(p) /\ UNCHANGED <<restarts, faults>>
  BY DEF ReadRelease, Unlock, Unlink, Apart, Owes, SupervisionTypeOK
<1> QED BY <1>1, <1>2, PaidStep

LEMMA AfterMainTypes ==
    ASSUME NEW p \in Pids, LockTypes, AfterMain(p), ~Ends(p)
    PROVE  LockTypes'
<1> USE Account
<1>1. restarts' = [restarts EXCEPT ![p] = @ + 1] /\ UNCHANGED faults
  BY DEF AfterMain
<1>2. restarts[p] + 1 <= faults
  BY DEF AfterMain, Owes
<1>3. restarts[p] + 1 \in 0 .. MaxFaults
  BY <1>2, SupervisionAssumption
<1>4. SupervisionTypeOK'
  BY <1>1, <1>3 DEF AfterMain, SupervisionTypeOK
<1>5. Apart(p) /\ ~Owes(p)' /\ restarts'[p] = restarts[p] + 1
  BY DEF AfterMain, Apart, Owes, SupervisionTypeOK
<1> QED BY <1>1, <1>2, <1>4, <1>5, PaidStep

(* What a process does between two faults.                                  *)
LEMMA OwnStepTypes ==
    ASSUME NEW p \in Pids, LockTypes, OwnStep(p)
    PROVE  LockTypes'
<1>1. CASE Ends(p) /\ (CheckLock(p) \/ FlockLock(p) \/ AfterMain(p))
  <2>1. UNCHANGED <<path, content, beat, watchdog, due, faults, orphaned>>
    BY <1>1 DEF CheckLock, FlockLock, AfterMain
  <2> QED BY <1>1, <2>1, EndsTypes, Account
<1>2. CASE ~Ends(p) /\ (CheckLock(p) \/ FlockLock(p) \/ AfterMain(p))
  BY <1>2, LockStepTypes, AfterMainTypes
<1>3. CASE OpenLock(p) \/ WriteLock(p)
  <2>1. ~Ends(p)
    BY <1>3 DEF OpenLock, WriteLock, Ends, LockTypes, SupervisionTypeOK
  <2> QED BY <1>3, <2>1, LockStepTypes
<1>4. CASE Setup(p) \/ Finish(p) \/ ReadRelease(p) \/ Unlock(p) \/ Unlink(p)
  BY <1>4, SetupTypes, FinishTypes, ReleaseTypes
<1> QED BY <1>1, <1>2, <1>3, <1>4 DEF OwnStep

LEMMA RequestTypes ==
    ASSUME NEW p \in Pids, LockTypes, Request(p)
    PROVE  LockTypes'
<1> USE Account
<1>1. SupervisionTypeOK'
  BY SupervisionAssumption DEF Request, SupervisionTypeOK
<1>2. Apart(p) /\ UNCHANGED restarts
  BY DEF Request, Apart, SupervisionTypeOK
<1>3. faults <= faults' /\ restarts[p] + 1 <= faults'
  BY DEF Request
<1>4. restarts'[p] <= faults' /\ restarts'[p] + 1 <= faults'
  BY <1>1, <1>2, <1>3, SupervisionAssumption DEF SupervisionTypeOK
<1> QED BY <1>1, <1>2, <1>3, <1>4, PaidStep

(* A process is started, or stands still.                                   *)
LEMMA BirthTypes ==
    ASSUME NEW p \in Pids, LockTypes, Start(p) \/ SpawnMain(p) \/ Hang(p)
    PROVE  LockTypes'
<1> USE Account
<1>1. SupervisionTypeOK'
  BY SupervisionAssumption DEF Start, SpawnMain, Hang, Born, SupervisionTypeOK
<1>2. Apart(p) /\ ~Owes(p)' /\ UNCHANGED restarts
  BY DEF Start, SpawnMain, Hang, Born, Apart, Owes, SupervisionTypeOK
<1>3. faults <= faults' /\ restarts[p] <= faults'
  BY DEF Start, SpawnMain, Hang
<1> QED BY <1>1, <1>2, <1>3, PaidStep

LEMMA KillTypes ==
    ASSUME NEW p \in Pids, LockTypes, Kill(p)
    PROVE  LockTypes'
<1>1. faults' \in 0 .. MaxFaults /\ faults <= faults'
  BY Account, SupervisionAssumption DEF Kill
<1> QED BY <1>1, EndsTypes DEF Kill

(* The steps that leave the accounts alone.                                 *)
LEMMA OtherTypes ==
    ASSUME LockTypes,
           \/ \E p \in Pids : Beat(p)
           \/ BeatAges \/ WindowPasses \/ Judge \/ LookAgain
           \/ UNCHANGED supervisionVars
    PROVE  LockTypes'
<1>1. UNCHANGED <<procVars, faults>>
  BY DEF Beat, BeatAges, WindowPasses, Judge, LookAgain, supervisionVars
<1>2. UNCHANGED <<path, content, flock, orphaned>>
  BY DEF Beat, BeatAges, WindowPasses, Judge, LookAgain, supervisionVars
<1>3. beat' \in [pid : Pids \cup {None}, fresh : BOOLEAN]
  <2>1. beat \in [pid : Pids \cup {None}, fresh : BOOLEAN]
    BY DEF LockTypes, SupervisionTypeOK
  <2>2. CASE \E p \in Pids : Beat(p)
    BY <2>2 DEF Beat
  <2>3. CASE BeatAges
    BY <2>1, <2>3 DEF BeatAges
  <2>4. CASE UNCHANGED beat
    BY <2>1, <2>4
  <2> QED BY <2>2, <2>3, <2>4 DEF WindowPasses, Judge, LookAgain, supervisionVars
<1>4. watchdog' \in {"idle", "restart", "spawn"} /\ due' \in BOOLEAN
  BY DEF Beat, BeatAges, WindowPasses, Judge, LookAgain, supervisionVars,
         LockTypes, SupervisionTypeOK
<1>5. SupervisionTypeOK'
  BY <1>1, <1>2, <1>3, <1>4 DEF LockTypes, SupervisionTypeOK
<1> QED BY <1>1, <1>5 DEF LockTypes, Paid, Owes

LEMMA LockTypesStep == LockTypes /\ [SupervisionNext]_supervisionVars => LockTypes'
BY OwnStepTypes, FinishTypes, RequestTypes, BirthTypes, KillTypes, OtherTypes
DEF SupervisionNext, Restart

(* The type invariant of the processes, their lock files and the watchdog.   *)
THEOREM SupervisionTypes == SupervisionSpec => []SupervisionTypeOK
<1>1. LockTypes => SupervisionTypeOK
  BY DEF LockTypes
<1> QED BY <1>1, LockTypesInit, LockTypesStep, PTL DEF SupervisionSpec
-----------------------------------------------------------------------------
(* The flock of a process that got the lock is on the inode it has open,    *)
(* from the call that gave it to the one that gives it back; and as long as  *)
(* nothing was removed from under a process, the only inode that anybody     *)
(* has open is the one the path names.                                      *)
Located(p) == lockFd[p] # None => lockFd[p] = path
Locker(p) ==
    \/ stage[p] \in {"write", "setup", "run", "hung", "release", "unlock"}
    \/ held[p]
HasFlock(p) == lockFd[p] # None /\ flock[lockFd[p]] = p

AllLocated == ~orphaned => \A p \in Pids : Located(p)
Waits(p) == /\ stage[p] \in {"open", "flock", "write"} => ~held[p]
            /\ stage[p] = "flock" => lockFd[p] # None
LockInv ==
    /\ AllLocated
    /\ \A p \in Pids : Locker(p) => HasFlock(p)
    /\ \A p \in Pids : Waits(p)

LEMMA LockInit == SupervisionInit => LockInv
BY DEF SupervisionInit, LockInv, AllLocated, Located, Locker, HasFlock, Waits

(* Whoever ends gives back its own flock and nobody else's.                  *)
LEMMA EndsLock ==
    ASSUME NEW p \in Pids, SupervisionTypeOK, LockInv, Ends(p), UNCHANGED <<path, orphaned>>
    PROVE  LockInv'
<1>1. \A q \in Pids \ {p} : /\ stage'[q] = stage[q] /\ held'[q] = held[q]
                            /\ lockFd'[q] = lockFd[q]
  BY DEF Ends, SupervisionTypeOK
<1>2. stage'[p] = "dead" /\ ~held'[p] /\ lockFd'[p] = None
  BY DEF Ends, SupervisionTypeOK
<1>3. AllLocated'
  BY <1>1, <1>2 DEF LockInv, AllLocated, Located
<1>4. ASSUME NEW q \in Pids, Locker(q)' PROVE HasFlock(q)'
  <2>1. q # p
    BY <1>2, <1>4 DEF Locker
  <2>2. HasFlock(q) /\ lockFd[q] \in Inodes
    BY <1>1, <1>4, <2>1 DEF Locker, LockInv, HasFlock, SupervisionTypeOK
  <2> QED BY <1>1, <2>1, <2>2 DEF HasFlock, Ends
<1>5. ASSUME NEW q \in Pids PROVE Waits(q)'
  BY <1>1, <1>2, <1>5 DEF Waits, LockInv
<1> QED BY <1>3, <1>4, <1>5 DEF LockInv

(* A step that moves one process and leaves descriptors and locks alone.     *)
LEMMA QuietLock ==
    ASSUME NEW p \in Pids, SupervisionTypeOK, LockInv,
           UNCHANGED <<lockFd, held, path, flock, orphaned>>,
           \A q \in Pids \ {p} : stage'[q] = stage[q],
           Locker(p)' => Locker(p), Waits(p)'
    PROVE  LockInv'
<1>1. ASSUME NEW q \in Pids, Locker(q)' PROVE HasFlock(q)'
  <2>1. Locker(q)
    BY <1>1 DEF Locker
  <2> QED BY <2>1 DEF LockInv, HasFlock
<1>2. ASSUME NEW q \in Pids PROVE Waits(q)'
  BY <1>2 DEF Waits, LockInv
<1>3. AllLocated'
  BY DEF LockInv, AllLocated, Located
<1> QED BY <1>1, <1>2, <1>3 DEF LockInv

LEMMA OpenLocks ==
    ASSUME NEW p \in Pids, SupervisionTypeOK, LockInv, OpenLock(p)
    PROVE  LockInv'
<1>1. \A q \in Pids \ {p} : stage'[q] = stage[q] /\ lockFd'[q] = lockFd[q]
  BY DEF OpenLock, SupervisionTypeOK
<1>2. stage'[p] = "flock" /\ ~held[p] /\ lockFd'[p] = path' /\ path' # None
  BY SupervisionAssumption DEF OpenLock, Unused, SupervisionTypeOK, LockInv, Waits
<1>3. UNCHANGED <<held, flock, orphaned>>
  BY DEF OpenLock
<1>4. path # None => path' = path
  BY DEF OpenLock
<1>5. AllLocated'
  BY <1>1, <1>2, <1>3, <1>4 DEF LockInv, AllLocated, Located
<1>6. ASSUME NEW q \in Pids, Locker(q)' PROVE HasFlock(q)'
  BY <1>1, <1>2, <1>3, <1>6 DEF Locker, LockInv, HasFlock
<1>7. ASSUME NEW q \in Pids PROVE Waits(q)'
  BY <1>1, <1>2, <1>3, <1>7 DEF Waits, LockInv
<1> QED BY <1>5, <1>6, <1>7 DEF LockInv

(* flock is granted on an inode that nobody has locked.                     *)
LEMMA FlockLocks ==
    ASSUME NEW p \in Pids, SupervisionTypeOK, LockInv, FlockLock(p), ~Ends(p)
    PROVE  LockInv'
<1>1. \A q \in Pids \ {p} : stage'[q] = stage[q]
  BY DEF FlockLock, SupervisionTypeOK
<1>2. /\ stage[p] = "flock" /\ stage'[p] = "write"
      /\ lockFd[p] \in Inodes /\ flock[lockFd[p]] = None
      /\ flock' = [flock EXCEPT ![lockFd[p]] = p]
  BY DEF FlockLock, Free, SupervisionTypeOK, LockInv, Waits
<1>3. UNCHANGED <<lockFd, held, path, orphaned>>
  BY DEF FlockLock
<1>4. AllLocated'
  BY <1>3 DEF LockInv, AllLocated, Located
<1>5. ASSUME NEW q \in Pids, Locker(q)' PROVE HasFlock(q)'
  <2>1. CASE q = p
    BY <1>2, <1>3, <2>1, SupervisionAssumption DEF HasFlock, SupervisionTypeOK
  <2>2. CASE q # p
    <3>1. HasFlock(q)
      BY <1>1, <1>3, <1>5, <2>2 DEF Locker, LockInv
    <3>2. lockFd[q] # lockFd[p]
      BY <1>2, <3>1, SupervisionAssumption DEF HasFlock
    <3> QED BY <1>2, <1>3, <3>1, <3>2 DEF HasFlock, SupervisionTypeOK
  <2> QED BY <2>1, <2>2
<1>6. ASSUME NEW q \in Pids PROVE Waits(q)'
  BY <1>1, <1>2, <1>3, <1>6 DEF Waits, LockInv
<1> QED BY <1>4, <1>5, <1>6 DEF LockInv

LEMMA WriteLocks ==
    ASSUME NEW p \in Pids, SupervisionTypeOK, LockInv, WriteLock(p)
    PROVE  LockInv'
<1>1. \A q \in Pids \ {p} : stage'[q] = stage[q] /\ held'[q] = held[q]
  BY DEF WriteLock, SupervisionTypeOK
<1>2. stage[p] = "write" /\ stage'[p] = "setup"
  BY DEF WriteLock, SupervisionTypeOK
<1>3. UNCHANGED <<lockFd, path, flock, orphaned>>
  BY DEF WriteLock
<1>4. AllLocated'
  BY <1>3 DEF LockInv, AllLocated, Located
<1>5. ASSUME NEW q \in Pids, Locker(q)' PROVE HasFlock(q)'
  BY <1>1, <1>2, <1>3, <1>5 DEF Locker, LockInv, HasFlock
<1>6. ASSUME NEW q \in Pids PROVE Waits(q)'
  BY <1>1, <1>2, <1>3, <1>6 DEF Waits, LockInv
<1> QED BY <1>4, <1>5, <1>6 DEF LockInv

(* The lock is given back by the one who has it.                            *)
LEMMA UnlockLocks ==
    ASSUME NEW p \in Pids, SupervisionTypeOK, LockInv, Unlock(p)
    PROVE  LockInv'
<1>1. \A q \in Pids \ {p} : /\ stage'[q] = stage[q] /\ held'[q] = held[q]
                            /\ lockFd'[q] = lockFd[q]
  BY DEF Unlock, SupervisionTypeOK
<1>2. stage'[p] = "unlink" /\ ~held'[p] /\ lockFd'[p] = None
  BY DEF Unlock, SupervisionTypeOK
<1>3. HasFlock(p)
  BY DEF Unlock, LockInv, Locker
<1>4. AllLocated'
  BY <1>1, <1>2 DEF Unlock, LockInv, AllLocated, Located
<1>5. ASSUME NEW q \in Pids, Locker(q)' PROVE HasFlock(q)'
  <2>1. q # p
    BY <1>2, <1>5 DEF Locker
  <2>2. HasFlock(q)
    BY <1>1, <1>5, <2>1 DEF Locker, LockInv
  <2>3. lockFd[q] # lockFd[p]
    BY <1>3, <2>1, <2>2 DEF HasFlock
  <2> QED BY <1>1, <2>1, <2>2, <2>3 DEF Unlock, HasFlock, SupervisionTypeOK
<1>6. ASSUME NEW q \in Pids PROVE Waits(q)'
  BY <1>1, <1>2, <1>6 DEF Waits, LockInv
<1> QED BY <1>4, <1>5, <1>6 DEF LockInv

(* Removing the file that the path names: either somebody has it open, and   *)
(* then it is orphaned, or nobody has any.                                  *)
LEMMA UnlinkLocks ==
    ASSUME NEW p \in Pids, SupervisionTypeOK, LockInv, Unlink(p)
    PROVE  LockInv'
<1>1. \A q \in Pids \ {p} : stage'[q] = stage[q]
  BY DEF Unlink, SupervisionTypeOK
<1>2. stage[p] = "unlink" /\ stage'[p] = "ended" /\ UNCHANGED <<lockFd, held, flock>>
  BY DEF Unlink, SupervisionTypeOK
<1>3. AllLocated'
  <2> SUFFICES ASSUME ~orphaned', NEW q \in Pids, lockFd[q] # None PROVE lockFd[q] = path'
    BY <1>2 DEF AllLocated, Located
  <2>1. ~orphaned /\ lockFd[q] = path /\ path # None
    BY DEF Unlink, LockInv, AllLocated, Located, SupervisionTypeOK
  <2> QED BY <2>1 DEF Unlink
<1>4. ASSUME NEW q \in Pids, Locker(q)' PROVE HasFlock(q)'
  BY <1>1, <1>2, <1>4 DEF Locker, LockInv, HasFlock
<1>5. ASSUME NEW q \in Pids PROVE Waits(q)'
  BY <1>1, <1>2, <1>5 DEF Waits, LockInv
<1> QED BY <1>3, <1>4, <1>5 DEF LockInv

(* All other steps of a process leave descriptors and locks alone.          *)
LEMMA MoveLocks ==
    ASSUME NEW p \in Pids, SupervisionTypeOK, LockInv, ~Ends(p),
           \/ CheckLock(p) \/ Setup(p) \/ Finish(p) \/ ReadRelease(p) \/ AfterMain(p)
           \/ Beat(p) \/ Request(p) \/ Start(p) \/ SpawnMain(p) \/ Hang(p)
    PROVE  LockInv'
<1>1. UNCHANGED <<lockFd, held, path, flock, orphaned>>
  BY DEF CheckLock, Setup, Finish, ReadRelease, AfterMain, Beat, Request, Start,
         SpawnMain, Hang
<1>2. \A q \in Pids \ {p} : stage'[q] = stage[q]
  BY DEF CheckLock, Setup, Finish, ReadRelease, AfterMain, Beat, Request, Start,
         SpawnMain, Hang, Born, SupervisionTypeOK
<1>3. Locker(p)' => Locker(p)
  BY DEF CheckLock, Setup, Finish, ReadRelease, AfterMain, Beat, Request, Start,
         SpawnMain, Hang, Born, SupervisionTypeOK, Locker
<1>4. Waits(p)'
  <2>1. CASE CheckLock(p)
    BY <1>1, <2>1 DEF CheckLock, Waits, SupervisionTypeOK
  <2>2. CASE Setup(p) \/ Finish(p) \/ ReadRelease(p) \/ AfterMain(p) \/ Beat(p)
             \/ Request(p) \/ Start(p) \/ SpawnMain(p) \/ Hang(p)
    BY <1>1, <2>2 DEF Setup, Finish, ReadRelease, AfterMain, Beat, Request, Start,
       SpawnMain, Hang, Born, Waits, SupervisionTypeOK
  <2> QED BY <2>1, <2>2
<1> QED BY <1>1, <1>2, <1>3, <1>4, QuietLock

LEMMA LockStep ==
    SupervisionTypeOK /\ LockInv /\ [SupervisionNext]_supervisionVars => LockInv'
<1> SUFFICES ASSUME SupervisionTypeOK, LockInv, [SupervisionNext]_supervisionVars
             PROVE  LockInv'
  OBVIOUS
<1>1. ASSUME NEW p \in Pids,
             OwnStep(p) \/ Beat(p) \/ Request(p) \/ Finish(p) \/ Start(p) \/ Kill(p)
             \/ Hang(p) \/ SpawnMain(p)
      PROVE  LockInv'
  <2>1. CASE Ends(p) /\ (CheckLock(p) \/ FlockLock(p) \/ AfterMain(p) \/ Kill(p))
    <3>1. UNCHANGED <<path, orphaned>>
      BY <2>1 DEF CheckLock, FlockLock, AfterMain, Kill
    <3> QED BY <2>1, <3>1, EndsLock
  <2>2. CASE ~Ends(p) /\ (CheckLock(p) \/ FlockLock(p) \/ AfterMain(p) \/ Kill(p))
    BY <2>2, MoveLocks, FlockLocks DEF Kill
  <2>3. CASE OpenLock(p) \/ WriteLock(p) \/ Unlock(p) \/ Unlink(p)
    BY <2>3, OpenLocks, WriteLocks, UnlockLocks, UnlinkLocks
  <2>4. CASE Setup(p) \/ Finish(p) \/ ReadRelease(p) \/ Beat(p) \/ Request(p)
             \/ Start(p) \/ SpawnMain(p) \/ Hang(p)
    <3>1. stage'[p] # "dead"
      BY <2>4 DEF Setup, Finish, ReadRelease, Beat, Request, Start, SpawnMain, Hang,
                  Born, SupervisionTypeOK
    <3>2. ~Ends(p)
      BY <3>1 DEF Ends, SupervisionTypeOK
    <3> QED BY <2>4, <3>2, MoveLocks
  <2> QED BY <1>1, <2>1, <2>2, <2>3, <2>4 DEF OwnStep
<1>2. CASE BeatAges \/ WindowPasses \/ Judge \/ LookAgain \/ UNCHANGED supervisionVars
  <2>1. UNCHANGED <<stage, lockFd, held, path, flock, orphaned>>
    BY <1>2 DEF BeatAges, WindowPasses, Judge, LookAgain, supervisionVars
  <2> QED BY <2>1 DEF LockInv, AllLocated, Located, Locker, HasFlock, Waits
<1> QED BY <1>1, <1>2 DEF SupervisionNext, Restart

(* OneMain: however many processes are started by the operator, by systemd   *)
(* and by the watchdog, crash, hang and are killed at whatever call, two     *)
(* trade at a time only after a lock file was removed that another process   *)
(* had open.                                                                *)
LEMMA LockInvMain == SupervisionTypeOK /\ LockInv => OneMain
<1> SUFFICES ASSUME SupervisionTypeOK, LockInv, ~orphaned,
                    NEW p \in Pids, NEW q \in Pids, Trading(p), Trading(q)
             PROVE  p = q
  BY DEF OneMain, SingleInstance
<1>1. HasFlock(p) /\ HasFlock(q)
  BY DEF LockInv, Locker, Trading
<1>2. lockFd[p] = path /\ lockFd[q] = path
  BY <1>1 DEF LockInv, AllLocated, Located, HasFlock
<1> QED BY <1>1, <1>2 DEF HasFlock

THEOREM OneMainCorrect == SupervisionSpec => []OneMain
BY LockTypesInit, LockTypesStep, LockInit, LockStep, LockInvMain, PTL
DEF SupervisionSpec, LockTypes
-----------------------------------------------------------------------------
(***************************** The exit claim *****************************)

(* The type invariant of a trade's claim file and of the actors at it.       *)
LEMMA ClaimTypesInit == Init => TypeOK
<1> SUFFICES ASSUME Init PROVE TypeOK
  OBVIOUS
<1>1. file \in Files /\ crashes \in 0 .. MaxCrashes /\ torn \in BOOLEAN
  <2>1. 0 \in 0 .. MaxCrashes
    BY ExitClaimsAssumption
  <2> QED BY <2>1 DEF Init, Files
<1>2. pc \in [Actors -> Labels] /\ fd \in [Actors -> {"none", "linked", "unlinked"}]
  BY DEF Init, Labels
<1>3. \A a \in Actors : fd[a] = "none" /\ pc[a] = "idle"
  BY DEF Init
<1> QED BY <1>1, <1>2, <1>3 DEF TypeOK

LEMMA ClaimTypesStep == TypeOK /\ [Next]_vars => TypeOK'
<1> SUFFICES ASSUME TypeOK, [Next]_vars PROVE TypeOK'
  OBVIOUS
<1> USE DEF TypeOK, Goto
<1>1. \A a \in Actors : ClaimOf(a) \in Files /\ ClaimOf(a) # Absent
  BY DEF ClaimOf, Files, OwnerOf, Owners, Absent
<1>2. Unreadable \in Files /\ Absent \in Files /\ Unreadable # Absent
  BY DEF Unreadable, Absent, Files
<1>3. ASSUME NEW a \in Actors,
             Ask(a) \/ AfterRefusal(a) \/ Look(a) \/ Exists(a) \/ ReleaseRead(a) \/ GuestDone(a)
      PROVE  TypeOK'
  <2>1. UNCHANGED <<file, fd, crashes, torn>>
    BY <1>3 DEF Ask, CheckActive, CheckOwner, AfterRefusal, Look, Exists, ReleaseRead, GuestDone
  <2>2. PICK l \in Labels \ {"write"} : pc' = [pc EXCEPT ![a] = l]
    BY <1>3 DEF Ask, CheckActive, CheckOwner, AfterRefusal, Look, Exists, ReleaseRead,
                GuestDone, ClaimRefused, Labels
  <2>3. pc[a] # "write"
    BY <1>3 DEF Ask, CheckActive, CheckOwner, AfterRefusal, Look, Exists, ReleaseRead, GuestDone
  <2> QED BY <2>1, <2>2, <2>3
<1>4. ASSUME NEW a \in Actors, Create(a) PROVE TypeOK'
  BY <1>2, <1>4 DEF Create, Labels
<1>5. ASSUME NEW a \in Actors, Write(a) PROVE TypeOK'
  BY <1>1, <1>2, <1>5 DEF Write, Labels
<1>6. ASSUME NEW a \in Actors, Remove(a) PROVE TypeOK'
  BY <1>2, <1>6 DEF Remove, Unlinked, Labels
<1>7. ASSUME NEW a \in Actors, Overwrite(a) PROVE TypeOK'
  BY <1>2, <1>7 DEF Overwrite, Labels
<1>8. ASSUME NEW a \in Actors, ReleaseRemove(a) PROVE TypeOK'
  BY <1>2, <1>8 DEF ReleaseRemove, Unlinked, Labels
<1>9. CASE Expire
  <2>1. file' \in Files /\ file' # Absent
    BY <1>9 DEF Expire, Readable, Files, Owners, Absent, Unreadable
  <2> QED BY <1>9, <2>1 DEF Expire
<1>10. ASSUME NEW dead \in SUBSET Actors, Crash(dead) PROVE TypeOK'
  BY <1>10, ExitClaimsAssumption DEF Crash, Labels
<1>11. CASE UNCHANGED vars
  BY <1>11 DEF vars
<1>12. Main \in SUBSET Actors /\ \A w \in Watchdogs : {w} \in SUBSET Actors
  BY DEF Main, Actors
<1> QED BY <1>3, <1>4, <1>5, <1>6, <1>7, <1>8, <1>9, <1>10, <1>11, <1>12
        DEF Next, ClaimStep, Release

THEOREM ClaimTypes == Spec => []TypeOK
BY ClaimTypesInit, ClaimTypesStep, PTL DEF Spec
-----------------------------------------------------------------------------
(* As long as nothing was torn and nobody crashed, a claim file is what it   *)
(* is meant to be: unreadable only while the one who created it writes it,   *)
(* then its owner's as long as the owner holds it, then gone.  And of each   *)
(* owner one actor at most is between its first look and its last removal.   *)
Busy(a) == Claiming(a) \/ Holds(a)

Rivals == \A a, b \in Actors : OwnerOf(a) = OwnerOf(b) /\ Busy(a) /\ Busy(b) => a = b
Kept   == \A a \in Actors : Holds(a) => file = ClaimOf(a)
Backed == Readable => \E a \in Actors : Holds(a)
Opened == /\ \A a \in Actors : fd[a] # "unlinked" /\ pc[a] # "overwrite"
          /\ \A a \in Actors : pc[a] = "write" => file = Unreadable
          /\ \A a, b \in Actors : pc[a] = "write" /\ pc[b] = "write" => a = b
          /\ file = Unreadable => \E a \in Actors : pc[a] = "write"
Whole  == Rivals /\ Kept /\ Backed /\ Opened
Intact == ~torn /\ crashes = 0 => Whole

LEMMA IntactInit == Init => Intact
BY DEF Init, Intact, Whole, Rivals, Kept, Backed, Opened, Busy, Claiming, Holds,
       Readable, Owners, Absent, Unreadable

(* The three things the path may name are told apart.                       *)
LEMMA FileKinds ==
    ASSUME NEW a \in Actors
    PROVE  /\ Absent # Unreadable
           /\ file = ClaimOf(a) => /\ Readable /\ file.live /\ file.owner = OwnerOf(a)
                                   /\ file # Absent /\ file # Unreadable
           /\ Readable => file # Absent /\ file # Unreadable
           /\ file \in Files => file = Absent \/ file = Unreadable \/ Readable
<1>1. "absent" \notin Owners /\ "unreadable" \notin Owners
  BY DEF Owners
<1>2. OwnerOf(a) \in Owners
  BY DEF OwnerOf, Owners
<1>3. /\ Absent # Unreadable
      /\ file = ClaimOf(a) => Readable /\ file.live /\ file.owner = OwnerOf(a)
      /\ Readable => file # Absent /\ file # Unreadable
  BY <1>1, <1>2 DEF Absent, Unreadable, ClaimOf, Readable
<1>4. file \in Files => file = Absent \/ file = Unreadable \/ Readable
  BY DEF Files, Readable
<1> QED BY <1>3, <1>4

(* Two actors of different processes, or a closer and a finaliser, have      *)
(* different owners; a second watchdog would not.                           *)
LEMMA OwnersDiffer ==
    ASSUME NEW a \in Actors, NEW b \in Actors, OwnerOf(a) = OwnerOf(b)
    PROVE  /\ a \in Closers <=> b \in Closers
           /\ a \in Finalisers <=> b \in Finalisers
           /\ a \in Watchdogs <=> b \in Watchdogs
BY ExitClaimsAssumption DEF OwnerOf, Actors

(* A step that moves one actor and leaves the file alone.                    *)
LEMMA QuietClaim ==
    ASSUME TypeOK, Whole, NEW a \in Actors, NEW l \in Labels \ {"write", "overwrite"},
           pc[a] # "write", pc' = [pc EXCEPT ![a] = l], UNCHANGED <<file, fd>>,
           l \in {"holding", "unlink"} <=> Holds(a),
           Busy(a)' => \A b \in Actors : OwnerOf(a) = OwnerOf(b) /\ Busy(b) => a = b
    PROVE  Whole'
<1>1. pc'[a] = l /\ \A b \in Actors \ {a} : pc'[b] = pc[b]
  BY DEF TypeOK
<1>2. \A b \in Actors : (Holds(b)' <=> Holds(b)) /\ (pc'[b] = "write" <=> pc[b] = "write")
  BY <1>1 DEF Holds
<1>3. \A b \in Actors \ {a} : Busy(b)' <=> Busy(b)
  BY <1>1 DEF Busy, Claiming, Holds
<1>4. Rivals'
  BY <1>1, <1>3 DEF Rivals, Whole
<1>5. Kept' /\ Backed'
  BY <1>2 DEF Kept, Backed, Whole, Readable, ClaimOf
<1>6. Opened'
  BY <1>1, <1>2 DEF Opened, Whole
<1> QED BY <1>4, <1>5, <1>6 DEF Whole

(* One watchdog runs: deploy/systemd has one unit of it.                     *)
OneWatchdog == \A v, w \in Watchdogs : v = w

(* Nobody of an owner is at it when one of it begins.                        *)
LEMMA AskClaim ==
    ASSUME OneWatchdog, TypeOK, Whole, NEW a \in Actors, Ask(a)
    PROVE  Whole'
<1>1. pc[a] = "idle" /\ UNCHANGED <<file, fd>>
  BY DEF Ask, CheckActive, CheckOwner
<1>2. PICK l \in {"look", "guest"} : pc' = [pc EXCEPT ![a] = l]
  BY DEF Ask, CheckActive, CheckOwner, Goto
<1>3. ASSUME l = "look", NEW b \in Actors, OwnerOf(a) = OwnerOf(b), Busy(b) PROVE a = b
  <2>1. ~(Readable /\ file.live) /\ LockFree(a)
    BY <1>2, <1>3 DEF Ask, CheckActive, CheckOwner, Goto, TypeOK
  <2>2. Claiming(b)
    BY <1>3, <2>1, FileKinds DEF Busy, Whole, Kept
  <2>3. CASE a \in Closers
    BY <1>3, <2>1, <2>2, <2>3, OwnersDiffer DEF LockFree
  <2>4. CASE a \in Finalisers
    BY <1>3, <2>1, <2>2, <2>4, OwnersDiffer DEF LockFree, Claiming
  <2>5. CASE a \in Watchdogs
    BY <1>3, <2>5, OwnersDiffer DEF OneWatchdog
  <2> QED BY <2>3, <2>4, <2>5 DEF Actors
<1>4. Busy(a)' => l = "look"
  BY <1>2 DEF Busy, Claiming, Holds, TypeOK
<1> QED BY <1>1, <1>2, <1>3, <1>4, QuietClaim DEF Labels, Holds

(* Whoever goes on keeps others of its owner out as before.                  *)
LEMMA GoOnClaim ==
    ASSUME TypeOK, Whole, NEW a \in Actors,
           AfterRefusal(a) \/ Look(a) \/ Exists(a) \/ ReleaseRead(a) \/ GuestDone(a)
    PROVE  Whole'
<1>1. UNCHANGED <<file, fd>> /\ pc[a] # "write"
  BY DEF AfterRefusal, Look, Exists, ReleaseRead, GuestDone
<1>2. CASE AfterRefusal(a) \/ GuestDone(a)
  <2>1. PICK l \in {"idle", "guest"} : pc' = [pc EXCEPT ![a] = l]
    BY <1>2 DEF AfterRefusal, GuestDone, Goto
  <2>2. ~Holds(a) /\ ~Busy(a)'
    BY <1>2, <2>1 DEF AfterRefusal, GuestDone, Busy, Claiming, Holds, TypeOK
  <2> QED BY <1>1, <2>1, <2>2, QuietClaim DEF Labels
<1>3. CASE Look(a)
  <2>1. PICK l \in {"idle", "refused", "create"} : pc' = [pc EXCEPT ![a] = l]
    BY <1>3 DEF Look, ClaimRefused, Goto
  <2>2. ~Holds(a) /\ Busy(a)
    BY <1>3 DEF Look, Busy, Claiming, Holds
  <2>3. \A b \in Actors : OwnerOf(a) = OwnerOf(b) /\ Busy(b) => a = b
    BY <2>2 DEF Whole, Rivals
  <2> QED BY <1>1, <2>1, <2>2, <2>3, QuietClaim DEF Labels
<1>4. CASE Exists(a)
  <2>1. ~Holds(a) /\ Busy(a)
    BY <1>4 DEF Exists, Busy, Claiming, Holds
  <2>2. \A b \in Actors : OwnerOf(a) = OwnerOf(b) /\ Busy(b) => a = b
    BY <2>1 DEF Whole, Rivals
  <2>3. Readable => HeldAgainst(a)
    <3>1. SUFFICES ASSUME Readable PROVE HeldAgainst(a)
      OBVIOUS
    <3>2. PICK b \in Actors : Holds(b) /\ file = ClaimOf(b)
      BY <3>1 DEF Whole, Backed, Kept
    <3>3. OwnerOf(a) # OwnerOf(b)
      BY <2>1, <2>2, <3>2 DEF Busy
    <3> QED BY <3>2, <3>3, FileKinds DEF HeldAgainst
  <2>4. PICK l \in {"remove", "idle", "refused"} : pc' = [pc EXCEPT ![a] = l]
    BY <1>4, <2>3 DEF Exists, ClaimRefused, Goto
  <2> QED BY <1>1, <2>1, <2>2, <2>4, QuietClaim DEF Labels
<1>5. CASE ReleaseRead(a)
  <2>1. Holds(a) /\ Busy(a)
    BY <1>5 DEF ReleaseRead, Busy, Holds
  <2>2. \A b \in Actors : OwnerOf(a) = OwnerOf(b) /\ Busy(b) => a = b
    BY <2>1 DEF Whole, Rivals
  <2>3. file.owner = OwnerOf(a)
    BY <2>1, FileKinds DEF Whole, Kept
  <2>4. pc' = [pc EXCEPT ![a] = "unlink"]
    BY <1>5, <2>3 DEF ReleaseRead, Goto
  <2> QED BY <1>1, <2>1, <2>2, <2>4, QuietClaim DEF Labels
<1> QED BY <1>2, <1>3, <1>4, <1>5

(* The file is created where there is none, so nobody holds the trade.       *)
LEMMA CreateClaim ==
    ASSUME TypeOK, Whole, NEW a \in Actors, Create(a)
    PROVE  Whole'
<1>1. pc[a] = "create" /\ Busy(a) /\ ~Holds(a)
  BY DEF Create, Busy, Claiming, Holds
<1>2. \A b \in Actors : OwnerOf(a) = OwnerOf(b) /\ Busy(b) => a = b
  BY <1>1 DEF Whole, Rivals
<1>3. CASE file # Absent
  <2>1. pc' = [pc EXCEPT ![a] = "exists"] /\ UNCHANGED <<file, fd>>
    BY <1>3 DEF Create, Goto
  <2> QED BY <1>1, <1>2, <2>1, QuietClaim DEF Labels
<1>4. CASE file = Absent
  <2>1. /\ file' = Unreadable
        /\ fd' = [fd EXCEPT ![a] = "linked"] /\ pc' = [pc EXCEPT ![a] = "write"]
    BY <1>4 DEF Create, Goto
  <2>2. \A b \in Actors : ~Holds(b) /\ pc[b] # "write"
    BY <1>4, FileKinds DEF Whole, Kept, Opened
  <2>3. /\ pc'[a] = "write" /\ \A b \in Actors \ {a} : pc'[b] = pc[b]
        /\ fd'[a] = "linked" /\ \A b \in Actors \ {a} : fd'[b] = fd[b]
    BY <2>1 DEF TypeOK
  <2>4. Rivals'
    BY <1>2, <2>3 DEF Rivals, Whole, Busy, Claiming, Holds
  <2>5. Kept' /\ Backed'
    BY <2>1, <2>2, <2>3 DEF Kept, Backed, Holds, Readable, Unreadable, Owners
  <2>6. Opened'
    BY <2>1, <2>2, <2>3 DEF Opened, Whole
  <2> QED BY <2>4, <2>5, <2>6 DEF Whole
<1> QED BY <1>3, <1>4

(* What is written is on the path, over nothing.                            *)
LEMMA WriteClaim ==
    ASSUME TypeOK, Whole, NEW a \in Actors, Write(a)
    PROVE  Whole'
<1>1. pc[a] = "write" /\ Busy(a) /\ file = Unreadable /\ fd[a] = "linked"
  BY DEF Write, Busy, Claiming, Whole, Opened, TypeOK
<1>2. \A b \in Actors : OwnerOf(a) = OwnerOf(b) /\ Busy(b) => a = b
  BY <1>1 DEF Whole, Rivals
<1>3. ~Readable /\ \A b \in Actors : ~Holds(b)
  BY <1>1, FileKinds DEF Whole, Kept
<1>4. /\ file' = ClaimOf(a)
      /\ fd' = [fd EXCEPT ![a] = "none"] /\ pc' = [pc EXCEPT ![a] = "holding"]
  BY <1>1, <1>3 DEF Write, Goto
<1>5. /\ pc'[a] = "holding" /\ \A b \in Actors \ {a} : pc'[b] = pc[b]
      /\ fd'[a] = "none" /\ \A b \in Actors \ {a} : fd'[b] = fd[b]
  BY <1>4 DEF TypeOK
<1>6. Rivals'
  BY <1>2, <1>5 DEF Rivals, Whole, Busy, Claiming, Holds
<1>7. Kept' /\ Backed'
  BY <1>3, <1>4, <1>5 DEF Kept, Backed, Holds, ClaimOf
<1>8. file' # Unreadable
  BY <1>4 DEF ClaimOf, Unreadable
<1>9. Opened'
  BY <1>1, <1>5, <1>8 DEF Opened, Whole
<1> QED BY <1>6, <1>7, <1>9 DEF Whole

(* Only a file that is gone already can be removed without tearing one.      *)
LEMMA RemoveClaim ==
    ASSUME TypeOK, Whole, NEW a \in Actors, Remove(a), ~torn'
    PROVE  Whole'
<1>1. pc[a] = "remove" /\ Busy(a) /\ ~Holds(a)
  BY DEF Remove, Busy, Claiming, Holds
<1>2. \A b \in Actors : OwnerOf(a) = OwnerOf(b) /\ Busy(b) => a = b
  BY <1>1 DEF Whole, Rivals
<1>3. ~Readable /\ \A b \in Actors : fd[b] # "linked"
  BY DEF Remove
<1>4. \A b \in Actors : fd[b] = "none"
  BY <1>3 DEF TypeOK, Whole, Opened
<1>5. file = Absent
  BY <1>3, <1>4, FileKinds DEF TypeOK, Whole, Opened
<1>6. pc' = [pc EXCEPT ![a] = "look"] /\ file' = file
  BY <1>5 DEF Remove, Goto
<1>7. fd' = fd
  BY <1>4 DEF Remove, Unlinked, TypeOK
<1> QED BY <1>1, <1>2, <1>6, <1>7, QuietClaim DEF Labels

(* What is removed at the end is the claim of the one who removes it.        *)
LEMMA ReleaseClaim ==
    ASSUME TypeOK, Whole, NEW a \in Actors, ReleaseRemove(a)
    PROVE  Whole'
<1>1. pc[a] = "unlink" /\ Holds(a) /\ Busy(a) /\ file = ClaimOf(a)
  BY DEF ReleaseRemove, Holds, Busy, Whole, Kept
<1>2. \A b \in Actors : Holds(b) => a = b
  <2> SUFFICES ASSUME NEW b \in Actors, Holds(b) PROVE a = b
    OBVIOUS
  <2>1. OwnerOf(b) = OwnerOf(a)
    BY <1>1, FileKinds DEF Whole, Kept
  <2> QED BY <1>1, <2>1 DEF Whole, Rivals, Busy
<1>3. \A b \in Actors : pc[b] # "write" /\ fd[b] = "none"
  BY <1>1, FileKinds DEF Whole, Opened, TypeOK
<1>4. /\ file' = Absent /\ pc' = [pc EXCEPT ![a] = "idle"]
      /\ \A b \in Actors : fd'[b] = "none"
  BY <1>3 DEF ReleaseRemove, Goto, Unlinked
<1>5. pc'[a] = "idle" /\ \A b \in Actors \ {a} : pc'[b] = pc[b]
  BY <1>4 DEF TypeOK
<1>6. Rivals'
  BY <1>5 DEF Rivals, Whole, Busy, Claiming, Holds
<1>7. Kept' /\ Backed'
  BY <1>2, <1>4, <1>5 DEF Kept, Backed, Holds, Readable, Absent, Owners
<1>8. file' # Unreadable
  BY <1>4 DEF Absent, Unreadable
<1>9. Opened'
  BY <1>3, <1>4, <1>5, <1>8 DEF Opened, Whole
<1> QED BY <1>6, <1>7, <1>9 DEF Whole

LEMMA IntactStep ==
    ASSUME OneWatchdog, TypeOK, Intact, [Next]_vars
    PROVE  Intact'
<1> SUFFICES ASSUME ~torn', crashes' = 0 PROVE Whole'
  BY DEF Intact
<1>1. ASSUME NEW a \in Actors, Ask(a) \/ ClaimStep(a) \/ Release(a) PROVE Whole'
  <2>1. crashes = 0 /\ ~torn
    <3>1. CASE Remove(a)
      BY <3>1 DEF Remove
    <3>2. CASE Ask(a) \/ Release(a)
      BY <3>2 DEF Ask, CheckActive, CheckOwner, Release, ReleaseRead, ReleaseRemove, GuestDone
    <3>3. CASE ClaimStep(a) /\ ~Remove(a)
      BY <3>3 DEF ClaimStep, AfterRefusal, Look, Create, Write, Exists, Overwrite
    <3> QED BY <1>1, <3>1, <3>2, <3>3
  <2>2. Whole
    BY <2>1 DEF Intact
  <2>3. ~Overwrite(a)
    BY <2>2 DEF Overwrite, Whole, Opened
  <2> QED BY <1>1, <2>2, <2>3, AskClaim, GoOnClaim, CreateClaim, WriteClaim, RemoveClaim,
             ReleaseClaim DEF ClaimStep, Release
<1>2. CASE Expire
  <2>1. Whole
    BY <1>2 DEF Expire, Intact
  <2>2. PICK a \in Actors : Holds(a) /\ file = ClaimOf(a)
    BY <1>2, <2>1 DEF Expire, Whole, Backed, Kept
  <2> QED BY <1>2, <2>2, FileKinds DEF Expire, AtWork, Holds
<1>3. ~Crash(Main) /\ \A w \in Watchdogs : ~Crash({w})
  BY DEF Crash, TypeOK
<1>4. CASE UNCHANGED vars
  BY <1>4 DEF vars, Intact, Whole, Rivals, Kept, Backed, Opened, Busy, Claiming, Holds, Readable
<1> QED BY <1>1, <1>2, <1>3, <1>4 DEF Next

(* ExclusiveUnlessTorn: with any number of closing and finalising threads in *)
(* main.py and one watchdog, main and the watchdog both come to sell a trade *)
(* only after a claim file was removed from under its writer, or a crash.    *)
LEMMA IntactExclusive == Intact => ExclusiveUnlessTorn
<1> SUFFICES ASSUME Intact, ~torn, crashes = 0,
                    NEW a \in Main, NEW w \in Watchdogs, Holds(a), Holds(w)
             PROVE  FALSE
  BY DEF ExclusiveUnlessTorn, ExclusiveClaim
<1>1. a \in Actors /\ w \in Actors
  BY DEF Main, Actors
<1>2. file = ClaimOf(a) /\ file = ClaimOf(w)
  BY <1>1 DEF Intact, Whole, Kept
<1>3. OwnerOf(a) = OwnerOf(w)
  BY <1>1, <1>2, FileKinds
<1> QED BY <1>1, <1>3, OwnersDiffer, ExitClaimsAssumption DEF Main

THEOREM ExclusiveCorrect ==
    ASSUME OneWatchdog
    PROVE  Spec => []ExclusiveUnlessTorn
<1>1. TypeOK /\ Intact /\ [Next]_vars => (TypeOK /\ Intact)'
  BY ClaimTypesStep, IntactStep
<1> QED BY <1>1, ClaimTypesInit, IntactInit, IntactExclusive, PTL DEF Spec
-----------------------------------------------------------------------------
(* The claims and the lock side by side: each keeps its own invariants.      *)
LEMMA ProcessesSteps ==
    /\ ProcessesInit => Init /\ SupervisionInit
    /\ [ProcessesNext]_<<part, vars, supervisionVars>>
           => [Next]_vars /\ [SupervisionNext]_supervisionVars
BY DEF ProcessesInit, ProcessesNext

(* The types of both, and both promises, of the processes together.          *)
THEOREM ProcessesTypes == ProcessesSpec => []TypesOK
<1>1. TypeOK /\ LockTypes => TypesOK
  BY DEF TypesOK, LockTypes
<1> QED BY <1>1, ProcessesSteps, ClaimTypesInit, ClaimTypesStep, LockTypesInit,
           LockTypesStep, PTL DEF ProcessesSpec

THEOREM ProcessesCorrect ==
    ASSUME OneWatchdog
    PROVE  ProcessesSpec => [](OneMain /\ ExclusiveUnlessTorn)
<1>1. ProcessesSpec => Spec /\ SupervisionSpec
  BY ProcessesSteps, PTL DEF ProcessesSpec, Spec, SupervisionSpec
<1> QED BY <1>1, OneMainCorrect, ExclusiveCorrect, PTL
=============================================================================
