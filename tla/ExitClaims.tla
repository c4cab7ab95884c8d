----------------------------- MODULE ExitClaims -----------------------------
(***************************************************************************)
(* The exit claim of one trade at the grain of its file-system calls:      *)
(* exit_coordinator.py, and the three ways it is used.  A closer (main's   *)
(* _close_position) and a watchdog ask exit_claim_active before they claim; *)
(* a finaliser (_mark_trade_closed) looks at the owner first and goes on   *)
(* under a claim of its own process.                                       *)
(*                                                                         *)
(* A claim file is created empty (O_EXCL) and written afterwards; a reader *)
(* in between cannot parse it.  A descriptor stays open over an unlink, so *)
(* what its writer writes then is lost.                                    *)
(***************************************************************************)
EXTENDS Integers, FiniteSets

CONSTANTS
    Closers,        \* threads of main.py that claim as "main"
    Finalisers,     \* threads of main.py that claim as "close_pipeline"
    Watchdogs,      \* watchdog processes
    MaxCrashes      \* crashes of a process in a behaviour

ASSUME ExitClaimsAssumption ==
    /\ Closers \cap Finalisers = {}
    /\ (Closers \cup Finalisers) \cap Watchdogs = {}
    /\ MaxCrashes \in Nat

VARIABLES
    file,       \* what the path names: absent, unreadable or a claim
    fd,         \* actor -> its descriptor: none, linked to the path, unlinked
    pc,         \* actor -> the next call it makes
    crashes,    \* crashes so far
    torn        \* somebody removed a file its writer was still writing

vars == <<file, fd, pc, crashes, torn>>

Actors     == Closers \cup Finalisers \cup Watchdogs
Main       == Closers \cup Finalisers
OwnerOf(a) == IF a \in Closers THEN "main"
              ELSE IF a \in Finalisers THEN "close_pipeline" ELSE "watchdog"
Owners     == {"main", "close_pipeline", "watchdog"}

Absent     == [owner |-> "absent", live |-> FALSE]
Unreadable == [owner |-> "unreadable", live |-> FALSE]
ClaimOf(a) == [owner |-> OwnerOf(a), live |-> TRUE]
Files      == [owner : Owners, live : BOOLEAN] \cup {Absent, Unreadable}
Readable   == file.owner \in Owners

(* A live claim of somebody else.                                           *)
HeldAgainstNobody(a) == FALSE                                    \* mutant
HeldAgainst(a)       == Readable /\ file.live /\ file.owner # OwnerOf(a)

(* The calls of claim_exit: closers make them under _close_lock, finalisers  *)
(* under trade_close_mutex, which they keep to the end.                     *)
Claiming(a) == pc[a] \in {"look", "create", "write", "exists", "remove", "overwrite"}
LockFree(a) ==
    /\ a \in Closers => \A c \in Closers : ~Claiming(c)
    /\ a \in Finalisers => \A f \in Finalisers : pc[f] = "idle"

Goto(a, label) == pc' = [pc EXCEPT ![a] = label]

Init ==
    /\ file = Absent
    /\ fd = [a \in Actors |-> "none"]
    /\ pc = [a \in Actors |-> "idle"]
    /\ crashes = 0
    /\ torn = FALSE
-----------------------------------------------------------------------------
(* exit_claim_active, before a closer or a watchdog claims: any live claim   *)
(* of any owner stops it, a file it cannot read does not.                   *)
CheckActive(a) ==
    /\ pc[a] = "idle"
    /\ a \notin Finalisers /\ LockFree(a)
    /\ ~(Readable /\ file.live)
    /\ Goto(a, "look")
    /\ UNCHANGED <<file, fd, crashes, torn>>

(* get_exit_claim_owner in _mark_trade_closed: under a live claim of this    *)
(* process it goes on without one of its own, under the watchdog's it stops. *)
CheckOwner(a) ==
    /\ pc[a] = "idle"
    /\ a \in Finalisers /\ LockFree(a)
    /\ IF Readable /\ file.live
       THEN file.owner # "watchdog" /\ Goto(a, "guest")
       ELSE Goto(a, "look")
    /\ UNCHANGED <<file, fd, crashes, torn>>

(* claim_exit refused: a finaliser asks exit_claim_active once more and      *)
(* goes on without a claim when there is none now.                          *)
ClaimRefused(a) == IF a \in Finalisers THEN Goto(a, "refused") ELSE Goto(a, "idle")

AfterRefusal(a) ==
    /\ pc[a] = "refused"
    /\ IF Readable /\ file.live THEN Goto(a, "idle") ELSE Goto(a, "guest")
    /\ UNCHANGED <<file, fd, crashes, torn>>

(* claim_exit, the first look.                                              *)
Look(a) ==
    /\ pc[a] = "look"
    /\ IF HeldAgainst(a) THEN ClaimRefused(a) ELSE Goto(a, "create")
    /\ UNCHANGED <<file, fd, crashes, torn>>

(* os.open(O_CREAT | O_EXCL): an empty file, or FileExistsError.             *)
Create(a) ==
    /\ pc[a] = "create"
    /\ IF file = Absent
       THEN /\ file' = Unreadable
            /\ fd' = [fd EXCEPT ![a] = "linked"]
            /\ Goto(a, "write")
       ELSE /\ Goto(a, "exists")
            /\ UNCHANGED <<file, fd>>
    /\ UNCHANGED <<crashes, torn>>

(* The claim is written; over what another descriptor wrote meanwhile the    *)
(* file may end up with bytes of both.                                      *)
Write(a) ==
    /\ pc[a] = "write"
    /\ IF fd[a] = "linked"
       THEN \/ file' = ClaimOf(a)
            \/ Readable /\ file' = Unreadable
       ELSE UNCHANGED file
    /\ fd' = [fd EXCEPT ![a] = "none"]
    /\ Goto(a, "holding")
    /\ UNCHANGED <<crashes, torn>>

(* The file exists: read it again.                                          *)
ExistsGivesUp(a) ==                                              \* mutant
    /\ pc[a] = "exists"
    /\ \/ (~Readable \/ HeldAgainst(a)) /\ ClaimRefused(a)
       \/ Readable /\ ~HeldAgainst(a) /\ Goto(a, "overwrite")
    /\ UNCHANGED <<file, fd, crashes, torn>>

Exists(a) ==
    /\ pc[a] = "exists"
    /\ \/ ~Readable /\ Goto(a, "remove")
       \/ Readable /\ HeldAgainst(a) /\ ClaimRefused(a)
       \/ Readable /\ ~HeldAgainst(a) /\ Goto(a, "overwrite")
    /\ UNCHANGED <<file, fd, crashes, torn>>

StillLinked == fd                                                \* mutant
Unlinked == [b \in Actors |-> IF fd[b] = "linked" THEN "unlinked" ELSE fd[b]]

(* os.remove of the file it could not read, whatever it holds by now, and    *)
(* claim_exit from the start.                                               *)
Remove(a) ==
    /\ pc[a] = "remove"
    /\ file' = Absent
    /\ fd' = Unlinked
    /\ torn' = (torn \/ Readable \/ \E b \in Actors : fd[b] = "linked")
    /\ Goto(a, "look")
    /\ UNCHANGED crashes

(* open(path, "w"): truncates, or creates, whatever is there by now.         *)
Overwrite(a) ==
    /\ pc[a] = "overwrite"
    /\ file' = Unreadable
    /\ fd' = [fd EXCEPT ![a] = "linked"]
    /\ Goto(a, "write")
    /\ UNCHANGED <<crashes, torn>>

(* release_exit(owner): read, and remove in a second call.                   *)
ReleaseRead(a) ==
    /\ pc[a] = "holding"
    /\ IF file.owner = OwnerOf(a) THEN Goto(a, "unlink") ELSE Goto(a, "idle")
    /\ UNCHANGED <<file, fd, crashes, torn>>

ReleaseRemove(a) ==
    /\ pc[a] = "unlink"
    /\ file' = Absent
    /\ fd' = Unlinked
    /\ Goto(a, "idle")
    /\ UNCHANGED <<crashes, torn>>

(* A finaliser without a claim of its own has none to release.               *)
GuestDone(a) ==
    /\ pc[a] = "guest"
    /\ Goto(a, "idle")
    /\ UNCHANGED <<file, fd, crashes, torn>>
-----------------------------------------------------------------------------
(* EXIT_CLAIM_TTL_SECONDS pass over a claim whose owner is not at work any   *)
(* more.                                                                    *)
AtWork(a) == pc[a] \in {"holding", "unlink"}
Expire ==
    /\ Readable /\ file.live
    /\ \A a \in Actors : OwnerOf(a) = file.owner => ~AtWork(a)
    /\ file' = [file EXCEPT !.live = FALSE]
    /\ UNCHANGED <<fd, pc, crashes, torn>>

(* A process dies; the file stays as it is.                                  *)
Crash(dead) ==
    /\ crashes < MaxCrashes
    /\ crashes' = crashes + 1
    /\ fd' = [a \in Actors |-> IF a \in dead THEN "none" ELSE fd[a]]
    /\ pc' = [a \in Actors |-> IF a \in dead THEN "idle" ELSE pc[a]]
    /\ UNCHANGED <<file, torn>>

Ask(a)     == CheckActive(a) \/ CheckOwner(a)
ClaimStep(a) ==
    \/ AfterRefusal(a) \/ Look(a) \/ Create(a) \/ Write(a) \/ Exists(a)
    \/ Remove(a) \/ Overwrite(a)
Release(a) == ReleaseRead(a) \/ ReleaseRemove(a) \/ GuestDone(a)

Next ==
    \/ \E a \in Actors : Ask(a) \/ ClaimStep(a) \/ Release(a)
    \/ Expire
    \/ Crash(Main)
    \/ \E w \in Watchdogs : Crash({w})

Spec == Init /\ [][Next]_vars

(* The processes run on, whoever finds a breach asks again and again, and    *)
(* time passes.                                                             *)
ClaimsFairness ==
    /\ \A a \in Actors : /\ WF_vars(ClaimStep(a))
                        /\ WF_vars(Release(a))
                        /\ SF_vars(Ask(a))
    /\ WF_vars(Expire)

FairSpec == Spec /\ ClaimsFairness
-----------------------------------------------------------------------------
Labels == {"idle", "look", "create", "write", "exists", "remove", "overwrite",
           "holding", "unlink", "guest", "refused"}

(* Files, descriptors and control points; whoever writes has a descriptor.   *)
TypeOK ==
    /\ file \in Files
    /\ fd \in [Actors -> {"none", "linked", "unlinked"}]
    /\ pc \in [Actors -> Labels]
    /\ crashes \in 0..MaxCrashes
    /\ torn \in BOOLEAN
    /\ \A a \in Actors : fd[a] = "none" <=> pc[a] # "write"
    /\ file = Absent => \A a \in Actors : fd[a] # "linked"

Holds(a) == pc[a] \in {"holding", "unlink"}

(* "Try to acquire exclusive exit rights for a trade (cross-process mutex)"  *)
(* (exit_coordinator.py:38): main and the watchdog never both got it.      *)
ExclusiveClaim == \A a \in Main, w \in Watchdogs : ~(Holds(a) /\ Holds(w))

(* The one hole in that promise, as long as no process crashes: a reader     *)
(* that meets the file between its creation and its writing removes it.      *)
ExclusiveUnlessTorn == ~torn /\ crashes = 0 => ExclusiveClaim

(* No file shuts the trade out for good: not the empty one a crash left      *)
(* behind, and not the claim of a dead process.                              *)
NeverShutOut == []<>(\E a \in Actors : Holds(a))
=============================================================================
