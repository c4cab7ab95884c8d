---------------------------- MODULE MCProcesses -----------------------------
(* The processes of the bot for TLC.  The exit claim of a trade and the      *)
(* instance lock of main.py share no file, so a behaviour is about one of    *)
(* them, chosen at its start.                                               *)
EXTENDS ExitClaims, Supervision, TLC

VARIABLE part

ProcessesInit ==
    /\ part \in {"claims", "lock"}
    /\ Init
    /\ SupervisionInit

ProcessesNext ==
    /\ \/ part = "claims" /\ Next /\ UNCHANGED supervisionVars
       \/ part = "lock" /\ SupervisionNext /\ UNCHANGED vars
    /\ UNCHANGED part

(* ClaimsFairness and SupervisionFairness, each for the behaviours about it.  *)
Claims(A) == part = "claims" /\ A
Lock(A)   == part = "lock" /\ A
ProcessesFairness ==
    /\ \A a \in Actors : /\ WF_vars(Claims(ClaimStep(a) \/ Release(a)))
                        /\ SF_vars(Claims(Ask(a)))
    /\ WF_vars(Claims(Expire))
    /\ \A p \in Pids : WF_supervisionVars(Lock(OwnStep(p)))
    /\ SF_supervisionVars(Lock(Judge))
    /\ WF_supervisionVars(Lock(Restart))
    /\ WF_supervisionVars(Lock(BeatAges))
    /\ WF_supervisionVars(Lock(WindowPasses))

ProcessesSpec ==
    /\ ProcessesInit
    /\ [][ProcessesNext]_<<part, vars, supervisionVars>>
    /\ ProcessesFairness

TypesOK == TypeOK /\ SupervisionTypeOK
TradeNeverShutOut == part = "claims" => NeverShutOut
MainAlwaysComesBack == part = "lock" => MainComesBack
=============================================================================
