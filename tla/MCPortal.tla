------------------------------ MODULE MCPortal ------------------------------
(***************************************************************************)
(* What happens between a portal, the operator and the workers, for TLC:   *)
(* a browser profile, a login, the pull of a bank account, the recording   *)
(* of a demonstration, and a build's watchdog. They share no state; one    *)
(* run checks them all, each behaviour being that of one of them.          *)
(***************************************************************************)
EXTENDS Profile, SignIn, BankPull, Recorder, Watchdog

VARIABLE part

portalVars == <<part, profileVars, signInVars, bankVars, recorderVars,
                watchdogVars>>

Signed == {-1, 0, 1}

Init ==
    /\ part \in {"profile", "signin", "bank", "recorder", "watchdog"}
    /\ ProfileInit /\ WatchdogInit /\ RecorderInit
    \* elsewhere one start of these is enough
    /\ SignInInit /\ (part = "signin" \/ (~jar /\ ~honoured))
    /\ BankInit
    /\ part = "bank" \/ (account = <<>> /\ served = 1)

Next ==
    /\ UNCHANGED part
    /\ \/ /\ part = "profile" /\ ProfileNext
          /\ UNCHANGED <<signInVars, bankVars, recorderVars, watchdogVars>>
       \/ /\ part = "signin" /\ SignInNext
          /\ UNCHANGED <<profileVars, bankVars, recorderVars, watchdogVars>>
       \/ /\ part = "bank" /\ BankNext
          /\ UNCHANGED <<profileVars, signInVars, recorderVars, watchdogVars>>
       \/ /\ part = "recorder" /\ RecorderNext
          /\ UNCHANGED <<profileVars, signInVars, bankVars, watchdogVars>>
       \/ /\ part = "watchdog" /\ WatchdogNext
          /\ UNCHANGED <<profileVars, signInVars, bankVars, recorderVars>>

Spec == Init /\ [][Next]_portalVars /\ ProfileFairness

(* Every variable of every part has its type. *)
PortalTypeOK ==
    /\ ProfileTypeOK
    /\ SignInTypeOK
    /\ BankTypeOK
    /\ RecorderTypeOK
    /\ WatchdogTypeOK
=============================================================================
