------------------------------ MODULE Profile -------------------------------
(***************************************************************************)
(* One source's browser profile: core/tools/browser_session.py, the worker *)
(* core/tools/login_recovery_worker.py that lets the operator sign in, and *)
(* the tools start_, cancel_ and login_recovery_status of interfaces/      *)
(* mcp_tools.py. Scrapes open the same profile.                            *)
(*                                                                         *)
(* A browser user is named by the order in which it was started. Sessions  *)
(* are numbered; 0 is signed out. Every browser that holds the profile can *)
(* vanish: the operator quits it, or a reset kills it, by a pattern that   *)
(* the profile of a source whose key begins with this one's matches too.   *)
(* That the portal may end a session is in SignIn.                         *)
(***************************************************************************)
EXTENDS Naturals, FiniteSets

CONSTANTS
    Callers,     \* threads of the server
    MaxUsers,    \* bound on the recoveries and scrapes
    MaxLogins,   \* bound on the sign-ins
    MaxDown      \* bound on the restarts of the server

ASSUME ProfileAssumption ==
    /\ MaxUsers \in Nat /\ MaxLogins \in Nat /\ MaxDown \in Nat

VARIABLES
    saved,    \* session_cookies.json: a session, or 0
    user,     \* of each browser user, what it is and how far it is
    holder,   \* whose browser holds the profile, or 0; it may outlive its user
    cookies,  \* the session that browser is signed in with
    page,     \* "open", "closed", or "lingers": closed, but the browser stays
    recovery, \* _LOGIN_RECOVERY_PROCS: a worker, or 0
    request,  \* the tool each thread is in
    downs,
    write,    \* of each user, how far its save of the file is
    polled,   \* observer: the session that the worker's last poll has saved
    severed   \* observer: since the profile was last opened, a save was ended
              \* with the file emptied, or two saves of it met

profileVars == <<saved, user, holder, cookies, page, recovery, request, downs,
                 write, polled, severed>>
fileSide == <<saved, write, polled, severed>>
browserSide == <<holder, cookies, page>>
callSide == <<recovery, request, downs>>

People == 1..MaxUsers
Sessions == 0..MaxLogins
NoRequest == [pc |-> "none"]
Writes == [at : {"none", "read", "cut"}, got : Sessions]
NoWrite == [at |-> "none", got |-> 0]

Stages == {"none", "reset", "kill", "launch", "open", "closing", "ok", "failed"}

(* `before` (observer): the workers that were alive when the cancel began. *)
Requests == [pc : {"reset", "kill", "spawn", "store"}, worker : 0..MaxUsers]
              \cup [pc : {"end", "pop", "cancelReset", "cancelKill"},
                    worker : People, before : SUBSET People]

ProfileTypeOK ==
    /\ {saved, cookies, polled} \subseteq Sessions
    /\ user \in [People -> [kind : {"recovery", "scrape"}, at : Stages,
                            late : BOOLEAN]]
    /\ holder \in 0..MaxUsers /\ page \in {"open", "closed", "lingers"}
    /\ recovery \in 0..MaxUsers
    /\ request \in [Callers -> Requests \cup {NoRequest}]
    /\ downs \in 0..MaxDown
    /\ write \in [People -> Writes] /\ severed \in BOOLEAN

ProfileInit ==
    /\ saved = 0 /\ cookies = 0 /\ polled = 0
    /\ user = [w \in People |->
                 [kind |-> "recovery", at |-> "none", late |-> FALSE]]
    /\ holder = 0 /\ page = "closed" /\ recovery = 0
    /\ request = [t \in Callers |-> NoRequest]
    /\ downs = 0
    /\ write = [w \in People |-> NoWrite] /\ severed = FALSE

-----------------------------------------------------------------------------
Running(w) == user[w].at \notin {"none", "ok", "failed"}
Recoveries == {w \in People : user[w].kind = "recovery" /\ Running(w)}
Gets(w, at) == user' = [user EXCEPT ![w].at = at]

(* Mutant: only the browser is reset. *)
KilledNone(self) == user

(* reset_profile, first half: the recovery workers but oneself. *)
Killed(self) ==
    [w \in People |-> IF w \in Recoveries \ {self}
                      THEN [user[w] EXCEPT !.at = "failed"] ELSE user[w]]

(* Second half, and the watchdog of close_context: the profile's browser.   *)
KillBrowser == holder' = 0 /\ cookies' = 0 /\ page' = "closed"

Saving(w) == write[w].at # "none"

(* Mutant: what cannot be read is saved as nothing. *)
SaveBlindly(w) ==
    /\ write' = [write EXCEPT ![w] =
                    [at |-> "read", got |-> IF holder = w THEN cookies ELSE 0]]
    /\ severed' = (severed \/ \E v \in People \ {w} : Saving(v))

(* save_session_cookies reads the browser's cookies. One that is gone cannot *)
(* be read, and the file stays as it is.                                     *)
Save(w) ==
    IF holder = w
    THEN /\ write' = [write EXCEPT ![w] = [at |-> "read", got |-> cookies]]
         /\ severed' = (severed \/ \E v \in People \ {w} : Saving(v))
    ELSE UNCHANGED <<write, severed>>

(* write_text opens the file, which empties it ... *)
Truncate(w) ==
    /\ write[w].at = "read"
    /\ write' = [write EXCEPT ![w].at = "cut"] /\ saved' = 0
    /\ UNCHANGED <<user, browserSide, recovery, request, downs, polled, severed>>

(* ... and writes it. Text put over another's may be what nobody can read;   *)
(* once severed, that is allowed of every write.                             *)
FinishSave(w) ==
    /\ write[w].at = "cut"
    /\ write' = [write EXCEPT ![w] = NoWrite]
    /\ saved' \in {write[w].got} \cup (IF severed THEN {0} ELSE {})
    /\ polled' = IF user[w].at = "open" THEN write[w].got ELSE polled
    /\ UNCHANGED <<user, browserSide, recovery, request, downs, severed>>

(* A process that is ended in the middle of its save does not finish it. *)
Interrupts ==
    /\ write' = [w \in People |-> IF user'[w].at \in {"ok", "failed"}
                                  THEN NoWrite ELSE write[w]]
    /\ severed' = (severed \/ \E w \in People : /\ write[w].at = "cut"
                                               /\ write'[w].at = "none")

Enters(t, c) ==
    /\ request[t] = NoRequest
    /\ request' = [request EXCEPT ![t] = c]
    /\ UNCHANGED <<fileSide, user, browserSide, recovery, downs>>

Advances(t, pc) == request' = [request EXCEPT ![t].pc = pc]
Returned(t) == request' = [request EXCEPT ![t] = NoRequest]

(* The user that is started next, as a process or a call of its own. *)
Starts(w, k, at) ==
    /\ user[w].at = "none" /\ \A v \in 1..(w - 1) : user[v].at # "none"
    /\ user' = [user EXCEPT ![w] = [kind |-> k, at |-> at, late |-> FALSE]]

-----------------------------------------------------------------------------
(* start_login_recovery. *)
StartRecovery(t) ==
    /\ recovery # 0 => ~Running(recovery)
    /\ Enters(t, [pc |-> "reset", worker |-> 0])

ResetWorkers(t) ==
    /\ request[t].pc \in {"reset", "cancelReset"}
    /\ user' = Killed(0)
    /\ Advances(t, IF request[t].pc = "reset" THEN "kill" ELSE "cancelKill")
    /\ Interrupts
    /\ UNCHANGED <<saved, browserSide, recovery, downs, polled>>

ResetBrowser(t) ==
    /\ \/ request[t].pc = "kill" /\ Advances(t, "spawn")
       \/ request[t].pc = "cancelKill" /\ Returned(t)
    /\ KillBrowser
    /\ UNCHANGED <<fileSide, user, recovery, downs>>

SpawnRecovery(t) ==
    /\ request[t].pc = "spawn"
    /\ \E w \in People :
         /\ Starts(w, "recovery", "reset")
         /\ request' = [request EXCEPT ![t] = [pc |-> "store", worker |-> w]]
    /\ UNCHANGED <<fileSide, browserSide, recovery, downs>>

StoreRecovery(t) ==
    /\ request[t].pc = "store"
    /\ recovery' = request[t].worker
    /\ Returned(t)
    /\ UNCHANGED <<fileSide, user, browserSide, downs>>

-----------------------------------------------------------------------------
(* cancel_login_recovery: end the worker, forget it, release the profile. *)
CancelRecovery(t) ==
    recovery # 0 /\ Enters(t, [pc |-> "end", worker |-> recovery,
                               before |-> Recoveries])

EndWorker(t) ==
    /\ request[t].pc = "end"
    /\ IF Running(request[t].worker) THEN Gets(request[t].worker, "failed")
       ELSE UNCHANGED user
    /\ Advances(t, "pop")
    /\ Interrupts
    /\ UNCHANGED <<saved, browserSide, recovery, downs, polled>>

PopRecovery(t) ==
    /\ request[t].pc = "pop"
    /\ recovery' = 0
    /\ Advances(t, "cancelReset")
    /\ UNCHANGED <<fileSide, user, browserSide, downs>>

(* login_recovery_status forgets a worker that has ended. *)
RecoveryStatus ==
    /\ recovery # 0 /\ ~Running(recovery)
    /\ recovery' = 0
    /\ UNCHANGED <<fileSide, user, browserSide, request, downs>>

-----------------------------------------------------------------------------
(* bootstrap_login_until_window_closed, in the worker: it resets the profile *)
(* once more; the launch fails if the profile is held all the same.          *)
WorkerResets(w) ==
    /\ user[w].at = "reset"
    /\ user' = [Killed(w) EXCEPT ![w].at = "kill"]
    /\ Interrupts
    /\ UNCHANGED <<saved, browserSide, callSide, polled>>

WorkerKills(w) ==
    /\ user[w].at = "kill"
    /\ KillBrowser /\ Gets(w, "launch")
    /\ UNCHANGED <<fileSide, callSide>>

(* restore_session_cookies: what is too old, or not written yet, is not. *)
Restored == {saved, 0}

(* launch_persistent_context, here and in `launch`. *)
LaunchBrowser(w) ==
    /\ user[w].at = "launch"
    /\ IF holder # 0
       THEN Gets(w, "failed") /\ UNCHANGED <<browserSide, polled, severed>>
       ELSE /\ Gets(w, "open") /\ holder' = w /\ page' = "open"
            /\ cookies' \in Restored /\ polled' = 0
            /\ severed' = \E v \in People : Saving(v)
    /\ UNCHANGED <<saved, write, callSide>>

(* keep_session, a tick of the wait. *)
KeepSession(w) ==
    /\ user[w].at = "open" /\ user[w].kind = "recovery" /\ ~Saving(w)
    /\ Save(w)
    /\ UNCHANGED <<saved, user, browserSide, callSide, polled>>

(* The wait ends: the page is closed, no browser is left, or the deadline is *)
(* past; a scrape ends when it ends. Both save what they can still read.     *)
EndWait(w) ==
    \E late \in BOOLEAN :
        /\ user[w].at = "open" /\ ~Saving(w)
        /\ late \/ user[w].kind = "scrape" \/ holder # w \/ page # "open"
        /\ user' = [user EXCEPT ![w].at = "closing", ![w].late = late]
        /\ Save(w)
        /\ UNCHANGED <<saved, browserSide, callSide, polled>>

Ended(w) == IF user[w].late THEN "failed" ELSE "ok"

(* Mutant: close() is left to wait for the browser. *)
CloseAndWait(w) ==
    /\ user[w].at = "closing" /\ ~Saving(w) /\ ~(holder = w /\ page = "lingers")
    /\ IF holder = w THEN KillBrowser ELSE UNCHANGED browserSide
    /\ Gets(w, Ended(w))
    /\ UNCHANGED <<fileSide, callSide>>

(* close_context: a browser that does not go is killed after 5 s, and        *)
(* close() returns.                                                          *)
CloseContext(w) ==
    /\ user[w].at = "closing" /\ ~Saving(w)
    /\ IF holder = w THEN KillBrowser ELSE UNCHANGED browserSide
    /\ Gets(w, Ended(w))
    /\ UNCHANGED <<fileSide, callSide>>

-----------------------------------------------------------------------------
(* The operator, at the window of a recovery; a scrape signs in by itself.   *)
LogIn ==
    /\ holder # 0 /\ page = "open" /\ user[holder].at = "open"
    /\ cookies' = 1 + (IF saved > cookies THEN saved ELSE cookies)
    /\ cookies' <= MaxLogins
    /\ UNCHANGED <<fileSide, user, holder, page, callSide>>

ClosePage ==
    /\ holder # 0 /\ page = "open" /\ user[holder].kind = "recovery"
    /\ page' \in {"closed", "lingers"}
    /\ UNCHANGED <<fileSide, user, holder, cookies, callSide>>

(* Quit, crashed, or killed for a neighbour's sake. *)
Quit ==
    /\ holder # 0 /\ KillBrowser
    /\ UNCHANGED <<fileSide, user, callSide>>

(* run_scraper, with the profile that the last recovery left. *)
Scrape(w) ==
    /\ Starts(w, "scrape", "launch")
    /\ UNCHANGED <<fileSide, browserSide, callSide>>

(* The app goes down, with its scrapes; recoveries and browsers live on. *)
GoDown ==
    /\ downs < MaxDown /\ downs' = downs + 1
    /\ recovery' = 0 /\ request' = [t \in Callers |-> NoRequest]
    /\ user' = [w \in People |-> IF Running(w) /\ user[w].kind = "scrape"
                                 THEN [user[w] EXCEPT !.at = "failed"]
                                 ELSE user[w]]
    /\ Interrupts
    /\ UNCHANGED <<saved, browserSide, polled>>

Progresses(w) ==
    \/ WorkerResets(w) \/ WorkerKills(w) \/ LaunchBrowser(w)
    \/ EndWait(w) \/ Truncate(w) \/ FinishSave(w) \/ CloseContext(w)

ProfileNext ==
    \/ \E t \in Callers :
         \/ StartRecovery(t) \/ ResetWorkers(t) \/ ResetBrowser(t)
         \/ SpawnRecovery(t) \/ StoreRecovery(t)
         \/ CancelRecovery(t) \/ EndWorker(t) \/ PopRecovery(t)
    \/ \E w \in People : Progresses(w) \/ KeepSession(w) \/ Scrape(w)
    \/ RecoveryStatus \/ LogIn \/ ClosePage \/ Quit \/ GoDown

(* A process that runs goes on; the wait looks at its deadline after every   *)
(* poll, the close has a watchdog. Nothing is asked of the operator.         *)
ProfileFairness ==
    \A w \in People : WF_profileVars(Progresses(w)) /\ SF_profileVars(EndWait(w))

ProfileSpec == ProfileInit /\ [][ProfileNext]_profileVars /\ ProfileFairness

-----------------------------------------------------------------------------
(* A login that a poll of the worker has saved is on disk however the        *)
(* recovery ends -- the page closed, the browser quit or killed, the worker  *)
(* cancelled between two saves -- until another browser is opened with the   *)
(* profile. Every save empties the file before it writes it: the login is    *)
(* not there meanwhile, it is lost if the worker is ended then, and nothing  *)
(* is said once two saves have met.                                          *)
LoginIsKept ==
    polled # 0 /\ ~severed /\ (\A w \in People : write[w].at # "cut")
        => saved >= polled

(* cancel_login_recovery ends every recovery that was under way when it was  *)
(* asked, also one that the server has lost track of: two starts at once, or *)
(* an earlier server's. What is left would hold the profile of the retry.    *)
CancelEndsAll ==
    [][\A t \in Callers :
         request[t].pc = "cancelKill" /\ request'[t] = NoRequest
           => \A w \in request[t].before : user[w].at \in {"ok", "failed"}
      ]_profileVars

(* "The worker (and the UI polling it) can never hang indefinitely": every   *)
(* recovery ends, whatever the operator does or does not do.                 *)
EveryRecoveryEnds ==
    \A w \in People : (user[w].at = "reset") ~> (user[w].at \in {"ok", "failed"})
=============================================================================
