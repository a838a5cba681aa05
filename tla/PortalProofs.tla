---------------------------- MODULE PortalProofs ----------------------------
(***************************************************************************)
(* A source's browser profile, a sign-in, a build's watchdog, the pull of  *)
(* a bank account and the recording of a demonstration, for any number of  *)
(* threads, browsers, sign-ins, restarts, rows, documents and actions, and *)
(* for any times; and the portal they make together.                       *)
(***************************************************************************)
EXTENDS MCPortal, DataLemmas

-----------------------------------------------------------------------------
(* The profile. A cancel goes through four steps, and other calls through    *)
(* theirs meanwhile: what it found running is remembered in `before`, so the *)
(* invariant follows those workers from step to step. Nothing that has begun *)
(* is begun again, and nothing that has ended goes on (Goes).                *)

(* While a cancel is under way, what it found running was a recovery that    *)
(* had begun; once the workers are reset, none of it runs any more.          *)
Thorough(c, u) ==
    /\ c.pc \in {"end", "pop", "cancelReset"} =>
         \A w \in c.before : u[w].kind = "recovery" /\ u[w].at # "none"
    /\ c.pc = "cancelKill" => \A w \in c.before : u[w].at \in {"ok", "failed"}

CancelsAreThorough == \A t \in Callers : Thorough(request[t], user)

(* Until it is severed, the file has one writer at most; what that has read, *)
(* the session of the browser, and what is in the file while nobody has      *)
(* emptied it, are each no older than the session a poll has saved.          *)
PolledIsHeld ==
    ~severed =>
        /\ \A v, w \in People : Saving(v) /\ Saving(w) => v = w
        /\ \A w \in People : Saving(w) =>
             write[w].got >= polled /\ (holder # 0 => cookies >= write[w].got)
        /\ holder # 0 => cookies >= polled
        /\ (\A w \in People : write[w].at # "cut") => saved >= polled

(* What a step that saves nothing may do to the file: it may end savers.     *)
FileCalm ==
    /\ saved' = saved /\ polled' = polled
    /\ (write' = write /\ severed' = severed) \/ Interrupts

ProfileIInv == ProfileTypeOK /\ CancelsAreThorough /\ PolledIsHeld

User == [kind : {"recovery", "scrape"}, at : Stages, late : BOOLEAN]
Early == [pc : {"reset", "kill", "spawn", "store"}, worker : 0..MaxUsers]
Cancels == [pc : {"end", "pop", "cancelReset", "cancelKill"},
            worker : People, before : SUBSET People]

LEMMA RequestKinds == Requests = Early \cup Cancels
  BY DEF Requests, Early, Cancels

LEMMA AtOfRecord ==
    ASSUME NEW r \in User, NEW s \in Stages
    PROVE  /\ [r EXCEPT !.at = s] \in User
           /\ [r EXCEPT !.at = s].kind = r.kind
           /\ [r EXCEPT !.at = s].at = s
  BY DEF User

(* What a step may do to the users that have begun. *)
Goes(before, after) ==
    \A v \in People : before[v].at # "none" =>
        /\ after[v].kind = before[v].kind /\ after[v].at # "none"
        /\ before[v].at \in {"ok", "failed"} => after[v].at = before[v].at

LEMMA AtChanges ==
    ASSUME NEW u \in [People -> User], NEW w \in People, NEW s \in Stages
    PROVE  /\ [u EXCEPT ![w].at = s] \in [People -> User]
           /\ u[w].at \notin {"ok", "failed"} /\ s # "none"
                => Goes(u, [u EXCEPT ![w].at = s])
  <1> DEFINE n == [u EXCEPT ![w].at = s]
  <1>1. u[w] \in User OBVIOUS
  <1>2. n = [v \in People |-> IF v = w THEN [u[w] EXCEPT !.at = s] ELSE u[v]]
    OBVIOUS
  <1>3. /\ [u[w] EXCEPT !.at = s] \in User
        /\ [u[w] EXCEPT !.at = s].kind = u[w].kind
        /\ [u[w] EXCEPT !.at = s].at = s
    BY <1>1, AtOfRecord
  <1> HIDE DEF n
  <1>4. n \in [People -> User] BY <1>2, <1>3
  <1>5. \A v \in People : n[v].kind = u[v].kind /\ n[v].at = IF v = w THEN s ELSE u[v].at
    BY <1>2, <1>3
  <1>q. QED BY <1>4, <1>5 DEF Goes, n

LEMMA LateChanges ==
    ASSUME NEW u \in [People -> User], NEW w \in People, NEW late \in BOOLEAN,
           u[w].at = "open"
    PROVE  /\ [u EXCEPT ![w].at = "closing", ![w].late = late] \in [People -> User]
           /\ Goes(u, [u EXCEPT ![w].at = "closing", ![w].late = late])
  <1> DEFINE r == [[u[w] EXCEPT !.at = "closing"] EXCEPT !.late = late]
             n == [u EXCEPT ![w].at = "closing", ![w].late = late]
  <1>1. u[w] \in User OBVIOUS
  <1>2. r \in User /\ r.kind = u[w].kind /\ r.at = "closing"
    BY <1>1 DEF User, Stages
  <1>3. n = [v \in People |-> IF v = w THEN r ELSE u[v]] OBVIOUS
  <1> HIDE DEF n, r
  <1>4. n \in [People -> User] BY <1>2, <1>3
  <1>5. \A v \in People : n[v].kind = u[v].kind /\ n[v].at = IF v = w THEN "closing" ELSE u[v].at
    BY <1>2, <1>3
  <1>q. QED BY <1>4, <1>5 DEF Goes, n

LEMMA KilledFacts ==
    ASSUME NEW self, user \in [People -> User]
    PROVE  /\ Killed(self) \in [People -> User] /\ Goes(user, Killed(self))
           /\ \A v \in People : /\ Killed(self)[v].kind = user[v].kind
                                /\ Killed(self)[v].at =
                                     IF v \in Recoveries \ {self} THEN "failed" ELSE user[v].at
  <1>1. "failed" \in Stages BY DEF Stages
  <1>2. ASSUME NEW v \in People
        PROVE  /\ [user[v] EXCEPT !.at = "failed"] \in User
               /\ [user[v] EXCEPT !.at = "failed"].kind = user[v].kind
               /\ [user[v] EXCEPT !.at = "failed"].at = "failed"
    <2>1. user[v] \in User OBVIOUS
    <2>q. QED BY <1>1, <2>1, AtOfRecord
  <1>3. Killed(self) \in [People -> User] BY <1>2 DEF Killed
  <1>4. \A v \in People : /\ Killed(self)[v].kind = user[v].kind
                          /\ Killed(self)[v].at =
                               IF v \in Recoveries \ {self} THEN "failed" ELSE user[v].at
    BY <1>2 DEF Killed
  <1>5. \A v \in Recoveries : user[v].at \notin {"none", "ok", "failed"}
    BY DEF Recoveries, Running
  <1>q. QED BY <1>3, <1>4, <1>5 DEF Goes

LEMMA StartsFacts ==
    ASSUME NEW w \in People, NEW k \in {"recovery", "scrape"}, NEW s \in Stages,
           user \in [People -> User], Starts(w, k, s)
    PROVE  user' \in [People -> User] /\ Goes(user, user')
  <1>1. [kind |-> k, at |-> s, late |-> FALSE] \in User BY DEF User
  <1>q. QED BY <1>1 DEF Starts, Goes

LEMMA PcOfRequest ==
    /\ \A r \in Early, p \in {"reset", "kill", "spawn", "store"} :
          [r EXCEPT !.pc = p] \in Early
    /\ \A r \in Cancels, p \in {"end", "pop", "cancelReset", "cancelKill"} :
          /\ [r EXCEPT !.pc = p] \in Cancels /\ [r EXCEPT !.pc = p].pc = p
          /\ [r EXCEPT !.pc = p].before = r.before
  BY DEF Early, Cancels

(* A call is of the kind its pc tells. *)
LEMMA KindOfCall ==
    ASSUME NEW c \in Requests \cup {NoRequest}
    PROVE  /\ c.pc \in {"reset", "kill", "spawn", "store"} => c \in Early
           /\ c.pc \in {"end", "pop", "cancelReset", "cancelKill"} => c \in Cancels
  BY RequestKinds DEF Early, Cancels, NoRequest

LEMMA ThoroughStays ==
    ASSUME NEW c \in Requests \cup {NoRequest}, NEW u \in [People -> User],
           NEW v \in [People -> User], Goes(u, v), Thorough(c, u)
    PROVE  Thorough(c, v)
  <1>1. c.pc \in {"end", "pop", "cancelReset", "cancelKill"} => c.before \subseteq People
    BY KindOfCall DEF Cancels
  <1>2. ASSUME c.pc \in {"end", "pop", "cancelReset"}, NEW w \in c.before
        PROVE  v[w].kind = "recovery" /\ v[w].at # "none"
    <2>1. u[w].kind = "recovery" /\ u[w].at # "none" /\ w \in People
      BY <1>1, <1>2 DEF Thorough
    <2>q. QED BY <2>1 DEF Goes
  <1>3. ASSUME c.pc = "cancelKill", NEW w \in c.before PROVE v[w].at \in {"ok", "failed"}
    <2>1. u[w].at \in {"ok", "failed"} /\ w \in People BY <1>1, <1>3 DEF Thorough
    <2>2. u[w].at # "none" BY <2>1
    <2>q. QED BY <2>1, <2>2 DEF Goes
  <1>q. QED BY <1>2, <1>3 DEF Thorough

(* The calls after a step that sets one of them, or none. *)
LEMMA CallIsSet ==
    ASSUME ProfileIInv, NEW t \in Callers, NEW c \in Requests \cup {NoRequest},
           user' \in [People -> User], Goes(user, user'), Thorough(c, user'),
           request' = [request EXCEPT ![t] = c]
    PROVE  /\ request' \in [Callers -> Requests \cup {NoRequest}]
           /\ CancelsAreThorough'
  <1>1. request \in [Callers -> Requests \cup {NoRequest}] /\ user \in [People -> User]
    BY DEF ProfileIInv, ProfileTypeOK, User
  <1>2. request' \in [Callers -> Requests \cup {NoRequest}] BY <1>1
  <1>3. ASSUME NEW v \in Callers PROVE Thorough(request'[v], user')
    <2>1. CASE v = t
      <3>1. request'[v] = c BY <1>1, <2>1
      <3>q. QED BY <3>1
    <2>2. CASE v # t
      <3>1. request'[v] = request[v] BY <1>1, <2>2
      <3>2. Thorough(request[v], user) /\ request[v] \in Requests \cup {NoRequest}
        BY <1>1 DEF ProfileIInv, CancelsAreThorough
      <3>3. Thorough(request[v], user') BY <1>1, <3>2, ThoroughStays
      <3>q. QED BY <3>1, <3>3
    <2>q. QED BY <2>1, <2>2
  <1>q. QED BY <1>2, <1>3 DEF CancelsAreThorough

LEMMA CallsStay ==
    ASSUME ProfileIInv, user' \in [People -> User], Goes(user, user'), request' = request
    PROVE  /\ request' \in [Callers -> Requests \cup {NoRequest}]
           /\ CancelsAreThorough'
  <1>1. request \in [Callers -> Requests \cup {NoRequest}] /\ user \in [People -> User]
    BY DEF ProfileIInv, ProfileTypeOK, User
  <1>2. ASSUME NEW v \in Callers PROVE Thorough(request'[v], user')
    <2>1. request'[v] = request[v] OBVIOUS
    <2>2. Thorough(request[v], user) /\ request[v] \in Requests \cup {NoRequest}
      BY <1>1 DEF ProfileIInv, CancelsAreThorough
    <2>3. Thorough(request[v], user') BY <1>1, <2>2, ThoroughStays
    <2>q. QED BY <2>1, <2>3
  <1>q. QED BY <1>1, <1>2 DEF CancelsAreThorough

LEMMA UsersStay ==
    ASSUME ProfileIInv, user' = user
    PROVE  user' \in [People -> User] /\ Goes(user, user')
  BY DEF ProfileIInv, ProfileTypeOK, User, Goes

(* A call that ends is thorough, and so is one that has begun no cancel. *)
LEMMA ThoroughAtOnce ==
    ASSUME NEW c \in Early \cup {NoRequest}, NEW u
    PROVE  c \in Requests \cup {NoRequest} /\ Thorough(c, u)
  BY RequestKinds DEF Early, NoRequest, Thorough

LEMMA ProfileStarts == ProfileInit => ProfileIInv
  <1> SUFFICES ASSUME ProfileInit PROVE ProfileIInv OBVIOUS
  <1> USE ProfileAssumption
  <1>1. user \in [People -> [kind : {"recovery", "scrape"}, at : Stages, late : BOOLEAN]]
    BY DEF ProfileInit, Stages
  <1>2. request \in [Callers -> Requests \cup {NoRequest}] BY DEF ProfileInit
  <1>3. ProfileTypeOK
    <2>1. {saved, cookies, polled} \subseteq Sessions BY DEF ProfileInit, Sessions
    <2>2. holder \in 0..MaxUsers /\ page \in {"open", "closed", "lingers"}
          /\ recovery \in 0..MaxUsers /\ downs \in 0..MaxDown
      BY DEF ProfileInit
    <2>3. NoWrite \in Writes BY DEF Writes, NoWrite, Sessions
    <2>4. write \in [People -> Writes] /\ severed \in BOOLEAN BY <2>3 DEF ProfileInit
    <2>q. QED BY <1>1, <1>2, <2>1, <2>2, <2>4 DEF ProfileTypeOK
  <1>4. ASSUME NEW t \in Callers PROVE Thorough(request[t], user)
    <2>1. request[t] = NoRequest BY DEF ProfileInit
    <2>q. QED BY <2>1, ThoroughAtOnce
  <1>5. PolledIsHeld BY DEF ProfileInit, PolledIsHeld, Saving, NoWrite
  <1>q. QED BY <1>3, <1>4, <1>5 DEF ProfileIInv, CancelsAreThorough

(* What the calls of the server do to the users and to each other. *)
LEMMA CallSteps ==
    ASSUME ProfileIInv, NEW t \in Callers,
           \/ StartRecovery(t) \/ ResetWorkers(t) \/ ResetBrowser(t)
           \/ SpawnRecovery(t) \/ StoreRecovery(t)
           \/ CancelRecovery(t) \/ EndWorker(t) \/ PopRecovery(t)
    PROVE  /\ user' \in [People -> User]
           /\ request' \in [Callers -> Requests \cup {NoRequest}]
           /\ CancelsAreThorough'
           /\ recovery' \in 0..MaxUsers
           /\ FileCalm /\ downs' = downs
           /\ (holder' = holder /\ cookies' = cookies /\ page' = page) \/ KillBrowser
  <1> USE ProfileAssumption
  <1>0. /\ request \in [Callers -> Requests \cup {NoRequest}] /\ user \in [People -> User]
        /\ recovery \in 0..MaxUsers
        /\ request[t] \in Requests \cup {NoRequest} /\ Thorough(request[t], user)
    BY DEF ProfileIInv, ProfileTypeOK, User, CancelsAreThorough
  <1>1. CASE StartRecovery(t)
    <2>1. /\ request' = [request EXCEPT ![t] = [pc |-> "reset", worker |-> 0]]
          /\ user' = user /\ recovery' = recovery
          /\ FileCalm /\ downs' = downs
          /\ holder' = holder /\ cookies' = cookies /\ page' = page
      BY <1>1 DEF StartRecovery, FileCalm, fileSide, Enters, browserSide
    <2>2. [pc |-> "reset", worker |-> 0] \in Early BY DEF Early
    <2>q. QED BY <1>0, <2>1, <2>2, UsersStay, ThoroughAtOnce, CallIsSet
  <1>2. CASE ResetWorkers(t)
    <2> DEFINE pc == IF request[t].pc = "reset" THEN "kill" ELSE "cancelKill"
               c == [request[t] EXCEPT !.pc = pc]
    <2>1. /\ request[t].pc \in {"reset", "cancelReset"}
          /\ user' = Killed(0) /\ request' = [request EXCEPT ![t] = c]
          /\ recovery' = recovery
          /\ FileCalm /\ downs' = downs
          /\ holder' = holder /\ cookies' = cookies /\ page' = page
      BY <1>0, <1>2 DEF ResetWorkers, FileCalm, fileSide, Advances, browserSide
    <2>2. /\ user' \in [People -> User] /\ Goes(user, user')
          /\ \A v \in People : user'[v].at = IF v \in Recoveries \ {0} THEN "failed"
                                             ELSE user[v].at
      BY <1>0, <2>1, KilledFacts
    <2>3. CASE request[t].pc = "reset"
      <3>1. request[t] \in Early BY <1>0, <2>3, KindOfCall
      <3>2. c \in Early BY <2>3, <3>1, PcOfRequest
      <3> HIDE DEF c, pc
      <3>q. QED BY <1>0, <2>1, <2>2, <3>2, ThoroughAtOnce, CallIsSet
    <2>4. CASE request[t].pc = "cancelReset"
      <3>1. request[t] \in Cancels BY <1>0, <2>4, KindOfCall
      <3>0. pc = "cancelKill" BY <2>4
      <3> HIDE DEF pc
      <3>2. c \in Cancels /\ c.pc = "cancelKill" /\ c.before = request[t].before
        BY <3>0, <3>1, PcOfRequest
      <3> HIDE DEF c, pc
      <3>3. c \in Requests \cup {NoRequest} BY <3>2, RequestKinds
      <3>4. ASSUME NEW w \in c.before PROVE user'[w].at \in {"ok", "failed"}
        <4>1. w \in People /\ w # 0 BY <3>1, <3>2 DEF Cancels, People
        <4>2. user[w].kind = "recovery" /\ user[w].at # "none"
          BY <1>0, <2>4, <3>2 DEF Thorough
        <4>3. w \in Recoveries \/ user[w].at \in {"ok", "failed"}
          BY <4>1, <4>2 DEF Recoveries, Running
        <4>q. QED BY <2>2, <4>1, <4>3
      <3>5. Thorough(c, user') BY <3>2, <3>4 DEF Thorough
      <3>q. QED BY <1>0, <2>1, <2>2, <3>3, <3>5, CallIsSet
    <2>q. QED BY <2>1, <2>3, <2>4
  <1>3. CASE ResetBrowser(t)
    <2>1. /\ KillBrowser /\ user' = user /\ recovery' = recovery
          /\ FileCalm /\ downs' = downs
      BY <1>3 DEF ResetBrowser, FileCalm, fileSide
    <2>2. CASE request[t].pc = "kill" /\ Advances(t, "spawn")
      <3> DEFINE c == [request[t] EXCEPT !.pc = "spawn"]
      <3>1. request' = [request EXCEPT ![t] = c] BY <1>0, <2>2 DEF Advances
      <3>2. request[t] \in Early BY <1>0, <2>2, KindOfCall
      <3>3. c \in Early BY <3>2, PcOfRequest
      <3> HIDE DEF c
      <3>q. QED BY <1>0, <2>1, <3>1, <3>3, UsersStay, ThoroughAtOnce, CallIsSet
    <2>3. CASE Returned(t)
      <3>1. request' = [request EXCEPT ![t] = NoRequest] BY <2>3 DEF Returned
      <3>q. QED BY <1>0, <2>1, <3>1, UsersStay, ThoroughAtOnce, CallIsSet
    <2>q. QED BY <1>3, <2>2, <2>3 DEF ResetBrowser, FileCalm, fileSide
  <1>4. CASE SpawnRecovery(t)
    <2>1. PICK w \in People :
            /\ Starts(w, "recovery", "reset")
            /\ request' = [request EXCEPT ![t] = [pc |-> "store", worker |-> w]]
      BY <1>4 DEF SpawnRecovery, FileCalm, fileSide
    <2>2. /\ recovery' = recovery
          /\ FileCalm /\ downs' = downs
          /\ holder' = holder /\ cookies' = cookies /\ page' = page
      BY <1>4 DEF SpawnRecovery, FileCalm, fileSide, browserSide
    <2>3. user' \in [People -> User] /\ Goes(user, user')
      BY <1>0, <2>1, StartsFacts DEF Stages
    <2>4. [pc |-> "store", worker |-> w] \in Early BY DEF Early, People
    <2>q. QED BY <1>0, <2>1, <2>2, <2>3, <2>4, ThoroughAtOnce, CallIsSet
  <1>5. CASE StoreRecovery(t)
    <2>1. /\ request[t].pc = "store" /\ recovery' = request[t].worker
          /\ request' = [request EXCEPT ![t] = NoRequest] /\ user' = user
          /\ FileCalm /\ downs' = downs
          /\ holder' = holder /\ cookies' = cookies /\ page' = page
      BY <1>5 DEF StoreRecovery, FileCalm, fileSide, Returned, browserSide
    <2>2. request[t] \in Early BY <1>0, <2>1, KindOfCall
    <2>3. recovery' \in 0..MaxUsers BY <2>1, <2>2 DEF Early
    <2>q. QED BY <1>0, <2>1, <2>3, UsersStay, ThoroughAtOnce, CallIsSet
  <1>6. CASE CancelRecovery(t)
    <2> DEFINE c == [pc |-> "end", worker |-> recovery, before |-> Recoveries]
    <2>1. /\ recovery # 0 /\ request' = [request EXCEPT ![t] = c]
          /\ user' = user /\ recovery' = recovery
          /\ FileCalm /\ downs' = downs
          /\ holder' = holder /\ cookies' = cookies /\ page' = page
      BY <1>6 DEF CancelRecovery, FileCalm, fileSide, Enters, browserSide
    <2>2. recovery \in People BY <1>0, <2>1 DEF People
    <2>3. Recoveries \subseteq People BY DEF Recoveries
    <2>4. c \in Cancels /\ c.pc = "end" /\ c.before = Recoveries BY <2>2, <2>3 DEF Cancels
    <2>5. Thorough(c, user') BY <2>1, <2>4 DEF Thorough, Recoveries, Running
    <2>6. c \in Requests \cup {NoRequest} BY <2>4, RequestKinds
    <2> HIDE DEF c
    <2>q. QED BY <1>0, <2>1, <2>5, <2>6, UsersStay, CallIsSet
  <1>7. CASE EndWorker(t)
    <2> DEFINE c == [request[t] EXCEPT !.pc = "pop"]  w == request[t].worker
    <2>1. /\ request[t].pc = "end" /\ request' = [request EXCEPT ![t] = c]
          /\ user' = (IF Running(w) THEN [user EXCEPT ![w].at = "failed"] ELSE user)
          /\ recovery' = recovery
          /\ FileCalm /\ downs' = downs
          /\ holder' = holder /\ cookies' = cookies /\ page' = page
      BY <1>0, <1>7 DEF EndWorker, FileCalm, fileSide, Gets, Advances, browserSide
    <2>2. request[t] \in Cancels BY <1>0, <2>1, KindOfCall
    <2>3. w \in People BY <2>2 DEF Cancels
    <2>4. c \in Cancels /\ c.pc = "pop" /\ c.before = request[t].before
      BY <2>2, PcOfRequest
    <2> HIDE DEF c, w
    <2>5. user' \in [People -> User] /\ Goes(user, user')
      <3>1. CASE Running(w)
        <4>1. user[w].at \notin {"none", "ok", "failed"} BY <3>1 DEF Running
        <4>2. "failed" \in Stages BY DEF Stages
        <4>q. QED BY <1>0, <2>1, <2>3, <3>1, <4>1, <4>2, AtChanges
      <3>2. CASE ~Running(w) BY <2>1, <3>2, UsersStay
      <3>q. QED BY <3>1, <3>2
    <2>6. c \in Requests \cup {NoRequest} BY <2>4, RequestKinds
    <2>7. Thorough(request[t], user') BY <1>0, <2>5, ThoroughStays
    <2>8. Thorough(c, user') BY <2>1, <2>4, <2>7 DEF Thorough
    <2>q. QED BY <1>0, <2>1, <2>5, <2>6, <2>8, CallIsSet
  <1>8. CASE PopRecovery(t)
    <2> DEFINE c == [request[t] EXCEPT !.pc = "cancelReset"]
    <2>1. /\ request[t].pc = "pop" /\ request' = [request EXCEPT ![t] = c]
          /\ user' = user /\ recovery' = 0
          /\ FileCalm /\ downs' = downs
          /\ holder' = holder /\ cookies' = cookies /\ page' = page
      BY <1>0, <1>8 DEF PopRecovery, FileCalm, fileSide, Advances, browserSide
    <2>2. request[t] \in Cancels BY <1>0, <2>1, KindOfCall
    <2>4. c \in Cancels /\ c.pc = "cancelReset" /\ c.before = request[t].before
      BY <2>2, PcOfRequest
    <2> HIDE DEF c
    <2>6. c \in Requests \cup {NoRequest} BY <2>4, RequestKinds
    <2>8. Thorough(c, user') BY <1>0, <2>1, <2>4 DEF Thorough
    <2>9. recovery' \in 0..MaxUsers BY <2>1
    <2>q. QED BY <1>0, <2>1, <2>6, <2>8, <2>9, UsersStay, CallIsSet
  <1>q. QED BY <1>1, <1>2, <1>3, <1>4, <1>5, <1>6, <1>7, <1>8

(* What the browser users, the operator and a restart of the server do. *)
LEMMA UserSteps ==
    ASSUME ProfileIInv,
           \/ \E w \in People : Progresses(w) \/ KeepSession(w) \/ Scrape(w)
           \/ RecoveryStatus \/ LogIn \/ ClosePage \/ Quit \/ GoDown
    PROVE  /\ user' \in [People -> User]
           /\ request' \in [Callers -> Requests \cup {NoRequest}]
           /\ CancelsAreThorough'
           /\ recovery' \in 0..MaxUsers /\ downs' \in 0..MaxDown
  <1> USE ProfileAssumption
  <1>0. /\ user \in [People -> User] /\ recovery \in 0..MaxUsers /\ downs \in 0..MaxDown
        /\ request \in [Callers -> Requests \cup {NoRequest}]
    BY DEF ProfileIInv, ProfileTypeOK, User
  <1>1. ASSUME NEW w \in People, WorkerResets(w)
        PROVE  /\ user' \in [People -> User] /\ Goes(user, user') /\ request' = request
               /\ recovery' = recovery /\ downs' = downs
    <2> DEFINE k == Killed(w)
    <2>1. /\ user[w].at = "reset" /\ user' = [k EXCEPT ![w].at = "kill"]
          /\ request' = request /\ recovery' = recovery /\ downs' = downs
      BY <1>1 DEF WorkerResets, callSide
    <2>2. /\ k \in [People -> User] /\ Goes(user, k) /\ k[w].at = user[w].at
      BY <1>0, KilledFacts
    <2> HIDE DEF k
    <2>3. "kill" \in Stages BY DEF Stages
    <2>4. user' \in [People -> User] /\ Goes(k, user') BY <2>1, <2>2, <2>3, AtChanges
    <2>5. Goes(user, user') BY <2>2, <2>4 DEF Goes
    <2>q. QED BY <2>1, <2>4, <2>5
  <1>2. ASSUME NEW w \in People, NEW s \in Stages \ {"none"}, Gets(w, s),
               user[w].at \notin {"none", "ok", "failed"}
        PROVE  user' \in [People -> User] /\ Goes(user, user')
    BY <1>0, <1>2, AtChanges DEF Gets
  <1>3. ASSUME NEW w \in People, Progresses(w)
        PROVE  /\ user' \in [People -> User] /\ Goes(user, user') /\ request' = request
               /\ recovery' = recovery /\ downs' = downs
    <2>1. CASE WorkerResets(w) BY <1>1, <2>1
    <2>2. CASE WorkerKills(w)
      <3>1. user[w].at = "kill" /\ Gets(w, "launch") BY <2>2 DEF WorkerKills
      <3>2. "launch" \in Stages \ {"none"} BY DEF Stages
      <3>3. user' \in [People -> User] /\ Goes(user, user') BY <3>1, <3>2, <1>2
      <3>q. QED BY <2>2, <3>3 DEF WorkerKills, callSide
    <2>3. CASE LaunchBrowser(w)
      <3>1. user[w].at = "launch" /\ (Gets(w, "failed") \/ Gets(w, "open"))
        BY <2>3 DEF LaunchBrowser
      <3>2. "failed" \in Stages \ {"none"} /\ "open" \in Stages \ {"none"} BY DEF Stages
      <3>3. user' \in [People -> User] /\ Goes(user, user') BY <3>1, <3>2, <1>2
      <3>q. QED BY <2>3, <3>3 DEF LaunchBrowser, callSide
    <2>4. CASE EndWait(w)
      <3>1. PICK late \in BOOLEAN :
              /\ user[w].at = "open"
              /\ user' = [user EXCEPT ![w].at = "closing", ![w].late = late]
              /\ UNCHANGED callSide
        BY <2>4 DEF EndWait
      <3>2. user' \in [People -> User] /\ Goes(user, user') BY <1>0, <3>1, LateChanges
      <3>q. QED BY <3>1, <3>2 DEF callSide
    <2>5. CASE CloseContext(w)
      <3>1. user[w].at = "closing" /\ Gets(w, Ended(w)) BY <2>5 DEF CloseContext
      <3>2. Ended(w) \in Stages \ {"none"} BY DEF Stages, Ended
      <3>3. user' \in [People -> User] /\ Goes(user, user') BY <3>1, <3>2, <1>2
      <3>q. QED BY <2>5, <3>3 DEF CloseContext, callSide
    <2>6. CASE Truncate(w) \/ FinishSave(w)
      <3>1. user' = user /\ request' = request /\ recovery' = recovery /\ downs' = downs
        BY <2>6 DEF Truncate, FinishSave
      <3>q. QED BY <3>1, UsersStay
    <2>q. QED BY <1>3, <2>1, <2>2, <2>3, <2>4, <2>5, <2>6 DEF Progresses
  <1>4. ASSUME NEW w \in People, Scrape(w)
        PROVE  /\ user' \in [People -> User] /\ Goes(user, user') /\ request' = request
               /\ recovery' = recovery /\ downs' = downs
    <2>1. Starts(w, "scrape", "launch") BY <1>4 DEF Scrape
    <2>2. "launch" \in Stages BY DEF Stages
    <2>3. user' \in [People -> User] /\ Goes(user, user')
      BY <1>0, <2>1, <2>2, StartsFacts
    <2>q. QED BY <1>4, <2>3 DEF Scrape, callSide
  <1>5. ASSUME \/ \E w \in People : KeepSession(w)
               \/ RecoveryStatus \/ LogIn \/ ClosePage \/ Quit
        PROVE  user' = user /\ request' = request /\ recovery' \in 0..MaxUsers /\ downs' = downs
    <2>1. CASE \E w \in People : KeepSession(w)
      BY <1>0, <2>1 DEF KeepSession, callSide
    <2>2. CASE RecoveryStatus
      <3>1. recovery' = 0 BY <2>2 DEF RecoveryStatus
      <3>2. recovery' \in 0..MaxUsers BY <3>1
      <3>q. QED BY <2>2, <3>2 DEF RecoveryStatus
    <2>3. CASE LogIn BY <1>0, <2>3 DEF LogIn, callSide
    <2>4. CASE ClosePage BY <1>0, <2>4 DEF ClosePage, callSide
    <2>5. CASE Quit BY <1>0, <2>5 DEF Quit, callSide
    <2>q. QED BY <1>5, <2>1, <2>2, <2>3, <2>4, <2>5
  <1>6. ASSUME GoDown
        PROVE  /\ user' \in [People -> User]
               /\ request' \in [Callers -> Requests \cup {NoRequest}]
               /\ CancelsAreThorough'
               /\ recovery' \in 0..MaxUsers /\ downs' \in 0..MaxDown
    <2>1. /\ downs < MaxDown /\ downs' = downs + 1 /\ recovery' = 0
          /\ request' = [t \in Callers |-> NoRequest]
          /\ user' = [w \in People |-> IF Running(w) /\ user[w].kind = "scrape"
                                       THEN [user[w] EXCEPT !.at = "failed"]
                                       ELSE user[w]]
      BY <1>6 DEF GoDown
    <2>2. recovery' \in 0..MaxUsers /\ downs' \in 0..MaxDown BY <1>0, <2>1
    <2>3. ASSUME NEW w \in People PROVE [user[w] EXCEPT !.at = "failed"] \in User
      <3>1. user[w] \in User /\ "failed" \in Stages BY <1>0 DEF Stages
      <3>q. QED BY <3>1, AtOfRecord
    <2>4. user' \in [People -> User] BY <1>0, <2>1, <2>3
    <2>5. ASSUME NEW t \in Callers PROVE Thorough(request'[t], user')
      <3>1. request'[t] = NoRequest BY <2>1
      <3>q. QED BY <3>1, ThoroughAtOnce
    <2>6. CancelsAreThorough' BY <2>5 DEF CancelsAreThorough
    <2>7. request' \in [Callers -> Requests \cup {NoRequest}] BY <2>1
    <2>q. QED BY <2>2, <2>4, <2>6, <2>7
  <1>7. CASE \E w \in People : Progresses(w) \/ Scrape(w)
    <2>1. /\ user' \in [People -> User] /\ Goes(user, user') /\ request' = request
          /\ recovery' = recovery /\ downs' = downs
      BY <1>3, <1>4, <1>7
    <2>q. QED BY <1>0, <2>1, CallsStay
  <1>8. CASE \/ \E w \in People : KeepSession(w)
             \/ RecoveryStatus \/ LogIn \/ ClosePage \/ Quit
    <2>1. user' = user /\ request' = request /\ recovery' \in 0..MaxUsers /\ downs' = downs
      BY <1>5, <1>8
    <2>q. QED BY <1>0, <2>1, UsersStay, CallsStay
  <1>q. QED BY <1>6, <1>7, <1>8

(* What the types say of the browser and of the file. *)
SidesOK ==
    /\ {saved, cookies, polled} \subseteq Sessions
    /\ holder \in 0..MaxUsers /\ page \in {"open", "closed", "lingers"}
    /\ write \in [People -> Writes] /\ severed \in BOOLEAN

(* The browser as it was, or gone; nothing saved. *)
LEMMA NothingSaved ==
    ASSUME SidesOK, PolledIsHeld, FileCalm,
           (holder' = holder /\ cookies' = cookies /\ page' = page) \/ KillBrowser
    PROVE  SidesOK' /\ PolledIsHeld'
  <1> USE ProfileAssumption
  <1>1. /\ write' \in [People -> Writes] /\ severed' \in BOOLEAN
        /\ \A w \in People : write'[w] = write[w] \/ write'[w] = NoWrite
        /\ ~severed' => ~severed /\ \A w \in People : write[w].at = "cut" => write'[w] = write[w]
    <2>1. CASE write' = write /\ severed' = severed BY <2>1 DEF SidesOK
    <2>2. CASE Interrupts
      <3>1. NoWrite \in Writes /\ NoWrite.at = "none" BY DEF NoWrite, Writes, Sessions
      <3> HIDE DEF NoWrite
      <3>2. \A w \in People : write'[w] = write[w] \/ write'[w] = NoWrite
        BY <2>2 DEF Interrupts
      <3>3. write' \in [People -> Writes] BY <2>2, <3>1 DEF Interrupts, SidesOK
      <3>4. severed' = (severed \/ \E w \in People : write[w].at = "cut" /\ write'[w].at = "none")
        BY <2>2 DEF Interrupts
      <3>q. QED BY <3>1, <3>2, <3>3, <3>4 DEF SidesOK
    <2>q. QED BY <2>1, <2>2 DEF FileCalm
  <1>2. SidesOK' BY <1>1 DEF SidesOK, FileCalm, KillBrowser, Sessions
  <1>3. ASSUME ~severed' PROVE PolledIsHeld'
    <2>1. /\ \A v, w \in People : Saving(v) /\ Saving(w) => v = w
          /\ \A w \in People : Saving(w) =>
               write[w].got >= polled /\ (holder # 0 => cookies >= write[w].got)
          /\ holder # 0 => cookies >= polled
          /\ (\A w \in People : write[w].at # "cut") => saved >= polled
      BY <1>1, <1>3 DEF PolledIsHeld
    <2>2. \A w \in People : Saving(w)' => Saving(w) /\ write'[w] = write[w]
      BY <1>1 DEF Saving, NoWrite
    <2>3. (\A w \in People : write'[w].at # "cut") => \A w \in People : write[w].at # "cut"
      BY <1>1, <1>3
    <2>4. saved' = saved /\ polled' = polled /\ (holder' # 0 => holder # 0 /\ cookies' = cookies)
      BY DEF FileCalm, KillBrowser
    <2>q. QED BY <2>1, <2>2, <2>3, <2>4 DEF PolledIsHeld
  <1>q. QED BY <1>2, <1>3 DEF PolledIsHeld

(* A save begins: by its writer alone, or the file is severed. *)
LEMMA SaveBegins ==
    ASSUME SidesOK, PolledIsHeld, NEW w \in People, Save(w), ~Saving(w),
           UNCHANGED <<browserSide, saved, polled>>
    PROVE  SidesOK' /\ PolledIsHeld'
  <1> USE ProfileAssumption
  <1>1. CASE holder # w
    BY <1>1, NothingSaved DEF Save, FileCalm, browserSide
  <1>2. CASE holder = w
    <2> DEFINE c == [at |-> "read", got |-> cookies]
    <2>1. /\ write' = [write EXCEPT ![w] = c]
          /\ severed' = (severed \/ \E v \in People \ {w} : Saving(v))
          /\ holder' = holder /\ cookies' = cookies /\ page' = page
          /\ saved' = saved /\ polled' = polled
      BY <1>2 DEF Save, browserSide
    <2>2. c \in Writes /\ c.at = "read" /\ c.got = cookies BY DEF SidesOK, Writes
    <2> HIDE DEF c
    <2>3. /\ write' \in [People -> Writes] /\ write'[w] = c
          /\ \A v \in People \ {w} : write'[v] = write[v]
      BY <2>1, <2>2 DEF SidesOK
    <2>4. SidesOK' BY <2>1, <2>3 DEF SidesOK
    <2>5. ASSUME ~severed' PROVE PolledIsHeld'
      <3>1. ~severed /\ \A v \in People \ {w} : ~Saving(v) BY <2>1, <2>5
      <3>2. \A v \in People : Saving(v)' => v = w BY <2>3, <3>1 DEF Saving
      <3>3. cookies >= polled BY <1>2, <3>1 DEF PolledIsHeld, People
      <3>4. cookies \in Nat BY DEF SidesOK, Sessions
      <3>5. \A v \in People : write[v].at # "cut" BY <3>1 DEF Saving
      <3>6. saved >= polled BY <3>1, <3>5 DEF PolledIsHeld
      <3>q. QED BY <2>1, <2>2, <2>3, <3>2, <3>3, <3>4, <3>6 DEF PolledIsHeld
    <2>q. QED BY <2>4, <2>5 DEF PolledIsHeld
  <1>q. QED BY <1>1, <1>2

(* What a step does to the browser and to the session on disk. *)
LEMMA BrowserSteps ==
    ASSUME ProfileIInv, ProfileNext
    PROVE  SidesOK' /\ PolledIsHeld'
  <1> USE ProfileAssumption
  <1>0. SidesOK /\ PolledIsHeld BY DEF ProfileIInv, ProfileTypeOK, SidesOK
  <1>1. CASE \E t \in Callers :
              \/ StartRecovery(t) \/ ResetWorkers(t) \/ ResetBrowser(t)
              \/ SpawnRecovery(t) \/ StoreRecovery(t)
              \/ CancelRecovery(t) \/ EndWorker(t) \/ PopRecovery(t)
    <2>1. FileCalm /\ ((holder' = holder /\ cookies' = cookies /\ page' = page) \/ KillBrowser)
      BY <1>1, CallSteps
    <2>q. QED BY <1>0, <2>1, NothingSaved
  <1>2. CASE \/ \E w \in People : \/ WorkerResets(w) \/ WorkerKills(w)
                                 \/ CloseContext(w) \/ Scrape(w)
             \/ RecoveryStatus \/ ClosePage \/ Quit \/ GoDown
    <2>1. CASE ClosePage
      <3>1. /\ UNCHANGED <<saved, write, polled, severed, holder, cookies>>
            /\ page' \in {"open", "closed", "lingers"}
        BY <2>1 DEF ClosePage, fileSide
      <3>q. QED BY <1>0, <3>1 DEF SidesOK, PolledIsHeld, Saving
    <2>2. CASE ~ClosePage
      <3>1. FileCalm /\ ((holder' = holder /\ cookies' = cookies /\ page' = page) \/ KillBrowser)
        BY <1>2, <2>2 DEF WorkerResets, WorkerKills, CloseContext, Scrape, RecoveryStatus,
                          Quit, GoDown, FileCalm, fileSide, browserSide
      <3>q. QED BY <1>0, <3>1, NothingSaved
    <2>q. QED BY <2>1, <2>2
  <1>3. CASE LogIn
    <2>1. /\ UNCHANGED <<saved, write, polled, severed, holder, page>> /\ holder # 0
          /\ cookies' = 1 + (IF saved > cookies THEN saved ELSE cookies)
          /\ cookies' <= MaxLogins
      BY <1>3 DEF LogIn, fileSide
    <2>2. saved \in Nat /\ cookies \in Nat /\ polled \in Nat
          /\ \A w \in People : write[w].got \in Nat
      BY <1>0 DEF SidesOK, Sessions, Writes
    <2>3. cookies' \in Sessions /\ cookies' > cookies BY <2>1, <2>2 DEF Sessions
    <2>q. QED BY <1>0, <2>1, <2>2, <2>3 DEF SidesOK, PolledIsHeld, Saving
  <1>4. CASE \E w \in People : LaunchBrowser(w)
    <2>1. PICK w \in People : LaunchBrowser(w) BY <1>4
    <2>2. CASE holder # 0
      <3>1. FileCalm /\ holder' = holder /\ cookies' = cookies /\ page' = page
        BY <2>1, <2>2 DEF LaunchBrowser, browserSide, FileCalm
      <3>q. QED BY <1>0, <3>1, NothingSaved
    <2>3. CASE holder = 0
      <3>1. /\ holder' = w /\ page' = "open" /\ cookies' \in {saved, 0} /\ polled' = 0
            /\ saved' = saved /\ write' = write /\ severed' = \E v \in People : Saving(v)
        BY <2>1, <2>3 DEF LaunchBrowser, Restored
      <3>2. SidesOK' BY <1>0, <3>1 DEF SidesOK, Sessions, People
      <3>3. saved' \in Nat /\ cookies' \in Nat BY <3>2 DEF SidesOK, Sessions
      <3>4. ~severed' => \A v \in People : ~Saving(v)' BY <3>1 DEF Saving
      <3>q. QED BY <3>1, <3>2, <3>3, <3>4 DEF PolledIsHeld
    <2>q. QED BY <2>2, <2>3
  <1>5. CASE \E w \in People : EndWait(w) \/ KeepSession(w)
    <2>1. PICK w \in People : Save(w) /\ ~Saving(w) /\ UNCHANGED <<browserSide, saved, polled>>
      BY <1>5 DEF EndWait, KeepSession
    <2>q. QED BY <1>0, <2>1, SaveBegins
  <1>6. CASE \E w \in People : Truncate(w)
    <2>1. PICK w \in People : Truncate(w) BY <1>6
    <2> DEFINE c == [write[w] EXCEPT !.at = "cut"]
    <2>2. /\ write[w].at = "read" /\ write' = [write EXCEPT ![w] = c] /\ saved' = 0
          /\ UNCHANGED <<holder, cookies, page, polled, severed>>
      BY <1>0, <2>1 DEF Truncate, browserSide, SidesOK
    <2>3. c \in Writes /\ c.at = "cut" /\ c.got = write[w].got
      BY <1>0 DEF SidesOK, Writes
    <2> HIDE DEF c
    <2>4. /\ write' \in [People -> Writes] /\ write'[w] = c
          /\ \A v \in People \ {w} : write'[v] = write[v]
      BY <1>0, <2>2, <2>3 DEF SidesOK
    <2>5. SidesOK' BY <1>0, <2>2, <2>4 DEF SidesOK, Sessions
    <2>6. \A v \in People : Saving(v)' = Saving(v) /\ write'[v].got = write[v].got
      BY <2>2, <2>3, <2>4 DEF Saving
    <2>7. write'[w].at = "cut" BY <2>3, <2>4
    <2>q. QED BY <1>0, <2>2, <2>5, <2>6, <2>7 DEF PolledIsHeld
  <1>7. CASE \E w \in People : FinishSave(w)
    <2>1. PICK w \in People : FinishSave(w) BY <1>7
    <2>2. /\ write[w].at = "cut" /\ write' = [write EXCEPT ![w] = NoWrite]
          /\ saved' \in {write[w].got, 0} /\ (~severed => saved' = write[w].got)
          /\ polled' \in {write[w].got, polled}
          /\ UNCHANGED <<holder, cookies, page, severed>>
      BY <2>1 DEF FinishSave, browserSide
    <2>3. NoWrite \in Writes /\ NoWrite.at = "none" BY DEF NoWrite, Writes, Sessions
    <2> HIDE DEF NoWrite
    <2>4. /\ write' \in [People -> Writes] /\ write'[w] = NoWrite
          /\ \A v \in People \ {w} : write'[v] = write[v]
      BY <1>0, <2>2, <2>3 DEF SidesOK
    <2>5. write[w].got \in Sessions BY <1>0 DEF SidesOK, Writes
    <2>6. SidesOK' BY <1>0, <2>2, <2>4, <2>5 DEF SidesOK, Sessions
    <2>7. ASSUME ~severed PROVE PolledIsHeld'
      <3>1. Saving(w) BY <2>2 DEF Saving
      <3>2. /\ write[w].got >= polled /\ (holder # 0 => cookies >= write[w].got)
            /\ holder # 0 => cookies >= polled
            /\ \A v \in People \ {w} : ~Saving(v)
        BY <1>0, <2>7, <3>1 DEF PolledIsHeld
      <3>3. \A v \in People : ~Saving(v)' BY <2>3, <2>4, <3>2 DEF Saving
      <3>4. saved' = write[w].got /\ write[w].got \in Nat BY <2>2, <2>5, <2>7 DEF Sessions
      <3>q. QED BY <2>2, <3>2, <3>3, <3>4 DEF PolledIsHeld
    <2>q. QED BY <2>2, <2>6, <2>7 DEF PolledIsHeld
  <1>q. QED
    BY <1>1, <1>2, <1>3, <1>4, <1>5, <1>6, <1>7 DEF ProfileNext, Progresses

LEMMA ProfileSteps == ProfileIInv /\ [ProfileNext]_profileVars => ProfileIInv'
  <1> SUFFICES ASSUME ProfileIInv, [ProfileNext]_profileVars PROVE ProfileIInv' OBVIOUS
  <1>1. CASE ProfileNext
    <2>1. /\ user' \in [People -> User]
          /\ request' \in [Callers -> Requests \cup {NoRequest}]
          /\ CancelsAreThorough'
          /\ recovery' \in 0..MaxUsers /\ downs' \in 0..MaxDown
      <3>1. CASE \E t \in Callers :
                  \/ StartRecovery(t) \/ ResetWorkers(t) \/ ResetBrowser(t)
                  \/ SpawnRecovery(t) \/ StoreRecovery(t)
                  \/ CancelRecovery(t) \/ EndWorker(t) \/ PopRecovery(t)
        <4>1. downs \in 0..MaxDown BY DEF ProfileIInv, ProfileTypeOK
        <4>q. QED BY <3>1, <4>1, CallSteps
      <3>2. CASE \/ \E w \in People : Progresses(w) \/ KeepSession(w) \/ Scrape(w)
                 \/ RecoveryStatus \/ LogIn \/ ClosePage \/ Quit \/ GoDown
        BY <3>2, UserSteps
      <3>q. QED BY <1>1, <3>1, <3>2 DEF ProfileNext
    <2>2. SidesOK' /\ PolledIsHeld' BY <1>1, BrowserSteps
    <2>q. QED BY <2>1, <2>2 DEF ProfileIInv, ProfileTypeOK, SidesOK, User
  <1>2. CASE UNCHANGED profileVars
    BY <1>2 DEF profileVars, browserSide, ProfileIInv, ProfileTypeOK, CancelsAreThorough,
                Thorough, PolledIsHeld, Saving
  <1>q. QED BY <1>1, <1>2

LEMMA ProfileInvariant == ProfileSpec => []ProfileIInv
  BY ProfileStarts, ProfileSteps, PTL DEF ProfileSpec

(* Every variable of the profile has its type. *)
THEOREM ProfileTyped == ProfileSpec => []ProfileTypeOK
  <1>1. ProfileIInv => ProfileTypeOK BY DEF ProfileIInv
  <1>q. QED BY <1>1, ProfileInvariant, PTL

(* A login that a poll has saved is on disk however the recovery ends, but    *)
(* while a save of the file is under way, once one was ended half-way, and    *)
(* once two have met.                                                         *)
THEOREM LoginsAreKept == ProfileSpec => []LoginIsKept
  <1>1. ProfileIInv => LoginIsKept BY DEF ProfileIInv, PolledIsHeld, LoginIsKept
  <1>q. QED BY <1>1, ProfileInvariant, PTL

(* A cancel ends every recovery that was under way when it was asked. *)
THEOREM CancelsEndAll == ProfileSpec => CancelEndsAll
  <1> DEFINE A == \A t \in Callers :
                    request[t].pc = "cancelKill" /\ request'[t] = NoRequest
                      => \A w \in request[t].before : user[w].at \in {"ok", "failed"}
  <1>1. ProfileIInv /\ [ProfileNext]_profileVars => [A]_profileVars
    BY DEF ProfileIInv, CancelsAreThorough, Thorough
  <1>2. ProfileSpec => [][A]_profileVars
    BY <1>1, ProfileInvariant, PTL DEF ProfileSpec
  <1>q. QED BY <1>2 DEF CancelEndsAll

-----------------------------------------------------------------------------
(* Signing in. *)

(* Once the password is used, the page is not trusted any more. *)
Unprobed == used => at \in {"settle", "ask", "look"} \cup Ends

SignInIInv == SignInTypeOK /\ Unprobed

LEMMA SignInInvariant == SignInSpec => []SignInIInv
  <1>1. SignInInit => SignInIInv
    BY DEF SignInInit, SignInIInv, SignInTypeOK, Unprobed
  <1>2. SignInIInv /\ [SignInNext]_signInVars => SignInIInv'
    <2> SUFFICES ASSUME SignInIInv, [SignInNext]_signInVars PROVE SignInIInv' OBVIOUS
    <2> USE DEF SignInIInv, SignInTypeOK, Unprobed, Ends, Reaches
    <2>1. CASE OpenPortal BY <2>1 DEF OpenPortal
    <2>2. CASE Probe
      <3>1. /\ at = "probe" /\ at' \in {"signed in", "form"}
            /\ UNCHANGED <<jar, honoured, screen, asked, used>>
        BY <2>2 DEF Probe
      <3>q. QED BY <3>1
    <2>3. CASE FindForm BY <2>3 DEF FindForm
    <2>4. CASE NoForm BY <2>4 DEF NoForm
    <2>5. CASE Trust BY <2>5 DEF Trust
    <2>6. CASE Creds
      <3>1. PICK next \in {"submit", "no vault", "no password", "no form"} :
              at = "creds" /\ Reaches(next)
        BY <2>6 DEF Creds
      <3>2. CASE next = "submit" BY <3>1, <3>2
      <3>3. CASE next \in Ends BY <3>1, <3>3
      <3>q. QED BY <3>2, <3>3
    <2>7. CASE Submit BY <2>7 DEF Submit
    <2>8. CASE Settle BY <2>8 DEF Settle
    <2>9. CASE Ask BY <2>9 DEF Ask
    <2>10. CASE Look BY <2>10 DEF Look
    <2>11. CASE Renders BY <2>11 DEF Renders
    <2>12. CASE Answer BY <2>12 DEF Answer
    <2>13. CASE Drops BY <2>13 DEF Drops
    <2>14. CASE UNCHANGED signInVars BY <2>14 DEF signInVars
    <2>q. QED
      BY <2>1, <2>2, <2>3, <2>4, <2>5, <2>6, <2>7, <2>8, <2>9, <2>10, <2>11, <2>12,
         <2>13, <2>14 DEF SignInNext
  <1>q. QED BY <1>1, <1>2, PTL DEF SignInSpec

(* Every variable of a sign-in has its type. *)
THEOREM SignInTyped == SignInSpec => []SignInTypeOK
  <1>1. SignInIInv => SignInTypeOK BY DEF SignInIInv
  <1>q. QED BY <1>1, SignInInvariant, PTL

(* A login that has used the password reports success only when the server   *)
(* accepts the session.                                                      *)
THEOREM SignInsAreTrue == SignInSpec => SignedInIsTrue
  <1> DEFINE A == at # "signed in" /\ at' = "signed in" /\ used => honoured
  <1>1. SignInIInv /\ [SignInNext]_signInVars => [A]_signInVars
    <2> SUFFICES ASSUME SignInIInv, SignInNext, at # "signed in", at' = "signed in", used
                 PROVE  honoured
      OBVIOUS
    <2> USE DEF SignInIInv, SignInTypeOK, Unprobed, Ends, Reaches
    <2>2. CASE Ask BY <2>2 DEF Ask, LiveAnswers
    <2>3. CASE OpenPortal \/ FindForm \/ NoForm \/ Creds \/ Submit
      BY <2>3 DEF OpenPortal, FindForm, NoForm, Creds, Submit
    <2>4. CASE Probe BY <2>4 DEF Probe
    <2>5. CASE Trust BY <2>5 DEF Trust
    <2>6. CASE Settle BY <2>6 DEF Settle
    <2>7. CASE Look BY <2>7 DEF Look
    <2>8. CASE Renders \/ Answer \/ Drops BY <2>8 DEF Renders, Answer, Drops
    <2>q. QED BY <2>2, <2>3, <2>4, <2>5, <2>6, <2>7, <2>8 DEF SignInNext
  <1>2. SignInSpec => [][A]_signInVars
    BY <1>1, SignInInvariant, PTL DEF SignInSpec
  <1>q. QED BY <1>2 DEF SignedInIsTrue

-----------------------------------------------------------------------------
(* The watchdog. A tick bounds only the time since the last check, so the    *)
(* invariant says what that check has seen: the run was within its ceiling   *)
(* and its budget. Between two checks the budget never shrinks and a beat    *)
(* never moves last_beat back, which carries the bound over to the next one. *)

(* The reading that a beat is about to record lies after the last beat. *)
ReadingsFit ==
    /\ last_beat <= clock
    /\ reading # NoReading => last_beat <= reading /\ reading <= clock

(* What the last check has let pass. *)
CheckPassed ==
    /\ last_check <= clock /\ clock <= last_check + TickS
    /\ Under => /\ last_check <= CeilingS
                /\ last_check - last_beat <= Budget(largest_gap)

GapsLearnt == \A g \in gaps : g <= largest_gap

SilenceMeasured ==
    fired = "silence" => clock - last_beat > Budget(largest_gap)

WatchdogIInv ==
    /\ WatchdogTypeOK
    /\ ReadingsFit
    /\ CheckPassed
    /\ GapsLearnt
    /\ SilenceMeasured

-----------------------------------------------------------------------------
(* The larger of two numbers is one of them, and at least both. *)
LEMMA LargerBounds ==
    ASSUME NEW a \in Nat, NEW b \in Nat
    PROVE  Larger(a, b) \in Nat /\ Larger(a, b) >= a /\ Larger(a, b) >= b
BY DEF Larger

(* A multiple of a larger gap is larger. *)
LEMMA MultipleGrows ==
    ASSUME NEW m \in Nat, NEW a \in Nat, NEW b \in Nat, a <= b
    PROVE  m * a \in Nat /\ m * a <= m * b
<1>1. m * (b - a) >= 0 /\ m * (b - a) = m * b - m * a
  OBVIOUS
<1>2. m * a \in Nat /\ m * b \in Nat
  OBVIOUS
<1> QED
  BY <1>1, <1>2

(* The budget is a number, at least the floor and the multiple of the gap.   *)
LEMMA BudgetBounds ==
    ASSUME NEW g \in Nat
    PROVE  Budget(g) \in Nat /\ Budget(g) >= FloorS /\ Budget(g) >= Multiplier * g
<1>1. Multiplier * g \in Nat
  BY MultipleGrows, WatchdogAssumption
<1> QED
  BY <1>1, LargerBounds, WatchdogAssumption DEF Budget

(* A run that has shown a longer silence is allowed no less. *)
LEMMA BudgetGrows ==
    ASSUME NEW a \in Nat, NEW b \in Nat, a <= b
    PROVE  Budget(a) <= Budget(b)
<1>1. /\ Multiplier * a \in Nat /\ Multiplier * b \in Nat
      /\ Multiplier * a <= Multiplier * b
  BY MultipleGrows, WatchdogAssumption
<1> QED
  BY <1>1, WatchdogAssumption DEF Budget, Larger

-----------------------------------------------------------------------------
LEMMA WatchdogStarts == WatchdogInit => WatchdogIInv
<1> SUFFICES ASSUME WatchdogInit PROVE WatchdogIInv
  OBVIOUS
<1>1. Budget(0) \in Nat
  BY BudgetBounds
<1>2. last_check - last_beat <= Budget(largest_gap)
  BY <1>1 DEF WatchdogInit
<1>3. CheckPassed
  BY <1>2, WatchdogAssumption DEF WatchdogInit, CheckPassed
<1>4. WatchdogTypeOK
  <2>1. clock \in Nat /\ last_beat \in Nat /\ largest_gap \in Nat
    BY DEF WatchdogInit
  <2>2. last_check \in Nat /\ gaps \subseteq Nat
    BY DEF WatchdogInit
  <2> QED
    BY <2>1, <2>2 DEF WatchdogInit, WatchdogTypeOK
<1>5. ReadingsFit
  BY DEF WatchdogInit, ReadingsFit
<1> QED
  BY <1>3, <1>4, <1>5 DEF WatchdogInit, WatchdogIInv, GapsLearnt, SilenceMeasured

LEMMA WatchdogKeeps ==
    WatchdogIInv /\ [WatchdogNext]_watchdogVars => WatchdogIInv'
<1> SUFFICES ASSUME WatchdogIInv, [WatchdogNext]_watchdogVars
             PROVE  WatchdogIInv'
  OBVIOUS
<1> USE WatchdogAssumption
<1>0. Budget(largest_gap) \in Nat
  BY BudgetBounds DEF WatchdogIInv, WatchdogTypeOK
<1>1. CASE TimePasses
  BY <1>0, <1>1
  DEF TimePasses, WatchdogIInv, WatchdogTypeOK, ReadingsFit, CheckPassed,
      GapsLearnt, SilenceMeasured, Under, NoReading
<1>2. CASE ReadClock
  BY <1>0, <1>2
  DEF ReadClock, WatchdogIInv, WatchdogTypeOK, ReadingsFit, CheckPassed,
      GapsLearnt, SilenceMeasured, Under, NoReading
<1>3. CASE Beat
  <2> DEFINE gap == reading - last_beat
  <2>1. gap \in Nat /\ reading \in Nat
    BY <1>3 DEF Beat, WatchdogIInv, WatchdogTypeOK, ReadingsFit, NoReading
  <2>2. /\ largest_gap' = Larger(largest_gap, gap)
        /\ gaps' = gaps \cup {gap}
        /\ last_beat' = reading /\ reading' = NoReading
        /\ UNCHANGED <<clock, last_check, fired, over>>
    BY <1>3 DEF Beat, Learn
  <2> HIDE DEF gap
  <2>3. largest_gap' \in Nat /\ largest_gap' >= largest_gap /\ largest_gap' >= gap
    BY <2>1, <2>2, LargerBounds DEF WatchdogIInv, WatchdogTypeOK
  <2>4. Budget(largest_gap') \in Nat /\ Budget(largest_gap) <= Budget(largest_gap')
    BY <2>3, BudgetBounds, BudgetGrows DEF WatchdogIInv, WatchdogTypeOK
  <2>5. WatchdogTypeOK'
    BY <2>1, <2>2, <2>3 DEF WatchdogIInv, WatchdogTypeOK, NoReading
  <2>6. ReadingsFit'
    BY <1>3, <2>2 DEF Beat, WatchdogIInv, ReadingsFit, NoReading
  <2>7. last_beat <= reading
    BY <1>3 DEF Beat, WatchdogIInv, ReadingsFit
  <2>8. CheckPassed'
    BY <1>0, <2>1, <2>2, <2>4, <2>7
    DEF WatchdogIInv, WatchdogTypeOK, CheckPassed, Under
  <2>9. GapsLearnt'
    BY <2>1, <2>2, <2>3 DEF WatchdogIInv, WatchdogTypeOK, GapsLearnt
  <2>10. SilenceMeasured'
    BY <1>3, <2>2 DEF Beat, Under, SilenceMeasured
  <2> QED
    BY <2>5, <2>6, <2>8, <2>9, <2>10 DEF WatchdogIInv
<1>4. CASE Check
  BY <1>0, <1>4
  DEF Check, Reason, WatchdogIInv, WatchdogTypeOK, ReadingsFit, CheckPassed,
      GapsLearnt, SilenceMeasured, Under, NoReading
<1>5. CASE Finish
  BY <1>0, <1>5
  DEF Finish, WatchdogIInv, WatchdogTypeOK, ReadingsFit, CheckPassed,
      GapsLearnt, SilenceMeasured, Under, NoReading
<1>6. CASE UNCHANGED watchdogVars
  BY <1>6
  DEF watchdogVars, WatchdogIInv, WatchdogTypeOK, ReadingsFit, CheckPassed,
      GapsLearnt, SilenceMeasured, Under
<1> QED
  BY <1>1, <1>2, <1>3, <1>4, <1>5, <1>6 DEF WatchdogNext

LEMMA WatchdogImplies == WatchdogIInv => WatchdogTypeOK /\ WatchdogIsJust
<1> SUFFICES ASSUME WatchdogIInv PROVE WatchdogIsJust
  BY DEF WatchdogIInv
<1> USE WatchdogAssumption
<1>1. /\ Budget(largest_gap) \in Nat /\ Budget(largest_gap) >= FloorS
      /\ Budget(largest_gap) >= Multiplier * largest_gap
  BY BudgetBounds DEF WatchdogIInv, WatchdogTypeOK
<1>2. CutInTime
  BY <1>1
  DEF WatchdogIInv, WatchdogTypeOK, CheckPassed, ReadingsFit, CutInTime, Under
<1>3. SlowIsSpared
  <2> SUFFICES ASSUME fired = "silence" 
               PROVE  /\ clock - last_beat > FloorS
                      /\ \A g \in gaps : clock - last_beat > Multiplier * g
    BY DEF SlowIsSpared
  <2>1. clock - last_beat > Budget(largest_gap)
    BY DEF WatchdogIInv, SilenceMeasured
  <2>2. ASSUME NEW g \in gaps
        PROVE  clock - last_beat > Multiplier * g
    <3>1. g \in Nat /\ g <= largest_gap /\ largest_gap \in Nat
      BY DEF WatchdogIInv, WatchdogTypeOK, GapsLearnt
    <3>2. /\ Multiplier * g \in Nat /\ Multiplier * largest_gap \in Nat
          /\ Multiplier * g <= Multiplier * largest_gap
      BY <3>1, MultipleGrows
    <3> QED
      BY <1>1, <2>1, <3>2 DEF WatchdogIInv, WatchdogTypeOK
  <2> QED
    BY <1>1, <2>1, <2>2 DEF WatchdogIInv, WatchdogTypeOK
<1> QED
  BY <1>2, <1>3 DEF WatchdogIsJust

-----------------------------------------------------------------------------
(* The watchdog's variables keep their types. *)
THEOREM WatchdogTyped == WatchdogSpec => []WatchdogTypeOK
<1>1. WatchdogInit => WatchdogIInv
  BY WatchdogStarts
<1>2. WatchdogIInv /\ [WatchdogNext]_watchdogVars => WatchdogIInv'
  BY WatchdogKeeps
<1>3. WatchdogIInv => WatchdogTypeOK
  BY WatchdogImplies
<1> QED
  BY <1>1, <1>2, <1>3, PTL DEF WatchdogSpec

(* Whatever the pace of a run, its watchdog cuts it in time and never for    *)
(* being slow.                                                               *)
THEOREM WatchdogJust == WatchdogSpec => []WatchdogIsJust
<1>1. WatchdogInit => WatchdogIInv
  BY WatchdogStarts
<1>2. WatchdogIInv /\ [WatchdogNext]_watchdogVars => WatchdogIInv'
  BY WatchdogKeeps
<1>3. WatchdogIInv => WatchdogIsJust
  BY WatchdogImplies
<1> QED
  BY <1>1, <1>2, <1>3, PTL DEF WatchdogSpec

-----------------------------------------------------------------------------
(* The pull of a bank account. *)

(* What a pull has read is of the account; and from the newest row of its    *)
(* first page down to where the next page begins, no row is missing, if the  *)
(* bank's pages are whole: posts only push the pages towards what is read.   *)
Unbroken(s, from) ==
    \A r \in 1..s[1] : r > from => \E i \in 1..Len(s) : s[i] = r

Covered(from) == raw # <<>> /\ served = PageSize => Unbroken(raw, from)

BankIInv ==
    /\ BankTypeOK
    /\ \A i \in 1..Len(raw) : raw[i] <= Len(account)
    /\ anchor <= Len(account)
    /\ stage = "pages" =>
         /\ Covered(Len(account) - (pageNo - 1) * served)
         /\ raw = <<>> => pageNo = 1
    /\ stage \in {"balance", "done"} => Covered(0)

-----------------------------------------------------------------------------
LEMMA PullBounds ==
    BankTypeOK => /\ Len(account) \in Nat /\ served \in Nat /\ served >= 1
                  /\ pageNo \in Nat /\ pageNo >= 1 /\ PageSize \in Nat
                  /\ PageSize >= 1 /\ Len(raw) \in Nat /\ MaxRows \in Nat
  BY BankAssumption DEF BankTypeOK

LEMMA BankStarts == BankInit => BankIInv
  <1> SUFFICES ASSUME BankInit PROVE BankIInv OBVIOUS
  <1> USE BankAssumption
  <1>1. PICK n \in 0..MaxRows : account \in [1..n -> Amounts] BY DEF BankInit
  <1>2. account \in Seq(Amounts) /\ Len(account) = n /\ DOMAIN account = 1..n
    BY <1>1, FcnIsSeq
  <1>3. n \in Nat /\ n <= MaxRows BY <1>1
  <1>4. garbled \subseteq Rows BY <1>2, <1>3 DEF BankInit, Rows
  <1>5. served \in 1..PageSize /\ since \in 1..(MaxRows + 1)
    BY <1>2, <1>3 DEF BankInit
  <1>6. raw \in Seq(Rows) /\ raw = <<>> /\ Len(raw) = 0 /\ pageNo = 1
        /\ anchor = -1 /\ stage = "pages"
    BY DEF BankInit
  <1>7. anchor \in -1..MaxRows /\ anchor <= Len(account) BY <1>2, <1>3, <1>6
  <1>8. BankTypeOK
    BY <1>2, <1>3, <1>4, <1>5, <1>6, <1>7 DEF BankTypeOK
  <1>q. QED BY <1>6, <1>7, <1>8 DEF BankIInv, Covered, Unbroken

(* What the bank answers. *)
LEMMA PageIs ==
    ASSUME BankTypeOK, NEW newest \in Int, newest <= Len(account),
           newest = Len(account) - (pageNo - 1) * served
    PROVE  /\ PageOf(pageNo) \in Seq(Rows)
           /\ Len(PageOf(pageNo)) = IF newest <= 0 THEN 0
                                    ELSE IF newest < served THEN newest ELSE served
           /\ \A i \in 1..Len(PageOf(pageNo)) :
                PageOf(pageNo)[i] = newest - i + 1
  <1> DEFINE count == IF newest <= 0 THEN 0 ELSE IF newest < served THEN newest ELSE served
             answer == [i \in 1..count |-> newest - i + 1]
  <1>1. PageOf(pageNo) = answer BY DEF PageOf
  <1>2. (count \in Nat /\ count <= newest) \/ count = 0 BY PullBounds
  <1>3. count \in Nat BY PullBounds
  <1>4. ASSUME NEW i \in 1..count PROVE newest - i + 1 \in Rows
    <2>1. 1 <= i /\ i <= count /\ count <= newest BY <1>2, <1>3
    <2>2. Len(account) <= MaxRows BY DEF BankTypeOK
    <2> HIDE DEF count
    <2>q. QED BY <2>1, <2>2, <1>3, PullBounds DEF Rows
  <1> HIDE DEF count
  <1>5. answer \in [1..count -> Rows] BY <1>4
  <1>6. answer \in Seq(Rows) /\ Len(answer) = count BY <1>3, <1>5, FcnIsSeq
  <1>7. \A i \in 1..count : answer[i] = newest - i + 1 OBVIOUS
  <1> HIDE DEF answer
  <1>q. QED BY <1>1, <1>6, <1>7 DEF count

LEMMA FetchKeeps == ASSUME BankIInv, FetchPage PROVE BankIInv'
  <1> DEFINE rows == PageOf(pageNo)
             below == (pageNo - 1) * served
             newest == Len(account) - below
  <1>0. BankTypeOK BY DEF BankIInv
  <1>1. /\ Len(account) \in Nat /\ served \in Nat /\ served >= 1 /\ PageSize \in Nat
        /\ pageNo \in Nat /\ pageNo >= 1 /\ PageSize >= 1 /\ Len(raw) \in Nat
    BY <1>0, PullBounds
  <1>2. below \in Nat /\ (pageNo = 1 => below = 0)
    BY <1>1
  <1>3. newest \in Int /\ newest <= Len(account) BY <1>1, <1>2
  <1>4. /\ rows \in Seq(Rows)
        /\ Len(rows) = IF newest <= 0 THEN 0
                       ELSE IF newest < served THEN newest ELSE served
        /\ \A i \in 1..Len(rows) : rows[i] = newest - i + 1
    BY <1>0, <1>3, PageIs
  <1>5. stage = "pages" /\ raw' = raw \o rows
        /\ UNCHANGED <<account, garbled, served, since, anchor>>
    BY DEF FetchPage
  <1>6. \/ Len(rows) < PageSize /\ stage' = "balance" /\ pageNo' = pageNo
        \/ Len(rows) >= PageSize /\ stage' = "pages" /\ pageNo' = pageNo + 1
    BY <1>1, <1>4 DEF FetchPage
  <1>7. (pageNo + 1 - 1) * served = below + served
    BY <1>1
  <1>8. /\ Covered(newest) /\ (raw = <<>> => pageNo = 1)
        /\ \A i \in 1..Len(raw) : raw[i] <= Len(account)
        /\ anchor <= Len(account)
    BY <1>5 DEF BankIInv
  <1>9. raw \in Seq(Rows) BY <1>0 DEF BankTypeOK
  <1> HIDE DEF rows, below
  <1>10. /\ raw' \in Seq(Rows) /\ Len(raw') = Len(raw) + Len(rows)
         /\ \A i \in 1..Len(raw) : raw'[i] = raw[i]
         /\ \A i \in 1..Len(rows) : raw'[Len(raw) + i] = rows[i]
    BY <1>4, <1>5, <1>9
  <1>11. ASSUME NEW i \in 1..Len(raw') PROVE raw'[i] <= Len(account)
    <2>1. CASE i \in 1..Len(raw) BY <1>8, <1>10, <2>1
    <2>2. CASE i \notin 1..Len(raw)
      <3>1. i - Len(raw) \in 1..Len(rows) /\ Len(raw) + (i - Len(raw)) = i
        BY <1>1, <1>4, <1>10, <2>2
      <3>2. raw'[i] = newest - (i - Len(raw)) + 1 BY <1>4, <1>10, <3>1
      <3>q. QED BY <1>1, <1>3, <3>1, <3>2
    <2>q. QED BY <2>1, <2>2
  \* What is read now, down to a row `from` that the page has got to.
  <1>n. Covered(newest) BY <1>8
  <1>m. (pageNo = 1 => newest = Len(account)) /\ newest \in Int
        /\ newest <= Len(account)
    BY <1>1, <1>2, <1>3
  <1>c. /\ Len(rows) \in Nat /\ Len(rows) <= served
        /\ newest > 0 => Len(rows) = newest \/ Len(rows) = served
        /\ newest <= 0 => Len(rows) = 0
        /\ newest > 0 => Len(rows) <= newest
    BY <1>1, <1>3, <1>4
  <1>b. below \in Int /\ newest = Len(account) - below
    BY <1>2
  <1> HIDE DEF newest
  <1>12. ASSUME NEW from \in Int, from >= newest - Len(rows), served = PageSize,
                raw' # <<>>
         PROVE  Unbroken(raw', from)
    <2> SUFFICES ASSUME NEW r \in 1..raw'[1], r > from
                 PROVE  \E i \in 1..Len(raw') : raw'[i] = r
      BY DEF Unbroken
    <2>0. r \in Nat /\ r >= 1 /\ newest - r + 1 <= Len(rows)
      BY <1>12, <1>c, <1>m
    <2>1. CASE raw = <<>>
      <3>1. Len(raw) = 0 /\ newest = Len(account) BY <1>8, <1>m, <2>1
      <3>2. Len(rows) >= 1 /\ raw'[1] = rows[1]
        <4>1. Len(raw') = Len(rows) /\ Len(raw') # 0 BY <1>10, <1>12, <1>c, <3>1
        <4>2. 1 \in 1..Len(rows) BY <1>c, <4>1
        <4>q. QED BY <1>10, <3>1, <4>2
      <3>3. rows[1] = newest BY <1>4, <1>m, <3>2
      <3>4. r <= newest BY <1>m, <3>2, <3>3
      <3>5. newest - r + 1 \in 1..Len(rows)
        BY <1>c, <1>m, <2>0, <3>4
      <3>6. rows[newest - r + 1] = newest - (newest - r + 1) + 1 BY <1>4, <3>5
      <3>7. rows[newest - r + 1] = r BY <1>m, <2>0, <3>6
      <3>q. QED BY <1>10, <3>1, <3>5, <3>7
    <2>2. CASE raw # <<>>
      <3>1. Len(raw) >= 1 /\ raw'[1] = raw[1] /\ raw[1] \in Nat /\ raw[1] <= Len(account)
        <4>1. Len(raw) # 0 BY <1>9, <2>2
        <4>2. 1 \in 1..Len(raw) BY <1>1, <4>1
        <4>3. raw[1] \in Rows BY <1>9, <4>2
        <4>q. QED BY <1>1, <1>8, <1>10, <4>2, <4>3 DEF Rows
      <3>2. CASE r > newest
        <4>1. r \in 1..raw[1] BY <3>1
        <4>2. PICK i \in 1..Len(raw) : raw[i] = r
          BY <1>n, <1>12, <2>2, <3>2, <4>1 DEF Covered, Unbroken
        <4>3. i \in 1..Len(raw') BY <1>1, <1>10, <1>c
        <4>q. QED BY <1>10, <4>2, <4>3
      <3>3. CASE r <= newest
        <4>1. newest - r + 1 \in 1..Len(rows)
          BY <1>c, <1>m, <2>0, <3>3
        <4>2. rows[newest - r + 1] = newest - (newest - r + 1) + 1 BY <1>4, <4>1
        <4>3. rows[newest - r + 1] = r BY <1>m, <2>0, <4>2
        <4>4. raw'[Len(raw) + (newest - r + 1)] = r BY <1>10, <4>1, <4>3
        <4>5. Len(raw) + (newest - r + 1) \in 1..(Len(raw) + Len(rows))
          BY <1>1, <1>c, <1>m, <4>1
        <4>q. QED BY <1>10, <4>4, <4>5
      <3>q. QED BY <1>m, <2>0, <3>2, <3>3
    <2>q. QED BY <2>1, <2>2
  <1>13. BankTypeOK'
    <2>1. pageNo' \in Nat \ {0} BY <1>1, <1>6
    <2>q. QED BY <1>0, <1>5, <1>6, <1>10, <2>1 DEF BankTypeOK
  <1>14. CASE Len(rows) < PageSize /\ stage' = "balance" /\ pageNo' = pageNo
    <2>1. ASSUME served = PageSize, raw' # <<>> PROVE Unbroken(raw', 0)
      <3>1. newest - Len(rows) <= 0 BY <1>c, <1>m, <1>14, <2>1
      <3>q. QED BY <1>12, <2>1, <3>1
    <2>2. Covered(0)' BY <1>5, <2>1 DEF Covered
    <2>q. QED BY <1>5, <1>8, <1>11, <1>13, <1>14, <2>2 DEF BankIInv
  <1>15. CASE Len(rows) >= PageSize /\ stage' = "pages" /\ pageNo' = pageNo + 1
    <2>1. Len(account') - (pageNo' - 1) * served' = newest - served
      <3>1. pageNo' - 1 = pageNo /\ served' = served /\ account' = account
        BY <1>1, <1>5, <1>15
      <3>2. pageNo * served = below + served BY <1>1, <1>7
      <3>q. QED BY <1>1, <1>b, <3>1, <3>2
    <2>2. ASSUME served = PageSize, raw' # <<>> PROVE Unbroken(raw', newest - served)
      <3>1. newest - served \in Int /\ newest - served >= newest - Len(rows)
        BY <1>1, <1>c, <1>m, <1>15, <2>2
      <3>q. QED BY <1>12, <2>2, <3>1
    <2>3. Covered(Len(account) - (pageNo - 1) * served)'
      BY <1>5, <2>1, <2>2 DEF Covered
    <2>4. raw' # <<>>
      <3>1. Len(raw') >= 1 BY <1>1, <1>10, <1>c, <1>15
      <3>q. QED BY <3>1, <1>10
    <2>q. QED BY <1>5, <1>8, <1>11, <1>13, <1>15, <2>3, <2>4 DEF BankIInv
  <1>q. QED BY <1>6, <1>14, <1>15

LEMMA PostKeeps == ASSUME BankIInv, Post PROVE BankIInv'
  <1>0. BankTypeOK BY DEF BankIInv
  <1>1. PICK a \in Amounts : account' = Append(account, a) BY DEF Post
  <1>2. /\ Len(account) < MaxRows /\ stage \notin {"done", "failed"}
        /\ UNCHANGED <<served, since, raw, pageNo, anchor, stage>>
    BY DEF Post
  <1>3. account' \in Seq(Amounts) /\ Len(account') = Len(account) + 1
    BY <1>0, <1>1 DEF BankTypeOK
  <1>4. Len(account) + 1 \in Rows BY <1>0, <1>2, PullBounds DEF Rows
  <1>5. garbled' \subseteq Rows BY <1>0, <1>4 DEF Post, BankTypeOK
  <1>6. BankTypeOK'
    <2>1. Len(account') <= MaxRows BY <1>0, <1>2, <1>3, PullBounds
    <2>q. QED BY <1>0, <1>2, <1>3, <1>5, <2>1 DEF BankTypeOK
  <1>7. \A i \in 1..Len(raw) : raw[i] <= Len(account) + 1
    <2>1. ASSUME NEW i \in 1..Len(raw) PROVE raw[i] <= Len(account) + 1
      <3>1. raw[i] \in Rows BY <1>0 DEF BankTypeOK
      <3>2. raw[i] <= Len(account) BY DEF BankIInv
      <3>q. QED BY <1>0, <3>1, <3>2, PullBounds DEF Rows
    <2>q. QED BY <2>1
  <1>8. anchor <= Len(account) + 1 BY <1>0, PullBounds DEF BankIInv, BankTypeOK
  <1> DEFINE from == Len(account) - (pageNo - 1) * served
  <1>9. from \in Int
    <2>1. (pageNo - 1) * served \in Int BY <1>0, PullBounds
    <2>q. QED BY <1>0, <2>1, PullBounds
  <1>10. (Len(account) - (pageNo - 1) * served)' = from + 1
    <2>1. (pageNo - 1) * served \in Int BY <1>0, PullBounds
    <2>q. QED BY <1>0, <1>2, <1>3, <2>1, PullBounds
  <1>11. stage = "pages" => Covered(from) /\ (raw = <<>> => pageNo = 1)
    BY DEF BankIInv
  <1> HIDE DEF from
  <1>12. stage = "pages" /\ raw # <<>> /\ served = PageSize => Unbroken(raw, from + 1)
    BY <1>9, <1>11 DEF Covered, Unbroken
  <1>13. stage' = "pages" =>
           /\ Covered(Len(account) - (pageNo - 1) * served)'
           /\ raw' = <<>> => pageNo' = 1
    BY <1>2, <1>10, <1>11, <1>12 DEF Covered
  <1>14. stage' \in {"balance", "done"} => Covered(0)'
    BY <1>2 DEF BankIInv, Covered
  <1>q. QED BY <1>2, <1>3, <1>6, <1>7, <1>8, <1>13, <1>14 DEF BankIInv

LEMMA BankKeeps == BankIInv /\ [BankNext]_bankVars => BankIInv'
  <1> SUFFICES ASSUME BankIInv, [BankNext]_bankVars PROVE BankIInv'
    OBVIOUS
  <1>1. CASE FetchPage BY <1>1, FetchKeeps
  <1>2. CASE FetchFails \/ ExtractFails
    BY <1>2 DEF FetchFails, ExtractFails, BankIInv, BankTypeOK, Covered
  <1>3. CASE ReadBalance
    <2>1. /\ stage = "balance" /\ stage' = "done"
          /\ UNCHANGED <<account, garbled, served, since, raw, pageNo>>
          /\ anchor' = -1 \/ anchor' = Len(account)
      BY <1>3 DEF ReadBalance
    <2>2. BankTypeOK /\ Len(account) <= MaxRows BY DEF BankIInv, BankTypeOK
    <2>3. anchor' \in -1..MaxRows /\ anchor' <= Len(account)
      BY <2>1, <2>2, PullBounds
    <2>4. BankTypeOK' BY <2>1, <2>2, <2>3 DEF BankTypeOK
    <2>q. QED BY <2>1, <2>3, <2>4 DEF BankIInv, Covered
  <1>4. CASE Post BY <1>4, PostKeeps
  <1>5. CASE UNCHANGED bankVars
    BY <1>5 DEF bankVars, BankIInv, BankTypeOK, Covered
  <1>q. QED BY <1>1, <1>2, <1>3, <1>4, <1>5 DEF BankNext

LEMMA BankInvariant == BankSpec => []BankIInv
  BY BankStarts, BankKeeps, PTL DEF BankSpec

(* Every variable of a pull has its type. *)
THEOREM BankTyped == BankSpec => []BankTypeOK
  <1>1. BankIInv => BankTypeOK BY DEF BankIInv
  <1>q. QED BY <1>1, BankInvariant, PTL

-----------------------------------------------------------------------------
(* What is kept of the raw rows: all that can be read, and in order.         *)
LEMMA KeptFacts ==
    ASSUME BankTypeOK
    PROVE  /\ Kept \in Seq(Rows) /\ Len(Kept) = Cardinality(Readable)
           /\ Len(Kept) \in Nat /\ DOMAIN Kept = 1..Len(Kept)
           /\ \A k \in 1..Len(Kept) : \E i \in Readable : Kept[k] = raw[i]
           /\ \A i \in Readable : \E k \in 1..Len(Kept) : Kept[k] = raw[i]
           /\ \A j, k \in 1..Len(Kept) : j < k => Kept[j] <= Kept[k]
  <1> DEFINE R == {x \in Readable \X Readable :
                     raw[x[1]] < raw[x[2]] \/ (raw[x[1]] = raw[x[2]] /\ x[1] < x[2])}
             n == Cardinality(Readable)
             At(k) == CHOOSE i \in Readable : Cardinality(Earlier(i)) = k - 1
  <1>1. raw \in Seq(Rows) /\ Len(raw) \in Nat /\ DOMAIN raw = 1..Len(raw)
        /\ Rows \subseteq Nat
    BY DEF BankTypeOK, Rows
  <1>2. /\ Readable \subseteq 1..Len(raw) /\ IsFiniteSet(Readable)
        /\ \A i \in Readable : i \in Nat /\ raw[i] \in Nat /\ raw[i] \in Rows
    <2>1. Readable \subseteq 1..Len(raw) BY <1>1 DEF Readable
    <2>2. IsFiniteSet(1..Len(raw)) BY <1>1, FS_Interval
    <2>3. ASSUME NEW i \in Readable PROVE i \in Nat /\ raw[i] \in Nat /\ raw[i] \in Rows
      <3>1. i \in 1..Len(raw) BY <2>1
      <3>2. raw[i] \in Rows BY <1>1, <3>1
      <3>3. i \in Nat BY <1>1, <3>1
      <3>4. raw[i] \in Nat BY <1>1, <3>2
      <3>q. QED BY <3>2, <3>3, <3>4
    <2>q. QED BY <2>1, <2>2, <2>3, FS_Subset
  <1>3. \A i, j \in Readable :
          <<i, j>> \in R <=> raw[i] < raw[j] \/ (raw[i] = raw[j] /\ i < j)
    OBVIOUS
  <1>4. \A i \in Readable : Before(i, Readable, R) = Earlier(i)
    <2>1. ASSUME NEW i \in Readable PROVE Before(i, Readable, R) = Earlier(i)
      BY <1>3 DEF Before, Earlier
    <2>q. QED BY <2>1
  <1>5. /\ \A a \in Readable : <<a, a>> \notin R
        /\ \A a, b \in Readable : a # b => <<a, b>> \in R \/ <<b, a>> \in R
        /\ \A a, b, c \in Readable : <<a, b>> \in R /\ <<b, c>> \in R => <<a, c>> \in R
    <2> HIDE DEF R
    <2>1. \A a \in Readable : <<a, a>> \notin R BY <1>2, <1>3
    <2>2. ASSUME NEW a \in Readable, NEW b \in Readable, a # b
          PROVE  <<a, b>> \in R \/ <<b, a>> \in R
      <3>1. a \in Nat /\ b \in Nat /\ raw[a] \in Nat /\ raw[b] \in Nat BY <1>2
      <3>q. QED BY <1>3, <2>2, <3>1
    <2>3. ASSUME NEW a \in Readable, NEW b \in Readable, NEW c \in Readable,
                 <<a, b>> \in R, <<b, c>> \in R
          PROVE  <<a, c>> \in R
      <3>1. /\ a \in Nat /\ b \in Nat /\ c \in Nat /\ raw[a] \in Nat
            /\ raw[b] \in Nat /\ raw[c] \in Nat
        BY <1>2
      <3>2. raw[a] < raw[b] \/ (raw[a] = raw[b] /\ a < b) BY <1>3, <2>3
      <3>3. raw[b] < raw[c] \/ (raw[b] = raw[c] /\ b < c) BY <1>3, <2>3
      <3>4. raw[a] < raw[c] \/ (raw[a] = raw[c] /\ a < c) BY <3>1, <3>2, <3>3
      <3>q. QED BY <1>3, <3>4
    <2>q. QED BY <2>1, <2>2, <2>3
  <1> HIDE DEF R
  <1>6. /\ n \in Nat
        /\ \A a \in Readable : Cardinality(Before(a, Readable, R)) \in 0..(n - 1)
        /\ \A a, b \in Readable : <<a, b>> \in R =>
             Cardinality(Before(a, Readable, R)) < Cardinality(Before(b, Readable, R))
        /\ \A k \in 1..n : \E a \in Readable : Cardinality(Before(a, Readable, R)) = k - 1
    BY <1>2, <1>5, Ranked
  <1>7. /\ \A a \in Readable : Cardinality(Earlier(a)) \in 0..(n - 1)
        /\ \A a, b \in Readable : <<a, b>> \in R =>
             Cardinality(Earlier(a)) < Cardinality(Earlier(b))
        /\ \A k \in 1..n : \E a \in Readable : Cardinality(Earlier(a)) = k - 1
    BY <1>4, <1>6
  <1>8. \A k \in 1..n : At(k) \in Readable /\ Cardinality(Earlier(At(k))) = k - 1
    BY <1>7
  <1>9. Kept = [k \in 1..n |-> raw[At(k)]] BY DEF Kept
  <1>10. \A i \in Readable : \E k \in 1..n : At(k) = i
    <2>1. ASSUME NEW i \in Readable PROVE \E k \in 1..n : At(k) = i
      <3> DEFINE k == Cardinality(Earlier(i)) + 1
      <3>1. k \in 1..n /\ Cardinality(Earlier(i)) = k - 1 BY <1>6, <1>7
      <3> HIDE DEF k
      <3>2. At(k) \in Readable /\ Cardinality(Earlier(At(k))) = k - 1 BY <1>8, <3>1
      <3>3. At(k) = i
        <4>1. SUFFICES ASSUME At(k) # i PROVE FALSE OBVIOUS
        <4> HIDE DEF At
        <4>2. <<At(k), i>> \in R \/ <<i, At(k)>> \in R BY <1>5, <3>2, <4>1
        <4>3. \/ Cardinality(Earlier(At(k))) < Cardinality(Earlier(i))
              \/ Cardinality(Earlier(i)) < Cardinality(Earlier(At(k)))
          BY <1>7, <3>2, <4>2
        <4>4. k - 1 \in Int BY <1>6, <3>1
        <4>q. QED BY <3>1, <3>2, <4>3, <4>4
      <3>q. QED BY <3>1, <3>3
    <2>q. QED BY <2>1
  <1> HIDE DEF At
  <1>11. Kept \in [1..n -> Rows] BY <1>2, <1>8, <1>9
  <1>12. Kept \in Seq(Rows) /\ Len(Kept) = n /\ DOMAIN Kept = 1..n
    BY <1>6, <1>11, FcnIsSeq
  <1>13. \A k \in 1..n : Kept[k] = raw[At(k)] BY <1>9
  <1>14. ASSUME NEW j \in 1..n, NEW k \in 1..n, j < k PROVE Kept[j] <= Kept[k]
    <2>1. /\ At(j) \in Readable /\ Cardinality(Earlier(At(j))) = j - 1
          /\ At(k) \in Readable /\ Cardinality(Earlier(At(k))) = k - 1
      BY <1>8
    <2>2. <<At(k), At(j)>> \notin R
      <3>1. ~(k - 1 < j - 1) BY <1>6, <1>14
      <3>q. QED BY <1>7, <2>1, <3>1
    <2>3. At(j) # At(k)
      <3>1. j - 1 # k - 1 BY <1>6, <1>14
      <3>q. QED BY <2>1, <3>1
    <2>4. <<At(j), At(k)>> \in R BY <1>5, <2>1, <2>2, <2>3
    <2>5. raw[At(j)] \in Nat /\ raw[At(k)] \in Nat BY <1>2, <2>1
    <2>6. raw[At(j)] < raw[At(k)] \/ raw[At(j)] = raw[At(k)] BY <1>3, <2>1, <2>4
    <2>q. QED BY <1>13, <2>5, <2>6
  <1>15. \A k \in 1..n : \E i \in Readable : Kept[k] = raw[i] BY <1>8, <1>13
  <1>16. \A i \in Readable : \E k \in 1..n : Kept[k] = raw[i] BY <1>10, <1>13
  <1>q. QED BY <1>6, <1>12, <1>14, <1>15, <1>16

(* The running balances of the account. *)
LEMMA Balances ==
    ASSUME BankTypeOK
    PROVE  \E f : /\ Sums(account, f) /\ f \in [0..Len(account) -> Int] /\ f[0] = 0
                  /\ \A m \in 1..Len(account) : f[m] = f[m - 1] + account[m]
                  /\ \A m \in 0..Len(account) : Balance(m) = f[m]
  <1>1. account \in Seq(Int) /\ Len(account) \in Nat
    <2>1. account \in Seq(Amounts) BY DEF BankTypeOK
    <2>2. \A a \in Amounts : a \in Int BY BankAssumption
    <2>3. Len(account) \in Nat /\ account \in [1..Len(account) -> Amounts] BY <2>1
    <2>4. account \in [1..Len(account) -> Int] BY <2>2, <2>3
    <2>q. QED BY <2>3, <2>4, FcnIsSeq
  <1>2. PICK f : Sums(account, f) BY <1>1, SumsExist
  <1>3. /\ f \in [0..Len(account) -> Int] /\ f[0] = 0
        /\ \A m \in 1..Len(account) : f[m] = f[m - 1] + account[m]
    BY <1>2 DEF Sums, RunningSums
  <1>4. ASSUME NEW m \in 0..Len(account) PROVE Balance(m) = f[m]
    <2>1. 0 \in 0..Len(account) /\ m \in 0..Len(account) /\ 0 + 1 = 1 BY <1>1
    <2>2. Total(SubSeq(account, 0 + 1, m)) = f[m] - f[0]
      BY <1>1, <1>2, <2>1, TotalSlice
    <2>3. f[m] \in Int BY <1>3
    <2>q. QED BY <1>3, <2>1, <2>2, <2>3 DEF Balance
  <1>q. QED BY <1>2, <1>3, <1>4

(* Between two rows that the chain joins nothing is left out that counts,    *)
(* and no row but one of 0 comes twice.                                      *)
LEMMA ChainJoins ==
    ASSUME BankIInv, Chain(Kept), NEW i \in 2..Len(Kept)
    PROVE  /\ Kept[i] = Kept[i - 1] => account[Kept[i]] = 0
           /\ Total(SubSeq(account, Kept[i - 1] + 1, Kept[i] - 1)) = 0
  <1>0. BankTypeOK BY DEF BankIInv
  <1>1. /\ Kept \in Seq(Rows) /\ Len(Kept) \in Nat
        /\ \A k \in 1..Len(Kept) : \E j \in Readable : Kept[k] = raw[j]
        /\ \A j, k \in 1..Len(Kept) : j < k => Kept[j] <= Kept[k]
    BY <1>0, KeptFacts
  <1>2. PICK f : /\ Sums(account, f) /\ f \in [0..Len(account) -> Int] /\ f[0] = 0
                 /\ \A m \in 1..Len(account) : f[m] = f[m - 1] + account[m]
                 /\ \A m \in 0..Len(account) : Balance(m) = f[m]
    BY <1>0, Balances
  <1> DEFINE a == Kept[i - 1]
             b == Kept[i]
  <1>3. i \in 1..Len(Kept) /\ i - 1 \in 1..Len(Kept) /\ i - 1 < i BY <1>1
  <1>4. ASSUME NEW k \in 1..Len(Kept) PROVE Kept[k] \in 1..Len(account)
    <2>1. PICK j \in Readable : Kept[k] = raw[j] BY <1>1
    <2>2. j \in 1..Len(raw) BY <1>0, <2>1 DEF Readable, BankTypeOK
    <2>3. raw[j] <= Len(account) /\ raw[j] \in Rows
      BY <1>0, <2>2 DEF BankIInv, BankTypeOK
    <2>q. QED BY <1>0, <2>1, <2>3, PullBounds DEF Rows
  <1>5. a \in 1..Len(account) /\ b \in 1..Len(account) /\ a <= b
    BY <1>1, <1>3, <1>4
  <1>6. account[b] = Balance(b) - Balance(a) BY DEF Chain
  <1> HIDE DEF a, b
  <1>7. a \in 0..Len(account) /\ b \in 0..Len(account) /\ b - 1 \in 0..Len(account)
    BY <1>0, <1>5, PullBounds
  <1>8. f[a] \in Int /\ f[b] \in Int /\ f[b - 1] \in Int BY <1>2, <1>7
  <1>9. account[b] = f[b] - f[a] BY <1>2, <1>6, <1>7
  <1>10. account[b] \in Int
    <2>1. account \in Seq(Amounts) BY <1>0 DEF BankTypeOK
    <2>2. account[b] \in Amounts BY <1>5, <2>1
    <2>q. QED BY <2>2, BankAssumption
  <1>11. a = b => account[b] = 0 BY <1>8, <1>9, <1>10
  <1>12. f[b - 1] = f[a]
    <2>1. f[b] = f[b - 1] + account[b] BY <1>2, <1>5
    <2>q. QED BY <1>8, <1>9, <1>10, <2>1
  <1>13. account \in Seq(Int)
    <2>1. account \in Seq(Amounts) /\ \A x \in Amounts : x \in Int
      BY <1>0, BankAssumption DEF BankTypeOK
    <2>2. account \in [1..Len(account) -> Int] BY <2>1
    <2>q. QED BY <1>0, <2>2, PullBounds, FcnIsSeq
  <1>14. Total(SubSeq(account, a + 1, b - 1)) = 0
    <2>1. CASE a = b
      <3>1. SubSeq(account, a + 1, b - 1) = <<>> BY <1>0, <1>5, <1>13, <2>1, PullBounds
      <3>q. QED BY <3>1, TotalEmpty
    <2>2. CASE a # b
      <3>1. b - 1 \in a..Len(account) BY <1>0, <1>5, <2>2, PullBounds
      <3>2. Total(SubSeq(account, a + 1, b - 1)) = f[b - 1] - f[a]
        BY <1>2, <1>7, <1>13, <3>1, TotalSlice
      <3>q. QED BY <1>8, <1>12, <3>2
    <2>q. QED BY <2>1, <2>2
  <1>q. QED BY <1>11, <1>14 DEF a, b

(* A pull that is whole, and reconciles, sums to the balance.                *)
LEMMA ReconciledSums ==
    ASSUME BankIInv, stage = "done", Chain(Kept), Anchored, served = PageSize,
           since = 1, garbled = {}
    PROVE  Total([i \in DOMAIN Kept |-> account[Kept[i]]]) = Balance(anchor)
  <1>0. BankTypeOK BY DEF BankIInv
  <1>1. /\ Kept \in Seq(Rows) /\ Len(Kept) \in Nat /\ DOMAIN Kept = 1..Len(Kept)
        /\ \A k \in 1..Len(Kept) : \E i \in Readable : Kept[k] = raw[i]
        /\ \A i \in Readable : \E k \in 1..Len(Kept) : Kept[k] = raw[i]
        /\ \A j, k \in 1..Len(Kept) : j < k => Kept[j] <= Kept[k]
    BY <1>0, KeptFacts
  <1>2. PICK f : /\ Sums(account, f) /\ f \in [0..Len(account) -> Int] /\ f[0] = 0
                 /\ \A m \in 1..Len(account) : f[m] = f[m - 1] + account[m]
                 /\ \A m \in 0..Len(account) : Balance(m) = f[m]
    BY <1>0, Balances
  <1>3. raw \in Seq(Rows) /\ DOMAIN raw = 1..Len(raw) /\ Len(raw) \in Nat /\ raw # <<>>
        /\ 1 \in DOMAIN raw /\ anchor # -1 /\ Rows \subseteq Nat \ {0}
    <2>1. raw \in Seq(Rows) /\ raw # <<>> /\ anchor # -1
      BY <1>0 DEF BankTypeOK, Anchored
    <2>2. Len(raw) \in Nat /\ Len(raw) # 0 /\ DOMAIN raw = 1..Len(raw) BY <2>1
    <2>q. QED BY <2>1, <2>2 DEF Rows
  <1>4. \A i \in 1..Len(raw) : raw[i] \in Rows /\ raw[i] >= 1 /\ raw[i] <= Len(account)
    <2>1. ASSUME NEW i \in 1..Len(raw)
          PROVE  raw[i] \in Rows /\ raw[i] >= 1 /\ raw[i] <= Len(account)
      <3>1. raw[i] \in Rows BY <1>3
      <3>2. raw[i] >= 1 BY <3>1 DEF Rows
      <3>3. raw[i] <= Len(account) BY <1>3 DEF BankIInv
      <3>q. QED BY <3>1, <3>2, <3>3
    <2>q. QED BY <2>1
  <1>5. Readable = 1..Len(raw)
    BY <1>3, <1>4 DEF Readable
  <1>6. ASSUME NEW k \in 1..Len(Kept) PROVE Kept[k] \in 1..Len(account)
    <2>1. PICK i \in Readable : Kept[k] = raw[i] BY <1>1
    <2>2. raw[i] >= 1 /\ raw[i] <= Len(account) /\ raw[i] \in Nat
      BY <1>3, <1>4, <1>5, <2>1
    <2>q. QED BY <1>0, <2>1, <2>2, PullBounds
  <1>7. PICK one \in 1..Len(raw) : raw[one] = 1
    <2>1. Unbroken(raw, 0) BY <1>3 DEF BankIInv, Covered
    <2>2. 1 \in 1..raw[1] BY <1>3, <1>4
    <2>q. QED BY <2>1, <2>2 DEF Unbroken
  <1>8. PICK first \in 1..Len(Kept) : Kept[first] = 1 BY <1>1, <1>5, <1>7
  <1>9. 1 \in 1..Len(Kept) /\ Len(Kept) \in 1..Len(Kept) BY <1>1, <1>8
  <1>10. Kept[1] = 1
    <2>1. Kept[1] \in 1..Len(account) BY <1>6, <1>9
    <2>2. Kept[1] <= 1 BY <1>1, <1>8, <1>9
    <2>q. QED BY <2>1, <2>2, <1>0, PullBounds
  <1> DEFINE h == [i \in 0..Len(Kept) |-> IF i = 0 THEN 0 ELSE f[Kept[i]]]
             t == [i \in DOMAIN Kept |-> account[Kept[i]]]
  <1>11. t \in Seq(Int) /\ Len(t) = Len(Kept) /\ \A i \in 1..Len(Kept) : t[i] = account[Kept[i]]
    <2>1. account \in Seq(Amounts) /\ \A x \in Amounts : x \in Int
      BY <1>0, BankAssumption DEF BankTypeOK
    <2>2. ASSUME NEW i \in 1..Len(Kept) PROVE account[Kept[i]] \in Int
      BY <1>6, <2>1
    <2>3. t \in [1..Len(Kept) -> Int] BY <1>1, <2>2
    <2>4. \A i \in 1..Len(Kept) : t[i] = account[Kept[i]] BY <1>1
    <2> HIDE DEF t
    <2>q. QED BY <1>1, <2>3, <2>4, FcnIsSeq
  <1>12. Sums(t, h)
    <2>1. h \in [0..Len(Kept) -> Int]
      <3>1. ASSUME NEW i \in 0..Len(Kept), i # 0 PROVE f[Kept[i]] \in Int
        <4>1. i \in 1..Len(Kept) BY <1>1, <3>1
        <4>2. Kept[i] \in 0..Len(account) BY <1>6, <4>1
        <4>q. QED BY <1>2, <4>2
      <3>q. QED BY <3>1
    <2>2. h[0] = 0 OBVIOUS
    <2>3. ASSUME NEW m \in 1..Len(Kept) PROVE h[m] = h[m - 1] + t[m]
      <3>1. Kept[m] \in 1..Len(account) /\ t[m] = account[Kept[m]] BY <1>6, <1>11
      <3>2. h[m] = f[Kept[m]]
        <4>1. m \in 0..Len(Kept) /\ m # 0 BY <1>1
        <4>q. QED BY <4>1
      <3>3. CASE m = 1
        <4>1. h[m - 1] = 0 /\ Kept[m] = 1 BY <1>1, <1>10, <3>3
        <4>2. f[1] = f[0] + account[1] BY <1>2, <3>1, <4>1
        <4>q. QED BY <1>2, <3>1, <3>2, <4>1, <4>2
      <3>4. CASE m # 1
        <4>1. m \in 2..Len(Kept) /\ m - 1 \in 1..Len(Kept) BY <1>1, <3>4
        <4>2. account[Kept[m]] = Balance(Kept[m]) - Balance(Kept[m - 1])
          BY <4>1 DEF Chain
        <4>3. Kept[m] \in 0..Len(account) /\ Kept[m - 1] \in 0..Len(account)
          <5>1. Kept[m - 1] \in 1..Len(account) BY <1>6, <4>1
          <5>q. QED BY <3>1, <5>1
        <4>4. account[Kept[m]] = f[Kept[m]] - f[Kept[m - 1]] BY <1>2, <4>2, <4>3
        <4>5. f[Kept[m]] \in Int /\ f[Kept[m - 1]] \in Int BY <1>2, <4>3
        <4>6. h[m - 1] = f[Kept[m - 1]]
          <5>1. m - 1 \in 0..Len(Kept) /\ m - 1 # 0 BY <1>1, <4>1
          <5>q. QED BY <5>1
        <4>q. QED BY <3>1, <3>2, <4>4, <4>5, <4>6
      <3>q. QED BY <3>3, <3>4
    <2> HIDE DEF h, t
    <2>q. QED BY <1>11, <2>1, <2>2, <2>3 DEF Sums, RunningSums
  <1>13. Total(t) = f[Kept[Len(Kept)]]
    <2>1. h[Len(Kept)] = f[Kept[Len(Kept)]]
      <3>1. Len(Kept) \in 0..Len(Kept) /\ Len(Kept) # 0 BY <1>1, <1>9
      <3>q. QED BY <3>1
    <2> HIDE DEF h, t
    <2>q. QED BY <1>11, <1>12, <2>1, TotalIsLast
  <1>14. Balance(Kept[Len(Kept)]) = Balance(anchor)
    <2> DEFINE last == Kept[Len(Kept)]
               top(r) == r \in ToSet(raw) /\ \A q \in ToSet(raw) : q <= r
    <2>1. \A q \in ToSet(raw) : q \in Nat /\ q <= last
      <3>1. SUFFICES ASSUME NEW i \in 1..Len(raw) PROVE raw[i] \in Nat /\ raw[i] <= last
        BY <1>3 DEF ToSet
      <3>2. PICK k \in 1..Len(Kept) : Kept[k] = raw[i] BY <1>1, <1>5
      <3>3. Kept[k] \in Nat BY <1>6
      <3>4. Kept[k] <= last
        <4>1. CASE k = Len(Kept) BY <3>3, <4>1
        <4>2. CASE k # Len(Kept)
          <5>1. k \in Nat /\ k <= Len(Kept) /\ Len(Kept) \in Nat BY <1>1
          <5>2. k < Len(Kept) BY <4>2, <5>1
          <5>q. QED BY <1>1, <1>9, <5>2
        <4>q. QED BY <4>1, <4>2
      <3>q. QED BY <3>2, <3>3, <3>4
    <2>2. last \in ToSet(raw)
      <3>1. PICK i \in Readable : last = raw[i] BY <1>1, <1>9
      <3>q. QED BY <1>3, <1>5, <3>1 DEF ToSet
    <2> HIDE DEF last
    <2>3. \A r \in ToSet(raw) : (\A q \in ToSet(raw) : q <= r) => r = last
      <3>1. ASSUME NEW r \in ToSet(raw), \A q \in ToSet(raw) : q <= r PROVE r = last
        <4>1. last <= r /\ r <= last /\ r \in Nat /\ last \in Nat BY <2>1, <2>2, <3>1
        <4>q. QED BY <4>1
      <3>q. QED BY <3>1
    <2>4. (CHOOSE r \in ToSet(raw) : \A q \in ToSet(raw) : q <= r) = last
      BY <2>1, <2>2, <2>3
    <2>q. QED BY <2>4 DEF Anchored, last
  <1>15. Balance(Kept[Len(Kept)]) = f[Kept[Len(Kept)]]
    <2>1. Kept[Len(Kept)] \in 1..Len(account) BY <1>6, <1>9
    <2>2. Kept[Len(Kept)] \in 0..Len(account) BY <2>1
    <2>q. QED BY <1>2, <2>2
  <1>q. QED BY <1>13, <1>14, <1>15

(* What a pull is worth, whatever the amounts, the size of a page, the rows  *)
(* there are and those that come meanwhile.                                  *)
THEOREM PullsAreWhole == BankSpec => []PullIsWhole
  <1>1. BankIInv => PullIsWhole
    <2> SUFFICES ASSUME BankIInv, stage = "done" PROVE
          /\ served = PageSize /\ raw # <<>> =>
               \A r \in since..raw[1] : r \in ToSet(Kept) \cup garbled
          /\ Chain(Kept) =>
               \A i \in 2..Len(Kept) :
                 /\ Kept[i] = Kept[i - 1] => account[Kept[i]] = 0
                 /\ Total(SubSeq(account, Kept[i - 1] + 1, Kept[i] - 1)) = 0
          /\ Chain(Kept) /\ Anchored /\ served = PageSize
               /\ since = 1 /\ garbled = {} =>
               Total([i \in DOMAIN Kept |-> account[Kept[i]]]) = Balance(anchor)
      BY DEF PullIsWhole
    <2>1. ASSUME served = PageSize, raw # <<>>, NEW r \in since..raw[1], r \notin garbled
          PROVE  r \in ToSet(Kept)
      <3>0. BankTypeOK BY DEF BankIInv
      <3>1. Unbroken(raw, 0) BY <2>1 DEF BankIInv, Covered
      <3>2. since \in Nat /\ since >= 1 BY <3>0, BankAssumption DEF BankTypeOK
      <3>3. r \in Int /\ r >= since /\ r <= raw[1] BY <2>1
      <3>4. r \in 1..raw[1] /\ r > 0
        <4>1. raw \in Seq(Rows) /\ Len(raw) # 0 /\ Len(raw) \in Nat
          BY <2>1, <3>0 DEF BankTypeOK
        <4>2. 1 \in 1..Len(raw) BY <4>1
        <4>3. raw[1] \in Rows BY <4>1, <4>2
        <4>4. raw[1] \in Int BY <4>3 DEF Rows
        <4>q. QED BY <3>2, <3>3, <4>4
      <3>5. PICK i \in 1..Len(raw) : raw[i] = r BY <3>1, <3>4 DEF Unbroken
      <3>6. i \in Readable BY <2>1, <3>0, <3>3, <3>5 DEF Readable, BankTypeOK
      <3>7. PICK k \in 1..Len(Kept) : Kept[k] = raw[i] BY <3>0, <3>6, KeptFacts
      <3>8. DOMAIN Kept = 1..Len(Kept) BY <3>0, KeptFacts
      <3>q. QED BY <3>5, <3>7, <3>8 DEF ToSet
    <2>2. ASSUME Chain(Kept), NEW i \in 2..Len(Kept)
          PROVE  /\ Kept[i] = Kept[i - 1] => account[Kept[i]] = 0
                 /\ Total(SubSeq(account, Kept[i - 1] + 1, Kept[i] - 1)) = 0
      BY <2>2, ChainJoins
    <2>3. ASSUME Chain(Kept), Anchored, served = PageSize, since = 1, garbled = {}
          PROVE  Total([i \in DOMAIN Kept |-> account[Kept[i]]]) = Balance(anchor)
      BY <2>3, ReconciledSums
    <2>q. QED BY <2>1, <2>2, <2>3
  <1>q. QED BY <1>1, BankInvariant, PTL

-----------------------------------------------------------------------------
(* The recording of a demonstration. *)

(* What the documents log and the store holds. *)
Kinds(l, s) == s \cup UNION {ToSet(l[d]) : d \in Documents}

(* The last that is known of a field is what it was set to, and the document *)
(* still logs it.                                                            *)
LastSet(l, s, d, f, v) ==
    \E a \in ToSet(l[d]) :
       /\ a.what = f /\ a.entry = v
       /\ \A b \in ToSet(l[d]) \cup s : b.doc = d /\ b.what = f => b.t <= a.t

(* While a log is not full, the script knows what is in the fields.          *)
FieldsAreKnown ==
    /\ value \in [Documents -> [Fields -> Entries \cup {Unset}]]
    /\ \A d \in Documents : Len(log[d]) < MaxLog => settled[d] = value[d]

RecorderIInv ==
    /\ RecorderTypeOK /\ FieldsAreKnown
    /\ read = store /\ IsFiniteSet(store)
    /\ sawTable => shown
    /\ \A a \in Kinds(log, store) : a.t <= time
    /\ \A a, b \in Kinds(log, store) : a.t = b.t => a = b
    /\ \A d \in Documents : \A a \in ToSet(log[d]) : a.doc = d
    /\ \A d \in Documents, f \in Fields :
         settled[d][f] # Unset => LastSet(log, store, d, f, settled[d][f])
    /\ \A d \in synced : ToSet(log[d]) \subseteq store

-----------------------------------------------------------------------------
(* What a push does to a log. *)
LEMMA PushedFacts ==
    ASSUME NEW l \in Seq(Actions), Len(l) <= MaxLog, NEW a \in Actions
    PROVE  /\ Pushed(l, a) \in Seq(Actions) /\ Len(Pushed(l, a)) <= MaxLog
           /\ \A b \in ToSet(Pushed(l, a)) : b \in ToSet(l) \/ b = a
           /\ Len(l) < MaxLog => a \in ToSet(Pushed(l, a))
           /\ \A b \in ToSet(l) :
                b.what # a.what \/ a.what = "click" => b \in ToSet(Pushed(l, a))
  <1> DEFINE p == Pushed(l, a)
  <1>1. Len(l) \in Nat /\ DOMAIN l = 1..Len(l) /\ MaxLog \in Nat
    BY RecorderAssumption
  <1>2. ToSet(l) = {l[i] : i \in 1..Len(l)} BY <1>1 DEF ToSet
  <1>3. CASE Len(l) >= MaxLog
    <2>1. p = l BY <1>3 DEF Pushed
    <2>q. QED BY <1>1, <1>3, <2>1
  <1>4. CASE Len(l) < MaxLog /\ l # <<>> /\ a.what # "click" /\ l[Len(l)].what = a.what
    <2>1. p = [l EXCEPT ![Len(l)] = a] BY <1>1, <1>4 DEF Pushed
    <2>2. Len(l) \in 1..Len(l) BY <1>1, <1>4
    <2>3. /\ p \in Seq(Actions) /\ Len(p) = Len(l) /\ DOMAIN p = 1..Len(l)
          /\ p[Len(l)] = a /\ \A i \in 1..Len(l) : i # Len(l) => p[i] = l[i]
      <3>1. l \in [1..Len(l) -> Actions] BY <1>1
      <3>2. p \in [1..Len(l) -> Actions] BY <2>1, <2>2, <3>1
      <3>3. p[Len(l)] = a /\ \A i \in 1..Len(l) : i # Len(l) => p[i] = l[i]
        BY <2>1, <2>2, <3>1
      <3> HIDE DEF p
      <3>q. QED BY <1>1, <3>2, <3>3, FcnIsSeq
    <2> HIDE DEF p
    <2>4. ToSet(p) = {p[i] : i \in 1..Len(l)} BY <2>3 DEF ToSet
    <2>5. \A b \in ToSet(p) : b \in ToSet(l) \/ b = a BY <1>2, <2>3, <2>4
    <2>6. a \in ToSet(p) BY <2>2, <2>3, <2>4
    <2>7. \A b \in ToSet(l) : b.what # a.what => b \in ToSet(p)
      <3>1. SUFFICES ASSUME NEW i \in 1..Len(l), l[i].what # a.what
                     PROVE  l[i] \in ToSet(p)
        BY <1>2
      <3>2. i # Len(l) BY <1>4, <3>1
      <3>3. p[i] = l[i] BY <2>3, <3>2
      <3>q. QED BY <2>4, <3>3
    <2>q. QED BY <1>4, <1>1, <2>3, <2>5, <2>6, <2>7 DEF p
  <1>5. CASE Len(l) < MaxLog /\ ~(l # <<>> /\ a.what # "click" /\ l[Len(l)].what = a.what)
    <2>1. p = Append(l, a)
      <3>1. ~(Len(l) >= MaxLog) BY <1>1, <1>5
      <3>2. ~(l # <<>> /\ a.what # "click" /\ l[Len(l)].what = a.what) BY <1>5
      <3>q. QED BY <3>1, <3>2, Zenon DEF Pushed
    <2>2. /\ p \in Seq(Actions) /\ Len(p) = Len(l) + 1 /\ p[Len(l) + 1] = a
          /\ \A i \in 1..Len(l) : p[i] = l[i]
      BY <2>1, AppendProperties
    <2> HIDE DEF p
    <2>3. DOMAIN p = 1..(Len(l) + 1) /\ Len(l) + 1 \in 1..(Len(l) + 1)
      BY <1>1, <2>2
    <2>4. ToSet(p) = {p[i] : i \in 1..(Len(l) + 1)} BY <2>3 DEF ToSet
    <2>5. \A b \in ToSet(p) : b \in ToSet(l) \/ b = a
      <3>1. SUFFICES ASSUME NEW i \in 1..(Len(l) + 1)
                     PROVE  p[i] \in ToSet(l) \/ p[i] = a
        BY <2>4
      <3>2. i \in 1..Len(l) \/ i = Len(l) + 1 BY <1>1
      <3>q. QED BY <1>2, <2>2, <3>2
    <2>6. a \in ToSet(p) BY <2>2, <2>3, <2>4
    <2>7. \A b \in ToSet(l) : b \in ToSet(p)
      <3>1. SUFFICES ASSUME NEW i \in 1..Len(l) PROVE l[i] \in ToSet(p)
        BY <1>2
      <3>2. i \in 1..(Len(l) + 1) BY <1>1
      <3>q. QED BY <2>2, <2>4, <3>2
    <2>8. Len(p) <= MaxLog BY <1>1, <1>5, <2>2
    <2>q. QED BY <2>2, <2>5, <2>6, <2>7, <2>8 DEF p
  <1>q. QED BY <1>1, <1>3, <1>4, <1>5

-----------------------------------------------------------------------------
LEMMA RecorderStarts == RecorderInit => RecorderIInv
  <1> SUFFICES ASSUME RecorderInit PROVE RecorderIInv OBVIOUS
  <1> USE DEF RecorderInit
  <1>1. RecorderTypeOK
    <2>1. log \in [Documents -> Seq(Actions)] OBVIOUS
    <2>2. \A d \in Documents : Len(log[d]) <= MaxLog BY RecorderAssumption
    <2>3. time \in 0..MaxTime BY RecorderAssumption
    <2>4. value \in [Documents -> [Fields -> Entries \cup {Unset}]] /\ settled = value
      OBVIOUS
    <2>q. QED BY <2>1, <2>2, <2>3, <2>4 DEF RecorderTypeOK
  <1>2. \A d \in Documents : ToSet(log[d]) = {}
    <2>1. ASSUME NEW d \in Documents PROVE ToSet(log[d]) = {}
      <3>1. log[d] = <<>> /\ DOMAIN log[d] = {} OBVIOUS
      <3>q. QED BY <3>1 DEF ToSet
    <2>q. QED BY <2>1
  <1>3. Kinds(log, store) = {} BY <1>2 DEF Kinds
  <1>4. IsFiniteSet(store) BY FS_EmptySet
  <1>5. FieldsAreKnown BY <1>1 DEF FieldsAreKnown, RecorderTypeOK
  <1>6. \A d \in Documents, f \in Fields : settled[d][f] = Unset OBVIOUS
  <1>q. QED BY <1>1, <1>2, <1>3, <1>4, <1>5, <1>6 DEF RecorderIInv

(* An action that is logged, of a field that then has that value if the log  *)
(* was not full.                                                             *)
LEMMA LogsKeep ==
    ASSUME RecorderIInv, NEW d \in Documents, NEW what \in Fields \cup {"click"},
           NEW entry \in Entries \cup {Unset}, Logs(d, what, entry),
           \/ UNCHANGED settled /\ (what = "click" \/ Len(log[d]) >= MaxLog)
           \/ /\ what \in Fields /\ Len(log[d]) < MaxLog
              /\ settled' = [settled EXCEPT ![d][what] = entry],
           FieldsAreKnown'
    PROVE  RecorderIInv'
  <1> DEFINE a == [t |-> time', doc |-> d, what |-> what, entry |-> entry]
  <1>1. /\ watching = "yes" /\ time < MaxTime /\ time' = time + 1
        /\ log' = [log EXCEPT ![d] = Pushed(log[d], a)]
        /\ synced' = synced \ {d}
        /\ UNCHANGED <<table, visited, store, shown, watching, read, sawTable>>
    BY DEF Logs
  <1>2. RecorderTypeOK /\ MaxTime \in Nat BY RecorderAssumption DEF RecorderIInv
  <1>3. time \in Nat /\ time' \in 1..MaxTime /\ time' \in 0..MaxTime
    BY <1>1, <1>2 DEF RecorderTypeOK
  <1>4. a \in Actions BY <1>3 DEF Actions
  <1>5. a.t = time + 1 /\ a.doc = d /\ a.what = what /\ a.entry = entry BY <1>1
  <1> HIDE DEF a
  <1>6. /\ log \in [Documents -> Seq(Actions)]
        /\ log[d] \in Seq(Actions) /\ Len(log[d]) <= MaxLog
    BY <1>2 DEF RecorderTypeOK
  <1>6a. Len(log[d]) \in Nat /\ MaxLog \in Nat BY <1>6, RecorderAssumption
  <1>7. /\ Pushed(log[d], a) \in Seq(Actions) /\ Len(Pushed(log[d], a)) <= MaxLog
        /\ \A b \in ToSet(Pushed(log[d], a)) : b \in ToSet(log[d]) \/ b = a
        /\ Len(log[d]) < MaxLog => a \in ToSet(Pushed(log[d], a))
        /\ \A b \in ToSet(log[d]) :
             b.what # a.what \/ a.what = "click" => b \in ToSet(Pushed(log[d], a))
    BY <1>4, <1>6, PushedFacts
  <1>8. /\ log' \in [Documents -> Seq(Actions)] /\ log'[d] = Pushed(log[d], a)
        /\ \A e \in Documents : e # d => log'[e] = log[e]
    BY <1>1, <1>6, <1>7
  <1>9. settled' \in [Documents -> [Fields -> Entries \cup {Unset}]]
    <2>1. settled \in [Documents -> [Fields -> Entries \cup {Unset}]]
      BY <1>2 DEF RecorderTypeOK
    <2>2. CASE UNCHANGED settled BY <2>1, <2>2
    <2>3. CASE settled' = [settled EXCEPT ![d][what] = entry]
      <3>1. settled[d] \in [Fields -> Entries \cup {Unset}] BY <2>1
      <3>2. [settled[d] EXCEPT ![what] = entry] \in [Fields -> Entries \cup {Unset}]
        BY <3>1
      <3>q. QED BY <2>1, <2>3, <3>2
    <2>q. QED BY <2>2, <2>3
  <1>10. RecorderTypeOK'
    <2>1. \A e \in Documents : Len(log'[e]) <= MaxLog
      BY <1>2, <1>7, <1>8 DEF RecorderTypeOK
    <2>2. synced' \subseteq Documents BY <1>1, <1>2 DEF RecorderTypeOK
    <2>q. QED BY <1>1, <1>2, <1>3, <1>8, <1>9, <2>1, <2>2 DEF RecorderTypeOK, FieldsAreKnown
  <1>11. \A b \in Kinds(log', store') : b \in Kinds(log, store) \/ b = a
    <2>1. ASSUME NEW e \in Documents, NEW b \in ToSet(log'[e])
          PROVE  b \in Kinds(log, store) \/ b = a
      <3>1. b \in ToSet(log[e]) \/ b = a BY <1>7, <1>8
      <3>q. QED BY <3>1 DEF Kinds
    <2>q. QED BY <1>1, <2>1 DEF Kinds
  <1>12. \A b \in Kinds(log, store) : b.t <= time /\ b.t \in Nat
    <2>1. store \subseteq Actions BY <1>2 DEF RecorderTypeOK
    <2>2. ASSUME NEW e \in Documents PROVE ToSet(log[e]) \subseteq Actions
      <3>1. log[e] \in Seq(Actions) BY <1>6
      <3>q. QED BY <3>1 DEF ToSet
    <2>3. Kinds(log, store) \subseteq Actions BY <2>1, <2>2 DEF Kinds
    <2>4. \A b \in Actions : b.t \in Nat BY DEF Actions
    <2>q. QED BY <2>3, <2>4 DEF RecorderIInv
  <1>13. \A b \in Kinds(log', store') : b.t <= time'
    BY <1>1, <1>3, <1>5, <1>11, <1>12
  <1>14. \A b, c \in Kinds(log', store') : b.t = c.t => b = c
    <2>1. SUFFICES ASSUME NEW b \in Kinds(log', store'), NEW c \in Kinds(log', store'),
                          b.t = c.t
                   PROVE  b = c
      OBVIOUS
    <2>2. CASE b \in Kinds(log, store) /\ c \in Kinds(log, store)
      BY <2>1, <2>2 DEF RecorderIInv
    <2>3. CASE b = a /\ c \in Kinds(log, store) BY <1>3, <1>5, <1>12, <2>1, <2>3
    <2>4. CASE c = a /\ b \in Kinds(log, store) BY <1>3, <1>5, <1>12, <2>1, <2>4
    <2>q. QED BY <1>11, <2>2, <2>3, <2>4
  <1>15. \A e \in Documents : \A b \in ToSet(log'[e]) : b.doc = e
    BY <1>5, <1>7, <1>8 DEF RecorderIInv
  <1>16. ASSUME NEW e \in Documents, NEW f \in Fields, settled'[e][f] # Unset
         PROVE  LastSet(log', store', e, f, settled'[e][f])
    <2>1. settled \in [Documents -> [Fields -> Entries \cup {Unset}]]
      BY <1>2 DEF RecorderTypeOK
    <2>2. CASE e = d /\ f = what /\ Len(log[d]) < MaxLog
      <3>1. what # "click" BY <2>2, RecorderAssumption
      <3>2. settled' = [settled EXCEPT ![d][what] = entry] /\ what \in Fields
        BY <1>6a, <2>2, <3>1
      <3>2a. settled'[e][f] = entry BY <2>1, <2>2, <3>2
      <3>3. a \in ToSet(log'[e]) BY <1>7, <1>8, <2>2
      <3>4. \A b \in ToSet(log'[e]) \cup store' : b \in Kinds(log', store')
        BY DEF Kinds
      <3>5. \A b \in ToSet(log'[e]) \cup store' : b.t <= a.t
        BY <1>1, <1>5, <1>13, <3>4
      <3>q. QED BY <1>5, <2>2, <3>2a, <3>3, <3>5 DEF LastSet
    <2>3. CASE ~(e = d /\ f = what /\ Len(log[d]) < MaxLog)
      <3>1. settled'[e][f] = settled[e][f]
        <4>1. CASE UNCHANGED settled BY <4>1
        <4>2. CASE settled' = [settled EXCEPT ![d][what] = entry] /\ what \in Fields
                   /\ Len(log[d]) < MaxLog
          BY <2>1, <2>3, <4>2
        <4>q. QED BY <4>1, <4>2
      <3>2. PICK b \in ToSet(log[e]) :
              /\ b.what = f /\ b.entry = settled[e][f]
              /\ \A c \in ToSet(log[e]) \cup store :
                   c.doc = e /\ c.what = f => c.t <= b.t
        BY <1>16, <3>1 DEF RecorderIInv, LastSet
      <3>3. CASE e # d
        <4>1. log'[e] = log[e] /\ store' = store BY <1>1, <1>8, <3>3
        <4>q. QED BY <3>1, <3>2, <4>1 DEF LastSet
      <3>4. CASE e = d /\ Len(log[d]) >= MaxLog
        <4>1. log'[e] = log[e] /\ store' = store
          BY <1>1, <1>8, <3>4 DEF Pushed
        <4>q. QED BY <3>1, <3>2, <4>1 DEF LastSet
      <3>5. CASE e = d /\ ~(Len(log[d]) >= MaxLog)
        <4>1. f # what
          <5>1. Len(log[d]) \in Nat /\ MaxLog \in Nat BY <1>6, RecorderAssumption
          <5>2. Len(log[d]) < MaxLog BY <3>5, <5>1
          <5>q. QED BY <2>3, <3>5, <5>2
        <4>2. b \in ToSet(log'[e]) BY <1>5, <1>7, <1>8, <3>2, <3>5, <4>1
        <4>3. \A c \in ToSet(log'[e]) \cup store' :
                c.doc = e /\ c.what = f => c.t <= b.t
          <5>1. \A c \in ToSet(log'[e]) : c \in ToSet(log[e]) \/ c = a
            BY <1>7, <1>8, <3>5
          <5>q. QED BY <1>1, <1>5, <3>2, <4>1, <5>1
        <4>q. QED BY <3>1, <3>2, <4>2, <4>3 DEF LastSet
      <3>q. QED BY <3>3, <3>4, <3>5
    <2>q. QED BY <2>2, <2>3
  <1>17. \A e \in synced' : ToSet(log'[e]) \subseteq store'
    BY <1>1, <1>2, <1>8 DEF RecorderIInv, RecorderTypeOK
  <1>18. read' = store' /\ IsFiniteSet(store') /\ (sawTable' => shown')
    BY <1>1 DEF RecorderIInv
  <1>q. QED
    BY <1>10, <1>13, <1>14, <1>15, <1>16, <1>17, <1>18 DEF RecorderIInv

LEMMA NavigateKeeps == ASSUME RecorderIInv, NEW d \in Documents, Navigate(d)
                       PROVE  RecorderIInv'
  <1>1. /\ log' = [log EXCEPT ![d] = <<>>]
        /\ value' = [value EXCEPT ![d] = [f \in Fields |-> Unset]]
        /\ settled' = [settled EXCEPT ![d] = [f \in Fields |-> Unset]]
        /\ table' = [table EXCEPT ![d] = FALSE] /\ synced' = synced \ {d}
        /\ UNCHANGED <<visited, store, shown, time, watching, read, sawTable>>
    BY DEF Navigate
  <1>2. RecorderTypeOK BY DEF RecorderIInv
  <1>3. /\ log \in [Documents -> Seq(Actions)]
        /\ settled \in [Documents -> [Fields -> Entries \cup {Unset}]]
        /\ value \in [Documents -> [Fields -> Entries \cup {Unset}]]
    BY <1>2 DEF RecorderTypeOK
  <1>4. /\ log' \in [Documents -> Seq(Actions)] /\ log'[d] = <<>>
        /\ \A e \in Documents : e # d => log'[e] = log[e]
    BY <1>1, <1>3
  <1>5. ToSet(log'[d]) = {}
    <2>1. DOMAIN log'[d] = {} BY <1>4
    <2>q. QED BY <2>1 DEF ToSet
  <1>6. /\ settled' \in [Documents -> [Fields -> Entries \cup {Unset}]]
        /\ \A f \in Fields : settled'[d][f] = Unset
        /\ \A e \in Documents : e # d => settled'[e] = settled[e]
    BY <1>1, <1>3
  <1>6a. FieldsAreKnown'
    <2>1. /\ value' \in [Documents -> [Fields -> Entries \cup {Unset}]]
          /\ value'[d] = settled'[d]
          /\ \A e \in Documents : e # d => value'[e] = value[e]
      BY <1>1, <1>3
    <2>2. ASSUME NEW e \in Documents, Len(log'[e]) < MaxLog PROVE settled'[e] = value'[e]
      <3>1. CASE e = d BY <2>1, <3>1
      <3>2. CASE e # d BY <1>4, <1>6, <2>1, <2>2, <3>2 DEF RecorderIInv, FieldsAreKnown
      <3>q. QED BY <3>1, <3>2
    <2>q. QED BY <2>1, <2>2 DEF FieldsAreKnown
  <1>7. RecorderTypeOK'
    <2>1. \A e \in Documents : Len(log'[e]) <= MaxLog
      <3>1. Len(<<>>) <= MaxLog BY RecorderAssumption
      <3>q. QED BY <1>2, <1>4, <3>1 DEF RecorderTypeOK
    <2>2. table' \in [Documents -> BOOLEAN] BY <1>1, <1>2 DEF RecorderTypeOK
    <2>q. QED BY <1>1, <1>2, <1>4, <1>6, <1>6a, <2>1, <2>2 DEF RecorderTypeOK, FieldsAreKnown
  <1>8. Kinds(log', store') \subseteq Kinds(log, store)
    BY <1>1, <1>4, <1>5 DEF Kinds
  <1>9. \A e \in Documents, f \in Fields :
          settled'[e][f] # Unset => LastSet(log', store', e, f, settled'[e][f])
    <2>1. SUFFICES ASSUME NEW e \in Documents, NEW f \in Fields, settled'[e][f] # Unset
                   PROVE  LastSet(log', store', e, f, settled'[e][f])
      OBVIOUS
    <2>2. e # d BY <1>6, <2>1
    <2>3. settled'[e][f] = settled[e][f] /\ log'[e] = log[e] /\ store' = store
      BY <1>1, <1>4, <1>6, <2>2
    <2>4. LastSet(log, store, e, f, settled[e][f]) BY <2>1, <2>3 DEF RecorderIInv
    <2>q. QED BY <2>3, <2>4 DEF LastSet
  <1>10. \A e \in Documents : \A a \in ToSet(log'[e]) : a.doc = e
    BY <1>4, <1>5 DEF RecorderIInv
  <1>11. \A e \in synced' : ToSet(log'[e]) \subseteq store'
    BY <1>1, <1>2, <1>4 DEF RecorderIInv, RecorderTypeOK
  <1>12. /\ \A a \in Kinds(log', store') : a.t <= time'
         /\ \A a, b \in Kinds(log', store') : a.t = b.t => a = b
    BY <1>1, <1>8 DEF RecorderIInv
  <1>13. read' = store' /\ IsFiniteSet(store') /\ (sawTable' => shown')
    BY <1>1 DEF RecorderIInv
  <1>q. QED
    BY <1>6a, <1>7, <1>9, <1>10, <1>11, <1>12, <1>13 DEF RecorderIInv

LEMMA ReadKeeps == ASSUME RecorderIInv, NEW d \in Documents, ReadLog(d)
                   PROVE  RecorderIInv'
  <1>1. /\ visited' = visited \cup {d}
        /\ UNCHANGED <<log, value, settled, table, shown, time, watching, sawTable>>
        /\ \/ /\ store' = store \cup ToSet(log[d])
              /\ read' = read \cup ToSet(log[d]) /\ synced' = synced \cup {d}
           \/ UNCHANGED <<store, read, synced>>
    BY DEF ReadLog, Remember
  <1>2. RecorderTypeOK BY DEF RecorderIInv
  <1>3. log[d] \in Seq(Actions) BY <1>2 DEF RecorderTypeOK
  <1>4. ToSet(log[d]) \subseteq Actions /\ IsFiniteSet(ToSet(log[d]))
    <2>1. DOMAIN log[d] = 1..Len(log[d]) /\ Len(log[d]) \in Nat BY <1>3
    <2>2. IsFiniteSet(DOMAIN log[d]) BY <2>1, FS_Interval
    <2>3. IsFiniteSet({log[d][i] : i \in DOMAIN log[d]})
      <3> DEFINE S == DOMAIN log[d]
                 img == {log[d][i] : i \in S}
                 g == [i \in S |-> log[d][i]]
      <3>1. g \in Surjection(S, img) BY DEF Surjection
      <3> HIDE DEF S, g
      <3>q. QED BY <2>2, <3>1, FS_Surjection DEF S
    <2>q. QED BY <1>3, <2>3 DEF ToSet
  <1>5. /\ store \subseteq store' /\ \A b \in store' : b \in store \/ b \in ToSet(log[d])
        /\ store' \subseteq Actions /\ IsFiniteSet(store') /\ read' = store'
    <2>1. CASE store' = store \cup ToSet(log[d]) /\ read' = read \cup ToSet(log[d])
      BY <1>2, <1>4, <2>1, FS_Union DEF RecorderIInv, RecorderTypeOK
    <2>2. CASE UNCHANGED <<store, read>>
      BY <1>2, <2>2 DEF RecorderIInv, RecorderTypeOK
    <2>q. QED BY <1>1, <2>1, <2>2
  <1>6. RecorderTypeOK'
    BY <1>1, <1>2, <1>5 DEF RecorderTypeOK
  <1>7. Kinds(log', store') \subseteq Kinds(log, store) BY <1>1, <1>5 DEF Kinds
  <1>8. \A e \in Documents, f \in Fields :
          settled'[e][f] # Unset => LastSet(log', store', e, f, settled'[e][f])
    <2>1. SUFFICES ASSUME NEW e \in Documents, NEW f \in Fields, settled[e][f] # Unset
                   PROVE  LastSet(log, store', e, f, settled[e][f])
      BY <1>1
    <2>2. PICK a \in ToSet(log[e]) :
            /\ a.what = f /\ a.entry = settled[e][f]
            /\ \A b \in ToSet(log[e]) \cup store : b.doc = e /\ b.what = f => b.t <= a.t
      BY <2>1 DEF RecorderIInv, LastSet
    <2>3. ASSUME NEW b \in ToSet(log[e]) \cup store', b.doc = e, b.what = f
          PROVE  b.t <= a.t
      <3>1. CASE b \in ToSet(log[e]) \cup store BY <2>2, <2>3, <3>1
      <3>2. CASE b \in ToSet(log[d])
        <4>1. d = e BY <2>3, <3>2 DEF RecorderIInv
        <4>q. QED BY <2>2, <2>3, <3>2, <4>1
      <3>q. QED BY <1>5, <3>1, <3>2
    <2>q. QED BY <2>2, <2>3 DEF LastSet
  <1>9. \A e \in synced' : ToSet(log'[e]) \subseteq store'
    <2>1. \A e \in synced : ToSet(log[e]) \subseteq store' BY <1>5 DEF RecorderIInv
    <2>q. QED BY <1>1, <2>1
  <1>10. /\ \A a \in Kinds(log', store') : a.t <= time'
         /\ \A a, b \in Kinds(log', store') : a.t = b.t => a = b
         /\ \A e \in Documents : \A a \in ToSet(log'[e]) : a.doc = e
         /\ sawTable' => shown'
         /\ FieldsAreKnown'
    BY <1>1, <1>7 DEF RecorderIInv, FieldsAreKnown
  <1>q. QED BY <1>5, <1>6, <1>8, <1>9, <1>10 DEF RecorderIInv

(* A step that leaves the actions and the fields alone. *)
LEMMA RestKeeps ==
    ASSUME RecorderIInv, RecorderTypeOK', sawTable' => shown',
           UNCHANGED <<log, value, settled, store, time, synced, read>>
    PROVE  RecorderIInv'
  BY DEF RecorderIInv, FieldsAreKnown, LastSet, Kinds

LEMMA LogsNeverShrink ==
    ASSUME RecorderTypeOK, NEW d \in Documents, NEW what, NEW entry, Logs(d, what, entry)
    PROVE  \A e \in Documents : Len(log'[e]) < MaxLog => Len(log[e]) < MaxLog
  <1>1. PICK a : log' = [log EXCEPT ![d] = Pushed(log[d], a)] BY DEF Logs
  <1>2. ASSUME NEW e \in Documents PROVE Len(log[e]) \in Nat
    <2>1. log[e] \in Seq(Actions) BY DEF RecorderTypeOK
    <2>q. QED BY <2>1
  <1>3. MaxLog \in Nat /\ log \in [Documents -> Seq(Actions)]
    BY RecorderAssumption DEF RecorderTypeOK
  <1>4. Len(log[d]) >= MaxLog => Pushed(log[d], a) = log[d] BY DEF Pushed
  <1>5. \A e \in Documents : log'[e] = IF e = d THEN Pushed(log[d], a) ELSE log[e]
    BY <1>1, <1>3
  <1> HIDE DEF Pushed
  <1>q. QED BY <1>2, <1>3, <1>4, <1>5

LEMMA RecorderKeeps == RecorderIInv /\ [RecorderNext]_recorderVars => RecorderIInv'
  <1> SUFFICES ASSUME RecorderIInv, [RecorderNext]_recorderVars PROVE RecorderIInv'
    OBVIOUS
  <1>0. RecorderTypeOK BY DEF RecorderIInv
  <1>1. ASSUME NEW d \in Documents, Click(d) PROVE RecorderIInv'
    <2>1. Logs(d, "click", Unset) /\ UNCHANGED <<value, settled>> BY <1>1 DEF Click
    <2>2. \A e \in Documents : Len(log'[e]) < MaxLog => Len(log[e]) < MaxLog
      BY <1>0, <2>1, LogsNeverShrink
    <2>3. FieldsAreKnown' BY <2>1, <2>2 DEF FieldsAreKnown, RecorderIInv
    <2>q. QED BY <2>1, <2>3, LogsKeep
  <1>2. ASSUME NEW d \in Documents, NEW f \in Fields, NEW v \in Entries,
               SetField(d, f, v)
        PROVE  RecorderIInv'
    <2>1. /\ Logs(d, f, v) /\ value' = [value EXCEPT ![d][f] = v]
          /\ settled' = IF Len(log[d]) >= MaxLog THEN settled
                        ELSE [settled EXCEPT ![d][f] = v]
      BY <1>2 DEF SetField
    <2>2. Len(log[d]) \in Nat /\ MaxLog \in Nat
      <3>1. log[d] \in Seq(Actions) BY <1>0 DEF RecorderTypeOK
      <3>q. QED BY <3>1, RecorderAssumption
    <2>2a. \A e \in Documents : Len(log'[e]) < MaxLog => Len(log[e]) < MaxLog
      BY <1>0, <2>1, LogsNeverShrink
    <2>2b. /\ value \in [Documents -> [Fields -> Entries \cup {Unset}]]
           /\ settled \in [Documents -> [Fields -> Entries \cup {Unset}]]
      BY <1>0 DEF RecorderTypeOK
    <2>2c. /\ value' \in [Documents -> [Fields -> Entries \cup {Unset}]]
           /\ value'[d] = [value[d] EXCEPT ![f] = v]
           /\ \A e \in Documents : e # d => value'[e] = value[e]
      <3>1. [value[d] EXCEPT ![f] = v] \in [Fields -> Entries \cup {Unset}] BY <2>2b
      <3>q. QED BY <2>1, <2>2b, <3>1
    <2>3. CASE Len(log[d]) >= MaxLog
      <3>1. UNCHANGED settled BY <2>1, <2>3
      <3>2. ASSUME NEW e \in Documents, Len(log'[e]) < MaxLog PROVE settled'[e] = value'[e]
        <4>1. Len(log[e]) < MaxLog /\ e # d BY <2>2, <2>2a, <2>3, <3>2
        <4>q. QED BY <2>2c, <3>1, <4>1 DEF RecorderIInv, FieldsAreKnown
      <3>3. FieldsAreKnown' BY <2>2c, <3>2 DEF FieldsAreKnown
      <3>q. QED BY <2>1, <2>3, <3>1, <3>3, LogsKeep
    <2>4. CASE Len(log[d]) < MaxLog
      <3>1. settled' = [settled EXCEPT ![d][f] = v] BY <2>1, <2>2, <2>4
      <3>2. ASSUME NEW e \in Documents, Len(log'[e]) < MaxLog PROVE settled'[e] = value'[e]
        <4>1. settled[e] = value[e] BY <2>2a, <3>2 DEF RecorderIInv, FieldsAreKnown
        <4>2. settled'[e] = IF e = d THEN [settled[d] EXCEPT ![f] = v] ELSE settled[e]
          BY <2>2b, <3>1
        <4>q. QED BY <2>2c, <4>1, <4>2
      <3>3. FieldsAreKnown' BY <2>2c, <3>2 DEF FieldsAreKnown
      <3>q. QED BY <2>1, <2>4, <3>1, <3>3, LogsKeep
    <2>q. QED BY <2>2, <2>3, <2>4
  <1>3. ASSUME NEW d \in Documents, Render(d) PROVE RecorderIInv'
    <2>1. /\ table' = [table EXCEPT ![d] = ~@]
          /\ UNCHANGED <<log, value, settled, visited, store, shown, time, watching, synced,
                         read, sawTable>>
      BY <1>3 DEF Render
    <2>2. table' \in [Documents -> BOOLEAN] BY <1>0, <2>1 DEF RecorderTypeOK
    <2>3. RecorderTypeOK' BY <1>0, <2>1, <2>2 DEF RecorderTypeOK
    <2>4. sawTable' => shown' BY <2>1 DEF RecorderIInv
    <2>q. QED BY <2>1, <2>3, <2>4, RestKeeps
  <1>4. CASE TakeStructure
    <2>1. /\ visited' = {}
          /\ UNCHANGED <<log, value, settled, table, store, time, watching, synced, read>>
      BY <1>4 DEF TakeStructure
    <2>2. shown' \in BOOLEAN /\ sawTable' \in BOOLEAN /\ (sawTable' => shown')
      <3>1. shown \in BOOLEAN /\ sawTable \in BOOLEAN /\ (sawTable => shown)
        BY <1>0 DEF RecorderIInv, RecorderTypeOK
      <3>2. CASE UNCHANGED <<shown, sawTable>> BY <3>1, <3>2
      <3>3. ASSUME NEW front \in Documents,
                   shown' = IF table[front] \/ ~shown THEN table[front] ELSE shown,
                   sawTable' = (sawTable \/ table[front])
            PROVE  shown' \in BOOLEAN /\ sawTable' \in BOOLEAN /\ (sawTable' => shown')
        <4>1. table[front] \in BOOLEAN BY <1>0 DEF RecorderTypeOK
        <4>2. CASE table[front] BY <3>1, <3>3, <4>1, <4>2
        <4>3. CASE ~table[front] BY <3>1, <3>3, <4>1, <4>3
        <4>q. QED BY <4>2, <4>3
      <3>q. QED BY <1>4, <3>2, <3>3 DEF TakeStructure
    <2>3. RecorderTypeOK' BY <1>0, <2>1, <2>2 DEF RecorderTypeOK
    <2>q. QED BY <2>1, <2>2, <2>3, RestKeeps
  <1>5. CASE EndDemonstration
    <2>1. /\ watching' \in {"closed", "gave up"}
          /\ UNCHANGED <<log, value, settled, table, visited, store, shown, time, synced, read,
                         sawTable>>
      BY <1>5 DEF EndDemonstration
    <2>2. RecorderTypeOK' BY <1>0, <2>1 DEF RecorderTypeOK
    <2>3. sawTable' => shown' BY <2>1 DEF RecorderIInv
    <2>q. QED BY <2>1, <2>2, <2>3, RestKeeps
  <1>6. CASE UNCHANGED recorderVars
    <2>1. RecorderTypeOK' BY <1>0, <1>6 DEF RecorderTypeOK, recorderVars
    <2>2. sawTable' => shown' BY <1>6 DEF RecorderIInv, recorderVars
    <2>q. QED BY <1>6, <2>1, <2>2, RestKeeps DEF recorderVars
  <1>q. QED
    BY <1>1, <1>2, <1>3, <1>4, <1>5, <1>6, NavigateKeeps, ReadKeeps DEF RecorderNext

LEMMA RecorderInvariant == RecorderSpec => []RecorderIInv
  BY RecorderStarts, RecorderKeeps, PTL DEF RecorderSpec

(* Every variable of a recording has its type. *)
THEOREM RecorderTyped == RecorderSpec => []RecorderTypeOK
  <1>1. RecorderIInv => RecorderTypeOK BY DEF RecorderIInv
  <1>q. QED BY <1>1, RecorderInvariant, PTL

-----------------------------------------------------------------------------
(* A finite set of actions of distinct stamps, put in order: each of them in *)
(* its place.                                                                *)
LEMMA OrderFacts ==
    ASSUME NEW s \in SUBSET Actions, IsFiniteSet(s),
           \A a, b \in s : a.t = b.t => a = b
    PROVE  /\ Cardinality(s) \in Nat
           /\ InOrder(s) \in Seq(s) /\ Len(InOrder(s)) = Cardinality(s)
           /\ \A k \in 1..Cardinality(s) :
                Cardinality({b \in s : b.t < InOrder(s)[k].t}) = k - 1
           /\ \A a \in s : /\ Cardinality({b \in s : b.t < a.t}) + 1 \in 1..Cardinality(s)
                           /\ InOrder(s)[Cardinality({b \in s : b.t < a.t}) + 1] = a
           /\ \A j, k \in 1..Cardinality(s) : j < k => InOrder(s)[j].t < InOrder(s)[k].t
  <1> DEFINE R == {x \in s \X s : x[1].t < x[2].t}
             n == Cardinality(s)
             Below(a) == {b \in s : b.t < a.t}
             At(k) == CHOOSE a \in s : Cardinality(Below(a)) = k - 1
  <1>1. \A a \in s : a.t \in Nat BY DEF Actions
  <1>2. \A a, b \in s : <<a, b>> \in R <=> a.t < b.t OBVIOUS
  <1>3. \A a \in s : Before(a, s, R) = Below(a)
    <2>1. ASSUME NEW a \in s PROVE Before(a, s, R) = Below(a)
      BY <1>2 DEF Before
    <2>q. QED BY <2>1
  <1>4. /\ \A a \in s : <<a, a>> \notin R
        /\ \A a, b \in s : a # b => <<a, b>> \in R \/ <<b, a>> \in R
        /\ \A a, b, c \in s : <<a, b>> \in R /\ <<b, c>> \in R => <<a, c>> \in R
    <2> HIDE DEF R
    <2>1. \A a \in s : <<a, a>> \notin R BY <1>1, <1>2
    <2>2. ASSUME NEW a \in s, NEW b \in s, a # b
          PROVE  <<a, b>> \in R \/ <<b, a>> \in R
      <3>1. a.t \in Nat /\ b.t \in Nat /\ a.t # b.t BY <1>1, <2>2
      <3>2. a.t < b.t \/ b.t < a.t BY <3>1
      <3>q. QED BY <1>2, <3>2
    <2>3. ASSUME NEW a \in s, NEW b \in s, NEW c \in s,
                 <<a, b>> \in R, <<b, c>> \in R
          PROVE  <<a, c>> \in R
      <3>1. a.t \in Nat /\ b.t \in Nat /\ c.t \in Nat BY <1>1
      <3>2. a.t < b.t /\ b.t < c.t BY <1>2, <2>3
      <3>q. QED BY <1>2, <3>1, <3>2
    <2>q. QED BY <2>1, <2>2, <2>3
  <1> HIDE DEF R
  <1>5. /\ n \in Nat
        /\ \A a \in s : Cardinality(Before(a, s, R)) \in 0..(n - 1)
        /\ \A a, b \in s : <<a, b>> \in R =>
             Cardinality(Before(a, s, R)) < Cardinality(Before(b, s, R))
        /\ \A k \in 1..n : \E a \in s : Cardinality(Before(a, s, R)) = k - 1
    BY <1>4, Ranked
  <1>6. /\ \A a \in s : Cardinality(Below(a)) \in 0..(n - 1)
        /\ \A a, b \in s : <<a, b>> \in R => Cardinality(Below(a)) < Cardinality(Below(b))
        /\ \A k \in 1..n : \E a \in s : Cardinality(Below(a)) = k - 1
    BY <1>3, <1>5
  <1>7. \A k \in 1..n : At(k) \in s /\ Cardinality(Below(At(k))) = k - 1
    BY <1>6
  <1>8. InOrder(s) = [k \in 1..n |-> At(k)] BY DEF InOrder
  <1>9. \A a, b \in s : Cardinality(Below(a)) = Cardinality(Below(b)) => a = b
    <2>1. SUFFICES ASSUME NEW a \in s, NEW b \in s, a # b,
                          Cardinality(Below(a)) = Cardinality(Below(b))
                   PROVE  FALSE
      OBVIOUS
    <2>2. <<a, b>> \in R \/ <<b, a>> \in R BY <1>4, <2>1
    <2>3. \/ Cardinality(Below(a)) < Cardinality(Below(b))
          \/ Cardinality(Below(b)) < Cardinality(Below(a))
      BY <1>6, <2>2
    <2>4. Cardinality(Below(a)) \in Int /\ Cardinality(Below(b)) \in Int BY <1>6
    <2>q. QED BY <2>1, <2>3, <2>4
  <1> HIDE DEF At
  <1>10. InOrder(s) \in [1..n -> s] BY <1>7, <1>8
  <1>11. InOrder(s) \in Seq(s) /\ Len(InOrder(s)) = n
    BY <1>5, <1>10, FcnIsSeq
  <1>12. \A k \in 1..n : InOrder(s)[k] = At(k) BY <1>8
  <1>13. ASSUME NEW a \in s
         PROVE  /\ Cardinality(Below(a)) + 1 \in 1..n
                /\ InOrder(s)[Cardinality(Below(a)) + 1] = a
    <2> DEFINE k == Cardinality(Below(a)) + 1
    <2>1. k \in 1..n /\ k - 1 = Cardinality(Below(a)) BY <1>5, <1>6
    <2> HIDE DEF k
    <2>2. At(k) \in s /\ Cardinality(Below(At(k))) = Cardinality(Below(a))
      BY <1>7, <2>1
    <2>3. At(k) = a BY <1>9, <2>2
    <2>4. InOrder(s)[k] = a BY <1>12, <2>1, <2>3
    <2>q. QED BY <2>1, <2>4 DEF k
  <1>14. ASSUME NEW j \in 1..n, NEW k \in 1..n, j < k
         PROVE  InOrder(s)[j].t < InOrder(s)[k].t
    <2>1. /\ At(j) \in s /\ Cardinality(Below(At(j))) = j - 1
          /\ At(k) \in s /\ Cardinality(Below(At(k))) = k - 1
      BY <1>7
    <2>2. <<At(k), At(j)>> \notin R
      <3>1. ~(k - 1 < j - 1) BY <1>5, <1>14
      <3>q. QED BY <1>6, <2>1, <3>1
    <2>3. At(j) # At(k)
      <3>1. j - 1 # k - 1 BY <1>5, <1>14
      <3>q. QED BY <2>1, <3>1
    <2>4. <<At(j), At(k)>> \in R BY <1>4, <2>1, <2>2, <2>3
    <2>5. At(j).t < At(k).t BY <1>2, <2>1, <2>4
    <2>q. QED BY <1>12, <2>5
  <1>15. \A k \in 1..n : Cardinality(Below(InOrder(s)[k])) = k - 1
    BY <1>7, <1>12
  <1>q. QED BY <1>5, <1>11, <1>13, <1>14, <1>15

(* What is written: all of it, or the head and the tail.                     *)
LEMMA MergedFacts ==
    ASSUME NEW s \in SUBSET Actions, IsFiniteSet(s),
           \A a, b \in s : a.t = b.t => a = b
    PROVE  /\ Cardinality(s) \in Nat
           /\ Cardinality(s) <= MaxActions => s \subseteq ToSet(Merged(s))
           /\ \A i \in 2..Len(Merged(s)) : Merged(s)[i - 1].t < Merged(s)[i].t
           /\ \A a \in s :
                Cardinality({b \in s : b.t >= a.t}) <= MaxActions - HeadActions
                  => a \in ToSet(Merged(s))
  <1> DEFINE all == InOrder(s)
             n == Cardinality(s)
             Below(a) == {b \in s : b.t < a.t}
             tail == MaxActions - HeadActions
  <1>0. /\ MaxActions \in Nat /\ HeadActions \in Nat /\ HeadActions < MaxActions
        /\ tail \in Nat
    BY RecorderAssumption
  <1>1. /\ n \in Nat /\ all \in Seq(s) /\ Len(all) = n
        /\ \A a \in s : /\ Cardinality(Below(a)) + 1 \in 1..n
                        /\ all[Cardinality(Below(a)) + 1] = a
        /\ \A j, k \in 1..n : j < k => all[j].t < all[k].t
    BY OrderFacts
  <1> HIDE DEF all
  <1>2. DOMAIN all = 1..n BY <1>1
  <1>3. \A a \in s : a \in ToSet(all) BY <1>1, <1>2 DEF ToSet
  <1>4. CASE n <= MaxActions
    <2>1. Merged(s) = all BY <1>1, <1>4 DEF Merged, all
    <2>2. \A i \in 2..n : all[i - 1].t < all[i].t
      <3>1. ASSUME NEW i \in 2..n PROVE all[i - 1].t < all[i].t
        <4>1. i - 1 \in 1..n /\ i \in 1..n /\ i - 1 < i BY <1>1
        <4>q. QED BY <1>1, <4>1
      <3>q. QED BY <3>1
    <2>q. QED BY <1>1, <1>3, <2>1, <2>2
  <1>5. CASE n > MaxActions
    <2> DEFINE head == SubSeq(all, 1, HeadActions)
               rest == SubSeq(all, n - tail + 1, n)
               m == Merged(s)
    <2>1. m = head \o rest
      <3>1. ~(n <= MaxActions) BY <1>0, <1>1, <1>5
      <3>q. QED BY <1>1, <3>1 DEF Merged, all
    <2>2. /\ head \in Seq(s) /\ Len(head) = HeadActions
          /\ \A i \in 1..HeadActions : head[i] = all[i]
      BY <1>0, <1>1, <1>5
    <2>3. /\ rest \in Seq(s) /\ Len(rest) = tail
          /\ \A i \in 1..tail : rest[i] = all[n - tail + i]
      BY <1>0, <1>1, <1>5
    <2> HIDE DEF head, rest, tail
    <2>4. /\ m \in Seq(s) /\ Len(m) = HeadActions + tail
          /\ \A i \in 1..(HeadActions + tail) :
               m[i] = IF i <= HeadActions THEN head[i] ELSE rest[i - HeadActions]
      <3>1. /\ m \in Seq(s) /\ Len(m) = Len(head) + Len(rest)
            /\ \A i \in 1..(Len(head) + Len(rest)) :
                 m[i] = IF i <= Len(head) THEN head[i] ELSE rest[i - Len(head)]
        <4> DEFINE c == head \o rest
        <4>1. /\ c \in Seq(s) /\ Len(c) = Len(head) + Len(rest)
              /\ \A i \in 1..(Len(head) + Len(rest)) :
                   c[i] = IF i <= Len(head) THEN head[i] ELSE rest[i - Len(head)]
          BY <2>2, <2>3, ConcatProperties
        <4>2. m = c BY <2>1
        <4> HIDE DEF c, m
        <4>q. QED BY <4>1, <4>2
      <3> HIDE DEF m
      <3>q. QED BY <2>2, <2>3, <3>1
    <2> HIDE DEF m
    <2>5. HeadActions + tail < n BY <1>0, <1>1, <1>5 DEF tail
    <2> DEFINE place(i) == IF i <= HeadActions THEN i ELSE n - tail + (i - HeadActions)
    <2>6. ASSUME NEW i \in 1..(HeadActions + tail)
          PROVE  place(i) \in 1..n /\ m[i] = all[place(i)]
      <3>1. CASE i <= HeadActions
        <4>1. i \in 1..HeadActions /\ i \in 1..n BY <1>0, <1>1, <2>5, <3>1
        <4>q. QED BY <2>2, <2>4, <3>1, <4>1
      <3>2. CASE ~(i <= HeadActions)
        <4>1. i - HeadActions \in 1..tail /\ n - tail + (i - HeadActions) \in 1..n
          BY <1>0, <1>1, <2>5, <3>2
        <4>q. QED BY <2>3, <2>4, <3>2, <4>1
      <3>q. QED BY <3>1, <3>2
    <2>7. ASSUME NEW i \in 2..Len(m) PROVE m[i - 1].t < m[i].t
      <3>1. i \in 1..(HeadActions + tail) /\ i - 1 \in 1..(HeadActions + tail)
        BY <1>0, <2>4
      <3>2. place(i - 1) < place(i) BY <1>0, <1>1, <2>5, <3>1
      <3>3. /\ place(i) \in 1..n /\ m[i] = all[place(i)]
            /\ place(i - 1) \in 1..n /\ m[i - 1] = all[place(i - 1)]
        BY <2>6, <3>1
      <3> HIDE DEF place
      <3>q. QED BY <1>1, <3>2, <3>3
    <2>8. ASSUME NEW a \in s, Cardinality({b \in s : b.t >= a.t}) <= tail
          PROVE  a \in ToSet(m)
      <3> DEFINE k == Cardinality(Below(a)) + 1
                 above == {b \in s : b.t >= a.t}
      <3>1. k \in 1..n /\ all[k] = a BY <1>1
      <3>2. Below(a) \in SUBSET s OBVIOUS
      <3>3. above = s \ Below(a)
        <4>1. \A b \in s : b.t \in Nat BY DEF Actions
        <4>2. \A b \in s : b.t >= a.t <=> ~(b.t < a.t) BY <4>1
        <4>q. QED BY <4>2
      <3>4. /\ IsFiniteSet(Below(a)) /\ Cardinality(Below(a)) \in Nat
            /\ Below(a) = s \cap Below(a)
        BY <3>2, FS_Subset, FS_CardinalityType
      <3>5. Cardinality(above) = n - Cardinality(Below(a))
        <4>1. Cardinality(s \ Below(a)) = Cardinality(s) - Cardinality(s \cap Below(a))
          BY FS_Difference
        <4> HIDE DEF Below, above
        <4>q. QED BY <3>3, <3>4, <4>1
      <3>6. n - (k - 1) <= tail
        <4>1. Cardinality(above) <= tail BY <2>8
        <4> HIDE DEF above, Below
        <4>q. QED BY <1>1, <3>4, <3>5, <4>1
      <3> HIDE DEF k
      <3> DEFINE i == k - (n - tail) + HeadActions
      <3>7. i \in 1..(HeadActions + tail) /\ ~(i <= HeadActions)
            /\ place(i) = k
        <4>1. tail \in Nat BY <1>0
        <4>q. QED BY <1>0, <1>1, <2>5, <3>1, <3>6, <4>1
      <3> HIDE DEF i, place
      <3>8. m[i] = a BY <2>6, <3>1, <3>7
      <3>9. i \in DOMAIN m BY <2>4, <3>7
      <3>q. QED BY <3>8, <3>9 DEF ToSet
    <2>q. QED BY <1>0, <1>1, <1>5, <2>7, <2>8 DEF m, tail
  <1>q. QED BY <1>0, <1>1, <1>4, <1>5

(* What is written of a demonstration is true to what the operator did:      *)
(* DemonstrationIsTrue of Recorder, over every interleaving of his actions   *)
(* and the polls.                                                            *)
THEOREM DemonstrationsAreTrue == RecorderSpec => []DemonstrationIsTrue
  <1>1. RecorderIInv => DemonstrationIsTrue
    <2> SUFFICES ASSUME RecorderIInv PROVE DemonstrationIsTrue OBVIOUS
    <2>1. /\ read = store /\ IsFiniteSet(store) /\ (sawTable => shown)
          /\ store \in SUBSET Actions
      BY DEF RecorderIInv, RecorderTypeOK
    <2>2. \A a, b \in store : a.t = b.t => a = b BY DEF RecorderIInv, Kinds
    <2>3. /\ Cardinality(store) <= MaxActions => store \subseteq ToSet(Merged(store))
          /\ \A i \in 2..Len(Merged(store)) : Merged(store)[i - 1].t < Merged(store)[i].t
          /\ \A a \in store :
               Cardinality({b \in store : b.t >= a.t}) <= MaxActions - HeadActions
                 => a \in ToSet(Merged(store))
      BY <2>1, <2>2, MergedFacts
    <2>4. ASSUME NEW d \in synced, NEW f \in Fields, value[d][f] # Unset,
                 Len(log[d]) < MaxLog \/ value[d][f] = settled[d][f]
          PROVE  \E a \in store :
                   /\ a.doc = d /\ a.what = f /\ a.entry = value[d][f]
                   /\ \A b \in store : b.doc = d /\ b.what = f => b.t <= a.t
      <3>1. d \in Documents BY DEF RecorderIInv, RecorderTypeOK
      <3>1a. settled[d][f] = value[d][f]
        BY <2>4, <3>1 DEF RecorderIInv, FieldsAreKnown
      <3>2. PICK a \in ToSet(log[d]) :
              /\ a.what = f /\ a.entry = settled[d][f]
              /\ \A b \in ToSet(log[d]) \cup store :
                   b.doc = d /\ b.what = f => b.t <= a.t
        BY <2>4, <3>1, <3>1a DEF RecorderIInv, LastSet
      <3>3. a \in store /\ a.doc = d BY <3>1 DEF RecorderIInv
      <3>q. QED BY <3>1a, <3>2, <3>3
    <2>q. QED BY <2>1, <2>3, <2>4 DEF DemonstrationIsTrue
  <1>q. QED BY <1>1, RecorderInvariant, PTL

-----------------------------------------------------------------------------
(* The portal: whatever happens in it is a step of one part and leaves the   *)
(* others alone.                                                             *)

LEMMA PortalStarts ==
    Init => /\ ProfileInit /\ SignInInit /\ BankInit /\ RecorderInit /\ WatchdogInit
  BY DEF Init

LEMMA PortalSteps ==
    [Next]_portalVars =>
        /\ [ProfileNext]_profileVars /\ [SignInNext]_signInVars
        /\ [BankNext]_bankVars /\ [RecorderNext]_recorderVars
        /\ [WatchdogNext]_watchdogVars
  BY DEF Next, portalVars

LEMMA PortalParts ==
    Spec => ProfileSpec /\ SignInSpec /\ BankSpec /\ RecorderSpec /\ WatchdogSpec
  BY PortalStarts, PortalSteps, PTL
     DEF Spec, ProfileSpec, SignInSpec, BankSpec, RecorderSpec, WatchdogSpec

(* Every variable of every part has its type. *)
THEOREM PortalTyped == Spec => []PortalTypeOK
  BY PortalParts, ProfileTyped, SignInTyped, BankTyped, RecorderTyped,
     WatchdogTyped, PTL DEF PortalTypeOK
=============================================================================
