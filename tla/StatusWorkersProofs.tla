------------------------ MODULE StatusWorkersProofs ------------------------
(***************************************************************************)
(* Theorems about StatusWorkers, for any number of server threads, workers *)
(* and restarts.                                                           *)
(*                                                                         *)
(* LateAnswerIsTrue: until two workers, or two calls that disturb each     *)
(* other, have met, the file is about the worker the server knows: it was  *)
(* removed before that worker was spawned, nobody else writes to it, and   *)
(* nobody removes it while the server knows of that worker. A call that    *)
(* finds no worker alive holds this fast until it answers.                 *)
(***************************************************************************)
EXTENDS StatusWorkers, TLAPS

(* What the file says agrees with how the worker ended. *)
Tells(w) == report = "completed" <=> errand[w] = "done"
OnlyWorks(w) == \A v \in Errands : Working(v) => v = w

Undisturbed == \A t, u \in Clients : t # u => ~Disturbs(tool[t], tool[u])

OneWorks == \A v \in Errands : Working(v) => OnlyWorks(v)

(* A thread within start_. *)
Starting(c) ==
    /\ c.pc = "spawn" => ~Someone /\ report = "none"
    /\ c.pc \in {"proc", "meta"} =>
         c.worker \in Errands /\ Tells(c.worker) /\ OnlyWorks(c.worker)
    /\ c.pc = "meta" => proc = c.worker

(* The worker the server knows, while no thread starts or deletes one. *)
Tracked ==
    proc # 0 /\ (\A t \in Clients : tool[t] = AtRest \/ IsStatus(tool[t]))
      => meta /\ Tells(proc) /\ OnlyWorks(proc)

(* A thread within _status. *)
Asking(c) ==
    /\ kind = "consent" /\ c.pc = "tidy" => proc = 0
    /\ IsStatus(c) /\ c.late =>
         /\ ~Someone
         /\ c.pc = "file" => c.meta /\ Tells(c.worker)
         /\ c.pc \in {"poll", "tidy"} =>
              (c.payload = "completed" <=> errand[c.worker] = "done")

Believed ==
    /\ Undisturbed /\ OneWorks /\ Tracked
    /\ \A t \in Clients : Starting(tool[t]) /\ Asking(tool[t])

ReportInv == ~met => Believed

(* Whoever could store a token of an inbox that is being deleted, or is      *)
(* gone, was under way during the deletion.                                  *)
Gone ==
    /\ kind = "consent"
    /\ ~known \/ \E t \in Clients : tool[t].pc \in {"unlink", "remove"}

Accounted ==
    /\ \A w \in Errands : Working(w) => w \in stray
    /\ kept # 0 => kept \in stray

TokenInv == Gone => Accounted

-----------------------------------------------------------------------------
(* A thread is at rest, or in a tool that has the fields its place needs. *)
LEMMA ToolFields ==
    ASSUME NEW c \in Tools \cup {AtRest}
    PROVE  /\ c # AtRest <=> c.pc # "rest"
           /\ c # AtRest => c \in Tools
           /\ c.pc \in {"clear", "spawn", "proc", "meta"} =>
                c \in [pc : {"clear", "spawn", "proc", "meta"},
                       worker : 0..MaxSpawns]
           /\ c.pc \in {"forget", "unlink", "remove", "pop"} =>
                c \in [pc : {"forget", "unlink", "remove", "pop"}]
           /\ IsStatus(c) =>
                c \in [pc : {"file", "poll", "tidy"}, worker : Errands,
                       meta : BOOLEAN, payload : Report, late : BOOLEAN]
BY DEF Tools, AtRest, IsStatus

(* A thread that moves on, or rests, leaves the others where they are. *)
LEMMA OneMoves ==
    ASSUME StatusTypeOK, NEW t \in Clients, NEW next \in Tools \cup {AtRest},
           tool' = [tool EXCEPT ![t] = next]
    PROVE  /\ tool' \in [Clients -> Tools \cup {AtRest}]
           /\ tool'[t] = next
           /\ \A u \in Clients \ {t} : tool'[u] = tool[u]
BY DEF StatusTypeOK

LEMMA Zero == 0 \in 0..MaxSpawns /\ 0 \in 0..MaxReboots
BY StatusAssumption

LEMMA TypeInit == StatusInit => StatusTypeOK
<1> SUFFICES ASSUME StatusInit PROVE StatusTypeOK
  OBVIOUS
<1>1. tool \in [Clients -> Tools \cup {AtRest}]
  BY DEF StatusInit
<1>2. errand \in [Errands -> {"none", "new", "waiting", "stored", "done", "failed"}]
  BY DEF StatusInit
<1> QED
  BY <1>1, <1>2, Zero DEF StatusInit, StatusTypeOK, Report

LEMMA TypeStep == StatusTypeOK /\ [StatusNext]_statusVars => StatusTypeOK'
<1> SUFFICES ASSUME StatusTypeOK, [StatusNext]_statusVars PROVE StatusTypeOK'
  OBVIOUS
<1>0. \A t \in Clients : tool[t] \in Tools \cup {AtRest}
  BY DEF StatusTypeOK
<1>1. ASSUME NEW t \in Clients, Start(t) PROVE StatusTypeOK'
  <2> DEFINE next == [pc |-> "clear", worker |-> 0]
  <2>1. next \in Tools
    BY StatusAssumption DEF Tools
  <2>2. tool' = [tool EXCEPT ![t] = next] /\ met' \in BOOLEAN
    BY <1>1 DEF Start, Takes, StatusTypeOK
  <2> HIDE DEF next
  <2>3. tool' \in [Clients -> Tools \cup {AtRest}]
    BY <2>1, <2>2, OneMoves
  <2> QED
    BY <1>1, <2>2, <2>3 DEF Start, Takes, StatusTypeOK
<1>2. ASSUME NEW t \in Clients, Clear(t) PROVE StatusTypeOK'
  <2> DEFINE next == [tool[t] EXCEPT !.pc = "spawn"]
  <2>1. next \in Tools
    BY <1>0, <1>2, ToolFields DEF Clear, Tools
  <2>2. tool' = [tool EXCEPT ![t] = next] /\ met' \in BOOLEAN
    BY <1>2 DEF Clear, Moves, StatusTypeOK, Someone
  <2> HIDE DEF next
  <2>3. tool' \in [Clients -> Tools \cup {AtRest}]
    BY <2>1, <2>2, OneMoves
  <2> QED
    BY <1>2, <2>2, <2>3 DEF Clear, StatusTypeOK, Report
<1>3. ASSUME NEW t \in Clients, Spawn(t) PROVE StatusTypeOK'
  <2>1. PICK w \in Errands :
          /\ errand' = [errand EXCEPT ![w] = "new"]
          /\ tool' = [tool EXCEPT ![t].pc = "proc", ![t].worker = w]
          /\ stray' = IF known /\ \A u \in Clients : ~IsDelete(tool[u])
                      THEN stray ELSE stray \cup {w}
    BY <1>3 DEF Spawn
  <2> DEFINE next == [tool[t] EXCEPT !.pc = "proc", !.worker = w]
  <2>2. next \in Tools
    <3>1. w \in 0..MaxSpawns
      BY StatusAssumption DEF Errands
    <3>2. tool[t] \in [pc : {"clear", "spawn", "proc", "meta"}, worker : 0..MaxSpawns]
      BY <1>0, <1>3, ToolFields DEF Spawn
    <3> QED
      BY <3>1, <3>2 DEF Tools
  <2>3. tool' = [tool EXCEPT ![t] = next] /\ met' \in BOOLEAN
    BY <1>3, <2>1 DEF Spawn, StatusTypeOK, Someone
  <2>4. stray' \subseteq Errands
    BY <2>1 DEF StatusTypeOK
  <2>5. errand' \in [Errands -> {"none", "new", "waiting", "stored", "done", "failed"}]
    BY <2>1 DEF StatusTypeOK
  <2> HIDE DEF next
  <2>6. tool' \in [Clients -> Tools \cup {AtRest}]
    BY <2>2, <2>3, OneMoves
  <2> QED
    BY <1>3, <2>3, <2>4, <2>5, <2>6 DEF Spawn, StatusTypeOK
<1>4. ASSUME NEW t \in Clients, StoreProc(t) PROVE StatusTypeOK'
  <2> DEFINE next == [tool[t] EXCEPT !.pc = "meta"]
  <2>1. next \in Tools /\ tool[t].worker \in 0..MaxSpawns
    BY <1>0, <1>4, ToolFields DEF StoreProc, Tools
  <2>2. tool' = [tool EXCEPT ![t] = next]
    BY <1>4 DEF StoreProc, Moves
  <2> HIDE DEF next
  <2>3. tool' \in [Clients -> Tools \cup {AtRest}]
    BY <2>1, <2>2, OneMoves
  <2> QED
    BY <1>4, <2>1, <2>3 DEF StoreProc, StatusTypeOK
<1>5. ASSUME NEW t \in Clients, StoreMeta(t) PROVE StatusTypeOK'
  BY <1>5 DEF StoreMeta, Answers, StatusTypeOK
<1>6. ASSUME NEW t \in Clients, Status(t) PROVE StatusTypeOK'
  <2> DEFINE next == [pc |-> "file", worker |-> proc, meta |-> meta,
                      payload |-> "none", late |-> ~Someone]
  <2>1. next \in Tools
    <3>1. proc \in Errands /\ meta \in BOOLEAN /\ (~Someone) \in BOOLEAN
      BY <1>6, StatusAssumption DEF Status, StatusTypeOK, Errands, Someone
    <3> QED
      BY <3>1 DEF Tools, Report
  <2>2. tool' = [tool EXCEPT ![t] = next] /\ met' \in BOOLEAN
    BY <1>6 DEF Status, Takes, StatusTypeOK
  <2> HIDE DEF next
  <2>3. tool' \in [Clients -> Tools \cup {AtRest}]
    BY <2>1, <2>2, OneMoves
  <2> QED
    BY <1>6, <2>2, <2>3 DEF Status, Takes, StatusTypeOK
<1>7. ASSUME NEW t \in Clients, ReadReport(t) PROVE StatusTypeOK'
  <2> DEFINE text == IF tool[t].meta THEN report ELSE "none"
             next == [tool[t] EXCEPT !.pc = "poll", !.payload = text]
  <2>1. text \in Report
    BY DEF StatusTypeOK, Report
  <2>2. tool' = [tool EXCEPT ![t] = next]
    BY <1>7 DEF ReadReport
  <2> HIDE DEF text
  <2>3. next \in Tools
    BY <1>0, <1>7, <2>1, ToolFields DEF ReadReport, IsStatus, Tools
  <2> HIDE DEF next
  <2>4. tool' \in [Clients -> Tools \cup {AtRest}]
    BY <2>2, <2>3, OneMoves
  <2> QED
    BY <1>7, <2>4 DEF ReadReport, StatusTypeOK
<1>8. ASSUME NEW t \in Clients, Poll(t) PROVE StatusTypeOK'
  <2> DEFINE next == [tool[t] EXCEPT !.pc = "tidy"]
  <2>1. next \in Tools
    BY <1>0, <1>8, ToolFields DEF Poll, IsStatus, Tools
  <2>2. tool' = [tool EXCEPT ![t] = next] \/ tool' = [tool EXCEPT ![t] = AtRest]
    BY <1>8 DEF Poll, Moves, Answers
  <2>3. proc' \in 0..MaxSpawns
    BY <1>8, StatusAssumption DEF Poll, StatusTypeOK
  <2> HIDE DEF next
  <2>4. tool' \in [Clients -> Tools \cup {AtRest}]
    BY <2>1, <2>2, OneMoves
  <2> QED
    BY <1>8, <2>3, <2>4 DEF Poll, StatusTypeOK
<1>9. ASSUME NEW t \in Clients, Tidy(t) PROVE StatusTypeOK'
  <2>1. report' \in Report
    BY <1>9 DEF Tidy, StatusTypeOK, Report
  <2> QED
    BY <1>9, <2>1 DEF Tidy, Answers, StatusTypeOK
<1>10. ASSUME NEW t \in Clients, Delete(t) PROVE StatusTypeOK'
  <2> DEFINE next == [pc |-> "forget"]
  <2>1. next \in Tools
    BY DEF Tools
  <2>2. tool' = [tool EXCEPT ![t] = next] /\ met' \in BOOLEAN
    BY <1>10 DEF Delete, Takes, StatusTypeOK
  <2> HIDE DEF next
  <2>3. tool' \in [Clients -> Tools \cup {AtRest}]
    BY <2>1, <2>2, OneMoves
  <2> QED
    BY <1>10, <2>2, <2>3 DEF Delete, Takes, StatusTypeOK
<1>11. ASSUME NEW t \in Clients, DropToken(t) \/ Unlink(t) \/ Remove(t)
       PROVE  StatusTypeOK'
  <2>1. PICK pc \in {"unlink", "remove", "pop"} :
          tool' = [tool EXCEPT ![t] = [tool[t] EXCEPT !.pc = pc]]
    BY <1>11 DEF DropToken, Unlink, Remove, Moves
  <2>2. [tool[t] EXCEPT !.pc = pc] \in Tools
    BY <1>0, <1>11, ToolFields DEF DropToken, Unlink, Remove, Tools
  <2>3. tool' \in [Clients -> Tools \cup {AtRest}]
    BY <2>1, <2>2, OneMoves
  <2>4. kept' \in 0..MaxSpawns /\ stray' \subseteq Errands
    BY <1>11, Zero DEF DropToken, Unlink, Remove, StatusTypeOK
  <2>5. report' \in Report /\ known' \in BOOLEAN
    BY <1>11 DEF DropToken, Unlink, Remove, StatusTypeOK, Report
  <2> QED
    BY <1>11, <2>3, <2>4, <2>5 DEF DropToken, Unlink, Remove, StatusTypeOK
<1>12. ASSUME NEW t \in Clients, PopProc(t) PROVE StatusTypeOK'
  <2>1. proc' \in 0..MaxSpawns
    BY <1>12, StatusAssumption DEF PopProc
  <2> QED
    BY <1>12, <2>1 DEF PopProc, Answers, StatusTypeOK
<1>13. ASSUME NEW w \in Errands, ErrandStep(w) PROVE StatusTypeOK'
  <2>1. w \in 0..MaxSpawns
    BY StatusAssumption DEF Errands
  <2> QED
    BY <1>13, <2>1 DEF ErrandStep, Opens, Stores, Completes, Fails, Dies, Turns,
       serverSide, StatusTypeOK, Report
<1>14. CASE AddAgain
  BY <1>14 DEF AddAgain, serverSide, StatusTypeOK
<1>15. CASE Reboot
  <2>1. reboots' \in 0..MaxReboots
    BY <1>15, StatusAssumption DEF Reboot, StatusTypeOK
  <2>2. tool' \in [Clients -> Tools \cup {AtRest}]
    BY <1>15 DEF Reboot
  <2> QED
    BY <1>15, <2>1, <2>2, Zero DEF Reboot, StatusTypeOK
<1>16. CASE UNCHANGED statusVars
  BY <1>16 DEF statusVars, StatusTypeOK
<1> QED
  BY <1>1, <1>2, <1>3, <1>4, <1>5, <1>6, <1>7, <1>8, <1>9, <1>10, <1>11, <1>12,
     <1>13, <1>14, <1>15, <1>16 DEF StatusNext, ToolStep

(* Every variable of the workers' tools keeps its type. *)
THEOREM StatusTyped == StatusSpec => []StatusTypeOK
BY TypeInit, TypeStep, PTL DEF StatusSpec

-----------------------------------------------------------------------------
LEMMA TokenStep ==
    StatusTypeOK /\ TokenInv /\ [StatusNext]_statusVars => TokenInv'
<1> SUFFICES ASSUME StatusTypeOK, TokenInv, [StatusNext]_statusVars, Gone'
             PROVE  Accounted'
  BY DEF TokenInv
<1>0. \A t \in Clients : tool[t] \in Tools \cup {AtRest}
  BY DEF StatusTypeOK
<1>1. ASSUME NEW t \in Clients, Spawn(t) PROVE Accounted'
  <2>1. PICK w \in Errands :
          /\ errand' = [errand EXCEPT ![w] = "new"]
          /\ stray' = IF known /\ \A u \in Clients : ~IsDelete(tool[u])
                      THEN stray ELSE stray \cup {w}
    BY <1>1 DEF Spawn
  <2>2. Gone
    BY <1>0, <1>1 DEF Gone, Spawn, StatusTypeOK
  <2>3. w \in stray' /\ stray \subseteq stray'
    BY <2>1, <2>2 DEF Gone, IsDelete
  <2> QED
    BY <1>1, <2>1, <2>2, <2>3 DEF Spawn, TokenInv, Accounted, Working, StatusTypeOK
<1>2. ASSUME NEW t \in Clients, DropToken(t) PROVE Accounted'
  BY <1>2 DEF DropToken, Accounted, Working
<1>3. ASSUME NEW t \in Clients,
             \/ Start(t) \/ Clear(t) \/ StoreProc(t) \/ StoreMeta(t) \/ Status(t)
             \/ ReadReport(t) \/ Poll(t) \/ Tidy(t) \/ Delete(t) \/ Unlink(t)
             \/ Remove(t) \/ PopProc(t)
      PROVE  Accounted'
  <2>1. errand' = errand /\ kept' = kept /\ stray' = stray
    BY <1>3 DEF Start, Clear, StoreProc, StoreMeta, Status, ReadReport, Poll,
       Tidy, Delete, Unlink, Remove, PopProc, Takes
  <2>2. Gone
    <3>1. tool'[t].pc \in {"unlink", "remove"} => tool[t].pc \in {"unlink", "remove"}
      <4>1. CASE Unlink(t) \/ Remove(t)
        BY <4>1 DEF Unlink, Remove
      <4>2. CASE Start(t) \/ Status(t) \/ Delete(t)
        BY <4>2 DEF Start, Status, Delete, Takes, StatusTypeOK
      <4>3. CASE Clear(t) \/ StoreProc(t) \/ ReadReport(t)
        <5>1. tool'[t].pc \in {"spawn", "meta", "poll"}
          BY <1>0, <4>3, ToolFields DEF Clear, StoreProc, ReadReport, IsStatus,
             Moves, StatusTypeOK
        <5> QED
          BY <5>1
      <4>4. CASE Poll(t)
        BY <1>0, <4>4, ToolFields DEF Poll, IsStatus, Moves, Answers, AtRest,
           StatusTypeOK
      <4>5. CASE StoreMeta(t) \/ Tidy(t) \/ PopProc(t)
        BY <4>5 DEF StoreMeta, Tidy, PopProc, Answers, AtRest, StatusTypeOK
      <4> QED
        BY <1>3, <4>1, <4>2, <4>3, <4>4, <4>5
    <3>2. \A u \in Clients \ {t} : tool'[u] = tool[u]
      BY <1>3 DEF Start, Clear, StoreProc, StoreMeta, Status, ReadReport, Poll,
         Tidy, Delete, Unlink, Remove, PopProc, Takes, Moves, Answers, StatusTypeOK
    <3>3. kind' = kind /\ (known' = known \/ Remove(t))
      BY <1>3 DEF Start, Clear, StoreProc, StoreMeta, Status, ReadReport, Poll,
         Tidy, Delete, Unlink, Remove, PopProc, Takes
    <3>4. Remove(t) => tool[t].pc = "remove"
      BY DEF Remove
    <3> QED
      BY <3>1, <3>2, <3>3, <3>4 DEF Gone
  <2> QED
    BY <2>1, <2>2 DEF TokenInv, Accounted, Working
<1>4. ASSUME NEW w \in Errands, ErrandStep(w) PROVE Accounted'
  <2>1. Gone /\ stray' = stray /\ Working(w)
    BY <1>4 DEF Gone, ErrandStep, Opens, Stores, Completes, Fails, Dies, Turns,
       serverSide, Working
  <2>2. \A v \in Errands : Working(v)' => Working(v)
    BY <1>4 DEF ErrandStep, Opens, Stores, Completes, Fails, Dies, Turns, Working,
       StatusTypeOK
  <2>3. kept' = kept \/ kept' = w
    BY <1>4 DEF ErrandStep, Opens, Stores, Completes, Fails, Dies
  <2> QED
    BY <2>1, <2>2, <2>3 DEF TokenInv, Accounted
<1>5. CASE AddAgain
  BY <1>5 DEF AddAgain, serverSide, Gone, TokenInv, Accounted, Working
<1>6. CASE Reboot
  <2>1. Gone
    BY <1>6 DEF Reboot, Gone, AtRest
  <2> QED
    BY <1>6, <2>1 DEF Reboot, TokenInv, Accounted, Working
<1>7. CASE UNCHANGED statusVars
  BY <1>7 DEF statusVars, Gone, TokenInv, Accounted, Working
<1> QED
  BY <1>1, <1>2, <1>3, <1>4, <1>5, <1>6, <1>7 DEF StatusNext, ToolStep

(* The vault does not keep the token of an inbox that is gone, unless its    *)
(* consent was under way while the inbox was deleted (delete_inbox).         *)
THEOREM TokensGoWithInbox == StatusSpec => []NoStrayToken
<1>1. StatusInit => TokenInv
  BY DEF StatusInit, TokenInv, Gone, AtRest
<1>2. TokenInv => NoStrayToken
  BY DEF TokenInv, Gone, Accounted, NoStrayToken
<1> QED
  BY <1>1, <1>2, TokenStep, StatusTyped, PTL DEF StatusSpec

-----------------------------------------------------------------------------
(* While nobody is disturbed, a thread that is not asking is on its own. *)
LEMMA Alone ==
    ASSUME StatusTypeOK, Undisturbed, NEW t \in Clients, tool[t] # AtRest,
           kind = "consent" \/ ~IsStatus(tool[t])
    PROVE  \A u \in Clients \ {t} : tool[u] = AtRest
BY DEF Undisturbed, Disturbs, StatusTypeOK

(* What is left to show of a step after which one thread at most is at work. *)
LEMMA Solo ==
    ASSUME NEW t \in Clients, \A u \in Clients \ {t} : tool'[u] = AtRest,
           OneWorks', Tracked', Starting(tool[t])', Asking(tool[t])'
    PROVE  Believed'
<1>1. Undisturbed'
  BY DEF Undisturbed, Disturbs
<1>2. \A u \in Clients \ {t} : Starting(tool[u])' /\ Asking(tool[u])'
  BY DEF Starting, Asking, IsStatus, AtRest
<1> QED
  BY <1>1, <1>2 DEF Believed

(* A call that disturbs nobody began while the others were at rest, or, of a *)
(* demonstration's status, while they asked for it too.                      *)
LEMMA TakenUndisturbed ==
    ASSUME StatusTypeOK, NEW t \in Clients, NEW c, c # AtRest, Takes(t, c), ~met'
    PROVE  /\ ~met
           /\ \A u \in Clients : tool[u] = AtRest
                \/ (kind = "demo" /\ IsStatus(c) /\ IsStatus(tool[u]))
BY DEF Takes, Disturbs, StatusTypeOK

LEMMA ReportStep ==
    StatusTypeOK /\ StatusTypeOK' /\ ReportInv /\ [StatusNext]_statusVars
      => ReportInv'
<1> SUFFICES ASSUME StatusTypeOK, StatusTypeOK', ReportInv,
                    [StatusNext]_statusVars, ~met'
             PROVE  Believed'
  BY DEF ReportInv
<1>0. \A t \in Clients : tool[t] \in Tools \cup {AtRest}
  BY DEF StatusTypeOK
<1>1. ASSUME NEW t \in Clients, Start(t) PROVE Believed'
  <2> DEFINE c == [pc |-> "clear", worker |-> 0]
  <2>1. c # AtRest /\ ~IsStatus(c) /\ Takes(t, c)
    BY <1>1 DEF AtRest, IsStatus, Start
  <2> HIDE DEF c
  <2>2. ~met /\ \A u \in Clients : tool[u] = AtRest
    BY <2>1, TakenUndisturbed
  <2>3. /\ tool'[t] = c /\ \A u \in Clients \ {t} : tool'[u] = AtRest
        /\ UNCHANGED <<kind, report, proc, meta, errand>>
    BY <2>1, <2>2 DEF Takes, StatusTypeOK
  <2>4. Starting(tool[t])' /\ Asking(tool[t])' /\ Tracked'
    BY <2>1, <2>3 DEF c, Starting, Asking, IsStatus, Tracked
  <2>5. OneWorks'
    BY <2>2, <2>3 DEF ReportInv, Believed, OneWorks, OnlyWorks, Working
  <2> QED
    BY <2>3, <2>4, <2>5, Solo
<1>2. ASSUME NEW t \in Clients, Clear(t) PROVE Believed'
  <2>1. ~Someone /\ Believed /\ tool[t] # AtRest /\ ~IsStatus(tool[t])
    <3>1. ~met /\ ~Someone
      BY <1>2 DEF Clear
    <3>2. tool[t] # AtRest /\ ~IsStatus(tool[t])
      BY <1>2 DEF Clear, AtRest, IsStatus
    <3> QED
      BY <3>1, <3>2 DEF ReportInv
  <2>2. \A u \in Clients \ {t} : tool[u] = AtRest
    BY <2>1, Alone DEF Believed
  <2>3. /\ tool'[t].pc = "spawn" /\ \A u \in Clients \ {t} : tool'[u] = AtRest
        /\ report' = "none" /\ errand' = errand
    BY <1>0, <1>2, <2>2, ToolFields DEF Clear, Moves, StatusTypeOK
  <2>4. Starting(tool[t])' /\ Asking(tool[t])' /\ Tracked'
    BY <2>1, <2>3 DEF Starting, Asking, IsStatus, Tracked, Someone, Working, AtRest
  <2>5. OneWorks'
    BY <2>1, <2>3 DEF Believed, OneWorks, OnlyWorks, Working
  <2> QED
    BY <2>3, <2>4, <2>5, Solo
<1>3. ASSUME NEW t \in Clients, Spawn(t) PROVE Believed'
  <2>1. ~Someone /\ Believed /\ tool[t] # AtRest /\ ~IsStatus(tool[t])
    <3>1. ~met /\ ~Someone
      BY <1>3 DEF Spawn
    <3>2. tool[t] # AtRest /\ ~IsStatus(tool[t])
      BY <1>3 DEF Spawn, AtRest, IsStatus
    <3> QED
      BY <3>1, <3>2 DEF ReportInv
  <2>2. \A u \in Clients \ {t} : tool[u] = AtRest
    BY <2>1, Alone DEF Believed
  <2>3. PICK w \in Errands :
          /\ errand' = [errand EXCEPT ![w] = "new"]
          /\ tool' = [tool EXCEPT ![t].pc = "proc", ![t].worker = w]
    BY <1>3 DEF Spawn
  <2>4. /\ tool'[t].pc = "proc" /\ tool'[t].worker = w
        /\ \A u \in Clients \ {t} : tool'[u] = AtRest
    BY <1>0, <1>3, <2>2, <2>3, ToolFields DEF Spawn, StatusTypeOK
  <2>5. report = "none" /\ report' = report
    BY <1>3, <2>1 DEF Spawn, Believed, Starting
  <2>6. errand'[w] = "new" /\ \A v \in Errands : Working(v)' => v = w
    BY <2>1, <2>3 DEF Someone, Working, StatusTypeOK
  <2>7. Starting(tool[t])' /\ Asking(tool[t])' /\ Tracked'
    BY <2>4, <2>5, <2>6 DEF Starting, Asking, IsStatus, Tracked, Tells, OnlyWorks,
       AtRest
  <2>8. OneWorks'
    BY <2>6 DEF OneWorks, OnlyWorks
  <2> QED
    BY <2>4, <2>7, <2>8, Solo
<1>4. ASSUME NEW t \in Clients, StoreProc(t) PROVE Believed'
  <2>1. Believed /\ tool[t] # AtRest /\ ~IsStatus(tool[t])
    BY <1>4 DEF StoreProc, ReportInv, AtRest, IsStatus
  <2>2. \A u \in Clients \ {t} : tool[u] = AtRest
    BY <2>1, Alone DEF Believed
  <2>3. /\ tool'[t].pc = "meta" /\ tool'[t].worker = tool[t].worker
        /\ \A u \in Clients \ {t} : tool'[u] = AtRest
        /\ proc' = tool[t].worker /\ report' = report /\ errand' = errand
    BY <1>0, <1>4, <2>2, ToolFields DEF StoreProc, Moves, StatusTypeOK
  <2>4. tool[t].worker \in Errands /\ Tells(tool[t].worker) /\ OnlyWorks(tool[t].worker)
    BY <1>4, <2>1 DEF StoreProc, Believed, Starting
  <2>5. Starting(tool[t])' /\ Asking(tool[t])' /\ Tracked'
    BY <2>3, <2>4 DEF Starting, Asking, IsStatus, Tracked, Tells, OnlyWorks,
       Working, AtRest
  <2>6. OneWorks'
    BY <2>1, <2>3 DEF Believed, OneWorks, OnlyWorks, Working
  <2> QED
    BY <2>3, <2>5, <2>6, Solo
<1>5. ASSUME NEW t \in Clients, StoreMeta(t) PROVE Believed'
  <2>1. Believed /\ tool[t] # AtRest /\ ~IsStatus(tool[t])
    BY <1>5 DEF StoreMeta, ReportInv, AtRest, IsStatus
  <2>2. \A u \in Clients \ {t} : tool[u] = AtRest
    BY <2>1, Alone DEF Believed
  <2>3. /\ tool'[t] = AtRest /\ \A u \in Clients \ {t} : tool'[u] = AtRest
        /\ meta' = TRUE /\ UNCHANGED <<proc, report, errand>>
    BY <1>5, <2>2 DEF StoreMeta, Answers, StatusTypeOK
  <2>4. proc = tool[t].worker /\ Tells(proc) /\ OnlyWorks(proc)
    BY <1>5, <2>1 DEF StoreMeta, Believed, Starting
  <2>5. Tracked' /\ OneWorks'
    BY <2>1, <2>3, <2>4 DEF Tracked, Tells, Believed, OneWorks, OnlyWorks, Working
  <2>6. Starting(tool[t])' /\ Asking(tool[t])'
    BY <2>3 DEF Starting, Asking, IsStatus, AtRest
  <2> QED
    BY <2>3, <2>5, <2>6, Solo
<1>6. ASSUME NEW t \in Clients, Status(t) PROVE Believed'
  <2> DEFINE c == [pc |-> "file", worker |-> proc, meta |-> meta,
                   payload |-> "none", late |-> ~Someone]
  <2>1. c # AtRest /\ IsStatus(c) /\ Takes(t, c) /\ proc # 0
    BY <1>6 DEF AtRest, IsStatus, Status
  <2>2. /\ c.pc = "file" /\ c.worker = proc /\ c.meta = meta
        /\ c.late <=> ~Someone
    BY DEF Someone
  <2> HIDE DEF c
  <2>3. Believed /\ \A u \in Clients : tool[u] = AtRest
                      \/ (kind = "demo" /\ IsStatus(tool[u]))
    BY <2>1, TakenUndisturbed DEF ReportInv
  <2>4. /\ tool'[t] = c /\ \A u \in Clients \ {t} : tool'[u] = tool[u]
        /\ UNCHANGED <<kind, report, proc, meta, errand>>
    BY <2>1 DEF Takes, StatusTypeOK
  <2>5. meta /\ Tells(proc) /\ OnlyWorks(proc)
    BY <2>1, <2>3 DEF Believed, Tracked
  <2>6. Undisturbed'
    BY <2>1, <2>3, <2>4 DEF Undisturbed, Disturbs
  <2>7. OneWorks' /\ Tracked'
    BY <2>3, <2>4, <2>5 DEF Believed, OneWorks, OnlyWorks, Working, Tracked, Tells
  <2>8. Starting(tool[t])' /\ Asking(tool[t])'
    BY <2>2, <2>4, <2>5 DEF Starting, Asking, Someone, Working, Tells
  <2>9. \A u \in Clients \ {t} : Starting(tool[u])' /\ Asking(tool[u])'
    BY <2>3, <2>4 DEF Believed, Starting, Asking, Someone, Working, Tells, OnlyWorks
  <2> QED
    BY <2>6, <2>7, <2>8, <2>9 DEF Believed
<1>7. ASSUME NEW t \in Clients, ReadReport(t) PROVE Believed'
  <2>1. Believed /\ IsStatus(tool[t])
    BY <1>7 DEF ReadReport, ReportInv, IsStatus
  <2>2. /\ tool'[t].pc = "poll" /\ IsStatus(tool'[t])
        /\ tool'[t].worker = tool[t].worker /\ tool'[t].late = tool[t].late
        /\ tool'[t].payload = IF tool[t].meta THEN report ELSE "none"
        /\ \A u \in Clients \ {t} : tool'[u] = tool[u]
    BY <1>0, <1>7, <2>1, ToolFields DEF ReadReport, IsStatus, StatusTypeOK
  <2>3. UNCHANGED <<kind, report, proc, meta, errand>>
    BY <1>7 DEF ReadReport
  <2>4. tool[t] # AtRest /\ tool'[t] # AtRest
    <3>1. tool[t].pc # "rest" /\ tool'[t].pc # "rest"
      BY <1>7, <2>2 DEF ReadReport
    <3> QED
      BY <3>1 DEF AtRest
  <2>5. Undisturbed'
    BY <2>1, <2>2, <2>3, <2>4 DEF Believed, Undisturbed, Disturbs
  <2>6. OneWorks' /\ Tracked'
    BY <2>1, <2>2, <2>3 DEF Believed, OneWorks, OnlyWorks, Working, Tracked, Tells
  <2>7. Starting(tool[t])' /\ Asking(tool[t])'
    BY <1>7, <2>1, <2>2, <2>3 DEF ReadReport, Believed, Starting, Asking, Someone,
       Working, Tells
  <2>8. \A u \in Clients \ {t} : Starting(tool[u])' /\ Asking(tool[u])'
    BY <2>1, <2>2, <2>3 DEF Believed, Starting, Asking, Someone, Working, Tells,
       OnlyWorks
  <2> QED
    BY <2>5, <2>6, <2>7, <2>8 DEF Believed
<1>8. ASSUME NEW t \in Clients, Poll(t) PROVE Believed'
  <2>1. Believed /\ IsStatus(tool[t]) /\ tool[t] # AtRest
    BY <1>8 DEF Poll, ReportInv, IsStatus, AtRest
  <2>2. \A u \in Clients \ {t} : tool'[u] = tool[u]
    BY <1>8 DEF Poll, Moves, Answers, StatusTypeOK
  <2>3. UNCHANGED <<kind, report, meta, errand>>
    BY <1>8 DEF Poll
  <2>4. \A u \in Clients \ {t} :
          tool[u] = AtRest \/ (kind = "demo" /\ IsStatus(tool[u]))
    BY <2>1 DEF Believed, Undisturbed, Disturbs
  <2>5. OneWorks'
    BY <2>1, <2>3 DEF Believed, OneWorks, OnlyWorks, Working
  <2>6. CASE tool'[t] = AtRest /\ proc' = proc
    <3>1. Undisturbed'
      BY <2>1, <2>2, <2>3, <2>6 DEF Believed, Undisturbed, Disturbs
    <3>2. Tracked'
      BY <2>1, <2>2, <2>3, <2>4, <2>6 DEF Believed, Tracked, Tells, OnlyWorks, Working
    <3>3. Starting(tool[t])' /\ Asking(tool[t])'
      BY <2>6 DEF Starting, Asking, IsStatus, AtRest
    <3>4. \A u \in Clients \ {t} : Starting(tool[u])' /\ Asking(tool[u])'
      BY <2>1, <2>2, <2>3, <2>6 DEF Believed, Starting, Asking, Someone, Working,
         Tells, OnlyWorks
    <3> QED
      BY <2>5, <3>1, <3>2, <3>3, <3>4 DEF Believed
  <2>7. CASE Moves(t, "tidy") /\ proc' = 0
    <3>1. /\ tool'[t].pc = "tidy" /\ IsStatus(tool'[t]) /\ tool'[t] # AtRest
          /\ tool'[t].late = tool[t].late /\ tool'[t].worker = tool[t].worker
          /\ tool'[t].payload = tool[t].payload
      BY <1>0, <2>1, <2>7, ToolFields DEF Moves, IsStatus, AtRest, StatusTypeOK
    <3>2. Undisturbed'
      BY <2>1, <2>2, <2>3, <3>1 DEF Believed, Undisturbed, Disturbs
    <3>3. Tracked'
      BY <2>7 DEF Tracked
    <3>4. Starting(tool[t])' /\ Asking(tool[t])'
      BY <1>8, <2>1, <2>3, <2>7, <3>1 DEF Poll, Believed, Starting, Asking, Someone,
         Working
    <3>5. \A u \in Clients \ {t} : Starting(tool[u])'
      BY <2>2, <2>4 DEF Starting, IsStatus, AtRest
    <3>6. \A u \in Clients \ {t} : Asking(tool[u])'
      BY <2>1, <2>2, <2>3, <2>7 DEF Believed, Asking, Someone, Working, Tells
    <3> QED
      BY <2>5, <3>2, <3>3, <3>4, <3>5, <3>6 DEF Believed
  <2> QED
    BY <1>8, <2>6, <2>7 DEF Poll, Answers, StatusTypeOK
<1>9. ASSUME NEW t \in Clients, Tidy(t) PROVE Believed'
  <2>1. Believed /\ IsStatus(tool[t]) /\ tool[t] # AtRest
    BY <1>9 DEF Tidy, ReportInv, IsStatus, AtRest
  <2>2. tool'[t] = AtRest /\ \A u \in Clients \ {t} : tool'[u] = tool[u]
    BY <1>9 DEF Tidy, Answers, StatusTypeOK
  <2>3. UNCHANGED <<kind, proc, meta, errand>>
    BY <1>9 DEF Tidy
  <2>4. OneWorks'
    BY <2>1, <2>3 DEF Believed, OneWorks, OnlyWorks, Working
  <2>5. Starting(tool[t])' /\ Asking(tool[t])'
    BY <2>2 DEF Starting, Asking, IsStatus, AtRest
  <2>6. CASE kind = "consent"
    <3>1. \A u \in Clients \ {t} : tool'[u] = AtRest
      BY <2>1, <2>2, <2>6, Alone DEF Believed
    <3>2. Tracked'
      BY <1>9, <2>1, <2>3, <2>6 DEF Tidy, Believed, Asking, Tracked
    <3> QED
      BY <2>4, <2>5, <3>1, <3>2, Solo
  <2>7. CASE kind # "consent"
    <3>1. report' = report
      BY <1>9, <2>7 DEF Tidy
    <3>2. Undisturbed'
      BY <2>1, <2>2, <2>3 DEF Believed, Undisturbed, Disturbs
    <3>3. Tracked'
      BY <2>1, <2>2, <2>3, <3>1 DEF Believed, Tracked, Tells, OnlyWorks, Working
    <3>4. \A u \in Clients \ {t} : Starting(tool[u])' /\ Asking(tool[u])'
      BY <2>1, <2>2, <2>3, <3>1 DEF Believed, Starting, Asking, Someone, Working,
         Tells, OnlyWorks
    <3> QED
      BY <2>4, <2>5, <3>2, <3>3, <3>4 DEF Believed
  <2> QED
    BY <2>6, <2>7
<1>10. ASSUME NEW t \in Clients, Delete(t) PROVE Believed'
  <2> DEFINE c == [pc |-> "forget"]
  <2>1. c # AtRest /\ ~IsStatus(c) /\ Takes(t, c)
    BY <1>10 DEF AtRest, IsStatus, Delete
  <2> HIDE DEF c
  <2>2. ~met /\ \A u \in Clients : tool[u] = AtRest
    BY <2>1, TakenUndisturbed
  <2>3. /\ tool'[t] = c /\ \A u \in Clients \ {t} : tool'[u] = AtRest
        /\ UNCHANGED <<kind, report, proc, meta, errand>>
    BY <2>1, <2>2 DEF Takes, StatusTypeOK
  <2>4. Starting(tool[t])' /\ Asking(tool[t])' /\ Tracked'
    BY <2>1, <2>3 DEF c, Starting, Asking, IsStatus, Tracked
  <2>5. OneWorks'
    BY <2>2, <2>3 DEF ReportInv, Believed, OneWorks, OnlyWorks, Working
  <2> QED
    BY <2>3, <2>4, <2>5, Solo
<1>11. ASSUME NEW t \in Clients, DropToken(t) \/ Unlink(t) \/ Remove(t)
       PROVE  Believed'
  <2>1. Believed /\ tool[t] # AtRest /\ ~IsStatus(tool[t]) /\ IsDelete(tool[t])
    BY <1>11 DEF DropToken, Unlink, Remove, ReportInv, AtRest, IsStatus, IsDelete
  <2>2. \A u \in Clients \ {t} : tool[u] = AtRest
    BY <2>1, Alone DEF Believed
  <2>3. PICK pc \in {"unlink", "remove", "pop"} :
          tool' = [tool EXCEPT ![t] = [tool[t] EXCEPT !.pc = pc]]
    BY <1>11 DEF DropToken, Unlink, Remove, Moves
  <2>4. tool'[t].pc = pc /\ \A u \in Clients \ {t} : tool'[u] = AtRest
    BY <1>0, <2>1, <2>2, <2>3, ToolFields DEF IsDelete, StatusTypeOK
  <2>5. errand' = errand
    BY <1>11 DEF DropToken, Unlink, Remove
  <2>6. Starting(tool[t])' /\ Asking(tool[t])' /\ Tracked'
    BY <2>4 DEF Starting, Asking, IsStatus, Tracked, AtRest
  <2>7. OneWorks'
    BY <2>1, <2>5 DEF Believed, OneWorks, OnlyWorks, Working
  <2> QED
    BY <2>4, <2>6, <2>7, Solo
<1>12. ASSUME NEW t \in Clients, PopProc(t) PROVE Believed'
  <2>1. Believed /\ tool[t] # AtRest /\ ~IsStatus(tool[t])
    BY <1>12 DEF PopProc, ReportInv, AtRest, IsStatus
  <2>2. \A u \in Clients \ {t} : tool[u] = AtRest
    BY <2>1, Alone DEF Believed
  <2>3. /\ tool'[t] = AtRest /\ \A u \in Clients \ {t} : tool'[u] = AtRest
        /\ proc' = 0 /\ errand' = errand
    BY <1>12, <2>2 DEF PopProc, Answers, StatusTypeOK
  <2>4. Starting(tool[t])' /\ Asking(tool[t])' /\ Tracked'
    BY <2>3 DEF Starting, Asking, IsStatus, Tracked, AtRest
  <2>5. OneWorks'
    BY <2>1, <2>3 DEF Believed, OneWorks, OnlyWorks, Working
  <2> QED
    BY <2>3, <2>4, <2>5, Solo
<1>13. ASSUME NEW w \in Errands, ErrandStep(w) PROVE Believed'
  <2>1. /\ UNCHANGED <<kind, proc, meta, tool, met>>
        /\ Working(w)
    BY <1>13 DEF ErrandStep, Opens, Stores, Completes, Fails, Dies, Turns,
       serverSide, Working
  <2>2. Believed /\ Someone
    BY <2>1 DEF ReportInv, Someone
  <2>3. \A v \in Errands : Working(v)' => Working(v)
    BY <1>13 DEF ErrandStep, Opens, Stores, Completes, Fails, Dies, Turns, Working,
       StatusTypeOK
  <2>4. Tells(w) => Tells(w)'
    BY <1>13 DEF ErrandStep, Opens, Stores, Completes, Fails, Dies, Turns, Tells,
       StatusTypeOK
  <2>5. \A v \in Errands : OnlyWorks(v) => v = w /\ OnlyWorks(v)'
    BY <2>1, <2>3 DEF OnlyWorks
  <2>6. Undisturbed' /\ OneWorks'
    BY <2>1, <2>2, <2>3 DEF Believed, Undisturbed, Disturbs, OneWorks, OnlyWorks
  <2>7. Tracked'
    <3>1. proc # 0 => proc \in Errands
      BY DEF StatusTypeOK, Errands
    <3> QED
      BY <2>1, <2>2, <2>4, <2>5, <3>1 DEF Believed, Tracked
  <2>8. \A t \in Clients : Starting(tool[t])'
    BY <2>1, <2>2, <2>4, <2>5 DEF Believed, Starting
  <2>9. \A t \in Clients : Asking(tool[t])'
    BY <2>1, <2>2 DEF Believed, Asking
  <2> QED
    BY <2>6, <2>7, <2>8, <2>9 DEF Believed
<1>14. CASE AddAgain \/ UNCHANGED statusVars
  <2>1. UNCHANGED <<kind, report, proc, meta, tool, errand, met>>
    BY <1>14 DEF AddAgain, serverSide, statusVars
  <2>2. Believed
    BY <2>1 DEF ReportInv
  <2> QED
    BY <2>1, <2>2 DEF Believed, Undisturbed, Disturbs, OneWorks, OnlyWorks, Working,
       Tracked, Tells, Starting, Asking, Someone
<1>15. CASE Reboot
  <2>1. /\ \A t \in Clients : tool'[t] = AtRest
        /\ proc' = 0 /\ errand' = errand /\ met' = met
    BY <1>15 DEF Reboot
  <2>2. Undisturbed' /\ Tracked'
    BY <2>1 DEF Undisturbed, Disturbs, Tracked
  <2>3. OneWorks'
    BY <2>1 DEF ReportInv, Believed, OneWorks, OnlyWorks, Working
  <2>4. \A t \in Clients : Starting(tool[t])' /\ Asking(tool[t])'
    BY <2>1 DEF Starting, Asking, IsStatus, AtRest
  <2> QED
    BY <2>2, <2>3, <2>4 DEF Believed
<1> QED
  BY <1>1, <1>2, <1>3, <1>4, <1>5, <1>6, <1>7, <1>8, <1>9, <1>10, <1>11, <1>12,
     <1>13, <1>14, <1>15 DEF StatusNext, ToolStep

(* A status call (demo_status, gmail_consent_status) that begins after the   *)
(* worker has ended tells how it ended, as long as no two workers and no two *)
(* calls that disturb each other have met.                                   *)
THEOREM LateAnswersTrue == StatusSpec => LateAnswerIsTrue
<1> DEFINE Answer(t) ==
      tool[t].pc = "tidy" /\ tool'[t] = AtRest /\ reboots' = reboots
        /\ tool[t].late /\ ~met
        => (tool[t].payload = "completed" <=> errand[tool[t].worker] = "done")
           Answered == \A t \in Clients : Answer(t)
<1>1. StatusInit => ReportInv
  <2> SUFFICES ASSUME StatusInit PROVE Believed
    BY DEF ReportInv
  <2>1. Undisturbed /\ OneWorks /\ Tracked
    BY DEF StatusInit, Undisturbed, Disturbs, OneWorks, Working, Tracked
  <2>2. \A t \in Clients : Starting(tool[t]) /\ Asking(tool[t])
    BY DEF StatusInit, Starting, Asking, IsStatus, AtRest
  <2> QED
    BY <2>1, <2>2 DEF Believed
<1>2. ReportInv => Answered
  BY DEF ReportInv, Believed, Asking, IsStatus
<1>3. ReportInv /\ [StatusNext]_statusVars => [Answered]_statusVars
  BY <1>2
<1> HIDE DEF Answered
<1>4. StatusSpec => [][Answered]_statusVars
  BY <1>1, <1>3, ReportStep, StatusTyped, PTL DEF StatusSpec
<1> QED
  BY <1>4 DEF Answered, LateAnswerIsTrue
=============================================================================
