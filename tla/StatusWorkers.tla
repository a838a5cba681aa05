--------------------------- MODULE StatusWorkers ----------------------------
(***************************************************************************)
(* The errands that wait for the operator in a process of their own, and   *)
(* report through a status file the server polls: a demonstration of a     *)
(* portal (core/tools/demo_worker.py) and a Gmail consent (core/tools/     *)
(* oauth_consent_worker.py), with their start and status tools in          *)
(* interfaces/mcp_tools.py, and delete_inbox, which meets a consent. One   *)
(* source or inbox: each has a file and a process of its own.              *)
(*                                                                         *)
(* A worker is named by the order of the spawns. A tool is cut where it    *)
(* reads or writes what another can change.                                *)
(***************************************************************************)
EXTENDS Naturals, FiniteSets

CONSTANTS
    Clients,     \* server threads
    MaxSpawns,   \* bound on the workers
    MaxReboots   \* bound on the restarts of the server

Errands == 1..MaxSpawns

ASSUME StatusAssumption == MaxSpawns \in Nat /\ MaxReboots \in Nat

VARIABLES
    kind,     \* which of the two errands this is; it never changes
    \* the disk
    known,    \* the source or inbox is in the registry
    kept,     \* the worker whose demonstration or token is on disk, or 0
    report,   \* the status file
    \* the server
    proc,     \* _DEMO_PROCS or _CONSENT_PROCS: a worker, or 0
    meta,     \* _DEMO_META or _CONSENT_META has an entry
    tool,     \* the tool each thread is in
    reboots,
    errand,   \* of each worker, how far it is; workers outlive the server
    met,      \* observer: two workers, or two calls, were at it at once
    stray     \* observer: the workers that lived while the inbox was deleted

statusVars == <<kind, known, kept, report, proc, meta, tool, reboots, errand,
                met, stray>>
serverSide == <<proc, meta, tool, reboots>>

Report == {"none", "running", "completed", "failed"}
AtRest == [pc |-> "rest"]

(* `late` (observer): no worker was alive when the call began. *)
Tools == [pc : {"clear", "spawn", "proc", "meta"}, worker : 0..MaxSpawns]
           \cup [pc : {"forget", "unlink", "remove", "pop"}]
           \cup [pc : {"file", "poll", "tidy"}, worker : Errands,
                 meta : BOOLEAN, payload : Report, late : BOOLEAN]

StatusTypeOK ==
    /\ kind \in {"demo", "consent"}
    /\ known \in BOOLEAN /\ kept \in 0..MaxSpawns /\ report \in Report
    /\ proc \in 0..MaxSpawns /\ meta \in BOOLEAN
    /\ tool \in [Clients -> Tools \cup {AtRest}]
    /\ reboots \in 0..MaxReboots
    /\ errand \in [Errands -> {"none", "new", "waiting", "stored", "done",
                               "failed"}]
    /\ met \in BOOLEAN /\ stray \subseteq Errands

StatusInit ==
    /\ kind \in {"demo", "consent"}
    /\ known = TRUE /\ kept = 0 /\ report = "none"
    /\ proc = 0 /\ meta = FALSE
    /\ tool = [t \in Clients |-> AtRest] /\ reboots = 0
    /\ errand = [w \in Errands |-> "none"]
    /\ met = FALSE /\ stray = {}

-----------------------------------------------------------------------------
Working(w) == errand[w] \in {"new", "waiting", "stored"}
Someone == \E w \in Errands : Working(w)

IsStatus(c) == c.pc \in {"file", "poll", "tidy"}
IsDelete(c) == c.pc \in {"forget", "unlink", "remove", "pop"}

(* Two status calls of a demonstration do not disturb each other: neither    *)
(* deletes the file.                                                         *)
Disturbs(c, d) ==
    c # AtRest /\ d # AtRest
      /\ ~(kind = "demo" /\ IsStatus(c) /\ IsStatus(d))

Takes(t, c) ==
    /\ tool[t] = AtRest
    /\ tool' = [tool EXCEPT ![t] = c]
    /\ met' = (met \/ \E u \in Clients : Disturbs(tool[u], c))
    /\ UNCHANGED <<kind, known, kept, report, proc, meta, reboots, errand,
                   stray>>

Moves(t, pc) == tool' = [tool EXCEPT ![t].pc = pc]
Answers(t) == tool' = [tool EXCEPT ![t] = AtRest]

-----------------------------------------------------------------------------
(* start_demo, start_gmail_consent. *)
Start(t) ==
    /\ known /\ (proc # 0 => ~Working(proc))
    /\ Takes(t, [pc |-> "clear", worker |-> 0])

(* Mutant: the worker will write the file anew anyway. *)
ClearNothing(t) ==
    /\ tool[t].pc = "clear"
    /\ met' = (met \/ Someone)
    /\ Moves(t, "spawn")
    /\ UNCHANGED <<kind, known, kept, report, proc, meta, reboots, errand,
                   stray>>

Clear(t) ==
    /\ tool[t].pc = "clear"
    /\ report' = "none"
    /\ met' = (met \/ Someone)
    /\ Moves(t, "spawn")
    /\ UNCHANGED <<kind, known, kept, proc, meta, reboots, errand, stray>>

Spawn(t) ==
    /\ tool[t].pc = "spawn"
    /\ \E w \in Errands :
         /\ errand[w] = "none" /\ \A v \in 1..(w - 1) : errand[v] # "none"
         /\ errand' = [errand EXCEPT ![w] = "new"]
         /\ tool' = [tool EXCEPT ![t].pc = "proc", ![t].worker = w]
         /\ stray' = IF known /\ \A u \in Clients : ~IsDelete(tool[u])
                     THEN stray ELSE stray \cup {w}
    /\ met' = (met \/ Someone)
    /\ UNCHANGED <<kind, known, kept, report, proc, meta, reboots>>

StoreProc(t) ==
    /\ tool[t].pc = "proc"
    /\ proc' = tool[t].worker
    /\ Moves(t, "meta")
    /\ UNCHANGED <<kind, known, kept, report, meta, reboots, errand, met, stray>>

StoreMeta(t) ==
    /\ tool[t].pc = "meta"
    /\ meta' = TRUE
    /\ Answers(t)
    /\ UNCHANGED <<kind, known, kept, report, proc, reboots, errand, met, stray>>

-----------------------------------------------------------------------------
(* demo_status, gmail_consent_status, while the server knows of a worker:    *)
(* the file is read before the process is polled.                            *)
Status(t) ==
    /\ proc # 0
    /\ Takes(t, [pc |-> "file", worker |-> proc, meta |-> meta,
                 payload |-> "none", late |-> ~Someone])

(* Without a meta dict the path is ".", and reading it fails. *)
ReadReport(t) ==
    /\ tool[t].pc = "file"
    /\ tool' = [tool EXCEPT ![t].pc = "poll",
                  ![t].payload = IF tool[t].meta THEN report ELSE "none"]
    /\ UNCHANGED <<kind, known, kept, report, proc, meta, reboots, errand, met,
                   stray>>

Poll(t) ==
    /\ tool[t].pc = "poll"
    /\ IF Working(tool[t].worker) THEN Answers(t) /\ UNCHANGED proc
       ELSE proc' = 0 /\ Moves(t, "tidy")
    /\ UNCHANGED <<kind, known, kept, report, meta, reboots, errand, met, stray>>

(* "completed" if that is what the file said, else "failed". A consent's     *)
(* file is deleted; of a completed demonstration the URL goes to the         *)
(* registry (ServiceManifest.update, see Registry).                          *)
Tidy(t) ==
    /\ tool[t].pc = "tidy"
    /\ report' = IF kind = "consent" /\ tool[t].meta THEN "none" ELSE report
    /\ Answers(t)
    /\ UNCHANGED <<kind, known, kept, proc, meta, reboots, errand, met, stray>>

-----------------------------------------------------------------------------
(* delete_inbox, and add_inbox, which gives out the same key again. *)
Delete(t) == kind = "consent" /\ known /\ Takes(t, [pc |-> "forget"])

(* Mutant: the token is left for a later sign-in. *)
DropNoToken(t) ==
    /\ tool[t].pc = "forget"
    /\ stray' = stray \cup {w \in Errands : Working(w)}
    /\ Moves(t, "unlink")
    /\ UNCHANGED <<kind, known, kept, report, proc, meta, reboots, errand, met>>

DropToken(t) ==
    /\ tool[t].pc = "forget"
    /\ kept' = 0
    /\ stray' = stray \cup {w \in Errands : Working(w)}
    /\ Moves(t, "unlink")
    /\ UNCHANGED <<kind, known, report, proc, meta, reboots, errand, met>>

Unlink(t) ==
    /\ tool[t].pc = "unlink"
    /\ report' = "none"
    /\ Moves(t, "remove")
    /\ UNCHANGED <<kind, known, kept, proc, meta, reboots, errand, met, stray>>

Remove(t) ==
    /\ tool[t].pc = "remove"
    /\ known' = FALSE
    /\ Moves(t, "pop")
    /\ UNCHANGED <<kind, kept, report, proc, meta, reboots, errand, met, stray>>

(* The consent process is forgotten, not ended. *)
PopProc(t) ==
    /\ tool[t].pc = "pop"
    /\ proc' = 0 /\ meta' = FALSE
    /\ Answers(t)
    /\ UNCHANGED <<kind, known, kept, report, reboots, errand, met, stray>>

AddAgain ==
    /\ kind = "consent" /\ ~known /\ known' = TRUE
    /\ UNCHANGED <<kind, kept, report, serverSide, errand, met, stray>>

-----------------------------------------------------------------------------
(* The worker: `run` of either module. *)
Turns(w, from, to, text) ==
    /\ errand[w] \in from
    /\ errand' = [errand EXCEPT ![w] = to]
    /\ report' = text
    /\ UNCHANGED <<kind, known, serverSide, met, stray>>

Opens(w) == Turns(w, {"new"}, "waiting", "running") /\ UNCHANGED kept

(* The operator has allowed it, or closed the window: what was captured is   *)
(* stored, before the file says so.                                          *)
Stores(w) == Turns(w, {"waiting"}, "stored", report) /\ kept' = w

Completes(w) == Turns(w, {"stored"}, "done", "completed") /\ UNCHANGED kept

Fails(w) == Turns(w, {"waiting"}, "failed", "failed") /\ UNCHANGED kept

(* Killed, it leaves the file as it is. *)
Dies(w) ==
    Turns(w, {"new", "waiting", "stored"}, "failed", report) /\ UNCHANGED kept

-----------------------------------------------------------------------------
(* The app goes down and comes back: memory is lost, workers live on. *)
Reboot ==
    /\ reboots < MaxReboots /\ reboots' = reboots + 1
    /\ proc' = 0 /\ meta' = FALSE
    /\ tool' = [t \in Clients |-> AtRest]
    /\ UNCHANGED <<kind, known, kept, report, errand, met, stray>>

ToolStep(t) ==
    \/ Start(t) \/ Clear(t) \/ Spawn(t) \/ StoreProc(t) \/ StoreMeta(t)
    \/ Status(t) \/ ReadReport(t) \/ Poll(t) \/ Tidy(t)
    \/ Delete(t) \/ DropToken(t) \/ Unlink(t) \/ Remove(t) \/ PopProc(t)

ErrandStep(w) ==
    Opens(w) \/ Stores(w) \/ Completes(w) \/ Fails(w) \/ Dies(w)

StatusNext ==
    \/ \E t \in Clients : ToolStep(t)
    \/ \E w \in Errands : ErrandStep(w)
    \/ AddAgain
    \/ Reboot

StatusSpec == StatusInit /\ [][StatusNext]_statusVars

-----------------------------------------------------------------------------
(* A status call that begins after the worker has ended tells how it ended:  *)
(* neither what an earlier worker left in the file they share, nor the order *)
(* of reading and polling, is taken for it. Not so once two workers, or      *)
(* calls that disturb each other, have met: a second poller finds the file   *)
(* of a consent deleted, and an orphan of an earlier server writes into it.  *)
LateAnswerIsTrue ==
    [][\A t \in Clients :
         tool[t].pc = "tidy" /\ tool'[t] = AtRest /\ reboots' = reboots
           /\ tool[t].late /\ ~met
           => (tool[t].payload = "completed"
                 <=> errand[tool[t].worker] = "done")]_statusVars

(* The vault does not keep the token of an inbox that is gone: whoever adds  *)
(* one later gets the same key, and would be signed in as the last one was.  *)
(* A consent that was under way during the deletion is the exception.        *)
NoStrayToken ==
    kind = "consent" /\ kept # 0 /\ kept \notin stray => known
=============================================================================
