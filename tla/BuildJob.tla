------------------------------ MODULE BuildJob ------------------------------
(***************************************************************************)
(* The life of a background code-generation build: the server's tools      *)
(* start_build, build_status and stop_build (interfaces/mcp_tools.py), the *)
(* worker process they spawn (orchestration/build_worker.py) with its      *)
(* watchdog thread, and the append-only run file the two sides share.      *)
(* What builds do to the code the server runs is in LiveCode.              *)
(*                                                                         *)
(* Every REST call of a tool runs on a thread of the server's pool         *)
(* (rest_server.call_tool), so a tool is cut into one action per access to *)
(* the state it shares: the dictionaries _BUILD_PROCS and _BUILD_META, the *)
(* run file, and the exit code of the worker.                              *)
(*                                                                         *)
(* An operator whose comment begins with "Mutant" is no part of the model: *)
(* it is the definition that follows it with a plausible bug in it.        *)
(***************************************************************************)
EXTENDS Naturals

CONSTANTS
    Keys,        \* source keys
    Workers,     \* build processes; each is spawned at most once (a bound)
    Starters,    \* server threads that call start_build
    Pollers,     \* server threads that call build_status
    Stoppers,    \* server threads that call stop_build
    NoWorker,    \* "None", for a process or a meta dict
    MaxNow,      \* bound on the clock that stamps run files, in seconds
    MaxRestarts  \* bound on the restarts of the server

ASSUME BuildAssumption ==
    /\ Keys # {} /\ NoWorker \notin Workers
    /\ MaxNow \in Nat /\ MaxRestarts \in Nat

VARIABLES
    \* the server process: lost on a restart
    procs,      \* _BUILD_PROCS
    metas,      \* _BUILD_META: the worker whose meta dict is stored
    reloaded,   \* meta["reloaded"], of each worker's meta dict
    start,      \* the threads inside start_build
    poll,       \* the threads inside build_status, and their last reply
    stop,       \* the threads inside stop_build
    restarts,
    \* the disk: survives a restart
    files,      \* the run files, named by source and second
    \* the worker processes: they survive a restart of the server
    main,       \* where run() is in each worker
    dog,        \* the watchdog thread of each worker
    exit,       \* the exit code, "none" until the process is gone
    sigkill,    \* SIGKILL was sent
    wkey, wfile, \* --source-key and --run-file of each worker
    ok,         \* verification.ok of the build's result
    now,
    \* observer: builds for which stop_build has answered "Stopped."
    stopped

worker == <<main, dog, exit, sigkill, wkey, wfile, ok>>
vars == <<procs, metas, reloaded, start, poll, stop, restarts, files, worker,
          now, stopped>>

File == Keys \X (0..MaxNow)
Maybe == Workers \cup {NoWorker}

Starting == [pc : {"idle", "spawn", "proc", "meta"}, key : Keys, w : Maybe]
Polling == [pc : {"idle", "meta", "file", "poll"}, key : Keys,
            proc : Maybe, meta : Maybe, result : Maybe, failure : BOOLEAN,
            status : {"none", "idle", "running", "failed", "completed"},
            passed : BOOLEAN,
            \* observers: the process was gone when the call read it, the build
            \* stopped when the call read its meta dict
            gone : BOOLEAN, late : BOOLEAN]
Stopping == [pc : {"idle", "meta", "poll", "wait", "append"}, key : Keys,
             proc : Maybe, meta : Maybe]

(* Every variable holds a value of its kind: threads and workers are where   *)
(* the handlers and run() can be, dictionaries map to processes.             *)
TypeOK ==
    /\ procs \in [Keys -> Maybe] /\ metas \in [Keys -> Maybe]
    /\ reloaded \in [Workers -> BOOLEAN]
    /\ start \in [Starters -> Starting]
    /\ poll \in [Pollers -> Polling]
    /\ stop \in [Stoppers -> Stopping]
    /\ restarts \in 0..MaxRestarts
    /\ files \in [File -> [result : Maybe, failure : BOOLEAN]]
    /\ main \in [Workers -> {"unborn", "importing", "working", "returned",
                             "raised", "disarming", "reporting", "reported",
                             "gone"}]
    /\ dog \in [Workers -> {"off", "watching", "fired", "told"}]
    /\ exit \in [Workers -> {"none", "0", "1", "2", "signal"}]
    /\ sigkill \in [Workers -> BOOLEAN]
    /\ wkey \in [Workers -> Keys] /\ wfile \in [Workers -> File]
    /\ ok \in [Workers -> BOOLEAN]
    /\ now \in 0..MaxNow
    /\ stopped \in SUBSET Workers

-----------------------------------------------------------------------------
Live(w) == main[w] \notin {"unborn", "gone"}

(* poll() returned a code. *)
Gone(w) == w # NoWorker /\ main[w] = "gone"

(* The process executes instructions of its own. *)
Runs(w) == Live(w) /\ ~sigkill[w]

(* Threads that are in no call. *)
AnyKey == CHOOSE k \in Keys : TRUE
Idle == [pc |-> "idle", key |-> AnyKey, w |-> NoWorker]
NoPoll == [pc |-> "idle", key |-> AnyKey, proc |-> NoWorker, meta |-> NoWorker,
           result |-> NoWorker, failure |-> FALSE, status |-> "none",
           passed |-> FALSE, gone |-> FALSE, late |-> FALSE]
NoStop == [pc |-> "idle", key |-> AnyKey, proc |-> NoWorker, meta |-> NoWorker]

Init ==
    /\ procs = [k \in Keys |-> NoWorker]
    /\ metas = [k \in Keys |-> NoWorker]
    /\ reloaded = [w \in Workers |-> FALSE]
    /\ start = [t \in Starters |-> Idle]
    /\ poll = [t \in Pollers |-> NoPoll]
    /\ stop = [t \in Stoppers |-> NoStop]
    /\ restarts = 0
    /\ files = [f \in File |-> [result |-> NoWorker, failure |-> FALSE]]
    /\ main = [w \in Workers |-> "unborn"]
    /\ dog = [w \in Workers |-> "off"]
    /\ exit = [w \in Workers |-> "none"]
    /\ sigkill = [w \in Workers |-> FALSE]
    /\ wkey = [w \in Workers |-> AnyKey]
    /\ wfile = [w \in Workers |-> <<AnyKey, 0>>]
    /\ ok = [w \in Workers |-> FALSE]
    /\ now = 0
    /\ stopped = {}

-----------------------------------------------------------------------------
(* start_build: check, spawn, store the process, store the meta dict. *)

(* Mutant: only the dictionary is asked, not the process. *)
StartCheckUnpolled(t, k) ==
    /\ start[t].pc = "idle"
    /\ start' = [start EXCEPT ![t] = [pc |-> "spawn", key |-> k, w |-> NoWorker]]
    /\ UNCHANGED <<procs, metas, reloaded, poll, stop, restarts, files, worker,
                   now, stopped>>

(* "existing and existing.poll() is None" raises ToolError. *)
StartCheck(t, k) ==
    /\ start[t].pc = "idle"
    /\ procs[k] # NoWorker => Gone(procs[k])
    /\ start' = [start EXCEPT ![t] = [pc |-> "spawn", key |-> k, w |-> NoWorker]]
    /\ UNCHANGED <<procs, metas, reloaded, poll, stop, restarts, files, worker,
                   now, stopped>>

(* touch() keeps the lines of a run file that already exists. *)
StartSpawn(t, w) ==
    /\ start[t].pc = "spawn"
    /\ main[w] = "unborn"
    /\ main' = [main EXCEPT ![w] = "importing"]
    /\ wkey' = [wkey EXCEPT ![w] = start[t].key]
    /\ wfile' = [wfile EXCEPT ![w] = <<start[t].key, now>>]
    /\ start' = [start EXCEPT ![t].pc = "proc", ![t].w = w]
    /\ UNCHANGED <<procs, metas, reloaded, poll, stop, restarts, files, dog,
                   exit, sigkill, ok, now, stopped>>

StartStoreProc(t) ==
    /\ start[t].pc = "proc"
    /\ procs' = [procs EXCEPT ![start[t].key] = start[t].w]
    /\ start' = [start EXCEPT ![t].pc = "meta"]
    /\ UNCHANGED <<metas, reloaded, poll, stop, restarts, files, worker, now,
                   stopped>>

(* Mutant: the key is stored where the meta dict belongs. *)
StartStoreKey(t) ==
    /\ start[t].pc = "meta"
    /\ metas' = [metas EXCEPT ![start[t].key] = start[t].key]
    /\ start' = [start EXCEPT ![t] = Idle]
    /\ UNCHANGED <<procs, reloaded, poll, stop, restarts, files, worker, now,
                   stopped>>

(* Mutant: setdefault, which keeps the meta dict of an earlier build. *)
StartSetDefaultMeta(t) ==
    /\ start[t].pc = "meta"
    /\ metas' = IF metas[start[t].key] # NoWorker THEN metas
                ELSE [metas EXCEPT ![start[t].key] = start[t].w]
    /\ start' = [start EXCEPT ![t] = Idle]
    /\ UNCHANGED <<procs, reloaded, poll, stop, restarts, files, worker, now,
                   stopped>>

StartStoreMeta(t) ==
    /\ start[t].pc = "meta"
    /\ metas' = [metas EXCEPT ![start[t].key] = start[t].w]
    /\ start' = [start EXCEPT ![t] = Idle]
    /\ UNCHANGED <<procs, reloaded, poll, stop, restarts, files, worker, now,
                   stopped>>

-----------------------------------------------------------------------------
(* The worker process: run() on its main thread. *)

Arm(w) ==
    /\ Runs(w) /\ main[w] = "importing"
    /\ main' = [main EXCEPT ![w] = "working"]
    /\ dog' = [dog EXCEPT ![w] = "watching"]
    /\ UNCHANGED <<procs, metas, reloaded, start, poll, stop, restarts, files,
                   exit, sigkill, wkey, wfile, ok, now, stopped>>

(* The workflow ended as `to` says. *)
WorkflowEnds(w, to) ==
    /\ Runs(w) /\ main[w] = "working"
    /\ main' = [main EXCEPT ![w] = to]
    /\ UNCHANGED <<procs, metas, reloaded, start, poll, stop, restarts, files,
                   dog, exit, sigkill, wkey, wfile, now, stopped>>

(* It returned; its verification passed, or refused the code. *)
BuildReturns(w, passes) ==
    WorkflowEnds(w, "returned") /\ ok' = [ok EXCEPT ![w] = passes]

BuildRaises(w) == WorkflowEnds(w, "raised") /\ UNCHANGED ok

AppendFailed(f) == files' = [files EXCEPT ![f].failure = TRUE]

EmitFailed(w) ==
    /\ Runs(w) /\ main[w] = "raised"
    /\ AppendFailed(wfile[w])
    /\ main' = [main EXCEPT ![w] = "disarming"]
    /\ UNCHANGED <<procs, metas, reloaded, start, poll, stop, restarts, dog,
                   exit, sigkill, wkey, wfile, ok, now, stopped>>

(* The finally clause: watchdog.stop() ends the watch loop, but a watchdog   *)
(* that has already fired is past that loop and goes on.                     *)
StopDog(w) ==
    /\ Runs(w) /\ main[w] = "returned"
    /\ dog' = IF dog[w] = "watching" THEN [dog EXCEPT ![w] = "off"] ELSE dog
    /\ main' = [main EXCEPT ![w] = "reporting"]
    /\ UNCHANGED <<procs, metas, reloaded, start, poll, stop, restarts, files,
                   exit, sigkill, wkey, wfile, ok, now, stopped>>

EmitResult(w) ==
    /\ Runs(w) /\ main[w] = "reporting"
    /\ files' = [files EXCEPT ![wfile[w]].result = w]
    /\ main' = [main EXCEPT ![w] = "reported"]
    /\ UNCHANGED <<procs, metas, reloaded, start, poll, stop, restarts, dog,
                   exit, sigkill, wkey, wfile, ok, now, stopped>>

(* The process ends: with it, both of its threads. *)
Exits(w, code) ==
    /\ exit' = [exit EXCEPT ![w] = code]
    /\ main' = [main EXCEPT ![w] = "gone"]
    /\ dog' = [dog EXCEPT ![w] = "off"]
    /\ sigkill' = [sigkill EXCEPT ![w] = FALSE]
    /\ UNCHANGED <<procs, metas, reloaded, start, poll, stop, restarts, files,
                   wkey, wfile, ok, now, stopped>>

(* run() imports the workflows before its try block: an exception there ends *)
(* the process with exit code 1, and no failed line in the run file.         *)
ImportFails(w) == Runs(w) /\ main[w] = "importing" /\ Exits(w, "1")

(* The finally clause after an exception, and return 1. *)
ExitRaised(w) == Runs(w) /\ main[w] = "disarming" /\ Exits(w, "1")

ExitRan(w) == Runs(w) /\ main[w] = "reported" /\ Exits(w, "0")

-----------------------------------------------------------------------------
(* The watchdog thread: check() finds a stall (when it does is the business  *)
(* of ProgressWatchdog), on_stall appends a failed line, then leaves with    *)
(* os._exit(2).                                                              *)

DogMoves(w, from, to) ==
    /\ Runs(w) /\ dog[w] = from
    /\ dog' = [dog EXCEPT ![w] = to]
    /\ UNCHANGED <<procs, metas, reloaded, start, poll, stop, restarts, main,
                   exit, sigkill, wkey, wfile, ok, now, stopped>>

DogFires(w) == DogMoves(w, "watching", "fired") /\ UNCHANGED files

DogTells(w) == DogMoves(w, "fired", "told") /\ AppendFailed(wfile[w])

(* Mutant: sys.exit(2), which waits for the main thread. *)
DogJoins(w) ==
    /\ Runs(w) /\ dog[w] = "told"
    /\ main[w] \in {"disarming", "reported"}
    /\ Exits(w, "2")

DogExits(w) == Runs(w) /\ dog[w] = "told" /\ Exits(w, "2")

(* A signal ends the process: SIGTERM or SIGKILL of stop_build, or one from  *)
(* outside (the operator's terminal, the kernel out of memory).              *)
Dies(w) == Live(w) /\ Exits(w, "signal")

KillLands(w) == Dies(w) /\ sigkill[w]

-----------------------------------------------------------------------------
(* build_status: read the process, the meta dict, the run file, the exit     *)
(* code, in this order.                                                      *)

StatusProc(t, k) ==
    /\ poll[t].pc = "idle"
    /\ poll' = [poll EXCEPT ![t] =
                  [NoPoll EXCEPT !.pc = "meta", !.key = k, !.proc = procs[k],
                                 !.gone = Gone(procs[k])]]
    /\ UNCHANGED <<procs, metas, reloaded, start, stop, restarts, files, worker,
                   now, stopped>>

StatusMeta(t) ==
    /\ poll[t].pc = "meta"
    /\ LET m == metas[poll[t].key]
       IN  poll' = [poll EXCEPT ![t] =
                      IF @.proc = NoWorker \/ m = NoWorker
                      THEN [NoPoll EXCEPT !.status = "idle"]
                      ELSE [@ EXCEPT !.pc = "file", !.meta = m,
                                     !.late = m \in stopped]]
    /\ UNCHANGED <<procs, metas, reloaded, start, stop, restarts, files, worker,
                   now, stopped>>

StatusFile(t) ==
    /\ poll[t].pc = "file"
    /\ LET f == files[wfile[poll[t].meta]]
       IN  poll' = [poll EXCEPT ![t].pc = "poll", ![t].result = f.result,
                                ![t].failure = f.failure]
    /\ UNCHANGED <<procs, metas, reloaded, start, stop, restarts, files, worker,
                   now, stopped>>

(* Mutant: a result line makes the build completed, whatever else is there. *)
VerdictOfResult(p) ==
    IF ~Gone(p.proc) THEN "running"
    ELSE IF p.result = NoWorker THEN "failed" ELSE "completed"

Verdict(p) ==
    IF ~Gone(p.proc) THEN "running"
    ELSE IF p.failure \/ p.result = NoWorker \/ exit[p.proc] # "0"
         THEN "failed" ELSE "completed"

(* The first "completed" reloads the source's module (see LiveCode). *)
Reloads(t) == Verdict(poll[t]) = "completed" /\ ~reloaded[poll[t].meta]

(* Mutant: a build that completed is one that passed. *)
StatusReplyRan(t) ==
    /\ poll[t].pc = "poll"
    /\ LET v == Verdict(poll[t])
       IN  poll' = [poll EXCEPT ![t] = [NoPoll EXCEPT !.status = v,
                                          !.passed = v = "completed"]]
    /\ reloaded' = IF Reloads(t) THEN [reloaded EXCEPT ![poll[t].meta] = TRUE]
                   ELSE reloaded
    /\ UNCHANGED <<procs, metas, start, stop, restarts, files, worker, now,
                   stopped>>

StatusReply(t) ==
    /\ poll[t].pc = "poll"
    /\ LET v == Verdict(poll[t])
       IN  poll' = [poll EXCEPT ![t] =
                      [NoPoll EXCEPT !.status = v,
                         !.passed = v = "completed" /\ ok[poll[t].result]]]
    /\ reloaded' = IF Reloads(t) THEN [reloaded EXCEPT ![poll[t].meta] = TRUE]
                   ELSE reloaded
    /\ UNCHANGED <<procs, metas, start, stop, restarts, files, worker, now,
                   stopped>>

-----------------------------------------------------------------------------
(* stop_build: read the process and the meta dict, poll, terminate and wait  *)
(* five seconds, kill if that was not enough, append a failed line.          *)

(* A missing process raises ToolError. *)
StopProc(t, k) ==
    /\ stop[t].pc = "idle" /\ procs[k] # NoWorker
    /\ stop' = [stop EXCEPT ![t] = [NoStop EXCEPT !.pc = "meta", !.key = k,
                                                  !.proc = procs[k]]]
    /\ UNCHANGED <<procs, metas, reloaded, start, poll, restarts, files, worker,
                   now, stopped>>

(* So does an empty meta dict. *)
StopMeta(t) ==
    /\ stop[t].pc = "meta"
    /\ LET m == metas[stop[t].key]
       IN  stop' = [stop EXCEPT ![t] =
                      IF m = NoWorker THEN NoStop
                      ELSE [@ EXCEPT !.pc = "poll", !.meta = m]]
    /\ UNCHANGED <<procs, metas, reloaded, start, poll, restarts, files, worker,
                   now, stopped>>

(* "That build had already finished", or SIGTERM: from here Dies(w) may come. *)
StopPoll(t) ==
    /\ stop[t].pc = "poll"
    /\ stop' = [stop EXCEPT ![t] =
                  IF Gone(@.proc) THEN NoStop ELSE [@ EXCEPT !.pc = "wait"]]
    /\ UNCHANGED <<procs, metas, reloaded, start, poll, restarts, files, worker,
                   now, stopped>>

(* wait(timeout=5) returns, or times out and the process gets SIGKILL. *)
StopWait(t) ==
    /\ stop[t].pc = "wait"
    /\ LET w == stop[t].proc
       IN  sigkill' = IF Gone(w) THEN sigkill ELSE [sigkill EXCEPT ![w] = TRUE]
    /\ stop' = [stop EXCEPT ![t].pc = "append"]
    /\ UNCHANGED <<procs, metas, reloaded, start, poll, restarts, files, main,
                   dog, exit, wkey, wfile, ok, now, stopped>>

(* Mutant: the worker is left to say that it was stopped. *)
StopUnrecorded(t) ==
    /\ stop[t].pc = "append"
    /\ stopped' = stopped \cup {stop[t].meta}
    /\ stop' = [stop EXCEPT ![t] = NoStop]
    /\ UNCHANGED <<procs, metas, reloaded, start, poll, restarts, files, worker,
                   now>>

(* Mutant: the stopped build is dropped from the registry. *)
StopPops(t) ==
    /\ stop[t].pc = "append"
    /\ AppendFailed(wfile[stop[t].meta])
    /\ stopped' = stopped \cup {stop[t].meta}
    /\ procs' = [procs EXCEPT ![stop[t].key] = NoWorker]
    /\ stop' = [stop EXCEPT ![t] = NoStop]
    /\ UNCHANGED <<metas, reloaded, start, poll, restarts, worker, now>>

StopAppend(t) ==
    /\ stop[t].pc = "append"
    /\ AppendFailed(wfile[stop[t].meta])
    /\ stopped' = stopped \cup {stop[t].meta}
    /\ stop' = [stop EXCEPT ![t] = NoStop]
    /\ UNCHANGED <<procs, metas, reloaded, start, poll, restarts, worker, now>>

-----------------------------------------------------------------------------
(* The server process ends and a new one starts. The dictionaries live in    *)
(* its memory, the workers in sessions of their own (start_new_session).     *)
ServerRestart ==
    /\ restarts < MaxRestarts
    /\ restarts' = restarts + 1
    /\ procs' = [k \in Keys |-> NoWorker]
    /\ metas' = [k \in Keys |-> NoWorker]
    /\ start' = [t \in Starters |-> Idle]
    /\ poll' = [t \in Pollers |-> NoPoll]
    /\ stop' = [t \in Stoppers |-> NoStop]
    /\ UNCHANGED <<reloaded, files, worker, now, stopped>>

Tick ==
    /\ now < MaxNow
    /\ now' = now + 1
    /\ UNCHANGED <<procs, metas, reloaded, start, poll, stop, restarts, files,
                   worker, stopped>>

-----------------------------------------------------------------------------
StartBuild(t) ==
    \/ \E k \in Keys : StartCheck(t, k)
    \/ \E w \in Workers : StartSpawn(t, w)
    \/ StartStoreProc(t)
    \/ StartStoreMeta(t)

BuildStatus(t) ==
    \/ \E k \in Keys : StatusProc(t, k)
    \/ StatusMeta(t)
    \/ StatusFile(t)
    \/ StatusReply(t)

StopBuild(t) ==
    \/ \E k \in Keys : StopProc(t, k)
    \/ StopMeta(t)
    \/ StopPoll(t)
    \/ StopWait(t)
    \/ StopAppend(t)

Import(w) == ImportFails(w) \/ Arm(w)

Work(w) == BuildRaises(w) \/ \E passes \in BOOLEAN : BuildReturns(w, passes)

(* What the main thread does of its own once the workflow has ended. *)
WindDown(w) ==
    \/ EmitFailed(w)
    \/ ExitRaised(w)
    \/ StopDog(w)
    \/ EmitResult(w)
    \/ ExitRan(w)

Watch(w) == DogTells(w) \/ DogExits(w)

(* While the watchdog watches, the workflow ends or the watchdog fires. *)
Progress(w) == dog[w] = "watching" /\ (Work(w) \/ DogFires(w))

Next ==
    \/ \E t \in Starters : StartBuild(t)
    \/ \E t \in Pollers : BuildStatus(t)
    \/ \E t \in Stoppers : StopBuild(t)
    \/ \E w \in Workers : Import(w)
    \/ \E w \in Workers : Work(w)
    \/ \E w \in Workers : WindDown(w)
    \/ \E w \in Workers : DogFires(w)
    \/ \E w \in Workers : Watch(w)
    \/ \E w \in Workers : Dies(w)
    \/ ServerRestart
    \/ Tick

Spec == Init /\ [][Next]_vars

(* What the operating system schedules: the import and the wind-down of a    *)
(* worker, its watchdog thread, and the delivery of SIGKILL. Nothing makes   *)
(* the workflow itself (Work) end, a model call may hang forever: but then   *)
(* the silence makes the watchdog fire.                                      *)
Fairness ==
    \A w \in Workers :
        /\ WF_vars(Import(w)) /\ WF_vars(Progress(w)) /\ WF_vars(WindDown(w))
        /\ WF_vars(Watch(w)) /\ WF_vars(KillLands(w))

FairSpec == Spec /\ Fairness

-----------------------------------------------------------------------------
(* Calls of start_build do not overlap, and the server that spawned a build  *)
(* is there to its end. The properties that say so below need it: the code   *)
(* looks into _BUILD_PROCS before it spawns, and keeps it in memory only.    *)
Serial == (\A s, t \in Starters : s = t) /\ MaxRestarts = 0

(* A starter has spawned the worker and not stored both references to it. *)
Launching(w) ==
    \E t \in Starters : start[t].pc \in {"proc", "meta"} /\ start[t].w = w

(* Two workers never run at a time for one source: "Two agents editing the   *)
(* same parser file would race and corrupt it."                              *)
(* (test_start_build_refuses_a_second_concurrent_build). Needs Serial.       *)
OneBuildPerSource ==
    \A v, w \in Workers : Live(v) /\ Live(w) /\ wkey[v] = wkey[w] => v = w

(* The app can stop any build, so no wedged one has to be killed from a      *)
(* terminal (stop_build): once start_build has returned, both dictionaries   *)
(* name the live worker of the source. Needs Serial.                         *)
LiveBuildIsStoppable ==
    \A w \in Workers : Live(w) /\ ~Launching(w) =>
        procs[wkey[w]] = w /\ metas[wkey[w]] = w

(* The watchdog and the wind-down end every worker, even one whose workflow  *)
(* hangs: "a build that stops making progress is ended by                    *)
(* orchestration/watchdog.py rather than left to hang" (build_worker).       *)
EveryBuildEnds == \A w \in Workers : Live(w) ~> Gone(w)

(* The latest build of a source: the one whose worker a call of start_build  *)
(* has spawned and is registering, or else the registered one.               *)
Latest(k) ==
    LET Launch(t) == start[t].pc \in {"proc", "meta"} /\ start[t].key = k
    IN  IF \E t \in Starters : Launch(t)
        THEN start[CHOOSE t \in Starters : Launch(t)].w ELSE procs[k]

(* Its outcome, from what it leaves behind: exit code and run file. *)
Outcome(w) ==
    LET f == files[wfile[w]]
        ran == exit[w] = "0" /\ f.result # NoWorker /\ ~f.failure
    IN  IF w = NoWorker THEN "none"
        ELSE IF ~Gone(w) THEN "running"
        ELSE IF ran THEN "ran" ELSE "broke"

Promise == INSTANCE BuildPromise WITH job <- [k \in Keys |-> Outcome(Latest(k))]

(* The three tools keep the promise of BuildPromise: no build is lost or     *)
(* replaced while it runs, and an outcome is final but for a late stop.      *)
(* Needs Serial.                                                             *)
KeepsPromise == Promise!Spec

(* The step in which build_status answers `status`. *)
Replies(t, status) ==
    poll[t].pc = "poll" /\ poll'[t].pc = "idle" /\ poll'[t].status = status

(* A status asked for after stop_build answered "Stopped." never says the    *)
(* stopped build completed, though the worker may have written its result    *)
(* and left with code 0 between the poll and the signal.                     *)
StopSticks ==
    [][\A t \in Pollers : poll[t].late => ~Replies(t, "completed")]_vars

(* "passed" is never about another source's build, nor about one that has    *)
(* not verified its code: the result read was written, as its last act, by a *)
(* worker of that source whose verification was ok.                          *)
ReportedPassIsReal ==
    [][\A t \in Pollers :
         LET w == poll[t].result
         IN  Replies(t, "completed") /\ poll'[t].passed =>
               /\ w \in Workers /\ wkey[w] = poll[t].key
               /\ ok[w] /\ main[w] \in {"reported", "gone"}]_vars

(* A status asked for after the process has gone tells what became of it:    *)
(* completed exactly for exit code 0 with no failed line in its run file.    *)
(* The file is read before the exit code, so only a process that was already *)
(* gone has surely written all it would write.                               *)
SettledBuildIsReportedTruthfully ==
    [][\A t \in Pollers :
         LET p == poll[t]
             ran == exit[p.proc] = "0" /\ ~p.failure
         IN  p.gone /\ p.proc = p.meta =>
               /\ ~Replies(t, "running")
               /\ Replies(t, "failed") => ~ran
               /\ Replies(t, "completed") => ran]_vars

(* A build that ran is never reported as failed: "status: idle | running |   *)
(* completed | failed. `completed` means the build RAN" (build_status), and  *)
(* "Exit code 0 means the build RAN, not that it passed" (build_worker).     *)
RanIsNeverReportedFailed ==
    [][\A t \in Pollers :
         LET p == poll[t]
         IN  Replies(t, "failed") /\ p.proc = p.meta =>
               exit[p.proc] # "0" \/ files[wfile[p.meta]].failure]_vars
=============================================================================
