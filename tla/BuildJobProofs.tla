--------------------------- MODULE BuildJobProofs ---------------------------
(***************************************************************************)
(* What holds of BuildJob for any number of sources, builds, server        *)
(* threads, seconds and restarts.                                          *)
(***************************************************************************)
EXTENDS BuildJob, TLAPS

(* The threads that are in no call are well-formed. *)
LEMMA IdleType ==
    /\ AnyKey \in Keys /\ <<AnyKey, 0>> \in File
    /\ Idle \in Starting /\ NoPoll \in Polling /\ NoStop \in Stopping
<1>1. AnyKey \in Keys
  BY BuildAssumption DEF AnyKey
<1>2. 0 \in 0..MaxNow
  BY BuildAssumption
<1> QED
  BY <1>1, <1>2 DEF File, Idle, NoPoll, NoStop, Starting, Polling, Stopping, Maybe

-----------------------------------------------------------------------------
(* Type correctness needs to know which threads hold a worker. *)
References ==
    /\ \A t \in Starters : start[t].pc \in {"proc", "meta"} => start[t].w \in Workers
    /\ \A t \in Pollers : poll[t].pc \in {"file", "poll"} =>
         poll[t].proc \in Workers /\ poll[t].meta \in Workers
    /\ \A t \in Stoppers :
         /\ stop[t].pc # "idle" => stop[t].proc \in Workers
         /\ stop[t].pc \in {"poll", "wait", "append"} => stop[t].meta \in Workers

Typed == TypeOK /\ References

LEMMA InitType == Init => Typed
BY IdleType, BuildAssumption
DEF Init, Typed, TypeOK, References, Maybe, Idle, NoPoll, NoStop

(* The exit of a process, whatever ended it. *)
LEMMA ExitsType ==
    ASSUME Typed, NEW w \in Workers, NEW code \in {"0", "1", "2", "signal"},
           Exits(w, code)
    PROVE  Typed'
BY DEF Exits, Typed, TypeOK, References

LEMMA StartType ==
    ASSUME Typed, NEW t \in Starters, StartBuild(t)
    PROVE  Typed'
<1>1. ASSUME NEW k \in Keys, StartCheck(t, k) PROVE Typed'
  BY <1>1 DEF StartCheck, Typed, TypeOK, References, Starting, Maybe, worker
<1>2. ASSUME NEW w \in Workers, StartSpawn(t, w) PROVE Typed'
  BY <1>2 DEF StartSpawn, Typed, TypeOK, References, Starting, Maybe, File
<1>3. CASE StartStoreProc(t)
  BY <1>3 DEF StartStoreProc, Typed, TypeOK, References, Starting, worker
<1>4. CASE StartStoreMeta(t)
  BY <1>4, IdleType DEF StartStoreMeta, Typed, TypeOK, References, Idle, Starting, worker
<1> QED
  BY <1>1, <1>2, <1>3, <1>4 DEF StartBuild

LEMMA PollType ==
    ASSUME Typed, NEW t \in Pollers, BuildStatus(t)
    PROVE  Typed'
<1>1. ASSUME NEW k \in Keys, StatusProc(t, k) PROVE Typed'
  BY <1>1, IdleType DEF StatusProc, Typed, TypeOK, References, Polling, NoPoll, Gone, worker
<1>2. CASE StatusMeta(t)
  <2> DEFINE m == metas[poll[t].key]
             p == IF poll[t].proc = NoWorker \/ m = NoWorker
                  THEN [NoPoll EXCEPT !.status = "idle"]
                  ELSE [poll[t] EXCEPT !.pc = "file", !.meta = m, !.late = m \in stopped]
  <2>1. poll' = [poll EXCEPT ![t] = p]
    BY <1>2 DEF StatusMeta
  <2>2. poll[t] \in Polling /\ m \in Maybe
    BY DEF Typed, TypeOK, Polling
  <2>3. p \in Polling
    <3>1. [NoPoll EXCEPT !.status = "idle"] \in Polling
      BY IdleType DEF Polling, NoPoll
    <3>2. ASSUME NEW late \in BOOLEAN
          PROVE  [poll[t] EXCEPT !.pc = "file", !.meta = m, !.late = late] \in Polling
      BY <2>2 DEF Polling
    <3>3. (m \in stopped) \in BOOLEAN
      OBVIOUS
    <3> QED
      BY <3>1, <3>2, <3>3
  <2>4. p.pc \in {"file", "poll"} => p.proc \in Workers /\ p.meta \in Workers
    BY <2>2 DEF Polling, NoPoll, Maybe
  <2> QED
    BY <1>2, <2>1, <2>3, <2>4 DEF StatusMeta, Typed, TypeOK, References, worker
<1>3. CASE StatusFile(t)
  <2> DEFINE f == files[wfile[poll[t].meta]]
  <2>1. f \in [result : Maybe, failure : BOOLEAN]
    BY <1>3 DEF StatusFile, Typed, TypeOK, References
  <2> DEFINE p == [poll[t] EXCEPT !.pc = "poll", !.result = f.result,
                                   !.failure = f.failure]
  <2>2. p \in Polling
    <3>1. poll[t] \in Polling
      BY DEF Typed, TypeOK
    <3>2. ASSUME NEW r \in Maybe, NEW b \in BOOLEAN
          PROVE  [poll[t] EXCEPT !.pc = "poll", !.result = r, !.failure = b] \in Polling
      BY <3>1 DEF Polling
    <3>3. f.result \in Maybe /\ f.failure \in BOOLEAN
      BY <2>1
    <3> QED
      BY <3>2, <3>3
  <2>3. p.proc = poll[t].proc /\ p.meta = poll[t].meta
    BY DEF Typed, TypeOK, Polling
  <2>4. poll' = [poll EXCEPT ![t] = p]
    BY <1>3 DEF StatusFile, Typed, TypeOK
  <2>5. poll[t].proc \in Workers /\ poll[t].meta \in Workers
    BY <1>3 DEF StatusFile, Typed, References
  <2> HIDE DEF p, f
  <2> QED
    BY <1>3, <2>2, <2>3, <2>4, <2>5 DEF StatusFile, Typed, TypeOK, References, worker
<1>4. CASE StatusReply(t)
  BY <1>4, IdleType DEF StatusReply, Typed, TypeOK, References, Polling, NoPoll, Verdict, Reloads, worker
<1> QED
  BY <1>1, <1>2, <1>3, <1>4 DEF BuildStatus

LEMMA StopType ==
    ASSUME Typed, NEW t \in Stoppers, StopBuild(t)
    PROVE  Typed'
<1>1. ASSUME NEW k \in Keys, StopProc(t, k) PROVE Typed'
  BY <1>1, IdleType DEF StopProc, Typed, TypeOK, References, Maybe, Stopping, NoStop, worker
<1>2. CASE StopMeta(t)
  BY <1>2, IdleType DEF StopMeta, Typed, TypeOK, References, NoStop, Maybe, Stopping, worker
<1>3. CASE StopPoll(t)
  BY <1>3, IdleType DEF StopPoll, Typed, TypeOK, References, NoStop, Gone, Stopping, worker
<1>4. CASE StopWait(t)
  BY <1>4 DEF StopWait, Typed, TypeOK, References, Stopping
<1>5. CASE StopAppend(t)
  BY <1>5, IdleType DEF StopAppend, AppendFailed, Typed, TypeOK, References, NoStop, Stopping, worker
<1> QED
  BY <1>1, <1>2, <1>3, <1>4, <1>5 DEF StopBuild

(* A step of a worker process, or of what kills it. *)
WorkerStep(w) ==
    Import(w) \/ Work(w) \/ WindDown(w) \/ DogFires(w) \/ Watch(w) \/ Dies(w)

LEMMA WorkerType ==
    ASSUME Typed, NEW w \in Workers, WorkerStep(w)
    PROVE  Typed'
<1>1. CASE Import(w)
  <2>1. CASE ImportFails(w)
    BY <2>1, ExitsType DEF ImportFails
  <2>2. CASE Arm(w)
    BY <2>2 DEF Arm, Typed, TypeOK, References
  <2> QED
    BY <1>1, <2>1, <2>2 DEF Import
<1>2. CASE Work(w)
  <2>1. ASSUME NEW passes \in BOOLEAN, BuildReturns(w, passes) PROVE Typed'
    BY <2>1 DEF BuildReturns, WorkflowEnds, Typed, TypeOK, References
  <2>2. CASE BuildRaises(w)
    BY <2>2 DEF BuildRaises, WorkflowEnds, Typed, TypeOK, References
  <2> QED
    BY <1>2, <2>1, <2>2 DEF Work
<1>3. CASE WindDown(w)
  <2>1. CASE EmitFailed(w)
    BY <2>1 DEF EmitFailed, AppendFailed, Typed, TypeOK, References
  <2>2. CASE StopDog(w)
    BY <2>2 DEF StopDog, Typed, TypeOK, References
  <2>3. CASE EmitResult(w)
    BY <2>3 DEF EmitResult, Typed, TypeOK, References, Maybe
  <2>4. CASE ExitRaised(w) \/ ExitRan(w)
    BY <2>4, ExitsType DEF ExitRaised, ExitRan
  <2> QED
    BY <1>3, <2>1, <2>2, <2>3, <2>4 DEF WindDown
<1>4. CASE DogFires(w)
  BY <1>4 DEF DogFires, DogMoves, Typed, TypeOK, References
<1>5. CASE Watch(w)
  BY <1>5, ExitsType
  DEF Watch, DogTells, DogExits, DogMoves, AppendFailed, Typed, TypeOK, References
<1>6. CASE Dies(w)
  BY <1>6, ExitsType DEF Dies
<1> QED
  BY <1>1, <1>2, <1>3, <1>4, <1>5, <1>6 DEF WorkerStep

LEMMA StepType == Typed /\ [Next]_vars => Typed'
<1> SUFFICES ASSUME Typed, [Next]_vars PROVE Typed'
  OBVIOUS
<1>1. ASSUME NEW t \in Starters, StartBuild(t) PROVE Typed'
  BY <1>1, StartType
<1>2. ASSUME NEW t \in Pollers, BuildStatus(t) PROVE Typed'
  BY <1>2, PollType
<1>3. ASSUME NEW t \in Stoppers, StopBuild(t) PROVE Typed'
  BY <1>3, StopType
<1>4. ASSUME NEW w \in Workers, WorkerStep(w) PROVE Typed'
  BY <1>4, WorkerType
<1>5. CASE ServerRestart
  BY <1>5, IdleType, BuildAssumption
  DEF ServerRestart, Typed, TypeOK, References, Maybe, Idle, NoPoll, NoStop, worker
<1>6. CASE Tick
  BY <1>6, BuildAssumption DEF Tick, Typed, TypeOK, References, worker
<1>7. CASE UNCHANGED vars
  BY <1>7 DEF vars, Typed, TypeOK, References, worker
<1> QED
  BY <1>1, <1>2, <1>3, <1>4, <1>5, <1>6, <1>7 DEF Next, WorkerStep

LEMMA AlwaysTyped == Spec => []Typed
BY InitType, StepType, PTL DEF Spec

(* Every variable of the build tools keeps its type, for any number of      *)
(* sources, builds, threads and restarts.                                    *)
THEOREM TypeCorrect == Spec => []TypeOK
BY AlwaysTyped, PTL DEF Typed

-----------------------------------------------------------------------------
(* What a step of a worker process can do. *)
LEMMA WorkerLeavesServer ==
    ASSUME NEW w \in Workers, WorkerStep(w)
    PROVE  /\ UNCHANGED <<procs, metas, start, poll, stop, wkey, wfile, stopped>>
           /\ Live(w)
<1>1. CASE DogFires(w) \/ DogTells(w)
  BY <1>1 DEF DogFires, DogTells, DogMoves, Runs
<1>2. CASE Arm(w) \/ EmitFailed(w) \/ StopDog(w) \/ EmitResult(w)
  BY <1>2 DEF Arm, EmitFailed, StopDog, EmitResult, Runs
<1>3. CASE BuildRaises(w) \/ \E passes \in BOOLEAN : BuildReturns(w, passes)
  BY <1>3 DEF BuildReturns, BuildRaises, WorkflowEnds, Runs
<1>4. CASE ImportFails(w) \/ ExitRaised(w) \/ ExitRan(w) \/ DogExits(w) \/ Dies(w)
  BY <1>4 DEF ImportFails, ExitRaised, ExitRan, DogExits, Dies, Exits, Runs
<1> QED
  BY <1>1, <1>2, <1>3, <1>4 DEF WorkerStep, Import, Work, WindDown, Watch

LEMMA WorkerMoves ==
    ASSUME Typed, NEW w \in Workers, WorkerStep(w)
    PROVE  \/ /\ main'[w] # "gone" /\ UNCHANGED exit
              /\ \/ main' = main
                 \/ /\ main[w] # "reported"
                    /\ \E at : /\ at # "unborn" /\ main' = [main EXCEPT ![w] = at]
                               /\ at = "reported" =>
                                    files' = [files EXCEPT ![wfile[w]].result = w]
           \/ /\ main' = [main EXCEPT ![w] = "gone"] /\ UNCHANGED files
              /\ \E code \in {"0", "1", "2", "signal"} :
                   /\ exit' = [exit EXCEPT ![w] = code]
                   /\ code = "0" => main[w] = "reported"
<1> USE DEF Typed, TypeOK
<1>1. CASE DogFires(w) \/ DogTells(w)
  BY <1>1 DEF DogFires, DogTells, DogMoves, Runs, Live
<1>2. CASE Arm(w) \/ EmitFailed(w) \/ StopDog(w) \/ EmitResult(w)
  BY <1>2 DEF Arm, EmitFailed, StopDog, EmitResult
<1>3. CASE BuildRaises(w) \/ \E passes \in BOOLEAN : BuildReturns(w, passes)
  BY <1>3 DEF BuildReturns, BuildRaises, WorkflowEnds
<1>4. CASE ImportFails(w) \/ ExitRaised(w) \/ ExitRan(w) \/ DogExits(w) \/ Dies(w)
  BY <1>4 DEF ImportFails, ExitRaised, ExitRan, DogExits, Dies, Exits
<1> QED
  BY <1>1, <1>2, <1>3, <1>4 DEF WorkerStep, Import, Work, WindDown, Watch

LEMMA WorkerWrites ==
    ASSUME NEW w \in Workers, WorkerStep(w)
    PROVE  \/ UNCHANGED files
           \/ files' = [files EXCEPT ![wfile[w]].failure = TRUE]
           \/ /\ files' = [files EXCEPT ![wfile[w]].result = w]
              /\ main' = [main EXCEPT ![w] = "reported"]
<1>1. CASE DogFires(w) \/ DogTells(w)
  BY <1>1 DEF DogFires, DogTells, AppendFailed
<1>2. CASE Arm(w) \/ EmitFailed(w) \/ StopDog(w) \/ EmitResult(w)
  BY <1>2 DEF Arm, EmitFailed, StopDog, EmitResult, AppendFailed
<1>3. CASE BuildRaises(w) \/ \E passes \in BOOLEAN : BuildReturns(w, passes)
  BY <1>3 DEF BuildReturns, BuildRaises, WorkflowEnds
<1>4. CASE ImportFails(w) \/ ExitRaised(w) \/ ExitRan(w) \/ DogExits(w) \/ Dies(w)
  BY <1>4 DEF ImportFails, ExitRaised, ExitRan, DogExits, Dies, Exits
<1> QED
  BY <1>1, <1>2, <1>3, <1>4 DEF WorkerStep, Import, Work, WindDown, Watch

-----------------------------------------------------------------------------
(* Every step goes forward: a worker keeps its source and file and stays     *)
(* dead, a line once written stays, and a result line is of a worker that    *)
(* has done with the code.                                                   *)
Forward ==
    /\ \A w \in Workers : main[w] # "unborn" =>
         main'[w] # "unborn" /\ wkey'[w] = wkey[w] /\ wfile'[w] = wfile[w]
    /\ \A w \in Workers : main[w] = "gone" => main'[w] = "gone" /\ exit'[w] = exit[w]
    /\ \A w \in Workers : main[w] = "reported" => main'[w] \in {"reported", "gone"}
    /\ \A w \in Workers : main'[w] = "reported" =>
         main[w] = "reported" \/ files'[wfile'[w]].result = w
    /\ \A w \in Workers : exit'[w] # exit[w] =>
         main'[w] = "gone" /\ (exit'[w] = "0" => main[w] = "reported")
    /\ \A f \in File :
         /\ files[f].failure => files'[f].failure
         /\ \/ files'[f].result = files[f].result
            \/ \E w \in Workers : /\ main[w] # "unborn" /\ main'[w] = "reported"
                                  /\ f = wfile[w] /\ files'[f].result = w

LEMMA StepForward == Typed /\ [Next]_vars => Forward
<1> SUFFICES ASSUME Typed, [Next]_vars PROVE Forward
  OBVIOUS
<1>1. ASSUME UNCHANGED <<main, wkey, wfile, exit, files>> PROVE Forward
  BY <1>1 DEF Forward
<1>2. ASSUME NEW w \in Workers, WorkerStep(w) PROVE Forward
  <2>1. UNCHANGED <<wkey, wfile>> /\ main[w] \notin {"unborn", "gone"}
    BY <1>2, WorkerLeavesServer DEF Live
  <2>2. /\ \A v \in Workers : main[v] # "unborn" => main'[v] # "unborn"
        /\ \A v \in Workers : main[v] = "gone" => main'[v] = "gone" /\ exit'[v] = exit[v]
        /\ \A v \in Workers : main[v] = "reported" => main'[v] \in {"reported", "gone"}
        /\ \A v \in Workers : main'[v] = "reported" =>
             main[v] = "reported" \/ files'[wfile[v]].result = v
        /\ \A v \in Workers : exit'[v] # exit[v] =>
             main'[v] = "gone" /\ (exit'[v] = "0" => main[v] = "reported")
    BY <1>2, <2>1, WorkerMoves DEF Typed, TypeOK
  <2>3. ASSUME NEW f \in File
        PROVE  /\ files[f].failure => files'[f].failure
               /\ \/ files'[f].result = files[f].result
                  \/ /\ main'[w] = "reported"
                     /\ f = wfile[w] /\ files'[f].result = w
    BY <1>2, WorkerWrites DEF Typed, TypeOK
  <2> QED
    BY <2>1, <2>2, <2>3 DEF Forward
<1>3. ASSUME NEW t \in Starters, StartBuild(t) PROVE Forward
  <2>1. ASSUME NEW w \in Workers, StartSpawn(t, w) PROVE Forward
    BY <2>1 DEF StartSpawn, Forward, Typed, TypeOK
  <2> QED
    BY <1>1, <1>3, <2>1 DEF StartBuild, StartCheck, StartStoreProc, StartStoreMeta, worker
<1>4. ASSUME NEW t \in Pollers, BuildStatus(t) PROVE Forward
  BY <1>1, <1>4 DEF BuildStatus, StatusProc, StatusMeta, StatusFile, StatusReply, worker
<1>5. ASSUME NEW t \in Stoppers, StopBuild(t) PROVE Forward
  <2>1. CASE StopAppend(t)
    BY <2>1 DEF StopAppend, AppendFailed, Forward, Typed, TypeOK, worker
  <2> QED
    BY <1>1, <1>5, <2>1 DEF StopBuild, StopProc, StopMeta, StopPoll, StopWait, worker
<1>6. CASE ServerRestart \/ Tick \/ UNCHANGED vars
  BY <1>1, <1>6 DEF ServerRestart, Tick, vars, worker
<1> QED
  BY <1>2, <1>3, <1>4, <1>5, <1>6 DEF Next, WorkerStep

-----------------------------------------------------------------------------
(* Every reference to a worker is to one that was spawned, for that source,  *)
(* with a run file of its own source.                                        *)
Registered ==
    /\ \A w \in Workers : main[w] # "unborn" => wfile[w][1] = wkey[w]
    /\ \A k \in Keys : metas[k] # NoWorker =>
         main[metas[k]] # "unborn" /\ wkey[metas[k]] = k
    /\ \A t \in Starters : start[t].pc \in {"proc", "meta"} =>
         main[start[t].w] # "unborn" /\ wkey[start[t].w] = start[t].key
    /\ \A t \in Pollers : poll[t].pc \in {"file", "poll"} =>
         main[poll[t].meta] # "unborn" /\ wkey[poll[t].meta] = poll[t].key
    /\ \A t \in Stoppers : stop[t].pc \in {"poll", "wait", "append"} =>
         main[stop[t].meta] # "unborn" /\ wkey[stop[t].meta] = stop[t].key

LEMMA StepRegistered == Typed /\ Registered /\ [Next]_vars => Registered'
<1> SUFFICES ASSUME Typed, Registered, [Next]_vars PROVE Registered'
  OBVIOUS
<1> USE DEF Typed, References
<1>0. Forward
  BY StepForward
<1>1. ASSUME UNCHANGED <<metas, start, poll, stop, main, wkey, wfile>>
      PROVE  Registered'
  BY <1>1 DEF Registered
<1>2. ASSUME NEW w \in Workers, WorkerStep(w) PROVE Registered'
  <2>1. UNCHANGED <<metas, start, poll, stop, wkey, wfile>> /\ main[w] # "unborn"
    BY <1>2, WorkerLeavesServer DEF Live
  <2>2. \A v \in Workers : main'[v] # "unborn" <=> main[v] # "unborn"
    BY <1>2, <2>1, WorkerMoves DEF TypeOK
  <2>3. \A k \in Keys : metas[k] # NoWorker => metas[k] \in Workers
    BY DEF TypeOK, Maybe
  <2> QED
    BY <2>1, <2>2, <2>3 DEF Registered
<1>3. ASSUME NEW t \in Starters, StartBuild(t) PROVE Registered'
  <2>1. ASSUME NEW k \in Keys, StartCheck(t, k) PROVE Registered'
    BY <2>1 DEF StartCheck, Registered, TypeOK, worker
  <2>2. ASSUME NEW w \in Workers, StartSpawn(t, w) PROVE Registered'
    <3>1. /\ start' = [start EXCEPT ![t].pc = "proc", ![t].w = w]
          /\ main' = [main EXCEPT ![w] = "importing"] /\ main[w] = "unborn"
          /\ wkey' = [wkey EXCEPT ![w] = start[t].key]
          /\ wfile' = [wfile EXCEPT ![w] = <<start[t].key, now>>]
          /\ UNCHANGED <<metas, poll, stop>>
      BY <2>2 DEF StartSpawn
    <3>2. \A k \in Keys : metas[k] # NoWorker => metas[k] \in Workers
      BY DEF TypeOK, Maybe
    <3>3. \A v \in Workers : main'[v] # "unborn" => wfile'[v][1] = wkey'[v]
      BY <3>1 DEF Registered, TypeOK
    <3>4. \A s \in Starters : start'[s].pc \in {"proc", "meta"} =>
            main'[start'[s].w] # "unborn" /\ wkey'[start'[s].w] = start'[s].key
      BY <3>1, <1>0 DEF Registered, TypeOK, Starting, Forward
    <3>5. \A v \in Workers : main[v] # "unborn" =>
            main'[v] # "unborn" /\ wkey'[v] = wkey[v]
      BY <1>0 DEF Forward
    <3>6. \A k \in Keys : metas'[k] # NoWorker =>
            main'[metas'[k]] # "unborn" /\ wkey'[metas'[k]] = k
      BY <3>1, <3>2, <3>5 DEF Registered
    <3>7. \A s \in Pollers : poll'[s].pc \in {"file", "poll"} =>
            main'[poll'[s].meta] # "unborn" /\ wkey'[poll'[s].meta] = poll'[s].key
      BY <3>1, <3>5 DEF Registered
    <3>8. \A s \in Stoppers : stop'[s].pc \in {"poll", "wait", "append"} =>
            main'[stop'[s].meta] # "unborn" /\ wkey'[stop'[s].meta] = stop'[s].key
      BY <3>1, <3>5 DEF Registered
    <3> QED
      BY <3>3, <3>4, <3>6, <3>7, <3>8 DEF Registered
  <2>3. CASE StartStoreProc(t)
    BY <2>3 DEF StartStoreProc, Registered, TypeOK, Starting, worker
  <2>4. CASE StartStoreMeta(t)
    BY <2>4 DEF StartStoreMeta, Registered, TypeOK, Starting, Idle, worker
  <2> QED
    BY <1>3, <2>1, <2>2, <2>3, <2>4 DEF StartBuild
<1>4. ASSUME NEW t \in Pollers, BuildStatus(t) PROVE Registered'
  <2>1. ASSUME NEW k \in Keys, StatusProc(t, k) PROVE Registered'
    BY <2>1 DEF StatusProc, Registered, TypeOK, NoPoll, worker
  <2>2. CASE StatusMeta(t)
    <3>1. UNCHANGED <<metas, start, stop, main, wkey, wfile>> /\ poll[t].key \in Keys
      BY <2>2 DEF StatusMeta, TypeOK, Polling, worker
    <3>2. \A s \in Pollers \ {t} : poll'[s] = poll[s]
      BY <2>2 DEF StatusMeta, TypeOK
    <3>3. \/ poll'[t].pc = "idle"
          \/ /\ poll'[t].meta = metas[poll[t].key] /\ poll'[t].key = poll[t].key
             /\ metas[poll[t].key] # NoWorker
      <4>1. CASE poll[t].proc = NoWorker \/ metas[poll[t].key] = NoWorker
        BY <2>2, <4>1 DEF StatusMeta, TypeOK, NoPoll
      <4>2. CASE ~(poll[t].proc = NoWorker \/ metas[poll[t].key] = NoWorker)
        BY <2>2, <4>2 DEF StatusMeta, TypeOK, Polling
      <4> QED
        BY <4>1, <4>2
    <3> QED
      BY <3>1, <3>2, <3>3 DEF Registered
  <2>3. CASE StatusFile(t)
    BY <2>3 DEF StatusFile, Registered, TypeOK, Polling, worker
  <2>4. CASE StatusReply(t)
    BY <2>4 DEF StatusReply, Registered, TypeOK, Polling, NoPoll, worker
  <2> QED
    BY <1>4, <2>1, <2>2, <2>3, <2>4 DEF BuildStatus
<1>5. ASSUME NEW t \in Stoppers, StopBuild(t) PROVE Registered'
  <2>1. ASSUME NEW k \in Keys, StopProc(t, k) PROVE Registered'
    BY <2>1 DEF StopProc, Registered, TypeOK, NoStop, worker
  <2>2. CASE StopMeta(t)
    BY <2>2 DEF StopMeta, Registered, TypeOK, Stopping, NoStop, worker
  <2>3. CASE StopPoll(t)
    BY <2>3 DEF StopPoll, Registered, TypeOK, Stopping, NoStop, worker
  <2>4. CASE StopWait(t)
    BY <2>4 DEF StopWait, Registered, TypeOK, Stopping
  <2>5. CASE StopAppend(t)
    BY <2>5 DEF StopAppend, Registered, TypeOK, Stopping, NoStop, worker
  <2> QED
    BY <1>5, <2>1, <2>2, <2>3, <2>4, <2>5 DEF StopBuild
<1>6. CASE ServerRestart
  BY <1>6 DEF ServerRestart, Registered, Idle, NoPoll, NoStop, worker
<1>7. CASE Tick \/ UNCHANGED vars
  BY <1>1, <1>7 DEF Tick, vars, worker
<1> QED
  BY <1>2, <1>3, <1>4, <1>5, <1>6, <1>7 DEF Next, WorkerStep

LEMMA AlwaysRegistered == Spec => [](Typed /\ Registered)
<1>1. Init => Registered
  BY DEF Init, Registered, Idle, NoPoll, NoStop
<1>2. Init => Typed /\ Registered
  BY <1>1, InitType
<1>3. Typed /\ Registered /\ [Next]_vars => Typed' /\ Registered'
  BY StepType, StepRegistered
<1> QED
  BY <1>2, <1>3, PTL DEF Spec

-----------------------------------------------------------------------------
(* A poller's record only changes in its own call, or with the server. *)
LEMMA PollerSteps ==
    ASSUME Typed, [Next]_vars, NEW t \in Pollers
    PROVE  \/ UNCHANGED poll[t]
           \/ poll'[t] = NoPoll
           \/ (\E k \in Keys : StatusProc(t, k)) \/ StatusMeta(t)
           \/ StatusFile(t) \/ StatusReply(t)
<1>1. ASSUME NEW s \in Starters, StartBuild(s) PROVE UNCHANGED poll
  BY <1>1 DEF StartBuild, StartCheck, StartSpawn, StartStoreProc, StartStoreMeta
<1>2. ASSUME NEW s \in Stoppers, StopBuild(s) PROVE UNCHANGED poll
  BY <1>2 DEF StopBuild, StopProc, StopMeta, StopPoll, StopWait, StopAppend
<1>3. ASSUME NEW w \in Workers, WorkerStep(w) PROVE UNCHANGED poll
  BY <1>3, WorkerLeavesServer
<1>4. ASSUME NEW s \in Pollers \ {t}, BuildStatus(s) PROVE UNCHANGED poll[t]
  BY <1>4 DEF BuildStatus, StatusProc, StatusMeta, StatusFile, StatusReply, Typed, TypeOK
<1>5. CASE ServerRestart
  BY <1>5 DEF ServerRestart
<1>6. CASE Tick \/ UNCHANGED vars
  BY <1>6 DEF Tick, vars
<1>7. CASE BuildStatus(t)
  BY <1>7 DEF BuildStatus
<1> QED
  BY <1>1, <1>2, <1>3, <1>4, <1>5, <1>6, <1>7 DEF Next, WorkerStep

(* What each step of the call copies. *)
LEMMA MetaCopies ==
    ASSUME Typed, NEW t \in Pollers, StatusMeta(t)
    PROVE  \/ poll'[t].pc = "idle" /\ ~poll'[t].late /\ ~poll'[t].gone
              /\ poll'[t].status = "idle"
           \/ /\ poll'[t].pc = "file" /\ poll'[t].meta = metas[poll[t].key]
              /\ poll'[t].late = (metas[poll[t].key] \in stopped)
              /\ poll'[t].proc = poll[t].proc /\ poll'[t].gone = poll[t].gone
<1> DEFINE m == metas[poll[t].key]
<1>1. ASSUME NEW p \in Polling, NEW b \in BOOLEAN,
             poll'[t] = [p EXCEPT !.pc = "file", !.meta = m, !.late = b]
      PROVE  /\ poll'[t].pc = "file" /\ poll'[t].meta = m /\ poll'[t].late = b
             /\ poll'[t].proc = p.proc /\ poll'[t].gone = p.gone
  BY <1>1 DEF Polling
<1>2. CASE poll[t].proc = NoWorker \/ m = NoWorker
  <2>1. poll'[t] = [NoPoll EXCEPT !.status = "idle"]
    BY <1>2 DEF StatusMeta, Typed, TypeOK
  <2> QED
    BY <2>1 DEF NoPoll
<1>3. CASE ~(poll[t].proc = NoWorker \/ m = NoWorker)
  <2>1. poll'[t] = [poll[t] EXCEPT !.pc = "file", !.meta = m, !.late = m \in stopped]
    BY <1>3 DEF StatusMeta, Typed, TypeOK
  <2>2. poll[t] \in Polling /\ (m \in stopped) \in BOOLEAN
    BY DEF Typed, TypeOK
  <2> QED
    BY <1>1, <2>1, <2>2
<1> QED
  BY <1>2, <1>3

LEMMA FileCopies ==
    ASSUME Typed, NEW t \in Pollers, StatusFile(t)
    PROVE  LET f == files[wfile[poll[t].meta]] IN
           /\ poll[t].pc = "file" /\ poll'[t].pc = "poll"
           /\ poll'[t].result = f.result /\ poll'[t].failure = f.failure
           /\ poll'[t].late = poll[t].late /\ poll'[t].gone = poll[t].gone
           /\ poll'[t].proc = poll[t].proc /\ poll'[t].meta = poll[t].meta
<1> DEFINE f == files[wfile[poll[t].meta]]
<1>1. poll'[t] = [poll[t] EXCEPT !.pc = "poll", !.result = f.result,
                                 !.failure = f.failure]
  <2>1. ASSUME NEW r, NEW b,
               poll' = [poll EXCEPT ![t].pc = "poll", ![t].result = r,
                                    ![t].failure = b]
        PROVE  poll'[t] = [poll[t] EXCEPT !.pc = "poll", !.result = r,
                                          !.failure = b]
    BY <2>1 DEF Typed, TypeOK
  <2>2. poll' = [poll EXCEPT ![t].pc = "poll", ![t].result = f.result,
                             ![t].failure = f.failure]
    BY Zenon DEF StatusFile
  <2> QED
    BY ONLY <2>1, <2>2
<1>2. poll[t] \in Polling /\ poll[t].pc = "file"
  BY DEF StatusFile, Typed, TypeOK
<1> DEFINE r == f.result
           b == f.failure
<1>3. poll'[t] = [poll[t] EXCEPT !.pc = "poll", !.result = r, !.failure = b]
  BY <1>1
<1> HIDE DEF f, r, b
<1>4. /\ poll'[t].pc = "poll" /\ poll'[t].result = r /\ poll'[t].failure = b
      /\ poll'[t].late = poll[t].late /\ poll'[t].gone = poll[t].gone
      /\ poll'[t].proc = poll[t].proc /\ poll'[t].meta = poll[t].meta
  BY <1>2, <1>3 DEF Polling
<1> QED
  BY <1>2, <1>4, Zenon DEF f, r, b

LEMMA ReplyCopies ==
    ASSUME Typed, NEW t \in Pollers, StatusReply(t)
    PROVE  /\ poll'[t].pc = "idle" /\ ~poll'[t].late /\ ~poll'[t].gone
           /\ poll'[t].status = Verdict(poll[t])
           /\ poll'[t].passed = (Verdict(poll[t]) = "completed" /\ ok[poll[t].result])
<1> DEFINE b == Verdict(poll[t]) = "completed" /\ ok[poll[t].result]
           v == Verdict(poll[t])
<1>1. poll'[t] = [NoPoll EXCEPT !.status = v, !.passed = b]
  BY DEF StatusReply, Typed, TypeOK
<1> HIDE DEF b, v
<1>2. /\ poll'[t].pc = "idle" /\ poll'[t].late = FALSE /\ poll'[t].gone = FALSE
      /\ poll'[t].status = v /\ poll'[t].passed = b
  BY <1>1 DEF NoPoll
<1> QED
  BY <1>2 DEF b, v

(* A stopped build has its failed line, and whoever asks later reads it. *)
Told ==
    /\ \A w \in stopped : main[w] # "unborn" /\ files[wfile[w]].failure
    /\ \A t \in Pollers : poll[t].late =>
         \/ poll[t].pc = "file" /\ poll[t].meta \in stopped
         \/ poll[t].pc = "poll" /\ poll[t].failure

LEMMA StepTold == Typed /\ Registered /\ Told /\ [Next]_vars => Told'
<1> SUFFICES ASSUME Typed, Registered, Told, [Next]_vars PROVE Told'
  OBVIOUS
<1>0. Forward
  BY StepForward
<1>1. \A w \in stopped : main'[w] # "unborn" /\ files'[wfile'[w]].failure
  BY <1>0 DEF Told, Forward, Typed, TypeOK
<1>2. \/ UNCHANGED stopped
      \/ \E t \in Stoppers : StopAppend(t) /\ stopped' = stopped \cup {stop[t].meta}
  <2>1. ASSUME NEW t \in Starters, StartBuild(t) PROVE UNCHANGED stopped
    BY <2>1 DEF StartBuild, StartCheck, StartSpawn, StartStoreProc, StartStoreMeta
  <2>2. ASSUME NEW t \in Pollers, BuildStatus(t) PROVE UNCHANGED stopped
    BY <2>2 DEF BuildStatus, StatusProc, StatusMeta, StatusFile, StatusReply
  <2>3. ASSUME NEW w \in Workers, WorkerStep(w) PROVE UNCHANGED stopped
    BY <2>3, WorkerLeavesServer
  <2>4. ASSUME NEW t \in Stoppers, StopBuild(t), ~StopAppend(t)
        PROVE  UNCHANGED stopped
    BY <2>4 DEF StopBuild, StopProc, StopMeta, StopPoll, StopWait
  <2>5. CASE ServerRestart \/ Tick \/ UNCHANGED vars
    BY <2>5 DEF ServerRestart, Tick, vars
  <2> QED
    BY <2>1, <2>2, <2>3, <2>4, <2>5 DEF Next, WorkerStep, StopAppend
<1>3. ASSUME NEW t \in Stoppers, StopAppend(t)
      PROVE  main'[stop[t].meta] # "unborn" /\ files'[wfile'[stop[t].meta]].failure
  <2>1. main[stop[t].meta] # "unborn" /\ stop[t].meta \in Workers
    BY <1>3 DEF StopAppend, Registered, Typed, References
  <2> QED
    BY <1>0, <1>3, <2>1 DEF StopAppend, AppendFailed, Forward, Typed, TypeOK, worker
<1>4. /\ stopped \subseteq stopped'
      /\ \A w \in stopped' : main'[w] # "unborn" /\ files'[wfile'[w]].failure
  BY <1>1, <1>2, <1>3
<1>5. ASSUME NEW t \in Pollers, poll'[t].late
      PROVE  \/ poll'[t].pc = "file" /\ poll'[t].meta \in stopped'
             \/ poll'[t].pc = "poll" /\ poll'[t].failure
  <2> USE <1>5
  <2>1. CASE UNCHANGED poll[t]
    BY <1>4, <2>1 DEF Told
  <2>2. CASE poll'[t] = NoPoll
    BY <2>2 DEF NoPoll
  <2>3. ASSUME NEW k \in Keys, StatusProc(t, k) PROVE FALSE
    BY <2>3 DEF StatusProc, NoPoll, Typed, TypeOK
  <2>4. CASE StatusMeta(t)
    BY <1>4, <2>4, MetaCopies
  <2>5. CASE StatusFile(t)
    BY <2>5, FileCopies DEF Told
  <2>6. CASE StatusReply(t)
    BY <2>6, ReplyCopies
  <2> QED
    BY <2>1, <2>2, <2>3, <2>4, <2>5, <2>6, PollerSteps
<1> QED
  BY <1>4, <1>5 DEF Told

LEMMA AlwaysTold == Spec => [](Typed /\ Registered /\ Told)
<1>1. Init => Told
  BY DEF Init, Told, NoPoll
<1>2. Typed /\ Registered /\ Told /\ [Next]_vars => Told'
  BY StepTold
<1> QED
  BY <1>1, <1>2, AlwaysRegistered, PTL DEF Spec

(* The one step that replies. *)
LEMMA Reply ==
    ASSUME Typed, [Next]_vars, NEW t \in Pollers, NEW status, Replies(t, status),
           status # "none"
    PROVE  /\ StatusReply(t) /\ status = Verdict(poll[t])
           /\ poll'[t].passed = (status = "completed" /\ ok[poll[t].result])
<1>1. poll[t].pc = "poll" /\ poll'[t].pc = "idle" /\ poll'[t].status = status
  BY DEF Replies
<1>2. StatusReply(t)
  <2>1. poll[t].pc # poll'[t].pc /\ poll'[t] # NoPoll
    BY <1>1 DEF NoPoll
  <2>2. ~StatusMeta(t) /\ ~StatusFile(t) /\ \A k \in Keys : ~StatusProc(t, k)
    BY <1>1 DEF StatusProc, StatusMeta, StatusFile
  <2> QED
    BY <2>1, <2>2, PollerSteps
<1> QED
  BY <1>1, <1>2, ReplyCopies

(* A status asked for after a stop never says the stopped build completed.   *)
THEOREM StopsStick == Spec => StopSticks
<1>1. ASSUME Typed, Told, [Next]_vars, NEW t \in Pollers, poll[t].late,
             Replies(t, "completed")
      PROVE  FALSE
  <2>1. Verdict(poll[t]) = "completed"
    BY <1>1, Reply
  <2>2. poll[t].failure
    BY <1>1 DEF Replies, Told
  <2> QED
    BY <2>1, <2>2 DEF Verdict
<1>2. Typed /\ Told /\ [Next]_vars =>
        [\A t \in Pollers : poll[t].late => ~Replies(t, "completed")]_vars
  BY <1>1
<1> QED
  BY <1>2, AlwaysTold, PTL DEF Spec, StopSticks
-----------------------------------------------------------------------------
(* What a run file tells of its workers: a result line is of one that has    *)
(* done with the code and writes to this file; one that reported, or left    *)
(* with code 0, has a result line in its file.                               *)
Lines ==
    /\ \A f \in File : files[f].result # NoWorker =>
         /\ files[f].result \in Workers /\ wfile[files[f].result] = f
         /\ main[files[f].result] \in {"reported", "gone"}
    /\ \A w \in Workers : main[w] = "reported" \/ exit[w] = "0" =>
         files[wfile[w]].result # NoWorker
    /\ \A w \in Workers : exit[w] # "none" => main[w] = "gone"

LEMMA StepLines == Typed /\ Lines /\ [Next]_vars => Lines'
<1> SUFFICES ASSUME Typed, Lines, [Next]_vars PROVE Lines'
  OBVIOUS
<1>0. Forward
  BY StepForward
<1>1. ASSUME NEW f \in File, files'[f].result # NoWorker
      PROVE  /\ files'[f].result \in Workers /\ wfile'[files'[f].result] = f
             /\ main'[files'[f].result] \in {"reported", "gone"}
  <2>1. CASE files'[f].result = files[f].result
    BY <1>0, <1>1, <2>1 DEF Lines, Forward
  <2>2. ASSUME NEW w \in Workers, main[w] # "unborn", main'[w] = "reported",
               f = wfile[w], files'[f].result = w
        PROVE  wfile'[w] = f
    BY <1>0, <2>2 DEF Forward
  <2> QED
    BY <1>0, <2>1, <2>2 DEF Forward
<1>2. ASSUME NEW f \in File, files[f].result # NoWorker
      PROVE  files'[f].result # NoWorker
  BY <1>0, <1>2, BuildAssumption DEF Forward
<1>3. ASSUME NEW w \in Workers, main[w] # "unborn", files[wfile[w]].result # NoWorker
      PROVE  files'[wfile'[w]].result # NoWorker
  <2>1. wfile[w] \in File /\ wfile'[w] = wfile[w]
    BY <1>0, <1>3 DEF Forward, Typed, TypeOK
  <2> QED
    BY <1>2, <1>3, <2>1
<1>4. ASSUME NEW w \in Workers, main'[w] = "reported" \/ exit'[w] = "0"
      PROVE  files'[wfile'[w]].result # NoWorker
  <2>1. CASE main[w] = "reported"
    BY <1>3, <2>1 DEF Lines
  <2>2. CASE main[w] # "reported" /\ main'[w] = "reported"
    BY <1>0, <2>2, BuildAssumption DEF Forward
  <2>3. CASE main[w] # "reported" /\ exit'[w] = "0"
    <3>1. exit[w] = "0"
      BY <1>0, <2>3 DEF Forward
    <3> QED
      BY <1>3, <3>1 DEF Lines
  <2> QED
    BY <1>4, <2>1, <2>2, <2>3
<1>5. ASSUME NEW w \in Workers, exit'[w] # "none" PROVE main'[w] = "gone"
  BY <1>0, <1>5 DEF Lines, Forward
<1> QED
  BY <1>1, <1>4, <1>5 DEF Lines

-----------------------------------------------------------------------------
(* What a call of build_status has read still holds of the build when it     *)
(* answers: a process that was gone is gone, and a result is of a worker     *)
(* that wrote to the run file of the meta dict; of a process that was gone   *)
(* and had left with code 0, the call has found a result.                    *)
ReadBy(t) ==
    /\ poll[t].gone => poll[t].proc \in Workers /\ main[poll[t].proc] = "gone"
    /\ poll[t].pc = "poll" /\ poll[t].result # NoWorker =>
         /\ poll[t].result \in Workers
         /\ wfile[poll[t].result] = wfile[poll[t].meta]
         /\ main[poll[t].result] \in {"reported", "gone"}
    /\ (/\ poll[t].pc = "poll" /\ poll[t].gone
        /\ poll[t].proc = poll[t].meta /\ exit[poll[t].proc] = "0")
       => poll[t].result # NoWorker

Read == \A t \in Pollers : ReadBy(t)

LEMMA ProcCopies ==
    ASSUME Typed, NEW t \in Pollers, NEW k \in Keys, StatusProc(t, k)
    PROVE  /\ poll'[t].pc = "meta" /\ poll'[t].proc = procs[k]
           /\ poll'[t].gone = Gone(procs[k])
<1> DEFINE m == procs[k]
           b == Gone(procs[k])
<1>1. poll'[t] = [NoPoll EXCEPT !.pc = "meta", !.key = k, !.proc = m, !.gone = b]
  BY DEF StatusProc, Typed, TypeOK
<1> HIDE DEF m, b
<1>2. poll'[t].pc = "meta" /\ poll'[t].proc = m /\ poll'[t].gone = b
  BY <1>1 DEF NoPoll
<1> QED
  BY <1>2 DEF m, b

LEMMA StepRead == Typed /\ Registered /\ Lines /\ Read /\ [Next]_vars => Read'
<1> SUFFICES ASSUME Typed, Registered, Lines, Read, [Next]_vars, NEW t \in Pollers
             PROVE  ReadBy(t)'
  BY DEF Read
<1>0. Forward /\ ReadBy(t)
  BY StepForward DEF Read
<1>1. poll[t].pc \in {"file", "poll"} =>
        /\ poll[t].meta \in Workers /\ main[poll[t].meta] # "unborn"
        /\ wfile[poll[t].meta] \in File
  BY DEF Registered, Typed, References, TypeOK
<1>2. CASE UNCHANGED poll[t]
  <2>1. \A w \in Workers : main[w] = "gone" => main'[w] = "gone" /\ exit'[w] = exit[w]
    BY <1>0 DEF Forward
  <2>2. ASSUME NEW w \in Workers, main[w] \in {"reported", "gone"}
        PROVE  main'[w] \in {"reported", "gone"} /\ wfile'[w] = wfile[w]
    BY <1>0, <2>2 DEF Forward
  <2>3. poll[t].pc = "poll" => wfile'[poll[t].meta] = wfile[poll[t].meta]
    BY <1>0, <1>1 DEF Forward
  <2> QED
    BY <1>0, <1>2, <2>1, <2>2, <2>3 DEF ReadBy
<1>3. CASE poll'[t] = NoPoll
  BY <1>3 DEF NoPoll, ReadBy
<1>4. ASSUME NEW k \in Keys, StatusProc(t, k) PROVE ReadBy(t)'
  <2>1. UNCHANGED main /\ procs[k] \in Maybe
    BY <1>4 DEF StatusProc, worker, Typed, TypeOK
  <2> QED
    BY <1>4, <2>1, ProcCopies DEF ReadBy, Gone, Maybe
<1>5. CASE StatusMeta(t)
  <2>1. UNCHANGED main
    BY <1>5 DEF StatusMeta, worker
  <2> QED
    BY <1>0, <1>5, <2>1, MetaCopies DEF ReadBy
<1>6. CASE StatusFile(t)
  <2>1. UNCHANGED <<main, exit, wfile>> /\ poll[t].pc = "file"
    BY <1>6 DEF StatusFile, worker
  <2> DEFINE f == wfile[poll[t].meta]
  <2>2. /\ poll'[t].pc = "poll" /\ poll'[t].result = files[f].result
        /\ poll'[t].gone = poll[t].gone
        /\ poll'[t].proc = poll[t].proc /\ poll'[t].meta = poll[t].meta
    BY <1>6, FileCopies
  <2>3. files[f].result # NoWorker =>
          /\ files[f].result \in Workers /\ wfile[files[f].result] = f
          /\ main[files[f].result] \in {"reported", "gone"}
    BY <1>1, <2>1 DEF Lines
  <2>4. exit[poll[t].meta] = "0" => files[f].result # NoWorker
    BY <1>1, <2>1 DEF Lines
  <2> QED
    BY <1>0, <2>1, <2>2, <2>3, <2>4 DEF ReadBy
<1>7. CASE StatusReply(t)
  BY <1>7, ReplyCopies DEF ReadBy
<1> QED
  BY <1>2, <1>3, <1>4, <1>5, <1>6, <1>7, PollerSteps

LEMMA AlwaysRead == Spec => [](Typed /\ Registered /\ Lines /\ Read)
<1>1. Init => Lines /\ Read
  BY DEF Init, Lines, Read, ReadBy, NoPoll
<1>2. Typed /\ Registered /\ Lines /\ Read /\ [Next]_vars => Lines' /\ Read'
  BY StepLines, StepRead
<1> QED
  BY <1>1, <1>2, AlwaysRegistered, PTL DEF Spec

(* build_status says "passed" only of a build of the source it was asked     *)
(* about, whose worker has done with the code and found its verification ok. *)
THEOREM PassIsReal == Spec => ReportedPassIsReal
<1>1. ASSUME Typed, Registered, Read, [Next]_vars, NEW t \in Pollers,
             Replies(t, "completed"), poll'[t].passed
      PROVE  LET w == poll[t].result
             IN  /\ w \in Workers /\ wkey[w] = poll[t].key
                 /\ ok[w] /\ main[w] \in {"reported", "gone"}
  <2>1. /\ Verdict(poll[t]) = "completed" /\ ok[poll[t].result]
        /\ poll[t].pc = "poll"
    BY <1>1, Reply DEF Replies
  <2>2. poll[t].result # NoWorker
    BY <2>1 DEF Verdict
  <2>3. /\ poll[t].result \in Workers
        /\ wfile[poll[t].result] = wfile[poll[t].meta]
        /\ main[poll[t].result] \in {"reported", "gone"}
    BY <1>1, <2>1, <2>2 DEF Read, ReadBy
  <2>4. /\ poll[t].meta \in Workers /\ main[poll[t].meta] # "unborn"
        /\ wkey[poll[t].meta] = poll[t].key
    BY <1>1, <2>1 DEF Registered, Typed, References
  <2>5. wkey[poll[t].result] = wkey[poll[t].meta]
    BY <1>1, <2>3, <2>4 DEF Registered
  <2> QED
    BY <2>1, <2>3, <2>4, <2>5
<1>2. Typed /\ Registered /\ Read /\ [Next]_vars =>
        [\A t \in Pollers :
           LET w == poll[t].result
           IN  Replies(t, "completed") /\ poll'[t].passed =>
                 /\ w \in Workers /\ wkey[w] = poll[t].key
                 /\ ok[w] /\ main[w] \in {"reported", "gone"}]_vars
  BY <1>1
<1> QED
  BY <1>2, AlwaysRead, PTL DEF Spec, ReportedPassIsReal

(* Asked after the process has gone, build_status tells how the build ended. *)
THEOREM SettledTruth == Spec => SettledBuildIsReportedTruthfully
<1>1. ASSUME Typed, Read, [Next]_vars, NEW t \in Pollers,
             poll[t].gone, poll[t].proc = poll[t].meta
      PROVE  /\ ~Replies(t, "running")
             /\ Replies(t, "failed") => ~(exit[poll[t].proc] = "0" /\ ~poll[t].failure)
             /\ Replies(t, "completed") => exit[poll[t].proc] = "0" /\ ~poll[t].failure
  <2>1. Gone(poll[t].proc)
    BY <1>1, BuildAssumption DEF Read, ReadBy, Gone
  <2>2. ASSUME NEW status \in {"running", "failed", "completed"}, Replies(t, status)
        PROVE  status = Verdict(poll[t]) /\ poll[t].pc = "poll"
    BY <1>1, <2>2, Reply DEF Replies
  <2>3. poll[t].pc = "poll" /\ exit[poll[t].proc] = "0" => poll[t].result # NoWorker
    BY <1>1 DEF Read, ReadBy
  <2> QED
    BY <2>1, <2>2, <2>3 DEF Verdict
<1>2. Typed /\ Read /\ [Next]_vars =>
        [\A t \in Pollers :
           LET p == poll[t]
               ran == exit[p.proc] = "0" /\ ~p.failure
           IN  p.gone /\ p.proc = p.meta =>
                 /\ ~Replies(t, "running")
                 /\ Replies(t, "failed") => ~ran
                 /\ Replies(t, "completed") => ran]_vars
  BY <1>1
<1> QED
  BY <1>2, AlwaysRead, PTL DEF Spec, SettledBuildIsReportedTruthfully

-----------------------------------------------------------------------------
(***************************************************************************)
(* What holds while one server runs and calls of start_build do not        *)
(* overlap (Serial): a source has one build at a time, it can be stopped,  *)
(* and the tools keep the promise of BuildPromise.                         *)
(***************************************************************************)

(* A starter that found the source free finds it free still; one that has    *)
(* spawned a worker holds the only live one of its source; any other live    *)
(* worker is the one in the registry.                                        *)
Solo ==
    /\ \A k \in Keys : procs[k] # NoWorker =>
         main[procs[k]] # "unborn" /\ wkey[procs[k]] = k
    /\ \A t \in Starters : start[t].pc = "spawn" =>
         /\ procs[start[t].key] # NoWorker => Gone(procs[start[t].key])
         /\ \A v \in Workers : Live(v) => wkey[v] # start[t].key
    /\ \A t \in Starters : start[t].pc \in {"proc", "meta"} =>
         /\ main[start[t].w] # "unborn" /\ wkey[start[t].w] = start[t].key
         /\ \A v \in Workers : Live(v) /\ wkey[v] = start[t].key => v = start[t].w
         /\ start[t].pc = "meta" => procs[start[t].key] = start[t].w
    /\ LiveBuildIsStoppable

(* It is all that one build per source takes. *)
LEMMA SoloIsOne == Typed /\ Solo => OneBuildPerSource
<1> SUFFICES ASSUME Typed, Solo, NEW v \in Workers, NEW w \in Workers,
                    Live(v), Live(w), wkey[v] = wkey[w]
             PROVE  v = w
  BY DEF OneBuildPerSource
<1>1. CASE Launching(v)
  BY <1>1 DEF Solo, Launching
<1>2. CASE Launching(w)
  BY <1>2 DEF Solo, Launching
<1>3. CASE ~Launching(v) /\ ~Launching(w)
  BY <1>3 DEF Solo, LiveBuildIsStoppable
<1> QED
  BY <1>1, <1>2, <1>3

LEMMA InitSolo == Init => Solo
<1> SUFFICES ASSUME Init PROVE Solo
  OBVIOUS
<1>1. \A t \in Starters : start[t].pc = "idle"
  BY DEF Init, Idle
<1>2. \A v \in Workers : ~Live(v)
  BY DEF Init, Live
<1>3. \A k \in Keys : procs[k] = NoWorker
  BY DEF Init
<1> QED
  BY <1>1, <1>2, <1>3 DEF Solo, LiveBuildIsStoppable

(* A step that starts nothing keeps it: workers only get closer to their end. *)
LEMMA QuietSolo ==
    ASSUME Typed, Solo, UNCHANGED <<procs, metas, start, wkey>>,
           \A v \in Workers : /\ main[v] = "unborn" <=> main'[v] = "unborn"
                              /\ main[v] = "gone" => main'[v] = "gone"
    PROVE  Solo'
<1>1. \A v \in Workers : Live(v)' => Live(v)
  BY DEF Live
<1>2. \A v \in Workers : Launching(v)' <=> Launching(v)
  BY DEF Launching
<1>3. LiveBuildIsStoppable'
  BY <1>1, <1>2 DEF Solo, LiveBuildIsStoppable
<1>4. \A k \in Keys : procs[k] \in Workers \cup {NoWorker}
  BY DEF Typed, TypeOK, Maybe
<1>5. \A t \in Starters : start[t].key \in Keys
  BY DEF Typed, TypeOK, Starting
<1> QED
  BY <1>1, <1>3, <1>4, <1>5, BuildAssumption DEF Solo, Gone, Typed, References

LEMMA StartSolo ==
    ASSUME Serial, Typed, Solo, NEW t \in Starters, StartBuild(t)
    PROVE  Solo'
<1> USE DEF Typed
<1>0. /\ \A s \in Starters : s = t
      /\ start[t].key \in Keys /\ \A k \in Keys : procs[k] \in Maybe
  BY DEF Serial, TypeOK, Starting
<1>1. ASSUME NEW k \in Keys, StartCheck(t, k) PROVE Solo'
  <2>1. start' = [start EXCEPT ![t] = [pc |-> "spawn", key |-> k, w |-> NoWorker]]
    BY <1>1 DEF StartCheck
  <2>2. start'[t].pc = "spawn" /\ start'[t].key = k
    BY <2>1 DEF TypeOK
  <2>3. \A v \in Workers : ~Launching(v) /\ ~Launching(v)'
    BY <1>0, <1>1, <2>2 DEF StartCheck, Launching
  <2>4. \A v \in Workers : Live(v) => wkey[v] # k
    BY <1>1, <2>3, BuildAssumption
    DEF StartCheck, Solo, LiveBuildIsStoppable, Live, Gone
  <2>5. UNCHANGED <<procs, metas, main, wkey>> /\ (procs[k] # NoWorker => Gone(procs[k]))
    BY <1>1 DEF StartCheck, worker
  <2>6. LiveBuildIsStoppable'
    BY <2>3, <2>5 DEF Solo, LiveBuildIsStoppable, Live
  <2>7. Gone(procs[k])' <=> Gone(procs[k])
    BY <2>5 DEF Gone
  <2>8. \A v \in Workers : Live(v)' <=> Live(v)
    BY <2>5 DEF Live
  <2> QED
    BY <1>0, <2>2, <2>4, <2>5, <2>6, <2>7, <2>8 DEF Solo
<1>2. ASSUME NEW w \in Workers, StartSpawn(t, w) PROVE Solo'
  <2>1. /\ start'[t].pc = "proc" /\ start'[t].key = start[t].key /\ start'[t].w = w
        /\ start[t].pc = "spawn"
    BY <1>2 DEF StartSpawn, TypeOK, Starting
  <2>2. /\ UNCHANGED <<procs, metas>> /\ main[w] = "unborn"
        /\ main' = [main EXCEPT ![w] = "importing"]
        /\ wkey' = [wkey EXCEPT ![w] = start[t].key]
    BY <1>2 DEF StartSpawn
  <2>3. \A v \in Workers : v # w => (Live(v)' <=> Live(v)) /\ wkey'[v] = wkey[v]
    BY <2>2 DEF Live, TypeOK
  <2>4. main'[w] = "importing" /\ wkey'[w] = start[t].key
    BY <2>2, <1>0 DEF TypeOK
  <2>5. \A k \in Keys : procs[k] # w
    BY <2>2, BuildAssumption DEF Solo
  <2>6. \A k \in Keys : procs'[k] # NoWorker =>
          main'[procs'[k]] # "unborn" /\ wkey'[procs'[k]] = k
    BY <1>0, <2>2, <2>5 DEF Solo, TypeOK, Maybe
  <2>7. Launching(w)' /\ \A v \in Workers : ~Launching(v)
    BY <1>0, <2>1 DEF Launching
  <2>8. LiveBuildIsStoppable'
    BY <2>2, <2>3, <2>7 DEF Solo, LiveBuildIsStoppable
  <2>9. \A v \in Workers : Live(v)' /\ wkey'[v] = start[t].key => v = w
    BY <2>1, <2>3 DEF Solo
  <2> QED
    BY <1>0, <2>1, <2>4, <2>6, <2>8, <2>9 DEF Solo
<1>3. CASE StartStoreProc(t)
  <2>1. /\ start'[t].pc = "meta" /\ start'[t].key = start[t].key
        /\ start'[t].w = start[t].w /\ start[t].pc = "proc" /\ start[t].w \in Workers
    BY <1>3 DEF StartStoreProc, TypeOK, Starting, References
  <2>2. /\ UNCHANGED <<metas, main, wkey>>
        /\ procs' = [procs EXCEPT ![start[t].key] = start[t].w]
    BY <1>3 DEF StartStoreProc, worker
  <2>3. \A v \in Workers : Launching(v)' <=> Launching(v)
    BY <1>0, <2>1 DEF Launching
  <2>4. procs'[start[t].key] = start[t].w
    BY <1>0, <2>2 DEF TypeOK
  <2>5. LiveBuildIsStoppable'
    <3> SUFFICES ASSUME NEW v \in Workers, Live(v)', ~Launching(v)'
                 PROVE  procs'[wkey'[v]] = v /\ metas'[wkey'[v]] = v
      BY DEF LiveBuildIsStoppable
    <3>1. Live(v) /\ ~Launching(v) /\ wkey[v] \in Keys
      BY <2>2, <2>3 DEF Live, TypeOK
    <3>2. procs[wkey[v]] = v /\ metas[wkey[v]] = v
      BY <3>1 DEF Solo, LiveBuildIsStoppable
    <3>3. wkey[v] # start[t].key
      BY <2>1, <3>1 DEF Solo, Launching
    <3> QED
      BY <2>2, <3>1, <3>2, <3>3 DEF TypeOK
  <2>6. \A k \in Keys : procs'[k] # NoWorker =>
          main'[procs'[k]] # "unborn" /\ wkey'[procs'[k]] = k
    BY <1>0, <2>1, <2>2 DEF Solo, TypeOK
  <2> QED
    BY <1>0, <2>1, <2>2, <2>4, <2>5, <2>6 DEF Solo, Live
<1>4. CASE StartStoreMeta(t)
  <2>1. start'[t].pc = "idle" /\ start[t].pc = "meta" /\ start[t].w \in Workers
    BY <1>4 DEF StartStoreMeta, TypeOK, References, Idle
  <2>2. /\ UNCHANGED <<procs, main, wkey>>
        /\ metas' = [metas EXCEPT ![start[t].key] = start[t].w]
    BY <1>4 DEF StartStoreMeta, worker
  <2>3. LiveBuildIsStoppable'
    <3> SUFFICES ASSUME NEW v \in Workers, Live(v)
                 PROVE  procs[wkey[v]] = v /\ metas'[wkey[v]] = v
      BY <2>2 DEF LiveBuildIsStoppable, Live
    <3>1. wkey[v] \in Keys
      BY DEF TypeOK
    <3>2. CASE wkey[v] = start[t].key
      BY <1>0, <2>1, <2>2, <3>2 DEF Solo, TypeOK
    <3>3. CASE wkey[v] # start[t].key
      <4>1. ~Launching(v)
        BY <1>0, <2>1, <3>3 DEF Solo, Launching
      <4> QED
        BY <2>2, <3>1, <3>3, <4>1 DEF Solo, LiveBuildIsStoppable, TypeOK
    <3> QED
      BY <3>2, <3>3
  <2> QED
    BY <1>0, <2>1, <2>2, <2>3 DEF Solo
<1> QED
  BY <1>1, <1>2, <1>3, <1>4 DEF StartBuild

LEMMA WorkerSolo ==
    ASSUME Typed, Solo, NEW w \in Workers, WorkerStep(w)
    PROVE  Solo'
<1>1. UNCHANGED <<procs, metas, start, wkey>> /\ Live(w)
  BY WorkerLeavesServer
<1>2. \A v \in Workers : /\ main[v] = "unborn" <=> main'[v] = "unborn"
                         /\ main[v] = "gone" => main'[v] = "gone"
  BY <1>1, WorkerMoves DEF Live, Typed, TypeOK
<1> QED
  BY <1>1, <1>2, QuietSolo

LEMMA StepSolo == Serial /\ Typed /\ Solo /\ [Next]_vars => Solo'
<1> SUFFICES ASSUME Serial, Typed, Solo, [Next]_vars PROVE Solo'
  OBVIOUS
<1>1. ASSUME NEW t \in Starters, StartBuild(t) PROVE Solo'
  BY <1>1, StartSolo
<1>2. ASSUME UNCHANGED <<procs, metas, start, wkey, main>> PROVE Solo'
  BY <1>2, QuietSolo
<1>3. ASSUME NEW t \in Pollers, BuildStatus(t) PROVE Solo'
  BY <1>2, <1>3
  DEF BuildStatus, StatusProc, StatusMeta, StatusFile, StatusReply, worker
<1>4. ASSUME NEW t \in Stoppers, StopBuild(t) PROVE Solo'
  BY <1>2, <1>4
  DEF StopBuild, StopProc, StopMeta, StopPoll, StopWait, StopAppend, worker
<1>5. ASSUME NEW w \in Workers, WorkerStep(w) PROVE Solo'
  BY <1>5, WorkerSolo
<1>6. CASE ServerRestart
  BY <1>6 DEF ServerRestart, Serial, Typed, TypeOK
<1>7. CASE Tick \/ UNCHANGED vars
  BY <1>2, <1>7 DEF Tick, vars, worker
<1> QED
  BY <1>1, <1>3, <1>4, <1>5, <1>6, <1>7 DEF Next, WorkerStep

LEMMA AlwaysSolo == ASSUME Serial PROVE Spec => [](Typed /\ Solo)
<1>1. Init => Typed /\ Solo
  BY InitType, InitSolo
<1>2. Typed /\ Solo /\ [Next]_vars => Typed' /\ Solo'
  BY Serial, StepType, StepSolo
<1> QED
  BY <1>1, <1>2, PTL DEF Spec

(* While starts do not overlap and the server stays up, a source never has   *)
(* two live builds.                                                          *)
THEOREM OneBuild == ASSUME Serial PROVE Spec => []OneBuildPerSource
BY AlwaysSolo, SoloIsOne, PTL

(* And the operator can stop every live build that start_build has returned. *)
THEOREM Stoppable == ASSUME Serial PROVE Spec => []LiveBuildIsStoppable
<1>1. Solo => LiveBuildIsStoppable
  BY DEF Solo
<1> QED
  BY AlwaysSolo, <1>1, PTL

-----------------------------------------------------------------------------
(* The refinement of BuildPromise. *)

(* The abstract variable. *)
Job == [k \in Keys |-> Outcome(Latest(k))]

Launches(t, k) == start[t].pc \in {"proc", "meta"} /\ start[t].key = k

(* With one starter the choice in Latest is no choice. *)
LEMMA LatestIs ==
    ASSUME Serial, NEW k \in Keys
    PROVE  /\ \A t \in Starters : Launches(t, k) => Latest(k) = start[t].w
           /\ (\A t \in Starters : ~Launches(t, k)) => Latest(k) = procs[k]
           /\ \A t \in Starters : Launches(t, k)' => Latest(k)' = start'[t].w
           /\ (\A t \in Starters : ~Launches(t, k)') => Latest(k)' = procs'[k]
BY DEF Serial, Latest, Launches

(* The latest build of a source is one of it, and the only one that can live. *)
LEMMA LatestOwns ==
    ASSUME Serial, Typed, Solo, NEW k \in Keys
    PROVE  /\ Latest(k) = NoWorker \/
              (/\ Latest(k) \in Workers /\ main[Latest(k)] # "unborn"
               /\ wkey[Latest(k)] = k)
           /\ \A w \in Workers : Live(w) /\ wkey[w] = k => Latest(k) = w
<1>1. ASSUME NEW t \in Starters, Launches(t, k)
      PROVE  /\ Latest(k) \in Workers /\ main[Latest(k)] # "unborn"
             /\ wkey[Latest(k)] = k
             /\ \A w \in Workers : Live(w) /\ wkey[w] = k => Latest(k) = w
  BY <1>1, LatestIs DEF Launches, Solo, Typed, References
<1>2. ASSUME \A t \in Starters : ~Launches(t, k)
      PROVE  /\ Latest(k) = NoWorker \/
                (/\ Latest(k) \in Workers /\ main[Latest(k)] # "unborn"
                 /\ wkey[Latest(k)] = k)
             /\ \A w \in Workers : Live(w) /\ wkey[w] = k => Latest(k) = w
  <2>1. Latest(k) = procs[k] /\ procs[k] \in Maybe
    BY <1>2, LatestIs DEF Typed, TypeOK
  <2>2. ASSUME NEW w \in Workers, Live(w), wkey[w] = k PROVE procs[k] = w
    <3>1. ~Launching(w)
      BY <1>2, <2>2 DEF Launching, Launches, Solo
    <3> QED
      BY <2>2, <3>1 DEF Solo, LiveBuildIsStoppable
  <2> QED
    BY <2>1, <2>2 DEF Solo, Maybe
<1> QED
  BY <1>1, <1>2

(* Of an outcome the run file, the exit code and the process are all there is. *)
LEMMA OutcomeKept ==
    ASSUME NEW w, main'[w] = main[w], exit'[w] = exit[w],
           files'[wfile'[w]] = files[wfile[w]]
    PROVE  Outcome(w)' = Outcome(w)
BY DEF Outcome, Live, Gone

LEMMA OutcomeIs ==
    ASSUME BuildAssumption, NEW w \in Workers, main[w] # "unborn"
    PROVE  /\ main[w] # "gone" => Outcome(w) = "running"
           /\ main[w] = "gone" => Outcome(w) \in {"ran", "broke"}
           /\ main[w] = "gone" /\ files[wfile[w]].failure => Outcome(w) = "broke"
BY DEF Outcome, Live, Gone

JobNext ==
    \E k \in Keys : \E to \in {"running", "ran", "broke"} :
        /\ Job' = [Job EXCEPT ![k] = to]
        /\ \/ Job[k] \in {"none", "ran", "broke"} /\ to = "running"
           \/ Job[k] = "running" /\ to \in {"ran", "broke"}
           \/ Job[k] = "ran" /\ to = "broke"

(* The step changes at most the outcome of k, and as the promise allows. *)
LEMMA OneJob ==
    ASSUME NEW k \in Keys, NEW to,
           \A j \in Keys \ {k} : Outcome(Latest(j))' = Outcome(Latest(j)),
           Outcome(Latest(k))' = to
    PROVE  Job' = [Job EXCEPT ![k] = to] /\ Job[k] = Outcome(Latest(k))
BY DEF Job

(* start_build: an accepted start is the spawn; storing it changes nothing.  *)
LEMMA StartJob ==
    ASSUME Serial, Typed, Solo, NEW t \in Starters, StartBuild(t)
    PROVE  JobNext \/ UNCHANGED Job
<1> USE DEF Typed
<1>0. /\ \A s \in Starters : s = t
      /\ start[t].key \in Keys /\ \A k \in Keys : procs[k] \in Maybe
  BY DEF Serial, TypeOK, Starting
<1>1. ASSUME UNCHANGED <<main, exit, files, wfile>>,
             \A k \in Keys : Latest(k)' = Latest(k)
      PROVE  UNCHANGED Job
  BY <1>1 DEF Job, Outcome, Live, Gone
<1>2. ASSUME NEW k \in Keys, StartCheck(t, k) PROVE UNCHANGED Job
  <2>1. UNCHANGED <<main, exit, files, wfile, procs>> /\ start[t].pc = "idle"
    BY <1>2 DEF StartCheck, worker
  <2>2. start'[t].pc = "spawn"
    BY <1>2 DEF StartCheck, TypeOK
  <2>3. \A j \in Keys : Latest(j) = procs[j] /\ Latest(j)' = procs'[j]
    BY <1>0, <2>1, <2>2, LatestIs DEF Launches
  <2> QED
    BY <1>1, <2>1, <2>3
<1>3. ASSUME NEW w \in Workers, StartSpawn(t, w) PROVE JobNext
  <2>0. PICK k \in Keys : k = start[t].key
    BY <1>0
  <2>1. /\ start'[t].pc = "proc" /\ start'[t].key = k /\ start'[t].w = w
        /\ start[t].pc = "spawn"
    BY <1>3, <2>0 DEF StartSpawn, TypeOK, Starting
  <2>2. /\ UNCHANGED <<procs, files, exit>> /\ main[w] = "unborn"
        /\ main' = [main EXCEPT ![w] = "importing"]
        /\ wfile' = [wfile EXCEPT ![w] = <<k, now>>]
    BY <1>3, <2>0 DEF StartSpawn
  <2>3. \A j \in Keys : Latest(j) = procs[j]
    BY <1>0, <2>1, LatestIs DEF Launches
  <2>4. \A j \in Keys \ {k} : Latest(j)' = procs[j]
    BY <1>0, <2>1, <2>2, LatestIs DEF Launches
  <2>5. Latest(k)' = w
    BY <1>0, <2>1, LatestIs DEF Launches
  <2>6. ASSUME NEW j \in Keys \ {k} PROVE Outcome(Latest(j))' = Outcome(Latest(j))
    <3>1. procs[j] # w
      BY <2>2, BuildAssumption DEF Solo
    <3>2. CASE procs[j] = NoWorker
      BY <2>3, <2>4, <3>2 DEF Outcome
    <3>3. CASE procs[j] \in Workers
      <4>1. /\ main'[procs[j]] = main[procs[j]] /\ exit'[procs[j]] = exit[procs[j]]
            /\ files'[wfile'[procs[j]]] = files[wfile[procs[j]]]
        BY <2>2, <3>1, <3>3 DEF TypeOK
      <4> QED
        BY <2>3, <2>4, <4>1 DEF Outcome, Live, Gone
    <3> QED
      BY <1>0, <3>2, <3>3 DEF Maybe
  <2>7. Outcome(Latest(k))' = "running"
    <3>1. main'[w] = "importing" /\ w # NoWorker
      BY <2>2, BuildAssumption DEF TypeOK
    <3> QED
      BY <2>5, <3>1 DEF Outcome, Gone
  <2>8. Outcome(Latest(k)) \in {"none", "ran", "broke"}
    <3>1. procs[k] # NoWorker => Gone(procs[k])
      BY <2>0, <2>1 DEF Solo
    <3> QED
      BY <1>0, <2>3, <3>1 DEF Outcome
  <2>9. Job' = [Job EXCEPT ![k] = "running"] /\ Job[k] = Outcome(Latest(k))
    BY <1>0, <2>6, <2>7, OneJob
  <2> QED
    BY <1>0, <2>8, <2>9 DEF JobNext
<1>4. CASE StartStoreProc(t)
  <2>1. /\ start'[t].pc = "meta" /\ start'[t].key = start[t].key
        /\ start'[t].w = start[t].w /\ start[t].pc = "proc"
    BY <1>4 DEF StartStoreProc, TypeOK, Starting
  <2>2. /\ UNCHANGED <<main, exit, files, wfile>>
        /\ procs' = [procs EXCEPT ![start[t].key] = start[t].w]
    BY <1>4 DEF StartStoreProc, worker
  <2>3. ASSUME NEW k \in Keys PROVE Latest(k)' = Latest(k)
    BY <1>0, <2>1, <2>2, LatestIs DEF Launches, TypeOK
  <2> QED
    BY <1>1, <2>2, <2>3
<1>5. CASE StartStoreMeta(t)
  <2>1. start'[t].pc = "idle" /\ start[t].pc = "meta"
    BY <1>5 DEF StartStoreMeta, TypeOK, Idle
  <2>2. UNCHANGED <<main, exit, files, wfile, procs>>
    BY <1>5 DEF StartStoreMeta, worker
  <2>3. ASSUME NEW k \in Keys PROVE Latest(k)' = Latest(k)
    BY <1>0, <2>1, <2>2, LatestIs DEF Launches, Solo
  <2> QED
    BY <1>1, <2>2, <2>3
<1> QED
  BY <1>2, <1>3, <1>4, <1>5 DEF StartBuild

(* A worker: while it lives its build is running, and its exit ends it. *)
LEMMA WorkerJob ==
    ASSUME Serial, Typed, Registered, Solo, NEW w \in Workers, WorkerStep(w)
    PROVE  JobNext \/ UNCHANGED Job
<1>0. PICK k \in Keys : k = wkey[w]
  BY DEF Typed, TypeOK
<1>1. /\ UNCHANGED <<procs, start, wkey, wfile>> /\ Live(w)
      /\ main[w] # "unborn" /\ main[w] # "gone"
  BY WorkerLeavesServer DEF Typed, TypeOK, Live
<1>2. \A j \in Keys : Latest(j)' = Latest(j)
  BY <1>1 DEF Latest
<1>3. Latest(k) = w
  BY <1>0, <1>1, LatestOwns
<1>4. ASSUME NEW j \in Keys \ {k} PROVE Outcome(Latest(j))' = Outcome(Latest(j))
  <2>1. CASE Latest(j) = NoWorker
    BY <1>2, <2>1 DEF Outcome
  <2>2. CASE Latest(j) # NoWorker
    <3>1. PICK v \in Workers : v = Latest(j) /\ main[v] # "unborn" /\ wkey[v] = j
      BY <2>2, LatestOwns
    <3>2. v # w /\ wfile[v] # wfile[w] /\ wfile[v] \in File
      <4>1. wfile[v][1] = j /\ wfile[w][1] = k
        BY <1>0, <1>1, <3>1 DEF Registered
      <4> QED
        BY <1>0, <3>1, <4>1 DEF Typed, TypeOK
    <3>3. files'[wfile[v]] = files[wfile[v]]
      BY <3>2, WorkerWrites DEF Typed, TypeOK
    <3>4. main'[v] = main[v] /\ exit'[v] = exit[v]
      BY <3>1, <3>2, WorkerMoves DEF Typed, TypeOK
    <3>5. Outcome(v)' = Outcome(v)
      BY <1>1, <3>3, <3>4, OutcomeKept
    <3> QED
      BY <1>2, <3>1, <3>5 DEF Outcome, Gone
  <2> QED
    BY <2>1, <2>2
<1>5. Outcome(Latest(k)) = "running"
  BY <1>1, <1>3, BuildAssumption, OutcomeIs
<1>6. CASE main'[w] # "gone"
  <2>2. Outcome(Latest(k))' = "running"
    BY <1>2, <1>3, <1>6, BuildAssumption DEF Outcome, Gone
  <2> QED
    BY <1>4, <1>5, <2>2 DEF Job
<1>7. CASE main'[w] = "gone"
  <2>1. Outcome(Latest(k))' \in {"ran", "broke"}
    BY <1>1, <1>2, <1>3, <1>7, BuildAssumption DEF Outcome, Live, Gone
  <2>2. /\ Job' = [Job EXCEPT ![k] = Outcome(Latest(k))']
        /\ Job[k] = Outcome(Latest(k))
    BY <1>1, <1>4, OneJob
  <2> QED
    BY <1>1, <1>5, <2>1, <2>2 DEF JobNext
<1> QED
  BY <1>6, <1>7

(* stop_build: its failed line may turn a build that ran into a broken one. *)
LEMMA StopJob ==
    ASSUME Serial, Typed, Registered, Solo, NEW t \in Stoppers, StopBuild(t)
    PROVE  JobNext \/ UNCHANGED Job
<1>1. ASSUME UNCHANGED <<procs, start, main, exit, files, wfile>> PROVE UNCHANGED Job
  BY <1>1 DEF Job, Outcome, Latest, Live, Gone
<1>2. CASE StopAppend(t)
  <2>1. PICK m \in Workers, k \in Keys :
            /\ m = stop[t].meta /\ k = wkey[m] /\ main[m] # "unborn"
            /\ wfile[m] \in File
    BY <1>2 DEF StopAppend, Registered, Typed, TypeOK, References
  <2>2. /\ UNCHANGED <<procs, start, main, exit, wfile>>
        /\ files' = [files EXCEPT ![wfile[m]].failure = TRUE]
    BY <1>2, <2>1 DEF StopAppend, AppendFailed, worker
  <2>3. \A j \in Keys : Latest(j)' = Latest(j)
    BY <2>2 DEF Latest
  <2>4. ASSUME NEW j \in Keys \ {k} PROVE Outcome(Latest(j))' = Outcome(Latest(j))
    <3>1. CASE Latest(j) = NoWorker
      BY <2>3, <3>1 DEF Outcome
    <3>2. CASE Latest(j) # NoWorker
      <4>1. PICK v \in Workers : v = Latest(j) /\ main[v] # "unborn" /\ wkey[v] = j
        BY <3>2, LatestOwns
      <4>2. wfile[v] # wfile[m] /\ wfile[v] \in File
        BY <2>1, <4>1 DEF Registered, Typed, TypeOK
      <4>3. files'[wfile[v]] = files[wfile[v]]
        BY <2>2, <4>2 DEF Typed, TypeOK
      <4>4. Outcome(v)' = Outcome(v)
        BY <2>2, <4>3, OutcomeKept
      <4> QED
        BY <2>3, <4>1, <4>4 DEF Outcome, Gone
    <3> QED
      BY <3>1, <3>2
  <2>5. /\ Job' = [Job EXCEPT ![k] = Outcome(Latest(k))']
        /\ Job[k] = Outcome(Latest(k))
    BY <2>1, <2>4, OneJob
  <2>6. CASE Outcome(Latest(k))' = Outcome(Latest(k))
    BY <2>4, <2>6 DEF Job
  <2>7. CASE Outcome(Latest(k))' # Outcome(Latest(k))
    <3>1. Latest(k) # NoWorker
      BY <2>3, <2>7 DEF Outcome
    <3>2. PICK v \in Workers : v = Latest(k) /\ wfile[v] \in File
      BY <3>1, LatestOwns DEF Typed, TypeOK
    <3>3. /\ files'[wfile[v]].failure = TRUE \/ files'[wfile[v]] = files[wfile[v]]
          /\ files'[wfile[v]].result = files[wfile[v]].result
      BY <2>1, <2>2, <3>2 DEF Typed, TypeOK
    <3>4. Outcome(v) = "ran" /\ Outcome(v)' = "broke"
      BY <2>2, <2>3, <2>7, <3>1, <3>2, <3>3 DEF Outcome, Gone
    <3>5. Outcome(Latest(k)) = "ran" /\ Outcome(Latest(k))' = "broke"
      BY <2>3, <3>2, <3>4 DEF Outcome, Gone
    <3> QED
      BY <2>5, <3>5 DEF JobNext
  <2> QED
    BY <2>6, <2>7
<1>3. CASE ~StopAppend(t)
  BY <1>1, <1>3 DEF StopBuild, StopProc, StopMeta, StopPoll, StopWait, worker
<1> QED
  BY <1>2, <1>3

LEMMA StepJob ==
    ASSUME Serial, Typed, Registered, Solo, [Next]_vars
    PROVE  JobNext \/ UNCHANGED Job
<1>1. ASSUME UNCHANGED <<procs, start, main, exit, files, wfile>> PROVE UNCHANGED Job
  BY <1>1 DEF Job, Outcome, Latest, Live, Gone
<1>2. ASSUME NEW t \in Pollers, BuildStatus(t) PROVE UNCHANGED Job
  BY <1>1, <1>2
  DEF BuildStatus, StatusProc, StatusMeta, StatusFile, StatusReply, worker
<1>3. CASE ServerRestart
  BY <1>3 DEF ServerRestart, Serial, Typed, TypeOK
<1>4. CASE Tick \/ UNCHANGED vars
  BY <1>1, <1>4 DEF Tick, vars, worker
<1> QED
  BY <1>2, <1>3, <1>4, StartJob, WorkerJob, StopJob DEF Next, WorkerStep

(* The three tools implement BuildPromise: a source's outcome moves from     *)
(* none, ran or broke to running, from running to ran or broke, and from ran *)
(* to broke only, and no step loses or replaces a running build.             *)
THEOREM PromiseKept == ASSUME Serial PROVE Spec => KeepsPromise
<1>1. Init => Promise!Init
  <2>1. ASSUME Init, NEW k \in Keys PROVE Latest(k) = NoWorker
    BY <2>1 DEF Init, Latest, Idle
  <2> QED
    BY <2>1 DEF Promise!Init, Outcome
<1>2. Typed /\ Registered /\ Solo /\ [Next]_vars => JobNext \/ UNCHANGED Job
  BY Serial, StepJob
<1>3. JobNext \/ UNCHANGED Job => [Promise!Next]_Job
  BY DEF JobNext, Promise!Next, Promise!Accept, Promise!Finish, Promise!Discard,
         Promise!Becomes, Job
<1> QED
  BY <1>1, <1>2, <1>3, AlwaysSolo, AlwaysRegistered, PTL
  DEF Spec, KeepsPromise, Promise!Spec, Job
=============================================================================
