------------------------------ MODULE LiveCode ------------------------------
(***************************************************************************)
(* What builds do to the code the server runs. The agent of a build writes *)
(* the source's module and its line in the package's REGISTRY; the server  *)
(* runs the function its own REGISTRY bound, until build_status reloads it *)
(* (core/hot_reload.py, interfaces/mcp_tools.py) or the server restarts.   *)
(*                                                                         *)
(* A build is a job of BuildPromise. A module on disk is modelled by the   *)
(* number of the revision in it and whether that revision imports; its     *)
(* bytecode by the revision it was compiled from, which may be an older    *)
(* one: Python tells them apart by second and length only.                 *)
(*                                                                         *)
(* An operator whose comment begins with "Mutant" is no part of the model: *)
(* it is the definition that follows it with a plausible bug in it.        *)
(***************************************************************************)
EXTENDS Naturals

CONSTANTS
    Keys,        \* source keys, all of one kind (one package)
    Pollers,     \* server threads that call build_status
    MaxRev,      \* bound on the revisions of a module
    MaxRestarts  \* bound on the restarts of the server

ASSUME LiveCodeAssumption ==
    MaxRev \in Nat \ {0} /\ MaxRestarts \in Nat

VARIABLES
    job,       \* of each source: see BuildPromise
    reload,    \* meta["reloaded"] of its latest build ("due" is FALSE), with
               \* the outcome: "ok", "failed", or "first" (plainly imported)
    \* the disk
    file,      \* core/<package>/<source>.py
    listed,    \* the sources the package's __init__.py registers
    pyc,       \* the revision in __pycache__ if it looks up to date, or 0
    \* the server process
    up, restarts,
    module,    \* the revision in sys.modules, 0 if it is not there
    registry,  \* the revision REGISTRY binds, 0 if it has none
    load       \* the threads inside reload_source_code

disk == <<file, listed, pyc>>
server == <<module, registry>>
vars == <<job, reload, disk, up, restarts, server, load>>

Builds == INSTANCE BuildPromise

Rev == 0..MaxRev
Absent == [rev |-> 0, good |-> FALSE]

(* `since` (observer) is the revision on disk when the reload began; a thread *)
(* is stale once another build has replaced the meta dict it works for.       *)
Loading == [pc : {"import", "drop", "reload", "package"}, key : Keys,
            outcome : {"first", "ok"}, since : Rev, stale : BOOLEAN]
Idle == [pc |-> "idle"]

TypeOK ==
    /\ Builds!TypeOK
    /\ reload \in [Keys -> {"due", "first", "ok", "failed", "lost"}]
    /\ file \in [Keys -> [rev : Rev, good : BOOLEAN]]
    /\ pyc \in [Keys -> Rev] /\ listed \subseteq Keys
    /\ up \in BOOLEAN /\ restarts \in 0..MaxRestarts
    /\ module \in [Keys -> Rev] /\ registry \in [Keys -> Rev]
    /\ load \in [Pollers -> Loading \cup {Idle}]

(* Some sources come with code that works, registered and in use. *)
Init ==
    /\ Builds!Init
    /\ reload = [k \in Keys |-> "lost"]
    /\ listed \in SUBSET Keys
    /\ file = [k \in Keys |-> IF k \in listed THEN [rev |-> 1, good |-> TRUE]
                              ELSE Absent]
    /\ pyc = [k \in Keys |-> file[k].rev]
    /\ up = TRUE /\ restarts = 0
    /\ module = [k \in Keys |-> file[k].rev]
    /\ registry = module
    /\ load = [t \in Pollers |-> Idle]

-----------------------------------------------------------------------------
(* Python's import of one module: bytecode that looks up to date wins. *)
Importable(k) == file[k].rev # 0 /\ (pyc[k] # 0 \/ file[k].good)

(* The revision it loads, and leaves in __pycache__. *)
Imported(k) == IF pyc[k] # 0 THEN pyc[k] ELSE file[k].rev

-----------------------------------------------------------------------------
(* A build. start_build stores a new meta dict, with no "reloaded" in it. *)

(* Mutant: the dict of the earlier build is updated, its flag stays. *)
BeginKeepsFlag(k) ==
    /\ up /\ Builds!Accept(k)
    /\ reload' = [reload EXCEPT ![k] = IF @ = "lost" THEN "due" ELSE @]
    /\ UNCHANGED <<disk, up, restarts, server, load>>

Begin(k) ==
    /\ up /\ Builds!Accept(k)
    /\ reload' = [reload EXCEPT ![k] = "due"]
    /\ load' = [t \in Pollers |-> IF load[t] # Idle /\ load[t].key = k
                                  THEN [load[t] EXCEPT !.stale = TRUE]
                                  ELSE load[t]]
    /\ UNCHANGED <<disk, up, restarts, server>>

(* The agent writes a revision. A command it launched survives the SIGTERM   *)
(* of stop_build and the watchdog's os._exit, and may still write. A revision *)
(* as long as the one compiled, written in the same second, is "quick".       *)
Write(k, good, quick) ==
    /\ job[k] \in {"running", "broke"} /\ file[k].rev < MaxRev
    /\ file' = [file EXCEPT ![k] = [rev |-> @.rev + 1, good |-> good]]
    /\ pyc' = IF quick THEN pyc ELSE [pyc EXCEPT ![k] = 0]
    /\ UNCHANGED <<job, reload, listed, up, restarts, server, load>>

(* It adds the source's line to the package's __init__.py. *)
Register(k) ==
    /\ job[k] = "running"
    /\ listed' = listed \cup {k}
    /\ UNCHANGED <<job, reload, file, pyc, up, restarts, server,
                   load>>

(* A test run of its own imports the module. *)
TestRun(k) ==
    /\ job[k] = "running" /\ Importable(k)
    /\ pyc' = [pyc EXCEPT ![k] = Imported(k)]
    /\ UNCHANGED <<job, reload, file, listed, up, restarts, server,
                   load>>

(* It runs to its end. Whether its verification is ok makes no difference.   *)
Finish(k) ==
    /\ Builds!Becomes(k, {"running"}, "ran")
    /\ UNCHANGED <<reload, disk, up, restarts, server, load>>

(* It raises, stalls, dies or is stopped. *)
Breaks(k) ==
    /\ Builds!Becomes(k, {"running", "ran"}, "broke")
    /\ UNCHANGED <<reload, disk, up, restarts, server, load>>

-----------------------------------------------------------------------------
(* reload_source_code, called by build_status for a job that ran. *)

LoadBegin(t, k) ==
    /\ up /\ load[t] = Idle
    /\ job[k] = "ran" /\ reload[k] = "due"
    /\ LET first == module[k] = 0
       IN  load' = [load EXCEPT ![t] =
                      [pc |-> IF first THEN "import" ELSE "drop", key |-> k,
                       outcome |-> IF first THEN "first" ELSE "ok",
                       since |-> file[k].rev, stale |-> FALSE]]
    /\ UNCHANGED <<job, reload, disk, up, restarts, server>>

(* Mutant: invalidate_caches() is believed to do it. *)
LoadKeepsBytecode(t) ==
    /\ load[t].pc = "drop"
    /\ load' = [load EXCEPT ![t].pc = "reload"]
    /\ UNCHANGED <<job, reload, disk, up, restarts, server>>

LoadDrop(t) ==
    /\ load[t].pc = "drop"
    /\ load' = [load EXCEPT ![t].pc = "reload"]
    /\ pyc' = [pyc EXCEPT ![load[t].key] = 0]
    /\ UNCHANGED <<job, reload, file, listed, up, restarts, server>>

(* Mutant: the meta dict is marked with the step reached. *)
LoadEndsAt(t, outcome) ==
    /\ load' = [load EXCEPT ![t] = Idle]
    /\ reload' = IF load[t].stale THEN reload
                 ELSE [reload EXCEPT ![load[t].key] = load[t].pc]

(* The reload returns `outcome`; either way the meta dict is marked. *)
LoadEnds(t, outcome) ==
    /\ load' = [load EXCEPT ![t] = Idle]
    /\ reload' = IF load[t].stale THEN reload
                 ELSE [reload EXCEPT ![load[t].key] = outcome]

(* Import or reload the module; an exception leaves the one in memory.       *)
Executes(t, k) ==
    /\ IF Importable(k)
       THEN /\ module' = [module EXCEPT ![k] = Imported(k)]
            /\ pyc' = [pyc EXCEPT ![k] = Imported(k)]
            /\ load' = [load EXCEPT ![t].pc = "package"]
            /\ UNCHANGED reload
       ELSE LoadEnds(t, "failed") /\ UNCHANGED <<module, pyc>>
    /\ UNCHANGED <<job, file, listed, up, restarts, registry>>

LoadReload(t) ==
    load[t].pc = "reload" /\ Executes(t, load[t].key)

(* import_module finds a module that another thread has imported meanwhile. *)
LoadImport(t) ==
    /\ load[t].pc = "import"
    /\ IF module[load[t].key] = 0 THEN Executes(t, load[t].key)
       ELSE /\ load' = [load EXCEPT ![t].pc = "package"]
            /\ UNCHANGED <<job, reload, disk, up, restarts, server>>

(* Importing the package imports the listed modules that are not in memory.  *)
Missing == {j \in listed : module[j] = 0}

Imports(S) ==
    /\ module' = [j \in Keys |-> IF j \in S THEN Imported(j) ELSE module[j]]
    /\ pyc' = [j \in Keys |-> IF j \in S THEN Imported(j) ELSE pyc[j]]

(* __init__ rebinds REGISTRY as its last act, or raises on its way there.    *)
LoadPackage(t) ==
    /\ load[t].pc = "package"
    /\ \/ /\ \A j \in Missing : Importable(j)
          /\ Imports(Missing)
          /\ registry' = [j \in Keys |-> IF j \in listed THEN module'[j] ELSE 0]
          /\ LoadEnds(t, load[t].outcome)
       \/ /\ \E j \in Missing : ~Importable(j)
          /\ \E S \in SUBSET {j \in Missing : Importable(j)} : Imports(S)
          /\ LoadEnds(t, "failed")
          /\ UNCHANGED registry
    /\ UNCHANGED <<job, file, listed, up, restarts>>

-----------------------------------------------------------------------------
(* The app stops while no build runs (those that do are BuildJob's), and     *)
(* with it go the meta dicts: build_status has nothing left to reload.       *)
Shutdown ==
    /\ up /\ restarts < MaxRestarts
    /\ \A k \in Keys : job[k] # "running"
    /\ up' = FALSE /\ restarts' = restarts + 1
    /\ reload' = [k \in Keys |-> "lost"]
    /\ load' = [t \in Pollers |-> Idle]
    /\ module' = [k \in Keys |-> 0] /\ registry' = [k \in Keys |-> 0]
    /\ UNCHANGED <<job, disk>>

(* The server imports core.parsers and core.scrapers as it starts, and ends  *)
(* if it cannot.                                                             *)
Bootable == \A k \in listed : Importable(k)

Boot ==
    /\ ~up /\ Bootable
    /\ up' = TRUE
    /\ Imports(listed)
    /\ registry' = module'
    /\ UNCHANGED <<job, reload, file, listed, restarts, load>>

-----------------------------------------------------------------------------
Build(k) ==
    \/ Begin(k)
    \/ \E good, quick \in BOOLEAN : Write(k, good, quick)
    \/ Register(k)
    \/ TestRun(k)
    \/ Finish(k)
    \/ Breaks(k)

Reload(t) ==
    \/ \E k \in Keys : LoadBegin(t, k)
    \/ LoadDrop(t)
    \/ LoadReload(t)
    \/ LoadImport(t)
    \/ LoadPackage(t)

Next ==
    \/ \E k \in Keys : Build(k)
    \/ \E t \in Pollers : Reload(t)
    \/ Shutdown
    \/ Boot

Spec == Init /\ [][Next]_vars

-----------------------------------------------------------------------------
(* The thread's reload ends in this step: it says "reloaded", or fails.      *)
Ends(t) == load[t] # Idle /\ load'[t] = Idle /\ up'
Succeeds(t) ==
    Ends(t) /\ load[t].pc = "package" /\ \A j \in Missing : Importable(j)

(* A reload that says "reloaded" leaves REGISTRY at code no older than what  *)
(* was on disk when it began, whatever other threads reload and however      *)
(* quickly the agent edits: "skipping any one of them silently leaves stale  *)
(* code in place" (hot_reload). Not for a first import, which drops nothing. *)
ReloadIsFresh ==
    [][\A t \in Pollers :
         LET l == load[t]
         IN  Succeeds(t) /\ l.outcome = "ok" /\ l.key \in listed
               => registry'[l.key] >= l.since]_vars

(* Once build_status has reloaded a finished build, the server runs what     *)
(* that build left on disk: the operator never runs the old code and         *)
(* concludes that the fix did nothing.                                       *)
FinishedBuildIsLive ==
    \A k \in listed :
        job[k] = "ran" /\ reload[k] = "ok" => registry[k] = file[k].rev

(* Restarting is a way out of a failed reload: "the operator can still       *)
(* restart by hand" (reload_source_code).                                    *)
RestartIsTheFallback ==
    [][\A t \in Pollers :
         Ends(t) /\ ~Succeeds(t) /\ (\A k \in Keys : job[k] # "running")
           => Bootable]_vars
=============================================================================
