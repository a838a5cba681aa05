--------------------------- MODULE LiveCodeProofs ---------------------------
(***************************************************************************)
(* What LiveCode promises, for any sources, threads and bounds: a reload   *)
(* that says "reloaded" leaves the server at code no older than it found   *)
(* on disk, and a finished build that was reloaded is what runs.           *)
(***************************************************************************)
EXTENDS LiveCode, TLAPS

-----------------------------------------------------------------------------
(* The inductive invariant. *)

(* Nothing compiled, imported or bound is newer than the file. *)
DiskFirst ==
    \A k \in Keys : /\ module[k] <= file[k].rev
                    /\ pyc[k] <= file[k].rev
                    /\ registry[k] <= file[k].rev

(* A server that is down reloads nothing and has nothing left to reload. *)
DownIsBlank ==
    ~up => /\ \A k \in Keys : reload[k] = "lost"
           /\ \A t \in Pollers : load[t] = Idle

(* The meta dict of a running build is new: it says nothing of a reload. *)
DueWhileItRuns == \A k \in Keys : job[k] = "running" => reload[k] = "due"

(* What a thread has achieved so far: past the drop, bytecode older than     *)
(* its beginning is gone; past the reload, so is such code in memory.        *)
Achieved(l) ==
    /\ l.since <= file[l.key].rev
    /\ l.pc = "import" => l.outcome = "first"
    /\ l.pc \in {"drop", "reload"} => l.outcome = "ok"
    /\ l.outcome = "ok" => module[l.key] # 0
    /\ l.pc \in {"reload", "package"} /\ l.outcome = "ok"
         => pyc[l.key] = 0 \/ pyc[l.key] >= l.since
    /\ l.pc = "package" /\ l.outcome = "ok" => module[l.key] >= l.since

(* While a thread works for the latest build, that build has ended, and if it *)
(* ran to its end nothing has been written since the thread began.            *)
WorksFor(l) ==
    ~l.stale => /\ job[l.key] \in {"ran", "broke"}
                /\ job[l.key] = "ran" => l.since = file[l.key].rev

LoadsInv ==
    \A t \in Pollers : load[t] # Idle => Achieved(load[t]) /\ WorksFor(load[t])

(* A finished build that was reloaded is in memory, in REGISTRY, and no older *)
(* bytecode lies around for a later import to find.                           *)
LiveInv ==
    \A k \in Keys : job[k] = "ran" /\ reload[k] = "ok" =>
        /\ module[k] = file[k].rev /\ pyc[k] \in {0, file[k].rev}
        /\ k \in listed => registry[k] = file[k].rev

Inv == TypeOK /\ DiskFirst /\ DownIsBlank /\ DueWhileItRuns
         /\ LoadsInv /\ LiveInv

-----------------------------------------------------------------------------
(* Lemmas about the operators. *)

LEMMA IdleIsNotLoading == \A l \in Loading : l # Idle
  BY DEF Loading, Idle

LEMMA LoadingFields ==
    ASSUME NEW l \in Loading
    PROVE  /\ l.pc \in {"import", "drop", "reload", "package"}
           /\ l.key \in Keys /\ l.outcome \in {"first", "ok"}
           /\ l.since \in Rev /\ l.stale \in BOOLEAN
  BY DEF Loading

(* A thread moves on: the other fields stay. *)
LEMMA MovesOn ==
    ASSUME NEW l \in Loading, NEW pc \in {"import", "drop", "reload", "package"}
    PROVE  LET m == [l EXCEPT !.pc = pc]
           IN  /\ m \in Loading /\ m.pc = pc /\ m.key = l.key
               /\ m.outcome = l.outcome /\ m.since = l.since
               /\ m.stale = l.stale
  BY DEF Loading

(* A thread becomes stale: the other fields stay. *)
LEMMA GrowsStale ==
    ASSUME NEW l \in Loading
    PROVE  LET m == [l EXCEPT !.stale = TRUE]
           IN  /\ m \in Loading /\ m.pc = l.pc /\ m.key = l.key
               /\ m.outcome = l.outcome /\ m.since = l.since /\ m.stale = TRUE
  BY DEF Loading

LEMMA BoundsOfRev == 0 \in Rev /\ 1 \in Rev /\ Rev \subseteq Nat
  BY LiveCodeAssumption DEF Rev

LEMMA ThreadType ==
    ASSUME TypeOK, NEW t \in Pollers, load[t] # Idle
    PROVE  load[t] \in Loading
  BY DEF TypeOK

(* Importing a module loads a revision that is or was on disk, as new as the *)
(* bytecode found.                                                           *)
LEMMA ImportedFacts ==
    ASSUME TypeOK, DiskFirst, NEW k \in Keys
    PROVE  /\ Imported(k) \in Rev /\ Imported(k) <= file[k].rev
           /\ Importable(k) => Imported(k) # 0
           /\ pyc[k] # 0 => Imported(k) = pyc[k]
           /\ pyc[k] = 0 => Imported(k) = file[k].rev
           /\ file[k].rev = 0 => ~Importable(k)
  <1>1. pyc[k] \in Rev /\ file[k].rev \in Rev
    BY DEF TypeOK
  <1>2. pyc[k] \in Nat /\ file[k].rev \in Nat
    BY <1>1, BoundsOfRev
  <1>3. pyc[k] <= file[k].rev
    BY DEF DiskFirst
  <1>q. QED
    BY <1>1, <1>2, <1>3 DEF Imported, Importable
-----------------------------------------------------------------------------
LEMMA InitInv == Init => Inv
  <1> SUFFICES ASSUME Init PROVE Inv OBVIOUS
  <1>1. \A k \in Keys : /\ file[k] \in [rev : Rev, good : BOOLEAN]
                       /\ file[k].rev \in Rev
    BY BoundsOfRev DEF Init, Absent
  <1>2. TypeOK
    <2>1. file \in [Keys -> [rev : Rev, good : BOOLEAN]]
      BY <1>1 DEF Init
    <2>2. pyc \in [Keys -> Rev] /\ module \in [Keys -> Rev]
          /\ registry \in [Keys -> Rev]
      BY <1>1 DEF Init
    <2>q. QED
      BY <2>1, <2>2, LiveCodeAssumption
      DEF Init, TypeOK, Builds!Init, Builds!TypeOK
  <1>3. DiskFirst
    <2> SUFFICES ASSUME NEW k \in Keys
                 PROVE  /\ module[k] <= file[k].rev /\ pyc[k] <= file[k].rev
                        /\ registry[k] <= file[k].rev
      BY DEF DiskFirst
    <2>1. /\ module[k] = file[k].rev /\ pyc[k] = file[k].rev
          /\ registry[k] = file[k].rev
      BY DEF Init
    <2>2. file[k].rev \in Nat BY <1>1, BoundsOfRev
    <2>q. QED BY <2>1, <2>2
  <1>4. DownIsBlank /\ DueWhileItRuns /\ LoadsInv /\ LiveInv
    BY DEF Init, Builds!Init, DownIsBlank, DueWhileItRuns, LoadsInv, LiveInv
  <1>q. QED BY <1>2, <1>3, <1>4 DEF Inv

-----------------------------------------------------------------------------
(* What the steps have in common. *)

LEMMA LoadEndsFacts ==
    ASSUME TypeOK, NEW t \in Pollers, load[t] # Idle,
           NEW outcome \in {"first", "ok", "failed"}, LoadEnds(t, outcome)
    PROVE  /\ load' \in [Pollers -> Loading \cup {Idle}]
           /\ reload' \in [Keys -> {"due", "first", "ok", "failed", "lost"}]
           /\ load'[t] = Idle
           /\ \A u \in Pollers : u # t => load'[u] = load[u]
           /\ \A k \in Keys : reload'[k] # reload[k]
                 => /\ k = load[t].key /\ ~load[t].stale
                    /\ reload'[k] = outcome
  <1>1. load[t] \in Loading BY ThreadType
  <1>2. load[t].key \in Keys BY <1>1, LoadingFields
  <1>q. QED BY <1>2 DEF LoadEnds, TypeOK

(* What an import of the modules in S does to memory and bytecode. *)
LEMMA ImportsFacts ==
    ASSUME TypeOK, DiskFirst, NEW S \in SUBSET Keys,
           \A j \in S : Importable(j), Imports(S)
    PROVE  /\ module' \in [Keys -> Rev] /\ pyc' \in [Keys -> Rev]
           /\ \A j \in Keys : /\ module'[j] <= file[j].rev
                              /\ pyc'[j] <= file[j].rev
                              /\ j \in S => /\ module'[j] # 0
                                           /\ pyc'[j] = module'[j]
                                           /\ module'[j] = Imported(j)
                              /\ j \notin S => /\ module'[j] = module[j]
                                              /\ pyc'[j] = pyc[j]
  <1>1. \A j \in Keys : /\ module'[j] = IF j \in S THEN Imported(j) ELSE module[j]
                       /\ pyc'[j] = IF j \in S THEN Imported(j) ELSE pyc[j]
    BY DEF Imports
  <1>2. \A j \in Keys : /\ module[j] \in Rev /\ pyc[j] \in Rev
                       /\ module[j] <= file[j].rev /\ pyc[j] <= file[j].rev
    BY DEF TypeOK, DiskFirst
  <1>4. ASSUME NEW j \in Keys
        PROVE  /\ module'[j] \in Rev /\ module'[j] <= file[j].rev
               /\ pyc'[j] \in Rev /\ pyc'[j] <= file[j].rev
               /\ j \in S => /\ module'[j] # 0 /\ pyc'[j] = module'[j]
                            /\ module'[j] = Imported(j)
               /\ j \notin S => /\ module'[j] = module[j] /\ pyc'[j] = pyc[j]
    <2>1. CASE j \in S
      <3>1. module'[j] = Imported(j) /\ pyc'[j] = Imported(j)
        BY <2>1, <1>1
      <3>2. Importable(j) BY <2>1
      <3>3. Imported(j) # 0 BY <3>2, ImportedFacts
      <3>4. Imported(j) \in Rev /\ Imported(j) <= file[j].rev BY ImportedFacts
      <3>5. module'[j] # 0 BY <3>1, <3>3
      <3>6. module'[j] \in Rev /\ module'[j] <= file[j].rev
        BY <3>1, <3>4
      <3>7. pyc'[j] = module'[j] BY <3>1
      <3>q. QED BY <2>1, <3>1, <3>5, <3>6, <3>7
    <2>2. CASE j \notin S
      <3>1. module'[j] = module[j] /\ pyc'[j] = pyc[j]
        BY <2>2, <1>1
      <3>q. QED BY <2>2, <3>1, <1>2
    <2>q. QED BY <2>1, <2>2
  <1>5. module' \in [Keys -> Rev] /\ pyc' \in [Keys -> Rev]
    <2>1. module' = [j \in Keys |-> module'[j]] /\ pyc' = [j \in Keys |-> pyc'[j]]
      BY DEF Imports
    <2>q. QED BY <1>4, <2>1
  <1>q. QED BY <1>4, <1>5

(* Every step that runs inside a thread starts from a thread at work. *)
LEMMA AtWork ==
    ASSUME TypeOK, NEW t \in Pollers,
           load[t].pc \in {"import", "drop", "reload", "package"}
    PROVE  /\ load[t] # Idle /\ load[t] \in Loading
           /\ load[t].key \in Keys /\ load[t].outcome \in {"first", "ok"}
           /\ load[t].since \in Rev /\ load[t].stale \in BOOLEAN
  <1>1. load[t] # Idle BY DEF Idle
  <1>2. load[t] \in Loading BY <1>1, ThreadType
  <1>q. QED BY <1>1, <1>2, LoadingFields

(* Import or reload of one module, on its two ways out. *)
LEMMA ExecutesFacts ==
    ASSUME TypeOK, DiskFirst, NEW t \in Pollers,
           load[t].pc \in {"import", "reload"}, Executes(t, load[t].key)
    PROVE  /\ module' \in [Keys -> Rev] /\ pyc' \in [Keys -> Rev]
           /\ reload' \in [Keys -> {"due", "first", "ok", "failed", "lost"}]
           /\ load' \in [Pollers -> Loading \cup {Idle}]
           /\ \A u \in Pollers : u # t => load'[u] = load[u]
           /\ \A j \in Keys \ {load[t].key} : /\ module'[j] = module[j]
                                             /\ pyc'[j] = pyc[j]
           /\ \A k \in Keys : reload'[k] # reload[k] => reload'[k] = "failed"
           /\ \/ /\ Importable(load[t].key) /\ reload' = reload
                 /\ module'[load[t].key] = Imported(load[t].key)
                 /\ pyc'[load[t].key] = Imported(load[t].key)
                 /\ load'[t] = [load[t] EXCEPT !.pc = "package"]
              \/ /\ ~Importable(load[t].key)
                 /\ module' = module /\ pyc' = pyc /\ load'[t] = Idle
  <1> DEFINE k == load[t].key
  <1>1. load[t] # Idle /\ load[t] \in Loading /\ k \in Keys
    BY AtWork
  <1>2. CASE Importable(k)
    <2>1. Imported(k) \in Rev BY <1>1, ImportedFacts
    <2>2. [load[t] EXCEPT !.pc = "package"] \in Loading
      BY <1>1, MovesOn
    <2>3. /\ module' = [module EXCEPT ![k] = Imported(k)]
          /\ pyc' = [pyc EXCEPT ![k] = Imported(k)]
          /\ load' = [load EXCEPT ![t].pc = "package"] /\ reload' = reload
      BY <1>2 DEF Executes
    <2>4. load' = [load EXCEPT ![t] = [load[t] EXCEPT !.pc = "package"]]
      BY <2>3
    <2>q. QED BY <1>1, <1>2, <2>1, <2>2, <2>3, <2>4 DEF TypeOK
  <1>3. CASE ~Importable(k)
    <2>1. LoadEnds(t, "failed") /\ module' = module /\ pyc' = pyc
      BY <1>3 DEF Executes
    <2>2. /\ load' \in [Pollers -> Loading \cup {Idle}]
          /\ reload' \in [Keys -> {"due", "first", "ok", "failed", "lost"}]
          /\ load'[t] = Idle
          /\ \A u \in Pollers : u # t => load'[u] = load[u]
          /\ \A j \in Keys : reload'[j] # reload[j] => reload'[j] = "failed"
      BY <1>1, <2>1, LoadEndsFacts
    <2>q. QED BY <1>3, <2>1, <2>2 DEF TypeOK
  <1>q. QED BY <1>2, <1>3
-----------------------------------------------------------------------------
(* The steps of a build keep the invariant. *)

LEMMA BeginStep == ASSUME Inv, NEW k \in Keys, Begin(k) PROVE Inv'
  <1> USE DEF Inv
  <1>1. /\ up /\ job' = [job EXCEPT ![k] = "running"]
        /\ reload' = [reload EXCEPT ![k] = "due"]
        /\ UNCHANGED <<disk, up, restarts, server>>
    BY DEF Begin, Builds!Accept, Builds!Becomes
  <1>2. \A t \in Pollers :
          /\ load[t] = Idle => load'[t] = Idle
          /\ load[t] # Idle => /\ load'[t] \in Loading /\ load'[t] # Idle
                              /\ load'[t].pc = load[t].pc
                              /\ load'[t].key = load[t].key
                              /\ load'[t].outcome = load[t].outcome
                              /\ load'[t].since = load[t].since
                              /\ load'[t].stale = (load[t].stale \/ load[t].key = k)
    <2> SUFFICES ASSUME NEW t \in Pollers
                 PROVE  /\ load[t] = Idle => load'[t] = Idle
                        /\ load[t] # Idle =>
                             /\ load'[t] \in Loading /\ load'[t] # Idle
                             /\ load'[t].pc = load[t].pc
                             /\ load'[t].key = load[t].key
                             /\ load'[t].outcome = load[t].outcome
                             /\ load'[t].since = load[t].since
                             /\ load'[t].stale = (load[t].stale \/ load[t].key = k)
      OBVIOUS
    <2>1. load'[t] = IF load[t] # Idle /\ load[t].key = k
                     THEN [load[t] EXCEPT !.stale = TRUE] ELSE load[t]
      BY DEF Begin
    <2>2. CASE load[t] = Idle BY <2>1, <2>2
    <2>3. CASE load[t] # Idle
      <3>1. load[t] \in Loading BY <2>3, ThreadType
      <3>2. load[t].stale \in BOOLEAN BY <3>1, LoadingFields
      <3>3. CASE load[t].key = k
        <4>1. load'[t] = [load[t] EXCEPT !.stale = TRUE] BY <2>1, <2>3, <3>3
        <4>q. QED BY <2>3, <3>1, <3>3, <4>1, GrowsStale, IdleIsNotLoading
      <3>4. CASE load[t].key # k
        <4>1. load'[t] = load[t] BY <2>1, <3>4
        <4>q. QED BY <2>3, <3>1, <3>2, <3>4, <4>1
      <3>q. QED BY <3>3, <3>4
    <2>q. QED BY <2>2, <2>3
  <1>3. TypeOK'
    <2>1. load' \in [Pollers -> Loading \cup {Idle}]
      <3>1. load' = [t \in Pollers |-> load'[t]] BY DEF Begin
      <3>q. QED BY <3>1, <1>2
    <2>q. QED BY <1>1, <2>1 DEF TypeOK, Builds!TypeOK, disk, server
  <1>4. DiskFirst' /\ DownIsBlank' /\ DueWhileItRuns'
    BY <1>1 DEF DiskFirst, DownIsBlank, DueWhileItRuns, disk, server, TypeOK,
                Builds!TypeOK
  <1>5. LoadsInv'
    <2> SUFFICES ASSUME NEW t \in Pollers, load'[t] # Idle
                 PROVE  Achieved(load[t])' /\ WorksFor(load[t])'
      BY DEF LoadsInv
    <2>1. load[t] # Idle /\ load[t] \in Loading /\ load[t].key \in Keys
          /\ load[t].stale \in BOOLEAN
      BY <1>2, ThreadType, LoadingFields
    <2>2. Achieved(load[t]) /\ WorksFor(load[t])
      BY <2>1 DEF LoadsInv
    <2>3. Achieved(load[t])'
      BY <1>1, <1>2, <2>1, <2>2 DEF Achieved, disk, server
    <2>4. WorksFor(load[t])'
      BY <1>1, <1>2, <2>1, <2>2 DEF WorksFor, disk, TypeOK, Builds!TypeOK
    <2>q. QED BY <2>3, <2>4
  <1>6. LiveInv'
    BY <1>1 DEF LiveInv, disk, server, TypeOK, Builds!TypeOK
  <1>q. QED BY <1>3, <1>4, <1>5, <1>6

(* What a write does, whether or not it is a quick one. *)
LEMMA WriteFacts ==
    ASSUME NEW k \in Keys, \E good, quick \in BOOLEAN : Write(k, good, quick)
    PROVE  /\ job[k] \in {"running", "broke"} /\ file[k].rev < MaxRev
           /\ \E good \in BOOLEAN :
                file' = [file EXCEPT ![k] = [rev |-> file[k].rev + 1, good |-> good]]
           /\ pyc' = pyc \/ pyc' = [pyc EXCEPT ![k] = 0]
           /\ UNCHANGED <<job, reload, listed, up, restarts, server, load>>
  BY DEF Write

LEMMA WriteStep ==
    ASSUME Inv, NEW k \in Keys, NEW good \in BOOLEAN,
           job[k] \in {"running", "broke"}, file[k].rev < MaxRev,
           file' = [file EXCEPT ![k] = [rev |-> file[k].rev + 1, good |-> good]],
           pyc' = pyc \/ pyc' = [pyc EXCEPT ![k] = 0],
           UNCHANGED <<job, reload, listed, up, restarts, server, load>>
    PROVE  Inv'
  <1> USE DEF Inv
  <1>1. /\ job[k] \in {"running", "broke"} /\ file[k].rev < MaxRev
        /\ file' = [file EXCEPT ![k] = [rev |-> file[k].rev + 1, good |-> good]]
        /\ UNCHANGED <<job, reload, listed, up, restarts, server, load>>
    OBVIOUS
  <1>2. \A j \in Keys : file[j].rev \in Rev /\ file[j].rev \in Nat
    BY BoundsOfRev DEF TypeOK
  <1>3. \A j \in Keys : /\ j # k => file'[j] = file[j]
                       /\ j = k => file'[j] = [rev |-> file[k].rev + 1, good |-> good]
    BY <1>1 DEF TypeOK
  <1>4. \A j \in Keys : /\ j # k => file'[j].rev = file[j].rev
                       /\ j = k => file'[j].rev = file[k].rev + 1
    BY <1>3
  <1>5. file[k].rev + 1 \in Rev
    BY <1>1, <1>2, LiveCodeAssumption DEF Rev
  <1>6. \A j \in Keys : pyc'[j] \in Nat /\ (pyc'[j] # 0 => pyc'[j] = pyc[j])
    BY BoundsOfRev DEF TypeOK
  <1>6a. \A j \in Keys : j # k => pyc'[j] = pyc[j]
    BY DEF TypeOK
  <1>7. TypeOK'
    <2>1. [rev |-> file[k].rev + 1, good |-> good] \in [rev : Rev, good : BOOLEAN]
      BY <1>5
    <2>2. file' \in [Keys -> [rev : Rev, good : BOOLEAN]]
      BY <1>1, <2>1 DEF TypeOK
    <2>3. pyc' \in [Keys -> Rev]
      BY BoundsOfRev DEF TypeOK
    <2>q. QED BY <1>1, <2>2, <2>3 DEF TypeOK, Builds!TypeOK, server
  <1>8. DiskFirst'
    <2> SUFFICES ASSUME NEW j \in Keys
                 PROVE  /\ module'[j] <= file'[j].rev
                        /\ pyc'[j] <= file'[j].rev /\ registry'[j] <= file'[j].rev
      BY DEF DiskFirst
    <2>1. /\ module[j] \in Nat /\ pyc[j] \in Nat /\ registry[j] \in Nat
          /\ module[j] <= file[j].rev /\ pyc[j] <= file[j].rev
          /\ registry[j] <= file[j].rev
      BY BoundsOfRev DEF DiskFirst, TypeOK
    <2>2. file'[j].rev = file[j].rev \/ file'[j].rev = file[j].rev + 1
      BY <1>4
    <2>3. module'[j] = module[j] /\ registry'[j] = registry[j]
      BY <1>1 DEF server
    <2>4. pyc'[j] = 0 \/ pyc'[j] = pyc[j]
      BY <1>6
    <2>5. file[j].rev \in Nat BY <1>2
    <2>q. QED BY <2>1, <2>2, <2>3, <2>4, <2>5
  <1>9. DownIsBlank' /\ DueWhileItRuns'
    BY <1>1 DEF DownIsBlank, DueWhileItRuns
  <1>10. LoadsInv'
    <2> SUFFICES ASSUME NEW t \in Pollers, load[t] # Idle
                 PROVE  Achieved(load[t])' /\ WorksFor(load[t])'
      BY <1>1 DEF LoadsInv
    <2>1. load[t] \in Loading /\ load[t].key \in Keys /\ load[t].since \in Nat
      BY ThreadType, LoadingFields, BoundsOfRev
    <2>2. Achieved(load[t]) /\ WorksFor(load[t])
      BY DEF LoadsInv
    <2>3. Achieved(load[t])'
      <3> DEFINE j == load[t].key
      <3>1. file'[j].rev = file[j].rev \/ file'[j].rev = file[j].rev + 1
        BY <1>4, <2>1
      <3>2. file[j].rev \in Nat BY <1>2, <2>1
      <3>3. pyc'[j] = 0 \/ pyc'[j] = pyc[j]
        BY <1>6, <2>1
      <3>4. load' = load /\ module' = module BY <1>1 DEF server
      <3>5. load[t].since <= file'[j].rev
        BY <2>1, <2>2, <3>1, <3>2 DEF Achieved
      <3>q. QED BY <2>2, <3>3, <3>4, <3>5 DEF Achieved
    <2>4. WorksFor(load[t])'
      BY <1>1, <1>4, <2>1, <2>2 DEF WorksFor
    <2>q. QED BY <2>3, <2>4
  <1>11. LiveInv'
    <2> SUFFICES ASSUME NEW j \in Keys, job'[j] = "ran", reload'[j] = "ok"
                 PROVE  /\ module'[j] = file'[j].rev
                        /\ pyc'[j] \in {0, file'[j].rev}
                        /\ j \in listed' => registry'[j] = file'[j].rev
      BY DEF LiveInv
    <2>1. j # k /\ job[j] = "ran" /\ reload[j] = "ok" BY <1>1
    <2>2. file'[j].rev = file[j].rev /\ pyc'[j] = pyc[j]
      BY <1>4, <1>6a, <2>1
    <2>q. QED BY <1>1, <2>1, <2>2 DEF LiveInv, server
  <1>q. QED BY <1>7, <1>8, <1>9, <1>10, <1>11

LEMMA RegisterStep == ASSUME Inv, NEW k \in Keys, Register(k) PROVE Inv'
  <1> USE DEF Inv
  <1>1. /\ job[k] = "running" /\ listed' = listed \cup {k}
        /\ UNCHANGED <<job, reload, file, pyc, up, restarts, server, load>>
    BY DEF Register
  <1>2. TypeOK' BY <1>1 DEF TypeOK, Builds!TypeOK, server
  <1>3. DiskFirst' /\ DownIsBlank' /\ DueWhileItRuns'
    BY <1>1 DEF DiskFirst, DownIsBlank, DueWhileItRuns, server
  <1>4. LoadsInv' BY <1>1 DEF LoadsInv, Achieved, WorksFor, server
  <1>5. LiveInv' BY <1>1 DEF LiveInv, server
  <1>q. QED BY <1>2, <1>3, <1>4, <1>5

LEMMA TestRunStep == ASSUME Inv, NEW k \in Keys, TestRun(k) PROVE Inv'
  <1> USE DEF Inv
  <1>1. /\ job[k] = "running" /\ Importable(k)
        /\ pyc' = [pyc EXCEPT ![k] = Imported(k)]
        /\ UNCHANGED <<job, reload, file, listed, up, restarts, server, load>>
    BY DEF TestRun
  <1>2. /\ Imported(k) \in Rev /\ Imported(k) <= file[k].rev
        /\ pyc[k] # 0 => Imported(k) = pyc[k]
        /\ pyc[k] = 0 => Imported(k) = file[k].rev
    BY ImportedFacts
  <1>3. TypeOK' BY <1>1, <1>2 DEF TypeOK, Builds!TypeOK, server
  <1>4. DiskFirst' /\ DownIsBlank' /\ DueWhileItRuns'
    <2>1. DiskFirst'
      BY <1>1, <1>2 DEF DiskFirst, TypeOK, server
    <2>q. QED BY <1>1, <2>1 DEF DownIsBlank, DueWhileItRuns
  <1>5. LoadsInv'
    <2> SUFFICES ASSUME NEW t \in Pollers, load[t] # Idle
                 PROVE  Achieved(load[t])' /\ WorksFor(load[t])'
      BY <1>1 DEF LoadsInv
    <2>1. load[t] \in Loading /\ load[t].key \in Keys /\ load[t].since \in Nat
      BY ThreadType, LoadingFields, BoundsOfRev
    <2>2. Achieved(load[t]) /\ WorksFor(load[t])
      BY DEF LoadsInv
    <2>3. \A j \in Keys : j # k => pyc'[j] = pyc[j]
      BY <1>1 DEF TypeOK
    <2>4. pyc'[k] = Imported(k)
      BY <1>1 DEF TypeOK
    <2>5. Achieved(load[t])'
      BY <1>1, <1>2, <2>1, <2>2, <2>3, <2>4 DEF Achieved, server
    <2>6. WorksFor(load[t])'
      BY <1>1, <2>2 DEF WorksFor
    <2>q. QED BY <2>5, <2>6
  <1>6. LiveInv' BY <1>1 DEF LiveInv, TypeOK, server
  <1>q. QED BY <1>3, <1>4, <1>5, <1>6

(* A build that ends says nothing of a reload, and no thread works for it yet. *)
LEMMA EndStep ==
    ASSUME Inv, NEW k \in Keys, Finish(k) \/ Breaks(k) PROVE Inv'
  <1> USE DEF Inv
  <1>1. PICK end \in {"ran", "broke"} :
          /\ job' = [job EXCEPT ![k] = end]
          /\ end = "ran" => job[k] = "running"
    BY DEF Finish, Breaks, Builds!Becomes
  <1>2. UNCHANGED <<reload, disk, up, restarts, server, load>>
    BY DEF Finish, Breaks
  <1>3. TypeOK' BY <1>1, <1>2 DEF TypeOK, Builds!TypeOK, disk, server
  <1>4. DiskFirst' /\ DownIsBlank' /\ DueWhileItRuns'
    BY <1>1, <1>2 DEF DiskFirst, DownIsBlank, DueWhileItRuns, disk, server,
                      TypeOK, Builds!TypeOK
  <1>5. LoadsInv'
    <2> SUFFICES ASSUME NEW t \in Pollers, load[t] # Idle
                 PROVE  Achieved(load[t])' /\ WorksFor(load[t])'
      BY <1>2 DEF LoadsInv
    <2>1. load[t] \in Loading /\ load[t].key \in Keys
      BY ThreadType, LoadingFields
    <2>2. Achieved(load[t]) /\ WorksFor(load[t])
      BY DEF LoadsInv
    <2>3. Achieved(load[t])'
      BY <1>2, <2>2 DEF Achieved, disk, server
    <2>4. WorksFor(load[t])'
      BY <1>1, <1>2, <2>1, <2>2 DEF WorksFor, disk, TypeOK, Builds!TypeOK
    <2>q. QED BY <2>3, <2>4
  <1>6. LiveInv'
    BY <1>1, <1>2 DEF LiveInv, DueWhileItRuns, disk, server, TypeOK, Builds!TypeOK
  <1>q. QED BY <1>3, <1>4, <1>5, <1>6
-----------------------------------------------------------------------------
(* The steps of a reload keep the invariant. *)

(* What a thread has achieved survives the imports of another thread, which  *)
(* leave in memory and in the bytecode what is on disk or was compiled before. *)
LEMMA OthersKeep ==
    ASSUME Inv, NEW t \in Pollers, load[t] # Idle, load'[t] = load[t],
           file' = file, job' = job,
           \A j \in Keys : module'[j] \in Nat /\ pyc'[j] \in Nat,
           \A j \in Keys : module'[j] # module[j]
             => /\ module'[j] # 0
                /\ pyc[j] # 0 => module'[j] = pyc[j]
                /\ pyc[j] = 0 => module'[j] = file[j].rev,
           \A j \in Keys : pyc'[j] # pyc[j] /\ pyc'[j] # 0
             => pyc[j] = 0 /\ pyc'[j] = file[j].rev
    PROVE  Achieved(load[t])' /\ WorksFor(load[t])'
  <1>1. load[t] \in Loading /\ load[t].key \in Keys /\ load[t].since \in Nat
    BY ThreadType, LoadingFields, BoundsOfRev DEF Inv
  <1>2. Achieved(load[t]) /\ WorksFor(load[t])
    BY DEF Inv, LoadsInv
  <1> DEFINE j == load[t].key
  <1>3. file[j].rev \in Nat /\ pyc[j] \in Nat /\ module[j] \in Nat
    BY <1>1, BoundsOfRev DEF Inv, TypeOK
  <1>4. /\ module'[j] # module[j] =>
             /\ module'[j] # 0
             /\ pyc[j] # 0 => module'[j] = pyc[j]
             /\ pyc[j] = 0 => module'[j] = file[j].rev
        /\ pyc'[j] # pyc[j] /\ pyc'[j] # 0 => pyc[j] = 0 /\ pyc'[j] = file[j].rev
    BY <1>1
  <1>5. load[t].since <= file[j].rev
    BY <1>2 DEF Achieved
  <1>6. load[t].outcome = "ok" => module'[j] # 0
    BY <1>2, <1>4 DEF Achieved
  <1>7. load[t].pc \in {"reload", "package"} /\ load[t].outcome = "ok"
          => pyc'[j] = 0 \/ pyc'[j] >= load[t].since
    BY <1>2, <1>3, <1>4, <1>5 DEF Achieved
  <1>8. load[t].pc = "package" /\ load[t].outcome = "ok"
          => module'[j] >= load[t].since
    BY <1>2, <1>3, <1>4, <1>5 DEF Achieved
  <1>9. Achieved(load[t])'
    BY <1>2, <1>5, <1>6, <1>7, <1>8 DEF Achieved
  <1>10. WorksFor(load[t])' BY <1>2 DEF WorksFor
  <1>q. QED BY <1>9, <1>10

LEMMA LoadBeginStep ==
    ASSUME Inv, NEW t \in Pollers, NEW k \in Keys, LoadBegin(t, k)
    PROVE  Inv'
  <1> USE DEF Inv
  <1> DEFINE l == [pc |-> IF module[k] = 0 THEN "import" ELSE "drop", key |-> k,
                   outcome |-> IF module[k] = 0 THEN "first" ELSE "ok",
                   since |-> file[k].rev, stale |-> FALSE]
  <1>1. /\ up /\ load[t] = Idle /\ job[k] = "ran" /\ load' = [load EXCEPT ![t] = l]
        /\ UNCHANGED <<job, reload, disk, up, restarts, server>>
    BY DEF LoadBegin
  <1>2. l \in Loading
    BY DEF Loading, TypeOK
  <1>3. /\ l.pc = (IF module[k] = 0 THEN "import" ELSE "drop") /\ l.key = k
        /\ l.outcome = (IF module[k] = 0 THEN "first" ELSE "ok")
        /\ l.since = file[k].rev /\ l.stale = FALSE
    OBVIOUS
  <1>4. load'[t] = l /\ \A u \in Pollers : u # t => load'[u] = load[u]
    BY <1>1 DEF TypeOK
  <1> HIDE DEF l
  <1>5. TypeOK' BY <1>1, <1>2 DEF TypeOK, Builds!TypeOK, disk, server
  <1>6. DiskFirst' /\ DownIsBlank' /\ DueWhileItRuns' /\ LiveInv'
    BY <1>1 DEF DiskFirst, DownIsBlank, DueWhileItRuns, LiveInv, disk, server
  <1>7. LoadsInv'
    <2> SUFFICES ASSUME NEW u \in Pollers, load'[u] # Idle
                 PROVE  Achieved(load[u])' /\ WorksFor(load[u])'
      BY DEF LoadsInv
    <2>1. CASE u = t
      <3>1. file[k].rev \in Nat /\ job[k] = "ran"
        BY <1>1, BoundsOfRev DEF TypeOK
      <3>2. Achieved(load[u])'
        BY <1>1, <1>3, <1>4, <2>1, <3>1 DEF Achieved, disk, server
      <3>3. WorksFor(load[u])'
        BY <1>1, <1>3, <1>4, <2>1, <3>1 DEF WorksFor, disk
      <3>q. QED BY <3>2, <3>3
    <2>2. CASE u # t
      <3>1. load'[u] = load[u] BY <1>4, <2>2
      <3>2. Achieved(load[u]) /\ WorksFor(load[u]) BY <3>1 DEF LoadsInv
      <3>q. QED BY <1>1, <3>1, <3>2 DEF Achieved, WorksFor, disk, server
    <2>q. QED BY <2>1, <2>2
  <1>q. QED BY <1>5, <1>6, <1>7

(* A build that is live stays live when other modules are imported and while *)
(* its own is imported again.                                                *)
LEMMA LiveKept ==
    ASSUME Inv, UNCHANGED <<job, file, listed>>,
           NEW k \in Keys, job[k] = "ran", reload[k] = "ok",
           /\ module'[k] # module[k] =>
                /\ pyc[k] # 0 => module'[k] = pyc[k]
                /\ pyc[k] = 0 => module'[k] = file[k].rev
           /\ pyc'[k] # pyc[k] /\ pyc'[k] # 0 => pyc'[k] = file[k].rev,
           k \in listed => registry'[k] = registry[k] \/ registry'[k] = module'[k]
    PROVE  /\ module'[k] = file'[k].rev /\ pyc'[k] \in {0, file'[k].rev}
           /\ k \in listed' => registry'[k] = file'[k].rev
  <1>1. /\ module[k] = file[k].rev /\ pyc[k] \in {0, file[k].rev}
        /\ k \in listed => registry[k] = file[k].rev
    BY DEF Inv, LiveInv
  <1>2. module'[k] = file[k].rev BY <1>1
  <1>3. pyc'[k] \in {0, file[k].rev} BY <1>1
  <1>4. k \in listed => registry'[k] = file[k].rev BY <1>1, <1>2
  <1>q. QED BY <1>2, <1>3, <1>4

LEMMA LoadDropStep ==
    ASSUME Inv, NEW t \in Pollers, LoadDrop(t) PROVE Inv'
  <1> USE DEF Inv
  <1> DEFINE k == load[t].key
             m == [load[t] EXCEPT !.pc = "reload"]
  <1>0. load[t].pc = "drop" BY DEF LoadDrop
  <1>1. /\ load' = [load EXCEPT ![t] = m] /\ pyc' = [pyc EXCEPT ![k] = 0]
        /\ UNCHANGED <<job, reload, file, listed, up, restarts, server>>
    BY DEF LoadDrop
  <1>2. load[t] # Idle /\ load[t] \in Loading /\ k \in Keys
    BY <1>0, AtWork
  <1>3. /\ m \in Loading /\ m.pc = "reload" /\ m.key = k
        /\ m.outcome = load[t].outcome /\ m.since = load[t].since
        /\ m.stale = load[t].stale
    BY <1>2, MovesOn
  <1> HIDE DEF m
  <1>4. load'[t] = m /\ \A u \in Pollers : u # t => load'[u] = load[u]
    BY <1>1 DEF TypeOK
  <1>5. \A j \in Keys : pyc'[j] = IF j = k THEN 0 ELSE pyc[j]
    BY <1>1 DEF TypeOK
  <1>5a. \A j \in Keys : /\ file[j].rev \in Nat /\ module[j] \in Nat
                        /\ pyc[j] \in Nat /\ pyc'[j] \in Nat
    BY <1>5, BoundsOfRev DEF TypeOK
  <1>6. TypeOK'
    BY <1>1, <1>3, BoundsOfRev DEF TypeOK, Builds!TypeOK, server
  <1>7. DiskFirst'
    <2> SUFFICES ASSUME NEW j \in Keys
                 PROVE  /\ module'[j] <= file'[j].rev
                        /\ pyc'[j] <= file'[j].rev /\ registry'[j] <= file'[j].rev
      BY DEF DiskFirst
    <2>1. /\ module[j] <= file[j].rev /\ pyc[j] <= file[j].rev
          /\ registry[j] <= file[j].rev
      BY DEF DiskFirst
    <2>q. QED BY <1>1, <1>5, <1>5a, <2>1 DEF server
  <1>8. DownIsBlank' /\ DueWhileItRuns'
    BY <1>1, <1>2 DEF DownIsBlank, DueWhileItRuns
  <1>9. LoadsInv'
    <2> SUFFICES ASSUME NEW u \in Pollers, load'[u] # Idle
                 PROVE  Achieved(load[u])' /\ WorksFor(load[u])'
      BY DEF LoadsInv
    <2>1. CASE u = t
      <3>1. Achieved(load[t]) /\ WorksFor(load[t]) BY <1>2 DEF LoadsInv
      <3>2. pyc'[k] = 0 BY <1>2, <1>5
      <3>3. Achieved(load[u])'
        BY <1>0, <1>1, <1>3, <1>4, <2>1, <3>1, <3>2 DEF Achieved, server
      <3>4. WorksFor(load[u])'
        BY <1>1, <1>3, <1>4, <2>1, <3>1 DEF WorksFor
      <3>q. QED BY <3>3, <3>4
    <2>2. CASE u # t
      <3>1. load'[u] = load[u] /\ load[u] # Idle BY <1>4, <2>2
      <3>q. QED BY <1>1, <1>5, <1>5a, <3>1, OthersKeep DEF server
    <2>q. QED BY <2>1, <2>2
  <1>10. LiveInv'
    <2> SUFFICES ASSUME NEW j \in Keys, job'[j] = "ran", reload'[j] = "ok"
                 PROVE  /\ module'[j] = file'[j].rev
                        /\ pyc'[j] \in {0, file'[j].rev}
                        /\ j \in listed' => registry'[j] = file'[j].rev
      BY DEF LiveInv
    <2>q. QED BY <1>1, <1>5, LiveKept DEF server
  <1>q. QED BY <1>6, <1>7, <1>8, <1>9, <1>10

(* Both ways in which reload_source_code imports the module itself. *)
LEMMA ExecutesStep ==
    ASSUME Inv, NEW t \in Pollers, load[t].pc \in {"import", "reload"},
           load[t].pc = "import" => module[load[t].key] = 0,
           Executes(t, load[t].key)
    PROVE  Inv'
  <1> USE DEF Inv
  <1> DEFINE k == load[t].key
             m == [load[t] EXCEPT !.pc = "package"]
  <1>1. load[t] # Idle /\ load[t] \in Loading /\ k \in Keys
        /\ load[t].since \in Nat
    BY AtWork, BoundsOfRev
  <1>2. UNCHANGED <<job, file, listed, up, restarts, registry>>
    BY DEF Executes
  <1>3. /\ module' \in [Keys -> Rev] /\ pyc' \in [Keys -> Rev]
        /\ reload' \in [Keys -> {"due", "first", "ok", "failed", "lost"}]
        /\ load' \in [Pollers -> Loading \cup {Idle}]
        /\ \A u \in Pollers : u # t => load'[u] = load[u]
        /\ \A j \in Keys \ {k} : module'[j] = module[j] /\ pyc'[j] = pyc[j]
        /\ \A j \in Keys : reload'[j] # reload[j] => reload'[j] = "failed"
    BY ExecutesFacts
  <1>4. \/ /\ Importable(k) /\ reload' = reload
           /\ module'[k] = Imported(k) /\ pyc'[k] = Imported(k)
           /\ load'[t] = m
        \/ /\ ~Importable(k)
           /\ module' = module /\ pyc' = pyc /\ load'[t] = Idle
    BY ExecutesFacts
  <1>5. /\ Imported(k) <= file[k].rev /\ Imported(k) \in Rev
        /\ Importable(k) => Imported(k) # 0
        /\ pyc[k] # 0 => Imported(k) = pyc[k]
        /\ pyc[k] = 0 => Imported(k) = file[k].rev
    BY <1>1, ImportedFacts
  <1>6. /\ m \in Loading /\ m.pc = "package" /\ m.key = k
        /\ m.outcome = load[t].outcome /\ m.since = load[t].since
        /\ m.stale = load[t].stale
    BY <1>1, MovesOn
  <1> HIDE DEF m
  <1>7. up BY <1>1 DEF DownIsBlank, TypeOK
  <1>8. \A j \in Keys : /\ file[j].rev \in Nat /\ module[j] \in Nat
                       /\ pyc[j] \in Nat /\ pyc'[j] \in Nat /\ module'[j] \in Nat
    BY <1>3, BoundsOfRev DEF TypeOK
  <1>9. \A j \in Keys :
          /\ module'[j] <= file[j].rev /\ pyc'[j] <= file[j].rev
          /\ module'[j] # module[j] =>
               /\ module'[j] # 0
               /\ pyc[j] # 0 => module'[j] = pyc[j]
               /\ pyc[j] = 0 => module'[j] = file[j].rev
          /\ pyc'[j] # pyc[j] /\ pyc'[j] # 0
               => pyc[j] = 0 /\ pyc'[j] = file[j].rev
    <2> SUFFICES ASSUME NEW j \in Keys
                 PROVE  /\ module'[j] <= file[j].rev /\ pyc'[j] <= file[j].rev
                        /\ module'[j] # module[j] =>
                             /\ module'[j] # 0
                             /\ pyc[j] # 0 => module'[j] = pyc[j]
                             /\ pyc[j] = 0 => module'[j] = file[j].rev
                        /\ pyc'[j] # pyc[j] /\ pyc'[j] # 0
                             => pyc[j] = 0 /\ pyc'[j] = file[j].rev
      OBVIOUS
    <2>1. module[j] <= file[j].rev /\ pyc[j] <= file[j].rev BY DEF DiskFirst
    <2>2. CASE j = k
      BY <1>4, <1>5, <2>1, <2>2
    <2>3. CASE j # k
      BY <1>3, <2>1, <2>3
    <2>q. QED BY <2>2, <2>3
  <1>10. TypeOK'
    BY <1>2, <1>3 DEF TypeOK, Builds!TypeOK
  <1>11. DiskFirst'
    BY <1>2, <1>9 DEF DiskFirst
  <1>12. DownIsBlank' /\ DueWhileItRuns'
    <2>1. DownIsBlank' BY <1>2, <1>7 DEF DownIsBlank
    <2>2. ASSUME NEW j \in Keys, job[j] = "running" PROVE reload'[j] = "due"
      <3>1. CASE reload' = reload BY <2>2, <3>1 DEF DueWhileItRuns
      <3>2. CASE reload' # reload
        <4>1. LoadEnds(t, "failed")
          BY <3>2 DEF Executes
        <4>2. reload'[j] # reload[j] => j = k /\ ~load[t].stale
          BY <1>1, <4>1, LoadEndsFacts
        <4>3. WorksFor(load[t]) BY <1>1 DEF LoadsInv
        <4>4. load[t].stale \in BOOLEAN BY <1>1, LoadingFields
        <4>q. QED BY <2>2, <4>2, <4>3, <4>4 DEF WorksFor, DueWhileItRuns
      <3>q. QED BY <3>1, <3>2
    <2>q. QED BY <1>2, <2>1, <2>2 DEF DueWhileItRuns
  <1>13. LoadsInv'
    <2> SUFFICES ASSUME NEW u \in Pollers, load'[u] # Idle
                 PROVE  Achieved(load[u])' /\ WorksFor(load[u])'
      BY DEF LoadsInv
    <2>1. CASE u = t
      <3>1. /\ Importable(k) /\ module'[k] = Imported(k)
            /\ pyc'[k] = Imported(k) /\ load'[t] = m
        BY <1>4, <2>1
      <3>2. Achieved(load[t]) /\ WorksFor(load[t]) BY <1>1 DEF LoadsInv
      <3>3. m.since <= file[k].rev BY <1>6, <3>2 DEF Achieved
      <3>4. module'[k] # 0 BY <1>5, <3>1
      <3>5. m.outcome = "ok" => Imported(k) >= m.since
        BY <1>1, <1>5, <1>6, <1>8, <3>2 DEF Achieved
      <3>7. Achieved(load[u])'
        BY <1>2, <1>6, <2>1, <3>1, <3>3, <3>4, <3>5 DEF Achieved
      <3>8. WorksFor(load[u])'
        BY <1>2, <1>6, <2>1, <3>1, <3>2 DEF WorksFor
      <3>q. QED BY <3>7, <3>8
    <2>2. CASE u # t
      <3>1. load'[u] = load[u] /\ load[u] # Idle BY <1>3, <2>2
      <3>q. QED BY <1>2, <1>8, <1>9, <3>1, OthersKeep
    <2>q. QED BY <2>1, <2>2
  <1>14. LiveInv'
    <2> SUFFICES ASSUME NEW j \in Keys, job'[j] = "ran", reload'[j] = "ok"
                 PROVE  /\ module'[j] = file'[j].rev
                        /\ pyc'[j] \in {0, file'[j].rev}
                        /\ j \in listed' => registry'[j] = file'[j].rev
      BY DEF LiveInv
    <2>1. job[j] = "ran" /\ reload[j] = "ok" BY <1>2, <1>3
    <2>q. QED BY <1>2, <1>9, <2>1, LiveKept
  <1>q. QED BY <1>10, <1>11, <1>12, <1>13, <1>14

LEMMA LoadReloadStep ==
    ASSUME Inv, NEW t \in Pollers, LoadReload(t) PROVE Inv'
  BY ExecutesStep DEF LoadReload

LEMMA LoadImportStep ==
    ASSUME Inv, NEW t \in Pollers, LoadImport(t) PROVE Inv'
  <1> USE DEF Inv
  <1>0. load[t].pc = "import" BY DEF LoadImport
  <1>1. CASE module[load[t].key] = 0
    <2>1. Executes(t, load[t].key) BY <1>1 DEF LoadImport
    <2>q. QED BY <1>0, <1>1, <2>1, ExecutesStep
  <1>2. CASE module[load[t].key] # 0
    <2> DEFINE m == [load[t] EXCEPT !.pc = "package"]
    <2>1. /\ load' = [load EXCEPT ![t] = m]
          /\ UNCHANGED <<job, reload, disk, up, restarts, server>>
      BY <1>2 DEF LoadImport
    <2>2. load[t] # Idle /\ load[t] \in Loading /\ load[t].key \in Keys
      BY <1>0, AtWork
    <2>3. /\ m \in Loading /\ m.pc = "package" /\ m.key = load[t].key
          /\ m.outcome = load[t].outcome /\ m.since = load[t].since
          /\ m.stale = load[t].stale
      BY <2>2, MovesOn
    <2> HIDE DEF m
    <2>4. load'[t] = m /\ \A u \in Pollers : u # t => load'[u] = load[u]
      BY <2>1 DEF TypeOK
    <2>5. TypeOK' BY <2>1, <2>3 DEF TypeOK, Builds!TypeOK, disk, server
    <2>6. DiskFirst' /\ DownIsBlank' /\ DueWhileItRuns' /\ LiveInv'
      BY <2>1, <2>2 DEF DiskFirst, DownIsBlank, DueWhileItRuns, LiveInv, disk, server
    <2>7. LoadsInv'
      <3> SUFFICES ASSUME NEW u \in Pollers, load'[u] # Idle
                   PROVE  Achieved(load[u])' /\ WorksFor(load[u])'
        BY DEF LoadsInv
      <3>1. CASE u = t
        <4>1. Achieved(load[t]) /\ WorksFor(load[t]) BY <2>2 DEF LoadsInv
        <4>2. load[t].outcome = "first" BY <1>0, <4>1 DEF Achieved
        <4>3. Achieved(load[u])'
          BY <2>1, <2>3, <2>4, <3>1, <4>1, <4>2 DEF Achieved, disk
        <4>4. WorksFor(load[u])'
          BY <2>1, <2>3, <2>4, <3>1, <4>1 DEF WorksFor, disk
        <4>q. QED BY <4>3, <4>4
      <3>2. CASE u # t
        <4>1. load'[u] = load[u] /\ load[u] # Idle BY <2>4, <3>2
        <4>2. Achieved(load[u]) /\ WorksFor(load[u]) BY <4>1 DEF LoadsInv
        <4>q. QED BY <2>1, <4>1, <4>2 DEF Achieved, WorksFor, disk, server
      <3>q. QED BY <3>1, <3>2
    <2>q. QED BY <2>5, <2>6, <2>7
  <1>q. QED BY <1>1, <1>2

(* What importing the package does on both its ways out, and that REGISTRY   *)
(* is rebound or, if the package raises, left alone.                         *)
LEMMA PackageFacts ==
    ASSUME Inv, NEW t \in Pollers, LoadPackage(t)
    PROVE  /\ load[t].pc = "package"
           /\ UNCHANGED <<job, file, listed, up, restarts>>
           /\ \E S \in SUBSET Missing :
                (\A j \in S : Importable(j)) /\ Imports(S)
           /\ \/ /\ registry' = [j \in Keys |-> IF j \in listed THEN module'[j] ELSE 0]
                 /\ LoadEnds(t, load[t].outcome)
              \/ registry' = registry /\ LoadEnds(t, "failed")
  <1>1. load[t].pc = "package" /\ UNCHANGED <<job, file, listed, up, restarts>>
    BY DEF LoadPackage
  <1>2. CASE /\ \A j \in Missing : Importable(j)
             /\ Imports(Missing)
             /\ registry' = [j \in Keys |-> IF j \in listed THEN module'[j] ELSE 0]
             /\ LoadEnds(t, load[t].outcome)
    BY <1>1, <1>2
  <1>3. CASE /\ \E S \in SUBSET {j \in Missing : Importable(j)} : Imports(S)
             /\ LoadEnds(t, "failed") /\ registry' = registry
    BY <1>1, <1>3
  <1>q. QED BY <1>2, <1>3 DEF LoadPackage

LEMMA LoadPackageStep ==
    ASSUME Inv, NEW t \in Pollers, LoadPackage(t) PROVE Inv'
  <1> USE DEF Inv
  <1> DEFINE k == load[t].key
  <1>1. load[t].pc = "package" /\ UNCHANGED <<job, file, listed, up, restarts>>
    BY PackageFacts
  <1>2. /\ load[t] # Idle /\ load[t] \in Loading /\ k \in Keys
        /\ load[t].outcome \in {"first", "ok"} /\ load[t].since \in Nat
        /\ load[t].stale \in BOOLEAN
    BY <1>1, AtWork, BoundsOfRev
  <1>3. PICK S \in SUBSET Missing : (\A j \in S : Importable(j)) /\ Imports(S)
    BY PackageFacts
  <1>4. S \in SUBSET Keys /\ \A j \in S : module[j] = 0
    BY DEF Missing, TypeOK
  <1>5. /\ module' \in [Keys -> Rev] /\ pyc' \in [Keys -> Rev]
        /\ \A j \in Keys : /\ module'[j] <= file[j].rev
                           /\ pyc'[j] <= file[j].rev
                           /\ j \in S => module'[j] # 0 /\ pyc'[j] = module'[j]
                           /\ j \notin S => /\ module'[j] = module[j]
                                           /\ pyc'[j] = pyc[j]
    <2>1. /\ module' \in [Keys -> Rev] /\ pyc' \in [Keys -> Rev]
          /\ \A j \in Keys : /\ module'[j] <= file[j].rev
                             /\ pyc'[j] <= file[j].rev
                             /\ j \in S => /\ module'[j] # 0
                                          /\ pyc'[j] = module'[j]
                                          /\ module'[j] = Imported(j)
                             /\ j \notin S => /\ module'[j] = module[j]
                                             /\ pyc'[j] = pyc[j]
      BY <1>3, <1>4, ImportsFacts
    <2>q. QED BY <2>1
  <1>6. ASSUME NEW j \in S
        PROVE  /\ pyc[j] # 0 => module'[j] = pyc[j] /\ pyc'[j] = pyc[j]
               /\ pyc[j] = 0 => module'[j] = file[j].rev /\ pyc'[j] = file[j].rev
    <2>1. module'[j] = Imported(j) /\ pyc'[j] = Imported(j)
      BY <1>3, <1>4 DEF Imports
    <2>2. j \in Keys BY <1>4
    <2>q. QED BY <2>1, <2>2, ImportedFacts
  <1>7. \/ /\ \A j \in Keys : registry'[j] = IF j \in listed THEN module'[j] ELSE 0
           /\ registry' \in [Keys -> Rev]
           /\ LoadEnds(t, load[t].outcome)
        \/ registry' = registry /\ LoadEnds(t, "failed")
    <2>1. CASE /\ registry' = [j \in Keys |-> IF j \in listed THEN module'[j] ELSE 0]
               /\ LoadEnds(t, load[t].outcome)
      <3>1. registry' \in [Keys -> Rev] BY <2>1, <1>5, BoundsOfRev
      <3>q. QED BY <2>1, <3>1
    <2>2. CASE registry' = registry /\ LoadEnds(t, "failed") BY <2>2
    <2>q. QED BY <2>1, <2>2, PackageFacts
  <1>8. /\ load' \in [Pollers -> Loading \cup {Idle}]
        /\ reload' \in [Keys -> {"due", "first", "ok", "failed", "lost"}]
        /\ load'[t] = Idle
        /\ \A u \in Pollers : u # t => load'[u] = load[u]
        /\ \A j \in Keys : reload'[j] # reload[j] => j = k /\ ~load[t].stale
        /\ \A j \in Keys : reload'[j] # reload[j] /\ reload'[j] = "ok"
             => /\ load[t].outcome = "ok"
                /\ \A i \in Keys : registry'[i] = IF i \in listed THEN module'[i] ELSE 0
    <2>1. CASE LoadEnds(t, load[t].outcome)
               /\ \A i \in Keys : registry'[i] = IF i \in listed THEN module'[i] ELSE 0
      <3>1. load[t].outcome \in {"first", "ok", "failed"} BY <1>2
      <3>2. \A j \in Keys : reload'[j] # reload[j]
              => j = k /\ ~load[t].stale /\ reload'[j] = load[t].outcome
        BY <1>2, <2>1, <3>1, LoadEndsFacts
      <3>3. /\ load' \in [Pollers -> Loading \cup {Idle}]
            /\ reload' \in [Keys -> {"due", "first", "ok", "failed", "lost"}]
            /\ load'[t] = Idle
            /\ \A u \in Pollers : u # t => load'[u] = load[u]
        BY <1>2, <2>1, <3>1, LoadEndsFacts
      <3>q. QED BY <2>1, <3>2, <3>3
    <2>2. CASE LoadEnds(t, "failed")
      <3>2. \A j \in Keys : reload'[j] # reload[j]
              => j = k /\ ~load[t].stale /\ reload'[j] = "failed"
        BY <1>2, <2>2, LoadEndsFacts
      <3>3. /\ load' \in [Pollers -> Loading \cup {Idle}]
            /\ reload' \in [Keys -> {"due", "first", "ok", "failed", "lost"}]
            /\ load'[t] = Idle
            /\ \A u \in Pollers : u # t => load'[u] = load[u]
        BY <1>2, <2>2, LoadEndsFacts
      <3>q. QED BY <3>2, <3>3
    <2>q. QED BY <1>7, <2>1, <2>2
  <1>9. Achieved(load[t]) /\ WorksFor(load[t]) /\ up
    BY <1>2 DEF LoadsInv, DownIsBlank, TypeOK
  <1>10. \A j \in Keys : /\ file[j].rev \in Nat /\ module[j] \in Nat
                        /\ pyc[j] \in Nat /\ pyc'[j] \in Nat /\ module'[j] \in Nat
                        /\ module[j] <= file[j].rev /\ pyc[j] <= file[j].rev
                        /\ registry[j] <= file[j].rev
    BY <1>5, BoundsOfRev DEF TypeOK, DiskFirst
  <1>11. TypeOK'
    <2>1. registry' \in [Keys -> Rev] BY <1>7 DEF TypeOK
    <2>q. QED BY <1>1, <1>5, <1>8, <2>1 DEF TypeOK, Builds!TypeOK
  <1>12. DiskFirst'
    <2> SUFFICES ASSUME NEW j \in Keys PROVE registry'[j] <= file[j].rev
      BY <1>1, <1>5 DEF DiskFirst
    <2>1. registry'[j] = registry[j] \/ registry'[j] = module'[j] \/ registry'[j] = 0
      BY <1>7
    <2>q. QED BY <1>5, <1>10, <2>1
  <1>13. DownIsBlank' /\ DueWhileItRuns'
    <2>1. DownIsBlank' BY <1>1, <1>9 DEF DownIsBlank
    <2>2. ASSUME NEW j \in Keys, job[j] = "running" PROVE reload'[j] = "due"
      BY <1>8, <1>9, <2>2 DEF WorksFor, DueWhileItRuns
    <2>q. QED BY <1>1, <2>1, <2>2 DEF DueWhileItRuns
  <1>14. LoadsInv'
    <2> SUFFICES ASSUME NEW u \in Pollers, load'[u] # Idle
                 PROVE  Achieved(load[u])' /\ WorksFor(load[u])'
      BY DEF LoadsInv
    <2>1. load'[u] = load[u] /\ load[u] # Idle BY <1>8
    <2>2. \A j \in Keys : module'[j] # module[j] => 
            /\ module'[j] # 0
            /\ pyc[j] # 0 => module'[j] = pyc[j]
            /\ pyc[j] = 0 => module'[j] = file[j].rev
      BY <1>5, <1>6
    <2>3. \A j \in Keys : pyc'[j] # pyc[j] /\ pyc'[j] # 0
             => pyc[j] = 0 /\ pyc'[j] = file[j].rev
      BY <1>5, <1>6
    <2>4. \A j \in Keys : module'[j] \in Nat /\ pyc'[j] \in Nat
      BY <1>10
    <2>q. QED BY <1>1, <2>1, <2>2, <2>3, <2>4, OthersKeep
  <1>15. LiveInv'
    <2> SUFFICES ASSUME NEW j \in Keys, job'[j] = "ran", reload'[j] = "ok"
                 PROVE  /\ module'[j] = file'[j].rev
                        /\ pyc'[j] \in {0, file'[j].rev}
                        /\ j \in listed' => registry'[j] = file'[j].rev
      BY DEF LiveInv
    <2>0. job[j] = "ran" BY <1>1
    <2>1. CASE reload[j] = "ok"
      <3>1. /\ module'[j] # module[j] =>
                  /\ pyc[j] # 0 => module'[j] = pyc[j]
                  /\ pyc[j] = 0 => module'[j] = file[j].rev
            /\ pyc'[j] # pyc[j] /\ pyc'[j] # 0 => pyc'[j] = file[j].rev
        BY <1>5, <1>6
      <3>2. j \in listed => registry'[j] = registry[j] \/ registry'[j] = module'[j]
        BY <1>7
      <3>q. QED BY <1>1, <2>0, <2>1, <3>1, <3>2, LiveKept
    <2>2. CASE reload[j] # "ok"
      <3>1. j = k /\ ~load[t].stale /\ load[t].outcome = "ok"
        BY <1>8, <2>2
      <3>2. registry'[j] = IF j \in listed THEN module'[j] ELSE 0
        BY <1>8, <2>2
      <3>3. load[t].since = file[j].rev BY <1>9, <2>0, <3>1 DEF WorksFor
      <3>4. /\ module[j] # 0 /\ module[j] >= load[t].since
            /\ pyc[j] = 0 \/ pyc[j] >= load[t].since
        BY <1>1, <1>9, <3>1 DEF Achieved
      <3>5. j \notin S BY <1>4, <3>4
      <3>6. module'[j] = module[j] /\ pyc'[j] = pyc[j] BY <1>5, <3>5
      <3>7. module[j] = file[j].rev /\ (pyc[j] = 0 \/ pyc[j] = file[j].rev)
        BY <1>10, <3>3, <3>4
      <3>q. QED BY <1>1, <3>2, <3>6, <3>7
    <2>q. QED BY <2>1, <2>2
  <1>q. QED BY <1>11, <1>12, <1>13, <1>14, <1>15

-----------------------------------------------------------------------------
(* The server stops and starts. *)

LEMMA ShutdownStep == ASSUME Inv, Shutdown PROVE Inv'
  <1> USE DEF Inv
  <1>1. /\ up' = FALSE /\ reload' = [k \in Keys |-> "lost"]
        /\ load' = [t \in Pollers |-> Idle]
        /\ module' = [k \in Keys |-> 0] /\ registry' = [k \in Keys |-> 0]
        /\ UNCHANGED <<job, disk>> /\ restarts < MaxRestarts
        /\ restarts' = restarts + 1
        /\ \A k \in Keys : job[k] # "running"
    BY DEF Shutdown
  <1>2. TypeOK'
    <2>1. restarts' \in 0..MaxRestarts
      BY <1>1, LiveCodeAssumption DEF TypeOK
    <2>2. module' \in [Keys -> Rev] /\ registry' \in [Keys -> Rev]
      BY <1>1, BoundsOfRev
    <2>q. QED BY <1>1, <2>1, <2>2 DEF TypeOK, Builds!TypeOK, disk
  <1>3. DiskFirst'
    <2> SUFFICES ASSUME NEW k \in Keys
                 PROVE  /\ module'[k] <= file'[k].rev /\ pyc'[k] <= file'[k].rev
                        /\ registry'[k] <= file'[k].rev
      BY DEF DiskFirst
    <2>1. file[k].rev \in Nat /\ pyc[k] <= file[k].rev
      BY BoundsOfRev DEF TypeOK, DiskFirst
    <2>q. QED BY <1>1, <2>1 DEF disk
  <1>4. DownIsBlank' /\ DueWhileItRuns' /\ LoadsInv' /\ LiveInv'
    BY <1>1 DEF DownIsBlank, DueWhileItRuns, LoadsInv, LiveInv
  <1>q. QED BY <1>2, <1>3, <1>4

LEMMA BootStep == ASSUME Inv, Boot PROVE Inv'
  <1> USE DEF Inv
  <1>1. /\ ~up /\ up' = TRUE /\ registry' = module'
        /\ UNCHANGED <<job, reload, file, listed, restarts, load>>
    BY DEF Boot
  <1>2. listed \in SUBSET Keys /\ (\A j \in listed : Importable(j)) /\ Imports(listed)
    BY DEF Boot, Bootable, TypeOK
  <1>3. /\ module' \in [Keys -> Rev] /\ pyc' \in [Keys -> Rev]
        /\ \A j \in Keys : module'[j] <= file[j].rev /\ pyc'[j] <= file[j].rev
    <2>1. /\ module' \in [Keys -> Rev] /\ pyc' \in [Keys -> Rev]
          /\ \A j \in Keys : /\ module'[j] <= file[j].rev
                             /\ pyc'[j] <= file[j].rev
                             /\ j \in listed => /\ module'[j] # 0
                                               /\ pyc'[j] = module'[j]
                                               /\ module'[j] = Imported(j)
                             /\ j \notin listed => /\ module'[j] = module[j]
                                                  /\ pyc'[j] = pyc[j]
      BY <1>2, ImportsFacts
    <2>q. QED BY <2>1
  <1>4. (\A k \in Keys : reload[k] = "lost") /\ (\A t \in Pollers : load[t] = Idle)
    BY <1>1 DEF DownIsBlank
  <1>5. TypeOK' BY <1>1, <1>3 DEF TypeOK, Builds!TypeOK
  <1>6. DiskFirst' BY <1>1, <1>3 DEF DiskFirst
  <1>7. DownIsBlank' /\ DueWhileItRuns' /\ LoadsInv' /\ LiveInv'
    BY <1>1, <1>4 DEF DownIsBlank, DueWhileItRuns, LoadsInv, LiveInv
  <1>q. QED BY <1>5, <1>6, <1>7

-----------------------------------------------------------------------------
LEMMA NextInv == Inv /\ [Next]_vars => Inv'
  <1> SUFFICES ASSUME Inv, [Next]_vars PROVE Inv'
    OBVIOUS
  <1>1. ASSUME NEW k \in Keys, Build(k) PROVE Inv'
    <2>1. CASE \E good, quick \in BOOLEAN : Write(k, good, quick)
      <3>1. PICK good \in BOOLEAN :
              file' = [file EXCEPT ![k] = [rev |-> file[k].rev + 1, good |-> good]]
        BY <2>1, WriteFacts
      <3>2. /\ job[k] \in {"running", "broke"} /\ file[k].rev < MaxRev
            /\ pyc' = pyc \/ pyc' = [pyc EXCEPT ![k] = 0]
            /\ UNCHANGED <<job, reload, listed, up, restarts, server, load>>
        BY <2>1, WriteFacts
      <3>q. QED BY <3>1, <3>2, WriteStep
    <2>2. CASE ~\E good, quick \in BOOLEAN : Write(k, good, quick)
      BY <1>1, <2>2, BeginStep, RegisterStep, TestRunStep, EndStep DEF Build
    <2>q. QED BY <2>1, <2>2
  <1>2. ASSUME NEW t \in Pollers, Reload(t) PROVE Inv'
    BY <1>2, LoadBeginStep, LoadDropStep, LoadReloadStep, LoadImportStep,
       LoadPackageStep DEF Reload
  <1>3. CASE UNCHANGED vars
    <2>1. UNCHANGED <<job, reload, file, listed, pyc, up, restarts, module,
                      registry, load>>
      BY <1>3 DEF vars, disk, server
    <2>q. QED
      BY <2>1 DEF Inv, TypeOK, Builds!TypeOK, DiskFirst, DownIsBlank,
                  DueWhileItRuns, LoadsInv, Achieved, WorksFor, LiveInv
  <1>q. QED BY <1>1, <1>2, <1>3, ShutdownStep, BootStep DEF Next

LEMMA InvHolds == Spec => []Inv
  BY InitInv, NextInv, PTL DEF Spec

(* The variables keep their types: the meta dicts, the files, the modules in *)
(* memory and the threads inside reload_source_code are always of the shapes *)
(* that the steps of build and reload rely on.                               *)
THEOREM TypesHold == Spec => []TypeOK
  <1>1. Inv => TypeOK BY DEF Inv
  <1>q. QED BY InvHolds, <1>1, PTL

(* Once build_status has reloaded a finished build, the server runs what that *)
(* build left on disk, whatever else builds, reloads, restarts or is edited.  *)
THEOREM ReloadedBuildIsLive == Spec => []FinishedBuildIsLive
  <1>1. Inv => FinishedBuildIsLive
    BY DEF Inv, LiveInv, FinishedBuildIsLive, TypeOK
  <1>q. QED BY InvHolds, <1>1, PTL

-----------------------------------------------------------------------------
(* The one step in which a reload succeeds is the import of the package. *)
LEMMA SuccessIsAtThePackage ==
    ASSUME Inv, [Next]_vars, NEW t \in Pollers, Succeeds(t)
    PROVE  LoadPackage(t)
  <1>1. /\ load[t] # Idle /\ load'[t] = Idle /\ up' /\ load[t].pc = "package"
        /\ load[t] \in Loading
    BY ThreadType DEF Succeeds, Ends, Inv
  <1>2. load'[t] # load[t] BY <1>1
  <1>3. ASSUME NEW k \in Keys, Build(k) PROVE FALSE
    <2>1. CASE Begin(k)
      <3>1. load'[t] = [load[t] EXCEPT !.stale = TRUE] \/ load'[t] = load[t]
        BY <2>1 DEF Begin
      <3>q. QED BY <1>1, <3>1, GrowsStale, IdleIsNotLoading
    <2>2. CASE \E good, quick \in BOOLEAN : Write(k, good, quick)
      <3>1. load' = load BY <2>2, WriteFacts
      <3>q. QED BY <1>2, <3>1
    <2>3. CASE Register(k) \/ TestRun(k) \/ Finish(k) \/ Breaks(k)
      BY <1>2, <2>3 DEF Register, TestRun, Finish, Breaks
    <2>q. QED BY <1>3, <2>1, <2>2, <2>3 DEF Build
  <1>4. ASSUME NEW u \in Pollers, Reload(u) PROVE LoadPackage(t)
    <2>1. ASSUME NEW k \in Keys, LoadBegin(u, k) PROVE FALSE
      <3>1. u # t BY <1>1, <2>1 DEF LoadBegin
      <3>2. load'[t] = load[t] BY <2>1, <3>1 DEF LoadBegin, Inv, TypeOK
      <3>q. QED BY <1>2, <3>2
    <2>2. CASE LoadDrop(u)
      <3>1. u # t BY <1>1, <2>2 DEF LoadDrop
      <3>2. load'[t] = load[t] BY <2>2, <3>1 DEF LoadDrop, Inv, TypeOK
      <3>q. QED BY <1>2, <3>2
    <2>3. CASE LoadReload(u)
      <3>1. u # t BY <1>1, <2>3 DEF LoadReload
      <3>2. load[u].pc \in {"import", "reload"} /\ Executes(u, load[u].key)
        BY <2>3 DEF LoadReload
      <3>3. load'[t] = load[t] BY <3>1, <3>2, ExecutesFacts DEF Inv
      <3>q. QED BY <1>2, <3>3
    <2>4. CASE LoadImport(u)
      <3>1. u # t /\ load[u].pc = "import" BY <1>1, <2>4 DEF LoadImport
      <3>2. CASE module[load[u].key] = 0
        <4>1. load[u].pc \in {"import", "reload"} /\ Executes(u, load[u].key)
          BY <2>4, <3>2 DEF LoadImport
        <4>2. load'[t] = load[t] BY <3>1, <4>1, ExecutesFacts DEF Inv
        <4>q. QED BY <1>2, <4>2
      <3>3. CASE module[load[u].key] # 0
        <4>1. load' = [load EXCEPT ![u].pc = "package"]
          BY <2>4, <3>3 DEF LoadImport
        <4>2. load'[t] = load[t] BY <3>1, <4>1 DEF Inv, TypeOK
        <4>q. QED BY <1>2, <4>2
      <3>q. QED BY <3>2, <3>3
    <2>5. CASE LoadPackage(u)
      <3>1. CASE u = t BY <2>5, <3>1
      <3>2. CASE u # t
        <4>1. load' = [load EXCEPT ![u] = Idle]
          BY <2>5, PackageFacts DEF LoadEnds
        <4>2. load'[t] = load[t] BY <3>2, <4>1 DEF Inv, TypeOK
        <4>q. QED BY <1>2, <4>2
      <3>q. QED BY <3>1, <3>2
    <2>q. QED BY <1>4, <2>1, <2>2, <2>3, <2>4, <2>5 DEF Reload
  <1>5. ~Shutdown BY <1>1 DEF Shutdown
  <1>6. ~Boot BY <1>2 DEF Boot
  <1>7. ~UNCHANGED vars BY <1>2 DEF vars
  <1>q. QED BY <1>3, <1>4, <1>5, <1>6, <1>7 DEF Next

(* A reload that says "reloaded" leaves REGISTRY at code no older than what   *)
(* was on disk when it began, whatever other threads reload and however       *)
(* quickly the agent edits.                                                   *)
THEOREM ReloadsAreFresh == Spec => ReloadIsFresh
  <1> DEFINE Fresh ==
        \A t \in Pollers :
          Succeeds(t) /\ load[t].outcome = "ok" /\ load[t].key \in listed
            => registry'[load[t].key] >= load[t].since
  <1>1. Inv /\ [Next]_vars => [Fresh]_vars
    <2> SUFFICES ASSUME Inv, [Next]_vars, NEW t \in Pollers, Succeeds(t),
                        load[t].outcome = "ok", load[t].key \in listed
                 PROVE  registry'[load[t].key] >= load[t].since
      OBVIOUS
    <2> DEFINE k == load[t].key
    <2>1. LoadPackage(t) BY SuccessIsAtThePackage
    <2>2. load[t].pc = "package" /\ load[t] # Idle /\ \A j \in Missing : Importable(j)
      BY DEF Succeeds, Ends
    <2>3. Imports(Missing)
          /\ registry' = [j \in Keys |-> IF j \in listed THEN module'[j] ELSE 0]
      BY <2>1, <2>2 DEF LoadPackage
    <2>4. Achieved(load[t]) /\ k \in Keys
      BY <2>2, AtWork DEF Inv, LoadsInv
    <2>5. module[k] # 0 /\ module[k] >= load[t].since
      BY <2>2, <2>4 DEF Achieved
    <2>6. k \notin Missing BY <2>5 DEF Missing
    <2>7. registry'[k] = module'[k] BY <2>3, <2>4
    <2>8. module'[k] = module[k] BY <2>3, <2>4, <2>6 DEF Imports
    <2>q. QED BY <2>5, <2>7, <2>8
  <1>2. Spec => [][Fresh]_vars BY InvHolds, <1>1, PTL DEF Spec
  <1>q. QED BY <1>2 DEF ReloadIsFresh
=============================================================================
