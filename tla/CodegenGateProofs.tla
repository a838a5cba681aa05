-------------------------- MODULE CodegenGateProofs --------------------------
(***************************************************************************)
(* What run_codegen_gated guarantees of an approved build, for any files,  *)
(* contents, number of retries and of tool calls: proofs about CodegenGate. *)
(***************************************************************************)
EXTENDS CodegenGate, TLAPS

(* A file keeps to its contents when one of them is put into it. *)
LEMMA StoredExcept ==
    ASSUME NEW d \in Stored, NEW f \in Files, NEW c \in MayHold(f)
    PROVE  [d EXCEPT ![f] = c] \in Stored
  <1> DEFINE U == UNION {MayHold(g) : g \in Files}
  <1>1. d \in [Files -> U] /\ \A g \in Files : d[g] \in MayHold(g)
    BY DEF Stored
  <1>2. c \in U
    OBVIOUS
  <1>3. [d EXCEPT ![f] = c] \in [Files -> U]
    BY <1>1, <1>2
  <1>4. \A g \in Files : [d EXCEPT ![f] = c][g] \in MayHold(g)
    BY <1>1
  <1> QED BY <1>3, <1>4 DEF Stored

(* What the judges find is a fault of a known name. *)
LEMMA FaultsNamed == ASSUME NEW t PROVE Faults(t) \subseteq Rules \cup {"test", "error"}
  <1>1. /\ If(t.test # "passed", "test") \subseteq {"test"}
        /\ If(t.run = "error", "error") \subseteq {"error"}
        /\ If(t.run = "nothing", "nothing extracted") \subseteq {"nothing extracted"}
    BY DEF If
  <1>2. /\ If(Untested, "untested") \subseteq {"untested"}
        /\ If(Uncovered(t), "uncovered") \subseteq {"uncovered"}
        /\ If(Hardcoded, "hardcoded") \subseteq {"hardcoded"}
        /\ If(Linted, "lint") \subseteq {"lint"}
        /\ If(Unreconciled, "unreconciled") \subseteq {"unreconciled"}
        /\ If(Noop, "no changes") \subseteq {"no changes"}
        /\ If(Rewritten, "rewritten") \subseteq {"rewritten"}
        /\ If(Removed, "tests removed") \subseteq {"tests removed"}
    BY DEF If
  <1> QED BY <1>1, <1>2 DEF Faults, Rules

(* No faults: none of the judges refuses. *)
LEMMA NoFaults ==
    ASSUME NEW t, Faults(t) = {}
    PROVE  /\ t.test = "passed" /\ t.run # "error"
           /\ ~Untested /\ ~Uncovered(t) /\ ~Hardcoded /\ ~Linted /\ ~Unreconciled
           /\ ~Rewritten /\ ~Removed
  BY DEF Faults, If

-----------------------------------------------------------------------------
(* Every variable keeps its type. *)
LEMMA TypeInit == Init => TypeOK
  <1> SUFFICES ASSUME Init PROVE TypeOK
    OBVIOUS
  <1>1. [f \in Files |-> Absent] \in Stored
    BY DEF Stored, MayHold
  <1>2. disk \in Stored /\ start \in Stored /\ originals \in Stored /\ before \in Stored
    BY <1>1, GateAssumption DEF Init
  <1>3. truth \in Truth
    BY DEF Init, Truth, Untried
  <1>4. round \in 1..(MaxRetries + 1) /\ steps \in 0..MaxSteps
    BY GateAssumption DEF Init
  <1> QED BY <1>2, <1>3, <1>4 DEF Init, TypeOK

LEMMA TypeNext == TypeOK /\ [Next]_vars => TypeOK'
  <1> SUFFICES ASSUME TypeOK, [Next]_vars PROVE TypeOK'
    OBVIOUS
  <1> USE DEF TypeOK
  <1>1. CASE Begin
    <2>1. [f \in Files |-> Absent] \in Stored
      BY DEF Stored, MayHold
    <2>2. before' \in Stored
      <3>1. \A f \in Files : before'[f] \in MayHold(f)
        BY <1>1 DEF Begin, Stored, MayHold
      <3>2. before' \in [Files -> UNION {MayHold(f) : f \in Files}]
        BY <1>1, <3>1 DEF Begin
      <3> QED BY <3>1, <3>2 DEF Stored
    <2> QED BY <1>1, <2>1, <2>2 DEF Begin, roundVars, observers
  <1>2. ASSUME NEW f \in Files, NEW c \in Contents[f], Write(f, c) PROVE TypeOK'
    <2>1. disk' \in Stored
      BY <1>2, StoredExcept DEF Write, Holds, MayHold
    <2> QED BY <1>2, <2>1, GateAssumption DEF Write, Step, Called
  <1>3. ASSUME NEW f \in Files, NEW c \in Contents[f], Edit(f, c) PROVE TypeOK'
    <2>1. disk' \in Stored
      BY <1>3, StoredExcept DEF Edit, Holds, MayHold
    <2>2. disk[f] \in MayHold(f)
      BY DEF Stored
    <2>3. originals' \in Stored
      BY <1>3, <2>2, StoredExcept DEF Edit
    <2> QED BY <1>3, <2>1, <2>3, GateAssumption DEF Edit, Step, Called
  <1>4. ASSUME NEW f \in Files, Refused(f) PROVE TypeOK'
    BY <1>4, GateAssumption DEF Refused, Step, Called
  <1>5. ASSUME NEW f \in Files, NEW c \in MayHold(f), Command(f, c) PROVE TypeOK'
    <2>1. disk' \in Stored
      BY <1>5, StoredExcept DEF Command, Holds
    <2> QED BY <1>5, <2>1, GateAssumption DEF Command, Step
  <1>6. CASE Declare
    BY <1>6, GateAssumption DEF Declare, Step
  <1>7. CASE Return
    BY <1>7 DEF Return, roundVars, observers
  <1>8. CASE Raise
    BY <1>8 DEF Raise, roundVars, observers, Ends
  <1>9. CASE Retry
    <2>1. round' \in 1..(MaxRetries + 1) /\ steps' \in 0..MaxSteps
      BY <1>9, GateAssumption DEF Retry, MayRetry
    <2>2. /\ at' = "agent" /\ written' = {} /\ declared' = FALSE
          /\ UNCHANGED <<revise, cli, disk, originals, before, performed, faults, start,
                         scripted, truth>>
      BY <1>9 DEF Retry, observers
    <2> QED BY <2>1, <2>2
  <1>10. CASE Conclude
    <2>1. PICK t \in Truth : truth' = t /\ faults' = Faults(t)
      BY <1>10 DEF Conclude
    <2>2. faults' \subseteq Rules \cup {"test", "error"}
      BY <2>1, FaultsNamed
    <2>3. at' \in Ends
      BY <1>10 DEF Conclude, Ends
    <2> QED BY <1>10, <2>1, <2>2, <2>3 DEF Conclude, roundVars
  <1>11. CASE UNCHANGED vars
    BY <1>11 DEF vars, roundVars, observers
  <1> QED BY <1>1, <1>2, <1>3, <1>4, <1>5, <1>6, <1>7, <1>8, <1>9, <1>10, <1>11 DEF Next, Work

(* Every variable of the gate keeps its type, whatever the agent does.       *)
THEOREM TypeCorrect == Spec => []TypeOK
  BY TypeInit, TypeNext, PTL DEF Spec

-----------------------------------------------------------------------------
(* An approval is Conclude's, and nothing happens after it. *)
LEMMA Approval ==
    ASSUME [Next]_vars, at' = "approved"
    PROVE  \/ Conclude
           \/ UNCHANGED vars
  <1>1. ASSUME Step PROVE FALSE
    BY <1>1 DEF Step
  <1>2. ~Work
    BY <1>1 DEF Work, Write, Edit, Refused, Command, Declare
  <1> QED BY <1>2 DEF Next, Begin, Return, Raise, Retry

(* What Conclude knows when it approves. *)
LEMMA Approves ==
    ASSUME Conclude, at' = "approved"
    PROVE  \E t \in Truth : /\ Seen(t) /\ truth' = t
                           /\ Faults(t) = {}
                           /\ UNCHANGED <<revise, cli, disk, originals, before, roundVars,
                                          start, scripted>>
  BY DEF Conclude

(* The rules hold of an approved build, as TLC checks in codegen_gate: what  *)
(* any round wrote is clean on disk when the gate approves.                  *)
THEOREM ApprovedClean == Spec => []ApprovedIsClean
  <1>1. Init => ApprovedIsClean
    BY DEF Init, ApprovedIsClean
  <1>2. ApprovedIsClean /\ [Next]_vars => ApprovedIsClean'
    <2> SUFFICES ASSUME ApprovedIsClean, [Next]_vars, at' = "approved"
                 PROVE  ApprovedIsClean'
      BY DEF ApprovedIsClean
    <2>1. CASE Conclude
      <3>1. PICK t \in Truth : /\ Seen(t) /\ truth' = t /\ Faults(t) = {}
                              /\ UNCHANGED <<disk, performed>>
        BY <2>1, Approves DEF roundVars
      <3>2. /\ t.test = "passed" /\ t.run # "error" /\ t.test # "missing"
            /\ ~Untested /\ ~Uncovered(t) /\ ~Hardcoded /\ ~Linted /\ ~Unreconciled
        BY <3>1, NoFaults
      <3>3. \A f \in performed : ~Flawed(f, "dead store") /\ ~Flawed(f, "unparsable")
        BY <3>2 DEF Linted
      <3>4. \A f \in performed \cap CodeFiles : ~Flawed(f, "hardcoded")
        BY <3>2 DEF Hardcoded
      <3>5. ~Flawed(Main, "unreconciled")
        BY <3>2 DEF Unreconciled
      <3>6. disk[Main] # Absent /\ disk[Test] # Absent
        BY <3>1, <3>2 DEF Seen
      <3>7. t.missed \cap performed \cap Tracked = {}
        BY <3>2 DEF Uncovered
      <3> QED BY <3>1, <3>3, <3>4, <3>5, <3>6, <3>7 DEF ApprovedIsClean, Flawed
    <2>2. CASE UNCHANGED vars
      BY <2>2 DEF vars, roundVars, observers, ApprovedIsClean, Flawed
    <2> QED BY <2>1, <2>2, Approval
  <1> QED BY <1>1, <1>2, PTL DEF Spec

-----------------------------------------------------------------------------
(* Why the baseline is what was there when the run began. *)

(* What neither a command nor the CLI did to file f: if a tool of the agent  *)
(* changed it, its first content was recorded.                               *)
Kept(f) ==
    /\ f \notin performed => disk[f] = start[f]
    /\ start[f] # Absent =>
         /\ disk[f] # Absent
         /\ originals[f] \in {Absent, start[f]}
         /\ disk[f] # start[f] => originals[f] = start[f]

Baselined ==
    /\ at = "begin" => disk = start /\ performed = {}
    /\ at # "begin" =>
         /\ \A f \in Files : before[f] # Absent => before[f] = start[f]
         /\ revise => before[Main] = start[Main] /\ before[Test] = start[Test]
         /\ \A f \in Files \ scripted : ~cli => Kept(f)

LEMMA BaselinedInit == Init => Baselined
  BY DEF Init, Baselined

(* A call leaves alone what is not of its file. *)
LEMMA KeptStep ==
    ASSUME TypeOK, Baselined, Step,
           NEW f \in Files,
           /\ \A g \in Files \ {f} :
                disk'[g] = disk[g] /\ originals'[g] = originals[g]
           /\ performed \subseteq performed' /\ performed' \subseteq performed \cup {f}
           /\ scripted \subseteq scripted'
           /\ (~cli /\ f \notin scripted' => Kept(f)')
    PROVE  Baselined'
  <1>1. /\ at = "agent" /\ at' = "agent" /\ cli' = cli /\ before' = before
        /\ start' = start /\ revise' = revise
    BY DEF Step
  <1>2. ASSUME NEW g \in Files \ scripted', ~cli PROVE Kept(g)'
    <2>1. CASE g = f
      BY <1>2, <2>1
    <2>2. CASE g # f
      <3>1. Kept(g)
        BY <1>1, <1>2 DEF Baselined
      <3> QED BY <1>1, <2>2, <3>1 DEF Kept
    <2> QED BY <2>1, <2>2
  <1> QED BY <1>1, <1>2 DEF Baselined

LEMMA BaselinedNext == TypeOK /\ Baselined /\ [Next]_vars => Baselined'
  <1> SUFFICES ASSUME TypeOK, Baselined, [Next]_vars PROVE Baselined'
    OBVIOUS
  <1>0. disk \in [Files -> UNION {MayHold(f) : f \in Files}] /\ DOMAIN originals = Files
    BY DEF TypeOK, Stored
  <1>1. CASE Begin
    BY <1>1, GateAssumption DEF Begin, Baselined, Kept, roundVars, observers
  <1>2. ASSUME NEW f \in Files, NEW c \in Contents[f], Write(f, c) PROVE Baselined'
    <2>1. /\ at = "agent" /\ start' = start /\ scripted' = scripted
          /\ performed' = performed \cup {f} /\ originals' = originals
      BY <1>2 DEF Write, Step, Called
    <2>2. ~cli /\ f \notin scripted => Kept(f)'
      BY <1>2, <2>1 DEF Write, Baselined, Kept
    <2> QED BY <1>0, <1>2, <2>1, <2>2, KeptStep DEF Write, Holds
  <1>3. ASSUME NEW f \in Files, NEW c \in Contents[f], Edit(f, c) PROVE Baselined'
    <2>1. /\ at = "agent" /\ start' = start /\ scripted' = scripted
          /\ performed' = performed \cup {f} /\ c # Absent /\ disk'[f] = c
      BY <1>0, <1>3, GateAssumption DEF Edit, Step, Called, Holds
    <2>2. ~cli /\ f \notin scripted => Kept(f)'
      <3> SUFFICES ASSUME ~cli, f \notin scripted PROVE Kept(f)'
        OBVIOUS
      <3>1. Kept(f)
        BY <2>1 DEF Baselined
      <3>2. originals'[f] = IF originals[f] # Absent THEN originals[f] ELSE disk[f]
        BY <1>0, <1>3 DEF Edit
      <3> QED BY <2>1, <3>1, <3>2 DEF Kept
    <2>3. \A g \in Files \ {f} : disk'[g] = disk[g] /\ originals'[g] = originals[g]
      BY <1>0, <1>3 DEF Edit, Holds
    <2> QED BY <1>3, <2>1, <2>2, <2>3, KeptStep DEF Edit
  <1>4. ASSUME NEW f \in Files, Refused(f) PROVE Baselined'
    <2>1. /\ at = "agent" /\ UNCHANGED <<disk, originals, start, scripted>>
          /\ performed' = performed \cup {f}
      BY <1>4 DEF Refused, Step, Called
    <2>2. ~cli /\ f \notin scripted => Kept(f)'
      BY <2>1 DEF Baselined, Kept
    <2> QED BY <1>4, <2>1, <2>2, KeptStep DEF Refused
  <1>5. ASSUME NEW f \in Files, NEW c \in MayHold(f), Command(f, c) PROVE Baselined'
    <2>1. UNCHANGED <<performed, originals>> /\ scripted' = scripted \cup {f}
      BY <1>5 DEF Command
    <2>2. \A g \in Files \ {f} : disk'[g] = disk[g]
      BY <1>0, <1>5 DEF Command, Holds
    <2> QED BY <1>5, <2>1, <2>2, KeptStep DEF Command
  <1>6. CASE Declare
    BY <1>6 DEF Declare, Step, Baselined, Kept
  <1>7. CASE Return
    BY <1>7 DEF Return, roundVars, observers, Baselined, Kept
  <1>8. CASE Raise
    BY <1>8 DEF Raise, roundVars, observers, Baselined, Kept
  <1>9. CASE Retry
    BY <1>9 DEF Retry, observers, Baselined, Kept
  <1>10. CASE Conclude
    BY <1>10 DEF Conclude, roundVars, Baselined, Kept
  <1>11. CASE UNCHANGED vars
    BY <1>11 DEF vars, roundVars, observers, Baselined, Kept
  <1> QED BY <1>1, <1>2, <1>3, <1>4, <1>5, <1>6, <1>7, <1>8, <1>9, <1>10, <1>11 DEF Next, Work

(* A revise is approved only if no test and no text is lost: the snapshot    *)
(* speaks for the two files it is about, the first recording for the others. *)
THEOREM NothingIsLost == Spec => []NothingLost
  <1>1. Init => NothingLost
    BY DEF Init, NothingLost
  <1>2. NothingLost /\ TypeOK /\ Baselined /\ [Next]_vars => NothingLost'
    <2> SUFFICES ASSUME NothingLost, TypeOK, Baselined, [Next]_vars,
                        at' = "approved", revise'
                 PROVE  NothingLost'
      BY DEF NothingLost
    <2>1. CASE Conclude
      <3>1. PICK t \in Truth : /\ Seen(t) /\ Faults(t) = {}
                              /\ UNCHANGED <<revise, cli, disk, performed, start, scripted>>
        BY <2>1, Approves DEF roundVars
      <3>2. /\ t.test = "passed" /\ t.run # "error"
            /\ ~Linted /\ ~Rewritten /\ ~Removed
        BY <3>1, NoFaults
      <3>3. at = "assess"
        BY <2>1 DEF Conclude
      <3> SUFFICES ASSUME NEW f \in Files,
                          f \in {Main, Test} \/ (~cli /\ f \notin scripted),
                          start[f] # Absent, disk[f] # Absent
                   PROVE  disk[f].text = start[f].text /\ start[f].tests \subseteq disk[f].tests
        BY <3>1 DEF NothingLost
      <3>4. CASE disk[f] = start[f]
        BY <3>4
      <3>5. CASE disk[f] # start[f]
        <4>1. Baseline(f) = start[f]
          BY <3>1, <3>3, <3>5 DEF Baselined, Kept, Baseline
        <4>2. ~Flawed(f, "unparsable")
          BY <3>1, <3>2, <3>3, <3>5 DEF Seen, Linted, Baselined, Kept
        <4>3. f \in Compared
          BY <4>1 DEF Compared
        <4>4. disk[f].text = start[f].text
          BY <3>1, <3>2, <4>1, <4>3 DEF Rewritten
        <4>5. start[f].tests \subseteq disk[f].tests
          BY <3>1, <3>2, <4>1, <4>2, <4>3 DEF Removed
        <4> QED BY <4>4, <4>5
      <3> QED BY <3>4, <3>5
    <2>2. CASE UNCHANGED vars
      BY <2>2 DEF vars, roundVars, observers, NothingLost
    <2> QED BY <2>1, <2>2, Approval
  <1> QED BY <1>1, <1>2, BaselinedInit, BaselinedNext, TypeInit, TypeNext, PTL DEF Spec

-----------------------------------------------------------------------------
(* Why nobody is refused for what others left behind. *)

(* The CLI's edits are not recorded: with it, the only baseline is the       *)
(* snapshot.                                                                 *)
Unrecorded == at # "begin" /\ cli => \A f \in Files : originals[f] = Absent

LEMMA UnrecordedNext == Unrecorded /\ [Next]_vars => Unrecorded'
  <1> SUFFICES ASSUME Unrecorded, [Next]_vars, at' # "begin", cli'
               PROVE  \A f \in Files : originals'[f] = Absent
    BY DEF Unrecorded
  <1>1. CASE Begin
    BY <1>1 DEF Begin
  <1>2. CASE Work
    BY <1>2 DEF Work, Write, Edit, Refused, Command, Declare, Step, Unrecorded
  <1>3. CASE Return \/ Raise \/ Retry \/ Conclude
    BY <1>3 DEF Return, Raise, Retry, Conclude, Unrecorded
  <1>4. CASE UNCHANGED vars
    BY <1>4 DEF vars, Unrecorded
  <1> QED BY <1>1, <1>2, <1>3, <1>4 DEF Next

(* A baseline is what was there when the run began, but for a file that a    *)
(* command touched or the run created.                                       *)
LEMMA BaselineIsStart ==
    ASSUME Baselined, Unrecorded, at # "begin",
           NEW f \in Files, Baseline(f) # Absent, f \notin scripted,
           start[f] # Absent \/ originals[f] = Absent
    PROVE  Baseline(f) = start[f]
  <1>1. CASE before[f] # Absent
    BY <1>1 DEF Baselined, Baseline
  <1>2. CASE before[f] = Absent
    <2>1. originals[f] # Absent /\ Baseline(f) = originals[f]
      BY <1>2 DEF Baseline
    <2>2. ~cli
      BY <2>1 DEF Unrecorded
    <2>3. Kept(f)
      BY <2>2 DEF Baselined
    <2> QED BY <2>1, <2>3 DEF Kept
  <1> QED BY <1>1, <1>2

(* A refusal is Conclude's, and nothing happens after it. *)
LEMMA Refusal ==
    ASSUME [Next]_vars, at' = "refused"
    PROVE  Conclude \/ UNCHANGED vars
  <1>1. ASSUME Step PROVE FALSE
    BY <1>1 DEF Step
  <1>2. ~Work
    BY <1>1 DEF Work, Write, Edit, Refused, Command, Declare
  <1> QED BY <1>2 DEF Next, Begin, Return, Raise, Retry

(* Code that is clean, tested, and lost nothing is not refused for how it    *)
(* came to be so.                                                            *)
THEOREM RefusalsAreDeserved == Spec => []DeservedIsApproved
  <1>1. Init => DeservedIsApproved
    BY DEF Init, DeservedIsApproved
  <1>2. Init => Unrecorded
    BY DEF Init, Unrecorded
  <1>3. DeservedIsApproved /\ TypeOK /\ Baselined /\ Unrecorded /\ [Next]_vars
          => DeservedIsApproved'
    <2> SUFFICES ASSUME DeservedIsApproved, TypeOK, Baselined, Unrecorded, [Next]_vars,
                        at' = "refused"
                 PROVE  DeservedIsApproved'
      BY DEF DeservedIsApproved
    <2>1. CASE Conclude
      <3>1. PICK t \in Truth : /\ truth' = t /\ Faults(t) # {}
                              /\ UNCHANGED <<revise, cli, disk, originals, before, performed,
                                             written, declared, start, scripted>>
        BY <2>1 DEF Conclude, roundVars
      <3>2. at = "assess"
        BY <2>1 DEF Conclude
      <3>3. \/ t.test # "passed" \/ t.run # "good"
            \/ Untested \/ Uncovered(t) \/ Hardcoded \/ Linted \/ Unreconciled
            \/ Noop \/ Rewritten \/ Removed
        BY <3>1 DEF Faults, If
      <3>4. CASE t.test # "passed" \/ t.run # "good"
        BY <3>1, <3>4 DEF DeservedIsApproved
      <3>5. CASE Untested \/ Noop
        BY <3>1, <3>5 DEF DeservedIsApproved, Untested, Noop
      <3>6. CASE Uncovered(t)
        BY <3>1, <3>6 DEF DeservedIsApproved, Uncovered
      <3>7. CASE Hardcoded \/ Linted \/ Unreconciled
        <4>1. PICK f \in Files : disk[f] # Absent /\ disk[f].flaws # {}
          <5>1. performed \subseteq Files /\ Main \in Files
            BY GateAssumption DEF TypeOK
          <5> QED BY <3>7, <5>1 DEF Hardcoded, Linted, Unreconciled, Flawed
        <4> QED BY <3>1, <4>1 DEF DeservedIsApproved
      <3>8. CASE Rewritten \/ Removed
        <4>1. PICK f \in Files :
                /\ Baseline(f) # Absent /\ disk[f] # Absent
                /\ \/ disk[f].text # Baseline(f).text
                   \/ ~(Baseline(f).tests \subseteq disk[f].tests)
          BY <3>8 DEF Rewritten, Removed, Compared
        <4>2. CASE f \in scripted \/ (start[f] = Absent /\ originals[f] # Absent)
          BY <3>1, <4>2 DEF DeservedIsApproved
        <4>3. CASE f \notin scripted /\ (start[f] # Absent \/ originals[f] = Absent)
          <5>1. Baseline(f) = start[f]
            BY <3>2, <4>1, <4>3, BaselineIsStart
          <5> QED BY <3>1, <4>1, <5>1 DEF DeservedIsApproved
        <4> QED BY <4>2, <4>3
      <3> QED BY <3>3, <3>4, <3>5, <3>6, <3>7, <3>8
    <2>2. CASE UNCHANGED vars
      BY <2>2 DEF vars, roundVars, observers, DeservedIsApproved
    <2> QED BY <2>1, <2>2, Refusal
  <1> QED
    BY <1>1, <1>2, <1>3, UnrecordedNext, BaselinedInit, BaselinedNext, TypeInit, TypeNext, PTL
    DEF Spec
=============================================================================
