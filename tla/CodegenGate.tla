----------------------------- MODULE CodegenGate -----------------------------
(***************************************************************************)
(* run_codegen_gated (orchestration/codegen.py): an agent edits files, the *)
(* harness judges what is on disk by the calls it saw, and may send the    *)
(* agent back once. The judges are the folds of codegen.py with the checks *)
(* of verify.py; the tools are those of agent_tools.py, or of the Claude   *)
(* Code CLI (claude_code.py).                                              *)
(*                                                                         *)
(* A file's content is what the judges can tell of it: which text it is a  *)
(* version of (versions of one text are similar, of two are not), the      *)
(* tests in it, its flaws. What running the code shows is a choice.        *)
(* AgentResult.stopped_reason is left out: it refuses nothing.             *)
(*                                                                         *)
(* An operator whose comment begins with "Mutant" is no part of the model: *)
(* it is the definition that follows it with a plausible bug in it.        *)
(***************************************************************************)
EXTENDS Integers, FiniteSets

CONSTANTS
    Files,       \* the paths an agent may touch
    Main, Test,  \* reconcile_path and test_path
    CodeFiles, TestFiles,  \* those _is_code_file holds of, those under tests/
    Tracked,     \* those git has in HEAD
    Contents,    \* of each file, the contents it may have
    Starts,      \* the disks a run may begin with
    Absent,      \* no file, or no content recorded
    MaxRetries,  \* max_retries
    MaxSteps     \* bound on the tool calls of a round

Content == [text : Nat, tests : SUBSET STRING,
            flaws : SUBSET {"hardcoded", "dead store", "unreconciled", "unparsable"}]

MayHold(f) == Contents[f] \cup {Absent}

Stored == {d \in [Files -> UNION {MayHold(f) : f \in Files}] :
             \A f \in Files : d[f] \in MayHold(f)}

ASSUME GateAssumption ==
    /\ Main \in CodeFiles /\ Test \in TestFiles
    /\ CodeFiles \cup TestFiles \subseteq Files /\ CodeFiles \cap TestFiles = {}
    /\ Tracked \subseteq Files
    /\ DOMAIN Contents = Files
    /\ \A f \in Files : \A c \in Contents[f] :
         /\ c \in Content /\ c # Absent
         /\ "unparsable" \in c.flaws => c.tests = {}
    /\ Starts \subseteq Stored
    /\ MaxRetries \in Nat /\ MaxSteps \in Nat

VARIABLES
    at,         \* where the gate is
    revise,     \* require_changes
    cli,        \* whether the Claude Code CLI does the work
    disk,
    originals,  \* agent_tools._ORIGINALS
    before,     \* the snapshot
    round, steps,
    performed,  \* the files of the write calls of all rounds
    written,    \* the files of the write calls of this round
    declared,   \* whether no_change_needed was called in this round
    faults,     \* why the verification is not ok
    \* observers: the disk when the run began; the files changed by other than
    \* a write call; what running the code showed last
    start, scripted, truth

roundVars == <<round, steps, performed, written, declared>>
observers == <<start, scripted, truth>>
vars == <<at, revise, cli, disk, originals, before, roundVars, faults, observers>>

Rules == {"untested", "uncovered", "hardcoded", "lint", "rewritten", "tests removed",
          "unreconciled", "nothing extracted", "no changes"}
Ends == {"approved", "refused", "raised"}

Truth == [test : {"missing", "failed", "passed"}, run : {"good", "nothing", "error"},
          missed : SUBSET CodeFiles]
Untried == [test |-> "missing", run |-> "error", missed |-> {}]

(* Every variable holds a value of its kind. *)
TypeOK ==
    /\ at \in {"begin", "agent", "assess"} \cup Ends
    /\ revise \in BOOLEAN /\ cli \in BOOLEAN
    /\ {disk, originals, before, start} \subseteq Stored
    /\ round \in 1..(MaxRetries + 1) /\ steps \in 0..MaxSteps
    /\ performed \subseteq Files /\ written \subseteq performed
    /\ declared \in BOOLEAN
    /\ faults \subseteq Rules \cup {"test", "error"}
    /\ scripted \subseteq Files /\ truth \in Truth

(* What an earlier run in this process recorded is still there.              *)
Init ==
    /\ at = "begin"
    /\ revise \in BOOLEAN /\ cli \in BOOLEAN
    /\ disk \in Starts
    /\ revise => disk[Main] # Absent
    /\ originals \in {[f \in Files |-> Absent], disk}
    /\ before = [f \in Files |-> Absent]
    /\ round = 1 /\ steps = 0
    /\ performed = {} /\ written = {} /\ declared = FALSE
    /\ faults = {}
    /\ start = disk /\ scripted = {} /\ truth = Untried

Begin ==
    /\ at = "begin" /\ at' = "agent"
    /\ originals' = [f \in Files |-> Absent]
    /\ before' = [f \in Files |-> IF revise /\ f \in {Main, Test} THEN disk[f] ELSE Absent]
    /\ UNCHANGED <<revise, cli, disk, roundVars, faults, observers>>

-----------------------------------------------------------------------------
(* The tools. *)

(* One more call of the agent. *)
Step ==
    /\ at = "agent" /\ steps < MaxSteps
    /\ steps' = steps + 1
    /\ UNCHANGED <<at, revise, cli, before, round, faults, start, truth>>

(* A write call is recorded before it is carried out. *)
Called(f) ==
    /\ performed' = performed \cup {f}
    /\ written' = written \cup {f}

Holds(f, c) == disk' = [disk EXCEPT ![f] = c]

(* write_file creates; the CLI's Write overwrites, too.                      *)
Write(f, c) ==
    /\ Step /\ Called(f)
    /\ disk[f] = Absent \/ cli
    /\ Holds(f, c)
    /\ UNCHANGED <<declared, originals, scripted>>

(* str_replace, insert: only the first change of a file is remembered, and   *)
(* none that the CLI makes.                                                  *)
Edit(f, c) ==
    /\ Step /\ Called(f)
    /\ disk[f] # Absent /\ c # disk[f]
    /\ Holds(f, c)
    /\ originals' = IF cli \/ originals[f] # Absent THEN originals
                    ELSE [originals EXCEPT ![f] = disk[f]]
    /\ UNCHANGED <<declared, scripted>>

(* A write call that is answered with an error. *)
Refused(f) ==
    /\ Step /\ Called(f)
    /\ UNCHANGED <<disk, declared, originals, scripted>>

(* run_command: a shell in the repository. *)
Command(f, c) ==
    /\ Step
    /\ c # disk[f] /\ Holds(f, c)
    /\ scripted' = scripted \cup {f}
    /\ UNCHANGED <<performed, written, declared, originals>>

(* no_change_needed. The CLI has no such tool.                               *)
Declare ==
    /\ Step /\ ~cli
    /\ declared' = TRUE
    /\ UNCHANGED <<performed, written, disk, originals, scripted>>

(* The executor returns. *)
Return ==
    /\ at = "agent" /\ at' = "assess"
    /\ UNCHANGED <<revise, cli, disk, originals, before, roundVars, faults, observers>>

(* The executor raises, or a check of `verify` takes too long. *)
Raise ==
    /\ at \in {"agent", "assess"} /\ at' = "raised"
    /\ UNCHANGED <<revise, cli, disk, originals, before, roundVars, faults, observers>>

-----------------------------------------------------------------------------
(* The judges: each says whether it refuses. *)

Flawed(f, flaw) == disk[f] # Absent /\ flaw \in disk[f].flaws

(* Mutant: judges the round, not the build. *)
UntestedRound ==
    /\ written \cap CodeFiles # {}
    /\ written \cap TestFiles = {}

(* untested_code_files *)
Untested ==
    /\ performed \cap CodeFiles # {}
    /\ performed \cap TestFiles = {}

(* covers_changes: a file git does not know has no changed lines.            *)
Uncovered(t) ==
    /\ ~Untested /\ t.test = "passed"
    /\ t.missed \cap performed \cap Tracked # {}

(* hardcoded_options *)
Hardcoded == \E f \in performed \cap CodeFiles : Flawed(f, "hardcoded")

(* Mutant: judges the round, not the build. *)
LintedRound == \E f \in written : Flawed(f, "dead store") \/ Flawed(f, "unparsable")

(* lint: a file that does not parse is a blocking finding.                   *)
Linted == \E f \in performed : Flawed(f, "dead store") \/ Flawed(f, "unparsable")

(* reconciles *)
Unreconciled == Flawed(Main, "unreconciled")

(* fold_noop: of this round, and any call is a change.                       *)
Noop == revise /\ written = {} /\ ~declared

(* Mutant: what was recorded wins. *)
BaselineOriginals(f) == IF originals[f] # Absent THEN originals[f] ELSE before[f]

(* {**originals(), **before} *)
Baseline(f) == IF before[f] # Absent THEN before[f] ELSE originals[f]

Compared == {f \in Files : Baseline(f) # Absent /\ disk[f] # Absent}

(* wholesale_rewrites *)
Rewritten == revise /\ \E f \in Compared : disk[f].text # Baseline(f).text

(* removed_tests: a file that does not parse is left to lint. *)
Removed ==
    revise /\ \E f \in Compared :
        ~Flawed(f, "unparsable") /\ Baseline(f).tests \ disk[f].tests # {}

If(refuses, fault) == IF refuses THEN {fault} ELSE {}

(* What verify() found, and what each fold adds to it.                       *)
Faults(t) ==
    If(t.test # "passed", "test") \cup If(t.run = "error", "error")
      \cup If(t.run = "nothing", "nothing extracted")
      \cup If(Untested, "untested") \cup If(Uncovered(t), "uncovered")
      \cup If(Hardcoded, "hardcoded") \cup If(Linted, "lint")
      \cup If(Unreconciled, "unreconciled") \cup If(Noop, "no changes")
      \cup If(Rewritten, "rewritten") \cup If(Removed, "tests removed")

-----------------------------------------------------------------------------
(* _assess, and the loop over retries. *)

(* What verify_parser or verify_scraper may see, and in which code files a   *)
(* coverage run may miss changed lines. (None, if coverage cannot be read.)  *)
Seen(t) ==
    /\ t.test = "missing" <=> disk[Test] = Absent
    /\ t.test = "passed" => ~Flawed(Test, "unparsable")
    /\ t.run # "error" => disk[Main] # Absent /\ ~Flawed(Main, "unparsable")
    /\ \A f \in t.missed : disk[f] # Absent

(* Mutant: one more. *)
MayRetryMore == round <= MaxRetries + 1

MayRetry == round <= MaxRetries

(* Mutant: the rounds are not counted. *)
RetryUncounted ==
    /\ at = "assess" /\ at' = "agent"
    /\ \E t \in Truth : Seen(t) /\ Faults(t) \cap Rules # {}
    /\ steps' = 0 /\ written' = {} /\ declared' = FALSE
    /\ UNCHANGED <<revise, cli, disk, originals, before, round, performed, faults, observers>>

(* For a rule that was broken, and for nothing else. (The verification is    *)
(* replaced before anyone reads it again.)                                   *)
Retry ==
    /\ at = "assess" /\ at' = "agent"
    /\ MayRetry
    /\ \E t \in Truth : Seen(t) /\ Faults(t) \cap Rules # {}
    /\ round' = round + 1
    /\ steps' = 0 /\ written' = {} /\ declared' = FALSE
    /\ UNCHANGED <<revise, cli, disk, originals, before, performed, faults, observers>>

Conclude ==
    /\ at = "assess"
    /\ \E t \in Truth :
         /\ Seen(t)
         /\ MayRetry => Faults(t) \cap Rules = {}
         /\ truth' = t /\ faults' = Faults(t)
    /\ at' = IF faults' = {} THEN "approved" ELSE "refused"
    /\ UNCHANGED <<revise, cli, disk, originals, before, roundVars, start, scripted>>

-----------------------------------------------------------------------------
Work ==
    \/ \E f \in Files : \E c \in Contents[f] : Write(f, c) \/ Edit(f, c)
    \/ \E f \in Files : Refused(f) \/ \E c \in MayHold(f) : Command(f, c)
    \/ Declare

Next == Begin \/ Work \/ Return \/ Raise \/ Retry \/ Conclude

Spec == Init /\ [][Next]_vars

(* A round ends: an agent of our own by AgentLoop, the CLI or a check that   *)
(* hangs by the watchdog of BuildJob.                                        *)
FairSpec == Spec /\ WF_vars(Next)

-----------------------------------------------------------------------------
(* An approved build keeps every rule in all that its rounds wrote, as it is *)
(* on disk at the end, whichever round wrote it.                             *)
ApprovedIsClean ==
    at = "approved" =>
        /\ \A f \in performed : ~Flawed(f, "dead store") /\ ~Flawed(f, "unparsable")
        /\ \A f \in performed \cap CodeFiles : ~Flawed(f, "hardcoded")
        /\ ~Flawed(Main, "unreconciled")
        /\ disk[Main] # Absent /\ disk[Test] # Absent
        /\ truth.missed \cap performed \cap Tracked = {}

(* An approved revise lost no test and replaced no text that was there when  *)
(* it began: in the two files it is about by whatever means, in any other    *)
(* file by the tools of the agent.                                           *)
NothingLost ==
    at = "approved" /\ revise =>
        \A f \in Files :
            /\ f \in {Main, Test} \/ (~cli /\ f \notin scripted)
            /\ start[f] # Absent /\ disk[f] # Absent
            => disk[f].text = start[f].text /\ start[f].tests \subseteq disk[f].tests

(* "Judging a round in isolation punished the agent for obeying the retry":  *)
(* code that is clean, tested, and lost nothing is not refused for how it    *)
(* came to be so. (Save in a file that the run created and then edited: the  *)
(* draft it created counts as what was there before.)                        *)
DeservedIsApproved ==
    at = "refused" =>
        \/ truth.test # "passed" \/ truth.run # "good" \/ truth.missed # {}
        \/ \E f \in Files : disk[f] # Absent /\ disk[f].flaws # {}
        \/ performed \cap TestFiles = {}
        \/ revise /\ written = {} /\ ~declared
        \/ \E f \in Files :
             \/ f \in scripted
             \/ start[f] = Absent /\ originals[f] # Absent
             \/ /\ start[f] # Absent /\ disk[f] # Absent
                /\ disk[f].text # start[f].text \/ ~(start[f].tests \subseteq disk[f].tests)

(* The gate comes to a verdict. *)
VerdictComes == <>(at \in Ends)

(* "Require the test to EXERCISE what changed, not merely to exist."         *)
(* (fold_uncovered)                                                          *)
ApprovedIsExercised == at = "approved" => truth.missed \cap performed = {}
=============================================================================
