------------------------------ MODULE AgentLoop ------------------------------
(***************************************************************************)
(* The tool-use loop that writes and repairs parsers: run_agent            *)
(* (orchestration/agent.py) with what it keeps its conversation small by   *)
(* (context_budget.py) and what it notices a model in circles by           *)
(* (repetition.py, degeneration.py).                                       *)
(*                                                                         *)
(* A tool call is known by its fingerprint and by the sizes of its         *)
(* arguments and its result. The task, the system prompt and the model's   *)
(* prose are never trimmed and are left out, of the conversation and of    *)
(* the ledger. (The ledger leaves the task out, too.)                      *)
(*                                                                         *)
(* An operator whose comment begins with "Mutant" is no part of the model: *)
(* it is the definition that follows it with a plausible bug in it.        *)
(***************************************************************************)
EXTENDS Integers, Sequences, FiniteSets, FiniteSetsExt, Totals

CONSTANTS
    Calls,       \* the tool calls there are, by fingerprint
    ReadOnly,    \* those of READ_ONLY_TOOLS
    Malformed,   \* those without an id or a name
    Undecodable, \* those whose arguments are no JSON: dispatched with none
    Fixed,       \* those with nothing in their arguments that is ever shortened
    ArgSize, ResultSize,  \* of each call, in characters
    Replies,     \* the sequences of calls a reply may make
    MaxTurns,    \* max_turns
    KeepLast,    \* keep_last_results
    KeepAll,     \* KEEP_ALL
    TrimAbove,   \* trim_above_chars
    MinCollapse, \* MIN_COLLAPSE_CHARS
    Stub,        \* the size of a stub
    Note,        \* the size of a nudge, a warning or a budget note
    Ceilings,    \* the sizes a server may say it refused
    Window, Strikes,  \* of RepetitionDetector
    Openings,    \* STRIKES of Restatement
    SlowDown, LandIt  \* BUDGET_SLOW_DOWN and BUDGET_LAND_IT

ASSUME AgentAssumption ==
    /\ Calls # {} /\ ReadOnly \subseteq Calls /\ Malformed \subseteq Calls
    /\ Fixed \subseteq Calls /\ Undecodable \subseteq Fixed
    /\ "no" \notin Calls /\ Replies \subseteq Seq(Calls)
    /\ ArgSize \in [Calls -> Nat] /\ ResultSize \in [Calls -> Nat]
    /\ Ceilings \subseteq Nat \ {0}
    /\ \A n \in {MaxTurns, KeepLast, KeepAll, TrimAbove, Note, Window,
                 Strikes, Openings, SlowDown, LandIt} : n \in Nat
    /\ MinCollapse \in Nat /\ Stub \in 0..(MinCollapse - 1)
    /\ MaxTurns # 0 /\ Openings # 0 /\ SlowDown # LandIt

VARIABLES
    at,        \* where the loop is
    turn,
    conv,      \* messages
    live,      \* ledger.live_total
    keep, trimAbove,  \* keep_last_results, trim_above_chars
    shrunk,
    loops,
    opened,    \* Restatement._run
    recent,    \* RepetitionDetector._recent
    nudgedAt,  \* the turn that put a call into RepetitionDetector._nudged, or 0
    \* of one turn: the calls to dispatch, the results so far, the call that is
    \* to end the run (or "no"), and what is to be noted
    todo, results, circling, due,
    \* observers: the characters that entered the conversation and not the
    \* ledger; the turns whose prompt was refused; whether the last refusal
    \* named no size and no reply came since; the message that carries a note
    \* last, or 0; the notes that were in a prompt the model replied to
    unseen, refused, unsized, carrier, told

limits == <<keep, trimAbove, shrunk>>
detectors == <<loops, opened, recent, nudgedAt>>
thisTurn == <<todo, results, circling, due>>
observers == <<unseen, refused, unsized, carrier, told>>
vars == <<at, turn, conv, live, limits, detectors, thisTurn, observers>>

Item == [call : Calls, size : Nat, stub : BOOLEAN]
Message == [role : {"assistant", "results"}, items : Seq(Item)]
Notes == {"looped", "restating", "slow down", "land it"}
Ends == {"answered", "looped", "circled", "capped", "raised"}

(* Every variable holds a value of its kind. *)
TypeOK ==
    /\ at \in {"trim", "ask", "act"} \cup Ends
    /\ turn \in 1..(MaxTurns + 1)
    /\ conv \in Seq(Message)
    /\ live \in Int /\ keep \in Nat /\ trimAbove \in Int /\ shrunk \in BOOLEAN
    /\ loops \in 0..2 /\ opened \in 0..MaxTurns
    /\ recent \in Seq(Calls) /\ Len(recent) <= Window
    /\ nudgedAt \in [Calls -> 0..MaxTurns]
    /\ todo \in Seq(Calls) /\ results \in Seq(Item)
    /\ circling \in Calls \cup {"no"} /\ due \subseteq Notes
    /\ unseen \in Nat /\ refused \subseteq 1..MaxTurns
    /\ unsized \in BOOLEAN
    /\ carrier \in [Notes -> Nat] /\ told \subseteq Notes

Init ==
    /\ at = "trim" /\ turn = 1
    /\ conv = <<>> /\ live = 0
    /\ keep = KeepLast /\ trimAbove = TrimAbove /\ shrunk = FALSE
    /\ loops = 0 /\ opened = 0
    /\ recent = <<>> /\ nudgedAt = [c \in Calls |-> 0]
    /\ todo = <<>> /\ results = <<>> /\ circling = "no" /\ due = {}
    /\ unseen = 0 /\ refused = {} /\ unsized = FALSE
    /\ carrier = [note \in Notes |-> 0] /\ told = {}

-----------------------------------------------------------------------------
(* The start of a turn: collapse_stale_results, collapse_stale_call_args.    *)

Sizes(items) == Total([i \in DOMAIN items |-> items[i].size])
Size(messages) == Total([m \in DOMAIN messages |-> Sizes(messages[m].items)])

(* How many items of the same role come after item i of message m. *)
After(messages, m, i) ==
    Len(messages[m].items) - i
      + Total([n \in DOMAIN messages |->
                 IF n > m /\ messages[n].role = messages[m].role
                 THEN Len(messages[n].items) ELSE 0])

Bulky(item) == item.size >= MinCollapse /\ ~item.stub

(* Mutant: the slice is one short. *)
StaleByOne(messages, m, i) == After(messages, m, i) >= keep - 1

(* slots[:-keep_last], or all of them if keep_last is 0. *)
Stale(messages, m, i) == After(messages, m, i) >= keep

Stubbed(item) == [call |-> item.call, size |-> Stub, stub |-> TRUE]

(* Arguments that are no JSON are left as they are, and so are those under   *)
(* KEEP_ARG_KEYS.                                                            *)
Shrinks(messages, m, i) ==
    /\ Bulky(messages[m].items[i]) /\ Stale(messages, m, i)
    /\ messages[m].role = "assistant" => messages[m].items[i].call \notin Fixed

Collapsed(messages, role) ==
    [m \in DOMAIN messages |->
       IF messages[m].role # role THEN messages[m]
       ELSE [role |-> role,
             items |-> [i \in DOMAIN messages[m].items |->
                          IF Shrinks(messages, m, i)
                          THEN Stubbed(messages[m].items[i])
                          ELSE messages[m].items[i]]]]

(* Mutant: what the arguments gave back stays on the ledger. *)
TrimArgsUncounted ==
    /\ at = "trim" /\ at' = "ask"
    /\ \E one \in {IF live >= trimAbove THEN Collapsed(conv, "results") ELSE conv} :
          /\ live' = live - (Size(conv) - Size(one))
          /\ conv' = IF live' >= trimAbove THEN Collapsed(one, "assistant") ELSE one
    /\ UNCHANGED <<turn, limits, detectors, thisTurn, observers>>

(* The second collapse asks the ledger again, after what the first saved.    *)
(* \E over one value, not LET: TLC evaluates a bound value once.             *)
Trim ==
    /\ at = "trim" /\ at' = "ask"
    /\ \E one \in {IF live >= trimAbove THEN Collapsed(conv, "results") ELSE conv} :
       \E left \in {live - (Size(conv) - Size(one))} :
       \E two \in {IF left >= trimAbove THEN Collapsed(one, "assistant") ELSE one} :
          /\ conv' = two
          /\ live' = left - (Size(one) - Size(two))
    /\ UNCHANGED <<turn, limits, detectors, thisTurn, observers>>

-----------------------------------------------------------------------------
(* The call of the model raises. *)

(* The for loop goes on to its next turn, or past its end. *)
NextTurn ==
    /\ turn' = turn + 1
    /\ at' = IF turn < MaxTurns THEN "trim" ELSE "capped"

Unsized == 0

(* int(n * CEILING_HEADROOM), which drops the fraction. *)
Headroom(n) == IF n >= 0 THEN (n * 6) \div 10 ELSE -((-n * 6) \div 10)

(* Mutant: the threshold follows only a ceiling that was named. *)
RecoverIfSized(ceiling) ==
    /\ at = "ask" /\ ~shrunk /\ keep # KeepAll
    /\ shrunk' = TRUE
    /\ trimAbove' = IF ceiling = Unsized THEN trimAbove ELSE Headroom(ceiling)
    /\ keep' = Max({2, keep \div 2})
    /\ NextTurn
    /\ refused' = refused \cup {turn} /\ unsized' = (ceiling = Unsized)
    /\ UNCHANGED <<conv, live, detectors, thisTurn, unseen, carrier, told>>

(* Mutant: the same turn is tried until the server accepts it. *)
RecoverInPlace(ceiling) ==
    /\ at = "ask" /\ keep # KeepAll
    /\ trimAbove' = Headroom(IF ceiling = Unsized THEN live ELSE ceiling)
    /\ keep' = Max({2, keep \div 2})
    /\ at' = "trim"
    /\ refused' = refused \cup {turn} /\ unsized' = (ceiling = Unsized)
    /\ UNCHANGED <<turn, shrunk, conv, live, detectors, thisTurn, unseen, carrier, told>>

(* The prompt was refused for its size, the first time.                      *)
Recover(ceiling) ==
    /\ at = "ask" /\ ~shrunk /\ keep # KeepAll
    /\ shrunk' = TRUE
    /\ trimAbove' = Headroom(IF ceiling = Unsized THEN live ELSE ceiling)
    /\ keep' = Max({2, keep \div 2})
    /\ NextTurn
    /\ refused' = refused \cup {turn} /\ unsized' = (ceiling = Unsized)
    /\ UNCHANGED <<conv, live, detectors, thisTurn, unseen, carrier, told>>

EndsAs(how) == at' = how /\ turn' = turn

(* Any other exception, or a refusal that nothing more can be done about.    *)
Raise ==
    /\ at = "ask" /\ EndsAs("raised")
    /\ UNCHANGED <<conv, live, limits, detectors, thisTurn, observers>>

-----------------------------------------------------------------------------
(* The model replies with `calls`; its text was trimmed as a loop, or not;   *)
(* it opens as the reply before, with something new, or with no text.        *)

Sound(calls) ==
    LET kept[n \in 0..Len(calls)] ==
          IF n = 0 THEN <<>>
          ELSE IF calls[n] \in Malformed THEN kept[n - 1]
          ELSE Append(kept[n - 1], calls[n])
    IN  kept[Len(calls)]

Made(calls) ==
    [i \in DOMAIN calls |-> [call |-> calls[i], size |-> ArgSize[calls[i]], stub |-> FALSE]]

(* What note_call counts: the decoded arguments, {} if they are no JSON.     *)
Heard(c) == IF c \in Undecodable THEN 0 ELSE ArgSize[c]

(* What the ledger does not hear of. The assistant message keeps the raw     *)
(* arguments, and the calls without an id or a name, which no one dispatches.*)
Unheard(calls) ==
    Sizes([i \in DOMAIN calls |->
             [size |-> IF calls[i] \in Malformed \cup Undecodable
                       THEN ArgSize[calls[i]] ELSE 0]])

(* The notes that the prompt replied to has in its last message.             *)
Carried ==
    {note \in Notes : /\ carrier[note] # 0 /\ carrier[note] = Len(conv)
                      /\ ~conv[carrier[note]].items[1].stub}

(* Mutant: a reply that looped is kept out of the conversation. *)
ReplyDropsLoop(calls, looped, opening) ==
    /\ at = "ask"
    /\ looped => opening # "none"
    /\ opening = "same" => opened > 0
    /\ conv' = IF looped THEN conv
                ELSE Append(conv, [role |-> "assistant", items |-> Made(calls)])
    /\ loops' = IF looped THEN loops + 1 ELSE loops
    /\ opened' = IF loops' >= 2 \/ opening = "none" THEN opened
                  ELSE IF opening = "same" THEN opened + 1 ELSE 1
    /\ due' = (IF looped THEN {"looped"} ELSE {}) \cup
              (IF opening # "none" /\ opened' >= Openings THEN {"restating"} ELSE {})
    /\ todo' = Sound(calls) /\ results' = <<>> /\ circling' = "no"
    /\ EndsAs(IF loops' >= 2 THEN "looped"
              ELSE IF todo' = <<>> THEN "answered" ELSE "act")
    /\ unseen' = unseen + Unheard(calls)
    /\ unsized' = FALSE /\ told' = told \cup Carried
    /\ UNCHANGED <<live, limits, recent, nudgedAt, refused, carrier>>

Reply(calls, looped, opening) ==
    /\ at = "ask"
    /\ looped => opening # "none"
    /\ opening = "same" => opened > 0
    /\ conv' = Append(conv, [role |-> "assistant", items |-> Made(calls)])
    /\ loops' = IF looped THEN loops + 1 ELSE loops
    /\ opened' = IF loops' >= 2 \/ opening = "none" THEN opened
                  ELSE IF opening = "same" THEN opened + 1 ELSE 1
    /\ due' = (IF looped THEN {"looped"} ELSE {}) \cup
              (IF opening # "none" /\ opened' >= Openings THEN {"restating"} ELSE {})
    /\ todo' = Sound(calls) /\ results' = <<>> /\ circling' = "no"
    /\ EndsAs(IF loops' >= 2 THEN "looped"
              ELSE IF todo' = <<>> THEN "answered" ELSE "act")
    /\ unseen' = unseen + Unheard(calls)
    /\ unsized' = FALSE /\ told' = told \cup Carried
    /\ UNCHANGED <<live, limits, recent, nudgedAt, refused, carrier>>

-----------------------------------------------------------------------------
(* One call: dispatch, and RepetitionDetector.observe. *)

Counted(c) == Cardinality({i \in DOMAIN recent' : recent'[i] = c})

(* Mutant: the window never moves. *)
RememberAll(c) == recent' = Append(recent, c)

Remember(c) ==
    recent' = LET all == Append(recent, c)
              IN  IF Len(all) <= Window THEN all ELSE Tail(all)

Receive(c, size) ==
    /\ results' = Append(results, [call |-> c, size |-> size, stub |-> FALSE])
    /\ live' = live + Heard(c) + size

Dispatch ==
    /\ at = "act" /\ todo # <<>>
    /\ todo' = Tail(todo)
    /\ UNCHANGED <<at, turn, conv, limits, loops, opened, due, observers>>

(* A call that only reads is exempt. *)
Read ==
    /\ Dispatch /\ Head(todo) \in ReadOnly
    /\ Receive(Head(todo), ResultSize[Head(todo)])
    /\ UNCHANGED <<recent, nudgedAt, circling>>

Progress ==
    /\ Dispatch /\ Head(todo) \notin ReadOnly
    /\ LET c == Head(todo)
       IN  /\ Remember(c)
           /\ Counted(c) < IF nudgedAt[c] # 0 THEN 2 ELSE Strikes
           /\ Receive(c, ResultSize[c])
    /\ UNCHANGED <<nudgedAt, circling>>

(* The nudge rides on the result, and the ledger counts it. *)
Nudge ==
    /\ Dispatch /\ Head(todo) \notin ReadOnly
    /\ LET c == Head(todo)
       IN  /\ Remember(c)
           /\ nudgedAt[c] = 0 /\ Counted(c) >= Strikes
           /\ nudgedAt' = [nudgedAt EXCEPT ![c] = turn]
           /\ Receive(c, ResultSize[c] + Note)
    /\ UNCHANGED circling

(* The calls that follow it in the reply are dispatched all the same. *)
Circle ==
    /\ Dispatch /\ Head(todo) \notin ReadOnly
    /\ LET c == Head(todo)
       IN  /\ Remember(c)
           /\ nudgedAt[c] # 0 /\ Counted(c) >= 2
           /\ circling' = c
           /\ Receive(c, ResultSize[c])
    /\ UNCHANGED nudgedAt

-----------------------------------------------------------------------------
(* All calls are done. *)

BudgetNote ==
    CASE MaxTurns - turn = SlowDown -> {"slow down"}
      [] MaxTurns - turn = LandIt -> {"land it"}
      [] OTHER -> {}

Stop ==
    /\ at = "act" /\ todo = <<>> /\ circling # "no"
    /\ EndsAs("circled")
    /\ UNCHANGED <<conv, live, limits, detectors, thisTurn, observers>>

Deliver(notes) ==
    /\ at = "act" /\ todo = <<>> /\ circling = "no"
    /\ conv' = Append(conv, [role |-> "results",
                             items |-> [results EXCEPT ![1].size =
                                          @ + Note * Cardinality(notes)]])
    /\ unseen' = unseen + Note * Cardinality(notes)
    /\ carrier' = [note \in Notes |->
                     IF note \in notes THEN Len(conv) + 1 ELSE carrier[note]]
    /\ NextTurn
    /\ todo' = <<>> /\ results' = <<>> /\ circling' = "no" /\ due' = {}
    /\ UNCHANGED <<live, limits, detectors, refused, unsized, told>>

(* Mutant: a warning takes the place of the budget note. *)
GoOnWarning == Deliver(IF due # {} THEN due ELSE BudgetNote)

(* The notes ride on the first result, after the ledger has counted it.      *)
GoOn == Deliver(due \cup BudgetNote)

-----------------------------------------------------------------------------
Ask ==
    \/ \E ceiling \in Ceilings \cup {Unsized} : Recover(ceiling)
    \/ Raise
    \/ \E calls \in Replies, looped \in BOOLEAN, opening \in {"none", "same", "new"} :
         Reply(calls, looped, opening)

Act == Read \/ Progress \/ Nudge \/ Circle \/ Stop \/ GoOn

Next == Trim \/ Ask \/ Act

Spec == Init /\ [][Next]_vars

(* The loop is scheduled, and each call of the model returns or raises (the  *)
(* client has a timeout; the watchdog of BuildJob ends the process if not).  *)
FairSpec == Spec /\ WF_vars(Next)

-----------------------------------------------------------------------------
(* In each prompt, every dispatched call is answered by the message that     *)
(* follows it, in order, and nothing else is: trimming, nudges and stops     *)
(* leave the pairing that providers check as it is.                          *)
CallsAreAnswered ==
    at = "ask" =>
        LET calls(m) == [i \in DOMAIN conv[m].items |-> conv[m].items[i].call]
        IN  /\ \A m \in DOMAIN conv : conv[m].role = (IF m % 2 = 1 THEN "assistant" ELSE "results")
            /\ Len(conv) % 2 = 0
            /\ \A m \in DOMAIN conv : m % 2 = 1 => calls(m + 1) = Sound(calls(m))

(* The ledger accounts for the conversation, stubs and all, but for what it  *)
(* never hears of: filtered calls, arguments that are no JSON, notes. "The   *)
(* second is only trustworthy with the first" (Ledger).                      *)
LedgerInStep == at \in {"trim", "ask"} => live + unseen = Size(conv)

(* No prompt has a stub among the results and calls that are to stay         *)
(* verbatim, whether or not keep_last_results was cut after a refusal.       *)
RecentStayVerbatim ==
    at = "ask" =>
        \A m \in DOMAIN conv : \A i \in DOMAIN conv[m].items :
            conv[m].items[i].stub => After(conv, m, i) >= Min({keep, KeepLast})

(* After a refusal that named no size, what is sent next has no bulky result *)
(* left but those to keep: the recovery is no repetition of the same prompt. *)
RetryIsTrimmed ==
    at = "ask" /\ unsized =>
        \A m \in DOMAIN conv : \A i \in DOMAIN conv[m].items :
            conv[m].role = "results" /\ Bulky(conv[m].items[i])
              => After(conv, m, i) < keep

(* "the recovery is attempted once rather than every turn of a losing fight" *)
OneRecovery == Cardinality(refused) <= 1

(* In this prompt, or in one the model replied to; or its message had more   *)
(* results than stay verbatim, and the first was trimmed (ReadBeforeTrimmed).*)
Given(note) ==
    \/ note \in told \cup Carried
    \/ carrier[note] # 0 /\ Len(conv[carrier[note]].items) > Min({keep, KeepLast})

(* The model reads what it has to know before it is held against it: a loop  *)
(* it was in, a restatement, and the turns left. The exceptions are the turn *)
(* that was to warn it and whose prompt was refused, and the notes that a    *)
(* reply with too many calls had trimmed off before any prompt had them.     *)
NotesAreDelivered ==
    at = "ask" =>
        /\ loops > 0 => Given("looped")
        /\ opened >= Openings => Given("restating")
        /\ \A note \in {<<SlowDown, "slow down">>, <<LandIt, "land it">>} :
             LET when == MaxTurns - note[1]
             IN  when \in 1..(turn - 1) => when \in refused \/ Given(note[2])

(* A run ends: with an answer, stopped, at its cap or with an exception. *)
RunEnds == <>(at \in Ends)

(* A result is in a prompt as it is before it is trimmed: "Results the agent *)
(* has already acted on become a one-line stub" (run_agent).                 *)
ReadBeforeTrimmed ==
    [][at = "trim" /\ conv # <<>> => conv'[Len(conv)] = conv[Len(conv)]]_vars
=============================================================================
