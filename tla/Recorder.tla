------------------------------ MODULE Recorder ------------------------------
(***************************************************************************)
(* A demonstration being recorded: core/tools/demo_recorder.py. A script   *)
(* in every document logs what the operator does there; a poll folds the   *)
(* logs of all open documents into one store, and keeps the structure of   *)
(* the page in front; what is trimmed to a budget at the end is written    *)
(* from the store. A navigation takes a document's log with it.            *)
(*                                                                         *)
(* A poll reads one document after the other, in any order, and then looks *)
(* at the page in front; the operator goes on meanwhile. Time is counted   *)
(* in actions, so no two have the same stamp.                              *)
(***************************************************************************)
EXTENDS Naturals, Sequences, FiniteSets, SequencesExt

CONSTANTS
    Documents,  \* tabs and frames
    Fields,     \* fields of a form
    Entries,    \* what is typed into them
    MaxLog,     \* MAX: the longest log of a document
    MaxActions, \* _MAX_ACTIONS
    HeadActions,\* _HEAD_ACTIONS
    MaxTime     \* bound on the operator's actions

ASSUME RecorderAssumption ==
    /\ {MaxLog, MaxActions, HeadActions, MaxTime} \subseteq Nat
    /\ HeadActions < MaxActions /\ "click" \notin Fields

VARIABLES
    log,      \* __demo_actions of each document
    value,    \* what is in the fields of each document
    settled,  \* settled of each document: what its script last logged of them
    table,    \* whether the document shows a data table
    visited,   \* documents the poll under way has been at
    store,    \* latest["actions"]
    shown,    \* whether latest["structure"] has a table
    time,
    watching, \* "yes", "closed", or "gave up" at the deadline
    synced,   \* observer: documents with nothing new since a poll read them
    read,     \* observer: the actions a poll has read
    sawTable  \* observer: a poll has had a table in front of it

recorderVars == <<log, value, settled, table, visited, store, shown, time,
                  watching, synced, read, sawTable>>

Unset == "unset"
(* `doc` is the page the action was on, its href. *)
Actions == [t : 1..MaxTime, doc : Documents, what : Fields \cup {"click"},
            entry : Entries \cup {Unset}]

RecorderTypeOK ==
    /\ log \in [Documents -> Seq(Actions)]
    /\ \A d \in Documents : Len(log[d]) <= MaxLog
    /\ {value, settled} \subseteq [Documents -> [Fields -> Entries \cup {Unset}]]
    /\ table \in [Documents -> BOOLEAN]
    /\ store \subseteq Actions /\ read \subseteq Actions
    /\ shown \in BOOLEAN /\ sawTable \in BOOLEAN
    /\ visited \subseteq Documents /\ synced \subseteq Documents
    /\ time \in 0..MaxTime /\ watching \in {"yes", "closed", "gave up"}

RecorderInit ==
    /\ log = [d \in Documents |-> <<>>]
    /\ value = [d \in Documents |-> [f \in Fields |-> Unset]]
    /\ settled = value
    /\ table = [d \in Documents |-> FALSE]
    /\ store = {} /\ read = {} /\ shown = FALSE /\ sawTable = FALSE
    /\ time = 0 /\ watching = "yes" /\ synced = {} /\ visited = {}

-----------------------------------------------------------------------------
(* Mutant: a log has no end. *)
PushedForever(l, a) ==
    IF l # <<>> /\ a.what # "click" /\ l[Len(l)].what = a.what
    THEN [l EXCEPT ![Len(l)] = a]
    ELSE Append(l, a)

(* push: a full log takes nothing more; a field set again, with nothing      *)
(* between, replaces its last entry.                                         *)
Pushed(l, a) ==
    IF Len(l) >= MaxLog THEN l
    ELSE IF l # <<>> /\ a.what # "click" /\ l[Len(l)].what = a.what
    THEN [l EXCEPT ![Len(l)] = a]
    ELSE Append(l, a)

Logs(d, what, entry) ==
    /\ watching = "yes" /\ time < MaxTime
    /\ time' = time + 1
    /\ log' = [log EXCEPT ![d] =
                 Pushed(@, [t |-> time', doc |-> d, what |-> what, entry |-> entry])]
    /\ synced' = synced \ {d}
    /\ UNCHANGED <<table, visited, store, shown, watching, read, sawTable>>

Click(d) == Logs(d, "click", Unset) /\ UNCHANGED <<value, settled>>

(* onSet, at every keystroke, and once more when the field is left: an echo  *)
(* of the same value is no action. A full log is left before that is asked,  *)
(* and `settled` stays behind the field.                                     *)
SetField(d, f, v) ==
    /\ value[d][f] # v
    /\ value' = [value EXCEPT ![d][f] = v]
    /\ Logs(d, f, v)
    /\ settled' = IF Len(log[d]) >= MaxLog THEN settled
                  ELSE [settled EXCEPT ![d][f] = v]

(* A document is loaded anew, and its log is gone.                           *)
Navigate(d) ==
    /\ watching = "yes"
    /\ log' = [log EXCEPT ![d] = <<>>]
    /\ value' = [value EXCEPT ![d] = [f \in Fields |-> Unset]]
    /\ settled' = [settled EXCEPT ![d] = [f \in Fields |-> Unset]]
    /\ table' = [table EXCEPT ![d] = FALSE]
    /\ synced' = synced \ {d}
    /\ UNCHANGED <<visited, store, shown, time, watching, read, sawTable>>

(* The table comes, or goes, without one.                                    *)
Render(d) ==
    /\ watching = "yes" /\ table' = [table EXCEPT ![d] = ~@]
    /\ UNCHANGED <<log, value, settled, visited, store, shown, time, watching, synced,
                   read, sawTable>>

-----------------------------------------------------------------------------
(* Mutant: the longest log wins, and is all there is. *)
RememberLongest(s, l) == IF Len(l) > Cardinality(s) THEN ToSet(l) ELSE s

(* _remember: what is not in the store yet, by stamp, kind and value. *)
Remember(s, l) == s \cup ToSet(l)

(* snapshot: a document in the middle of a navigation cannot be read, and is *)
(* passed over.                                                              *)
ReadLog(d) ==
    /\ watching = "yes" /\ d \notin visited
    /\ visited' = visited \cup {d}
    /\ \/ /\ store' = Remember(store, log[d])
          /\ read' = read \cup ToSet(log[d]) /\ synced' = synced \cup {d}
       \/ UNCHANGED <<store, read, synced>>
    /\ UNCHANGED <<log, value, settled, table, shown, time, watching, sawTable>>

(* At the end of it the page in front is looked at, if it lets itself be;    *)
(* only a table replaces a table.                                            *)
TakeStructure ==
    /\ watching = "yes" /\ visited = Documents
    /\ visited' = {}
    /\ \/ \E front \in Documents :
            /\ shown' = IF table[front] \/ ~shown THEN table[front] ELSE shown
            /\ sawTable' = (sawTable \/ table[front])
       \/ UNCHANGED <<shown, sawTable>>
    /\ UNCHANGED <<log, value, settled, table, store, time, watching, synced, read>>

(* All windows closed; or the deadline, and nothing is written.              *)
EndDemonstration ==
    /\ watching = "yes" /\ visited = {} /\ watching' \in {"closed", "gave up"}
    /\ UNCHANGED <<log, value, settled, table, visited, store, shown, time, synced, read,
                   sawTable>>

RecorderNext ==
    \/ \E d \in Documents :
         \/ Click(d) \/ Navigate(d) \/ Render(d) \/ ReadLog(d)
         \/ \E f \in Fields, v \in Entries : SetField(d, f, v)
    \/ TakeStructure \/ EndDemonstration

RecorderSpec == RecorderInit /\ [][RecorderNext]_recorderVars

-----------------------------------------------------------------------------
(* By stamp: before the k-th there are k - 1 others. *)
InOrder(s) ==
    [k \in 1..Cardinality(s) |->
       CHOOSE a \in s : Cardinality({b \in s : b.t < a.t}) = k - 1]

(* _merge_actions: in the order they were done; from the middle of too many  *)
(* some are dropped.                                                         *)
Merged(s) ==
    LET all == InOrder(s)
        n == Len(all)
    IN  IF n <= MaxActions THEN all
        ELSE SubSeq(all, 1, HeadActions)
               \o SubSeq(all, n - (MaxActions - HeadActions) + 1, n)

(* What is written is true to what the operator did, over tabs and           *)
(* navigations: whatever a poll has read is in it, but for the middle of a   *)
(* long one; a field of a page that a poll has caught up with ends with the  *)
(* value that is in it, though its keystrokes may be there too, unless it    *)
(* was set once the page's log was full, which drops what comes after; and a *)
(* table that was in front of a poll is not lost to a page without one.      *)
DemonstrationIsTrue ==
    LET demo == Merged(store)
    IN  /\ sawTable => shown
        /\ Cardinality(read) <= MaxActions => read \subseteq ToSet(demo)
        /\ \A i \in 2..Len(demo) : demo[i - 1].t < demo[i].t
        /\ \A a \in read :
             Cardinality({b \in read : b.t >= a.t}) <= MaxActions - HeadActions
               => a \in ToSet(demo)
        /\ \A d \in synced, f \in Fields :
             /\ value[d][f] # Unset
             /\ Len(log[d]) < MaxLog \/ value[d][f] = settled[d][f]
             => \E a \in store :
                  /\ a.doc = d /\ a.what = f /\ a.entry = value[d][f]
                  /\ \A b \in store : b.doc = d /\ b.what = f => b.t <= a.t
=============================================================================
