------------------------------ MODULE Registry ------------------------------
(***************************************************************************)
(* The registry of sources and inboxes: the tools of interfaces/           *)
(* mcp_tools.py that change core/policies/services.yaml, over              *)
(* core/tools/service_manifest.py. They run on a pool of threads, and each *)
(* loads the file, changes it and writes it back whole, with no lock.      *)
(*                                                                         *)
(* A call is cut where it reads or writes what another can change. A call  *)
(* that is refused at once changes nothing and is no action. Of an entry   *)
(* the model keeps its key, its route and whether its label was changed.   *)
(* Its definitions have names of their own: MCRecordsOffice composes some.  *)
(***************************************************************************)
EXTENDS Naturals, Sequences, FiniteSets

CONSTANTS
    MailSources,   \* keys of the sources that may be added
    MaxInbox,      \* inbox keys "mailbox", "mailbox_2", ...: 1..MaxInbox
    ToolThreads,   \* threads of the server
    MaxEntries,    \* bound on the entries two writers leave between them
    MaxCrashes     \* bound on the restarts of the server

Inbox == 1..MaxInbox
Keys == Inbox \cup MailSources

ASSUME RegistryAssumption ==
    /\ {MaxInbox, MaxEntries, MaxCrashes} \subseteq Nat
    /\ MailSources \cap Nat = {}

VARIABLES
    manifest,  \* the entries in services.yaml, in order
    torn,      \* two writers have left the file unreadable
    signedIn,  \* the inboxes the vault holds a token for
    call,      \* the call each thread is in
    crashes,
    sound,     \* observer: no call was cut short, or overlapped another
    crossed    \* observer: two calls had the file open to write at once

registryVars == <<manifest, torn, signedIn, call, crashes, sound, crossed>>

Entries == [key : Keys, carrier : 0..MaxInbox, label : {"first", "changed"}]

(* `services` is what the call's checks were made on, `doc` what it will     *)
(* write.                                                                    *)
Calls == [pc : {"forget", "load", "dump", "write", "search"},
          op : {"add", "rename", "remove", "route"}, key : Keys,
          carrier : 0..MaxInbox, services : Seq(Entries), doc : Seq(Entries)]
Free == [pc |-> "free"]

RegistryTypeOK ==
    /\ manifest \in Seq(Entries) /\ torn \in BOOLEAN
    /\ signedIn \subseteq Inbox
    /\ call \in [ToolThreads -> Calls \cup {Free}]
    /\ crashes \in 0..MaxCrashes /\ {sound, crossed} \subseteq BOOLEAN

RegistryInit ==
    /\ manifest = <<>> /\ torn = FALSE /\ signedIn = {}
    /\ call = [t \in ToolThreads |-> Free]
    /\ crashes = 0 /\ sound = TRUE /\ crossed = FALSE

-----------------------------------------------------------------------------
(* Documents. *)
KeysOf(doc) == {doc[i].key : i \in DOMAIN doc}
Users(doc, k) == {i \in DOMAIN doc : doc[i].carrier = k}

(* The loops of the methods take the first entry of the key, and return.    *)
Place(doc, k) ==
    CHOOSE i \in DOMAIN doc :
        doc[i].key = k /\ \A j \in 1..(i - 1) : doc[j].key # k

(* Mutant: add() trusts what the tool has seen as it began. *)
AllowedAtFirst(doc, c) ==
    IF c.op = "add" THEN c.key \notin KeysOf(c.services)
    ELSE c.key \in KeysOf(doc)

(* What else the methods raise: SERVICE_EXISTS, SERVICE_NOT_FOUND. *)
Allowed(doc, c) == c.op = "add" <=> c.key \notin KeysOf(doc)

NewEntry(k) == [key |-> k, carrier |-> 0, label |-> "first"]

(* Mutant: remove() also takes what follows the entry. *)
ChangedDropsTail(doc, c) ==
    LET i == Place(doc, c.key)
    IN  CASE c.op = "add" -> Append(doc, NewEntry(c.key))
          [] c.op = "remove" -> SubSeq(doc, 1, i - 1)
          [] c.op = "rename" -> [doc EXCEPT ![i].label = "changed"]
          [] c.op = "route" -> [doc EXCEPT ![i].carrier = c.carrier]

(* add, remove, update, and set_ or clear_email_search. *)
Changed(doc, c) ==
    LET i == Place(doc, c.key)
    IN  CASE c.op = "add" -> Append(doc, NewEntry(c.key))
          [] c.op = "remove" ->
               SubSeq(doc, 1, i - 1) \o SubSeq(doc, i + 1, Len(doc))
          [] c.op = "rename" -> [doc EXCEPT ![i].label = "changed"]
          [] c.op = "route" -> [doc EXCEPT ![i].carrier = c.carrier]

-----------------------------------------------------------------------------
(* The tools begin: checks made on the manifest as it reads now. *)
Goes(t, pc) == call' = [call EXCEPT ![t].pc = pc]
Returns(t) == call' = [call EXCEPT ![t] = Free]

Begins(t, op, k, c, pc) ==
    /\ call[t] = Free /\ ~torn
    /\ call' = [call EXCEPT ![t] =
                  [pc |-> pc, op |-> op, key |-> k, carrier |-> c,
                   services |-> manifest, doc |-> <<>>]]
    /\ sound' = (sound /\ \A u \in ToolThreads : call[u] = Free)
    /\ UNCHANGED <<manifest, torn, signedIn, crashes, crossed>>

(* add_inbox: an unnamed mailbox gets the first free key. *)
AddInbox(t) ==
    \E k \in Inbox \ KeysOf(manifest) :
        /\ \A j \in 1..(k - 1) : j \in KeysOf(manifest)
        /\ Begins(t, "add", k, 0, "load")

RenameInbox(t, k) ==
    k \in KeysOf(manifest) /\ Begins(t, "rename", k, 0, "load")

(* Mutant: an inbox in use may be deleted. *)
DeleteUsedInbox(t, k) ==
    k \in KeysOf(manifest) /\ Begins(t, "remove", k, 0, "forget")

DeleteInbox(t, k) ==
    /\ k \in KeysOf(manifest) /\ Users(manifest, k) = {}
    /\ Begins(t, "remove", k, 0, "forget")

(* save_email_search's checks: both are known, and the inbox is signed in. *)
Routable(s, k) == {s, k} \subseteq KeysOf(manifest) /\ k \in signedIn

SaveEmailSearch(t, s, k) ==
    Routable(s, k) /\ Begins(t, "route", s, k, "load")

RemoveEmailSearch(t, s) ==
    s \in KeysOf(manifest) /\ Begins(t, "route", s, 0, "load")

(* add_source; k is the carrier of one that arrives by email, else 0. *)
AddSource(t, s, k) ==
    /\ s \notin KeysOf(manifest) /\ k \in KeysOf(manifest) \cup {0}
    /\ Begins(t, "add", s, k, "load")

(* What was learned under the staging key is moved by _adopt_staged: it is   *)
(* on no other's path, and left out. request_transport, demo_status and an   *)
(* agent's tools call update() as rename_inbox does.                         *)

-----------------------------------------------------------------------------
(* delete_inbox drops the token before the entry. *)
Forget(t) ==
    /\ call[t].pc = "forget"
    /\ signedIn' = signedIn \ {call[t].key}
    /\ Goes(t, "load")
    /\ UNCHANGED <<manifest, torn, crashes, sound, crossed>>

(* A method of ServiceManifest: load, check, change; dump. *)
Load(t) ==
    /\ call[t].pc = "load"
    /\ IF ~torn /\ Allowed(manifest, call[t])
       THEN call' = [call EXCEPT ![t].doc = Changed(manifest, call[t]),
                                 ![t].pc = "dump"]
       ELSE Returns(t)
    /\ UNCHANGED <<manifest, torn, signedIn, crashes, sound, crossed>>

(* open("w") truncates: until the dump is there a reader finds no services.  *)
Truncate(t) ==
    /\ call[t].pc = "dump"
    /\ manifest' = <<>> /\ torn' = FALSE
    /\ Goes(t, "write")
    /\ crossed' = (crossed \/ \E u \in ToolThreads \ {t} : call[u].pc = "write")
    /\ UNCHANGED <<signedIn, crashes, sound>>

(* Written over another's dump, a shorter document leaves what of that one   *)
(* is beyond its own end: whole entries, or what no reader can make sense of *)
(* (a cut through an entry is taken for that).                               *)
Overlaid(doc, old) ==
    {doc} \cup {new \in {doc \o SubSeq(old, i, Len(old)) : i \in 2..Len(old)} :
                  Len(new) <= MaxEntries}

Write(t) ==
    LET c == call[t]
    IN  /\ c.pc = "write"
        /\ IF manifest \in {<<>>, c.doc} /\ ~torn
           THEN manifest' = c.doc /\ torn' = FALSE
           ELSE manifest' \in Overlaid(c.doc, manifest) /\ torn' \in BOOLEAN
        /\ IF c.op = "add" /\ c.carrier # 0 THEN Goes(t, "search")
           ELSE Returns(t)
        /\ UNCHANGED <<signedIn, crashes, sound, crossed>>

(* add_source goes on to save_email_search, which may refuse: the source     *)
(* stays, without its route.                                                 *)
Search(t) ==
    LET c == call[t]
    IN  /\ c.pc = "search"
        /\ IF ~torn /\ Routable(c.key, c.carrier)
           THEN call' = [call EXCEPT ![t].op = "route", ![t].pc = "load",
                                     ![t].services = manifest]
           ELSE Returns(t)
        /\ UNCHANGED <<manifest, torn, signedIn, crashes, sound, crossed>>

(* The consent worker, another process, stores a token (StatusWorkers). *)
SignIn(k) ==
    /\ k \in KeysOf(manifest) /\ signedIn' = signedIn \cup {k}
    /\ UNCHANGED <<manifest, torn, call, crashes, sound, crossed>>

(* The app goes down and comes back: its calls are cut where they are. *)
Crash ==
    /\ crashes < MaxCrashes /\ crashes' = crashes + 1
    /\ sound' = (sound /\ \A t \in ToolThreads : call[t] = Free)
    /\ call' = [t \in ToolThreads |-> Free]
    /\ UNCHANGED <<manifest, torn, signedIn, crossed>>

RegistryCall(t) ==
    \/ AddInbox(t)
    \/ \E k \in Inbox : RenameInbox(t, k) \/ DeleteInbox(t, k)
    \/ \E s \in MailSources : \/ RemoveEmailSearch(t, s)
                              \/ \E k \in Inbox : SaveEmailSearch(t, s, k)
                              \/ \E k \in Inbox \cup {0} : AddSource(t, s, k)
    \/ Forget(t) \/ Load(t) \/ Truncate(t) \/ Write(t) \/ Search(t)

RegistryNext ==
    \/ \E t \in ToolThreads : RegistryCall(t)
    \/ \E k \in Inbox : SignIn(k)
    \/ Crash

RegistrySpec == RegistryInit /\ [][RegistryNext]_registryVars

-----------------------------------------------------------------------------
(* Whatever calls overlap, are cut short or are lost, no key is twice in the *)
(* manifest: add() checks the very document it appends to. Every lookup by   *)
(* key, update in place and removal counts on it, and takes the first match. *)
(* Only two that have the file open to write at once may leave one twice.    *)
KeysAreUnique ==
    ~crossed => \A i, j \in DOMAIN manifest :
                  manifest[i].key = manifest[j].key => i = j

(* While calls do not overlap, a source that arrives by email has an inbox   *)
(* to arrive through: "deleting it would leave that source with a route to   *)
(* nowhere" (delete_inbox). Two that overlap may leave one so.               *)
RoutesLeadSomewhere ==
    sound => \A i \in DOMAIN manifest :
                manifest[i].carrier # 0 =>
                    manifest[i].carrier \in KeysOf(manifest)

(* The entries of other keys, each with every one that comes after it. *)
Others(doc, k) ==
    LET at == {i \in DOMAIN doc : doc[i].key # k}
    IN  {<<doc[x[1]], doc[x[2]]>> : x \in {y \in at \X at : y[1] <= y[2]}}

(* A change is of one entry: what a call writes is, in all other entries and *)
(* their order, what it found when it began, through the truncation of the   *)
(* file and the refusals halfway. A call that overlaps may undo the other.   *)
ChangeIsLocal ==
    [][\A t \in ToolThreads :
         sound /\ call[t].pc = "write" /\ call'[t] # call[t]
           /\ crashes' = crashes
           => Others(manifest', call[t].key)
                = Others(call[t].services, call[t].key)]_registryVars
=============================================================================
