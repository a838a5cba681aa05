------------------------------ MODULE Settings ------------------------------
(***************************************************************************)
(* What the operator chooses for a source, and what its portal offers:     *)
(* core/settings.py over core/policies/source_settings.yaml, with the      *)
(* scraper that uses both, core/scrapers/epic_property_management.py.      *)
(* The tools run on threads; each loads the file and writes it back whole. *)
(*                                                                         *)
(* Of a source's options the model keeps the one whose choices the portal  *)
(* decides, the property; "all" is declared by the source itself.          *)
(***************************************************************************)
EXTENDS Naturals, FiniteSets

CONSTANTS
    Portals,     \* sources
    Properties,  \* what a portal may offer
    Numeric,     \* those of them whose id is a number
    Desks,       \* threads of the server
    MaxVisits    \* bound on the calls

ASSUME SettingsAssumption ==
    /\ Properties \cap {"all", "never"} = {} /\ Numeric \subseteq Properties
    /\ MaxVisits \in Nat

VARIABLES
    sources,     \* the file: the operator's choice of each source
    discovered,  \* the file: what its portal offered in the last run
    emptied,     \* the file is truncated, and not written yet
    offers,      \* what each portal offers now
    desk,        \* the call each thread is in
    visits,
    chosen,      \* observer: the choice last saved of each source
    fellBack,    \* observer: the choice the last run could not keep, though
                 \* its portal answered
    clear        \* observer: no two calls had the file read and not written at
                 \* once, no two runs were of one source, and no call was cut
                 \* short in writing

settingsVars == <<sources, discovered, emptied, offers, desk, visits, chosen,
                  fellBack, clear>>

Unchosen == "unchosen"
Choices == Properties \cup {"all"}
Stored == Choices \cup {Unchosen}

Never == {"never"}   \* no run has recorded anything yet; not the same as none
Found == (SUBSET Properties) \cup {Never}

File == [sources : [Portals -> Stored], discovered : [Portals -> Found]]

AtDesk == [pc : {"load"}, of : Portals, op : {"save", "reset"}, value : Stored]
            \cup [pc : {"truncate", "dump"}, of : Portals,
                  op : {"save", "reset", "run"}, value : Stored, doc : File]
            \cup [pc : {"portal", "select"}, of : Portals, value : Choices,
                  found : SUBSET Properties, answered : BOOLEAN]
Off == [pc |-> "off"]

SettingsTypeOK ==
    /\ [sources |-> sources, discovered |-> discovered] \in File
    /\ {emptied, clear} \subseteq BOOLEAN
    /\ offers \in [Portals -> SUBSET Properties]
    /\ desk \in [Desks -> AtDesk \cup {Off}]
    /\ visits \in 0..MaxVisits
    /\ {chosen, fellBack} \subseteq [Portals -> Stored]

Blank == [sources |-> [s \in Portals |-> Unchosen],
          discovered |-> [s \in Portals |-> Never]]

SettingsInit ==
    /\ sources = Blank.sources /\ discovered = Blank.discovered
    /\ emptied = FALSE /\ clear = TRUE
    /\ offers \in [Portals -> SUBSET Properties]
    /\ desk = [t \in Desks |-> Off] /\ visits = 0
    /\ chosen = Blank.sources /\ fellBack = Blank.sources

-----------------------------------------------------------------------------
(* _read_file: a file without a document is taken for an empty one. *)
ReadFile ==
    IF emptied THEN Blank ELSE [sources |-> sources, discovered |-> discovered]

(* schema_for: the declared choice, and those the last run has found. *)
Schema(f, s) == {"all"} \cup (f.discovered[s] \ Never)

(* values_for: the override, or the declared default. *)
ValueFor(f, s) ==
    IF f.sources[s] = Unchosen THEN "all" ELSE f.sources[s]

(* stale_values: an override the portal no longer offers. *)
Stale(f, s) == f.sources[s] # Unchosen /\ f.sources[s] \notin Schema(f, s)

Comes(t, c) ==
    /\ desk[t] = Off /\ visits < MaxVisits
    /\ desk' = [desk EXCEPT ![t] = c] /\ visits' = visits + 1

Sits(t, c) ==
    /\ Comes(t, c)
    /\ UNCHANGED <<sources, discovered, emptied, offers, chosen, fellBack,
                   clear>>

Turn(t, c) == desk' = [desk EXCEPT ![t] = c]

(* A call has read the file, and will write it. *)
Reads(t) ==
    clear' = (clear /\ \A u \in Desks : desk[u].pc \notin {"truncate", "dump"})

-----------------------------------------------------------------------------
(* save_for: what is not in the schema is refused. *)
SaveFor(t, s) ==
    \E v \in Schema(ReadFile, s) :
        Sits(t, [pc |-> "load", of |-> s, op |-> "save", value |-> v])

(* Mutant: a reset stores an empty choice. *)
ResetToEmpty(t, s) ==
    Sits(t, [pc |-> "load", of |-> s, op |-> "reset", value |-> ""])

ResetFor(t, s) ==
    Sits(t, [pc |-> "load", of |-> s, op |-> "reset", value |-> Unchosen])

LoadFile(t) ==
    LET c == desk[t]
    IN  /\ c.pc = "load"
        /\ Turn(t, [pc |-> "truncate", of |-> c.of, op |-> c.op,
                    value |-> c.value,
                    doc |-> [ReadFile EXCEPT !.sources[c.of] = c.value]])
        /\ Reads(t)
        /\ UNCHANGED <<visits, sources, discovered, emptied, offers, chosen,
                       fellBack>>

Pulling(t, s) ==
    \/ desk[t].pc \in {"portal", "select"} /\ desk[t].of = s
    \/ desk[t].pc \in {"truncate", "dump"} /\ desk[t].of = s /\ desk[t].op = "run"

(* retrieve: the choice is read before the portal is asked. *)
Run(t, s) ==
    /\ Comes(t, [pc |-> "portal", of |-> s, value |-> ValueFor(ReadFile, s),
                found |-> {}, answered |-> TRUE])
    /\ fellBack' = [fellBack EXCEPT ![s] = Unchosen]
    /\ clear' = (clear /\ \A u \in Desks : ~Pulling(u, s))
    /\ UNCHANGED <<sources, discovered, emptied, offers, chosen>>

(* Mutant: only what this source has found is written back. *)
RecordAlone(t) ==
    LET c == desk[t]
        found == offers[c.of]
    IN  /\ c.pc = "portal"
        /\ Turn(t, IF ReadFile.discovered[c.of] = found
                   THEN [c EXCEPT !.pc = "select", !.found = found]
                   ELSE [pc |-> "truncate", of |-> c.of, op |-> "run",
                         value |-> c.value,
                         doc |-> [Blank EXCEPT !.discovered[c.of] = found]])
        /\ IF ReadFile.discovered[c.of] = found THEN UNCHANGED clear ELSE Reads(t)
        /\ UNCHANGED <<visits, sources, discovered, emptied, offers, chosen,
                       fellBack>>

(* _sync_properties_to_settings, record_options: the file is left alone when *)
(* nothing is new.                                                           *)
Record(t) ==
    LET c == desk[t]
        found == offers[c.of]
    IN  /\ c.pc = "portal"
        /\ Turn(t, IF ReadFile.discovered[c.of] = found
                   THEN [c EXCEPT !.pc = "select", !.found = found]
                   ELSE [pc |-> "truncate", of |-> c.of, op |-> "run",
                         value |-> c.value,
                         doc |-> [ReadFile EXCEPT !.discovered[c.of] = found]])
        /\ IF ReadFile.discovered[c.of] = found THEN UNCHANGED clear ELSE Reads(t)
        /\ UNCHANGED <<visits, sources, discovered, emptied, offers, chosen,
                       fellBack>>

(* The portal does not answer. A ScrapeError ends the run; after any other   *)
(* exception it goes on as if there were no properties, and stale_values     *)
(* cannot tell.                                                              *)
PortalFails(t) ==
    /\ desk[t].pc = "portal"
    /\ \/ Turn(t, Off)
       \/ Turn(t, [desk[t] EXCEPT !.pc = "select", !.answered = FALSE])
    /\ UNCHANGED <<visits, sources, discovered, emptied, offers, chosen, fellBack,
                   clear>>

(* _write: write_text truncates, and then writes. *)
TruncateFile(t) ==
    /\ desk[t].pc = "truncate"
    /\ emptied' = TRUE
    /\ Turn(t, [desk[t] EXCEPT !.pc = "dump"])
    /\ UNCHANGED <<visits, sources, discovered, offers, chosen, fellBack, clear>>

DumpFile(t) ==
    LET c == desk[t]
    IN  /\ c.pc = "dump"
        /\ sources' = c.doc.sources /\ discovered' = c.doc.discovered
        /\ emptied' = FALSE
        /\ IF c.op = "run"
           THEN /\ Turn(t, [pc |-> "select", of |-> c.of, value |-> c.value,
                            found |-> c.doc.discovered[c.of],
                            answered |-> TRUE])
                /\ UNCHANGED chosen
           ELSE /\ Turn(t, Off)
                /\ chosen' = [chosen EXCEPT ![c.of] = c.value]
        /\ UNCHANGED <<visits, offers, fellBack, clear>>

(* _property_selection: a property that is not there, or whose id is no      *)
(* number, means every property.                                             *)
Select(t) ==
    LET c == desk[t]
    IN  /\ c.pc = "select"
        /\ fellBack' = [fellBack EXCEPT ![c.of] =
                          IF c.value \in (c.found \cap Numeric) \cup {"all"}
                               \/ ~c.answered
                          THEN Unchosen ELSE c.value]
        /\ Turn(t, Off)
        /\ UNCHANGED <<visits, sources, discovered, emptied, offers, chosen, clear>>

(* An account gains and loses properties. *)
PortalChanges(s) ==
    /\ offers' \in [Portals -> SUBSET Properties]
    /\ \A r \in Portals \ {s} : offers'[r] = offers[r]
    /\ UNCHANGED <<visits, sources, discovered, emptied, desk, chosen, fellBack, clear>>

(* The app goes down and comes back; a file that was truncated stays so.     *)
GoesDown ==
    /\ desk' = [t \in Desks |-> Off]
    /\ clear' = (clear /\ ~emptied)
    /\ UNCHANGED <<visits, sources, discovered, emptied, offers, chosen,
                   fellBack>>

SettingsNext ==
    \/ \E t \in Desks :
         \/ \E s \in Portals : SaveFor(t, s) \/ ResetFor(t, s) \/ Run(t, s)
         \/ LoadFile(t) \/ Record(t) \/ PortalFails(t)
         \/ TruncateFile(t) \/ DumpFile(t) \/ Select(t)
    \/ \E s \in Portals : PortalChanges(s)
    \/ GoesDown

SettingsSpec == SettingsInit /\ [][SettingsNext]_settingsVars

-----------------------------------------------------------------------------
(* While no two calls write at once, what the operator chose for a source    *)
(* stays until it is chosen again or reset, whatever another source's run    *)
(* finds at its portal; and a run that could not keep the choice leaves it   *)
(* among the stale ones, as long as it is the choice: "the numbers change    *)
(* with no explanation" otherwise (stale_values). Of a property that is      *)
(* offered and whose id is no number, only the log has the explanation.      *)
ChoicesAreKept ==
    clear /\ ~emptied =>
        /\ sources = chosen
        /\ \A s \in Portals :
             fellBack[s] # Unchosen /\ fellBack[s] = sources[s]
               => Stale(ReadFile, s) \/ fellBack[s] \in Properties \ Numeric
=============================================================================
