------------------------------- MODULE Ingest -------------------------------
(***************************************************************************)
(* From a document or a portal to the runs under data/parsed: core/        *)
(* ingest.py, core/fetch_ingest.py and core/reconcile.py under the tools   *)
(* run_scraper, fetch_source, ingest_document and extract_now of           *)
(* interfaces/mcp_tools.py, on a pool of threads.                          *)
(*                                                                         *)
(* A run is the file it is in and the time it was parsed at; the rows are  *)
(* left out. A control total is whether it balanced.                       *)
(***************************************************************************)
EXTENDS Naturals, Sequences, FiniteSets

CONSTANTS
    Feeds,       \* sources
    Runners,     \* threads of the server
    MaxMonth,    \* the statements' months: 1..MaxMonth; 0 is "unknown"
    MaxTotals,   \* bound on the control totals a scrape records
    MaxStamps,   \* bound on the clock
    MaxFetched   \* `limit`: bound on the documents of a fetch

ASSUME IngestAssumption ==
    /\ MaxMonth \in Nat \ {0} /\ MaxTotals \in Nat
    /\ MaxStamps \in Nat /\ MaxFetched \in Nat \ {0}

VARIABLES
    runs,    \* the files of data/parsed
    totals,  \* reconcile._CHANNELS: what was recorded of each source
    job,     \* the call each thread is in
    stamps,  \* the clock
    raced,   \* observer: <<source, route>> two calls were persisting at once
    spoiled, \* observer: <<source, route>> a run was cut short in writing,
             \* and none has been persisted since
    newest   \* observer: the time of the last run persisted by each route

ingestVars == <<runs, totals, job, stamps, raced, spoiled, newest>>

Roads == {"upload", "scrape", "email"}
Months == 0..MaxMonth
Runs == [feed : Feeds, road : Roads, month : Months, at : 1..MaxStamps]
Tally(n) == UNION {[1..k -> BOOLEAN] : k \in 0..n}
Idle == [pc |-> "idle"]

(* `own` and `alone` are observers: what this scrape recorded, and whether   *)
(* another of the same source has been under way since it began.             *)
Jobs == [pc : {"inside", "summary"}, feed : Feeds, own : Tally(MaxTotals),
         alone : BOOLEAN, month : Months]
          \cup [pc : {"parse"}, feed : Feeds, road : {"upload", "email"},
                left : 1..MaxFetched]
          \cup [pc : {"stamp", "write", "dump"}, left : 0..MaxFetched,
                run : [feed : Feeds, road : Roads, month : Months,
                       at : 0..MaxStamps]]

IngestTypeOK ==
    /\ runs \subseteq Runs
    /\ totals \in [Feeds -> Seq(BOOLEAN)]
    /\ job \in [Runners -> Jobs \cup {Idle}]
    /\ stamps \in 0..MaxStamps
    /\ raced \subseteq Feeds \X Roads /\ spoiled \subseteq Feeds \X Roads
    /\ newest \in [Feeds \X Roads -> 0..MaxStamps]

IngestInit ==
    /\ runs = {} /\ totals = [f \in Feeds |-> <<>>]
    /\ job = [t \in Runners |-> Idle]
    /\ stamps = 0 /\ raced = {} /\ spoiled = {}
    /\ newest = [x \in Feeds \X Roads |-> 0]

Proceeds(t, c) == job' = [job EXCEPT ![t] = c]
Persists(f, r, m, n) ==
    [pc |-> "stamp", left |-> n,
     run |-> [feed |-> f, road |-> r, month |-> m, at |-> 0]]
Scraping(t, f) == job[t].pc \in {"inside", "summary"} /\ job[t].feed = f

-----------------------------------------------------------------------------
(* Mutant: what the last run recorded stays. *)
OpenOnTop(t, f) ==
    LET others == {u \in Runners : Scraping(u, f)}
    IN  /\ job[t] = Idle
        /\ job' = [u \in Runners |->
             IF u = t THEN [pc |-> "inside", feed |-> f, own |-> <<>>,
                            alone |-> others = {}, month |-> 0]
             ELSE IF u \in others THEN [job[u] EXCEPT !.alone = FALSE]
             ELSE job[u]]
        /\ UNCHANGED <<runs, totals, stamps, raced, spoiled, newest>>

(* run_scraper opens the channel named for the source, which clears it,      *)
(* whoever else has it open.                                                 *)
OpenChannel(t, f) ==
    LET others == {u \in Runners : Scraping(u, f)}
    IN  /\ job[t] = Idle
        /\ totals' = [totals EXCEPT ![f] = <<>>]
        /\ job' = [u \in Runners |->
             IF u = t THEN [pc |-> "inside", feed |-> f, own |-> <<>>,
                            alone |-> others = {}, month |-> 0]
             ELSE IF u \in others THEN [job[u] EXCEPT !.alone = FALSE]
             ELSE job[u]]
        /\ UNCHANGED <<runs, stamps, raced, spoiled, newest>>

(* record, called by the scraper: it goes to this thread's channel. *)
RecordTotal(t) ==
    \E balanced \in BOOLEAN :
        LET f == job[t].feed
        IN  /\ job[t].pc = "inside" /\ Len(job[t].own) < MaxTotals
            /\ totals' = [totals EXCEPT ![f] = Append(@, balanced)]
            /\ Proceeds(t, [job[t] EXCEPT !.own = Append(@, balanced)])
            /\ UNCHANGED <<runs, stamps, raced, spoiled, newest>>

(* The scraper returns rows, of a month, or none at all; or it raises. *)
ScraperReturns(t) ==
    \E m \in Months :
        /\ job[t].pc = "inside"
        /\ Proceeds(t, [job[t] EXCEPT !.pc = "summary", !.month = m])
        /\ UNCHANGED <<runs, totals, stamps, raced, spoiled, newest>>

ScraperRaises(t) ==
    /\ job[t].pc = "inside"
    /\ Proceeds(t, Idle)
    /\ UNCHANGED <<runs, totals, stamps, raced, spoiled, newest>>

(* Mutant: nothing checked is a pass. *)
VerdictGreen(checks) ==
    IF \A i \in DOMAIN checks : checks[i] THEN "balanced" ELSE "short"

(* summary: nothing checked is not a pass. *)
Verdict(checks) ==
    CASE checks = <<>> -> "unchecked"
      [] \E i \in DOMAIN checks : ~checks[i] -> "short"
      [] OTHER -> "balanced"

(* run_scraper asks for the summary after the channel is closed, by the name *)
(* of the source. The rows are persisted whatever it says (run_scraper with  *)
(* save; without rows, or without save, nothing is). Their source is the one *)
(* they are stamped with.                                                    *)
Summarise(t, verdict) ==
    /\ job[t].pc = "summary"
    /\ verdict = Verdict(totals[job[t].feed])
    /\ \/ Proceeds(t, Idle)
       \/ /\ job[t].month # 0
          /\ \E f \in Feeds :
               Proceeds(t, Persists(f, "scrape", job[t].month, 0))
    /\ UNCHANGED <<runs, totals, stamps, raced, spoiled, newest>>

-----------------------------------------------------------------------------
(* ingest_document and extract_now: one document, by upload. A source with   *)
(* no parser, or with no model, is refused at once.                          *)
IngestDocument(t, f) ==
    /\ job[t] = Idle
    /\ Proceeds(t, [pc |-> "parse", feed |-> f, road |-> "upload", left |-> 1])
    /\ UNCHANGED <<runs, totals, stamps, raced, spoiled, newest>>

(* fetch_and_ingest: the documents found, newest first; none ends the call.  *)
FetchAndIngest(t, f) ==
    \E n \in 1..MaxFetched :
        /\ job[t] = Idle
        /\ Proceeds(t, [pc |-> "parse", feed |-> f, road |-> "email",
                        left |-> n])
        /\ UNCHANGED <<runs, totals, stamps, raced, spoiled, newest>>

(* ingest_source: the parser reads it, or the model where that was allowed;  *)
(* the month is that of the first row, and "unknown" without one.            *)
ParserReads(t) ==
    \E m \in Months :
        /\ job[t].pc = "parse"
        /\ Proceeds(t, Persists(job[t].feed, job[t].road, m, job[t].left - 1))
        /\ UNCHANGED <<runs, totals, stamps, raced, spoiled, newest>>

(* Neither could: the call fails, and the documents before it stay.          *)
ParserFails(t) ==
    /\ job[t].pc = "parse"
    /\ Proceeds(t, Idle)
    /\ UNCHANGED <<runs, totals, stamps, raced, spoiled, newest>>

-----------------------------------------------------------------------------
(* Mutant: one file per source and month. *)
RunFileOfMonth(run) == <<run.feed, run.month>>

(* data/parsed/<source>-<route>-<month>.json *)
RunFile(run) == <<run.feed, run.road, run.month>>

(* Mutant: the run is written without its time. *)
StampNothing(t) ==
    /\ job[t].pc = "stamp" /\ stamps < MaxStamps
    /\ stamps' = stamps + 1
    /\ Proceeds(t, [job[t] EXCEPT !.pc = "write"])
    /\ UNCHANGED <<runs, totals, raced, spoiled, newest>>

Road(c) == <<c.run.feed, c.run.road>>

(* _persist takes the time, and then writes the file. *)
Stamp(t) ==
    /\ job[t].pc = "stamp" /\ stamps < MaxStamps
    /\ stamps' = stamps + 1
    /\ Proceeds(t, [job[t] EXCEPT !.pc = "write", !.run.at = stamps + 1])
    /\ raced' = IF \E u \in Runners \ {t} :
                     job[u].pc \in {"write", "dump"} /\ Road(job[u]) = Road(job[t])
                THEN raced \cup {Road(job[t])} ELSE raced
    /\ UNCHANGED <<runs, totals, spoiled, newest>>

OtherFiles(run) == {r \in runs : RunFile(r) # RunFile(run)}

(* write_text truncates, and then writes: what the file held is gone, and    *)
(* who lists the runs meanwhile skips it.                                    *)
TruncateRun(t) ==
    /\ job[t].pc = "write"
    /\ runs' = OtherFiles(job[t].run)
    /\ Proceeds(t, [job[t] EXCEPT !.pc = "dump"])
    /\ UNCHANGED <<totals, stamps, raced, spoiled, newest>>

(* Written over another's, the file may be read by nobody. The next document *)
(* of a fetch follows.                                                       *)
WriteRun(t) ==
    LET c == job[t]
    IN  /\ c.pc = "dump"
        /\ \/ runs' = OtherFiles(c.run) \cup {c.run}
           \/ runs # OtherFiles(c.run) /\ runs' = OtherFiles(c.run)
        /\ newest' = [newest EXCEPT ![Road(c)] = c.run.at]
        /\ spoiled' = spoiled \ {Road(c)}
        /\ Proceeds(t, IF c.left = 0 THEN Idle
                       ELSE [pc |-> "parse", feed |-> c.run.feed,
                             road |-> c.run.road, left |-> c.left])
        /\ UNCHANGED <<totals, stamps, raced>>

(* The app goes down and comes back: calls are cut where they are, and the   *)
(* channels are empty. A file that was truncated stays so.                   *)
ServerStops ==
    /\ job' = [t \in Runners |-> Idle]
    /\ totals' = [f \in Feeds |-> <<>>]
    /\ spoiled' = spoiled \cup
         {Road(job[t]) : t \in {u \in Runners : job[u].pc = "dump"}}
    /\ UNCHANGED <<runs, stamps, raced, newest>>

IngestCall(t) ==
    \/ \E f \in Feeds : \/ OpenChannel(t, f)
                        \/ FetchAndIngest(t, f)
                        \/ IngestDocument(t, f)
    \/ RecordTotal(t) \/ ScraperReturns(t) \/ ScraperRaises(t)
    \/ \E v \in {"unchecked", "short", "balanced"} : Summarise(t, v)
    \/ ParserReads(t) \/ ParserFails(t) \/ Stamp(t)
    \/ TruncateRun(t) \/ WriteRun(t)

IngestNext == (\E t \in Runners : IngestCall(t)) \/ ServerStops

IngestSpec == IngestInit /\ [][IngestNext]_ingestVars

-----------------------------------------------------------------------------
(* runs_by_transport, load_latest_parsed_for: the newest of a route's runs,  *)
(* by their own time; none is 0.                                             *)
Shown(f, r) ==
    LET at == {run.at : run \in {x \in runs : x.feed = f /\ x.road = r}}
    IN  CHOOSE a \in at \cup {0} : \A b \in at : b <= a

(* What the graph shows of a route is the last run it persisted (of several  *)
(* emails of one fetch, that is of the oldest: see README.md): no run of     *)
(* another route, and no older one of another month, hides or destroys it.   *)
(* While the next is written, and after that was cut short, until one is     *)
(* persisted again, what it was to replace may be missing; and two calls     *)
(* that persisted by the same route at once may leave the older one.         *)
NewestIsShown ==
    \A x \in (Feeds \X Roads) \ (raced \cup spoiled) :
        (\A t \in Runners : job[t].pc = "dump" => Road(job[t]) # x)
          => Shown(x[1], x[2]) = newest[x]

(* The verdict on a scrape is on the totals it recorded itself, and a scrape *)
(* that recorded none has none: "we didn't look" is not a pass (reconcile.   *)
(* summary). A second scrape of the source at the same time clears and mixes *)
(* what both see.                                                            *)
VerdictIsOwn ==
    [][\A t \in Runners, v \in {"unchecked", "short", "balanced"} :
         job[t].pc = "summary" /\ job[t].alone /\ Summarise(t, v)
           => v = IF job[t].own = <<>> THEN "unchecked"
                  ELSE IF \A i \in DOMAIN job[t].own : job[t].own[i]
                  THEN "balanced" ELSE "short"]_ingestVars
=============================================================================
