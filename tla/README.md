# A verification project for k-realty-agent

k-realty-agent collects a landlord's bank and property statements. Each *source* (a bank, a
property manager, a mailbox) has a parser or a scraper that an LLM agent writes, tests and repairs
on the operator's machine; a local web server offers the operator the tools to start that agent,
watch it, run what it wrote and keep the results.

This directory holds TLA+ models of that program, the TLC configurations that check them, and
theorems that TLAPS proves of them. Source references are relative to the repository's root.

    tlc -workers 2 -config build_serial.cfg MCBuildJob         # a run
    tlc -workers 2 -config records_office.cfg MCRecordsOffice  # another
    tlapm BuildJobProofs.tla                                   # a proof module

An operator whose comment begins with *Mutant* is no part of a model. It is the definition that
follows it with a plausible bug in it, kept to show that a property can fail: with the mutant in
place of the definition, TLC finds the property violated.

## The system

| Component | Source | State it keeps | Operations |
|---|---|---|---|
| Build lifecycle | `interfaces/mcp_tools.py` (build tools), `orchestration/build_worker.py`, `interfaces/rest_server.py` | `_BUILD_PROCS`, `_BUILD_META` in the server's memory; one run file per build; a worker process per build | `start_build`, `build_status`, `stop_build`, `run` |
| Progress watchdog | `orchestration/watchdog.py` | the last beat and the longest gap of a build | `beat`, `check`, `_watch`, `on_stall` |
| Live code | `core/hot_reload.py`, `core/parsers/__init__.py`, `core/scrapers/__init__.py`, `core/source_status.py` | modules in memory, their bytecode, the `REGISTRY` of each package | `reload_source_code`, import of a package |
| Agent loop | `orchestration/agent.py`, `context_budget.py`, `repetition.py`, `degeneration.py` | the conversation, the token ledger, the loop detectors | `run_agent`, collapse, observe |
| Codegen gate | `orchestration/codegen.py`, `verify.py`, `agent_tools.py`, `build_parser.py`, `build_scraper.py` | originals of edited files, the tool calls of all rounds, the verdict | `run_codegen_gated`, the folds, `dispatch` |
| Claude Code executor | `orchestration/claude_code.py` | one subprocess and its event stream | run an executor other than the agent loop |
| Out-of-process workers | `interfaces/mcp_tools.py`, `core/tools/demo_worker.py`, `oauth_consent_worker.py`, `login_recovery_worker.py` | `_DEMO_PROCS`, `_CONSENT_PROCS`, `_RECOVERY_PROCS`, status files | start, status, cancel of each |
| Browser session | `core/tools/browser_session.py` | a profile directory per source, saved cookies | launch, close, reset, save and restore cookies |
| Manifest, inboxes, credentials, settings | `core/tools/service_manifest.py`, `email_oauth.py`, `credential_store.py`, `core/settings.py` | YAML and JSON files, loaded, changed and saved whole | add, update, remove, route |
| Ingest, fetch, reconcile | `core/ingest.py`, `core/fetch_ingest.py`, `core/reconcile.py`, `core/progress.py` | runs on disk, channels by source name | `ingest_source`, `fetch_and_ingest`, `run_scraper`, `record` |
| Demonstration recorder | `core/tools/demo_recorder.py` | the steps captured from a browser | record, redact, save |
| LLM provider, extractors | `core/tools/llm_provider.py`, `core/llm_extractor.py` | settings of a provider | resolve, call |
| Observability | `core/observability.py` | rotated log files | `_rotate` |
| Front end | `frontend/src` | polls of the tools, one wizard at a time | render, poll |
| Desktop shell, site scrapers and parsers, benchmarks, scripts | `desktop`, `core/scrapers`, `core/parsers`, `orchestration/bench`, `scripts` | none shared with the rest | |

How they interact. Every REST call of a tool runs on a thread of the server's pool, so tools
interleave with one another at every access to shared state. Whatever takes long (a build, a
demonstration, a Gmail consent, a login recovery) is a worker process in a session of its own; the
server learns of it from a file the worker appends to and from its exit code, when the front end
polls. The worker of a build runs the agent loop (or Claude Code), whose edits go to the very
package the server has imported; the codegen gate decides whether the result passed, and
`build_status` reloads the module either way. Scraper runs, demonstrations and recoveries share
the source's browser profile; manifest, credentials and settings are files that all of them load,
change and save.

What is hard here, by component:

* **Build lifecycle**: three tools and a worker with two threads race over two dictionaries, a
  file and an exit code; the server may restart while a build lives; two builds may share a run
  file. Correct means: one build per source, every build ends and can be stopped, what
  `build_status` says is what happened, a stop is final.
* **Live code**: several builds and reloads act on one package; bytecode may be stale; a half
  written module may be imported. Correct means: after a reload the server runs what is on disk,
  and the app can always be restarted.
* **Agent loop**: retries after an overflow, trimming, nudges and several ways to stop. Correct
  means: it ends, each tool call is answered in the conversation that is sent, the ledger agrees
  with the conversation.
* **Codegen gate**: verdicts folded over several rounds. Correct means: ok only when the tests
  passed and each rule held for the whole run, and one retry at most.
* **Out-of-process workers**: result files and exit codes are read in two steps. Correct means: a
  result is not lost, a cancel is final, a healthy worker is not reported stuck.
* **Manifest and friends**: unlocked load-change-save. Correct means: no change is lost, no source
  routes to an inbox that is gone.
* **Browser session**: one profile, several users. Correct means: one browser per profile, no
  session older than its bound.
* **Ingest**: order of messages, overlapping runs. Correct means: the latest statement is the
  latest, totals belong to the run that is judged by them.

`PROJECT.json` lists each hazard at its line, with the properties that cover it.

## Modules

| Module | Models | Uses |
|---|---|---|
| `BuildPromise` | what the build tools promise for a source: none, running, ran, broke | |
| `BuildJob` | start, status and stop of a build, its worker and watchdog thread, the run files, restarts | implements `BuildPromise` |
| `LiveCode` | what builds write, and the reload of it into the server | `BuildPromise` for its builds |
| `AgentLoop` | the agent's conversation with the model: trimming, the recovery from a refused prompt, the detectors, every end of a run | |
| `CodegenGate` | a gated run: rounds of the agent (or the CLI), the judges of what they left, the retry | |
| `Watchdog` | when a build's watchdog fires: the beats, the learned budget, the tick; `BuildJob` says only that it may, and what follows | |
| `Registry` | the tools that load, change and save the manifest of sources and inboxes | |
| `StatusWorkers` | demonstration and consent workers, their start and status tools, `delete_inbox` | |
| `Ingest` | uploads, fetches and scrapes up to the run files, and the verdict on a scrape | |
| `Settings` | the choices for a source, against what its portal offers | |
| `Vault` | the encrypted store: sign-ins, and the keys of the LLM providers | |
| `Profile` | a source's browser profile: recoveries, scrapes, the saved session | |
| `SignIn` | `login` to a Q2 bank, and when it may call itself signed in | |
| `BankPull` | the paged pull of a bank account and its two checks | |
| `Recorder` | a demonstration as the recorder captures it | |
| `MCBuildJob`, `MCLiveCode`, `MCAgentLoop`, `MCCodegenGate` | the instances for TLC | |
| `MCRecordsOffice` | the instance of what the server keeps on disk | `Registry`, `StatusWorkers`, `Ingest`, `Settings`, `Vault` |
| `MCPortal` | the instance of what happens between portal, operator and workers | `Profile`, `SignIn`, `BankPull`, `Recorder`, `Watchdog` |
| `Totals` | the sum of a sequence, which `AgentLoop` and `BankPull` use | |
| `DataLemmas` | lemmas on induction, sums and order by rank, which the proofs share | `Totals` |
| `BuildJobProofs`, `LiveCodeProofs`, `AgentLoopProofs`, `CodegenGateProofs`, `StatusWorkersProofs` | theorems about the module of that name | |
| `RecordsProofs` | theorems about `Registry`, `Ingest`, `Settings`, `Vault` and `MCRecordsOffice` | `StatusWorkersProofs` |
| `PortalProofs` | theorems about `Profile`, `SignIn`, `Watchdog`, `BankPull`, `Recorder` and `MCPortal` | `DataLemmas` |

`MCRecordsOffice` and `MCPortal` each hold five parts that share no state in the code, as far as it is
modelled: a variable `part`, chosen at the start, says which of them moves. A behaviour is thus one of
that part's own specification. `Parts` of `MCRecordsOffice` says which parts a run is about, and
`records_office` is about all. That the keys of sources, inboxes and secrets are the same strings is used nowhere.

### BuildJob

| Model | Code |
|---|---|
| `procs`, `metas` | `_BUILD_PROCS`, `_BUILD_META` of `interfaces/mcp_tools.py` |
| `start`, `poll`, `stop` | the local variables and position of each server thread inside a tool |
| `files` | the run files: whether a line with a result (and whose), and a failed line, is there |
| `main`, `dog` | the main thread (`run`) and the watchdog thread of a worker |
| `exit`, `sigkill` | what `poll()` will return, and a SIGKILL that was sent and has not acted |
| `StartCheck` ... `StartStoreMeta` | `start_build`: check, spawn, store the process, store the meta dict |
| `StatusProc` ... `StatusReply` | `build_status`: process, meta dict, run file, exit code |
| `StopProc` ... `StopAppend` | `stop_build`: process, meta dict, poll, signal and wait, failed line |
| `Arm` ... `ExitRan` | `run` in `orchestration/build_worker.py` |
| `DogFires`, `DogTells`, `DogExits` | `_watch`, and `on_stall`, which appends a failed line and calls `os._exit(2)` |
| `Dies` | a signal: of `stop_build`, or from outside |
| `ServerRestart` | memory is lost, disk and workers stay |

Each tool is cut where it reads or writes state that another thread or process can change; a stretch
of code between two such points is one action. `gone`, `late` and `stopped` are observers: they
record what was true when a call began, and no action depends on them. The arguments that a build
is started with, its log lines and messages are left out.

### LiveCode

A module on disk is the number of its revision and whether that revision imports; bytecode is the
revision it was compiled from, which may be an older one that looks current, for Python compares
second and length. `job` moves as `BuildPromise` says, which is what `BuildJob` is shown to
implement. `Write`, `Register` and `TestRun` are what the agent does through its tools;
`LoadBegin` ... `LoadPackage` are `reload_source_code`; `Shutdown` and `Boot` are a restart.

### AgentLoop

| Model | Code |
|---|---|
| `conv` | `messages`: for each call of an assistant message and for each result, its size and whether it is a stub |
| `live` | `ledger.live_total` |
| `keep`, `trimAbove`, `shrunk` | `keep_last_results`, `trim_above_chars`, `shrunk` of `run_agent` |
| `loops`, `opened` | `loops`, `Restatement._run` |
| `recent`, `nudgedAt` | `_recent` and `_nudged` of `RepetitionDetector` |
| `todo`, `results`, `circling`, `due` | the locals of one turn |
| `Trim` | `collapse_stale_results`, then `collapse_stale_call_args` |
| `Recover`, `Raise`, `Reply` | what the call of the model does: refuse the prompt for its size, raise, reply |
| `Read`, `Progress`, `Nudge`, `Circle` | one pass of the loop over the calls, by the detector's verdict |
| `Stop`, `GoOn` | what follows that loop |

What the model of the agent replies is a choice: any sequence of calls in `Replies`, a text that was
trimmed as a loop or not, one that opens as the text before or not. A call is its fingerprint. The
task, the system prompt and the prose are never trimmed and are left out on both sides, of the
conversation and of the ledger. `unseen`, `refused`, `unsized`, `carrier` and `told` are observers.
`Headroom` is the budget after a refusal: six tenths of the size that was named or, if none was, of the
ledger.

The assistant message keeps the calls as the provider sent them. `Malformed` are the calls without an id
or a name, which the adapter does not dispatch, and `Undecodable` those whose arguments are no JSON, which
it dispatches with none: `note_call` counts nothing of either (`Heard`), and `Unheard` is what the ledger
thus lacks. The notes that are put on the first result after it was counted are left out by it, too.
`Fixed` are the calls with nothing in their arguments that is ever shortened: those that are no JSON,
and those whose long values are under `KEEP_ARG_KEYS`.

A note is *given* when it was in a prompt the model replied to, not when it was written: `carrier` is the
message that has it, `Carried` are the notes that are unstubbed in the last message of the prompt, and
`told` collects them as replies come.

### CodegenGate

| Model | Code |
|---|---|
| `disk` | the working tree: of each file, which text it is a version of, its tests, its flaws |
| `originals`, `before` | `agent_tools._ORIGINALS`, the snapshot of `run_codegen_gated` |
| `performed`, `written`, `declared` | the calls of all rounds, of this round, and whether `no_change_needed` is among them |
| `revise`, `cli` | `require_changes`, and which executor `_executor` picked |
| `faults` | the keys that make `verification` not ok |
| `Write`, `Edit`, `Refused`, `Command`, `Declare` | the tools of `agent_tools.py`; with `cli`, those of `claude_code.py` |
| `Return`, `Raise` | how the executor comes back |
| `Untested` ... `Removed` | the folds of `codegen.py` with the checks of `verify.py` |
| `Retry`, `Conclude` | `_assess` and the loop over `max_retries` |

Whether the test passes, what the parser extracts and which changed lines a coverage run misses is a
choice that the disk limits (`Seen`). Two versions of one text are similar, two texts are not:
that stands for the ratio of `wholesale_rewrites`. `start`, `scripted` and `truth` are observers.

### Watchdog

`clock` is `time.monotonic()` since the start, `last_beat` and `largest_gap` are the fields, `reading`
is the `now` that `beat` takes before it takes the lock. `Check` is one iteration of `_watch` with
`check`, due when a tick is over; `Beat` is the locked half of `beat`; `Finish` is `stop`. `Budget` is
`budget_s`. Nothing delays a check past its tick: a thread that is starved is not modelled. `gaps` is
an observer.

### Registry

| Model | Code |
|---|---|
| `manifest` | the entries of `core/policies/services.yaml`, in order; of each its key, its label and the inbox of its email search |
| `torn` | the file no longer parses: two writers have left a mixture |
| `Overlaid` | what else they may leave: one's dump with the whole entries of the other that lie beyond its end |
| `signedIn` | the inboxes whose token the vault has |
| `call` | the thread's tool, between the points where it touches the file |
| `AddInbox`, `RenameInbox`, `DeleteInbox`, `SaveEmailSearch`, `RemoveEmailSearch`, `AddSource` | the tools of `interfaces/mcp_tools.py`, up to their checks |
| `Forget` | `delete_inbox` drops the token |
| `Load`, `Truncate`, `Write` | a method of `ServiceManifest`: `_load` with its check and change, and `_save`, whose `open("w")` empties the file before the dump |
| `Search` | `add_source` goes on to `save_email_search` |
| `Crash` | the app goes down in whatever it was doing |

`sound` says that so far no call has overlapped another or was cut short; `RoutesLeadSomewhere` and
`ChangeIsLocal` are stated under it, because without a lock they fail otherwise: of two changes at
once one is lost, `delete_inbox` and `save_email_search` each check the other's side first, and a
crash between `Truncate` and `Write` leaves no services at all. `KeysAreUnique` holds of all of these;
only two calls that have the file open to write at once (`crossed`) may leave an entry twice, in a file
that still parses. A dump is one write, and a tail that is cut inside an entry is taken for unreadable.
`Others` is what `ChangeIsLocal` compares: the entries of other keys in pairs, the one
before the other, so that a change of their order shows, too.

### StatusWorkers

| Model | Code |
|---|---|
| `kind` | whether this is a demonstration or a consent |
| `proc`, `meta` | `_DEMO_PROCS`, `_DEMO_META`, or `_CONSENT_PROCS`, `_CONSENT_META` |
| `report` | the status file the worker writes |
| `kept` | whose demonstration, or token, is on disk |
| `Start`, `Clear`, `Spawn`, `StoreProc`, `StoreMeta` | `start_demo`, `start_gmail_consent` |
| `Status`, `ReadReport`, `Poll`, `Tidy` | `demo_status`, `gmail_consent_status`: file, process, clean-up |
| `Delete`, `DropToken`, `Unlink`, `Remove`, `PopProc` | `delete_inbox` |
| `Opens`, `Stores`, `Completes`, `Fails`, `Dies` | `run` of `demo_worker.py` and of `oauth_consent_worker.py` |

As with a build, the file is read before the process is polled: a worker that ends in between is
reported failed though it stored what it was asked for. `LateAnswerIsTrue` is the promise that is
left, for calls that begin after the end. `met` marks the exceptions: two workers at work at once (after
a restart, or two starts), or two calls of which one deletes what the other reads. `stray` marks the
consents that were under way while their inbox was deleted: `delete_inbox` forgets such a worker
without ending it, and an Allow clicked afterwards stores a token for an inbox that is gone.

### Ingest

A run is the file it is in (source, route, month) and the time it was parsed at. `OpenChannel`, `RecordTotal`, `ScraperReturns`,
`ScraperRaises` and `Summarise` are `run_scraper` around the reconcile channel (`core/reconcile.py`),
which is named for the source and cleared by whoever opens it; `IngestDocument` is `ingest_document` and
`extract_now`, `FetchAndIngest` is `fetch_and_ingest`; `ParserReads` and `ParserFails` are
`ingest_source`; `Stamp`, `TruncateRun` and `WriteRun` are `_persist`, whose `write_text` empties the
file first; `ServerStops` ends the calls where they are, and a file that was emptied stays so. `Shown` is
how `runs_by_transport` picks the run to show; it passes over a file that does not parse. `own`, `alone`,
`raced`, `spoiled` and `newest` are observers.

Newest means persisted last, by a route: `NewestIsShown` says of it that it is shown, but while the next is
written, after that was cut short, and when two calls persisted by the route at once. Of several emails
of one fetch that is the oldest, which is not what the fetch is for: a disagreement listed below.

### Settings

`sources` and `discovered` are the two maps of `core/policies/source_settings.yaml`. `SaveFor` and
`ResetFor` are `save_for` and `reset_for`, `Run` is `retrieve` of `epic_property_management.py`,
which reads the choice, asks the portal (`Record`, or `PortalFails`), writes what is new to the file
(`TruncateFile`, `DumpFile`) and selects (`Select`). `Stale` is `stale_values`. `Numeric` are the
properties whose id is a number: one whose id is not may be offered and chosen, and `_property_selection`
takes every property instead (`PROPERTY_ID_NOT_NUMERIC`), which only the log explains. `clear` is the
condition of `ChoicesAreKept`: no two calls had the file in hand at once, no two runs of a source, no
crash in the middle of a write.

### Vault

`vault` is the store as `credential_store.py` saves it, `legacy` the key that the pointer held in its
old shape. `SetSecret` and `ForgetSecret` are `set_llm_provider`, `set_credentials`, a consent
worker's token, and `forget_credentials`; `Reuse` is the key that a blank field keeps; `Migrate`
turns an old pointer into a record; `LoadVault`, `TruncateVault`, `WriteVault` are one `set` or
`delete`; `Point` and `LoadIntoEnv` are the choice of the active provider and what becomes of the
environment. `Resolved` is `resolve`. `undisturbed` is the condition of `SecretsAreTheirOwn`: a
crash between two writes of a call is allowed, one during a write is not.

### Profile

| Model | Code |
|---|---|
| `saved` | `session_cookies.json` |
| `holder`, `cookies`, `page` | the browser that has the profile, its session, its last window |
| `user` | recovery workers (`login_recovery_worker.py`) and scrapes |
| `recovery`, `request` | `_LOGIN_RECOVERY_PROCS`, the tool each server thread is in |
| `StartRecovery` ... `StoreRecovery` | `start_login_recovery` with `reset_profile` |
| `CancelRecovery` ... `PopRecovery` | `cancel_login_recovery`, which ends with `reset_profile`, too |
| `ResetWorkers`, `ResetBrowser` | the two halves of `reset_profile` |
| `WorkerResets` ... `CloseContext` | `bootstrap_login_until_window_closed` and `close_context` |
| `KeepSession`, `EndWait` | a tick of the wait, which saves, and its end, which saves once more |
| `Save`, `Truncate`, `FinishSave` | `save_session_cookies`: read the browser's cookies, empty the file, write it |
| `Interrupts` | whoever is ended in the middle of that does not finish it |
| `LogIn`, `ClosePage`, `Quit` | the operator |

Sessions are numbered as they begin. `before`, `polled` and `severed` are observers: `LoginIsKept` says
nothing once a save was ended with the file emptied, or two saves met. That no I/O error befalls a save
is assumed, and that `pgrep` answers (`_find_pids` takes a failure for "nobody"). `page = "lingers"` is the
browser that stays after its window has closed, which `close_context` gives five seconds.

### SignIn

`jar` is the browser's token, `honoured` what the server makes of it, `screen` the page. `Probe` and
`Ask` ask the server (`session_is_live`), `Settle` and `Trust` the page (`looks_authenticated`); `Creds`,
`Submit` use the password; `Look` reads the errors. `Renders`, `Answer` and `Drops` are the portal.
Every wait may end at any poll.

### BankPull

A row is its place in the account; `Post` adds one at any time, which shifts the pages under the
reader. `FetchPage` is one turn of `retrieve`'s loop, `FetchFails` and `ExtractFails` are the two ways it raises,
in the pages and in a running balance that is no number, `ReadBalance` is `_account_balance`, `Kept`
what `_extract` returns, `Chain` and `Anchored` the two checks that are recorded with `core/reconcile.py`.
`served` is the page size of the bank, which may be smaller than the one asked for. The sort is stated by
rank: the k-th row of `Kept` is the readable one with k - 1 before it (`Earlier`). No two rows are of the
same instant; of such the code's sort does not know the order. An amount may be 0, which is also what a missing
one is read as: such a row may be in a pull twice, when a post shifts it to the next page, and no check
can tell. `PullIsWhole` says so.

### Recorder

`log` and `settled` are `__demo_actions` and `settled` in the script of each document, `value` is what is
in its fields, from which `settled` stays behind once the log is full, `store` and
`shown` are `latest` of the poll. `Click` and `SetField` are what the operator does, `Navigate` takes
a document's log with it. A poll is `ReadLog` of one document after the other, in any order, with the
operator going on in between, and at its end `TakeStructure` of the page in front; `visited` is how
far it has come. `InOrder` is the sort by stamp, by rank as above, and `Merged` is `_merge_actions`. The pushed value replaces the last entry of the log only: a value that a poll has read
half typed stays in the store beside the final one, which is why the property asks for the last value.

## Runs

| Run | Question | Bounds |
|---|---|---|
| `build_serial` | With one server life and starts that do not overlap: one build per source, each stoppable, each ends, and the promise is kept | 1 source, 2 builds, 1 starter, 1 stopper, 2 seconds |
| `build_concurrent` | With start, status and stop at once, across a restart: a stop sticks, a reported pass is real, a settled build is reported as it ended | 1 source, 2 builds that share a run file, 1 thread per tool, 1 restart |
| `build_false_failure` | Is a build that ran ever reported as failed? Yes: a finding | 1 build |
| `build_orphan` | Is there one build per source across a restart? No: a finding | 2 builds, 1 restart |
| `live_code` | Does a reload give the server the code on disk, with other builds and reloads about? | 2 sources, 2 reloading threads, 2 revisions, 1 restart |
| `live_code_restart` | Can the app be restarted after a failed reload? No: a finding | 2 sources, 1 reloading thread |
| `agent_loop` | Is each request's conversation paired, accounted for and trimmed as it should be, are the warnings delivered, does the run end? | 4 turns, replies of up to 2 calls, 1 reported size |
| `agent_unread` | Is a result always sent once before it is trimmed? No: a finding | 2 turns, replies of up to 3 calls |
| `codegen_gate` | Is what is approved clean, has a revise lost nothing, is nothing refused for its history, does a verdict come? | 3 files, 2 rounds of up to 2 tool calls |
| `codegen_untracked` | Is an approved change always exercised by its test? No: a finding | the same, with a parser that git does not know |
| `records_office` | Are keys unique, do routes lead somewhere, is a change local, does a token go with its inbox, is a late status true, is the newest run shown and a scrape judged by its own totals, is what was saved used? | 2 threads but in the vault; 1 source, 1 inbox, 2 entries, 1 crash; 2 workers, 1 restart of the server; 1 feed, 2 months, 2 totals, 2 times, 2 documents; 2 portals, 2 properties of which 1 is numeric, 3 calls; 1 writer, 1 sign-in, 3 providers, 2 secrets, 4 calls |
| `portal` | Does a login survive, does a cancel end all recoveries, does every recovery end, is "signed in" true, is a pull whole and a demonstration true, is the watchdog just? | 1 caller, 2 browser users, 2 logins, 1 restart; amounts -1, 0, 1, 4 rows, pages of 2; 2 documents, logs and merges of 2, 3 actions; floor 2, factor 2, ceiling 12, tick 2 |

Why the bounds are enough. The state of a source is its own but for run files (named by source and
second), so one source shows what two do; two builds of it are what it takes for one to be mistaken
for the other, and with `MaxNow = 0` they share a run file, the worst case. `MaxNow = 1` lets them
have files of their own. A second poller adds nothing to the three properties of `build_concurrent`,
which look at one call at a time: pollers write nothing but `reloaded`, on which no action
depends, and the proofs hold for any number. In `LiveCode` sources meet in the package import only,
for which two are needed, and two threads is what a race of reloads takes. Revisions: the one at
hand and the one before. In `AgentLoop` four turns are enough for a refusal, the trimmed retry, and
a turn whose trimming meets stubs; the sizes are such that an edit's arguments and a look's result
are bulky, that one turn is not enough to start trimming and two may be, and that a result is made
bulky by two notes on it. In `CodegenGate` the retry is
the second round, two calls are what it takes to hide a change behind another, and the third file
is one that no snapshot covers.

In `records_office` two threads are what an overlap takes, and a third would
add only more of it: each property excepts the overlaps that break it, and what it is about are the orders
that are left. They are interchangeable there, hence the symmetry. One inbox can be deleted and added again
under the same key, one source can be routed to it: two entries, which is also the most that two writers
need to leave one twice. Two workers are the one before and the one at hand, and an orphan. Two months are
"unknown" and a known one; the two routes that a run may be hidden by come for free; two times are an
older run and a newer one, and the second may be of either call. Two portals are what it takes for one's run
to touch another's choice, and three calls are a choice, a run, and a call of either. The vault
has one writer, since the property ends with the first overlap: four of its calls are a change of each of
two providers, one that switches back, and one after a crash or a blank field. That it holds of any number of
writers until two meet is proved. In `portal` two browser users are one
that holds the profile and one that wants it; two logins tell an older session from a newer one. Four
rows and pages of two are a full page, a short one and two posts between them. Logs, merges and heads
of 2, 2 and 1 with three actions fill a log, overflow a merge and leave something for a poll to miss.
The ceiling of 12 is reached by beats that have raised the budget twice. Recoveries have one caller, for a
liveness property takes no symmetry and costs the product with its tableau: what a cancel has to find
besides its own recovery is there by a restart, which leaves one that the new server knows nothing of. Two
starts at once are left to the proofs of `LoginIsKept` and `CancelEndsAll`, which hold for any callers.

Deadlock is not checked: the system may stop, when all workers that the
bound allows have been spawned, and a run of the agent and a gated run end; so do a pull, a sign-in, a
demonstration, and the calls that a bound allows.

Fairness. `build_serial` uses `FairSpec`. It assumes that the operating system schedules a worker's
threads (`Import`, `WindDown`, `Watch`) and delivers SIGKILL (`KillLands`). It does not assume that
the workflow ends: a model call may hang for ever. `Progress` says that then the silence goes on
until the watchdog fires, which is what its loop with a time limit does. No
fairness is assumed of the tools: nobody has to call them. `agent_loop` assumes that the
loop is scheduled and that each call of the model returns or raises, which the HTTP clients' timeouts
see to; should one not, the watchdog of `BuildJob` ends
the process. `portal` assumes, of its recoveries, weak fairness of `Progresses(w)`, the steps that a recovery or scrape
takes by itself: a process is scheduled, a save that was begun is finished, the close has a
watchdog that kills the browser. Of the end of the wait it assumes strong fairness, for that is not enabled
while a poll saves: the wait looks at its deadline (`max_wait_s`) after every poll, so polls cannot put
it off for ever. It takes each poll to return, which a browser that answers nothing at all could deny
(`context.cookies()` has no timeout of its own). It assumes nothing of the operator or the tools.
`codegen_gate` assumes of each round what `agent_loop` shows of one.

## Findings

* **A build that ran is reported as failed** (`build_false_failure`). `build_status` reads the run
  file before it polls the process. A worker that finishes in between is judged by its old file and
  its new exit code. The next call would tell the truth, but the front end stops polling at the
  first status other than running.
* **Two builds of a source after a restart** (`build_orphan`). Workers outlive the server, the
  dictionaries do not.
* **A failed reload may be the last thing the app does** (`live_code_restart`). The message advises
  a restart; the module that failed to reload is registered, so importing the package fails and the
  server does not come up.
* **Results are trimmed unread** (`agent_unread`). Staleness is by number: when a reply makes more
  calls than stay verbatim, the first results of that reply become stubs ("you already acted on it")
  before any request carried them, and the warnings that ride on the first of them go, too.
* **New code is never asked for coverage** (`codegen_untracked`). Changed lines are what `git diff
  HEAD` shows, which is nothing for a file that was never committed: the parser of a new source is
  approved whatever its test runs.

Further disagreements were met that have no run of their own. Where a property is concerned, its
condition names them.

* `BuildJob`: two starts at once each pass the check before either has stored its process
  (`mcp_tools.py:1841`), and the source has two builds; `build_orphan.cfg` with two starters shows it.
* `AgentLoop`: arguments that are no JSON are counted as none and stay in the message (`agent.py:284-287`,
  463), where the ledger's total says it is everything in the conversation (`context_budget.py:157`);
  `LedgerInStep` says what it does count. And the retry after a refused prompt takes a turn of its own: a
  budget note that was due in the refused one (`agent.py:418`, 512) is never written; `NotesAreDelivered`
  excepts it.
* A write call that the tool refused counts as a written file, so a revise that changed nothing passes
  `fold_noop`. And a file that the run itself created is recorded as an original at its first edit, so
  reworking it may be refused as a rewrite; `DeservedIsApproved` makes an exception of such files.
* A demonstration, consent or recovery that ends between the read of its file and the poll of its
  process is reported failed (`demo_status`, `gmail_consent_status`), as a build is; of a consent the
  status file is then deleted.
* `SignIn`: without a form on the page, `login` trusts a token that the server has not confirmed a moment
  before (`q2_online_banking.py:347`), by the test whose docstring says that it is not sufficient for a
  restored session (line 148). `SignedInIsTrue` is about logins that used the password.
* `Profile`: a worker that is ended while a poll writes the session file leaves it empty, and with it goes
  the login that earlier polls had saved (`browser_session.py:141`); `LoginIsKept` excepts it. And the
  check for a wedged browser (`mcp_tools.py:1605`) looks for a relative path on a command line that holds
  the absolute one, so it never matches; no model has it.
* `Profile`: at its deadline a recovery says that the session was not saved (`browser_session.py:530`),
  after polls that each saved it.
* `Registry`: `delete_inbox` looks for the sources that use the inbox when it begins (`mcp_tools.py:327`); one
  that `save_email_search` routes to it meanwhile (314-315) has a route to nowhere. `RoutesLeadSomewhere`
  excepts overlaps.
* `StatusWorkers`: an Allow that is clicked while `delete_inbox` runs stores a token for an inbox that is
  gone (`mcp_tools.py:341` forgets the worker and does not end it); `NoStrayToken` excepts it.
* `Ingest`: of two scrapes of a source at once the later clears the totals of the other, which is then
  judged by its own (`reconcile.py:54`); `VerdictIsOwn` excepts it. While a run file is rewritten, and
  after a crash in that, an older month is shown as the latest (`ingest.py:87`); `NewestIsShown` excepts it.
  Of several emails of one fetch the oldest is shown: they come newest first, for the current statement's
  sake (`email_fetcher.py:84-85`), and the run that was parsed last is the latest (`fetch_ingest.py:115`,
  where each is ingested in turn).
* `Recorder`: a full log takes nothing more (`demo_recorder.py:192`), while what is written says that the
  last steps are there (line 398); `DemonstrationIsTrue` excepts fields that were set on one.
* `Recorder`: the script's comment says that keystrokes collapse into one action
  (`demo_recorder.py:201`); a poll between two of them keeps both values.
* `BankPull`: a page shorter than asked for is taken for the last (`dfcu_financial_bank.py:277`), so
  a bank that caps the page size ends the pull early. Neither check can tell: the chain balances, and
  the anchor looks at the newest end. `PullIsWhole` says what holds with a cap and without.
* `Settings`: when the property list fails with anything but a `ScrapeError`, the run goes on with every
  property and `stale_values` has nothing to tell (`epic_property_management.py:496`, against
  `settings.py:242`). The same for a property whose id is no number (line 271): it is offered, so it is not
  stale.
* `Vault`: a crash while the store is written leaves it unreadable, and the advice to enter the
  credentials again (`credential_store.py:116`) cannot be followed, for `set` loads the store first.
* `Registry`, `Settings`: a file that is read while another call has it truncated reads as empty, and
  what is then saved drops everything else.

## Proofs

Every invariant and every action property that a passing run checks is proved, for every value of the
constants (`RetryIsTrimmed` under a condition, below), except the four properties of liveness. The
theorems hold under the assumption that the module states of its constants:

* `BuildAssumption`: there is a source, `NoWorker` is no worker, the bounds are natural numbers.
* `LiveCodeAssumption`: there is a revision to begin with.
* `AgentAssumption`: there is a call; arguments that are no JSON are never shortened; sizes and limits are
  natural numbers; a stub is smaller than what
  is ever collapsed (`MIN_COLLAPSE_CHARS`); there is a turn, a first opening is no restatement, and the
  two budget notes are due at different turns.
* `GateAssumption`: `Main` is code, `Test` is a test, a file that does not parse has no tests.
* `BankAssumption`: amounts are integers, a page has a row.
* `RecorderAssumption`: the head that is kept of a long demonstration is shorter than the whole.
* of `Registry`, keys of sources are not inboxes; of `Settings`, the numeric properties are properties; of `Vault`, keys of sign-ins are not providers; of
  `Watchdog`, the tick is not 0; of `Settings`, "all" and "never" are no properties; of the others,
  that bounds are numbers.

`DataLemmas`: the induction theorems of the library take an operator, which no prover here can
instantiate. `SetInduction` says the same of a set: one that has 0 and every successor has every
number, by the pigeon-hole principle on what lies below a number that lacks. From it follow what
`Total` does when a sequence is appended to, cut or changed at a place, and `Ranked`: a finite set
whose order is total has exactly one member of each rank, which is what `Kept` and `InOrder` stand on. `Least` gives the first place
of a key, at which the registry's methods act.

`BuildJobProofs`:

* `TypeCorrect`: `Spec => []TypeOK`. The type is not inductive alone: that an assignment such as
  `metas[key] := start[t].w` stores a worker needs to know which threads hold one (`References`).
  `Typed` is both.
* `StopsStick`: `Spec => StopSticks`. Its invariant is `Told`: a build that was stopped has its failed
  line, and a call that began later has it in hand when it comes to judge. That stands on `Registered`
  (whatever names a worker names one that was spawned, of the same source) and `Forward`, an action
  fact: no line is ever taken from a run file, a dead worker stays dead.
* `PassIsReal`, `SettledTruth`: from `Lines` (a result line is of a worker that has done with the code;
  a worker that left with code 0 has a result line in its file) and `Read` (what a poller has copied is
  still true when it answers, because of `Forward`).
* Under `Serial` (at most one starter, no restart), `OneBuild` and `Stoppable`: from `Solo`, which says
  what each position of the starter excludes: past the check no worker of the source lives, past the
  spawn none but the one spawned.
* Under `Serial`, `PromiseKept`: `BuildJob` implements `BuildPromise`, with `job` mapped to the outcome
  of the latest build. Each step is shown to be one of the abstract moves of one source (`JobNext`), or
  to leave every outcome as it is: the spawn is `Accept`, the exit of the worker is `Finish`, a stop's
  failed line after a worker has left with code 0 is `Discard`.

`Serial` is not a technicality: `build_orphan` shows that a restart breaks `OneBuildPerSource`, and two
starters break it too, each passing the check before either stores its process.

`LiveCodeProofs`, from one invariant `Inv`:

* `ReloadsAreFresh`: nothing in memory, in bytecode or in `REGISTRY` is newer than the disk
  (`DiskFirst`), so what is compiled after a reload began is no older than its beginning. `Achieved`
  says it by position: past the drop, bytecode is gone or new; past the reload, so is the module in
  memory, whatever other threads have imported meanwhile.
* `ReloadedBuildIsLive`: from `LiveInv` (a finished build that was reloaded is in memory, and no older
  bytecode lies around for a later import) and `WorksFor` (a thread that works for the latest build
  began when that had ended, so nothing was written since).

`AgentLoopProofs`, from one invariant `Inv`, which also says what holds inside a turn:

* `PromptsArePaired`, from `Paired`: in a turn, the calls answered so far and those to be dispatched
  are the calls of the last message, as the adapter filters them. Trimming changes no call (`Alike`).
* `LedgerKeepsStep`, from `Ledger`: in a turn, the arguments of the calls still to be dispatched have
  not been counted, and the results have. That each collapse subtracts what it takes off the
  conversation is a lemma about sums of sums, by `DataLemmas`. `unseen` has what the arguments that are no
  JSON, the filtered calls and the notes amount to.
* `RecentItemsStay`, from `StubsAreStale`: what was stale when it was stubbed stays so, as a
  conversation only grows at its end and the number to keep only shrinks.
* `RecoveryIsOnce`, `RetriesAreTrimmed`, from `Recovered`: the budget of the turn after a refusal
  without a size is six tenths of the ledger, so there is always something to trim, and all of it goes.
  `OneRecovery` is proved only, since it is close to the flag that `Recover` sets.
* `WarningsComeFirst`, from `Noted` (what was written for the model, or will be into the next message)
  and `Reached` (of a note that was written: it is in the last message, or was in a prompt that was replied
  to, or its message has more results than stay verbatim). The last case is the finding `agent_unread`.
  A note whose turn's prompt was refused is excepted (`refused`).

`RetriesAreTrimmed` is `Spec => [](live >= 0 => RetryIsTrimmed)`. The condition came from the proof:
notes and the arguments of filtered calls are never added to the ledger, but what is taken off them
when they are trimmed is subtracted, so for some sizes the ledger falls below 0, where six tenths of it
is more than it, and nothing is trimmed. With the sizes of the code that takes a conversation made of
little else; in the instance of `agent_loop` it does not happen, and `RetryIsTrimmed` is checked there
as it stands.

`CodegenGateProofs`:

* `ApprovedClean`: an approval is the work of `Conclude` (`Approval`), which approves when no judge
  refuses (`NoFaults`), and each judge speaks of the calls of all rounds.
* `NothingIsLost`: from `Baselined`. The snapshot is what the two files were at the start; a third file
  that only the agent's tools changed has its first content on record (`Kept`), because each edit
  records what it overwrites unless something is recorded already.
* `RefusalsAreDeserved`: judge by judge, what a refusal rests on is still there in the end (`Refusal`).
  For the judges that compare with a baseline that is `BaselineIsStart`: what they compare with is what
  was there at the start, but for a file that a command wrote or the run created. With the CLI nothing
  is recorded, and the snapshot is all there is (`Unrecorded`).

`RecordsProofs`:

* `RegistryTyped` and `KeysStayUnique`: one invariant, `KeyedInv`: types, and until two calls had the file
  open to write (`crossed`), no key twice, neither in the manifest nor in any document that a call is about
  to write, and one writer at most, who has found the file empty. Overlaps, crashes and lost changes need
  no exception: `add` checks the document it appends to.
* `RoutesLead`: from `RoutedInv`. While `sound` holds, one call at most is under way, the manifest it
  loads is the one its checks were made on, and each document to be written routes only to keys it has.
* `ChangesAreLocal`: from the same. What a call is about to write has the others of what it found; that
  adding, changing or deleting one entry keeps the pairs of the others is `SameOthers`.
* `NewestRunShows`: from `RunsAreDated`: no run of a route is newer than the last one persisted by it
  (`NoneNewer`), which is there (`LastThere`) unless its route is being written or was cut short; and one
  that is stamped and not yet written is newer than all and alone, until two are stamped at once. `VerdictsAreOwn`: from
  `ChannelsAreOwn`: the channel holds what the scrape recorded, and of two scrapes of a source neither
  takes itself to be alone.
* `ChoicesStay`: from `Unhindered`: while `clear` holds, what a call is about to write is the file as
  it is but for its own part; a run that selects knows what the file says was found; and a choice that
  could not be kept is not among it, or its id is no number (`LeftOut`).
* `SecretsAreKept`: from `Orderly`: while `undisturbed` holds, one call is under way, and what it still
  has to write is one of four plans (`Planned`) that each leave every record with the secret it was
  given, however many of its writes are done. Lifting an old key out of the pointer before the pointer
  moves is the longest of them.
* `RecordsTyped`, `SavedStaysUsed`: a behaviour of `MCRecordsOffice` is one of each part's
  specification (`OfficeParts`), so what holds of the parts holds of it.

`StatusWorkersProofs`:

* `StatusTyped`: `StatusSpec => []StatusTypeOK`.
* `TokensGoWithInbox`: `StatusSpec => []NoStrayToken`, from `TokenInv`: from the moment `delete_inbox`
  has dropped the token, whoever is at work was under way during the deletion, and so was whoever's
  token is in the vault.
* `LateAnswersTrue`: `StatusSpec => LateAnswerIsTrue`, from `ReportInv`: until `met`, the file agrees
  with how the worker ended that the server knows (`Tracked`), since it was removed before the spawn
  (`Starting`), one worker at most is at work (`OneWorks`), and whoever could remove the file is alone
  (`Undisturbed`). A call that found nobody at work has the truth in hand from the read of the file to
  its answer (`Asking`).

`PortalProofs`:

* `LoginsAreKept`: from `PolledIsHeld`: until a save was severed, one user at most is saving; what it has
  read, the session of the browser, and what is in the file while nobody has emptied it, are each no older
  than what was polled, so that a later save does not undo it.
* `CancelsEndAll`: from `CancelsAreThorough`, which follows the recoveries that a cancel found through
  its four steps; none of them begins again, and none that has ended goes on (`Goes`).
* `SignInsAreTrue`: from `Unprobed`: once the password is used, only the server's answer leads to
  success.
* `WatchdogTyped`: that a gap is a natural number needs `ReadingsFit`: a reading is between the last
  beat and now.
* `WatchdogJust`: `CutInTime` stands on `CheckPassed`, what the last check let pass: the budget never
  shrinks and the beat never moves back, so at most a tick is added. `SlowIsSpared` stands on
  `GapsLearnt` (the longest gap is at least each gap) and `SilenceMeasured` (what was cut for its
  silence had been silent beyond its budget).
* `PullsAreWhole`: while pages are read, no row lacks between the newest of the first page and where
  the next page begins (`Covered`): a post moves that place up, towards what is read, and a page that
  is not full reaches the oldest row. The rest is of the rows alone: `KeptFacts` (what is kept is what
  can be read, in order), `Balances` and `ChainJoins` (when consecutive balances differ by the row,
  what lies between sums to nothing) and `ReconciledSums` (so the rows sum to the last balance).
* `DemonstrationsAreTrue`: the store is what polls have read; stamps are distinct and past; a field's
  last logged value is in its document's log, later than all others of it (`LastSet`), and is the value in
  the field unless that was set on a full log; a document that a poll
  has caught up with has all of its log in the store. `OrderFacts` and `MergedFacts` are what the merge
  makes of such a store, too long or not.
* `PortalTyped`: from the types of the parts, by `PortalParts`.

What stays with TLC: `EveryBuildEnds`, `RunEnds`, `VerdictComes` and `EveryRecoveryEnds`, which are
liveness under fairness and out of the prover's reach; and the violations, which are behaviours. The
proofs shaped some definitions: a sort by rank instead of `SortSeq`, pairs instead of `SelectSeq`,
since the provers know nothing of these two operators.

## Not modelled, and the plan

Theorems planned: the safety half of liveness, that is, measures which every step of a gated run, of
the agent's loop and of a recovery reduces (from which `VerdictComes`, `RunEnds` and
`EveryRecoveryEnds` follow given fairness); that `LiveCode` lets each source's `job` move only as
`BuildPromise` says; that two starters cost `OneBuildPerSource` no more than one build for each; and a
bound on how far below 0 the ledger of `AgentLoop` can fall.

Parts of modelled components that are left out: inboxes with names of their own and `_adopt_staged`,
which moves what was learned under a staging key; environment variables set from outside the app, and
the encryption of the vault; the redaction of a demonstration and the requests it picks as candidates;
the readers of PDF files and of mail below a document; a linter that is not installed or times out, which
passes (`verify.py:192-217`), where the model's lint is what it finds when it runs; I/O errors in the saves
of cookies, runs and settings; `gmail_consent_status` without a process, which answers from the file alone
(`mcp_tools.py:409-412`); `core/progress.py`, whose latest percentage
nothing depends on; the resolution of a provider's model and base URL.

Left out for good: the scrapers and parsers but for the two above (what they do is the layout of web
pages and PDF files), the front end's rendering, the desktop shell, observability (a log that nothing
reads back), the benchmarks and scripts (no state shared with the rest), and the model's replies,
which are a nondeterministic choice wherever they matter.
