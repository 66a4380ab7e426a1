# AutoBrain: models and proofs

AutoBrain runs memory/wiki systems ("candidates") over a user's own corpus, asks each of them the same held-out
questions and publishes which one, if any, may be recommended. This directory holds TLA+ models of the parts of it
where order, concurrency and failure decide whether the answer can be trusted, the TLC configurations that check them
on small instances, and proofs of their most important properties for every instance. Paths below are relative to the
repository; `src/src/autobrain` is abbreviated to `autobrain`.

    tlc -workers 2 -config MCExperimentJobs.cfg MCExperimentJobs     # a run
    tlapm ExperimentJobs_proofs.tla                                  # a module of proofs

`PROJECT.json` lists the components, the runs, the source lines each definition models, the hazards with the
properties that watch them, the findings and the theorems. Some definitions are labelled "Variant of ..." : each is
the definition it precedes or follows with one plausible mistake in it (a dropped guard, a missing reset, an
off-by-one). No specification uses them; substituting one for its original makes the property named in PROJECT.json
fail, which shows that the property can fail.

## 1. The system

### How the parts meet

    web app ----HTTP---> experiment boundary --thread--> run orchestrator --> candidate adapters
    terminal UI / CLI ---------------------------------->   |   |   |            |         |
                                                            |   |   +-- run cancellation   |
                       connectors <--tokens-- token store   |   |              |           v
                           ^                                |   |      native processes  metering
                           +--- probe, crawl, benchmark ----+   v            ^           proxies
                                                        run directory        |             |
                              inspection, projection ------> (artifacts)     +--- subscription client

A *handler thread* or the CLI starts a run; the *orchestrator* is sequential but shares a cancellation token with the
threads that may cancel it; *candidates* start native processes, which post to *metering proxies* in other threads,
which forward to an API or to one *subscription client*; every run leaves *artifacts* that other processes read while
they are written; *tokens* are shared by all the processes of the host. Between the crawl and the candidates stands
the *benchmark*, which holds back what the candidates are asked about; behind them the *verdict*, which ranks what
they found.

### Inventory

Each entry: state; operations; what is hard; what makes it correct. (M) modelled, (P) partly, (-) not.

| component | state | operations | hard because | correct when |
|---|---|---|---|---|
| Experiment job boundary (M) `experiment_job.py` | registry of jobs: lifecycle, token, runner, result, events, thread | create, validate, start, cancel, rerun, result, worker | factory, run and loader execute without the lock; a cancel fits between any two locked sections | a cancellation wins every race; one owner per job; nothing stranded; final answers |
| Experiment contracts (P) `experiment_contracts.py` | status table | transition | table is enforced by raising inside a handler | only its transitions are seen |
| Run orchestrator (P) `orchestration.py` | manifest in memory, outcomes, receipts, spent, artifacts | gates, candidate loop, cleanup, evaluate, decide, report, settle | eight gates and a dozen ways out; two cleanup loops; a rewrite after publication | cap and cancellation stop candidates; cleanup exactly once before publication |
| Run artifacts and inspection (P) `runs.py`, `report.py`, `projection.py` | manifest.json, comparison.json, report.html | load, verify, list, write | read while written, torn by a crash | what is accepted is one write's work, and stays |
| Cancellation and native processes (P) `cancellation.py`, `subscription_process.py`, process runners of `candidates/gbrain.py` and `llm_wiki.py` | event, callbacks, process groups | cancel, add_callback, run, terminate | registration races with the signal; two threads terminate one group | no registration missed; a killed process is not a result; nothing outlives its run |
| Metering (P) `metering.py` | ledger shared by all proxies | do_POST, record_event, reconcile_usage | check outside the lock, provider billed before the check; handlers that outlive their candidate | overshoot bounded; a cost called complete is the bill |
| Subscription providers (P) `subscription_*.py` | active providers of the process, last answer of a client | probe, admit, complete | one client for all handler threads; a probe marks its provider | an answer and its usage are the request's own; no mark is left behind |
| Token store (P) `auth/storage.py`, `auth/oauth.py`, `auth/service.py`, `mcp/transport.py` | keychain, fallback file, index, rotation lock | save, get, delete, authorize, refresh, logout, connect | three places written in turn by several processes; only refresh excludes; tokens are single-use | no replay; store and index together; lock always given back |
| OAuth protocol data (-) `auth/callback.py`, `discovery.py`, `pkce.py`, ... | none kept | discovery, PKCE, one-shot callback server | - | - |
| Connectors (P) `connectors/*.py` | cursors, ledger, documents, shared flags | probe, crawl, retry | pagination, rate limits, cycles, and failures of one task beside others | completeness claimed is completeness had; provenance is true; a crawl ends |
| MCP transport and policy (P) `mcp/*.py` | connection, token | open, call | expired tokens | in Token store |
| Benchmark construction (P) `benchmark.py`, `corpus.py`, `retrieval_ids.py` | cases, held-out threads, usage, case files | admit, extract, hold out, generate, scan, write | several passes over the same threads with a cap between them; paid calls that fail | nothing held out reaches a candidate; every way out reports what was spent; files whole |
| Candidate adapters (P) `candidates/*.py`, `production.py` | workspace, native store, tool cache or checkout, proxy | construct, run, cleanup | partial construction, native calls that fail or hang, retried cleanups | only who answered everything is eligible; a receipt proves removal; no credential left in text |
| Decision (M) `decision.py`, `evaluate.py` | none | score, gate, rank | gates in three modules; closeness is no order | the winner passes every gate and is the one of the policy |
| Terminal UI (P) `tui_state.py`, `tui_textual.py`, ... | reducer state, handles, workers | keys, effects, events of workers | effects complete late or for an older request | a running run can be reached; a plan is for what is selected |
| Web application (-) `web/src/live`, `web/src/state` | form and results state | create, validate, start; read a result (bounded polling) | answers out of order | the result shown is the one of the id shown |
| Local projection server (-) `local_server.py` | none | read-only HTTP | - | - |
| Source store and run cache (-) `source_store.py`, `performance.py`, ... | small files | load, save | - | - |
| CLI, preflight, bootstrap (-) `cli.py`, `preflight*.py`, ... | none | arguments, probes | - | - |
| Provider configuration and secrets (-) `custom_provider.py`, `secrets.py`, ... | none | validate, redact | - | - |
| Release tooling (-) `release_formula.py` | none | generates a formula | - | - |

## 2. The models

| module | models | run |
|---|---|---|
| `ExperimentLifecycle` | abstract: what a client of the boundary may rely on | (refined in `jobs`) |
| `ExperimentJobs`, `ExperimentJobs_proofs` | the boundary, its handler threads and workers | `jobs` |
| `RunInspection` | the judgement of artifacts (`_load_run`, `verify_run`), pure | (used by the next two) |
| `RunOrchestrator` | one run from directory to return, raise or crash | (part of `run_store`) |
| `RunStore`, `RunStore_proofs` | RunOrchestrator composed with a process that verifies its directory | `run_store` |
| `ProcessCancellation`, `ProcessCancellation_proofs` | one RunCancellation and the native processes under it | `cancellation` |
| `MeteringBudget` | the shared ledger and the proxies' threads | (refined by `MeteredRun`) |
| `SubscriptionClient` | what the vendor CLIs' output is turned into, pure | (used by `MeteredRun`) |
| `MeteredRun`, `MeteredRun_proofs` | candidates, proxies, API or subscription client, UI probes, reconciled costs | `metered_run` |
| `TokenStore`, `Connectors_proofs` | one stored identity and the processes that share it | `tokens` |
| `SlackCrawl`, `NotionCrawl` | the two crawlers | (parts of `connectors`) |
| `ConnectorCrawl`, `Connectors_proofs` | the crawl step of a run over either crawler | `connectors` |
| `Benchmark`, `Evaluation_proofs` | the construction of the benchmark | `benchmark` |
| `CandidateContract` | abstract: what the orchestrator may rely on in a candidate | (refined in `candidates`) |
| `CandidateRun`, `Mem0Run`, `LlmWikiRun`, `GBrainRun` | what the candidates share, and each of them | (parts of `candidates`) |
| `Candidates`, `Candidates_proofs` | one candidate of a run, whichever of the three | `candidates` |
| `Verdict`, `Evaluation_proofs` | from outcomes to the recommendation | `verdict`, `highest_score` |
| `UiState` | the reducer of the terminal UI, pure | (used by `Cockpit`) |
| `Cockpit`, `Cockpit_proofs` | its host: keys, workers, handles, events | `tui`, `duplicate_run` |

`MC...` modules give a run its constants.

### Grain

One rule per kind of code decides what a step is:

* a section under a lock is one step; whatever the code does between two sections is not, and the thread stands at a
  place of its own meanwhile (`frame` in ExperimentJobs, `at` and `npc` in the crawlers, `pc` elsewhere);
* a test made before a lock is taken is a step of its own (`CheckBudget`, `AddCallback`/`Poll`);
* each file the code replaces atomically, and each access to the OS keychain, is one step, so that a crash or a reader
  meets every state the writes can leave between them;
* an exchange with a provider or a native process is a step that ends in any of its outcomes;
* code of one thread that no other process or thread can observe in parts is one step.

### ExperimentJobs

`status`, `token`, `runner`, `result`, `events`, `worker` are the fields of `_Job`; `frame` says where each handler
thread is inside a call. `validate()` is `EnterFactory` (first section) and `FactoryReturns`/`FactoryRaises` (second);
`cancel()` is `Cancel` and, when a runner exists, `CancelRunner`; `rerun()` is the same three calls under a fresh id
nobody else knows (`Hidden`); `_execute` is `Publish`, `RunEnds` and `Finish`. `transition()` raises on a step outside
the table: the guards `raised` are those raises, so that a cancelled job whose factory comes back stays cancelled.
`create()` of an existing id, and every call on a status it refuses, only reply, and are no steps.

The answer of `result()` is derived (`Answer`): a stored result, else a terminal status. The refinement to
`ExperimentLifecycle` maps `status` to itself and `answer` to that derivation, so that "an answer once given never
changes" is part of what is implemented, together with the table and the admission bound.

Worth knowing, and all in the model: a worker whose run was cancelled while its last candidate ran may still come back
with a finished run, which the second look at the token turns into CANCELLED; a run that reports FAILED has lifecycle
FAILED and a JobResult SUCCEEDED, because the loader makes no other; events are published after a terminal status; a
rerun whose validation fails leaves its id in a slot. `asyncio.CancelledError` is a BaseException and would pass
`_execute`'s handlers; nothing cancels the worker's own event loop, so no step does that.

### RunOrchestrator and RunInspection

`pc` is the place in `run()` and `_run_workflow`. `memory` is `self._manifest` as far as an inspector reads it;
`manifest`, `comparison`, `report` are the files. `_stage` persists the manifest at the end of each stage, and so do
the steps that stand for one. `Gates` are the stages before the first candidate with the statuses each may refuse
with. The loop over candidates keeps its budget arithmetic (`OverCap`, `CandidateReturns`) and its check of the token
before each candidate (`AdmitCandidate`), apart from the start itself (`RunCandidate`), which is where a late signal
gets in. Two loops clean up: `CleanupCandidate` before evaluation, `SettleCandidate` on every way out. `SettleRun`
chooses between the terminal artifacts of a cancelled run, the rewrite of a published comparison after a failed
cleanup, and the plain end.

The ways out are steps that are possible almost anywhere: `CancelWorkflow` (RunCancelled or Ctrl-C), `FailWorkflow`
(any exception inside the workflow's try), `Escape` (an exception no handler catches) and `Crash`. The crawl, the
benchmark, a candidate, the metering and the decision are one step each here; the modules ConnectorCrawl, Benchmark,
Candidates, MeteredRun and Verdict say what happens inside it.

### RunStore

An inspector in another process runs `verify_run` step by step: manifest, comparison, the bytes of the comparison, the
bytes of the report. A version number stands for a hash: each write of a comparison has its own, the report carries
that of the comparison it renders, the manifest the one it recorded.

### ProcessCancellation

`event` and `callbacks` are RunCancellation's; `pc` is the operation's place in `run()`. A process group is its leader
and the descendants it may leave behind. Terminating is SIGTERM, a grace in which anything may happen, and SIGKILL:
two steps that canceller and operation may interleave. The provider runner and llm-wiki test the group (`GroupOps`),
gbrain its leader only: `Worth` is the difference.

### MeteringBudget, SubscriptionClient and MeteredRun

In MeteringBudget `events`, `spent`, `exceeded` are the ledger; `charge` is the response a handler holds.
`CheckBudget` is the unlocked test, `Record` the locked section. A handler that serves `chat()` does not post once the
cap is exceeded; a native process does. A response without token counts, or of a model the price sheet does not know,
is `Unpriced`: its event is recorded, its cost is not.

MeteredRun is the run around that ledger, and every step of it is one of the ledger's or leaves it alone. `local()`
probes the provider of the run (`subscription_registry.py`), refused while another probe of the same process holds it;
the candidates run one after the other; a handler thread calls the API, or the one subscription client of the run,
which starts the vendor CLI and remembers one answer (`lastAnswer`) that the next call of any thread resets. A
candidate that is killed leaves handlers behind, which go on recording while the next candidate runs. `Selected` is
the slice of the ledger a candidate's cost is made of, and `outcome` what `reconcile_usage` makes of it. `bill` is a
history variable: what the provider charged.

SubscriptionClient translates the outputs of the CLIs by what the adapters tell apart: readiness out of a status
command, answer and usage out of the lines of an execution.

### TokenStore

`keychain`, `fallback`, `index` are the three places of one storage key; `issued`, `spent`, `revoked` are the
provider; `lock` is the flock of the rotation. `save()` is SetKeychain, ClearFallback, UpdateIndex, or
KeychainRefuses, WriteFallback, UpdateIndex; `delete()` is BeginDelete, DeleteKeychain, DropFallback, DropIndex;
`refresh()` is Acquire, ReadAgain or Coalesce, one of the four answers to the post, and the save or delete under the
lock. `Abort` is a crash or an error that ends a command anywhere. A token is the number under which the provider
issued its refresh token. Expiry is a choice (`UseToken` or `NeedsRefresh`). `mishaps` is a history variable: it
records the three events after which the store cannot be expected to follow the provider, and the properties name the
ones they exclude. Whether a keychain exists is one choice for the host. Slack's refresh needs client credentials the
repository does not hold, so that in practice the refresh path is Notion's; the model makes no difference. Authorize
closes its callback port before it exchanges the code and saves, so that two authorizations, or one and a refresh, may
overlap there.

### SlackCrawl

`at` says where each task is: Main, which is `crawl()`, lists the channels (`listing`), and then each channel's task
is in its `history`, at its `messages`, at the `items` of a message, `reading` one of them, or in a `thread`. A call
is `Send`, which takes a permit, and an action for each way `_call_with_attempts` leaves: the answer (HistoryPage,
ReadItem, ThreadRead...), Retry, or a failure. What a failure does depends on where it falls and on what was read
before it: HistoryCut and ThreadCut keep the pages in hand (`_PartialMessages`), HistoryLost and ThreadLost give the
list up, HistoryDenied counts the channel as denied, LoseItem goes on with the next attachment, Interrupt ends the
channel's task, MalformedReply and ListingFails the crawl. The workspace is a constant: pages of channels, of messages
and of replies, of which WorkspaceAssumption says what the crawler relies on (section 4); a page that is malformed or
repeats a cursor is a failure. `ledger` holds the counters of `_MutableCoverage` per channel and surface; `partial`,
`interrupted` are the flags all tasks share. A document carries its id, its surface, the message it belongs to and the
mark `partial` of its provenance.

### NotionCrawl and ConnectorCrawl

NotionCrawl's server answers each call as it likes: any page of a search with any cursor, any unknown blocks of an
entity and the same ones again, a refusal, an upgrade error. `npc` is the place in `crawl()`; `pending` and `visited`
are the blocks of the entity at hand; `discovered` keeps the pages of the search as they come, and an entity that
comes again is passed over (`SkipEntity`), as the set `seen` makes the code do; results without an id are left out;
`counters` is the ledger; `told` is a history variable, what the server named and whether it left anything out.
`completeness` is that of the CoverageRecord.

ConnectorCrawl extends both crawlers, one of which is at hand in a run. It is `_crawl` and `_canonical_coverage` of
the orchestrator: the connector's snapshot is accepted whatever its status, and its ledger becomes the coverage
`record` of the run's artifacts. Slack's ledger has no completeness at its top, so that its record says UNKNOWN
whatever was read.

### Benchmark

A document is known by its source id and its text by the tokens the leakage scan looks for. The corpus is chosen at
the start: which threads are a question with an answer (`valid`), and what each page is related to, quotes or repeats.
The last threads are held out (`Held`, by `percent` of the settings); `ExtractOracle` is a paid call per case thread;
`GenerateCase` asks about what is left until there are enough cases, the calls are used up or the budget is passed;
`Freeze` cuts to `MaxCases`, takes what is held back out of the corpus and scans the rest for leaks. `Block` is every
way a build is refused, with the usage so far. `usage` is what the code counts; `spent` is a history variable beside
it, of what the provider charged. They differ in two ways: an answer may come without its cost, which counts as
nothing (`tells`; benchmark.py:352, 1212); and a call that raises, or whose answer fails to parse after it was paid
for, is counted as a call and nothing more (`CallEnds`), which ends the build. Requests that an SDK repeats by itself
are in neither. `UsageIsTheBill` compares the two. `WriteFile`, `Publish`, `WriteFails` and `Crash` are the files: all
go to a temporary directory that is renamed.

### CandidateContract, CandidateRun, Mem0Run, LlmWikiRun, GBrainRun, Candidates

The contract has the candidate's `stage` with the orchestrator, its `outcome` and `receipt`, whether `residue` of it
is left and whether its metering `proxy` serves. CandidateRun is what production.py gives each candidate: it is
constructed behind a proxy that was entered before, runs under a cancellation token and the hard budget stop, and
closes the proxy in its cleanup. Each of the three adds its native state: the memories, their attribution and the
stores and handles of Mem0; the tool cache all runs share, the workspace with its transcripts, its home and its seal
of LLM Wiki; the shared checkout, the home and the corpus of GBrain with its command plan. In Mem0Run a call of `add`
has any effect on the store (`Effects`): memories it makes, with or without metadata, memories it updates, and a
response that names any of those it touched. `Attributed` gives the document to those that were named; only a response
that names none is followed by `get_all` (`MapUnattributed`, `MapLost`), as in mem0.py:528-534. `named` and `passed`
of a memory are histories: whether a response ever named it, and whether the adapter went on while it had no source.
In LlmWikiRun `secrets` says in which kind of file a credential may be in the clear: request, response and other
files, the last two also as files that are not UTF-8 (`Undecodable`). `_invoke` redacts its own request and response
whatever their bytes (`CallFiles`), `_redact_workspace` leaves alone what it cannot decode (`RedactWorkspace`).
`Residue` in Candidates is the refinement mapping: what of that a complete receipt vouches for. An interrupted
installation leaves a shared cache in whatever state it had, which is one of the initial states of the next run.

### Verdict

No state is kept: a step scores every candidate (`Evaluate`), a second one picks the winner for any order the
candidates may have run in (`Decide`). `Outcomes` are the observations a candidate may come with, each with at most
one flaw (status, keyword mode, unpinned tool, no native use, no usage, no cost, no receipt). The reference definition
of the winner is stated without the code's loop.

### UiState and Cockpit

UiState has an operator per action of the reducer, from a state to a state. Cockpit is the Textual application around
it: which keys a screen offers, the exclusive worker groups (a new worker cancels the one before, which only sends its
end as an event, while its thread goes on), the registry of effects with its cancellation tokens, and the queue of
events. A probe answers for the provider it was sent for, whatever is selected by then. While the application is
suspended for a login it reads no keys.

## 3. The runs

Deadlock is not checked in any run: all systems may stop (jobs settle, runs return, crawls and builds end), and the
bounds on events, requests, tokens and effects end the others.

| run | instance | distinct states | shows |
|---|---|---|---|
| `jobs` | 3 ids, 2 handler threads, 2 slots, 1 event per job | 19,093 | CancelWins, OneOwner, NoStrandedJob, ImplementsLifecycle, JobsSettle |
| `run_store` | 2 candidates, cap 4, estimate 1, costs {0,4,5}, one inspector | 897 k | BudgetStopsCandidates, CancelStopsCandidates, CleanedUpOnceBeforePublishing, AcceptedMeansVerified, ValidIsFinal, RunEnds |
| `cancellation` | a provider and a gbrain operation, 2 cancellers | 161 k | KilledIsNotAResult, NobodyWaitsForTheLiving, NothingOutlivesItsRun, CancelEndsOperations |
| `metered_run` | 2 candidates (mem0, gbrain) with a handler thread each, 2 requests, cap 2, costs {1,3}, 4 configurations, 1 UI probe | 266 k | OvershootIsBounded, CompleteCostIsTheBill, AnswerIsOwn, CallsEnd |
| `tokens` | 2 processes, 3 tokens | 2.2 M | NoReplay, NoOrphanToken, DeadGrantForgotten, OneRefresher |
| `connectors` | Slack: 3 channels (1 not readable), histories and a thread of 2 pages, 3 kinds of attachment, 4 sets of tools, 1 permit, 1 retry; Notion: 2 entities, 2 blocks, 2 cursors, pages and answers of none, one or two of them | 908 k | OkIsComplete, PartialMarksAreTrue, ClaimedCoverageIsWhole, CrawlEnds |
| `candidates` | each candidate with 2 documents, 2 questions, 2 cleanups; at most 2 memories | 155 k | AttributionHolds, RedactionHolds, ImplementsContract, CandidateSettles |
| `benchmark` | 3 threads, 1 page, 2 possible questions, 2 cases, 3 settings, budget 1, costs up to 1 | 1.1 M | AnswersStayWithTheEvaluator, UsageIsTheBill, ArtifactsAreWhole, BuildEnds |
| `verdict` | 3 candidates, 4 cases, closeness 25, gates 50/50/90, costs {1,2}, one latency or none | 220 k | WinnerIsJustified, VerdictIsThePolicy |
| `tui` | 2 providers, 1 source, 1 candidate, 2 runs or logins | 583 k | RunningIsInReach, PlanIsForTheSelection, UiSettles |

The runs list no type invariants: those of the modules with proofs are proved (section 4). Why the bounds are enough:

* **jobs.** One id more than there are slots, so that create and rerun compete for the last one and are refused; two
  threads are the most that any race of the code involves besides a worker (validate against validate or cancel,
  cancel against worker), and two jobs have two workers at once. No step reads more than one job, apart from the
  admission. One event is enough for an event after a terminal status.
* **run_store.** With two candidates there is an earlier and a later one, a skipped and a started one, one cleaned up
  and one not when an exception comes. The costs fill the cap exactly, exceed it, or leave room for another candidate.
  The inspector reads between any two writes, of every kind of ending.
* **cancellation.** The two kinds of teardown side by side in one callback list, in both orders of registration; the
  second canceller is the one that finds the signal set.
* **metered_run.** Two candidates are an earlier one that leaves a handler behind and a later one beside it, and their
  two threads share the client and stand past the check of the cap together; costs below and above the cap, and two
  requests each, so that a thread comes back after the cap was passed. The four configurations are an API, the two
  subscription CLIs and a mixed one.
* **tokens.** Two processes and three tokens: the one both hold, its replacement, and one issued by an authorization
  or a second refresh in between. Three processes with two tokens hold as well.
* **connectors.** Slack: two tasks, which is what sharing the permit and the flags takes. One history fails with or
  without messages in hand, the other starts with an empty page, after which a failure has none; the thread can be cut
  after its first page; a file occurs twice, one is no text, and there is a canvas; each optional tool is missing
  once. Notion: two cursors and two blocks can form a cycle, and the second entity is read after the first one has
  lost something.
* **candidates.** Two documents, so that one document's memory can be taken for the other's; two questions, so that a
  candidate stops with one observed; two cleanups are a failed one and its retry. Two memories are one that a response
  names beside one that it does not, and one that is updated beside one that is made.
* **benchmark.** Three threads and two cases: one more than the cap, and a thread that is dropped beside one that is
  held out and one that is a case. The settings let the oracles use up the calls, leave one for generation, or hold a
  thread out; one answer costs as much as the budget, and the second one exceeds it, told or not, parsed or not.
* **verdict.** Three candidates are what intransitive closeness takes: the first close to the second, which is close
  to the third. With 4 cases a closeness of 25 points is one case. The numbers of the code (20 scored cases, 5 points,
  60 and 50 percent, 90 percent of success) are constants of the module: scaled to 4 cases, with each gate met and
  missed.
* **tui.** The provider that was selected and the one that is; the run or login that is over and the one that followed
  it.

### Fairness

* **jobs**: weak fairness of every continuation of a call and of every worker. They are threads that wait for nobody
  but the boundary's lock, whose sections all end. Clients owe no call. `run()` itself ends because of RunEnds below.
* **run_store**: weak fairness of the thread of `run()`; candidates and their processes are bounded by timeouts
  (CandidateSettles). Signals, exceptions and crashes owe nothing, and neither does the inspector.
* **cancellation**: weak fairness of the operations' and the cancellers' threads. The native process, its descendants
  and its timeout owe nothing: CancelEndsOperations has to hold without them.
* **metered_run**: weak fairness of `local()`, of the ends of probes and of each handler thread: status commands,
  completions and API calls all have a timeout. Nobody owes a request or a probe, and the candidates need not go on.
* **connectors, benchmark, candidates**: weak fairness of the crawl, the build or the candidate as a whole: each is
  one thread (or one event loop, where it is not said which task goes on) whose every call is answered within a
  timeout or raises. Cancellations, failures and crashes owe nothing.
* **tui**: weak fairness of the threads of workers and of the queue of events. A run ends by RunEnds; the operator
  owes no key. A probe need not return.
* **tokens, verdict**: none. A provider may never answer, a user may never come back from the browser. That a rotation
  lock is not lost is stated as safety instead (OneRefresher: whoever holds it is inside refresh).

### Runs that show a disagreement

These check one property each, the reading of a line of the repository, and TLC finds it violated.

| run | the repository says | the code does |
|---|---|---|
| `highest_score` | docs/methodology.md:43 "only successful candidates with at least 20 scored cases are eligible, and the highest score wins." | the cheapest of those within 5 points of the highest is taken (decision.py:156-180), as README.md:144-150 says |
| `duplicate_run` | README.md:416 "While an experiment is running, navigation, toggles, quit, and duplicate-run keys are disabled until the worker returns a result." | Back, Escape and Refresh lead from the running screen to one whose Run is enabled (tui_textual.py:123, 401), and a second run starts beside the first |

### Behaviours met on the way

The models have them unless the entry says otherwise; no run is spent on them.

Runs and artifacts:

* after an exception between comparison.json and the return the manifest says FAILED and the comparison OK, and
  `autobrain runs` refuses the run as CORRUPT_RUN, although README.md:326 says that a failed run remains inspectable;
* a candidate that ran and cost more than the cap left gets BUDGET_EXCEEDED afterwards, a status the docs
  (report-reading-guide.md:23) describe as not started;
* a cancelled run's terminal comparison says NO_RECOMMENDATION while its manifest still says NO_DECISION, so that
  inspection judges it CORRUPT;
* when the handler's own `_stage` raises, the exception leaves `run()` without the cleanup loop;
* a native command that fails because the proxy refuses it after the cap makes its candidate FAILED when the failure
  is seen before the budget is looked at (production.py:673, gbrain.py:476); docs/methodology.md:23 says "A hard
  budget stop becomes typed `BUDGET_EXCEEDED`";
* a proxy that fails to start leaves those before it running: they are entered before the `try` (production.py:836).

Processes, metering, subscriptions:

* gbrain's teardown stops at a leader that has ended, or ends on SIGTERM; its descendants stay (gbrain.py:136, 192);
* `cancel()` of a job holds the boundary's lock while callbacks wait for process groups (experiment_job.py:214); a
  second `cancel()` of a token returns while the first still delivers (cancellation.py:26);
* a native process that posts to the proxy is forwarded, and billed, after the cap is exceeded;
* a run started while the UI probes the same CLI is refused CAPABILITY_UNAVAILABLE; every call makes a new registry,
  so that its cache of probes is never read;
* the price sheet has only openai models: a subscription run's cost is never COMPLETE and never reaches the budget;
* an API call that times out after 1.0 s (production.py:104) but was billed is in no ledger; embedding responses have
  no completion tokens, which makes usage UNAVAILABLE;
* not in the model: event ids may repeat (metering.py:548), but nothing reads them; the model name of an answer is
  read back from the shared client and may be another thread's; nothing in production calls `chat()` or Mem0's
  `record_proxy_event`.

Tokens:

* a logout forgets by the index and the fallback file: a token the keychain refused to replace stays there
  (storage.py:143; source_cli.py:91 says "Remove every stored identity for one source.");
* a refresh that waited while its identity was logged out posts the record it came with (`get() or record`), and
  brings the connection back; an authorization that overlaps a refresh may be overwritten or deleted by it;
* a logout cut short after the keychain leaves an index entry, and with a keychain that refuses to delete what it does
  not have every later logout ends in an error.

Connectors:

* one Slack reply without a permalink or a timestamp, in any thread, ends the whole crawl: `_fetch_thread`
  (slack.py:561) does not catch what `_crawl_channel` catches for a message;
* `SlackMcpConnector.crawl` drops the status of the result, so that a crawl that FAILED goes on into the benchmark;
  the report's coverage of Slack is UNKNOWN and zeros (orchestration.py:2468);
* a channel whose task is interrupted loses its documents though its ledger counts them as fetched; after one cut
  thread the later, whole threads of the channel are marked partial too; a page that is malformed or repeats a cursor
  drops the pages before it, a refused call does not;
* Notion may claim EXHAUSTIVE with entities denied; an upgrade error inside the entity loop is counted as a denial;
* not in the model: a `reply_count` or mimetype that is no number or text is read as none (slack.py:488, 621), and a
  malformed `next_cursor` of Notion as the end of its list (notion.py:119).

Benchmark:

* the gold source of a case made of a Slack thread is the thread's root (benchmark.py:780), and all such roots are
  taken out of the corpus on purpose (benchmark.py:613, 628), so that no candidate can retrieve it and the recall of
  every real case is 0; retrieval_ids.py:1 says "Map candidate retrieval tokens back to frozen gold source IDs."; a
  generated question may be about the root of a case thread, and then has the same gap;
* with exactly the minimum of threads the build is blocked, where with one fewer it generates the rest;
* all case threads are sent to the oracle before the cap of 30 is applied, so that more than 64 of them use up the
  calls and end in BUDGET_EXCEEDED;
* a generated question about a reply of a case thread is found by the leakage scan and ends the build;
* what generation spends is bounded by its own budget and not counted against the cap of the run; an answer that was
  paid for and fails to parse is not in the usage, and one that does not tell its cost counts as free, so that the
  budget stops only what is told;
* the question of a held-out thread is kept from the candidates by its record and what is attached to it; its wording
  elsewhere is not scanned for, and AnswersStayWithTheEvaluator does not speak of it;
* identical texts are merged; an API client's timeout is no TimeoutError and becomes PROVIDER_FAILED; a Ctrl-C during
  the build becomes PROVIDER_CANCELLED and the run FAILED;
* `_build_benchmark`, `_evaluator_cases` and `_candidate_documents` of the orchestrator are called by tests only.

Candidates:

* Mem0's handlers wrap RunCancelled, so that a cancelled candidate is FAILED; its deadline does not exist off the main
  thread, where run and cleanup always fail;
* a memory that the response of its own document left unnamed, beside others it named, or that a failed `get_all` did
  not find, is taken by a later document, which AttributionHolds allows; a retried cleanup's receipt forgets the paths
  removed before;
* LLM Wiki's redaction passes over every file that is not UTF-8 (llm_wiki.py:1181), and the seal covers it as it is;
  README.md:708 says "Credentials are redacted from artifacts and error details.";
* an LLM-Wiki workspace that exists and is empty passes the check and fails in `mkdir`; an interrupted installation
  leaves a cache every later run refuses; its cost is never complete;
* GBrain's complete receipt leaves `run_root/sources`; its checkout is shared by runs without a lock.

Verdict:

* without Slack no candidate is ever eligible; the success gate cannot refuse anyone, since any failed question
  already makes a candidate ineligible;
* a run that is BUDGET_EXCEEDED may still name a winner; `operating_burden` is never set.

Terminal UI:

* a connection probe that fails dispatches RunFailed, which drops the handle of an active run; a stale probe of the
  provider selected before sets `provider` back; a source toggled before the new provider's probe returns yields a
  plan on the old provider's readiness;
* StageObserved carries no handle, so that stages of a run that was replaced are shown for the new one;
* the application may exit with the thread of a replaced run still going;
* not in the model: going back from the semantic set-up drops the configuration but not the plan, a late
  GBrainValidated moves a running screen to the review, and two quick logins typed ahead confuse each other's
  suspension.

## 4. The proofs

All proofs are for arbitrary constants under the assumptions named, which TLC evaluates in the runs. Nothing else is
assumed. Every inductive invariant below was checked by TLC on the bounds of its run before it was proved. All 32
safety properties that the passing runs check are theorems; liveness, and why it is not, is at the end of this
section.

| module | theorems that state a property of a run | others |
|---|---|---|
| `ExperimentJobs_proofs` | CancelAlwaysWins, JobsAreOwned, NoJobIsStranded, Refinement | TypeCorrect, AnswersAreFinal |
| `RunStore_proofs` | BudgetIsKept, CancellationIsKept, CleanupPrecedesPublication, AgreementIsVerified, ValidVerdictIsFinal | RunTypeCorrect, StoreTypeCorrect, InspectorOnlyReads |
| `ProcessCancellation_proofs` | KilledIsNeverAResult, NoRegistrationIsMissed, NothingIsLeftBehind | TypeCorrect |
| `MeteredRun_proofs` | OvershootBound, RunOvershootBound, AnswersAreOwn, CompleteCosts | RunImplementsBudget |
| `Connectors_proofs` | NoTokenIsReplayed, RefreshesExclude, NoTokenIsOrphaned, DeadGrantsAreForgotten, OkIsWhole, MarksAreTrue, ClaimsAreWhole | TypeCorrect, CrawlTypeCorrect |
| `Candidates_proofs` | CandidatesImplementContract, CitationsAreAttributed, WorkspaceIsRedacted | |
| `Evaluation_proofs` | AnswersAreKept, UsageIsCounted, OutputIsWhole, VerdictFollowsThePolicy, WinnersAreJustified | |
| `Cockpit_proofs` | ShownRunsAreInReach, PlansFitTheSelection | |

### ExperimentJobs_proofs

Assumes JobsAssumption: finitely many ids, `MaxJobs` positive, `MaxEvents` a natural number. Any number of clients.
The inductive invariant is TypeOK, OneOwner and NoStrandedJob with three more: the token is set exactly when the
status is CANCELLED (TokenIsCancelled); a thread past its locked section, a worker or a client, still agrees with the
status (ThreadsAgree); a stored result is one that may come with the status (ResultFits). CancelWins alone is not
inductive: a cancelled job could hold a result of another status, or a worker past its check. The theorems are
TypeCorrect, CancelAlwaysWins, JobsAreOwned (OneOwner), NoJobIsStranded, AnswersAreFinal, and Refinement: every step
of the boundary is an admission, a move along the table or a stutter of ExperimentLifecycle.

### RunStore_proofs

Assumes RunAssumption: at least one candidate, a positive budget and estimate, costs that include 0. First the run
alone. RunInv is TypeOK with a part per property, each saying what `pc` knows of what is behind it: the loop starts
the candidates in order (InOrder), since "no later one" says nothing of the one that is next; whoever is admitted or
running was below the cap when it was looked at (CapIsKept); a candidate started after the signal was admitted before
it (SignalIsKept). CleanedBeforeUse says at which places every candidate has been cleaned up, and where no comparison
exists yet. PublishedLast carries AcceptedMeansVerified: no manifest on disk has a last status before the last
persist, no comparison lacks one, so that the two can agree only after it, and then the manifest in memory records the
version on disk (Recorded). The second part adds the inspector. InspectorOnlyReads: its steps are stutters of the run,
so that all of this holds beside it. What it read last of the manifest is the manifest of a run that has returned as
soon as a comparison agrees with it (ReadLast in StoreInv), from which ValidIsFinal follows for each of its reads.

### ProcessCancellation_proofs

Assumes OpsAssumption: the operations with a process group are operations. Any number of operations and of threads
that cancel. None of the three properties is inductive. OneDeliverer: only one canceller has callbacks, and only after
the signal. UntouchedBeforeSignal: nobody terminates a process before the signal, which makes the second look at it in
`run()` enough for KilledIsNotAResult. Registered and WaitersAreCalled are the heart of NobodyWaitsForTheLiving: until
the signal whoever waits is in the list of callbacks; after it whoever waits for a live process is in what a canceller
has still to deliver, an operation that registers late being called at once. TornDown: the teardown of a group is over
before the callback is removed.

### MeteredRun_proofs

Assumes MeteredAssumption and MeteringAssumption: finitely many threads, costs bounded by MaxCost. OvershootIsBounded
of MeteringBudget says nothing about a ledger on its way to the cap. The invariant is a reserve: until the cap is
exceeded nothing beyond it was spent; afterwards what was spent plus MaxCost for each thread already past the check
stays within the bound, and no thread passes the check any more. Cardinality of the set of threads past the check is
what each step changes by at most one. RunImplementsBudget: the whole run, with candidates, probes, API and
subscription calls, implements MeteringBudget; each of its steps is one of the ledger's or a stutter, and
RunOvershootBound follows. AnswersAreOwn has an inductive invariant of its own, ClientInv: the types of the client
(ClientType), that a thread waiting for the CLI holds no answer yet (Waiting), and AnswerIsOwn.

CompleteCosts proves CompleteCostIsTheBill for candidates that are all different, which `RunConfig` requires. BillInv:
while no event was dropped for the budget, what a candidate was billed is what its events in the ledger cost plus what
its responses in flight will (Balanced), and it was billed only known prices if all of these are priced; nobody has an
outcome before its turn ends (Ahead); a candidate whose cost is complete has no request left that could still be
billed (Quiet). The sum is a recursive function. Its laws (Total of a sequence with one number appended or one
changed) rest on the lemma Induction, which states induction for a *set* of natural numbers and follows from the least
element of its complement, because the induction schemes of the library take an operator as a parameter. The rounding
of the sum to ten digits is left out.

### Connectors_proofs

Of TokenStore, assumes TokenAssumption: Nobody is no process. Any number of processes and tokens. RefreshesExclude
(OneRefresher) is inductive with TypeOK. NoTokenIsReplayed needs four more: without a keychain nothing is in it, and
with one that refuses no write nothing is in the fallback file (OnePlace); a token saved without the rotation lock is
a fresh grant that nobody else has (FreshGrant); a token about to be posted or saved is not spent (UnspentInHand); and
a stored token is spent only while the refresh that spent it saves its successor (UnspentInStore). The last two hold
as long as no new token was lost and no write refused.

What is forgotten needs a second invariant, ForgettingInv, on top of that one: no process saves a token the provider
accepts no more (DeadIsNotSaved); the delete of a refresh that was refused removes its token from one place after the
other and nobody puts it back (DeadIsDropped); what a delete has emptied stays empty until it ends (EmptiedSoFar),
without which the entry of the index could go while a token is still there; and the index names the keychain as long
as that refuses nothing (IndexIsKeychain). From it follow NoTokenIsOrphaned and DeadGrantsAreForgotten.

Of the crawl of Slack, assumes CrawlAssumption (finitely many channels, none of them Main; at least one permit),
ToolAssumption (a server advertises tools the crawler knows, others being ignored) and WorkspaceAssumption: a
paginated list has a first page, which may be empty; a listed channel is a channel; a timestamp names one message of
its channel, which is what Slack promises and what the crawler's source ids are made of; an attachment has one type
whichever messages carry it, an id of Slack's naming one object. The workspace is a constant, so that nothing changes
in it while it is crawled: what a change between two pages does to a crawl is not in the model. Any workspace, any
number of channels, permits and retries, and any sequence of answers and failures.

OkIsWhole (OkIsComplete) and MarksAreTrue (PartialMarksAreTrue) follow from one invariant, SlackInv. For each channel,
ChannelInv: what its task holds of a list is the pages it has passed (Placed); what was lost is told by the flag
`partial` and counted where the marks look for it (LossIsTold); a history that was not cut is all of it
(ReadToTheEnd); each document's mark agrees with the counters, or its thread is whole (MarksHold); and, as long as the
flag is not set, every message before the one at hand, with its attachments and its thread, is in the documents, and
so is every attachment that was seen, but for the one being read (PassedIsWhole). Without the last clause a file that
occurs twice would be passed the second time with no reason to be there. Of all channels, a task exists for each that
may be read (Listed), and OK is given only when each of them is over with the flag unset (OkIsClean). What lets the
channels be proved one at a time is that a step of one leaves the variables of the others as they are (Apart), and the
only thing shared that it changes, the flag, is only raised (ChannelUntouched), which every part of ChannelInv
survives. `Joined`, the messages of the first pages of a list, is a recursive function; what one page adds to it is
JoinedPages, by the lemma Induction. CrawlTypeCorrect (SlackTypeOK) rests on the same invariant, from which it has
that no page beyond the last is asked for; beside the types it says that no call is retried more often than allowed.

Of the crawl of Notion, assumes NotionAssumption (pages of the search and of unknown blocks are finite lists) and
SourceAssumption (Slack and Notion differ). Any pages, cursors, blocks and refusals. NotionInv: unless something was
counted as unsupported, the search was left at its end (SearchedOut); documents and denials are as many as the
entities passed, no entity has two documents (OneDocumentEach); what a document was told of is in its text once, or
still pending (NamedIsRead); and a completeness other than UNKNOWN was given with nothing unsupported
(ClaimIsCounted). With RecordIsReturned, that a coverage on record is that of a crawler that returned, it gives
ClaimsAreWhole (ClaimedCoverageIsWhole).

### Candidates_proofs

Assumes CandidateAssumption (at least one document, question and cleanup), KindAssumption (the three candidates
differ) and MemoryAssumption (the bound on memories is a natural number). CandidatesImplementContract is the
refinement: `Init` of each adapter is that of the contract, and each of their steps, the mishaps included, is a step
of CandidateContract or leaves what the orchestrator sees unchanged. Two obligations of it need an invariant. A run
may end eligible only with every question observed: Mem0 counts a question when its answer was parsed (Mem0Counts),
LLM Wiki's counter is a function of the operation that comes next (WikiCounts), GBrain's one of the command that comes
next and the surfaces per question (GBrainCounts). And a complete receipt may be given only with nothing left: in Mem0
the memories are gone for good once their deletion was verified (Mem0Deletes).

CitationsAreAttributed: Tracked says of a memory and its source what AttributionHolds says of a citation, for all of
the memories at once, and that the documents in a memory are not after the one being added. Owed says it of the
memories that have no source yet: no response named them, and each was passed on, or the document at hand went into it
and `get_all` comes next. That is why `get_all` gives a memory to a document that went into it, unless it was passed
on before. WorkspaceIsRedacted needs WikiRedacts: between a redaction and the seal nothing writes a credential, before
the first call there is none, and a response of a call that returned holds none. What it concludes is what the code
does: a credential may stay in a file that is not UTF-8, and the seal covers that file, too.

### Evaluation_proofs

Of Benchmark, assumes BenchmarkAssumption (finitely many threads; bounds and costs that are natural numbers) and
PageAssumption. The invariant has four parts. Shape: the types. Bill: a call is made only below both bounds, so that a
usage over the budget is that of the call that ended the build; what was charged by answers that told it and is not in
the usage (Lost) is nothing until a call raises, and then no more than one answer, because the build is over. Disk:
files are written beside the output only, and an output that is whole was renamed into its place. Scanned: from the
leakage scan to the end the result is free of answers (Clean). That the scan makes it so is a lemma about the
operators alone, for any pages: a thread's reply, text and claim reach the candidates only through records that
`_remove_holdouts` takes out or through pages and questions that `scan_benchmark_leakage` refuses.

Of Verdict, assumes VerdictAssumption: finitely many candidates known by numbers, gates that are natural numbers, at
least one case and one cost. That `select_winner` follows the policy is a lemma about its operators: `max` and `min`
exist because the natural numbers are well-founded (LeastNatural), a quality is a percentage, Precedes is the
lexicographic order of the keys, and closeness to the highest quality is closeness to everybody's. The invariant adds
that a verdict is given on scores that are those of the outcomes. WinnersAreJustified follows from it by the gates:
each flaw fails one.

### Cockpit_proofs

Assumes CockpitAssumption: sources named as their screens, candidates that are no sources, a handle is a number. Each
operator of the reducer has a lemma: which fields it keeps, and that a plan it resolves is for the state it returns.
RunningIsInReach is inductive with the types and one more fact: the results are on the screen only when the run is
over (ResultsAreOfARunThatIsOver), without which the key that leaves the results would drop the handle of a run that
goes on. Two lemmas about the queue say that taking the end of a login hides no end of a run, which is what keeps the
end of a run announced. PlanIsForTheSelection is inductive with the types.

### Only model-checked

* Liveness, all of it (JobsSettle, RunEnds, CancelEndsOperations, CallsEnd, CrawlEnds, CandidateSettles, BuildEnds,
  UiSettles) and anything with ENABLED are outside the prover.
* What a recursive definition computes is proved only where a lemma of ours stands in for the induction schemes of the
  library, whose operator parameters the provers cannot instantiate: Induction, for a set of natural numbers, and
  LeastNatural. That is the sum of costs and the joined pages; no other definition needs it.

## 5. Plan

What comes next, most important first.

1. The web client composed with ExperimentJobs. Its state is small: the id last submitted, the id in the results
   panel, the outcome shown. Replies out of order may make the one not submitted last the current one, an outcome
   stays on screen when the id under it changes, and the retry button reads the result again where its text says that
   the run is submitted again.
2. GBrain's semantic set-up in UiState, the offline importers of the connectors, and list, compare and explain of
   `runs.py`.

## 6. Not modelled

* Text: questions, scores of single answers, HTML, redaction patterns, command lines, provider output. No property is
  about them.
* Time: grace periods and timeouts are steps that may happen, never durations; how long the boundary's lock is held
  while a cancellation waits for process groups is therefore outside.
* The kernel's reuse of process ids, and the bytecodes between `Popen` and the `try` that follows it.
* Network and SDK layers below the calls the code makes (HTTP server, MCP client, keyring, provider APIs): only what
  the code sees of them, any of their outcomes.
* The composition of all the stages of a run in one state space: RunOrchestrator takes each as one step, and the
  modules of the stages say what the step may do. The receipts and outcomes it chooses from are those of
  CandidateContract.
* The components marked (-) above, for the reasons given in PROJECT.json.
