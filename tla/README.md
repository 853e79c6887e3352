# Cast: formal models

TLA+ models of Cast (the backend in `apps/backend`, the AI API in `apps/ai-api`, the MCP server
and the frontend), the configurations that model-check them with TLC, and proofs checked by TLAPS.
Paths below are relative to the repository; `github-app/` stands for
`apps/backend/src/modules/github-app/`.

| Module | What it is |
| --- | --- |
| `ReviewRuns` | automatic reviews: webhook deliveries, enqueue and supersede, the BullMQ queue, the worker |
| `RunLifecycle` | what the row of a review run promises, the abstraction `ReviewRuns` implements |
| `ReviewBudget` | the monthly budget: serializable reservations and settlements |
| `Installation` | installations and their repositories: link, unlink, refresh, sync, pause, configuration, webhooks, row level security |
| `Analyses` | one analysis: its legs, the durable graph of the AI API, the approval gates, the review on the pull request |
| `AnalysisPage` | the page that runs analyses and answers their gates |
| `ReviewContext` | what an analysis tells its reviewers about the code around the change |
| `FindingLifecycle` | the cases of findings across the analyses of one pull request |
| `FindingPages` | the findings of an analysis read page by page |
| `CodeIndex` | the index of a repository: queue, worker, builds, locks, stored graphs |
| `CodeGraph` | what a build computes, in full and from the files that changed |
| `CrossRepoImpact` | the contracts a change touches and the repositories it may break |
| `ArchitectureMaps` | components, capabilities, published versions, the impact an analysis resolves |
| `FeatureCards` | the plan of a project and the boards it is edited from |
| `Chat`, `ChatAgent`, `ChatPage` | conversations with frozen scopes; the assistant that answers one message; the page |
| `Sessions` | refresh sessions, and the tabs of a browser that share one |
| `Secrets` | a stored credential and its re-encryption |
| `ReviewRunsMC`, `ReviewRunsTroubleMC`, `ReviewRunsLive`, `AnalysesMC` | instances of one component for TLC |
| `LiveSideMC`, `OwnerSideMC`, `PullSideMC`, `ProjectSideMC` | instances of several components that share no state |
| `*_proofs` | eight modules of theorems and their proofs (section 4) |

Check a run with `tlc -workers 2 -config <run>.cfg <module>.tla` (the module of each run is in
`PROJECT.json`), a proof with `tlapm <module>.tla`.

## 1. Inventory

For each component: its state; its operations; what is hard; what makes it correct.

**Webhook deliveries** (`github-app/use-cases/handle-webhook`). State: `github_webhook_deliveries`
(unique `delivery_id`; `received`, then `ignored`, `duplicate` or `queued`). Operations: check the
signature, look the delivery up, record it, route it (pull request or installation), write the
outcome, prune payloads. Hard: redeliveries and concurrent copies, a process that dies or a call
that throws between recording and finishing. Correct: a delivery leads to its run exactly once, and
a delivery that was not processed can be told from one that was.

**Enqueue, supersede, trigger, retry** (`github-app/use-cases/enqueue-review-run`,
`trigger-review-run`, `retry-review-run`). State: `github_review_runs` (unique logical key:
repository, pull number, head SHA, configuration hash) and the BullMQ queue. Operations: find a
duplicate, find the open runs of the pull request, supersede each and remove its job, save the new
run, add its job. Hard: every one of these is a transaction or a Redis call of its own, executed by
several HTTP requests at once while the worker writes the same rows. Correct: one row per logical
key, no open row without somebody who will take it further, only runs of older pushes of the same
pull request are superseded.

**Review worker** (`github-app/infrastructure/queue/review.processor.ts`). State: the row, the
check run and the review on GitHub. Operations: load, mark running, eligibility, check run, budget,
key, analysis, publish gate, publication, settlement, re-reads, verdict, catch block. Hard: pushes,
supersedes, pauses and removals between any two of them; failures in and outside the `try`;
BullMQ attempts and stalled jobs. Correct: a verdict is written once and stands, the check run is
always concluded and agrees with the row, an outdated review does not replace a newer one.

**Monthly budget** (`github-app/use-cases/reserve-budget`). State: `budget_month`, `reserved_usd`,
`consumed_usd` of the rows. Operations: sum the month and reserve (SERIALIZABLE), settle. Hard:
concurrent reservations, serialization failures, runs that change status, months that change.
Correct: what is committed in a month stays within the limit.

**Installations, repositories, configuration** (`link-installation`, `unlink-installation`,
`refresh-installation`, `sync-repositories`, `pause-installation`, `update-repository-config`,
`domain/eligibility.rules.ts`). State: `github_installations`, `github_app_repositories`, under row
level security by owner. Hard: read-modify-write of whole rows, sync against updates by the owner,
rows that disappear from their own transaction, users who link at once. Correct: an installation
does not pass from one user to another, what is enabled was enabled by its owner, a sync nobody
disturbed mirrors GitHub, an uninstalled installation stays ineligible.

**Analyses and approval gates** (`modules/analyses`; the pipeline in `apps/ai-api/app/graph`).
State: `analyses` (status, approval stage, report, iterations), the checkpoints of the graph in
Redis, the slots of streams. Operations: run, resume, approve or reject prd, spec and publish, run
headless. Hard: two streams over one row, approvals without a guard on the status, a stream cut off
by the client or by time, a graph that goes on without its leg. Correct: a manual gate is passed by
a decision, what is posted was asked for and is told by the report, the comments of one review of
each login are on the pull request, what was learnt is not forgotten.

**The context of a review** (`apps/ai-api/app/code_graph/context.py`, `snapshot.py`, the
`change_analyzer` node). State: none of its own; it reads the index three times. Operations: find
the symbols of the diff, rank their neighbours, select within a budget of tokens, keep a snapshot.
Hard: a build replaces or removes the graph between two readings. Correct: the budget holds, what is
left out is told, relations are true, the snapshot shows what was selected.

**Finding lifecycle** (`modules/finding-cases`). State: cases, occurrences, events, dispositions.
Operations: reconcile an analysis with the cases of its pull request under an advisory lock, change
a disposition under another lock, list the findings of an analysis by pages. Hard: analyses that
finish out of order, replays of a reconcile, lists that change while they are read. Correct: a case
says what the newest report of its reviewer says; what was acknowledged when its disposition was read
is not posted; every finding is listed once.

**Sessions, users, credentials** (`modules/auth`, `modules/users`, `frontend/src/api`). State:
refresh sessions in families; the encrypted keys. Operations: login, rotate, logout, revoke, purge;
store, read and re-encrypt. Hard: concurrent rotations by tabs with one cookie, revocations between
two statements of a rotation, a re-encryption over a newer key. Correct: a family has one live
token, an ended family is not resumed, the last four characters shown are those of the key.

**Indexing and code graph** (`modules/repositories`, `apps/ai-api/app/code_graph`). State: the
index queue, the graph per owner and repository, its lock, `RepoIndex`. Hard: a worker that gives up
on a build that goes on, a lock that expires under its build, a graph written statement by
statement, an incremental build against a full one. Correct: the graph readers use is damaged by its
own rebuild only, indexing goes on, an incremental build has the symbols of a full one, its links for
what was parsed, and no link that the files do not bear out.

**Cross-repository impact** (`code_graph/cross_repo_impact.py`). Pure. Hard: ambiguous pairs of
endpoints. Correct: a change of contracts tells exactly what was added, removed and modified.

**Architecture maps** (`modules/architecture-maps`, `apps/ai-api/app/architecture`). State: the
draft in three tables, numbered versions. Hard: drafts read by several queries while they are
edited, overlapping publications. Correct: versions are numbered without gap or repetition and the
map names the newest, the impact an analysis calls exact is whole.

**Feature cards** (`modules/feature-cards`). State: cards with versions and dependencies, under the
lock of the project. Hard: boards that show old cards. Correct: no card runs ahead of its
dependencies, an edit does not overwrite one its author had not seen.

**Chat** (`modules/chat`, `apps/ai-api/app/chat`, `ChatPage.tsx`). State: conversations with the
scope they were created with, a cache of rights, the calls of the page under way. Hard: rights taken
away, messages that overlap, answers that return after the user has moved on. Correct: the assistant
reads only what the user could read, within the life of a cached verdict; answers cite what was
read; the page shows the conversation that is open.

**Projects**, **MCP tokens and server**, **benchmarks**, **shared limits**
(`apps/backend/src/shared/security`: slots of streams, throttler), **the rest of the frontend**:
request and response, offline measurement, presentation.

Interactions. GitHub calls the webhook; the webhook and the owner's requests call enqueue; enqueue
writes rows and adds jobs; the worker reads and writes the same rows, asks the budget, runs the
analysis in process (which calls the AI API over HTTP and calls back the publish gate), and writes
the check run and the review to GitHub. A leg of an analysis reads a stream of events from the graph
it started; both write their own store, and later legs read both. A report that is ready is
reconciled with the cases; the publication reads the cases again. The index is built by one
component and read by the context, the maps, the cross-repository impact and the assistant. The rows
are shared state, the queues and the streams the only message channels, the publish gate the only
callback.

## 2. The models and the code

Every call that the code awaits (a statement or transaction of PostgreSQL, Redis, Neo4j, GitHub, the
AI API) ends a step; what runs between two of them is one action, because both event loops are
single-threaded. The values of `pc`, `step` or `phase` are named after the call that comes next. A
request, a worker, a tab or a call of the page is an element of a constant set, so the models hold
for any number of them.

### ReviewRuns

A row is named by its logical key, since the table has at most one row for it and enqueue always
looks a row up by that key; `status[k] = "none"` means there is none. A job is named by its run,
since `buildReviewJobId` derives its id from the row's id.

| Variables | Code |
| --- | --- |
| `head`, `open`, `sent` | the pull requests on GitHub and the webhooks emitted; any of them may arrive late, never or again |
| `delivery` | status of the delivery row |
| `gate`, `config` | installation active, paused or deleted; configuration hash of each repository |
| `status`, `ledger` | the row: status; has a reservation been written, was the real cost or a zero settled |
| `job`, `tries`, `stalled` | BullMQ: state of the job, failed attempts, has it stalled before |
| `check`, `posted` | the last check run of a run; the SHA whose review was last posted on a pull request |
| `req` | HTTP requests: place in the handler and what it has read (`key`, the loop of `supersedeOpenRuns`) |
| `task` | workers: place in `handle()`, the run, whether there is a check run to conclude, the outcome so far |

`req[h].pc` runs `lookup`, `record`, `route` (`handle-webhook.use-case.ts`), then `findDuplicate`,
`findOpen`, `supersede` with `jobState` and `jobRemove` for each open run, `save`, `enqueue`
(`enqueue-review-run.use-case.ts`), `finish`. `task[w].pc` follows `handle()` from top to bottom;
`conclude` and `done` are the end that `skip`, `finishSuperseded`, `fail` and `complete` share
(update the check run on GitHub, then store its snapshot).

External parts, modelled from how the code uses them. BullMQ: a waiting job goes to one worker; a
job that throws is delayed and tried again, `attempts` times in all; the job of a dead worker is
queued again once; a job id that exists is not added again; removing a job that a worker holds
throws. GitHub: pushes, close, reopen; a call may fail, which the code logs and goes on from.
PostgreSQL: unique keys; row level security, which hides every row of a deleted installation (its
owner is null), so that reads find nothing and updates touch nothing (`Visible`).

Left out: the payload, texts and ids; several check runs for one row (`check` is the last one); a
new owner for the installation; the analysis itself, which ends in an error, without publishing, or
at the publish gate. The events modelled are those that pass `evaluatePullEvent`, which
`Installation` has; `gate` stands for all reasons why a run is not eligible.

### RunLifecycle

The row seen from outside: created once, started, decided, taken over by a newer push.
`ReviewRuns` implements it with `phase <- status` (`ImplementsLifecycle`). A row that was taken over
may still be started or decided, because the worker updates by id; what the refinement excludes is
a verdict traded for another one, a decided run that is executed again, a row that appears twice.

### ReviewBudget

The columns that the budget sums, with the reservation as a transaction of two steps: `BeginReserve`
takes the snapshot and the sum, `Reserve` or `Refuse` commits. Serializable snapshot isolation is
modelled by its two effects that matter here: a transaction fails if another one that read past it,
and that it read past, commits first, and if the row it updates has changed since its snapshot
(`Supersede`). `Abort` is the serialization failure, which BullMQ tries again. PostgreSQL may abort
more transactions than these. Attempts are not bounded here.

### Installation

| Variables | Code |
| --- | --- |
| `enforced` | is the database role subject to the policies of the migrations; both are modelled |
| `installation`, `repositories` | rows of `github_installations` and `github_app_repositories` |
| `account`, `deliveries`, `changes` | GitHub: what is installed, and the events it has not delivered yet |
| `keys` | users with an OpenAI key |
| `calls` | requests and deliveries under way: what each has read, where it waits |
| `decided`, `lost`, `disturbed`, `queued` | history: the owner's last word and whether a stale write undid it, calls others wrote during, runs inserted |

`Link`, `Unlink`, `Refresh`, `Sync`, `Pause`, `Configure`, the events `installation` and
`installation_repositories` and a pull event are each cut at every await. A save writes the whole
row the call had read, an update names its columns; an update of a row
that the policies hide touches nothing, which the code does not notice; one whose new row they do
not allow is refused with an error, which ends the call after the steps before it (`UnlinkReleases`).

### Analyses

| Variables | Code |
| --- | --- |
| `row` | the row of `analyses`: status, stage, documents, report, publication |
| `cp` | the checkpoint of the LangGraph thread, whose id is the analysis: nodes left to run, versions of the documents, answers |
| `leg` | backend side of a request: `open`, `iterate`, `prepare`, reading, `finish`, publishing |
| `graph`, `wire` | AI API side of the same request and the events not read yet |
| `slots` | `streamsByUser` |
| `onPr`, `posted`, `byBot` | reviews whose comments are on the pull request, all ever posted, and those of the App's bot |
| `past` | history: answers received, overlaps of requests and of graphs |

`Ask` is the controller with its guards; `GraphRuns` a node, an interrupt, a resume or the end of a
graph; `LegRuns` the reading of one event with the row it writes, and the publication call by call;
`CloseStream`, `Faults` and `Crash` are the client that leaves, the time limit, a call that fails, a
node that throws and a process that dies. A leg that was aborted no longer reads, while its graph
may still finish the node it is in and write the checkpoint (`past.overlap`). A leg replaces the
comments of its own login (`OwnComments`): the review worker publishes as the App's bot
(`InstallationGithubGateway.loginFor`), every other leg with the token of the owner, behind which one
account is assumed.

### AnalysisPage

`runPhase`, `awaitingStage` and `documents` are the state of `useAnalysisRun`; `analyses` and
`reload` the list of `useRepoAnalyses` and the load that waits; `stream` the request that is read.
The page never learns the id of the analysis it runs: an answer goes to the newest row that waits in
the list. Other tabs run and answer analyses of the same pull request. Which gate a leg reaches is
left open, since the page does not rely on it. A connection breaks before the row is written; what
the leg it aborts may still write afterwards is in `Analyses`, and left out here.

### ReviewContext

`step` follows `change_analyzer`: the lookup of the graph, the ranking, the two loops of `select`
(`full`, then `tail`), the classification, the snapshot from a second reading, the scope that is
told. `graphStored` changes between any two of them. The ranking is a PageRank computed by the
database, external, and any order of the symbols here; texts, scores and distances are left out.

### FindingLifecycle, FindingPages

A finding is its fingerprint, analyses are numbered by `createdAt`. A transaction that holds the
lock of the pull request is a read and a write; a disposition, which locks its case only, may commit
between. A publication reads the dispositions (`CollectPublishable`) and creates the review later
(`CreatePullReview`), with the calls for the files, the head and the old comments in between; `unread`
are the findings whose disposition it does not know: all, if they could not be loaded, and those set
since. A list is read with a cursor, the key of the last finding of the page before, while
findings are acknowledged (they change the view they belong to) and observed again (they move).

### CodeIndex, CodeGraph, CrossRepoImpact

`CodeIndex` has the queue with its deduplication by job id, the worker and its time limit, the lock
of a build in Redis and its expiry, the builds that go on without their worker, and the graph as the
parts a build has written. `CodeGraph` has what the parts are: `BuildFull` and the incremental
build over files that define, call and import, and the overview a page starts from. A symbol is its
path, its name and where it starts in its content (`SymbolNode`), as in `_symbol_id`, so an edit
moves the ends of the links that are carried over from files that did not change; a file whose
structure is missing is parsed again (`paths_missing_structure`). Parsing is left out. `CrossRepoImpact` pairs the endpoints before and after a change in the two passes of
`extract_contract_changes`, looks the indexed ones up and selects within the limit.

### ArchitectureMaps, FeatureCards

The candidates of `select_prefixes` for the tree of each repository, the edits of the draft, a
deletion of a capability in its several statements, publications whose number is computed before the
lock is taken, and the impact an analysis resolves with the version it froze. The graphs are read
twice on that way, for what changed and for what the dependencies reach, and either answer may leave
repositories out (`found`, `second`). A plan is the cards by message
and key; every mutation takes the row of the project first (`lock`), and a board sends what its
editor was opened with.

### Chat, ChatAgent, ChatPage

`Chat` has the conversations with their frozen scope, the cache of verdicts (`permits`, of life
`Ttl`), the user's rights on GitHub as they change, and each message from reading the scope to the
stream that it opens; the assistant is given the last `HistoryWindow` messages of what was read
(`Given`). `ChatAgent` has the turns of the assistant for one message: tool calls, the
graphs it loads and drops, the three limits, the citations. `ChatPage` has the page: what the user
does starts a call, every call returns when it wants, and the version of the conversation tells
which ones are late; the functions keep the values of the render they were made in.

### Sessions, Secrets

`Sessions` has the rows with consume, load and issue as separate statements (the rotation opens no
transaction), reuse detection, revocation and purge, and the tabs of one browser: a token in memory
each, one refresh at a time in each, one cookie for all. A tab whose user could not be loaded after a
good refresh is `lost`: it shows the loading screen until it is reloaded (`LoadLost`). A login
made on the page that `GuestRoute` shows while the first load still goes on is left out. `Secrets` has a ciphertext with its last
four characters, and readers that write it again in the new format over the one they read.

### Compositions

`ReviewRunsTroubleMC`, `LiveSideMC`, `OwnerSideMC`, `PullSideMC` and `ProjectSideMC` put components
side by side that share no variable: `subject` (`trouble`) picks the one that moves, and the others
rest in a state they could be in. A behaviour of the whole is then one of each, so nothing is lost,
and one run of TLC checks several of them. Where components do interact, the interaction is inside
one module: request, queue and worker in `ReviewRuns`, leg, graph, row and pull request in
`Analyses`, tabs and rows in `Sessions`, boards and cards in `FeatureCards`, analyses and maps in
`ArchitectureMaps`.

## 3. Runs

| Run | Instance | Shows |
| --- | --- | --- |
| `rr_core` | `ReviewRuns`: 1 repository, 1 pull request, 1 SHA, 2 handlers, 2 workers, 2 attempts; closes, reopens, pauses, triggers, retries | `OpenRunIsCarried`, `CheckTellsRun` |
| `rr_trouble` | `ReviewRuns`: 2 configurations, 2 handlers, 1 worker, or failing calls and crashes with 1 of each; `ReviewBudget`: 2 runs, 2 months, limit 3, reservation 2 | `TypeOK`, `VerdictOnlyWorsens`, `CommittedWithinLimit` |
| `rr_crash` | `ReviewRuns`: 1 handler, 2 workers, crashes, stalled jobs, removal of the App | `ImplementsLifecycle` |
| `rr_live` | `ReviewRuns`: 2 SHAs, 1 handler, 1 worker, fairness | `PostedNeverGoesBack`, `EveryRunSettles`, `HeadGetsVerdictOrStuckDelivery` |
| `an_gates` | `Analyses`: 3 requests one after the other or 2 at once, 3 versions of a document, 2 slots, three policies | `GatesNeedDecisions`, `ReportTellsPublication`, `OneReviewPerLogin`, `ReportNeverForgets` |
| `live_side` | `Analyses`: 2 requests in turn; `Sessions`: 1 tab; `CodeIndex`: 1 worker, 2 builds, 1 crash; fairness | `RunSettles`, `SlotsAreReleased`, `PageLoads`, `IndexingGoesOn` |
| `owner_side` | `Installation`: 2 users, 2 repositories, 2 calls, 1 change of the account; `Sessions`: 2 tabs, 3 rows; `Secrets`: 2 readers; `CodeIndex`: 2 SHAs, 2 builds; `ChatAgent`: 2 turns of 2 calls, 1 workspace | `EnabledByItsOwner`, `LoneSyncMirrorsGithub`, `OwnerNeverPasses`, `OnlyALinkRevives`; `OneLiveTokenPerFamily`, `EndedFamilyStaysEnded`; `LastFourTellsKey`; `OnlyItsRebuildDamages`; `AnswersAreGrounded` |
| `pull_side` | `FindingLifecycle`: 1 finding, 3 analyses, 2 reports, 1 disposition set; `CodeGraph`: 3 files; `CrossRepoImpact`: up to 2 endpoints before and after; `Chat`: 2 messages, verdicts of life 2, a window of 1 message; `ChatPage`: 3 acts; `AnalysisPage`: 2 analyses, 3 clicks, 1 act of another tab; `FindingPages`: 3 findings, 1 move; `ReviewContext`: 4 symbols, 4 graphs, 3 diffs | `CasesFollowReports`, `AcknowledgedIsNotPosted`; `GraphTellsFiles`; `ChangesAreExact`; `ChatReadsAllowed`; `PageShowsItsSubject`; `PageAnswersWhatItShows`; `EveryFindingIsListedOnce`; `ContextIsSound` |
| `project_side` | `FeatureCards`: 2 boards, 2 proposals, 3 mutations of which the last is an editor's, sent while the other board is idle; `ArchitectureMaps`: 2 requests, at most 2 components for each repository, 1 change of the draft, every tree of 6 directories | `PlanIsConsistent`, `NothingUnseenIsOverwritten`, `PublishedIsNewest`, `ExactImpactIsWhole`, `EverySymbolHasOwner` |

Every property is written in its module, with a comment that says it in words; `PROJECT.json` names
for each one a plausible bug of the code that breaks it under the same configuration.

Bounds, and why they are enough to be interesting. `Attempts = 2` stands for the code's 3: one
attempt that is retried and one that is the last. `MaxSha` bounds the pushes: two give every order of
an older and a newer run. Two handlers and two workers give every race of two requests or of a
request with a worker, and of a stalled job with its replacement. The budget needs two months for a
run that is booked in another month than it was checked in; the costs do not exceed the
reservation, which the code does not enforce, so the run shows what reservations promise and not
what reviews cost. Three requests give an analysis that is run, resumed and approved; the graph is
at most one event ahead of its leg (`MaxUnread`). Two users and two calls give every race about one
installation. Three rows of sessions are a login and two rotations, or a rotation and a new login.
Three analyses are the least in which a late one falls between two reconciled ones. Three files of
which one imports only where it calls, in two directories and at the root, include a test, a path
that is removed and comes back, a name defined twice, and a limit that drops a file. A life of two
for verdicts and a clock of two tell a fresh verdict, one at its end and one that is over; with a
window of one message the second message's history is cut. While a transaction holds the plan, only
transactions move, since no other step writes the cards and each might as well come before, and once
the last mutation is an editor's, lists and answers arrive only at the board that works (`PlanNext` of
`ProjectSideMC`). Three acts
of a page are the least for a call that returns after a conversation was left and opened again. Two
symbols in a changed file, a neighbour elsewhere and a test, with prices around the shares of the
budget, give each way in which a symbol may be kept whole, cut, dropped or counted.

`CHECK_DEADLOCK FALSE` everywhere: these systems may stop, when nothing is left to do and nobody
asks for more. One worker where publications are ordered (`rr_live`, and the proof): the processor
sets no concurrency, so a process has one, and the backend is deployed as one process. Symmetry is
used in runs without temporal properties under fairness, over sets whose elements no definition
tells apart.

Fairness. `ReviewRuns`: weak fairness of a request's next step, of a worker's next step, of the
queue handing a waiting job to an idle worker, and of the backoff timer. The event loop, BullMQ and
Redis justify them while processes live, and none is assumed of GitHub, the owner or crashes;
`EveryRunSettles` also needs an analysis to end, which the stream's time limit of the AI client
gives. `HeadGetsVerdictOrStuckDelivery` adds strong fairness of the first delivery of each event:
requests come and go, so the moment at which one can be accepted may come and go too. It has one
handler, since with two an endless series of redeliveries may keep the only in-order one from being
accepted. `Analyses`: the event loops serve every leg and every graph, and a stream has a maximal
duration, which is a timer. `Sessions`: a page runs its bootstrap and an exchange with the backend
ends. `CodeIndex`: workers and builds go on, and Redis drops an expired key. A user, a client that
leaves, GitHub and crashes are never assumed to act; `RunSettles` excepts a crash, after which only
its owner can resume an analysis.

### Where documents and code disagree

The `v_*` runs each check one sentence of the repository against what the code does, and TLC shows
how it fails. `PROJECT.json` ("findings") quotes the sentences.

| Run | Property | How it fails |
| --- | --- | --- |
| `v_delivery` | `DeliveryIsProcessed` | removing a job the worker has just taken throws, the new run is never saved, and the delivery stays `received` |
| `v_unlink` | `UnlinkRevokesTheLink` | under row level security the update that clears the owner is refused: PostgreSQL raises an error, the call ends in a 500 and the installation stays linked, its repositories already disabled |
| `v_contracts` | `LostContractsBreak` | a contract changed in place is probed in its new form only; consumers of the old one are not found |

Other differences that the models contain, without a run of their own.

*Reviews.* When every attempt fails before the `try`, the row stays open, and retry refuses open
rows (SPEC.md:186 of the automatic review: "Falhas produzem estado recuperável"). `closed` looks for
open runs without the repository, so it may supersede those of another one. `supersedeOpenRuns`
writes by id over a verdict written since it read the row (`TakeOver` of `RunLifecycle` allows it).
A push between `publishGate` and the post gets a review of the old head. A retry finds the run it
should repeat and is answered `duplicate`. A late webhook of an older push supersedes the newer run.
The catch block settles zero over the cost of a superseded run, and superseded and failed runs leave
the monthly sum while they still spend.

*Installation.* With the policies enforced, an installation whose owner was released cannot be
linked again, since nobody sees its row.

*Analyses.* `approve` of publish has no guard on the status, so a completed analysis may be
published again or turned into an error by a late reject (`durable-runs-hitl-gates/design.md:293`
wants a conflict); two approvals served at once leave two reviews. A review of the bot and one of the
owner stay side by side, since neither login deletes the comments of the other
(`analyses.service.ts:1029`), which is why `OneReviewPerLogin` counts them apart. A resume at a pending gate shows an empty document (`spec.md:52` of the same).
The graph of an aborted leg may finish its node and overwrite the checkpoint with an older version
of a document; `ReportNeverForgets` therefore speaks of requests and graphs that do not overlap.
Closing the tab aborts the leg, where `spec.md` says that the run goes on. On the page, a gate may
answer an older analysis while the list is stale or could not be loaded; an older analysis that is
resumed while a newer one waits answers the newer one; an aborted publication is still served; a
stream that ends without a terminal event leaves the phase at `running`.

*Sessions.* A user load that the network fails after a good refresh is thrown again and caught by
nobody (`AuthContext.tsx:38-41`, `49-59`): the page shows its loading screen until it is reloaded, the
exception in `PageLoads`. A rotation that is between consume and issue adds its row to a family that
has been revoked meanwhile, the exception in `EndedFamilyStaysEnded`.

*Findings.* A late analysis of an older head changes the state of cases that a newer one has
reconciled, where `docs/feature-finding-lifecycle/SPEC.md:461-462` orders the lifecycle by `createdAt`
and says that it must not: `CasesFollowReports` goes by that order and names the analysis reconciled
after a newer one (`Overtaken`) as its exception. A finding acknowledged after the publication has
read the dispositions (`analyses.service.ts:983`) and before the review is created (`:1039`) is posted
all the same, and so is every acknowledged one if the dispositions cannot be loaded: the exceptions in
`AcknowledgedIsNotPosted`. A finding that is not observed is shown as any later analysis saw it
last, so its place in the list of an older analysis may move. `normalizeGithubComments` drops the
status `skipped`; the branch of `planInlineComments` in which a failure wins is never reached, and
its count of skipped findings counts groups beyond the cap.

*Index.* A rebuild of the commit that `RepoIndex` names clears the graph it replaces first, where
the comment in `cache.py:82-85` says that the graph of before stays readable; the graph of a project
is materialised in three statements, each a transaction (`cache.py:341`). An incremental build is not
a full one: a symbol's id holds its first byte, so what an unchanged file calls or imports is lost
when its target moves within its file, and what it could have called since, or what has become
ambiguous, is not looked for (`ADR.md`, D1, of feature-code-graph-context and
`test_code_graph_incremental.py:99-105` expect the graph of a full build). `GraphTellsFiles` says what
does hold.

*Context.* The ranking also returns symbols of score zero, which are listed as callers although
`snapshot.py:69` says "chama direta ou transitivamente". A callee is ranked and added again
(`context.py:78-80`), so it may be kept and charged twice. Callees beyond `MAX_CALLEES` are not told
as truncated. Two symbols with one path, name and signature are one to `_find_symbol`. A dead symbol
that changed appears only as changed. An index that is finished between the lookups gives a snapshot
with changed nodes and no `indexedSha`. `extract_contract_changes` is outside the `try`.

*Maps.* Repositories without an index are never counted as stale, and an analysis whose call for
the dependencies failed still calls its impact exact; so does `resolveAnalysisScope` with a source
that is not indexed. The graphs are read again for what the dependencies reach, and repositories that
this second answer omits are ignored (`architecture-graph.gateway.ts:66`): the impact stays exact
although uses it would have found are missing, where `docs/feature-semantic-architecture-map/PRD.md:320`
wants a partial project told. `ExactImpactIsWhole` asks for violations only of what the second answer
holds.

*Cards.* An editor opened while its board is loading the list, or while a mutation of its board is
under way, keeps the old text and sends the version that was shown since, so the conflict of
`update-card` does not see it (the exception in `NothingUnseenIsOverwritten`).

*Chat.* `listIndexedCatalog` cuts what it gathered at the limit and gives the cursor of its last
page, so entries are lost. Access that was lost is a `400` or a shorter list in conversations about
repositories, where SPEC.md, 8, says `403`. An index that is rebuilt while a graph was dropped and
is loaded again stamps the new commit on a line read at the old one; a repository spelled in two
ways is loaded twice. On the page: a first message whose
conversation is left while the list is refreshed (`ChatPage.tsx:223`) is posted all the same, appended
to the one opened meanwhile, and sets `live.running` (`:258`), which its end does not clear (`:276`,
`:285`): the page refuses to send until another conversation is opened, the exception `StrayPost` of
`NeverLocked`. Removing a conversation closes the one opened meanwhile, and
after it the list of the scope that was left is loaded (SDD.md, 6, of the global chat); a failure of
one conversation may be shown under another.

## 4. Proofs

TLC checks the instances above; these hold for every value of the constants that satisfies the
named assumptions of the modules, with no other assumption unless said: positive bounds, finite
sets of requests, tabs, cases or symbols, and a value for "none" outside the sets it is told apart
from. Four assumptions say more, and the code makes them true: `MapsAssumption`, that a draft keeps
the foreign keys of its three tables and a boundary has two ends; `FeatureCardsAssumption`, that
no card is keyed as its feature is; `GraphAssumption`, that every path has a directory, "(root)" if
no other (`_directory_of`), and that paths are ordered; `AgentAssumption`, that one result of a tool
fits the context (`MAX_RESULT_CHARS` is 4 000, `MAX_TOOL_CONTEXT_CHARS` 48 000). One theorem has a premise of its own, `BudgetIsKept`: that no review costs
more than what was reserved for it, which the code takes for granted. Proposals may be invalid, with any keys and dependencies. Nothing
is assumed of the order in which things happen beyond the specification.

| Theorem (module) | States |
| --- | --- |
| `TypeCorrect` (`ReviewRuns_proofs`) | `FaultSpec => []TypeOK`, crashes and failing calls included |
| `NeverGoesBack` (`ReviewRuns_proofs`) | one worker: `CrashSpec => PostedNeverGoesBack` |
| `RowsImplementLifecycle` (`RunLifecycle_proofs`) | `CrashSpec => ImplementsLifecycle`, the refinement |
| `NoRunLeftBehind`, `ChecksAreConcluded` (`RunLifecycle_proofs`) | `Spec => []OpenRunIsCarried`, `Spec => []CheckTellsRun` |
| `VerdictsStand` (`RunLifecycle_proofs`) | `FaultSpec => VerdictOnlyWorsens`, crashes and failing calls included |
| `OwnerEnables`, `SyncMirrors`, `OwnerIsKept`, `OnlyLinksRevive` (`Installation_proofs`) | `EnabledByItsOwner`, `LoneSyncMirrorsGithub`, `OwnerNeverPasses`, `OnlyALinkRevives` |
| `BudgetIsKept` (`Installation_proofs`) | no price above the amount reserved: `[]CommittedWithinLimit` |
| `OneLiveToken`, `EndedStaysEnded` (`Sessions_proofs`) | `OneLiveTokenPerFamily`, `EndedFamilyStaysEnded` |
| `ShownKeyIsUsed`, `GraphsAreSpared` (`Sessions_proofs`) | `LastFourTellsKey`, `OnlyItsRebuildDamages` |
| `GatesAreDecided`, `ReportIsTrue`, `ReviewIsReplaced`, `ReportRemembers` (`Analyses_proofs`) | `GatesNeedDecisions`, `ReportTellsPublication`, `OneReviewPerLogin`, `ReportNeverForgets` |
| `PageAnswersItsOwn` (`PullSide_proofs`) | `PageAnswersWhatItShows` |
| `ChatIsSound`, `PageIsSound` (`Chat_proofs`) | `ChatReadsAllowed`, `PageShowsItsSubject` |
| `AnswersStayGrounded` (`Chat_proofs`) | `AnswersAreGrounded` |
| `PagesAreComplete`, `ContextIsTrue` (`PullSide_proofs`) | `EveryFindingIsListedOnce`, `ContextIsSound` |
| `GraphTellsTheFiles` (`PullSide_proofs`) | `GraphTellsFiles` |
| `CasesTellOneStory`, `AcknowledgedStaysUnposted` (`PullSide_proofs`) | `CasesFollowReports`, `AcknowledgedIsNotPosted` |
| `PlanStaysConsistent`, `NothingUnseenIsLost` (`ProjectSide_proofs`) | `PlanIsConsistent`, `NothingUnseenIsOverwritten` |
| `LastVersionShown`, `ExactIsWhole` (`ProjectSide_proofs`) | `PublishedIsNewest`, `ExactImpactIsWhole` |

None of these properties is inductive. What each proof had to add:

* *Review runs.* `TypeOK` bounds failed attempts, and one that fails counts one more. `QueueInv`
  adds that a busy worker holds an active job, that no two hold the same one, and that a job which
  can still run has an attempt left. `LifecycleInv`, for the refinement, adds that jobs, tasks and
  work lists name rows that exist (`RowsExist`), that the row a worker holds is in a status from
  which what it may still write is a step of the lifecycle (`HeldRows`), and that nothing was thrown;
  it fails with failing calls, since the catch block may write `failed` over `completed`.
  `PostedInv` says that what is posted is not ahead of GitHub and that a worker about to post has
  seen its SHA as the head; with a second worker that is false, hence `OneWorker`, and with failing
  GitHub calls an unknown head opens the gate. `CarriedInv` follows a run from its row to its job: a
  job that was never added belongs to a run whose request is about to add it (`EnqueueInv`), one that
  was removed (`RemovalInv`) or released (`ReleaseInv`) belongs to a run that is no longer open and
  that nobody can reopen. Crashes are excluded there because the property is false with them: a
  process may die between saving the row and adding the job. `HeldChecks` says that a worker that has
  yet to conclude finds the check without a conclusion, and that what it is about to tell is what the
  row says, unless a newer push has taken it; a worker that dies leaves its check in progress for
  ever, so this too excludes crashes. `HeldVerdicts` says which verdicts a row cannot have at each
  place of its worker, and needs no such exclusion: an error after the verdict can still turn
  `completed` into `failed`, but none can reach a row that was skipped.
* *Budget.* A transaction that may still commit knows everything that is booked in its month
  (`Covers`): whoever read past it is in conflict with it, and one that commits makes the others that
  read what it wrote unable to. So a reservation is added to a sum that its transaction has compared
  with the limit; a settlement only lowers what was reserved, by the premise. The sums themselves are
  folds over finite sets: that they do not depend on the order, and grow with the set and with what
  is summed, is shown on a smallest set that would disagree.
* *Installation.* Calls act on rows they read long before. `Known` says what remains true of such a
  row: rows are never deleted, an installation recorded as uninstalled has no owner, and a row that
  was read with a configuration came from the word of an owner. `Mirrors` follows a sync through its
  list, its upserts and its prune; `OwnersInv` ties the owner a call has read to the one the policies
  let it write; `InstallationMoves` lists the ways in which the row may change in a step, from which
  both action properties follow.
* *Sessions.* Two tabs may present one token, and each statement stands alone. `HoldsAlone` says
  that a family has one holder, a token that can be used or the one refresh that has consumed it and
  not yet issued the next; `RefreshInv` what a refresh has found out, `TabInv` which tokens a tab may
  know, `RowsInv` that rows are issued in order within the bound. `EndedStaysEnded` needs `Ages` as
  well: a family that has ended has neither token nor holder, and no statement gives it one.
* *Secrets.* `SecretsInv` needs little beside the property: the columns are written together, and
  the rewriting of an old ciphertext is conditional on the one that was read, which is numbered.
* *Graphs of an owner.* While no lock has expired, one build at a time reads and writes what an owner
  has stored: the one that holds the lock is past taking it and before releasing it, and what it
  prunes is not what the index names, which only it can change meanwhile.
* *Analyses.* Four layers. `LegInv` ties the two sides of a leg: who reads, who runs, what may be on
  the wire. `GatesInv` adds that each version of a document that passed a manual gate used an
  approval (`GatesHold`), and that a headless analysis has `NobodyToAsk`. `PublicationInv` adds, for
  requests that took turns, where a publication stands (`InTurn`, `WasAsked`, `HasOutcome`), what the
  report `Tells` and, by login, what is `OneOnPr`: a leg that deletes has found all comments of its own. `MemoryInv` adds that an analysis whose requests and graphs
  do not overlap is `Lonely`: the row is never ahead of the leg that writes it, which is never ahead
  of the checkpoint, and the events on the wire come in order.
* *Chat.* `RightsInv` bounds when the right behind a verdict was last there, through a cache in
  which a late verdict may replace a later one; `HistoryInv` keeps what a message has read a prefix of
  its conversation, of which the assistant is given the end that fits the window. For the page,
  `CallsInv` says what a call that waits knows of the version it remembers, `SeenInv` that what is
  shown comes from the conversation shown, and that what runs is sending too unless it is a `StrayPost`.
* *The page of an analysis.* The stream, the gate and the list are copies of one row, of different
  ages: each is as far as the stream was when it was asked for, no document on the page is of another
  analysis than the stream's, and the list that is awaited is not older than the gate that asked for it.
* *The assistant.* What is cited comes from results that were shown, in the graph loaded for their
  repository; the graphs loaded are few and one for each repository, and a call is executed when its
  count goes from none to one. The citations are the first of a total order, by round and position
  (`ResolvedAmong`): whatever is taken of it takes one of each repository before two of any.
* *Pages of findings.* The order of the keys is total and transitive, and a page is the least of
  what is left (a lemma for any finite set); then what is left of the list is what comes after the
  cursor, whatever the other findings do (`PagesInv`).
* *Context.* The two loops of `select` are followed position by position: the sets kept are positions
  of the ranking below the next one, paid for from shares that are fixed once the changed symbols are
  weighed (`SelectionInv`), the ranking holds no changed symbol and relations are those of the graph
  that was ranked (`RankingInv`), and what was classified stays what was selected (`OutcomeInv`).
* *Code graph.* The nodes stored are those of the files as they were at the last build, each with the
  content it was hashed with (`GraphOf`). A file whose hash is the same has the nodes a build of all
  files gives it, so that a parsed file is linked among the same nodes (`LinksOf`). Of the other files
  `EdgesFit` says that every definition is there, and that a link between two nodes names what the
  content of its file names; a build keeps it, since it drops the links whose ends are gone. A symbol is found in the overview below the directory of its file, whose
  prefixes all lead to it.
* *Cases of findings.* A reconciliation writes from what it read when it took the lock of the scope.
  `AnalysisOK` says what may have changed since: nothing but a disposition, which takes another lock
  and writes another column; and the seeds come from one earlier analysis, which cannot be publishing
  meanwhile. Each event appended then tells what the row becomes, and each report appended what the
  cases of its reviewers become. For what is posted, a report attached to its cases carries in `meta`
  every finding of its own that has an occurrence, so that the dispositions read at the publication
  are theirs. What was chosen then (`chosen`) had no reviewed disposition, and `unread` collects what
  is acknowledged between that reading and the post: what is posted and not in `unread` is still
  unreviewed. `NewestIsLast` says that for a finding no late analysis has overtaken, the newest report
  is the one reconciled last, which is what the row was written from.
* *Cards.* `GoodPlan` adds to the property what `update-card` and `archive-feature` rely on: the
  cards of a proposal come and go together, their proposal is valid, and a version of zero is a card
  never saved. `SendingOK` says that the transaction holding the project has read the plan as it is, which
  is what the lock is for. That what is left of a feature can be carried out rests on the check for
  cycles: among the cards that are not done, one waits for none of the others. For the texts, `CopiesAreOlder` says that two
  copies with one version are one card, `EditorIsShown` that an editor opened in peace carries the
  text shown beside it, `SentIsSeen` that what it sends carries the version of that text.
* *Maps.* `VersionsOK` says that what a version lost stays lost, `ReadersOK` that a publication whose
  base is still the newest version read everything after it: the transaction that compares the base
  then publishes nothing older. That an exact impact is whole needs no history, only what the draft
  may name (`DraftOK`) and what the walk along the dependencies adds.

TLC checked each of these invariants on a small instance before it was proved. Two actions had to be
written anew, since their `CASE` had arms that overlap and TLC took the first where TLA+ leaves the
choice open (`Answered` of `FeatureCards`, `RemoveCapability` of `ArchitectureMaps`); and the attempt
at `NothingUnseenIsLost` found the second half of the exception above, which no smaller instance had
shown.

The proof of `PageAnswersWhatItShows` failed first for a good reason: a publication that the page
has given up may still be served, after another tab has marked its analysis as failed, has resumed it
and has brought it back to a gate. The property now counts that with what other tabs do
(`elsewhere`); four clicks, one more than the run allows, show it.

An induction over numbers or over finite sets is proved by the least counterexample
(`NatLessThanWellFounded` and `WFMin`), since the induction theorems of the library take an operator
that the provers cannot instantiate.

Only model-checked:

* liveness (`EveryRunSettles`, `HeadGetsVerdictOrStuckDelivery`, `RunSettles`, `SlotsAreReleased`,
  `PageLoads`, `IndexingGoesOn`): out of the prover's reach;
* what recursive functions and folds over sequences compute for every input: `ChangesAreExact`,
  `EverySymbolHasOwner`.

## 5. Hazards

`PROJECT.json` ("hazards") lists what is hard to test, at its line, with the properties that cover
it. Two have none, because the code promises nothing there that a property could state: a process
that dies between saving a run and adding its job leaves a queued row that every later enqueue calls
a duplicate, and a rotation caught between consuming a token and issuing the next one adds its row to
a family that was revoked in between.

Others are covered except for a case that the code leaves open. The property names that case as its
exception, and the hazard's note says what happens in it: two approvals served at the same time, an
analysis reconciled after a newer one, a first page load that the network fails after a good refresh,
a finding acknowledged between the reading of the dispositions and the post, a link to a function
that moved in its file, a first message whose list returns after its conversation was left, and a
list that is stale because the analysis moved on elsewhere.

## 6. Not modelled, and next

Not modelled: controllers, presenters and reads without state of their own; creation, listing and
deletion of projects and analyses; MCP tokens and the MCP server, whose tools read other components;
benchmarks; prompts and what the agents write; parsers; signatures, tokens of GitHub and password
checks. `PROJECT.json` ("components") says for each part that is modelled in part what is left out.
A change of owner during a review run, and a second paid review after a crash, are not modelled
because no property of the models depends on them.

Next: the catalogue of indexed repositories with its pagination, proposals in a conversation, the
retention of payloads.
