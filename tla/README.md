# TLA+ verification of the ICPC workbench

This directory holds TLA+ models of the stateful core of the workbench, the TLC
configurations that check them on small instances, and TLAPS proofs of the properties
that matter most, for every value of the constants. The code is the reference: every
definition translates the lines that `PROJECT.json` names for it. Paths below are relative to
the root of the repository copy (`src/src` is the program, `src/docs` its documentation).

Contents: [the system](#the-system), [modules](#modules), [runs](#runs),
[what disagreed](#what-the-models-found), [proofs](#proofs),
[what is not modelled](#what-is-not-modelled), [what comes next](#what-comes-next), [how to run](#how-to-run).

## The system

The workbench is a plugin of a host process. One activation builds a SQLite store, platform
adapters, a model gateway and a set of services; routes call the services; disposal closes
them in order. Everything runs on one JavaScript thread, so the interesting interleavings are
those of *awaits*: a store transaction, a platform read, a model call, a vault child process.
The store survives the process, the services' memory does not, and two processes may share
one store.

| Component | State it keeps | Operations | What is hard |
|---|---|---|---|
| Analysis pipeline (`application/analysis-pipeline.ts`, `domain/analysis.ts`) | batches, jobs, attempt rows and results in the store; runs, tokens and workers in memory | prepareBatch, run, pause, cancel, resume, recover; per job: claim, reserve, call, settle, retry, adopt | money: budgets shared by workers, crashes between reservation and settlement, leases and takeovers, quota stops, moving material |
| Material refresh (`application/material-refresh-batch-service.ts`, `-types.ts`) | durable batches of items; an exclusive queue, a chain of runs, detached runs in memory | prepare, start, cancel, retryFailed, recoverInterrupted, close, background runs | reads that outlive cancel and close, last outcome and end of run in one write, refused writes |
| Luogu connection (`adapters/luogu/connection.ts`, `adapters/windows/credential-*.ts`) | connection row, write-ahead journal, OS vault | connect, probe, forget, recovery inside them | three stores without a common transaction, removal that fails, crash between any two writes |
| Luogu synchronisation (`application/luogu-sync-service.ts`) | per-account state, durable lease, checkpoint, metadata backlog; one source slot and timers in memory | start, sweep, stop, reconcile, connect, probe, disconnect, close, recover | slot taken before the durable claim, lease lost during a page, queued full pass, a history that grows while it is paged |
| Source gate and HTTP transport (`application/luogu-source-gate.ts`, `adapters/platform/http.ts`) | FIFO of waiters, floor interval, Retry-After deadline | run, request | deadlines raised while others wait, cancelled waiters, retries and redirects |
| Credential bridge (`adapters/windows/credential-bridge.ts`) | one child process per vault operation | invoke | cancellation, timeout and kill while the child is writing |
| Model operations (`plugin/model-operations.ts`) | one start gate, the owned operations | start, plan, save settings, cancel, status, close | starts and saves racing a pending check, disposal under a running operation |
| Import (`application/import-service.ts`) | problems, snapshots, heads, checkpoints | import, resume, refresh material, page submissions | heads moving during a fetch, lists shifting between pages |
| Planning, coaching, assessment (`application/*-service.ts`) | versioned records and one paid attempt each | prepare, reserve, dispatch, settle, recover, cancel, close | paid answers after cancellation, crash or a change of inputs |
| Workbench (`application/workbench-service.ts`, `retrospective-edit.ts`, `virtual-performance-service.ts`, `domain/*.ts`) | tag decisions, completions, ratings, plans, contest ledger | review, record, preview and apply, refresh, adopt, edit | clocks that repeat, previews and screens that are stale, concurrent fetches |
| SQLite store (`adapters/sqlite/store.ts`) | the file, its schema version and backups; mutex, transaction scopes, revisions | open, migrate, transaction, backup, close, all reads and writes | two processes migrating one file, crashes around the copy; re-entrance, rollback, calls left behind by a callback |
| Merged bank (`adapters/sqlite/merged-bank.ts`, `application/merged-bank-service.ts`) | none of its own: rows, submissions, dispositions | browse a page, check it | a store query and the checks of its answer must agree on legacy and trashed rows |
| Model gateway and audit (`adapters/dsh`) | audit sessions, their logs | callJson, flush, close | appends that fail under queued ones, unknown costs |
| Plugin (`plugin/index.ts`, `luogu-host.ts`, API layer) | registered contributions, routes, timers | activate, dispose, serve | activation that fails half-way, disposal under requests and ticks |
| Interface (`ui/common.tsx` and pages) | request and poll of each view | ask, refresh, poll | answers to superseded requests |

How they interact: the pipeline, the batch service and the synchronisation share the store and
nothing else. The pipeline asks the gateway, the batch service and the synchronisation read
platforms, the Luogu ones through the source gate. A paid plan, hint or report goes through the
model operations controller's gate, is reserved in a store transaction, asked for through the audited
client, and settled in another transaction. Disposal closes the routes before the services and the
store last. `luogu-sync-service` runs one source
operation at a time (`runConnectionOp`, line 3151) and calls the connection manager from it.
Each component's correctness properties are listed with its module below and under
[Runs](#runs); `PROJECT.json` lists the hazards with the line where each bites.

## Modules

### AnalysisPipeline, AnalysisLedger

`AnalysisPipeline` models the paid pipeline with its store rows. Store variables are `job`,
`batch`, `attempts` (in order of reservation) and `analyses`; `run` and `work` are the memory
of each pipeline instance: phase and worker count of its pool, and the stage of the worker on
each job (`reserve`, `call`, `retry`, `quota`, `release`, `fail`, `commit`, `cancel`).

* A store transaction is one step. The store runs transactions one at a time
  (`sqlite/store.ts:544`) and a transaction reads everything it decides on, so a revision
  conflict inside one cannot happen; `StoreFailure` rolls one back entirely. What the code
  decides *between* two transactions is folded into the step before; what it read earlier and
  uses later (a job claimed, an answer, a stale batch) is carried in `run` and `work`.
* Each service operation is an action: `PrepareBatch`, `Pause`, `Cancel`, `Resume`,
  `RecoverBatch` and `RecoverJob` (recover sweeps job by job), `StartRun`, `ClaimBatch`,
  `CancelUnclaimed`, `EndRun`. A worker takes `ClaimJob`, `Reserve`, `StopBeforeCall`, `Settle`
  (the gateway answers any of `Answers`), `RegisterRetry`, `PauseForQuota`, `ReleaseJob`,
  `FailJob`, `CommitAdoption`, `CancelInCommit`.
* `Pause` and `Cancel` first write and then notify the running pool (`DeliverNotice`); they may
  come from another instance, which then cannot notify. A notice is lost when the run ends
  first. The request token may be cancelled at any time (`CancelToken`).
* Time is abstract: a lease is live until `LapseBatch`/`LapseJob`. With `LeaseOutlivesCall` no
  lease lapses under a call of its owner; the constructor demands `leaseMs > requestTimeoutMs`
  and reserving renews both leases.
* Abstractions: a job is its snapshot and run identity; `superseded` stands for snapshot heads;
  a manual revision is kept per snapshot while current; the order of a batch's jobs is a set;
  the `attempts` counter of a job saturates at `MaxAttempts`, the only question asked of it;
  provider, model and prompt identity are constant; the gateway's capability check is
  `SupportedRoles`. Wording, timestamps and the retries counter of a job are left out.
* A pipeline of the model runs one batch at a time, because the program makes a pipeline, with an owner
  name of its own, for every model operation (`plugin/index.ts:129`, `model-operations.ts:1255`). Two batches
  run by one process are two pipelines here. The class alone would let one instance run two batches under
  one owner name: it refuses only the same batch twice (`activeRuns`, `analysis-pipeline.ts:623`).
* Run identities are the ones the code derives or a rerun asks for; a caller that supplies the id of an
  existing job (`settings.runId`, `analysis-pipeline.ts:554`) is left out.

`AnalysisLedger` is the abstract promise about money and results: budgets granted while a
batch is closed, spending only while open and never past the grant, nothing given back, one
adoption per job, a finished batch never reopened. `ImplementsLedger` is the refinement
mapping; budgets are the limits, spending is the number of attempt rows.

### MaterialBatch

Rows `batch` (status, `started`, item statuses) and the service: `phase`, the `exclusive` queue
of sections, the chain `fifo` of runs, one `run` per batch, the runs `close()` still has to
detach. Serving the head of the queue is one step, because only sections write rows and a
section saves at most once; flags set from outside while it runs commute to after it. A call is
two steps, the call itself (`Call`, `CallCancel`) and its section (`ServeCall`, `ServeStart`,
...); a run goes `top` → section → `check` → `reading` → section. `cancel` reaches the token of
the live run before its section is queued; `ServeAbortedStart` is a start whose request dies
after the claim. `Close`, `ServeDrain`, `StopWaiting` (all runs settled, or the deadline passed),
`Detach`, `ServeDetach`, `Closed` are `close()`; a detached run may still return later. `Down`,
`Activate`, `Recover`, `Open` are process end and the next activation.

Abstractions: "failed" includes a partial report; an adapter may report cancelled on its own;
detached runs disappear with the process; the records' validators throw where
`RecordsValid` would fail, so the property replaces them; repeated `close`, `whenSettled`,
`detail` and `list` change nothing. `committed` is a ghost, forgotten at process end. A batch
may stay `cancelled` although all its items completed: the code restores items, not the batch.

### LuoguConnection

`row`, `journal` and `vault` are the three stores, `op` the operation under way with its copy
of the row (`view`), the references left to visit (`todo`), its fresh reference and its stage.
Each wait is a step with all its outcomes: a vault removal reports done, failed or cancelled,
and only done says what happened to the secret; a refused write leaves the store as it was; a
failed retirement is swallowed; a cancelled request gives up at the next check; `Crash` may come
between any two steps. `clean` is a ghost: nothing failed in this operation.

Why one operation: `luogu-sync-service` admits one source operation per service and holds a
durable lease around connect and probe (module LuoguSlot). Revision conflicts then appear only as
refused saves, and the branch of `connect` that re-journals the fresh reference (`Confirm`) is
translated but cannot be taken. disconnect takes no durable lease, so two processes working on one
account at once is outside the model. A vault child cannot outlive its host on Windows (it is in the
host's kill-on-close job), so no write arrives after a crash; within one process `CredentialBridge`
shows that nothing is written behind a caller that was answered.

### LuoguSlot, LuoguHistory, LuoguBacklog (with LuoguSource)

The synchronisation service is too large for one state space, so it is cut where its parts share
little: who may use the source, what one account's history covers, and the queue of missing
problems. `LuoguSource` holds the constants they share.

* `LuoguSlot`: `pass` and `sourceOp` are the in-memory slot, `lease` the durable rows, `starts` and
  `sweep` what is under way without the slot. A pass is published (`claiming`) before it waits for its
  transaction (`Claim`), re-examined after it (`Launch`, `Withdraw`), settled, and replaced in the same
  step by the full reconciliation queued behind it (`Finished`). Other processes are `OtherClaims` and
  `OtherLeaves`; the lease lapses at any moment; the store may refuse a release. With `RenewalWaits`
  a renewal may outlast the lease (see [divergences](#what-the-models-found)).
  `SlotKept` is its promise: one holder, every lease of ours backed by somebody who will release it,
  nothing after close, no launch that was cancelled while it was being claimed, and no queued
  reconciliation lost.
* `LuoguHistory`: submission k is made at instant k; a pass fetches pages from the durable checkpoint
  (`FetchPage` is `scan` of the session reader, with its bound frozen at the first page and its position
  checked against the list), commits each with the watermarks, and may stop, fail, lose its lease or be
  followed by a pass of another mode or process. `HistoryCovered`: a complete history holds everything
  made up to its watermark.
* `LuoguBacklog`: keys a page refers to are queued up to `MaxBacklog` or the page is not committed; a
  repair works on a copy of the queue, asks the platform, stores the problem under a renewed lease and
  puts failures back; dispositions take a key out of every account. `BacklogKept` (part of `StoreKept`):
  no key is lost, and nothing is stored for a key nobody wants any more.

### LuoguGate, HttpTransport

The gate's queue, its floor and the Retry-After instants, and below it the transport's pacing slot,
retries, redirects and back-off. Both clocks are counters. `RequestsPaced` quantifies over what was
*ever* demanded (ghosts `demands` and `owed`), not over the variable the code compares with: a deadline
overwritten by a shorter one would violate it. The one exception is stated in it: an HTTP request
cancelled after it heard a Retry-After forgets it. What is owed is the Retry-After of a failing answer: one
on a redirect or on an accepted answer is ignored, as the code ignores it (`http.ts:590`).

### PaidLedger, PlanRequests, CoachRequests, AssessRequests

`PaidLedger` is what a service that pays for one call per request id promises: charged before the
call, called at most once, never free again, a known cost is final, zero only for a call never made.
The three services reach it on different ways (a plan is joined by a second caller and its settlement
checks the evidence, a hint must be earned and its late answer may still settle an unknown cost, a
report is dispatched by the service itself and its close waits for it) and each is shown to implement
it by a refinement mapping (`PlansAreLedgered`, `HintsAreLedgered`, `ReportsAreLedgered`, together
`PaidCallsSettled`). `AnswersFresh` is the other half: no text is stored that its inputs outdated.
Calls of several processes, lapsed leases, cancelled tokens, refused writes and crashes fall between
any two steps.

### ModelOperations, AuditedCalls

`ModelOperations`: the start gate is held over every await (`checking`, `reading`, `probing`, `writing`);
other processes reserve, settle and save meanwhile. `OperationsKept`: a plan runs alone, settings are
not saved over a live reservation of any process, the store is closed only behind the last operation.
`AuditedCalls`: the provider is asked only for a call whose input row is durable, a value is adopted
only with its result row; a failed flush poisons the tail of the queue (`TailAfterFailure`), and no
later one may report success over the gap.

### StoreTransactions, PluginLifecycle (with LuoguHost)

`StoreTransactions` justifies "a transaction is one step" of all the other modules: callbacks that call
the store again, callbacks that leave work behind, backups and close, all through one FIFO mutex. What is left
behind is refused everything but its close, which queues like anybody's (`Fate`).
`PluginLifecycle` registers the contributions in order, any of which may fail, and disposes them in
reverse; `LuoguHost` is the start attempt, the timer and the drain of the Luogu service.
`WorkOutlivesNothing`: no request, tick, start or model operation goes on over a store that is closed.

### StoreOpening

Opening the file, by processes that know nothing of each other and may die at any step: the version is
read (`ReadVersion`), the tables are classified (`Classify`), a free name is chosen, the copy written and
verified (`ChooseName`, `VacuumInto`, `VerifyBackup`), the version read again and the file migrated in
one transaction (`ReadFrom`, `BeginMigration`, `Commit`, `RollBack`), classified once more and configured.
A version is its set of table groups, a file its version, groups, marker and rows; `FilesFound` holds
every layout of this store and several foreign ones. `OpeningSafe`: what held anything is migrated only
behind a whole copy of it, the file is as it was found or exactly of this build, and a stranger's file is
only read. `CopiesKept`: no whole copy is written over, and none is removed but by the process that has just
made it on request, could not read it back and says so (`ProveBackup`).

### MergedBank

The one pure read that is modelled, because two independent programs compute it: the SQL of the store
(`Filtered`, `PlaceOf`, `PageGroups`) and the checks by which the service refuses an incoherent page
(`Trusted`). Rows, submissions (some stored by an older build under a key of the other site) and
dispositions change freely. `BankAgrees`: no page is refused, solved and unconfirmed split the bank by
the reader's own verdicts, tags are not shown through a link, and the pages of each order hold each
group once.

### LearningEvidence

What the stored evidence of an account says, in three computations that share no code: the knowledge
report over the taxonomy (`Related`, `Completed`, `StatusOf`) with its difficulty bands, the ability report
of now (`ModeOf`, `Eligible`, `Estimate`, `PeriodOf`), and the validator a preparation must pass before it
is stored with a plan (`AggregateAccepted`). Submissions, some ahead of the clock, metadata, tags,
retrospectives and dispositions change freely while time passes. `EvidenceAgrees`: the validator never
refuses what the report says, the two reports differ by nothing but what is ahead of the clock, bands
make up the whole, a category sees a problem once and says of its techniques what they say, and the
suggested ranges hold what they are drawn around. `OldSolvesStayOld`: a solve that left the recent window
is never recent again while the clock does not go back. The official rating and the self-assessment,
which the report carries beside its counts, are left out here (see OfficialRating for the first), and so
are the refusals of a submission of another source and of a rating from the future (`ability.ts:692`,
`:987`): "never refuses" is said of the evidence of one source.

### MaterialHead, SubmissionPages

`MaterialHead`: refreshes, supplements and metadata fetches read the snapshot head, leave for the
platform and commit much later; `MaterialKept`: none overwrites what a newer one stored, and the row
and the head agree. `SubmissionPages`: a Codeforces list that grows and shrinks between pages, and
several callers of one checkpoint; `ScanDelivers` (part of `StoredAgrees`): a finished scan has stored
all that was listed when it began.

### TagDecisions, Completions, PerformanceLedger, OfficialRating, TrainingPlans, CredentialBridge

What a user records. The first decides which of the append-only tag rows is current, with clocks that
repeat or go back; `Completions` records one by one and in batches from a preview; `PerformanceLedger`
and `OfficialRating` are revisioned rows edited from several screens or fetches; `TrainingPlans` packs
candidates into days, by the rule or from a validated model answer, and edits the result;
`CredentialBridge` is one vault process at a time. Their properties are the conjuncts of `StoredAgrees`
(state) and `EditsLand` (steps), each stated in its own module.

### UiRequests

The `useRequest` hook of every page: effects, aborts and the poll. `ViewsFollow`: no answer to another
view and no older answer is shown, and polling does not starve the page.

### Modules that compose

`MCClosing`, `MCServices` and `MCLuogu` are unions: a behaviour chooses one part and the others rest, so
one run checks several modules at the cost of the sum, and a property of several parts is the
conjunction of theirs (`EverythingCloses`, `PaidCallsSettled`, `EditsLand`, ...). Parts in one union share
no state in the code either at this grain: what they share is modelled inside each (a lease, a clock, a
store that refuses). `PluginLifecycle` really composes with `LuoguHost`, and `MCRecords` is the union of
the records inside `MCServices`.

## Runs

| Run | Instance | Asks | Distinct states |
|---|---|---|---|
| `analysis_takeover` | 2 pipelines, 1 batch, 1 job, crashes | TypeOK, OneCallInFlight, AdoptedIffSucceeded, StoppedBatchSpendsNothing | 435,720 |
| `analysis_passes` | 1 job, 2 passes, 2 attempts, 1 retry, raised budgets, refused transactions, crashes, leases that lapse under a call | AccountingExact, PaidWork, ImplementsLedger | 169,344 |
| `analysis_pool` | 2 workers on 2 jobs, tokens cancelled | ResultsBacked | 1.16 M |
| `analysis_rerun` | 2 batches over one snapshot and a rerun identity, crashes | ResultsBacked, HistoryKept | 976,000 |
| `analysis_liveness` | 1 job, moving material and manual decisions, fair workers | FreshOnly, RunsSettle | 145,832 |
| `analysis_ownership` | 2 batches, 1 snapshot | OneActiveBatchPerSnapshot is violated | |
| `analysis_quota` | 2 workers, quota answers | PausedHoldsNoJob is violated | |
| `batch_records` | 2 batches of 2 items, queue of 2, crashes, aborted starts | RecordsValid, OneRead, StatusTruthful, CompletedKept, RunsQuiet | 2.5 M |
| `batch_settling` | 2 batches of 2 items, aborted starts, answering reads | RunningSettles | 550,113 |
| `closing` | the parts that stop: batches with hanging reads and refused writes, 2 accounts of a source, 3 store clients with 2 inner calls, the plugin with 1 client and 1 model call, a page with 2 views | ClosingTypesOK, WorkOutlivesNothing, EverythingCloses, SlotKept, TransactionsServed, ViewsFollow | 136,413 |
| `services` | 2 calls on 2 requests of each paid service under a quota of one, 2 starts, 2 audited calls, 4 snapshots, 2 tags, 2 screens, 3 candidates, ... | ServicesTypesOK, CallsAudited, StoredAgrees, PaidCallsSettled, AnswersFresh, OperationsKept, MaterialKept, EditsLand | 301,804 |
| `luogu` | 4 references with every failure and crash; 2 services on 2 accounts; 2 submissions in pages of one; a backlog of one; 2 calls at the gate and at the transport; 2 processes opening a file of 3 versions, one of them without a table of its own; a mirrored and a native problem in pages of one; 3 pieces of evidence on 2 problems, 3 taxonomy nodes in a chain, 3 days | LuoguTypesOK, Addressable, CleanLeavesNothing, SessionKept, ConnectedIsBacked, HistoryCovered, StoreKept, RequestsPaced | 532,197 |

Properties that several parts share are conjunctions of named ones: `PaidWork` is RetriesBacked,
KnownCostFirst and AdoptionPaid; `ResultsBacked` is CompletedMeansAdopted with AdoptedIffSucceeded;
`RunsSettle` is RunTerminates and EveryCallBooked; `StatusTruthful` is RunningIsOwned, InFlightTruth and
ClosedIsTruthful; `RunsQuiet` is ReadsOnlyRunning, CommittedNotRepeated and ClosedIsQuiet; `StoreKept` is BacklogKept,
OpeningSafe, CopiesKept, BankAgrees, EvidenceAgrees and OldSolvesStayOld.

What the bounds are for. Two pipelines are what a takeover needs, and a third adds no new
kind of conflict because a lease has one owner. Two jobs and two workers are needed for a
shared budget and for a pool that ends while another worker is busy; two batches for one
snapshot scheduled twice. `MaxAttempts = 2` and `MaxRetries = 1` let a retry, its exhaustion
and a restart of the job all occur. Two batches of two items give a run a next item and a next
run; a queue of two lets any call land behind any other (runs append beyond this bound, only
callers respect it). Four references cover a connect on top of a row, a stale predecessor and
an orphan. `MaxManualRevision` and `Moving` bound the environment.

In `closing`, two accounts are what one source needs to refuse the second; one waiting request and one
sweep let a pass be asked for from both sides; two inner calls let a store callback queue one and leave
one behind. In `services`, two requests and two calls let two callers share a request or compete for a
quota of one; one move of evidence, settings, head or basis is enough to outdate an answer; four
versions let a writer be overtaken twice; readings of the clock are few so that they repeat. In `luogu`,
pages of one row over two submissions make every page boundary a place where the list can grow; a
backlog of one is full at once; three versions give an oldest, a silent one and the current one, and two
backup names run out when two processes copy and a third copy is asked for; two spellings of one problem,
a native one and a legacy submission are every kind of member a group has; two calls and delays below, at and above the interval order every
pair of deadlines. The model values declared interchangeable (`Requesters`, `Interchangeable`) are
used in no other role than the one permuted, no operator chooses among them, and both runs check safety
only.

Deadlock checking is off where a finished system rests: all batches may be over, all items completed,
all requests settled, a plugin disposed, a bounded clock at its end. Where waiting for ever would be a
fault, a liveness property says so (`RunsSettle`, `RunningSettles`, `EverythingCloses`, `StoreAnswers`,
`PollsSettle`).

Fairness. `FairSpec` of the pipeline assumes that pool steps and workers, continuations of
settled promises, are eventually run and that the gateway answers (it has a request timeout);
nothing is assumed of users, leases or failures. `FairSpec` of the batch service assumes that
queued sections and ready runs are eventually served and that the close timer fires; nothing
makes a platform answer, so `CloseReturns` holds with reads that hang. `closing` states the same for its
parts: continuations that need nobody else run (`SlotProgress`, `StoreTurn`, `Teardown`, `UiStep`), a
request a client has begun ends and a model call settles. Nothing is assumed of users, clocks, leases,
other processes or failures. The platform work of a Luogu pass is assumed to end: the pass's token is
cancelled by close and every request has a timeout. `RunningSettles` needs
answering reads (`AnswersSpec`) and is checked without refused writes: a refused interruption
leaves the batch running until the next start or activation, as the code documents.

Operators commented "Defect" are wrong versions of the definition after them (a dropped
guard, an order, a missing reset); replacing the right one by it must violate the property
listed beside it in `PROJECT.json`. A conjunction is shown there to fail by one of its parts; the
other parts were tried with the defects that the modules keep beside their definitions:

| Module | Defect tried | Property it breaks |
|---|---|---|
| AnalysisPipeline | CountedOnce | AccountingExact |
| MaterialBatch | WaitForAll | EverythingCloses |
| LuoguSlot | BeginPassOverOp, LaunchClaimed, WithdrawOnly, PassSettled | SlotKept |
| StoreTransactions | FateOfNested | TransactionsServed |
| PluginLifecycle | OnwardUnlessFailed | EverythingCloses |
| PluginLifecycle | LuoguRefusesNothing | WorkOutlivesNothing |
| LuoguHost | MayArmUnasked | WorkOutlivesNothing |
| UiRequests | HeardAlways, PollAlways | ViewsFollow |
| CoachRequests | EarnedOnAny, GivenOnceReserved | AnswersFresh |
| CoachRequests | ReviveHint | PaidCallsSettled |
| PlanRequests | JoinPlan | PaidCallsSettled |
| AssessRequests | CancelledIsCostless, JobsGone | PaidCallsSettled |
| AssessRequests | ReportableOnceReserved | AnswersFresh |
| ModelOperations | OpenWhenAsked, GateAlwaysFree | OperationsKept |
| AuditedCalls | ClearedOnce | CallsAudited |
| MaterialHead | StaysAnyway, GoesWithCheck | MaterialKept |
| TagDecisions | AdoptionInstantAsRead | StoredAgrees |
| TagDecisions | NothingWithdrawn | EditsLand |
| Completions | ReadingAsRead, SolutionsKept | StoredAgrees |
| Completions | SameModes | EditsLand |
| PerformanceLedger | ClashOfAdded | StoredAgrees |
| PerformanceLedger | RowUnlessEmpty | EditsLand |
| OfficialRating | AnyAccount | EditsLand |
| TrainingPlans | UnmetOfUsedDays, BestOnly | StoredAgrees |
| TrainingPlans | EditableAlways | EditsLand |
| SubmissionPages | NoBoundary | StoredAgrees |
| CredentialBridge | AnswersWhenStopped | EditsLand |
| LuoguBacklog | MaySaveAnyRow, NothingRequeued | StoreKept |
| StoreOpening | LooksLikeAny, NeedsCopyFrom1, NeverTaken, AnyCopy | StoreKept |
| MergedBank | ScopedEvenTrashed, DisplayOfDirection, SolvedThroughLink | StoreKept |
| LearningEvidence | LastAcceptedDay | StoreKept |
| HttpTransport | HeldTo | RequestsPaced |

## What the models found

* `analysis_ownership`. prepareBatch decides ownership per snapshot so that two active batches
  never schedule one snapshot (`analysis-pipeline.ts:491`). A failed batch does not count as
  active, and resume or pause makes it active again without repeating the check: after b1
  failed and b2 was prepared for the same snapshot, both are active.
* `analysis_quota`. A quota stop must leave the job `paused_quota`; a pause must return the
  interrupted job to `pending` (`analysis-pipeline.ts:725`). `pauseForQuota` returns before it
  touches the job when the batch was paused first (by the user or by the other worker), so the
  job stays `running` under a live lease that nobody uses, and runs skip it until it lapses.

Met while modelling, where the code and its comments differ but no run of this project claims a fault:

* `renewLease` reads the clock before its transaction waits for the store, and decides and renews by
  that reading. Its comment (`luogu-sync-service.ts:2592-2594`) says an already expired lease is "never
  a silent renewal". With `RenewalWaits` the model renews one, and two accounts of a source may then be
  live at once; `OneLease` proves that they cannot without it. LuoguBacklog has the same reading
  (`sound`) and keeps its promise all the same, because the repair checks the owner again.
* `historyComplete` is declared "True only after a full history scan reached its end"
  (`luogu-sync-types.ts:286`). An incremental pass that resumes an unfinished scan completes it as well,
  and the model shows that nothing is missed by it (`HistoryCovered`).
* `settleState` says a pass without a failure "retried both halves" (`luogu-sync-service.ts:2920-2923`);
  a pass whose history half ended may settle without having retried the metadata that failed.
* `refreshProblemMetadata` says it "never requests a statement" (`import-service.ts:932-933`); the Luogu
  adapter's `fetchProblem` parses and returns one (`adapters/luogu/adapter.ts:708-710`). Nothing is lost
  by it (`MaterialKept`).
* A settlement of an assessment takes the later of the clock and its request as its end
  (`assessment-service.ts:965`); those of a plan and of a hint take the clock as it is
  (`planning-service.ts:1094`, `coaching-service.ts:892`), which their rows refuse when it is earlier than
  the request. A clock that steps back makes such a settlement fail; the reservation stays charged and the
  recovery of expired leases books it, as after a crash.
* "a moved clock alone cannot make it differ" (`workbench-service.ts:1767`), said of the ability aggregate:
  the count of submissions ahead of the clock and the recent window depend on it (`Aggregate`).
* An assessment cancelled between the commit of its reservation and the start of its dispatch is
  dispatched: the token did not exist yet. It is charged and settled like any other.
* A save of the settings that is past the gate may commit after close() began; the store waits for it.
* An HTTP request that is cancelled forgets the Retry-After it heard, so the next one may be sent earlier
  (the exception in `HttpPaced`).
* A copy that `openSchema` could not verify is left beside the file (`store.ts:3718`); only a backup on
  request removes what it cannot verify. A process that loses the race to migrate fails to open and
  succeeds when tried again. Neither harms the file or an older copy (`OpeningSafe`, `CopiesKept`).
* `setInterval` polls of 1500 ms on the review and coaching pages (`ui/Review.tsx:15`) refresh without
  looking whether the last read is pending; a server slower than that would be polled without ever
  being shown. The model has the poll of the Luogu pages, which looks (`PollDue`).

## Proofs

All proofs are checked by TLAPS to the last leaf and hold for any number of pipelines, batches,
jobs, items, references, accounts, submissions, pages, clients, requests and calls, under the named
assumptions on the constants (disjoint null values, budgets in `Nat`, positive bounds). No theorem assumes
fairness. Two have a hypothesis, given below: `OneCallAtATime` and `OneLease`.

*AnalysisPipelineProofs.* The inductive invariant `Shape` is TypeOK together with what ties the
memory of a run to its pool (`RunShape`: a run names its batch, a worker is busy only in phase
`pool`, a retry is registered only while one is left) and `AbsentIsBlank` (a row that does not
exist has counted nothing, so creating it loses no count). From it follow `TypeCorrect`, and with
`AccountingExact` as a further conjunct `BooksExact`: a reservation adds one row and one count
to one batch and one job, and no other step changes either. `StoppedSpendsNothing` is the
step property. `PipelineImplementsLedger` adds that every adopted result's job is succeeded
(otherwise a second adoption could not be excluded) and maps each action to a ledger step or a
stutter. `HistoryImmutable` needs `CallShape`: every call in flight has a row of its own that
is not settled yet, so a settlement never rewrites a settled one. The theorems also cover material without
a usable editorial and gateways that lack a role, which the runs do not instantiate.

*AnalysisResultsProofs* continues it. A step moves at most one worker (`StepMoves`), and rows that are
answered stay settled (`RowsPastStep`); so what a worker remembers can be said of the rows it paid for:

* `PaidAndAdoptedFresh` (FreshOnly) is a step property, from the comparison in the reservation and in the commit.
* `WorkIsPaid` (PaidWork): the invariant `Payments` says of every stage of a worker which settled rows it stands
  on (`WorkPaid`), that no two workers wait to retry the same failure (`RetryAlone`), and that a batch has
  counted no more retries than it has failures used up (`RetriesSpent`). Without `RetryAlone` two retries could
  be counted for one failed call.
* `AdoptionOnce` and `ResultsComplete` (AdoptedIffSucceeded, ResultsBacked): adoption and success are one
  transaction, and a batch completes by what its jobs are, not by what its run remembers.
* `OneCallAtATime` (OneCallInFlight) holds where no lease lapses under a call and while no two active batches
  schedule the same snapshot. The first is what the constructor requires (`leaseMs` exceeds `requestTimeoutMs`,
  `analysis-pipeline.ts:418`), short of a suspended process; the second is what prepareBatch promises and the
  run `analysis_ownership` refutes. The theorem says that there is no other way to two calls for one job.

*MaterialBatchProofs.* The inductive invariant is `TypeOK /\ OneAtATime`, where `OneAtATime` is
`InTurn` (only the run at the head of the chain does anything) and `Awaited` (a queued section
of a run finds that run waiting for it, and at most one such section is queued). It yields `BatchTypes`, `ReadsAreSerial` (with detached reads
included) and `CompletedItemsKept`.

It continues with what is stored. Lemmas say what a step does to a record
(`RecordFate`), to a run (`RunFate`), to the queue (`QueueShift`) and to the line of claims (`FifoFate`), so an
invariant is shown against a few kinds of change and not against every action.

* `RecordsStayValid` (RecordsValid): `Records` adds that a batch that was claimed has started, that a run
  which begins finds no item in flight, and that an item in flight is the one its run is at.
* `StoredTruth` (StatusTruthful): `Barrier` says where in the queue the drain and the detaching sections
  are, `Draining` that close() found every run and detaches those it leaves, `Backed` that a running batch has its
  run or its interruption in the queue. A store that refuses writes is excluded by the property itself.
* `RunsAreQuiet` (RunsQuiet): `Quiet` says that a section which can stop a run is served before the run looks
  for its next item, or the run already knows; hence what it reads can be recorded.

*LuoguConnectionProofs.* `Addressable` is not inductive: that Save may drop the old stale mark,
that an entry may be retired and that forget may delete the row rests on what the operation
has already done. `Inv` adds to it, stage by stage, what the operation knows: its copy of the
row is current (`ViewKnown`), the fresh reference is journaled and newer than all others and
the stale secret is gone before Save (`ConnectKnown`), nothing is left in the vault when
forget starts to forget (`ForgetKnown`). From `Inv` follow `ConnectionTypes`,
`SecretsAddressable`, and the step properties `SessionsSurvive` and `SavedIsBacked`. `CleanStores` adds
`Settled`: while nothing has failed, the journal and the stale mark hold exactly what the operation has still to remove.

*LuoguProofs.* One part of the run `luogu` after the other, and then the run of all of them.

* The history: `HistoryCovered` speaks of the last complete scan and can break only when a scan ends. `HistoryInv`
  says why it does not: everything before the bound of a scan is stored (`PastKnown`), the pages a checkpoint or a
  service has passed are stored or in its hands (`CheckpointCovers`, `PageCovers`), although submissions made meanwhile
  shift the pages, and the instant that becomes the watermark was taken before the first page was read
  (`HistoryTypes`, `HistoryIsCovered`).
* The gate and the transport (`GateIsPaced`, `TransportIsPaced`): every demand of an answer lies behind the floor or
  the deadline, and whoever waits or works was given an instant after both (`GateInv`); every debt of the
  transport lies behind its next slot or the backoff of the request that waits, or is of a request that was
  cancelled (`HttpInv`).
* The backlog (`BacklogIsKept`): while a service repairs an account it still holds, its copy of the queue has every
  key that is queued (`ActInOrder`), so what it writes back drops none.
* The file (`OpeningIsSafe`): `OpenerInOrder` says at each stage of a process what it can rely on whatever others did
  to the file since: the version it has read was one the file had, and whoever migrates has a whole copy beside it
  or nothing to lose. Two processes never look at one copy (`NamesDiffer`).
* The bank (`BankIsAsStored`): the order of a request ranks any two groups apart (`KeysAreRanked`, `BankIsOrdered`), so
  each has its place in one finite order; a page is a stretch of places, and the stretches leave none out (`PagesHoldAll`).
* The reports (`ReportsAreOfEvidence`, `OldStaysOld`): the counts are cardinalities of sets of problems, and the
  agreements are facts about these sets. What is above a node of the taxonomy is defined by recursion: a first lemma
  gives a definition without it (`AboveUnfolds`), from which a category is shown to see a problem through the nodes
  below it. That an ascending sequence exists, that its quantiles ascend and that finite sets have a
  highest rating are shown by least counterexamples, not by the induction theorems.
* The run: `EachLuoguPartRuns` shows that each part takes its own steps only, so `EveryLuoguPartIsTyped`,
  `EveryRequestIsPaced`, `LuoguStateIsSound`, `LuoguSessionsAreSound` and `WhatIsStoredIsKept` state all the
  properties of the run as it is checked.

*ClosingProofs.* Of the slot: the conjuncts of `SlotKept` are almost inductive. `Inv` adds the types, that only a
launched pass has a reconciliation queued behind it (otherwise a pass that ends before it was launched
could lose one), and that only an operation that will own a lease waits for a claim (otherwise a claim
could leave a lease that nobody releases). Lemmas say what the helpers return (`Taken`, `GivenBack`,
`FinishedPass`) and what kinds of step there are (`PublishStep`, `FinishStep`, `MoveStep`, `RowStep`,
`CountStep`); each action is one of those. From `Inv` follow `SlotTypes` and `SlotIsKept`, the latter with
two step lemmas for the launch and for the queued reconciliation. `OneLease` needs only the types: if no
renewal outlasts its lease, at most one account of a source has a live one, however many processes claim
(the hypothesis is `~RenewalWaits`). Of the plugin around it: `HostIsQuiet` and, with how far the
disposal has come (past its API the Luogu host gets no handler, past its controller the store gets no
operation), `PluginTypes` and `NothingOutlives`, for any failing step and any failing disposer. Of the store:
`Apart` says that an open transaction is the owner of the connection, that every uncommitted write is of an open
one, and that nothing a callback calls waits for the connection, the close of what it left behind apart
(`Outside`); `StoreTypes` and `TransactionsRunApart` follow. Of
a page: `NoneLate` says that the replaced request is heard no more and that the answer under way is as new as what
the page holds, hence `UiTypes` and `PagesMoveOn`. `EveryPart` takes the run `closing` apart, so
`EverythingThatClosesIsTyped`, `NothingOutlivesAnyPart` and `PartsKeepTheirPromises` state its safety properties as
they are checked, the bulk refresh included.

*ServicesProofs.* Of the audited client, `FlushesCover` says that every flush under way has its row in the log,
that only the first of them has handed it over, and that an unpoisoned log has lost nothing of what it
handed over; `AuditTypes` and `CallsAreAudited` follow. The planning, coaching and assessment services each
implement `PaidLedger` (`PlansImplementLedger`, `HintsImplementLedger`, `ReportsImplementLedger`):

| ledger | service |
|---|---|
| `charged` | the rows that were ever reserved |
| `paid` | how often the model was called for a row |
| `booked` | open until settled; the usage of a settled row; unknown for an uncertain one |
| `Charge` | the reservation, with the recovery of lapsed rows in the same transaction |
| `Pay`, `Book`, `Recover` | the dispatch, the settlement, the recovery of lapsed rows |

Every other step stutters. The invariants `PlanInv`, `HintInv` and `ReportInv` hold what the mapping needs: a call (or
a job) at work holds a row that is charged and not settled, no two hold the same row, and only what is charged
was paid. The assessments add that a desk that drains has no call and no job left, hence `ReportDeskClears`; the hints
that a charged level stands on earned ones, hence `HintsAreEarned`. That answers are stored fresh
(`PlansFresh`, `HintsFresh`, `ReportsFresh`) is a step property of each settlement. `EachServiceRuns` shows that
in the run of all the services each takes its own steps only, so `EveryPaidCallSettles`,
`EveryAnswerIsFresh` and `EveryCallIsAudited` state the properties of the run as it is checked.

*RecordsProofs.* The parts of what a user records, each alone and then in the run of all the services:

* The model operations (`OpsInv`): the request that holds the start gate is the only one under way, what it found
  owned has not grown since, and what is owned of a closed controller was owned when it closed (`OperationsAreKept`).
* The stored problem (`MaterialInv`): row and head agree, and a step that stores found material keeps
  every solution of its source (`MaterialIsKept`).
* Tags (`TagInv`): every review has its row and every row a review or an adopted run behind it, in the order of the
  logical time (`TagsAreGoverned`). The clock may be set back at will.
* Completions (`CompletionInv`): histories are in order, and a clock that repeats moves an instant by one for each
  record before it at most, so no instant passes its bound (`CompletionsLand`).
* Virtual results, the rating and the credential bridge (`EntriesAgree`, `RatingsMoveOn`, `NothingMovesBehind`): a
  screen that names the revision of the row shows it; what was fetched over the latest snapshot is not behind
  it; and a child at work is the one of the invocation whose caller waits.
* Training plans (`PlansAddUp`): while a draft is built its tasks and what is left of the pool are the candidates,
  the days that ended add up, and no task left out would fit into what is unmet. `Planned` is a sum over a
  fold; the lemmas say how it grows with one task.
* Pages of submissions (`ScansDeliver`): what a checkpoint or a caller's scan has passed and what is still listed is
  stored or on the page at hand, although the list shifts and other callers move the checkpoint.

`EverythingStoredAgrees`, `EveryEditLands`, `EveryServiceIsTyped`, `EveryOperationIsKept` and `EveryMaterialIsKept` state
the properties of the run `services` as it is checked.

Every invariant and every action property of the passing runs that involves no liveness is proved. Only
model-checked are:

* the liveness properties: `RunsSettle`, `RunningSettles`, `CloseReturns`, `ServiceCloses` and `StoreReleased`
  (`EverythingCloses`), `StoreAnswers` (half of `TransactionsServed`) and `PollsSettle` (half of `ViewsFollow`). TLAPS
  does not reason about fairness here;
* what the two runs that expect a violation refute, which is not true of the code.

## What is not modelled

`PROJECT.json` lists every component with its status. Left out entirely: the manual import (parsing
text), the parsers of pages, editorials and model outputs, guidance (texts chosen from data), the taxonomy (data), the
validation of API inputs, row codecs and the other queries of the store, and what the pages show. These are most of the repository's lines: they
compute a value from values, keep no state and wait for nobody, and a model of them would be a second
copy. Within the modelled components, left out are: the scan of a problem catalogue (a cursor like that of
the submissions, without a bound that moves), the Luogu profile, statistics and status views, event
views of model operations, prompts and projections, and wording, logging and diagnostics everywhere.

The network, the host, the vault and the clock are the environment of the models: they answer anything,
late or never, and a clock may repeat where the code reads it twice.

## What comes next

The request identities and replays of the model operations; the validation of stored rows; the scan of a
problem catalogue.

## How to run

```
tlc -workers 2 -config BatchRecords.cfg MCMaterialBatch.tla
tlc -workers 2 -config Luogu.cfg MCLuogu.tla
tlapm LuoguProofs.tla
```

The two violation runs (`AnalysisOwnership.cfg`, `AnalysisQuota.cfg`) end with a trace.
