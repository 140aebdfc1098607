# A formal model of BulkCitations

BulkCitations turns pasted or uploaded reference lists into structured, styled citations. A
Fastify server (`server/`) runs a 17-phase engine in its own process and in worker threads of it,
keeps jobs, reports, citation versions and truth rows in Postgres, and asks an ML service
(`ml-service/`) for extractions. There is no queue service and no worker process: asynchronous
work is promises on the event loop of an API process, and the rows of Postgres are all that
survives it. That is where the system is hard, and what these TLA+ modules are about: which
handler may overwrite which row, what a crash leaves behind, what two processes or threads may do
at once, and what the limits in front of it all are worth when requests overlap.

Every definition is a translation of the source; `PROJECT.json` names the lines of each under
`map`, and under `hazards` what is hard to test, at its line, with the properties about it.

    tlc -config RuntimeJobs_single.cfg MCRuntimeJobs.tla     # a model-checking run
    tlapm RuntimeJobs_proofs.tla                             # the proofs

## 1. The system

### 1.1 Components

Paths are relative to `server/src/` unless they start with `frontend/` or `ml-service/`.

| component | state | operations | what makes it correct |
|---|---|---|---|
| **Async job runtime** `jobs/runtime.ts` | `activeRuntimeJobIds`, snapshots with a TTL and their waiters; the row of `conversion_jobs` | queue, claim, process, complete, fail, resume at startup | one worker at a time per job, up to the staleness limit; a result once stored stays; a completed job has its result; every job ends |
| **Job routes** `routes/jobs.ts` | none of their own | poll a job, cancel it | a cancellation is final; an ended job is not touched |
| **Database store** `runtime/dbStore.ts` | all tables | `saveJob`, `updateJob`, `appendJobEvent`, `updateCitation`, `updateReport`, claims, ledgers, versions | read-modify-writes lose nothing that matters |
| **Citation edits** `routes/proEnrich.ts`, `admin/workflows.ts`, `routes/admin.ts` | citations in the job's blob and in a table of their own, their versions | apply and restore an overlay, approve a correction, reprocess | versions are consecutive; overlays start from the original; an answered edit is in the history; edits add up |
| **Reports and review** `routes/admin.ts`, `routes/feedback.ts` | report rows with `updatedAt` | file, comment, resolve, reject, patch, delete | two reviewers do not overwrite each other; what a reviewer was told stays |
| **Batch health** `admin/batchHealthSummary.ts` | `pendingRebuilds`; the summary rows | rebuild, enqueue one, staleness test, repair when viewed (enqueue, or rebuild at once when the row is missing) | a summary reflects the latest change; a rebuild does not disturb the job |
| **Truth jobs** `routes/admin-truth/backgroundJobStore.ts`, `routes/adminTruthRoutes.ts` | the rows of `truth_background_jobs` with lease and progress; `activeTruthBackgroundJobs` | create, claim, apply a page, store progress, end, prune, resume | no page is skipped; one worker within a lease; counts are exact; history is bounded |
| **Guardrails** `runtime/guardrails.ts`, `routes/convert.ts` | the usage ledger per identity and day, the trial counter, the jobs table | check quota, charge, check and use the trial, count active jobs | no identity exceeds its limits, or only by what overlaps |
| **ML gate** `ml/phase4Runtime.ts` | slots, queue, sleepers, timers | acquire, enqueue, drain, release, wait for capacity | slots and queue are exact; nobody waits beside a free slot |
| **Circuit breaker** `pipeline/circuitBreaker.ts` | state, failures, `probeInFlight`, `openedAt` | admit, record success, failure, no verdict | it cannot refuse for ever; one probe at a time |
| **Pipeline orchestrator** `pipeline/orchestrator.ts` and its worker | a pool of threads and whether it is busy, request numbers, the listeners on each thread, a batch cursor | prewarm, resize, post, await, run inline or in one-shot threads, terminate | every block is processed once; an answer reaches who asked; no thread is left over |
| **Engine phases** `engine/` | none | text to citations | deterministic string processing |
| **Job stream** `routes/sse.ts` | the number of the last event sent to a client | follow | no event is missed or sent twice |
| **Authentication** `middleware/auth.ts`, `auth/` | revocation maps with expiry | verify, revoke | a revoked token stays revoked |
| **Provider clients** `services/` | caches, per-IP limits | fetch with retry | bounded attempts |
| **Maintenance** `runtime/maintenance.ts` | none | drop old exports and expired jobs | running jobs are spared |
| **ML service** `ml-service/app` | the active model bundle | extract, classify, health | answers or fails in time |
| **Frontend** `frontend/` | the browser's history | calls the API | shows what the server has |
| training, benchmark, regression | files | offline tools | - |

### 1.2 How they interact

* A conversion request passes the guardrails (`POST /convert`), is stored as a pending row and
  scheduled with `queueMicrotask` in the process that answered it.
* The worker claims the row with one conditional `UPDATE`, runs the engine, and writes the row
  back several times: status, events, result, diagnostics. It starts a batch-health rebuild
  beside itself.
* The engine of the fast lane runs in worker threads when the input is large; conversions share
  one pool of them, or start threads of their own when it is taken.
* The engine calls the ML gate, which calls the ML service.
* `GET`, `DELETE`, exports, reviews and rebuilds read and write the same row concurrently. A request
  for the review queue that finds a job without a summary rebuilds it itself, beside the rebuild
  that `pendingRebuilds` admits once per job.
* Overlays, approvals and reprocessing edit the citations of a finished job, in the blob of the
  same row and in the citations table, and number their versions under an advisory lock. `saveJob`
  leaves the table of a large job for later; a version adds the row of its citation when it is missing.
* Reports change what the batch-health summary says; each change enqueues a rebuild, and a request
  for the review queue compares timestamps and enqueues one when the summary is behind.
* A starting process resumes, once, at most 25 conversion jobs and 25 truth jobs that look
  unclaimed.

### 1.3 What is hard

* **Read-modify-write without locks.** `updateJob`, `appendJobEvent`, `updateCitation` and
  `updateReport` are a `SELECT` and an `UPDATE` of a whole row or blob in one READ COMMITTED
  transaction. Whoever writes last wins, with what it read first.
* **Chains of store calls.** Resolving a report, or applying an overlay, is a chain of them; a failure
  may come between any two, and nothing undoes the first.
* **Time as the only mutual exclusion.** A claim is good for ten minutes by the clock of the
  claimant, is not renewed (conversion jobs) or renewed per page (truth jobs), and is not checked
  when its holder writes. Reports and summaries are compared by timestamps in milliseconds.
* **Crashes.** Only a start resumes anything. A rejection outside a `try` ends the Node process,
  and so does an uncaught error of a worker thread that nobody listens to.
* **Threads that end.** A thread may die before it is ready, while it computes, or idle in the
  pool; its `ready`, `message`, `error` and `exit` events meet listeners that come and go.
* **Check-then-act** in every guardrail.
* **Promise and timer orders** in the gate: a grant, a release and a timeout in one turn.

## 2. The modules

| module | models | state and actions |
|---|---|---|
| `RuntimeJobs` | job runtime, job routes, job part of the store, the row writes of the rebuilds | `status`, `startedAt`, `blob` are the columns of the row; `pc[s][j]` is where the worker of `j` on server `s` stands, "idle" iff `j` is not in `activeRuntimeJobIds`; `seen` is the copy a read-modify-write works on; `req`, `can`, `edit` are the other handlers, and `rebuild[s][j][v]` is the rebuild of `j` that was enqueued or that the admin request `v` runs. One action per stretch of code between two awaits: `QueueSave` ... `QueueAppendWrite`, `Claim`, `MarkRead/Write`, `NoteRead/Write`, `Convert`, `StoreRead`, `SaveCompleted`, `SaveHistory`, `PhaseRead/Write`, `Finish`, the catch block's `FailRead/Write`, `ErrorRead/Write`, `Cancel*`, `ViewSummary`, `Rebuild*`, `Edit*`, `Poll`, `ExpireSnapshot`, `Start`, `Crash`, and four kinds of database fault |
| `TimedLease` | what a time-limited claim promises, however it is stored | `Grant` only after expiry, `Release`, `Pass` |
| `TruthJobs` | the approved-truth background jobs | `row[j]` with lease and progress, the worker's page and its copy of the row, `applied` as the ghost of what was really done; `Create`, `Claim`, `ApplyPage`, `StoreRead/Write`, `Finish*`, `Fail*`, `Prune*`, `Start`, `Crash`, `Fault`, `Tick` |
| `MlRuntime` | the gate and the breaker | `active`, `waiters`, a `pc` per caller, `state`, `failures`, `probing`; `Extract` (admission and first pass), `Retry`, the two timers, `Refused`, `Return` with the release, the wake-ups and the grants that follow in the same turn, `Cool` |
| `ConvertAdmission` | the guardrails | the two ledgers, the counts of active jobs, a `pc` per request; `QuotaRead`, `Charge`, `Allow`, `UseTrial`, `Count`, `Queue`, `Fail`; the life of a job is reduced to ending, being cancelled and coming back (`Revive`), which is what `RuntimeJobs` shows a cancelled job may do |
| `CitationEdits` | edits of the citations of a finished job | `row` (the blob) and `proj` (the citations table), `versions` with the advisory `lock`, `pc` as the next store call of each edit, `seen`, `base`, `snap`, `got` as what its handler holds, `ensure` as what its version does about a missing row; `Start`, `FindBaseline`, `FindNoRow`, `ReadForRow`, `VersionLock`, `VersionInsert`, `ReadRow`, `UpdateCitation`, `WriteBlob` (writers of the blob alone), `DeferredProjection`, `Answer`, `Fail`. `InTurn` is the reference: the fields when the edits come one after the other |
| `ReportReview` | reports, their review, and whether the summary of the review queue is up to date | `rows` with status, events and `updatedAt` as `at`, `ready` and `citeAt` of the citation, `summary` with `lastSyncedAt`, `pending`, `rb` for the two kinds of rebuild, `pc` per request with what it read; `Arrive`, `Insert`, `Delete`, `UpdateRead/Write`, `CitationRead/Write`, `SaveTruth`, `Reload`, `EnqueueAndAnswer`, `Rebuild*`, `View`, `Fail`, `Crash`, `Tick` |
| `BlockSchedule` | batching and scheduling, as operators | `Bundles`, `Batches`, `LastOf`, `Lightest`, `Assignments`, against the reference definitions `Grouped` and `Balanced` |
| `WorkerPool` | the core stages of conversions, composed with `BlockSchedule` | `thread`, `ready`, `pool`, `busy`, `sent`, `tasks`, `listen`, a `pc` per conversion and for the warm-up; `StartInline`, `StartPooled` (with the resizing of `EnsurePool`), `StartOneShot`, `Post`, `Unready`, `InlineBatch`, `InlineThrow`, the threads' `Ready`, `Die`, `Result`, `Thrown`, `Errored`, `Exited`, then `Reaped` and `Crash` |
| `MC*` | - | values of the constants and symmetry for TLC |
| `InductionLemmas` | - | what the proofs by induction rest on: least numbers, induction along an interval and over the subsets of a finite set, folds as functions that exist |
| `*_proofs` | - | the theorems and their proofs |

Granularity is the same everywhere: Node runs one handler at a time between two awaits, so an
action is the code between two awaits, and a single SQL statement is atomic. A conditional
`UPDATE` is one action; a read-modify-write is two. In `WorkerPool` a handler that waits for
promises that are settled already goes on before the loop takes its next event (`Due`), and the
threads run beside the loop. Definitions marked "Mutant:" are variants of the code with a
plausible mistake; nothing uses them but the experiments that show each property can fail.

Abstractions: a job's blob keeps whether there is a result, an error, and the event log; times
are ticks; the engine is "returns or throws"; the ML service answers anything at any time. In
`RuntimeJobs`, "completed" stands for completed and partial: the code treats them alike. What an
admin request finds, a missing summary, one that is out of date, or one to leave alone, is left open
there (`ViewSummary`); `ReportReview` follows it. The
synchronous routes, which store a finished job after answering (`deferPersistence`), are not in
the model. In `MlRuntime` the health check, which can only refuse a call before it touches the
gate, is left out. `ConvertAdmission` counts jobs instead of naming them. In `CitationEdits` the upsert
of a row by a version takes effect when its transaction commits, since nobody sees it before, and
projections wait for it (`RowsFree`). The
fields of a citation are the set of edits that show in them, since what the properties tell apart
is which edits survive; `kind` and `target` are arbitrary and fixed. In `ReportReview` a status is
open or closed for the summary, and a summary is the set of open reports and the readiness of one
citation; one server process is modelled, because `pendingRebuilds` is a variable of the process
and production runs one. In `WorkerPool` an input is the sequence of the semantic groups of its
blocks, and a thread's work is named by the conversion and the part; abort signals are left out,
since no route of the server passes one, and so is the timeout, since the persistent lane has
none.

`BlockSchedule` uses the community modules' folds, so it is free of `RECURSIVE` and can be proved
about. The code sorts the batches and deals them out in that order; `Assignments` folds over the
set of batches, the last in that order (`LastOf`) being dealt out last, which is the same and
spares the proofs a sort.

## 3. The runs

### 3.1 Runs that pass

| run | instance | shows |
|---|---|---|
| `fleet` | 2 servers, 1 job and the rebuild of its worker, staleness 1, clock 4, 1 crash | `ClaimsSpaced`, and the row implements `TimedLease` (`ClaimIsLease`) |
| `single` | 1 server, 1 job, either with its rebuild, cancellation and export or with rebuilds of admin requests beside its own and an export, a crash and a fault at any await | `UnclaimedCancelHolds`; and, as long as no one cancels or exports, `OutcomeIsWhole`, `OutcomeSticks`, and `EventLogGrows` until the result is stored |
| `live` | 2 jobs and their rebuilds, one also with rebuilds of admin requests, a server that may crash, a client that polls, fairness | `PendingRecovers`; in the behaviours without a crash, `JobsSettle` and `ToldCompletedIsKept` |
| `truth_slow` | 2 servers, 1 job of 2 pages, workers as slow as they like, a crash and two faults, retention 0 | `PagesApplied` |
| `truth_prompt` | 2 servers, 2 jobs of 2 pages, steps that end within the lease, a crash, fairness | `OneWorker`, `CountsExact`, `EndsOnce`, `PruneSparesLive`; without the crash, `HistoryBounded` and `JobsEnd` |
| `ml_calls` | 5 callers, one in shadow mode, 2 slots, a queue of 1, threshold 2, 8 calls, fairness | `SlotsExact`, `QueueExact`, `NoIdleSlot`, `ProbeIsAlive`, `CallsEnd` |
| `adm_ledgers` | 2 requests of one identity beside an administrator, 2 days, failures at any query | `DailyBounded`, `TrialBounded` |
| `adm_jobs` | 2 organisations, 3 requests, 2 cancellations | `JobsBounded`, `GlobalBounded` |
| `edits` | 2 citations, 2 edits of any kind on any of them, a writer of the blob alone, a projection that comes late or not at all, a failure at any call | `VersionsNumbered`, `BaselineClean`, `ProjectionAgrees`, `HistoryKeeps`, `EditsCompose` |
| `reports` | 1 report, every pair of 6 kinds of request, both kinds of rebuild, 2 clock ticks, a failure or a crash, fairness | `ToldIsKept`, `DecisionsInTurn`, `SummaryExplained`, `SummarySettles` |
| `pool` | the warm-up and 2 conversions with 1, 2 or 3 parts, batches of 2, 6 threads, 1 part that throws or 1 thread that dies, fairness | `Converted`, `ScheduleSound`, `PoolHeld`, `NoThreadLeaks`, `OwnFailures`, `RequestsEnd` |

What a state of each module looks like (`TypeOK`) is proved, and not run.

Some properties name their hypothesis instead of having a run of their own: `Undisturbed(j)` (no
one has begun to cancel or export `j`), `Quiet` (nothing has crashed or thrown), `lost` and `met`
(an old row was put back; two edits of one citation were under way at once), `doubled` (a rebuild read the
row of a job while another was between its read and its write), `torn` (a writer of one of two
copies put back old citations), `clobbered` and
`tied` (two updates of one report overlapped, or fell into one millisecond), `Hidden` (below). The
behaviours that satisfy it are part of the run, beside those that do not. Where a hypothesis is
about an overlap, it is what a read-modify-write without a lock cannot exclude; the property says
that nothing else goes wrong.

`SummaryExplained` and `SummarySettles` have two exceptions, together `Hidden`: a change that
commits while a rebuild that has already read is under way (its enqueue is dropped, or another
rebuild saves later what it read before, and the summary's time is later than the change), and a
change without a later timestamp whose enqueue did not happen. Both are what the code does.

`Stuck` is the one exception of `RequestsEnd`: the pool keeps a thread that died, and a request
that posts to a thread that is gone waits for ever.

Deadlock is not checked: every instance may stop, when its jobs have ended and its bounds are
used up.

### 3.2 Where the code does something else than a document or a test says

`lostprocessing` is a run that TLC finds violated: jobs recover from Postgres (`JobsRecover`), but
a server back within ten minutes does not list the job it was processing, and nothing lists it
later. These have no run of their own; the hypotheses and bounds of the passing runs make room
for them:

| statement | what the code does |
|---|---|
| a cancelled job ends failed (`docs/api/error-and-response-contracts.md:61`) | `DELETE` (`routes/jobs.ts:62`) writes failed, its worker then writes processing and completed over it; the other way round, a cancellation that looked at the job before it completed turns the completed row into failed |
| a completed job has a result (`test/integration/runtimeRecovery.db.test.ts:48`) | `appendJobEvent` (`runtime/dbStore.ts:546`) of a cancellation can write back a blob from before the result |
| half open: one probe (`docs/engine/engine-overview.md:198`) | the late failure of an older call clears `probeInFlight` (`pipeline/circuitBreaker.ts:76`), and a second probe is let in |
| the overlays of one request are applied (`docs/api/endpoints.md:24`) | `routes/proEnrich.ts:256` applies them several at a time, and `updateCitation` (`runtime/dbStore.ts:690`) of one puts back the citations as they were before the other |

The same mechanisms have further consequences:

* Pending jobs beyond the `LIMIT` of 25 stay pending until another restart: `PendingRecovers` is
  stated for a server that lists all it may claim. A truth job that was running when its server
  crashed is not listed before its lease has ended, as in `lostprocessing`: `JobsEnd` is stated
  without crashes.
* A crash after the snapshot was published leaves a client that saw completed with a job that is
  processing: hence `Quiet`.
* After the result is stored, the rebuild can write back an event log from before a phase event of
  the worker; the event is gone and its id is given again: `EventLogGrows` ends there. The live
  stream, which sends events above the last id it sent, skips such an event.
* A request for the review queue that finds no summary rebuilds it past `pendingRebuilds`
  (`admin/batchHealthSummary.ts:432` and `:472`), beside the rebuild of the worker. Both write back the
  row as they read it. When a call after the save fails the job, the one can write back the blob
  from before the error, the worker's last append read that blob, the other write back failed, and
  the append then store the blob without the error: the job ends failed and says no reason.
  `OutcomeIsWhole` allows this after two rebuilds overlapped (`doubled`), and only with the result
  still there.
* While the projection of a large job is late, or has failed, which nobody is told and nothing
  repeats, the first version of a citation puts its row in the empty table
  (`runtime/dbStore.ts:1924`). `loadBatchCitations` (`admin/batchHealthSummary.ts:123`) then no longer
  falls back on the blob: until an edit or the projection fills the table, a rebuild sees that citation
  alone. `ProjectionAgrees` says that this ends, at the latest, when an edit shows. The version also can
  put a citation it read before over one that was projected since: that is `torn`.
* Overlapping requests are checked against the same usage: the bounds `DailyBounded`,
  `TrialBounded`, `JobsBounded` and `GlobalBounded` exceed the limits of the code by what
  overlaps, and the last two do not count jobs that a worker brought back from a cancellation
  (`revived`), of which there may be any number.
* A comment whose update overlaps a decision writes the report back as it was before it, and
  enqueues nothing; only the timestamp of the report tells the next request for the queue. A
  resolution that is answered 409 at its second update (`truth_saved`) has stored its decision
  already, and the summary is not enqueued. A deletion takes the timestamp with it: if its enqueue
  is lost, nothing shows that the summary is behind.
* The `truth_saved` note of a resolution (`routes/admin.ts:849`) is written also when
  `persistApprovedTruth` returned without saving.
* When a thread of the pool dies while nobody listens to it (idle between two conversions), its
  error ends the server process. When it dies under a conversion, the conversion fails, and the
  thread stays in the pool: the next conversion of the same size posts to it and waits for ever,
  the pool stays busy, and the conversions after it start threads of their own. A slot whose ready
  promise was rejected fails every later conversion of that size. A conversion of another size
  replaces the pool and ends all this.
* The warm-up does not take the pool: a conversion of another size terminates the threads under
  it. `PoolHeld` says that it never works the other way round.

### 3.3 Why the bounds are enough

* Two servers: claims and leases are pairwise relations, and a third server adds no new kind of
  overlap; the theorems on claims hold for any number.
* A staleness or lease of one tick with clocks up to three to five: enough for a claim, its
  expiry, a second claim beside the first, and the first one's late writes.
* `MaxEvents` 4: queued, processing, complete and one phase event, so that the rebuild meets a
  worker that still appends. Runs whose properties are not about events use 0 or 3 and skip the
  phase events, which change nothing else; the rebuild runs in all of them.
* One crash, and one or two faults: each may fall between any two steps. Two faults let
  the catch block of a truth job fail too.
* One job in `single` (`MaxJobs` of those in `Job`, which differ in what requests may do to them): on
  one server jobs share the process, and what another job can do to this
  one is end the process, which `Crash` does. `live` and `truth_prompt` have two.
* One admin request at a time rebuilds a job beside the rebuild that was enqueued (`View`): two
  rebuilds overlap in every way two can. The job whose client cancels it has only the enqueued one, which
  keeps the states in reach. The theorems hold for any number of requests and of jobs they look at. In
  `fleet` admins look at no job: a rebuild never writes `startedAt`, on which its properties rest.
* Retention 1 with two truth jobs: both prune at once, and one job must go. The code keeps 24. With
  retention 0, which the prune has a branch for, a single job is pruned while a second worker still
  has it, as it would be once 24 younger jobs have ended.
* `ml_calls` has one caller more than slots, queue and one sleeper together need, and more than
  twice the threshold, so that old answers arrive in every state of the breaker.
* `MaxCalls` bounds the calls in `MlRuntime`. For `CallsEnd` it matters: with an endless supply
  of new calls a primary caller that retries could be overtaken for ever, since
  `waitForCapacity` gives no place in the queue; the run shows that finitely many calls end.
* Two requests are the smallest overlap, a third makes the ceiling of the organisations give way
  to two of them; `DailyBounded`, `TrialBounded` and `JobsBounded` are proved for any number.
* `edits` takes every kind of edit on every citation for both edits, so that they meet on one
  citation or only in the row; a third writer of the blob alone makes the two copies part. The
  safety properties are proved for any number.
* `reports` starts from one report that exists or is about to be posted. `MCReportReview` takes a
  pair of requests once, not in both orders, and six kinds: `post`, `delete`, `reopen`, `comment`,
  `reject` and `fields`, the longest resolution; the shorter resolutions are parts of it, and
  `close` is `reopen` the other way round. It lets the summary be missing at first beside the
  short requests only, since the request for the queue then makes the state space several times as
  large, and takes the citation to be ready at first, which is symmetric. Two ticks of the clock
  are the past, the present, and later.
* `pool` has one conversion that is empty or needs no thread, the pool of two or the pool of three,
  beside one that needs the pool of three, and the warm-up. Six threads are the first pool and either its
  successor or the threads of a second conversion. Its inputs have a group larger than a batch.
  `ScheduleSound` evaluates the operators of `BlockSchedule` on `Sample`, here all 1093 inputs of
  at most six blocks of three groups, which include runs that fit a batch exactly, by one more,
  and groups that come again. It is proved for any sample.

### 3.4 Fairness

`FairSpec` assumes weak fairness of what the runtime owes: the event loop runs every ready
continuation (`WorkerStep`, `RequestStep`, `RebuildStep`, `CallStep`, `Run`), worker threads
compute and their events are taken (`Run`), timers fire, the platform restarts a process that
ended (`Start`; `docs/operations/deployment-and-config.md` runs the server on Render, which does),
time passes (`Tick`), and `MLClient` bounds each request to the ML service with a timeout, so that
`Return` happens. In `ReportReview` administrators keep asking for the queue (`View`): that the
summary is repaired then is what the code promises. Clients, cancellations, exports, crashes,
faults, threads that die and parts that throw owe nothing.

## 4. The proofs

TLAPS checks the following for every value of the constants: any number of servers, jobs,
callers, requests, citations, reports and threads, any bound. The only assumptions are those the
modules state about their constants: `ConstantsAssumption` of the first four (finite sets, natural
numbers), `RequestAssumption` (edits, `None` and notes are different things, and `None` is no set of edits),
`BoundsAssumption` (natural numbers), and for the pool `PoolAssumption` and `SizesAssumption`
(finitely many conversions, at least as many threads as one conversion may have, inputs that are
sequences of group keys). TLC evaluates them on every run. The theorems about one server have
`OneServer` as their hypothesis (there is one, with any number of jobs, crashes and restarts):
with two, the second can write back what it read before the first was done, and then
`OutcomeIsWhole`, `OutcomeSticks` and `EventLogGrows` are false, as TLC finds when
`RuntimeJobs_single.cfg` is given a second server.

| theorem | states |
|---|---|
| `RuntimeJobs_proofs!TypeCorrect` | `TypeOK` |
| `RuntimeJobs_proofs!ClaimsAreSpaced` | `ClaimsSpaced` |
| `RuntimeJobs_proofs!UnclaimedCancelIsFinal` | `UnclaimedCancelHolds` |
| `RuntimeJobs_proofs!ClaimImplementsLease` | `ClaimIsLease`: the row implements `TimedLease` |
| `RuntimeJobs_proofs!OutcomesAreWhole`, `OutcomesStick`, `LogsGrow`, `ToldIsTrue` | `OutcomeIsWhole`, `OutcomeSticks`, `EventLogGrows`, `ToldCompletedIsKept`, on one server |
| `TruthJobs_proofs!TypeCorrect`, `NoPageIsSkipped`, `LeaseExcludes` | `TypeOK`, `PagesApplied`, `OneWorker` |
| `TruthJobs_proofs!HistoryIsBounded` | `HistoryBounded` |
| `TruthJobs_proofs!CountsAreExact`, `JobsEndOnce`, `LiveAreSpared` | `CountsExact`, `EndsOnce`, `PruneSparesLive`, if steps are prompt and nothing throws |
| `MlRuntime_proofs!TypeCorrect`, `SlotsAreExact`, `QueueIsExact`, `NoWakeUpIsLost`, `HalfOpenHasAProbe`, `ClosedMeansBelow` | `TypeOK`, `SlotsExact`, `QueueExact`, `NoIdleSlot`, `ProbeIsAlive`, `ClosedIsBelow` |
| `ConvertAdmission_proofs!TypeCorrect`, `QuotaIsBounded`, `TrialIsBounded`, `JobsAreBounded`, `CeilingIsBounded` | `TypeOK`, `DailyBounded`, `TrialBounded`, `JobsBounded`, `GlobalBounded` |
| `CitationEdits_proofs!Safe`, `Sticks`, `CleanBaselines`, `Projected`, `HistoryKept`, `EditsAddUp` | `TypeOK` and `VersionsNumbered`, `BaselineSticks`, `BaselineClean`, `ProjectionAgrees`, `HistoryKeeps`, `EditsCompose` |
| `ReportReview_proofs!TypeCorrect`, `WhatWasToldIsKept`, `DecisionsAreInTurn`, `SummaryIsExplained` | `TypeOK`, `ToldIsKept`, `DecisionsInTurn`, `SummaryExplained` |
| `WorkerPool_proofs!TypeCorrect`, `PoolIsHeld`, `NoThreadIsLeaked`, `AnswersAreItsOwn`, `FailuresAreOwn`, `ConvertedOnce` | `TypeOK`, `PoolHeld`, `NoThreadLeaks`, `AnswersAreOwn`, `OwnFailures`, `Converted` |
| `WorkerPool_proofs!NobodyWaits` | a conversion under way can go on by itself or is owed an event, or is `Stuck` |
| `WorkerPool_proofs!BatchesAreGrouped`, `AssignmentsAreBalanced`, `SchedulesAreSound` | `Grouped` and `Balanced` of every input, so `ScheduleSound` |

Each follows from an inductive invariant of its module, with one lemma per action or group of
actions and a last temporal step.

* **RuntimeJobs.** `ClaimsSpaced` alone is not inductive: the claiming `UPDATE` looks at the row,
  not at other workers. `IInv` ties the two together: a worker that holds a claim holds the one in
  `startedAt` or an older one (`WorkersHoldClaims`), and a row with a `startedAt` is neither absent
  nor pending again (`ClaimedRows`). The second is threatened by every handler that writes back a
  status it read earlier; it holds because exports and rebuilds start from a row with a result
  and every copy of a result is younger than a claim (`ResultsAreClaimed`). `CancelHolds` says
  what the handler of a cancellation may find in a row that was never claimed.
* **RuntimeJobs on one server.** The outcome of a job is threatened by its own worker, which
  rewrites the row six times from a copy it read before, and by the rebuilds, the one the worker
  leaves behind and any number of those that requests run, which do the same. `OneInv` says of each undisturbed job: the row agrees with itself
  (`Whole`); where the worker stands tells the status (`Working`); its copy is the row's blob until
  a result is stored, and from then on both hold the result, which is all that a late write can
  be trusted with (`Copying`); a rebuild updates the row only beside a stored result, and what it will
  write back is whole; unless another overlapped it, a failure it has read still has its error
  in the row and in the worker's copy (`Rebuilt`); and a worker does not exist before the job is queued
  (`Queueing`). `Calm` adds what holds while nothing crashes or throws, for the snapshot that says
  completed before the row does. Most steps of the rebuilds copy nothing and fall under one lemma
  (`Aside`). The two action properties follow from the same steps (`Kept`).
* **TimedLease.** The refinement takes a job's holders to be the servers whose worker is between
  the claim and the end of its handler, and the expiry to be `startedAt + ASYNC_JOB_STALE_MS`.
  `Claim` maps to `Grant`, `Finish`, `ErrorWrite` and a process's end to `Release`, `Tick` to
  `Pass`, everything else to a stutter.
* **TruthJobs.** `PagesApplied` holds although workers overlap and overwrite each other, because
  no copy of a row counts a page that was not applied when it was read, and a worker's own page
  is behind what is applied (`WorkersBehind`). `OneWorker` needs that a working worker's lease is
  in the row and not older than its last write (`LeaseHeld`). The counts need more: that a
  worker's pageIndex is the row's `completedPages`, and the copy it is about to write back still has
  the row's counts (`InStep`), which is what the exclusion of the others gives. The same invariant
  says that a job in work is running and that what a prune is about to delete has ended.
  `HistoryBounded` is about the last of the prunes that overlap: while more jobs than the
  retention have ended, some worker has yet to choose what it deletes, or has chosen, and what it
  leaves is no more than the retention (`HistoryInv`). That every prune keeps no more than
  the retention needs `createdAt` to be a total order of the jobs (`Ranked`), also in the copies
  that are written back, and an argument about cardinalities by the greatest element.
* **MlRuntime.** `SlotInv` says that slots equal calls in progress, that the queue holds waiting
  callers only, each once, and that nobody waits or sleeps beside room; `BreakerInv` that the probe
  in flight belongs to a call that has not ended. The length of the queue is the number of waiting
  calls because its positions and those calls are in bijection; `QueueBelow`, which bounds it,
  needs that a drain only shortens it.
* **ConvertAdmission.** The overdraft is bounded by counting: a charge that passed the check and
  is not yet made belongs to a request in flight (`Fits`), and the ledger is at most the limit
  plus those (`QuotaInv`, `TrialInv`, `JobsInv`), by induction over the finite set of requests
  through its cardinality. For the ceiling, `CeilingInv` counts the jobs of all organisations as a
  set of pairs, together with the requests that found a place and have not stored their job.
* **CitationEdits.** The number of a version is right because who holds the advisory lock knows
  the length of the history (`Numbering`). An original holds no overlay because no fields that
  show one, in the row, in a copy of it or in the hands of a handler, exist before the citation has
  an original (`AllCovered`, `Baselined`); every read-modify-write that puts back an old row keeps
  that. `Recorded` follows an edit from its fields into the history. For `EditsCompose`, whose
  reference is a fold over the answered edits, `Composed` says what a citation holds when no edit
  of it is under way, and how far between the state before and the state after the one that is
  (`Between`); that one more edit is one more step of the fold is a lemma about its trace. For the projection, a
  row that a version adds is the blob's unless it is torn, and only while no edit shows can the table
  have some rows and not others (`Early`).
* **ReportReview.** For what a reviewer was told: an update is in the events of its report until
  something overlaps it (`Kept`), times never come from the future (`Timed`), and equal timestamps
  mean events the reviewer saw (`Seen`). For the summary `SInv`: a rebuild has read what is there
  unless a change raced it (`Fresh`), what the summary lacks either shows in a later timestamp
  (`Dated`) or has a rebuild or a request that will enqueue one (`Owed`), and a pending rebuild runs
  (`Queued`). `Latest`, the maximum of finitely many times, is bounded by well-founded induction.
* **BlockSchedule.** Each fold is given as a trace, the function from every step to its result,
  which `InductionLemmas` shows to exist; then the steps are followed. For the batches a trace is
  described by spans: bundles, and batches, divide the positions into intervals that end where a
  group ends (`Divides`, `Groups`, `Packed`). Greedy dealing keeps the load of every worker within
  the smallest of its batches of every other's, because no batch is larger than those before it
  (`Dealt`, `DealStep`); no worker goes without since, as long as one is empty, all others
  have at most one batch, and there are no fewer batches than workers (`NoneEmpty`).
  `ConvertedOnce` joins this to the pool: each block is in one batch, each batch in one part, and
  each part's answer is its own.
* **WorkerPool.** `PInv` has ten parts. An answer is the listener's own because request numbers
  tell tasks apart (`Numbered`, `Matched`) and because threads outside the pool, whose tasks have
  no number, belong to one conversion (`OwnTasks`, `OwnApart`). The pool stays whole because its
  threads are ended by nobody but themselves (`PoolSound`), because everything that listens is a
  conversion that waits (`Listens`) and because the warm-up never works (`WarmAt`); a failed
  thread died (`FailedDied`), which is what `OwnFailures` leads every failed conversion back to.
  `NobodyWaits` is the part of `RequestsEnd` that is safety: a conversion under way has a settled
  promise, a batch or a task that is computed for it, or a thread with an end that it will be told
  of (`Coming`, which names what the guards of `Run` ask for), unless it is `Stuck`. Its invariant `QInv` says
  that a conversion listens for every part it lacks and lacks one (`Lacks`), that a listener on a
  living thread has a task there and one on a thread of one request hears of its end (`Heeded`),
  that the threads a conversion waits to see gone are nobody else's (`KeptApart`), what a thread's
  life says of its promise (`Lives`), and that the loops of the server's own thread skip no batch
  (`Begun`).

**Only model-checked**: liveness (`PendingRecovers`, `JobsSettle`, `JobsEnd`, `CallsEnd`,
`SummarySettles`, `RequestsEnd`), which is beyond the prover, with the fairness it needs
(`NobodyWaits` rules out, for every value of the constants, that a conversion stops because nothing
is left to happen for it; that something then does happen, and often enough, is TLC's). Every
invariant and every action property of the passing runs is proved.

Induction over data has no rule the prover can apply: the induction theorems of its library take
the hypothesis as an operator. `InductionLemmas` states induction with sets instead (a set
of numbers with 0 in it and closed under successor up to `n` holds all numbers up to `n`), proved
from the well-foundedness of `<`, and a proof names the set of those for which its claim holds.

## 5. What could come next

* What liveness rests on, as far as it is safety, for jobs and calls as `NobodyWaits` does it for
  conversions: that what has not ended has a step the fairness owes it.
* The job stream as a reader of the event log, which would turn the hazard at `routes/sse.ts:39`
  into a run.
* A start of `TruthJobs` with the lease of a dead worker still running, as `JobsRecover` does for
  conversion jobs.
* The rate limiters of `services/` with their fallback to memory.

## 6. Not modelled

Most of the code by its number of lines is not modelled, and would not be by more modules of this
kind:

* **Engine phases** (`engine/`, half of the server): patterns, scores and rendering that turn
  the text of one reference into a citation, without state between calls. Their data is text; a
  model of it would be a copy.
* **Frontend**: a client of the API. The models let it send every request the routes accept.
* **Job stream**: reads the event log and writes nothing; what it may see is what `EventLogGrows`
  and section 3.2 say of the log.
* **Authentication**: each request verifies its token with an external provider or looks a key up,
  by itself.
* **Provider clients**: a bounded retry around one request, and caches whose content decides
  everything.
* **Maintenance**: deletes what is days old, when no handler modelled here is at work on it.
* **Training, learning queues, benchmark and regression**: scripts over files, and reports for
  administrators.
* **Schema, file-backed store**: declarations, and a backend that production does not use.
* **ML service**: an environment that answers anything at any time.
* **Scripts, data sets, deployment**: no behaviour of the running system.

`PROJECT.json` lists every component with its sources, and says of those that are modelled in part
what is left out.
