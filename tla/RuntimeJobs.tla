---------------------------- MODULE RuntimeJobs ----------------------------
(***************************************************************************)
(* The life of an asynchronous conversion job: the row that POST /convert  *)
(* writes to Postgres, the in-process worker that claims and processes it, *)
(* the DELETE handler that cancels it, the batch-health rebuild that the   *)
(* worker leaves behind and those that admin requests run, the handlers    *)
(* that edit a finished row (export delivery) and the in-memory snapshot   *)
(* that answers GET while the row is being written.                        *)
(*                                                                         *)
(* Source: server/src/jobs/runtime.ts, server/src/runtime/dbStore.ts,      *)
(* server/src/routes/jobs.ts and server/src/admin/batchHealthSummary.ts.   *)
(*                                                                         *)
(* Granularity.  Between two awaits Node runs one handler alone, so a      *)
(* handler is a sequence of steps cut where it awaits Postgres.  updateJob *)
(* and appendJobEvent SELECT the row and later UPDATE it in one READ       *)
(* COMMITTED transaction with no row lock: two steps, with a private copy  *)
(* in between.  claimAsyncJobForProcessing is one conditional UPDATE: one  *)
(* step.                                                                   *)
(*                                                                         *)
(* Data.  A row is its status, its startedAt column and its summary blob;  *)
(* of the blob we keep whether it holds a result, its error and its event  *)
(* log.  "completed" stands for both completed and partial.                *)
(***************************************************************************)
EXTENDS Integers, Sequences, FiniteSets, SequencesExt

CONSTANTS
  Job,          \* the jobs clients submit
  Server,       \* the server processes that share the database
  StaleAfter,   \* ASYNC_JOB_STALE_MS, in clock ticks
  ResumeLimit,  \* the LIMIT of the query a starting server runs
  Cancellable,  \* the jobs a client may DELETE
  Editable,     \* the jobs a client may export once they have a result
  Watched,      \* the jobs whose client polls for the outcome
  Viewed,       \* the jobs that admin requests look at in the review queue
  View,         \* the admin requests of a server that may be rebuilding the
                \* summary of one job themselves, at the same time
  MaxJobs,      \* bound on the jobs submitted, of those in Job
  MaxClock,     \* bound on the clock
  MaxEvents,    \* bound on the event log a worker extends
  MaxCrashes,   \* bound on the crashes and deploys of server processes
  MaxFaults     \* bound on the database calls that throw

ASSUME ConstantsAssumption ==
  /\ IsFiniteSet(Job)
  /\ StaleAfter \in Nat /\ ResumeLimit \in Nat
  /\ Cancellable \subseteq Job /\ Editable \subseteq Job /\ Watched \subseteq Job
  /\ Viewed \subseteq Job /\ "enqueued" \notin View
  /\ MaxJobs \in Nat /\ MaxClock \in Nat /\ MaxEvents \in Nat
  /\ MaxCrashes \in Nat /\ MaxFaults \in Nat

VARIABLES
  status,     \* status[j]: the status column, "absent" before the INSERT
  startedAt,  \* startedAt[j]: the startedAt column, 0 for NULL
  createdAt,  \* createdAt[j]: the createdAt column, as a rank, 0 before the INSERT
  blob,       \* blob[j]: the summary column
  pc,         \* pc[s][j]: where the worker of j on s stands; not "idle" iff
              \*           j is in activeRuntimeJobIds of s
  seen,       \* seen[s][j]: the blob that worker read last
  claimedAt,  \* claimedAt[s][j]: when that worker claimed j
  snapshot,   \* snapshot[s]: the jobs with a completed snapshot in s's memory
  req,        \* req[j]: the handler that queues j
  can,        \* can[j]: the handler that cancels j
  edit,       \* edit[j]: a handler that edits j's finished row
  rebuild,    \* rebuild[s][j][v]: the batch-health rebuild of j on s that was
              \*                   enqueued, or that request v runs; of the
              \*                   first, not "none" iff j is in pendingRebuilds
  doubled,    \* history variable: the jobs of which a rebuild has read the row
              \*                   while another was between its read and write
  told,       \* told[j]: the first terminal status a client was told
  up,         \* the server processes that run
  clock, crashes, faults

row == <<status, startedAt, createdAt, blob>>
worker == <<pc, seen, claimedAt>>
rebuilds == <<rebuild, doubled>>
handlers == <<req, can, edit, rebuilds>>
world == <<up, clock, crashes, faults>>
vars == <<row, worker, snapshot, handlers, told, world>>

-----------------------------------------------------------------------------
Status == {"absent", "pending", "processing", "completed", "failed"}
Terminal == {"completed", "failed"}
Error == {"none", "phase", "cancelled"}
Event == {"queued", "processing", "complete", "phase_complete", "error", "cancelled"}
Blob == [result : BOOLEAN, error : Error, events : Seq(Event)]
NoBlob == [result |-> FALSE, error |-> "none", events |-> <<>>]

\* The worker's program.  Each pair x-ing is the UPDATE of the SELECT at x.
BeforeTry == {"queued", "mark", "marking", "note", "noting"}
InTry     == {"run", "store", "save", "history", "phase", "phasing"}
InCatch   == {"fail", "failing", "error", "erring"}
PC == {"idle"} \cup BeforeTry \cup InTry \cup InCatch
\* The worker holds a claim from the claiming UPDATE to the end of the handler.
Holding == PC \ {"idle", "queued"}

Handler == [at : {"new", "update", "updating", "append", "appending", "done", "lost"},
            on : Server \cup {"none"}, blob : Blob, status : Status]

\* Who runs a rebuild: the server, from pendingRebuilds, or a request.
Enqueued == "enqueued"
Source == View \cup {Enqueued}
Rebuild == [at : {"none", "check", "update", "updating", "saving"},
            blob : Blob, status : Status]

TypeOK ==
  /\ status \in [Job -> Status]
  /\ startedAt \in [Job -> Nat]
  /\ createdAt \in [Job -> Nat]
  /\ blob \in [Job -> Blob]
  /\ pc \in [Server -> [Job -> PC]]
  /\ seen \in [Server -> [Job -> Blob]]
  /\ claimedAt \in [Server -> [Job -> Nat]]
  /\ snapshot \in [Server -> SUBSET Job]
  /\ req \in [Job -> Handler] /\ can \in [Job -> Handler] /\ edit \in [Job -> Handler]
  /\ rebuild \in [Server -> [Job -> [Source -> Rebuild]]]
  /\ doubled \in SUBSET Job
  /\ told \in [Job -> Terminal \cup {"nothing"}]
  /\ up \in SUBSET Server
  /\ clock \in Nat \ {0} /\ crashes \in Nat /\ faults \in Nat

Opened(at, s, b, st) == [at |-> at, on |-> s, blob |-> b, status |-> st]
At(h, at, b) == [h EXCEPT !.at = at, !.blob = b]
NewHandler == Opened("new", "none", NoBlob, "absent")
Rebuilding(at, b, st) == [at |-> at, blob |-> b, status |-> st]
\* A rebuild that holds no copy of the row, and where there is none.
Copyless(at) == Rebuilding(at, NoBlob, "absent")
NoRebuilds == [v \in Source |-> Copyless("none")]

Init ==
  /\ status = [j \in Job |-> "absent"]
  /\ startedAt = [j \in Job |-> 0]
  /\ createdAt = [j \in Job |-> 0]
  /\ blob = [j \in Job |-> NoBlob]
  /\ pc = [s \in Server |-> [j \in Job |-> "idle"]]
  /\ seen = [s \in Server |-> [j \in Job |-> NoBlob]]
  /\ claimedAt = [s \in Server |-> [j \in Job |-> 0]]
  /\ snapshot = [s \in Server |-> {}]
  /\ req = [j \in Job |-> NewHandler]
  /\ can = [j \in Job |-> NewHandler]
  /\ edit = [j \in Job |-> NewHandler]
  /\ rebuild = [s \in Server |-> [j \in Job |-> NoRebuilds]]
  /\ doubled = {}
  /\ told = [j \in Job |-> "nothing"]
  /\ up = {}
  /\ clock = 1 /\ crashes = 0 /\ faults = 0

-----------------------------------------------------------------------------
\* Helpers of the store.

\* events.push({ id: events.length + 1, ...event }) on a private copy.
Pushed(b, event) == [b EXCEPT !.events = Append(@, event)]
WithError(b, error) == [b EXCEPT !.error = error]

\* Mutant: the WHERE clause forgets how old the claim is.
ClaimableUnaged(j) == status[j] \in {"pending", "processing"}

\* Mutant: the WHERE clause compares with <= instead of <.
ClaimableAtExpiry(j) ==
  \/ status[j] = "pending"
  \/ /\ status[j] = "processing"
     /\ startedAt[j] = 0 \/ startedAt[j] <= clock - StaleAfter

\* Mutant: failed jobs are tried again.
ClaimableFailed(j) ==
  \/ status[j] \in {"pending", "failed"}
  \/ /\ status[j] = "processing"
     /\ startedAt[j] = 0 \/ startedAt[j] < clock - StaleAfter

\* The WHERE clause of the claim and of the list a starting server reads.
Claimable(j) ==
  \/ status[j] = "pending"
  \/ /\ status[j] = "processing"
     /\ startedAt[j] = 0 \/ startedAt[j] < clock - StaleAfter

Goto(s, j, from, to) ==
  /\ pc[s][j] = from
  /\ pc' = [pc EXCEPT ![s][j] = to]

\* The SELECT of a read-modify-write, by the worker of j on s.
Select(s, j) ==
  /\ seen' = [seen EXCEPT ![s][j] = blob[j]]
  /\ UNCHANGED <<row, claimedAt, snapshot, handlers, told, world>>

\* Its UPDATE: the whole row (updateJob) or the blob alone (appendJobEvent).
\* Neither writes startedAt: jobToRow leaves the column out.
Update(s, j, newStatus, newBlob) ==
  /\ status' = [status EXCEPT ![j] = newStatus]
  /\ blob' = [blob EXCEPT ![j] = newBlob]
  /\ seen' = [seen EXCEPT ![s][j] = NoBlob]
  /\ UNCHANGED <<startedAt, createdAt, snapshot, handlers, told, world>>

\* The worker leaves activeRuntimeJobIds; its claim time is forgotten.
Leave(s, j, from) ==
  /\ Goto(s, j, from, "idle")
  /\ claimedAt' = [claimedAt EXCEPT ![s][j] = 0]

-----------------------------------------------------------------------------
\* queueRuntimeJob: saveJob(pending), append "queued", schedule the worker.

Submitted == {k \in Job : status[k] # "absent"}

QueueSave(j, s) ==
  /\ s \in up /\ req[j].at = "new" /\ Cardinality(Submitted) < MaxJobs
  /\ status' = [status EXCEPT ![j] = "pending"]
  /\ createdAt' = [createdAt EXCEPT ![j] = 1 + Cardinality(Submitted)]
  /\ req' = [req EXCEPT ![j] = Opened("append", s, NoBlob, "absent")]
  /\ UNCHANGED <<startedAt, blob, worker, snapshot, can, edit, rebuilds, told, world>>

QueueAppendRead(j) ==
  /\ req[j].at = "append"
  /\ req' = [req EXCEPT ![j] = At(@, "appending", blob[j])]
  /\ UNCHANGED <<row, worker, snapshot, can, edit, rebuilds, told, world>>

\* Mutant: the worker is not scheduled.
QueueAppendWriteUnscheduled(j) ==
  /\ req[j].at = "appending"
  /\ blob' = [blob EXCEPT ![j] = Pushed(req[j].blob, "queued")]
  /\ req' = [req EXCEPT ![j] = At(@, "done", NoBlob)]
  /\ UNCHANGED <<status, startedAt, createdAt, worker, snapshot, can, edit, rebuilds, told, world>>

\* The commit of the append, and scheduleRuntimeJobProcessing after it.
QueueAppendWrite(j) ==
  LET s == req[j].on IN
  /\ req[j].at = "appending"
  /\ blob' = [blob EXCEPT ![j] = Pushed(req[j].blob, "queued")]
  /\ req' = [req EXCEPT ![j] = At(@, "done", NoBlob)]
  /\ pc' = IF pc[s][j] = "idle" THEN [pc EXCEPT ![s][j] = "queued"] ELSE pc
  /\ UNCHANGED <<status, startedAt, createdAt, seen, claimedAt, snapshot, can, edit, rebuilds, told, world>>

-----------------------------------------------------------------------------
\* processRuntimeJob.

Claim(s, j) ==
  /\ Claimable(j)
  /\ Goto(s, j, "queued", "mark")
  /\ status' = [status EXCEPT ![j] = "processing"]
  /\ startedAt' = [startedAt EXCEPT ![j] = clock]
  /\ claimedAt' = [claimedAt EXCEPT ![s][j] = clock]
  /\ UNCHANGED <<createdAt, blob, seen, snapshot, handlers, told, world>>

ClaimRefused(s, j) ==
  /\ ~Claimable(j)
  /\ Goto(s, j, "queued", "idle")
  /\ UNCHANGED <<row, seen, claimedAt, snapshot, handlers, told, world>>

MarkRead(s, j) == Goto(s, j, "mark", "marking") /\ Select(s, j)
MarkWrite(s, j) ==
  /\ Goto(s, j, "marking", "note")
  /\ Update(s, j, "processing", seen[s][j])
  /\ UNCHANGED claimedAt

NoteRead(s, j) == Goto(s, j, "note", "noting") /\ Select(s, j)
NoteWrite(s, j) ==
  /\ Goto(s, j, "noting", "run")
  /\ Update(s, j, status[j], Pushed(seen[s][j], "processing"))
  /\ UNCHANGED claimedAt

\* Mutant: the snapshot is cached as soon as the pipeline returns.
ConvertCached(s, j) ==
  /\ \/ Goto(s, j, "run", "store") /\ snapshot' = [snapshot EXCEPT ![s] = @ \cup {j}]
     \/ Goto(s, j, "run", "fail") /\ UNCHANGED snapshot
  /\ UNCHANGED <<row, seen, claimedAt, handlers, told, world>>

\* runConvertPipeline returns, or throws into the catch block.
Convert(s, j) ==
  /\ Goto(s, j, "run", "store") \/ Goto(s, j, "run", "fail")
  /\ UNCHANGED <<row, seen, claimedAt, snapshot, handlers, told, world>>

\* storeCompletedJob: read the stored events, cache the snapshot, then write
\* the whole row over whatever is there.
StoreRead(s, j) ==
  /\ Goto(s, j, "store", "save")
  /\ seen' = [seen EXCEPT ![s][j] = blob[j]]
  /\ snapshot' = [snapshot EXCEPT ![s] = @ \cup {j}]
  /\ UNCHANGED <<row, claimedAt, handlers, told, world>>

\* Mutant: the stored events are forgotten.
SaveCompletedAfresh(s, j) ==
  /\ Goto(s, j, "save", "history")
  /\ status' = [status EXCEPT ![j] = "completed"]
  /\ blob' = [blob EXCEPT ![j] =
       [result |-> TRUE, error |-> "none", events |-> <<"complete">>]]
  /\ seen' = [seen EXCEPT ![s][j] = NoBlob]
  /\ snapshot' = [snapshot EXCEPT ![s] = @ \cup {j}]
  /\ UNCHANGED <<startedAt, createdAt, claimedAt, handlers, told, world>>

SaveCompleted(s, j) ==
  /\ Goto(s, j, "save", "history")
  /\ status' = [status EXCEPT ![j] = "completed"]
  /\ blob' = [blob EXCEPT ![j] =
       [result |-> TRUE, error |-> "none", events |-> Append(seen[s][j].events, "complete")]]
  /\ seen' = [seen EXCEPT ![s][j] = NoBlob]
  /\ snapshot' = [snapshot EXCEPT ![s] = @ \cup {j}]
  /\ UNCHANGED <<startedAt, createdAt, claimedAt, handlers, told, world>>

SetRebuild(s, j, v, r) == rebuild' = [rebuild EXCEPT ![s][j][v] = r]

\* enqueueBatchHealthSummaryRebuild: a rebuild of j that is pending on s makes
\* this one unnecessary.
Enqueue(s, j) ==
  IF rebuild[s][j][Enqueued].at = "none"
    THEN SetRebuild(s, j, Enqueued, Copyless("check"))
    ELSE UNCHANGED rebuild

\* The extraction history, and the rebuild the worker leaves behind.
SaveHistory(s, j) ==
  /\ Goto(s, j, "history", "phase")
  /\ Enqueue(s, j)
  /\ UNCHANGED <<row, seen, claimedAt, snapshot, req, can, edit, doubled, told, world>>

PhaseRead(s, j) ==
  /\ Len(blob[j].events) < MaxEvents
  /\ Goto(s, j, "phase", "phasing") /\ Select(s, j)
PhaseWrite(s, j) ==
  /\ Goto(s, j, "phasing", "phase")
  /\ Update(s, j, status[j], Pushed(seen[s][j], "phase_complete"))
  /\ UNCHANGED claimedAt

\* No diagnostic record is left: the handler returns and its finally runs.
Finish(s, j) ==
  /\ Leave(s, j, "phase")
  /\ UNCHANGED <<row, seen, snapshot, handlers, told, world>>

FailRead(s, j) == Goto(s, j, "fail", "failing") /\ Select(s, j)
\* Mutant: the catch block stores the status without its error.
FailWriteSilent(s, j) ==
  /\ Goto(s, j, "failing", "error")
  /\ Update(s, j, "failed", seen[s][j])
  /\ UNCHANGED claimedAt

FailWrite(s, j) ==
  /\ Goto(s, j, "failing", "error")
  /\ Update(s, j, "failed", WithError(seen[s][j], "phase"))
  /\ UNCHANGED claimedAt

ErrorRead(s, j) == Goto(s, j, "error", "erring") /\ Select(s, j)
ErrorWrite(s, j) ==
  /\ Leave(s, j, "erring")
  /\ Update(s, j, status[j], Pushed(seen[s][j], "error"))

WorkerStep(s, j) ==
  \/ Claim(s, j) \/ ClaimRefused(s, j)
  \/ MarkRead(s, j) \/ MarkWrite(s, j) \/ NoteRead(s, j) \/ NoteWrite(s, j)
  \/ Convert(s, j) \/ StoreRead(s, j) \/ SaveCompleted(s, j) \/ SaveHistory(s, j)
  \/ PhaseRead(s, j) \/ PhaseWrite(s, j) \/ Finish(s, j)
  \/ FailRead(s, j) \/ FailWrite(s, j) \/ ErrorRead(s, j) \/ ErrorWrite(s, j)

-----------------------------------------------------------------------------
\* DELETE /jobs/:id: check, updateJob(failed), append "cancelled", answer.

CancelCheck(j, s) ==
  /\ s \in up /\ j \in Cancellable /\ can[j].at = "new"
  /\ req[j].at = "done"                      \* the client has the job's id
  /\ status[j] \in {"pending", "processing"}
  /\ can' = [can EXCEPT ![j] = Opened("update", s, NoBlob, "absent")]
  /\ UNCHANGED <<row, worker, snapshot, req, edit, rebuilds, told, world>>

CancelRead(j) ==
  /\ \/ can[j].at = "update" /\ can' = [can EXCEPT ![j] = At(@, "updating", blob[j])]
     \/ can[j].at = "append" /\ can' = [can EXCEPT ![j] = At(@, "appending", blob[j])]
  /\ UNCHANGED <<row, worker, snapshot, req, edit, rebuilds, told, world>>

\* Mutant: the append reuses the job that was read for the update.
CancelWriteStale(j) ==
  /\ can[j].at = "updating"
  /\ status' = [status EXCEPT ![j] = "failed"]
  /\ blob' = [blob EXCEPT ![j] = WithError(can[j].blob, "cancelled")]
  /\ can' = [can EXCEPT ![j] = At(@, "appending", can[j].blob)]
  /\ UNCHANGED <<startedAt, createdAt, worker, snapshot, req, edit, rebuilds, told, world>>

CancelWrite(j) ==
  /\ can[j].at = "updating"
  /\ status' = [status EXCEPT ![j] = "failed"]
  /\ blob' = [blob EXCEPT ![j] = WithError(can[j].blob, "cancelled")]
  /\ can' = [can EXCEPT ![j] = At(@, "append", NoBlob)]
  /\ UNCHANGED <<startedAt, createdAt, worker, snapshot, req, edit, rebuilds, told, world>>

CancelAnswer(j) ==
  /\ can[j].at = "appending"
  /\ blob' = [blob EXCEPT ![j] = Pushed(can[j].blob, "cancelled")]
  /\ can' = [can EXCEPT ![j] = At(@, "done", NoBlob)]
  /\ UNCHANGED <<status, startedAt, createdAt, worker, snapshot, req, edit, rebuilds, told, world>>

-----------------------------------------------------------------------------
\* rebuildBatchHealthSummary, beside the worker and each other: look at the
\* job, update the summary of its result, save the batch's own summary.  The
\* updateJob changes nothing modelled here; it writes back the status and the
\* blob it read, whatever the row says by then.

\* An admin request opens the review queue or a batch in it.  When the row of
\* the summary is missing it rebuilds it itself, past pendingRebuilds; when the
\* row is out of date it enqueues a rebuild, as a report on the job does.  Which
\* of these a request finds is left open: the row is missing until the first
\* rebuild saves it, and again when a listing of the jobs older than the job
\* deletes it.
ViewSummary(s, j) ==
  /\ s \in up /\ j \in Viewed /\ status[j] # "absent"
  /\ \/ \E v \in View : /\ rebuild[s][j][v].at = "none"
                        /\ SetRebuild(s, j, v, Copyless("check"))
     \/ Enqueue(s, j)
  /\ UNCHANGED <<row, worker, snapshot, req, can, edit, doubled, told, world>>

RebuildCheck(s, j, v) ==
  /\ rebuild[s][j][v].at = "check"
  /\ SetRebuild(s, j, v, Copyless(IF blob[j].result THEN "update" ELSE "saving"))
  /\ UNCHANGED <<row, worker, snapshot, req, can, edit, doubled, told, world>>

RebuildRead(s, j, v) ==
  /\ rebuild[s][j][v].at = "update"
  /\ SetRebuild(s, j, v, Rebuilding("updating", blob[j], status[j]))
  /\ doubled' = IF \E t \in Server, w \in Source : rebuild[t][j][w].at = "updating"
                  THEN doubled \cup {j} ELSE doubled
  /\ UNCHANGED <<row, worker, snapshot, req, can, edit, told, world>>

RebuildWrite(s, j, v) ==
  /\ rebuild[s][j][v].at = "updating"
  /\ status' = [status EXCEPT ![j] = rebuild[s][j][v].status]
  /\ blob' = [blob EXCEPT ![j] = rebuild[s][j][v].blob]
  /\ SetRebuild(s, j, v, Copyless("saving"))
  /\ UNCHANGED <<startedAt, createdAt, worker, snapshot, req, can, edit, doubled, told, world>>

RebuildDone(s, j, v) ==
  /\ rebuild[s][j][v].at = "saving"
  /\ SetRebuild(s, j, v, Copyless("none"))
  /\ UNCHANGED <<row, worker, snapshot, req, can, edit, doubled, told, world>>

RebuildStep(s, j, v) ==
  \/ RebuildCheck(s, j, v) \/ RebuildRead(s, j, v)
  \/ RebuildWrite(s, j, v) \/ RebuildDone(s, j, v)

-----------------------------------------------------------------------------
\* Another updateJob on a row that has a result: saveJobExport, which
\* ensureJobExport calls when a client exports.  It too writes back what it
\* read.

EditRead(j, s) ==
  /\ s \in up /\ j \in Editable /\ edit[j].at = "new"
  /\ blob[j].result
  /\ edit' = [edit EXCEPT ![j] = Opened("updating", s, blob[j], status[j])]
  /\ UNCHANGED <<row, worker, snapshot, req, can, rebuilds, told, world>>

EditWrite(j) ==
  /\ edit[j].at = "updating"
  /\ status' = [status EXCEPT ![j] = edit[j].status]
  /\ blob' = [blob EXCEPT ![j] = edit[j].blob]
  /\ edit' = [edit EXCEPT ![j] = At(@, "done", NoBlob)]
  /\ UNCHANGED <<startedAt, createdAt, worker, snapshot, req, can, rebuilds, told, world>>

-----------------------------------------------------------------------------
\* getRuntimeOrPersistedJob: the snapshot, or else the row.  Waiting for a
\* snapshot only delays the answer.
Answer(s, j) == IF j \in snapshot[s] THEN "completed" ELSE status[j]

Poll(s, j) ==
  /\ s \in up /\ j \in Watched /\ told[j] = "nothing" /\ req[j].at = "done"
  /\ Answer(s, j) \in Terminal
  /\ told' = [told EXCEPT ![j] = Answer(s, j)]
  /\ UNCHANGED <<row, worker, snapshot, handlers, world>>

\* A read finds that RUNTIME_JOB_SNAPSHOT_TTL_MS has passed, and deletes.
ExpireSnapshot(s, j) ==
  /\ j \in snapshot[s] \cap Watched
  /\ snapshot' = [snapshot EXCEPT ![s] = @ \ {j}]
  /\ UNCHANGED <<row, worker, handlers, told, world>>

-----------------------------------------------------------------------------
\* Server processes.

\* Mutant: only jobs that were being processed are resumed.
ListedProcessing == {j \in Job : Claimable(j) /\ status[j] = "processing"}

Listed == {j \in Job : Claimable(j)}
Smaller(a, b) == IF a < b THEN a ELSE b

\* The ids listClaimableAsyncJobIds may return: the oldest, up to the limit.
Resumable ==
  {C \in SUBSET Listed :
     /\ Cardinality(C) = Smaller(ResumeLimit, Cardinality(Listed))
     /\ \A c \in C, d \in Listed \ C : createdAt[c] <= createdAt[d]}

\* main(): resumeRuntimeJobs runs once, before the process listens.
Start(s) ==
  /\ s \notin up
  /\ \E C \in Resumable :
       pc' = [pc EXCEPT ![s] = [j \in Job |-> IF j \in C THEN "queued" ELSE "idle"]]
  /\ up' = up \cup {s}
  /\ UNCHANGED <<row, seen, claimedAt, snapshot, handlers, told, clock, crashes, faults>>

Lost(h) == At(h, "lost", NoBlob)
InFlight == {"update", "updating", "append", "appending"}
Abandoned(h, s) ==
  [j \in Job |-> IF h[j].on = s /\ h[j].at \in InFlight THEN Lost(h[j]) ELSE h[j]]

\* A process ends: its workers, its handlers and its memory are gone.
Halt(s) ==
  /\ s \in up
  /\ up' = up \ {s}
  /\ pc' = [pc EXCEPT ![s] = [j \in Job |-> "idle"]]
  /\ snapshot' = [snapshot EXCEPT ![s] = {}]
  /\ req' = Abandoned(req, s)
  /\ can' = Abandoned(can, s)
  /\ edit' = Abandoned(edit, s)
  /\ rebuild' = [rebuild EXCEPT ![s] = [j \in Job |-> NoRebuilds]]
  /\ seen' = [seen EXCEPT ![s] = [j \in Job |-> NoBlob]]
  /\ claimedAt' = [claimedAt EXCEPT ![s] = [j \in Job |-> 0]]
  /\ UNCHANGED <<row, doubled, told, clock>>

\* A crash, a kill, or SIGTERM: shutdown() does not wait for the workers.
Crash(s) ==
  /\ crashes < MaxCrashes
  /\ crashes' = crashes + 1
  /\ Halt(s)
  /\ UNCHANGED faults

\* A database call throws outside the try: nothing catches the rejection of
\* `void processRuntimeJob(..)` or of the enqueued
\* `void rebuildBatchHealthSummary(..)`, and Node ends the process.
UnhandledRejection(s, j) ==
  /\ pc[s][j] \in BeforeTry \cup InCatch \/ rebuild[s][j][Enqueued].at # "none"
  /\ faults < MaxFaults
  /\ faults' = faults + 1
  /\ Halt(s)
  /\ UNCHANGED crashes

\* A database or storage call throws inside the try: the catch block runs.
CaughtFault(s, j) ==
  /\ pc[s][j] \in InTry \ {"run"}
  /\ faults < MaxFaults
  /\ faults' = faults + 1
  /\ pc' = [pc EXCEPT ![s][j] = "fail"]
  /\ seen' = [seen EXCEPT ![s][j] = NoBlob]
  /\ UNCHANGED <<row, claimedAt, snapshot, handlers, told, up, clock, crashes>>

\* A database call of a request handler throws: the client gets a 500.
RequestFault(j) ==
  /\ faults < MaxFaults
  /\ faults' = faults + 1
  /\ \/ req[j].at \in InFlight /\ req' = [req EXCEPT ![j] = Lost(@)] /\ UNCHANGED <<can, edit>>
     \/ can[j].at \in InFlight /\ can' = [can EXCEPT ![j] = Lost(@)] /\ UNCHANGED <<req, edit>>
     \/ edit[j].at \in InFlight /\ edit' = [edit EXCEPT ![j] = Lost(@)] /\ UNCHANGED <<req, can>>
  /\ UNCHANGED <<row, worker, snapshot, rebuilds, told, up, clock, crashes>>

\* The same for an admin request: its rebuild ends where it stands.
ViewFault(s, j) ==
  /\ faults < MaxFaults
  /\ faults' = faults + 1
  /\ \E v \in View : /\ rebuild[s][j][v].at # "none"
                     /\ SetRebuild(s, j, v, Copyless("none"))
  /\ UNCHANGED <<row, worker, snapshot, req, can, edit, doubled, told, up, clock, crashes>>

Tick ==
  /\ clock < MaxClock
  /\ clock' = clock + 1
  /\ UNCHANGED <<row, worker, snapshot, handlers, told, up, crashes, faults>>

-----------------------------------------------------------------------------
RequestStep(j) ==
  \/ QueueAppendRead(j) \/ QueueAppendWrite(j)
  \/ CancelRead(j) \/ CancelWrite(j) \/ CancelAnswer(j)
  \/ EditWrite(j)

ServerStep(s) == Start(s) \/ Crash(s)

JobStep(s, j) ==
  \/ QueueSave(j, s) \/ CancelCheck(j, s) \/ EditRead(j, s)
  \/ WorkerStep(s, j) \/ ViewSummary(s, j) \/ \E v \in Source : RebuildStep(s, j, v)
  \/ Poll(s, j) \/ ExpireSnapshot(s, j)
  \/ UnhandledRejection(s, j) \/ CaughtFault(s, j) \/ ViewFault(s, j)

Next ==
  \/ \E s \in Server : ServerStep(s)
  \/ \E s \in Server, j \in Job : JobStep(s, j)
  \/ \E j \in Job : RequestStep(j) \/ RequestFault(j)
  \/ Tick

Spec == Init /\ [][Next]_vars

\* The event loop runs every ready continuation, the platform restarts a
\* process that ended, and time passes.  Clients and faults owe us nothing.
Fairness ==
  /\ \A s \in Server : WF_vars(Start(s))
  /\ \A s \in Server, j \in Job :
       /\ WF_vars(WorkerStep(s, j))
       /\ \A v \in Source : WF_vars(RebuildStep(s, j, v))
  /\ \A j \in Job : WF_vars(RequestStep(j))
  /\ WF_vars(Tick)

FairSpec == Spec /\ Fairness

-----------------------------------------------------------------------------
(* Safety, with any number of servers, cancellations, edits and faults. *)

\* Two servers process one job at the same time only if the later one claimed
\* it more than ASYNC_JOB_STALE_MS after the other: the conditional UPDATE of
\* claimAsyncJobForProcessing is the only mutual exclusion there is.
ClaimsSpaced ==
  \A j \in Job : \A s, t \in Server :
    /\ s # t
    /\ pc[s][j] \in Holding /\ pc[t][j] \in Holding
    => \/ claimedAt[s][j] + StaleAfter < claimedAt[t][j]
       \/ claimedAt[t][j] + StaleAfter < claimedAt[s][j]

\* A cancellation that was answered before any worker claimed the job is
\* final: whatever is scheduled, restarted or appended later, the row stays
\* failed with the cancellation error and no worker ever claims it.
UnclaimedCancelHolds ==
  \A j \in Job :
    can[j].at = "done" /\ startedAt[j] = 0
      => status[j] = "failed" /\ blob[j].error = "cancelled"

\* The row of a job is a lease on it: the claim that processRuntimeJob makes
\* implements TimedLease, with the expiry read off startedAt.
Lease(j) == INSTANCE TimedLease WITH
  Holder <- Server,
  Term <- StaleAfter,
  holders <- {s \in Server : pc[s][j] \in Holding},
  grantedAt <- [s \in Server |-> claimedAt[s][j]],
  expiresAt <- IF startedAt[j] = 0 THEN 0 ELSE startedAt[j] + StaleAfter,
  now <- clock

\* The conjunction over the jobs of Lease(j)!Spec, in the form TLC checks.
ClaimIsLease ==
  /\ \A j \in Job : Lease(j)!Init
  /\ [][\A j \in Job : [Lease(j)!Next]_(Lease(j)!vars)]_vars

(* Safety of one server, crashes and faults included, for the jobs that no one
   cancels or edits.  Rebuilds are the only other writers of the row of such a
   job while its worker runs: the one that is enqueued and those of requests. *)

Undisturbed(j) == can[j].at = "new" /\ edit[j].at = "new"

\* What GET /jobs/:id returns as completed carries its result, and as failed an
\* error: saveJob writes the status and the blob together, later appends
\* rewrite the blob alone, and a rebuild starts from a row that has the result.
\* Only two rebuilds that overlapped can lose the error of a job that failed
\* after its result was stored: the second writes the status back failed after
\* the first let the append read a blob without the error.
OutcomeIsWhole ==
  \A j \in Job : Undisturbed(j) =>
    /\ status[j] = "completed" => blob[j].result
    /\ status[j] = "failed" => \/ blob[j].error # "none"
                               \/ (j \in doubled /\ blob[j].result)

\* Until a result is stored the event log is only ever extended: ids are
\* positions, so the live stream, which sends the events above the last id it
\* sent (sse.ts), misses nothing.
\* (Afterwards a rebuild can write back a log from before a phase event.)
EventLogGrows ==
  [][\A j \in Job : Undisturbed(j)' /\ ~blob[j].result
       => IsPrefix(blob[j].events, blob'[j].events)]_vars

\* A stored result is never dropped, and a job that reached a terminal status
\* never runs again, whatever the rebuilds write back.  Which terminal status
\* it has may still change: a write after the save that throws fails the job,
\* and a rebuild that had read it before restores completed.
OutcomeSticks ==
  [][\A j \in Job : Undisturbed(j)' =>
       /\ blob[j].result => blob'[j].result
       /\ status[j] \in Terminal => status'[j] \in Terminal]_vars

\* While nothing crashes or throws, a client that was told completed, which the
\* snapshot says before the row does, finds the row completed, or its worker at
\* the write that completes it.  (A crash in between leaves it processing.)
Quiet == crashes = 0 /\ faults = 0
ToldCompletedIsKept ==
  \A j \in Job :
    Quiet /\ Undisturbed(j) /\ told[j] = "completed" =>
      \/ status[j] = "completed"
      \/ \E s \in Server : pc[s][j] = "save"

(* Liveness. *)

\* README: async conversion jobs recover from Postgres.
JobsRecover ==
  \A j \in Job : status[j] \in {"pending", "processing"} ~> status[j] \in Terminal

\* A job that is still pending when its server ends is claimed by a later
\* start, if the server lists all that is claimable: none stays pending.
PendingRecovers ==
  \A j \in Job : status[j] = "pending" ~> status[j] # "pending"

\* If nothing ever crashes or throws every job settles: it becomes terminal and
\* stays so, whatever rebuilds run beside its worker and after it.
JobsSettle ==
  []Quiet => \A j \in Job : status[j] = "pending" ~> [](status[j] \in Terminal)
=============================================================================
