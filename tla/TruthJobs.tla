----------------------------- MODULE TruthJobs -----------------------------
(***************************************************************************)
(* Bulk operations on approved-truth rows: an administrator's request      *)
(* stores a job of several pages, a worker in the API process claims it    *)
(* under a lease, applies the operation page by page, renews the lease     *)
(* with every stored page, and prunes the job table when it ends.  A       *)
(* starting server resumes what it may claim.                              *)
(*                                                                         *)
(* Source: server/src/routes/admin-truth/backgroundJobStore.ts and         *)
(* server/src/routes/adminTruthRoutes.ts, with the database backend.       *)
(*                                                                         *)
(* Granularity.  The claim is one conditional UPDATE; every other change   *)
(* of a row is a SELECT and an UPDATE in one READ COMMITTED transaction    *)
(* without a row lock; the prune is two SELECTs and a DELETE, each on its  *)
(* own.  A page's operations on the truth rows are one step.               *)
(*                                                                         *)
(* Data.  All jobs have the same number of pages, and what is counted per  *)
(* row is counted per page.                                                *)
(***************************************************************************)
EXTENDS Naturals, FiniteSets

CONSTANTS
  Job,          \* the jobs administrators submit
  Server,       \* the server processes that share the database
  Pages,        \* the pages of a job
  Term,         \* TRUTH_BACKGROUND_JOB_LEASE_MS, in clock ticks
  Retention,    \* retentionLimit: how many ended jobs a prune keeps
  ResumeLimit,  \* the LIMIT of the query a starting server runs
  Prompt,       \* whether every step of a worker ends within its lease
  MaxClock,     \* bound on the clock
  MaxCrashes,   \* bound on the crashes and deploys of server processes
  MaxFaults     \* bound on the database calls that throw

ASSUME ConstantsAssumption ==
  /\ IsFiniteSet(Job)
  /\ Pages \in Nat \ {0} /\ Term \in Nat \ {0} /\ Retention \in Nat
  /\ ResumeLimit \in Nat /\ Prompt \in BOOLEAN
  /\ MaxClock \in Nat /\ MaxCrashes \in Nat /\ MaxFaults \in Nat

VARIABLES
  row,      \* row[j]: the row of truth_background_jobs
  applied,  \* applied[j]: the pages whose operations ran on the truth rows
  pc,       \* pc[s][j]: where the worker of j on s stands; not "idle" iff
            \*           j is in activeTruthBackgroundJobs of s
  page,     \* page[s][j]: its pageIndex
  seen,     \* seen[s][j]: the row that worker read last
  ids,      \* ids[s][j]: the jobs its prune retains, then those it deletes
  caught,   \* caught[s][j]: whether it is in its catch block
  renewed,  \* renewed[s][j]: when that worker claimed j or last stored a page
  up,       \* the server processes that run
  clock, crashes, faults

worker == <<pc, page, seen, ids, caught, renewed>>
world == <<up, clock, crashes, faults>>
vars == <<row, applied, worker, world>>

-----------------------------------------------------------------------------
Status == {"absent", "pending", "running", "completed", "failed", "deleted"}
Terminal == {"completed", "failed"}

\* expires: leaseExpiresAt, 0 for NULL; done: completedPages; counted:
\* completedRows and the per-result counters, in pages; born: createdAt, as a
\* rank; finished: finishedAt, 0 for NULL.
Row == [status : Status, expires : Nat, done : 0..Pages, counted : Nat,
        born : Nat, finished : Nat]
NoRow == [status |-> "absent", expires |-> 0, done |-> 0, counted |-> 0,
          born |-> 0, finished |-> 0]

\* Each pair x-ing is the UPDATE of the SELECT at x.
PC == {"idle", "queued", "apply", "store", "storing", "finish", "finishing",
       "keep", "doom", "delete", "fail", "failing"}
\* Between the claim and the write that ends the job.
Working == {"apply", "store", "storing", "finish", "finishing"}

TypeOK ==
  /\ row \in [Job -> Row]
  /\ applied \in [Job -> SUBSET (0..Pages - 1)]
  /\ pc \in [Server -> [Job -> PC]]
  /\ page \in [Server -> [Job -> 0..Pages]]
  /\ seen \in [Server -> [Job -> Row]]
  /\ ids \in [Server -> [Job -> SUBSET Job]]
  /\ caught \in [Server -> [Job -> BOOLEAN]]
  /\ renewed \in [Server -> [Job -> Nat]]
  /\ up \in SUBSET Server
  /\ clock \in Nat \ {0} /\ crashes \in Nat /\ faults \in Nat

Everywhere(x) == [s \in Server |-> [j \in Job |-> x]]

Init ==
  /\ row = [j \in Job |-> NoRow]
  /\ applied = [j \in Job |-> {}]
  /\ pc = Everywhere("idle") /\ page = Everywhere(0) /\ seen = Everywhere(NoRow)
  /\ ids = Everywhere({}) /\ caught = Everywhere(FALSE) /\ renewed = Everywhere(0)
  /\ up = {}
  /\ clock = 1 /\ crashes = 0 /\ faults = 0

-----------------------------------------------------------------------------
Exists(j) == row[j].status \notin {"absent", "deleted"}
Ended(j) == row[j].status \in Terminal

\* Mutant: the lease test is not tied to the running status.
ClaimableUnleased(j) ==
  \/ row[j].status = "pending"
  \/ Exists(j) /\ (row[j].expires = 0 \/ row[j].expires < clock)

\* The WHERE clause of the claim and of the list a starting server reads.
Claimable(j) ==
  \/ row[j].status = "pending"
  \/ row[j].status = "running" /\ (row[j].expires = 0 \/ row[j].expires < clock)

Goto(s, j, from, to) ==
  /\ pc[s][j] = from
  /\ pc' = [pc EXCEPT ![s][j] = to]

\* The SELECT of updateTruthBackgroundDbJob.
Select(s, j) ==
  /\ seen' = [seen EXCEPT ![s][j] = row[j]]
  /\ UNCHANGED <<row, applied, page, ids, caught, renewed, world>>

\* What it makes of the row: n pages are stored, or the job has ended.
\* jobToRow gives a fresh lease, and none to an ended job.
Stored(r, n) == [r EXCEPT !.status = "running", !.expires = clock + Term,
                          !.done = n, !.counted = r.counted + 1]
Closed(r, end) == [r EXCEPT !.status = end, !.expires = 0, !.finished = clock]

\* Its UPDATE.  A row that was deleted meanwhile stays deleted.
Update(s, j, new) ==
  /\ row' = IF Exists(j) THEN [row EXCEPT ![j] = new] ELSE row
  /\ seen' = [seen EXCEPT ![s][j] = NoRow]
  /\ UNCHANGED <<applied, ids, caught, world>>

\* Mutant: the last page is not followed by the final write.
NextPageLast(n) == IF n < Pages THEN "apply" ELSE "idle"

\* The claim or a page is stored: on to the next page, if there is one.
NextPage(n) == IF n < Pages THEN "apply" ELSE "finish"

-----------------------------------------------------------------------------
\* POST /admin/approved-truth/background-bulk: INSERT, then queueMicrotask.
Create(s, j) ==
  /\ s \in up /\ row[j].status = "absent"
  /\ row' = [row EXCEPT ![j] =
       [NoRow EXCEPT !.status = "pending", !.born = 1 + Cardinality({k \in Job : row[k] # NoRow})]]
  /\ Goto(s, j, "idle", "queued")
  /\ UNCHANGED <<applied, page, seen, ids, caught, renewed, world>>

\* Mutant: a resumed job starts over.
ClaimAfresh(s, j) ==
  /\ Claimable(j)
  /\ row' = [row EXCEPT ![j].status = "running", ![j].expires = clock + Term]
  /\ Goto(s, j, "queued", NextPage(0))
  /\ page' = [page EXCEPT ![s][j] = 0]
  /\ renewed' = [renewed EXCEPT ![s][j] = clock]
  /\ UNCHANGED <<applied, seen, ids, caught, world>>

\* processTruthBackgroundJob: the claim leaves the payload, and with it
\* completedPages, as it is.
Claim(s, j) ==
  /\ Claimable(j)
  /\ row' = [row EXCEPT ![j].status = "running", ![j].expires = clock + Term]
  /\ Goto(s, j, "queued", NextPage(row[j].done))
  /\ page' = [page EXCEPT ![s][j] = row[j].done]
  /\ renewed' = [renewed EXCEPT ![s][j] = clock]
  /\ UNCHANGED <<applied, seen, ids, caught, world>>

ClaimRefused(s, j) ==
  /\ ~Claimable(j)
  /\ Goto(s, j, "queued", "idle")
  /\ UNCHANGED <<row, applied, page, seen, ids, caught, renewed, world>>

ApplyPage(s, j) ==
  /\ Goto(s, j, "apply", "store")
  /\ applied' = [applied EXCEPT ![j] = @ \cup {page[s][j]}]
  /\ UNCHANGED <<row, page, seen, ids, caught, renewed, world>>

StoreRead(s, j) == Exists(j) /\ Goto(s, j, "store", "storing") /\ Select(s, j)

\* Mutant: completedPages is incremented, not set to pageIndex + 1.
StoreWriteCounting(s, j) ==
  LET n == page[s][j] + 1 IN
  /\ Exists(j)
  /\ Goto(s, j, "storing", NextPage(n))
  /\ Update(s, j, Stored(seen[s][j], seen[s][j].done + 1))
  /\ page' = [page EXCEPT ![s][j] = n]
  /\ renewed' = [renewed EXCEPT ![s][j] = clock]

\* Mutant: a stored page does not renew the lease.
StoreWriteUnrenewed(s, j) ==
  LET n == page[s][j] + 1 IN
  /\ Exists(j)
  /\ Goto(s, j, "storing", NextPage(n))
  /\ Update(s, j, [Stored(seen[s][j], n) EXCEPT !.expires = seen[s][j].expires])
  /\ page' = [page EXCEPT ![s][j] = n]
  /\ renewed' = [renewed EXCEPT ![s][j] = clock]

StoreWrite(s, j) ==
  LET n == page[s][j] + 1 IN
  /\ Exists(j)
  /\ Goto(s, j, "storing", NextPage(n))
  /\ Update(s, j, Stored(seen[s][j], n))
  /\ page' = [page EXCEPT ![s][j] = n]
  /\ renewed' = [renewed EXCEPT ![s][j] = clock]

\* The worker has left its page loop.
Forget(s, j) ==
  /\ page' = [page EXCEPT ![s][j] = 0]
  /\ renewed' = [renewed EXCEPT ![s][j] = 0]

\* The update finds no row: the worker returns.
StoreMissed(s, j) ==
  /\ ~Exists(j)
  /\ Goto(s, j, "store", "idle") \/ Goto(s, j, "storing", "idle")
  /\ seen' = [seen EXCEPT ![s][j] = NoRow]
  /\ Forget(s, j)
  /\ UNCHANGED <<row, applied, ids, caught, world>>

\* The write that ends the job; that it may find no row goes unnoticed.
FinishRead(s, j) == Goto(s, j, "finish", "finishing") /\ Select(s, j)

FinishWrite(s, j) ==
  /\ Goto(s, j, "finishing", "keep")
  /\ Update(s, j, Closed(seen[s][j], "completed"))
  /\ Forget(s, j)

FailRead(s, j) == Goto(s, j, "fail", "failing") /\ Select(s, j)

FailWrite(s, j) ==
  /\ Goto(s, j, "failing", "keep")
  /\ Update(s, j, Closed(seen[s][j], "failed"))
  /\ UNCHANGED <<page, renewed>>

\* pruneTruthBackgroundDbJobs.
Newer(j, k) ==
  \/ row[j].finished > row[k].finished
  \/ row[j].finished = row[k].finished /\ row[j].born > row[k].born

\* Mutant: one job too many is kept.
RetainedBeyond == {j \in Job : Ended(j) /\ Cardinality({k \in Job : Ended(k) /\ Newer(k, j)}) <= Retention}

Retained == {j \in Job : Ended(j) /\ Cardinality({k \in Job : Ended(k) /\ Newer(k, j)}) < Retention}

\* (A limit below 1 retains nothing; the code then skips this SELECT.)
PruneKeep(s, j) ==
  /\ Goto(s, j, "keep", "doom")
  /\ ids' = [ids EXCEPT ![s][j] = Retained]
  /\ UNCHANGED <<row, applied, page, seen, caught, renewed, world>>

\* Mutant: the second SELECT forgets the status.
PruneDoomAny(s, j) ==
  /\ Goto(s, j, "doom", "delete")
  /\ ids' = [ids EXCEPT ![s][j] = {k \in Job : Exists(k)} \ ids[s][j]]
  /\ UNCHANGED <<row, applied, page, seen, caught, renewed, world>>

PruneDoom(s, j) ==
  /\ Goto(s, j, "doom", "delete")
  /\ ids' = [ids EXCEPT ![s][j] = {k \in Job : Ended(k)} \ ids[s][j]]
  /\ UNCHANGED <<row, applied, page, seen, caught, renewed, world>>

\* The DELETE, and the finally block that leaves activeTruthBackgroundJobs.
PruneDelete(s, j) ==
  /\ Goto(s, j, "delete", "idle")
  /\ row' = [k \in Job |-> IF k \in ids[s][j] /\ Exists(k)
                           THEN [row[k] EXCEPT !.status = "deleted"] ELSE row[k]]
  /\ ids' = [ids EXCEPT ![s][j] = {}]
  /\ caught' = [caught EXCEPT ![s][j] = FALSE]
  /\ UNCHANGED <<applied, page, seen, renewed, world>>

WorkerStep(s, j) ==
  \/ Claim(s, j) \/ ClaimRefused(s, j)
  \/ ApplyPage(s, j) \/ StoreRead(s, j) \/ StoreWrite(s, j) \/ StoreMissed(s, j)
  \/ FinishRead(s, j) \/ FinishWrite(s, j) \/ FailRead(s, j) \/ FailWrite(s, j)
  \/ PruneKeep(s, j) \/ PruneDoom(s, j) \/ PruneDelete(s, j)

-----------------------------------------------------------------------------
\* Server processes, failures and time.

Listed == {j \in Job : Claimable(j)}
Smaller(a, b) == IF a < b THEN a ELSE b

\* The ids listClaimableTruthBackgroundDbJobIds may return.
Resumable ==
  {C \in SUBSET Listed :
     /\ Cardinality(C) = Smaller(ResumeLimit, Cardinality(Listed))
     /\ \A c \in C, d \in Listed \ C : row[c].born <= row[d].born}

\* main(): resumeTruthBackgroundJobs runs once, before the process listens.
Start(s) ==
  /\ s \notin up
  /\ \E C \in Resumable :
       pc' = [pc EXCEPT ![s] = [j \in Job |-> IF j \in C THEN "queued" ELSE "idle"]]
  /\ up' = up \cup {s}
  /\ UNCHANGED <<row, applied, page, seen, ids, caught, renewed, clock, crashes, faults>>

\* A process ends and its workers with it.
Halt(s) ==
  /\ s \in up
  /\ up' = up \ {s}
  /\ pc' = [pc EXCEPT ![s] = [j \in Job |-> "idle"]]
  /\ page' = [page EXCEPT ![s] = [j \in Job |-> 0]]
  /\ seen' = [seen EXCEPT ![s] = [j \in Job |-> NoRow]]
  /\ ids' = [ids EXCEPT ![s] = [j \in Job |-> {}]]
  /\ caught' = [caught EXCEPT ![s] = [j \in Job |-> FALSE]]
  /\ renewed' = [renewed EXCEPT ![s] = [j \in Job |-> 0]]
  /\ UNCHANGED <<row, applied, clock>>

Crash(s) ==
  /\ crashes < MaxCrashes
  /\ crashes' = crashes + 1
  /\ Halt(s)
  /\ UNCHANGED faults

\* A database call throws: in the try block, the claim and the prune
\* included, the job is marked failed; in the catch block the rejection of
\* `void processTruthBackgroundJob(..)` ends the process.
Fault(s, j) ==
  /\ pc[s][j] # "idle"
  /\ faults < MaxFaults
  /\ faults' = faults + 1
  /\ IF caught[s][j]
     THEN Halt(s)
     ELSE /\ pc' = [pc EXCEPT ![s][j] = "fail"]
          /\ caught' = [caught EXCEPT ![s][j] = TRUE]
          /\ seen' = [seen EXCEPT ![s][j] = NoRow]
          /\ ids' = [ids EXCEPT ![s][j] = {}]
          /\ Forget(s, j)
          /\ UNCHANGED <<row, applied, up, clock>>
  /\ UNCHANGED crashes

\* With Prompt, a worker is back at the row no later than Term after it last
\* wrote it.
Tick ==
  /\ clock < MaxClock
  /\ Prompt => \A s \in Server, j \in Job : pc[s][j] \in Working => clock < renewed[s][j] + Term
  /\ clock' = clock + 1
  /\ UNCHANGED <<row, applied, worker, up, crashes, faults>>

-----------------------------------------------------------------------------
ServerStep(s) == Start(s) \/ Crash(s)
JobStep(s, j) == Create(s, j) \/ WorkerStep(s, j) \/ Fault(s, j)

Next ==
  \/ \E s \in Server : ServerStep(s)
  \/ \E s \in Server, j \in Job : JobStep(s, j)
  \/ Tick

Spec == Init /\ [][Next]_vars

\* The event loop runs every ready continuation, the platform restarts a
\* process that ended, and time passes.
Fairness ==
  /\ \A s \in Server : WF_vars(Start(s))
  /\ \A s \in Server, j \in Job : WF_vars(WorkerStep(s, j))
  /\ WF_vars(Tick)

FairSpec == Spec /\ Fairness

-----------------------------------------------------------------------------
\* However workers overlap, crash, fail and overwrite each other's rows: a page
\* that completedPages counts was applied, and so was every page of a completed
\* job.  A resumed worker therefore never skips a page.
PagesApplied ==
  \A j \in Job :
    /\ 0..row[j].done - 1 \subseteq applied[j]
    /\ row[j].status = "completed" => applied[j] = 0..Pages - 1

\* When every step ends within the lease, no two workers are between the claim
\* of a job and the write that ends it.
OneWorker ==
  Prompt => \A j \in Job : \A s, t \in Server :
              pc[s][j] \in Working /\ pc[t][j] \in Working => s = t

\* And then, when nothing throws, every page is counted once, though it may be
\* applied twice.
CountsExact ==
  \A j \in Job :
    /\ row[j].counted = row[j].done
    /\ row[j].status = "completed" => row[j].done = Pages

\* An ended job is never taken up again: it can only be deleted, or be marked
\* failed when its prune throws.
EndsOnce ==
  [][\A j \in Job : Ended(j) => row'[j].status \in Terminal \cup {"deleted"}]_vars

\* A prune deletes ended jobs only: what its SELECTs saw as ended still is
\* when the DELETE, which does not look at the status, comes.
PruneSparesLive ==
  [][\A j \in Job : row'[j].status = "deleted" => row[j].status \in Terminal \cup {"deleted"}]_vars

\* However the prunes of jobs that end together interleave, when the workers
\* are done no more than Retention ended jobs are left, unless a crash cut a
\* prune short, or a second call threw: in the catch block it ends the process.
HistoryBounded ==
  crashes = 0 /\ faults <= 1 /\ (\A s \in Server, j \in Job : pc[s][j] = "idle")
    => Cardinality({j \in Job : Ended(j)}) <= Retention

\* Every job ends for good when nothing ever fails and every step is prompt.
JobsEnd ==
  [](crashes = 0 /\ faults = 0) =>
  \A j \in Job : row[j].status = "pending" ~> [](row[j].status \in Terminal \cup {"deleted"})
=============================================================================
