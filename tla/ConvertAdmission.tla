-------------------------- MODULE ConvertAdmission --------------------------
(***************************************************************************)
(* The guardrails in front of a conversion: a request is checked against   *)
(* the daily reference quota of its identity and charged, may use up the   *)
(* enrichment trial, and, if it becomes an async job, is checked against   *)
(* the limits on active jobs before the job is stored.                     *)
(*                                                                         *)
(* Source: server/src/routes/convert.ts, server/src/runtime/guardrails.ts  *)
(* and the usage and job counts of server/src/runtime/dbStore.ts.          *)
(*                                                                         *)
(* Granularity.  Every query is a step: a check reads the ledger or counts *)
(* the rows, and what it allows is written by a later statement, an upsert *)
(* that adds or an INSERT.  No lock spans the two.                         *)
(*                                                                         *)
(* Data.  A request is its number of references.  An identity is what all  *)
(* three guardrails key on: a user, an API key, an organisation, or nobody *)
(* (the requests of a tier that carry no identity share one ledger row).   *)
(* Jobs are counted, not named.                                            *)
(***************************************************************************)
EXTENDS Naturals, FiniteSets

CONSTANTS
  Request,      \* the requests that can be in flight at once
  Identity,
  By,           \* By[r]: who sends request r
  Tier,         \* Tier[u]: "free" for anonymous and free, "pro" or "b2b"
  Nobody,       \* the identities without a user or an API key
  Admin,        \* the administrators
  DailyLimit,   \* DailyLimit[u]: DAILY_REF_LIMITS of its tier
  JobLimit,     \* JobLimit[u]: CONCURRENT_JOB_LIMITS of its tier
  GlobalLimit,  \* B2B_GLOBAL_CONCURRENT_JOB_LIMIT
  Trial,        \* FREE_ENRICHMENT_LIFETIME_REFS
  SyncMax,      \* PIPELINE_SYNC_THRESHOLD
  LiveEnrich,   \* FEATURE_LIVE_ENRICH
  MaxRefs,      \* bound on the references of a request
  MaxDay,       \* bound on the days
  MaxCancels,   \* bound on the cancellations that hit a running worker
  MaxAdminJobs  \* bound on the active jobs of an administrator

ASSUME ConstantsAssumption ==
  /\ IsFiniteSet(Request) /\ IsFiniteSet(Identity)
  /\ By \in [Request -> Identity]
  /\ Tier \in [Identity -> {"free", "pro", "b2b"}]
  /\ Nobody \subseteq Identity /\ Admin \subseteq Identity
  /\ DailyLimit \in [Identity -> Nat] /\ JobLimit \in [Identity -> Nat \ {0}]
  /\ GlobalLimit \in Nat \ {0} /\ Trial \in Nat /\ SyncMax \in Nat
  /\ LiveEnrich \in BOOLEAN
  /\ MaxRefs \in Nat /\ MaxDay \in Nat \ {0} /\ MaxCancels \in Nat /\ MaxAdminJobs \in Nat

VARIABLES
  used,     \* used[u][d]: ref_count of the usage row of u and day d
  trial,    \* trial[u]: enrich_count of the sentinel period
  jobs,     \* jobs[u]: its pending and processing jobs
  zombies,  \* zombies[u]: its cancelled jobs whose worker still runs
  revived,  \* revived[u]: those a worker has set back to processing
  pc,       \* pc[r]: the query request r is about to run
  req,      \* req[r]: what the handler of r knows
  today, cancels

store == <<jobs, zombies, revived, cancels>>
vars == <<used, trial, store, pc, req, today>>

-----------------------------------------------------------------------------
\* "quota", "charge", "allow", "enrich": the SELECTs and upserts of the two
\* ledgers; "count": the counts of active jobs, and then the INSERT.
PC == {"idle", "quota", "charge", "allow", "enrich", "count"}
Kind == {"scope", "global"}
Day == 1..MaxDay

\* refs: estimatedCount; upload: whether it is POST /convert/upload; day: the
\* dayKey of the next query; toCount: the counts still to be taken; full:
\* whether a count reached its limit.
Req == [refs : Nat, upload : BOOLEAN, day : Day, toCount : SUBSET Kind, full : BOOLEAN]
NoReq == [refs |-> 0, upload |-> FALSE, day |-> 1, toCount |-> {}, full |-> FALSE]

TypeOK ==
  /\ used \in [Identity -> [Day -> Nat]] /\ trial \in [Identity -> Nat]
  /\ jobs \in [Identity -> Nat] /\ zombies \in [Identity -> Nat]
  /\ revived \in [Identity -> Nat] /\ cancels \in Nat
  /\ pc \in [Request -> PC] /\ req \in [Request -> Req] /\ today \in Day

Init ==
  /\ used = [u \in Identity |-> [d \in Day |-> 0]]
  /\ trial = [u \in Identity |-> 0]
  /\ jobs = [u \in Identity |-> 0] /\ zombies = jobs /\ revived = jobs
  /\ pc = [r \in Request |-> "idle"] /\ req = [r \in Request |-> NoReq]
  /\ today = 1 /\ cancels = 0

-----------------------------------------------------------------------------
Sent(u) == {r \in Request : By[r] = u}

\* resolveRuntimeJobOwner: the jobs of an administrator are of tier b2b.
OwnerTier(u) == IF u \in Admin THEN "b2b" ELSE Tier[u]

\* Jobs with status pending or processing, of one identity and of tier b2b.
Active(u) == jobs[u] + revived[u]
GlobalActive == Cardinality(UNION {{u} \X (1..Active(u)) : u \in {v \in Identity : OwnerTier(v) = "b2b"}})

Goto(r, to) == pc' = [pc EXCEPT ![r] = to]
Answer(r) == Goto(r, "idle") /\ req' = [req EXCEPT ![r] = NoReq]

\* currentUsageDayKey
DayKey == today

\* What enforceConcurrentJobLimit counts.
CountsOf(r) ==
  IF By[r] \in Admin THEN {} ELSE IF Tier[By[r]] = "b2b" THEN Kind ELSE {"scope"}

\* What follows the ledgers: an upload or a large conversion becomes a job, a
\* small one is converted at once.
After(r) ==
  IF req[r].upload \/ req[r].refs > SyncMax
  THEN Goto(r, "count") /\ req' = [req EXCEPT ![r] = [req[r] EXCEPT !.toCount = CountsOf(r)]]
  ELSE Answer(r)

-----------------------------------------------------------------------------
\* POST /convert and /convert/upload up to the first query.
Begin(r, n, up) ==
  /\ pc[r] = "idle"
  /\ By[r] \in Admin => Active(By[r]) + Cardinality({q \in Sent(By[r]) : pc[q] # "idle"}) < MaxAdminJobs
  /\ Goto(r, "quota")
  /\ req' = [req EXCEPT ![r] = [NoReq EXCEPT !.refs = n, !.upload = up, !.day = DayKey]]
  /\ UNCHANGED <<used, trial, store, today>>

\* An administrator passes the quota without a query.
Bypass(r) ==
  /\ pc[r] = "quota" /\ By[r] \in Admin
  /\ IF req[r].upload THEN After(r) ELSE Goto(r, "allow") /\ UNCHANGED req
  /\ UNCHANGED <<used, trial, store, today>>

\* Mutant: the references of the request itself are forgotten.
WithinQuotaBefore(r) == used[By[r]][req[r].day] <= DailyLimit[By[r]]

WithinQuota(r) == used[By[r]][req[r].day] + req[r].refs <= DailyLimit[By[r]]

\* enforceReferenceQuota: getUsageForDay, and the default dayKey of the
\* consumeUsage that follows, which may be that of another day.
QuotaRead(r) ==
  /\ pc[r] = "quota" /\ By[r] \notin Admin
  /\ IF WithinQuota(r)
     THEN Goto(r, "charge") /\ req' = [req EXCEPT ![r] = [req[r] EXCEPT !.day = DayKey]]
     ELSE Answer(r)
  /\ UNCHANGED <<used, trial, store, today>>

\* consumeUsage: one upsert that adds to the row.  An upload is not enriched.
Charge(r) ==
  /\ pc[r] = "charge"
  /\ used' = [used EXCEPT ![By[r]] =
       [used[By[r]] EXCEPT ![req[r].day] = used[By[r]][req[r].day] + req[r].refs]]
  /\ IF req[r].upload THEN After(r) ELSE Goto(r, "allow") /\ UNCHANGED req
  /\ UNCHANGED <<trial, store, today>>

\* Mutant: an exhausted trial is seen, a batch larger than its rest is not.
TrialLeftBulk(r) == trial[By[r]] < Trial

\* What checkEnrichmentAllowance asks of the ledger.
TrialLeft(r) == trial[By[r]] + req[r].refs <= Trial

\* checkEnrichmentAllowance: a paid tier is not charged, nobody is not allowed.
OnTrial(r) == LiveEnrich /\ Tier[By[r]] = "free" /\ By[r] \notin Nobody

Allow(r) ==
  /\ pc[r] = "allow"
  /\ IF OnTrial(r) /\ TrialLeft(r)
     THEN Goto(r, "enrich") /\ UNCHANGED req
     ELSE After(r)
  /\ UNCHANGED <<used, trial, store, today>>

\* consumeEnrichmentUse.
UseTrial(r) ==
  /\ pc[r] = "enrich"
  /\ trial' = [trial EXCEPT ![By[r]] = trial[By[r]] + req[r].refs]
  /\ After(r)
  /\ UNCHANGED <<used, store, today>>

\* Mutant: the last free place is given twice.
AtLimitBeyond(r, k) ==
  IF k = "scope" THEN Active(By[r]) > JobLimit[By[r]] ELSE GlobalActive > GlobalLimit

AtLimit(r, k) ==
  IF k = "scope" THEN Active(By[r]) >= JobLimit[By[r]] ELSE GlobalActive >= GlobalLimit

\* One count of enforceConcurrentJobLimit; for tier b2b there are two, under
\* Promise.all.
Count(r, k) ==
  /\ pc[r] = "count" /\ k \in req[r].toCount
  /\ req' = [req EXCEPT ![r] = [req[r] EXCEPT !.toCount = req[r].toCount \ {k},
                                              !.full = req[r].full \/ AtLimit(r, k)]]
  /\ UNCHANGED <<used, trial, store, pc, today>>

\* queueRuntimeJob: the INSERT of the pending job.
Queue(r) ==
  /\ pc[r] = "count" /\ req[r].toCount = {} /\ ~req[r].full
  /\ jobs' = [jobs EXCEPT ![By[r]] = jobs[By[r]] + 1]
  /\ Answer(r)
  /\ UNCHANGED <<used, trial, zombies, revived, cancels, today>>

JobsRefused(r) ==
  /\ pc[r] = "count" /\ req[r].toCount = {} /\ req[r].full
  /\ Answer(r)
  /\ UNCHANGED <<used, trial, store, today>>

\* A query throws or the process ends: what was charged stays charged.
Fail(r) ==
  /\ pc[r] # "idle"
  /\ Answer(r)
  /\ UNCHANGED <<used, trial, store, today>>

RequestStep(r) ==
  \/ \E n \in 1..MaxRefs, up \in BOOLEAN : Begin(r, n, up)
  \/ Bypass(r) \/ QuotaRead(r) \/ Charge(r) \/ Allow(r) \/ UseTrial(r)
  \/ \E k \in Kind : Count(r, k)
  \/ Queue(r) \/ JobsRefused(r) \/ Fail(r)

-----------------------------------------------------------------------------
\* The jobs, as far as the counts see them: RuntimeJobs has their whole life.

\* A job completes or fails, or is cancelled before a worker has it.
JobEnds(u) ==
  /\ \/ jobs[u] > 0 /\ jobs' = [jobs EXCEPT ![u] = jobs[u] - 1] /\ UNCHANGED revived
     \/ revived[u] > 0 /\ revived' = [revived EXCEPT ![u] = revived[u] - 1] /\ UNCHANGED jobs
  /\ UNCHANGED <<zombies, cancels>>

\* DELETE /jobs/:id sets a job failed whose worker does not look back.
Cancel(u) ==
  /\ jobs[u] > 0 /\ cancels < MaxCancels
  /\ jobs' = [jobs EXCEPT ![u] = jobs[u] - 1]
  /\ zombies' = [zombies EXCEPT ![u] = zombies[u] + 1]
  /\ cancels' = cancels + 1
  /\ UNCHANGED revived

\* processRuntimeJob writes processing over the cancellation.
Revive(u) ==
  /\ zombies[u] > 0
  /\ zombies' = [zombies EXCEPT ![u] = zombies[u] - 1]
  /\ revived' = [revived EXCEPT ![u] = revived[u] + 1]
  /\ UNCHANGED <<jobs, cancels>>

\* It writes its outcome over it, or the cancellation came after its last write.
ZombieEnds(u) ==
  /\ zombies[u] > 0
  /\ zombies' = [zombies EXCEPT ![u] = zombies[u] - 1]
  /\ UNCHANGED <<jobs, revived, cancels>>

JobStep(u) ==
  /\ JobEnds(u) \/ Cancel(u) \/ Revive(u) \/ ZombieEnds(u)
  /\ UNCHANGED <<used, trial, pc, req, today>>

Midnight ==
  /\ today < MaxDay
  /\ today' = today + 1
  /\ UNCHANGED <<used, trial, store, pc, req>>

Next ==
  \/ \E r \in Request : RequestStep(r)
  \/ \E u \in Identity : JobStep(u)
  \/ Midnight

Spec == Init /\ [][Next]_vars

-----------------------------------------------------------------------------
InFlight(u) == Cardinality(Sent(u))

\* However requests overlap, fail and run across midnight: an identity is
\* charged no more for a day than its limit for each of its requests that can
\* be in flight at once.  One request at a time never exceeds the limit.
DailyBounded ==
  \A u \in Identity, d \in Day : used[u][d] <= DailyLimit[u] * InFlight(u)

\* The same for the enrichment trial.
TrialBounded == \A u \in Identity : trial[u] <= Trial * InFlight(u)

\* Beyond its limit an identity has one job for every other request of its that
\* can be in flight at once, not counting those that came back from a
\* cancellation.
JobsBounded ==
  \A u \in Identity \ Admin : Sent(u) # {} => jobs[u] <= JobLimit[u] + InFlight(u) - 1

\* The ceiling over all organisations gives way by the same measure: the jobs
\* of administrators fill it, and are not held by it.
GlobalBounded ==
  LET orgs == {u \in Identity \ Admin : Tier[u] = "b2b"} IN
  Cardinality(UNION {{u} \X (1..jobs[u]) : u \in orgs})
    <= GlobalLimit + Cardinality({r \in Request : By[r] \in orgs}) - 1
=============================================================================
