----------------------------- MODULE ReportReview -----------------------------
(***************************************************************************)
(* Reports of users, their review by administrators, and the batch health  *)
(* summary from which the review queue is served, with the database store. *)
(*                                                                         *)
(* The model follows one job and one of its citations.  Requests create    *)
(* (routes/feedback.ts), comment, decide, patch and delete reports          *)
(* (routes/admin.ts); the summary (admin/batchHealthSummary.ts) is rebuilt *)
(* beside them and a request for the queue checks by timestamps whether it *)
(* is behind.  Each action is one store call with the code that follows it *)
(* up to the next await.                                                   *)
(*                                                                         *)
(* A report's status is open or closed for the summary: proposed counts    *)
(* like pending, duplicate like accepted.  The summary's counts are taken  *)
(* as the set of open reports and whether the citation is ready.  What     *)
(* updateCitation and appendCitationVersion do beside that is the subject  *)
(* of CitationEdits, and what a rebuild does to the job row that of        *)
(* RuntimeJobs.  The approved truth is not read back by any of this.       *)
(***************************************************************************)
EXTENDS Naturals, FiniteSets

CONSTANTS
    Reports,    \* report ids
    Requests,   \* requests that change a report
    None,       \* no summary
    MaxNow,     \* bound of the clock, which starts at 1, in milliseconds
    MaxFaults   \* bound of failing store calls and process ends

ASSUME BoundsAssumption == MaxNow \in Nat \ {0} /\ MaxFaults \in Nat

Status == {"new", "pending", "accepted", "rejected", "gone"}
Patches == {"reopen", "close"}
Decisions == {"reject", "resolve", "truth", "fields"}
Locked == {"comment"} \cup Decisions    \* requests with expectedUpdatedAt
Ops == {"post", "delete"} \cup Locked \cup Patches
Steps == {"idle", "insert", "delete", "read", "write", "cread", "cwrite",
          "truth", "nread", "nwrite", "get", "enqueue", "done", "refused", "failed"}
Ended == {"done", "refused", "failed"}
Rebuilders == {"queue", "view"}     \* the background one, and a request for the queue
Time == 0 .. MaxNow
Row == [status : Status, events : SUBSET Requests, notes : SUBSET Requests, at : Time]
Summary == [open : SUBSET Reports, ready : BOOLEAN, at : Time]
Rebuild == [step : {"idle", "reports", "citations", "stamp", "save"},
            open : SUBSET Reports, ready : BOOLEAN, at : Time]

VARIABLES
    now,            \* the clock
    rows,           \* citation_reports; events and truth_saved notes by request
    ready, citeAt,  \* the citation: publicStatus is ready; updatedAt
    summary,        \* batch_health_summaries
    pending,        \* pendingRebuilds has the job
    rb,             \* each rebuild: its next step and what it has read
    op, target,     \* what each request asks for
    pc,             \* its next store call
    saw, sawAt,     \* the events and updatedAt of the report its sender looked at
    base,           \* the report its transaction read
    stamp,          \* the updatedAt its report was given
    citeStamp,      \* the updatedAt it gave the citation
    faults,         \* failures so far
    clobbered,      \* reports an update of which wrote over one it had not read
    tied,           \* reports that were given the same updatedAt twice
    raced,          \* a change committed while a rebuild that had read was under way
    undated,        \* a change committed that no timestamp shows to be newer
    faulted         \* a request failed or was refused after its change, or a crash

reviewing == <<op, target, pc, saw, sawAt, base, stamp, citeStamp>>
rebuilding == <<summary, pending, rb>>
sources == <<rows, ready, citeAt>>
marks == <<clobbered, tied, raced, undated, faulted>>
vars == <<now, sources, rebuilding, reviewing, faults, marks>>

-----------------------------------------------------------------------------
Present(r) == rows[r].status \notin {"new", "gone"}

\* isOpenReport
OpenReports == {r \in Reports : rows[r].status = "pending"}

Latest(S) == CHOOSE t \in S \cup {0} : \A u \in S : u <= t

ReportTimes == {rows[r].at : r \in {s \in Reports : Present(s)}}

\* Mutant: the staleness test looks at the citations only.
BehindOfCitations(at) == at < citeAt

\* isBatchHealthSummaryStale of a summary of that lastSyncedAt.
Behind(at) == at < Latest(ReportTimes \cup {citeAt})

NoRebuild == [step |-> "idle", open |-> {}, ready |-> FALSE, at |-> 0]
NoRow == [status |-> "new", events |-> {}, notes |-> {}, at |-> 0]

\* What is there at first was written in the past.
Init ==
    /\ now = 1
    /\ op \in [Requests -> Ops]
    /\ target \in [Requests -> Reports]
    /\ \A p, q \in Requests :
          op[p] = "post" /\ op[q] = "post" /\ target[p] = target[q] => p = q
    /\ rows = [r \in Reports |->
                  IF \E q \in Requests : op[q] = "post" /\ target[q] = r
                  THEN NoRow ELSE [NoRow EXCEPT !.status = "pending"]]
    /\ ready \in BOOLEAN /\ citeAt = 0
    /\ summary \in {None, [open |-> OpenReports, ready |-> ready, at |-> 0]}
    /\ pending = FALSE
    /\ rb = [k \in Rebuilders |-> NoRebuild]
    /\ pc = [q \in Requests |-> "idle"]
    /\ saw = [q \in Requests |-> {}]
    /\ sawAt = [q \in Requests |-> 0]
    /\ base = [q \in Requests |-> NoRow]
    /\ stamp = [q \in Requests |-> 0]
    /\ citeStamp = [q \in Requests |-> 0]
    /\ faults = 0
    /\ clobbered = {} /\ tied = {}
    /\ raced = FALSE /\ undated = FALSE /\ faulted = FALSE

-----------------------------------------------------------------------------
(* The marks of a change of what the summary is made of. *)

HasRead(k, steps) == rb[k].step \in steps

\* A write with the time t commits.  A rebuild that is in one of `steps`
\* has missed it, if the summary depends on what it changes.
Commits(t, changes, steps) ==
    /\ raced' = (raced \/ (changes /\ \E k \in Rebuilders : HasRead(k, steps)))
    /\ undated' = (undated \/ (summary # None /\ t <= summary.at))

AfterReports == {"citations", "stamp", "save"}
AfterCitations == {"stamp", "save"}

\* enqueueBatchHealthSummaryRebuild: dropped while a rebuild is pending.
Enqueue ==
    /\ pending' = TRUE
    /\ rb' = IF pending THEN rb
             ELSE [rb EXCEPT !["queue"] = [NoRebuild EXCEPT !.step = "reports"]]

-----------------------------------------------------------------------------
(* Requests. *)

Goto(q, step) == pc' = [pc EXCEPT ![q] = step]

held == <<sawAt, base, stamp, citeStamp>>

\* What the requests in Q held is gone when they end.
Forget(Q) ==
    /\ sawAt' = [q \in Requests |-> IF q \in Q THEN 0 ELSE sawAt[q]]
    /\ base' = [q \in Requests |-> IF q \in Q THEN NoRow ELSE base[q]]
    /\ stamp' = [q \in Requests |-> IF q \in Q THEN 0 ELSE stamp[q]]
    /\ citeStamp' = [q \in Requests |-> IF q \in Q THEN 0 ELSE citeStamp[q]]

End(q, how) == Goto(q, how) /\ Forget({q})

\* The report as its sender sees it; the handler's first getReport finds it.
Arrive(q) ==
    LET r == target[q] IN
    /\ pc[q] = "idle"
    /\ op[q] # "post" => Present(r)
    /\ saw' = [saw EXCEPT ![q] = IF op[q] \in Decisions THEN rows[r].events ELSE {}]
    /\ sawAt' = [sawAt EXCEPT ![q] = rows[r].at]
    /\ stamp' = [stamp EXCEPT ![q] = IF op[q] = "post" THEN now ELSE 0]
    /\ Goto(q, CASE op[q] = "post" -> "insert"
                 [] op[q] = "delete" -> "delete"
                 [] OTHER -> "read")
    /\ UNCHANGED <<now, sources, rebuilding, op, target, base, citeStamp,
                   faults, marks>>

\* POST /reports: saveReport, with the time taken before the call.
Insert(q) ==
    LET r == target[q] IN
    /\ pc[q] = "insert"
    /\ rows' = [rows EXCEPT ![r] = [NoRow EXCEPT !.status = "pending", !.at = stamp[q]]]
    /\ Commits(stamp[q], TRUE, AfterReports)
    /\ Goto(q, "enqueue")
    /\ UNCHANGED <<now, ready, citeAt, rebuilding, op, target, saw, sawAt, base,
                   stamp, citeStamp, faults, clobbered, tied, faulted>>

\* DELETE /admin/reports: no timestamp tells of a deletion, and that of the
\* report's last change goes with it.
Delete(q) ==
    LET r == target[q] IN
    /\ pc[q] = "delete"
    /\ rows' = [rows EXCEPT ![r] = [NoRow EXCEPT !.status = "gone"]]
    /\ raced' = (raced \/ (r \in OpenReports /\ \E k \in Rebuilders : HasRead(k, AfterReports)))
    /\ undated' = TRUE
    /\ Goto(q, "enqueue")
    /\ UNCHANGED <<now, ready, citeAt, rebuilding, op, target, saw, sawAt, base,
                   stamp, citeStamp, faults, clobbered, tied, faulted>>

\* Mutant: expectedUpdatedAt is not compared.
ConflictNever(q) == FALSE

\* The row is not the one expected: what the sender saw or, in the second
\* update of a resolution, what the first one wrote.
Conflict(q) ==
    /\ op[q] \in Locked
    /\ rows[target[q]].at # (IF pc[q] = "nread" THEN stamp[q] ELSE sawAt[q])

\* The SELECT of updateReport, the check and the new updatedAt.
UpdateRead(q) ==
    LET r == target[q] IN
    /\ pc[q] \in {"read", "nread"}
    /\ \/ /\ ~Present(r) /\ (pc[q] = "nread" \/ op[q] \in Patches)
          /\ Goto(q, IF pc[q] = "nread" THEN "get" ELSE "enqueue")
          /\ UNCHANGED <<held, faulted>>
       \/ /\ ~Present(r) /\ pc[q] = "read" /\ op[q] \in Locked
          /\ End(q, "failed")
          /\ UNCHANGED faulted
       \/ /\ Present(r) /\ Conflict(q)
          /\ End(q, "refused")
          /\ faulted' = (faulted \/ pc[q] = "nread")
       \/ /\ Present(r) /\ ~Conflict(q)
          /\ base' = [base EXCEPT ![q] = rows[r]]
          /\ stamp' = [stamp EXCEPT ![q] = now]
          /\ sawAt' = [sawAt EXCEPT ![q] = 0]
          /\ Goto(q, IF pc[q] = "read" THEN "write" ELSE "nwrite")
          /\ UNCHANGED <<citeStamp, faulted>>
    /\ UNCHANGED <<now, sources, rebuilding, op, target, saw, faults, clobbered,
                   tied, raced, undated>>

\* Mutant: the events become those the sender saw, with its own.
UpdatedOfSeen(q) ==
    [status |-> IF op[q] = "reject" THEN "rejected" ELSE base[q].status,
     events |-> saw[q] \cup {q},
     notes |-> base[q].notes \cup (IF pc[q] = "nwrite" THEN {q} ELSE {}),
     at |-> stamp[q]]

\* What the updater makes of the row that was read.
Updated(q) ==
    LET row == base[q]
        status == CASE pc[q] = "nwrite" \/ op[q] = "comment" -> row.status
                    [] op[q] = "reopen" -> "pending"
                    [] op[q] = "reject" -> "rejected"
                    [] OTHER -> "accepted"
    IN [status |-> status,
        events |-> row.events \cup (IF pc[q] = "write" /\ op[q] \in Locked THEN {q} ELSE {}),
        notes |-> row.notes \cup (IF pc[q] = "nwrite" THEN {q} ELSE {}),
        at |-> stamp[q]]

AfterUpdate(q) ==
    IF pc[q] = "nwrite" THEN "get"
    ELSE CASE op[q] \in Patches -> "enqueue"
           [] op[q] = "fields" -> "cread"
           [] op[q] = "truth" -> "truth"
           [] OTHER -> "get"

\* The UPDATE of updateReport, which names the id only.
UpdateWrite(q) ==
    LET r == target[q]
        new == Updated(q) IN
    /\ pc[q] \in {"write", "nwrite"}
    /\ rows' = [rows EXCEPT ![r] = IF Present(r) THEN new ELSE @]
    /\ Goto(q, AfterUpdate(q))
    /\ clobbered' = IF rows[r] # base[q] THEN clobbered \cup {r} ELSE clobbered
    /\ tied' = IF Present(r) /\ rows[r].at = stamp[q] THEN tied \cup {r} ELSE tied
    /\ IF Present(r)
       THEN Commits(stamp[q], (new.status = "pending") # (r \in OpenReports), AfterReports)
       ELSE UNCHANGED <<raced, undated>>
    /\ base' = [base EXCEPT ![q] = NoRow]
    /\ UNCHANGED <<now, ready, citeAt, rebuilding, op, target, saw, sawAt, stamp,
                   citeStamp, faults, faulted>>

\* updateCitation with the new scores: the row is read, then written.  The
\* one before it, with the fields, leaves publicStatus as it is.
CitationRead(q) ==
    /\ pc[q] = "cread"
    /\ citeStamp' = [citeStamp EXCEPT ![q] = now]
    /\ Goto(q, "cwrite")
    /\ UNCHANGED <<now, sources, rebuilding, op, target, saw, sawAt, base, stamp,
                   faults, marks>>

CitationWrite(q) ==
    /\ pc[q] = "cwrite"
    /\ ready' \in BOOLEAN
    /\ citeAt' = citeStamp[q]
    /\ citeStamp' = [citeStamp EXCEPT ![q] = 0]
    /\ Commits(citeStamp[q], ready' # ready, AfterCitations)
    /\ Goto(q, "truth")
    /\ UNCHANGED <<now, rows, rebuilding, op, target, saw, sawAt, base, stamp,
                   faults, clobbered, tied, faulted>>

\* persistApprovedTruth, and syncJobAggregates when fields were approved.
SaveTruth(q) ==
    /\ pc[q] = "truth"
    /\ Goto(q, "nread")
    /\ IF op[q] = "fields" THEN Enqueue ELSE UNCHANGED <<pending, rb>>
    /\ UNCHANGED <<now, sources, summary, op, target, saw, sawAt, base, stamp,
                   citeStamp, faults, marks>>

\* The last getReport of a comment or decision; a decision rebuilds the
\* summary if the report is still there.
Reload(q) ==
    /\ pc[q] = "get"
    /\ End(q, IF Present(target[q]) THEN "done" ELSE "failed")
    /\ IF Present(target[q]) /\ op[q] # "comment" THEN Enqueue ELSE UNCHANGED <<pending, rb>>
    /\ UNCHANGED <<now, sources, summary, op, target, saw, faults, marks>>

\* The end of a post, a patch and a deletion.
EnqueueAndAnswer(q) ==
    /\ pc[q] = "enqueue"
    /\ Enqueue
    /\ End(q, "done")
    /\ UNCHANGED <<now, sources, summary, op, target, saw, faults, marks>>

-----------------------------------------------------------------------------
(* Rebuilds. *)

\* rebuildBatchHealthSummary: getJob and listReportsByJobId.
RebuildReports(k) ==
    /\ rb[k].step = "reports"
    /\ rb' = [rb EXCEPT ![k].step = "citations", ![k].open = OpenReports]
    /\ UNCHANGED <<now, sources, summary, pending, reviewing, faults, marks>>

\* loadBatchCitations; the job row is written next.
RebuildCitations(k) ==
    /\ rb[k].step = "citations"
    /\ rb' = [rb EXCEPT ![k].step = "stamp", ![k].ready = ready]
    /\ UNCHANGED <<now, sources, summary, pending, reviewing, faults, marks>>

\* buildBatchHealthSummary takes lastSyncedAt, then awaits the owner.
RebuildStamp(k) ==
    /\ rb[k].step = "stamp"
    /\ rb' = [rb EXCEPT ![k].step = "save", ![k].at = now]
    /\ UNCHANGED <<now, sources, summary, pending, reviewing, faults, marks>>

\* saveBatchHealthSummary; the marks end with a summary that is right and that
\* no other rebuild is about to replace.
RebuildSave(k) ==
    LET right == /\ rb[k].open = OpenReports
                 /\ rb[k].ready = ready
                 /\ \A j \in Rebuilders \ {k} : rb[j].step = "idle"
    IN
    /\ rb[k].step = "save"
    /\ summary' = [open |-> rb[k].open, ready |-> rb[k].ready, at |-> rb[k].at]
    /\ rb' = [rb EXCEPT ![k] = NoRebuild]
    /\ pending' = (pending /\ k # "queue")
    /\ raced' = (raced /\ ~right)
    /\ undated' = (undated /\ ~right)
    /\ faulted' = (faulted /\ ~right)
    /\ UNCHANGED <<now, sources, reviewing, faults, clobbered, tied>>

RebuildStep(k) ==
    RebuildReports(k) \/ RebuildCitations(k) \/ RebuildStamp(k) \/ RebuildSave(k)

-----------------------------------------------------------------------------
(* A request for the review queue: ensureBatchHealthSummaries.  Its reads  *)
(* are one step: a summary read earlier only looks older than it is.       *)

\* Mutant: a stale summary is served without a rebuild.
ViewMissingOnly ==
    /\ summary = None /\ rb["view"].step = "idle"
    /\ rb' = [rb EXCEPT !["view"] = [NoRebuild EXCEPT !.step = "reports"]]
    /\ UNCHANGED <<now, sources, summary, pending, reviewing, faults, marks>>

\* A missing summary is rebuilt by the request itself, a stale one in the
\* background.
View ==
    /\ \/ /\ summary = None /\ rb["view"].step = "idle"
          /\ rb' = [rb EXCEPT !["view"] = [NoRebuild EXCEPT !.step = "reports"]]
          /\ UNCHANGED pending
       \/ /\ summary # None /\ Behind(summary.at)
          /\ Enqueue
    /\ UNCHANGED <<now, sources, summary, reviewing, faults, marks>>

-----------------------------------------------------------------------------
(* Failures and the clock. *)

\* A store call of a request fails.
Fail(q) ==
    /\ pc[q] \notin Ended \cup {"idle"}
    /\ faults < MaxFaults
    /\ faults' = faults + 1
    /\ faulted' = TRUE
    /\ End(q, "failed")
    /\ UNCHANGED <<now, sources, rebuilding, op, target, saw, clobbered, tied,
                   raced, undated>>

\* The process ends, also because a background rebuild fails: nothing
\* handles that rejection.  It starts again with nothing pending.
Crash ==
    /\ faults < MaxFaults
    /\ faults' = faults + 1
    /\ faulted' = TRUE
    /\ pending' = FALSE
    /\ rb' = [k \in Rebuilders |-> NoRebuild]
    /\ pc' = [q \in Requests |-> IF pc[q] \in Ended \cup {"idle"} THEN pc[q] ELSE "failed"]
    /\ Forget(Requests)
    /\ UNCHANGED <<now, sources, summary, op, target, saw, clobbered, tied, raced, undated>>

Tick ==
    /\ now < MaxNow
    /\ now' = now + 1
    /\ UNCHANGED <<sources, rebuilding, reviewing, faults, marks>>

RequestStep(q) ==
    \/ Arrive(q) \/ Insert(q) \/ Delete(q)
    \/ UpdateRead(q) \/ UpdateWrite(q)
    \/ CitationRead(q) \/ CitationWrite(q) \/ SaveTruth(q)
    \/ Reload(q) \/ EnqueueAndAnswer(q)

Next ==
    \/ \E q \in Requests : RequestStep(q) \/ Fail(q)
    \/ \E k \in Rebuilders : RebuildStep(k)
    \/ View \/ Crash \/ Tick

Spec == Init /\ [][Next]_vars

\* Handlers and rebuilds run, and administrators keep asking for the queue.
Fairness ==
    /\ \A q \in Requests : WF_vars(RequestStep(q))
    /\ \A k \in Rebuilders : WF_vars(RebuildStep(k))
    /\ WF_vars(View)

FairSpec == Spec /\ Fairness

-----------------------------------------------------------------------------
TypeOK ==
    /\ now \in Time
    /\ rows \in [Reports -> Row]
    /\ ready \in BOOLEAN /\ citeAt \in Time
    /\ summary \in Summary \cup {None}
    /\ pending \in BOOLEAN
    /\ rb \in [Rebuilders -> Rebuild]
    /\ op \in [Requests -> Ops] /\ target \in [Requests -> Reports]
    /\ pc \in [Requests -> Steps]
    /\ saw \in [Requests -> SUBSET Requests] /\ sawAt \in [Requests -> Time]
    /\ base \in [Requests -> Row] /\ stamp \in [Requests -> Time]
    /\ citeStamp \in [Requests -> Time]
    /\ faults \in 0 .. MaxFaults
    /\ clobbered \in SUBSET Reports /\ tied \in SUBSET Reports
    /\ raced \in BOOLEAN /\ undated \in BOOLEAN /\ faulted \in BOOLEAN

\* A comment, decision or truth note that was answered with success stays in
\* the report's review events, whatever other requests do to the report, as
\* long as no two updates of the report overlapped (updateReport).
ToldIsKept ==
    \A q \in Requests :
        LET r == target[q] IN
        pc[q] = "done" /\ op[q] \in Locked /\ Present(r) /\ r \notin clobbered =>
            /\ q \in rows[r].events
            /\ op[q] \in {"truth", "fields"} => q \in rows[r].notes

\* Of two decisions that stand in a report, one was made by someone who had
\* seen the other: expectedUpdatedAt keeps reviewers apart, unless their
\* updates overlapped or fell into one millisecond.
DecisionsInTurn ==
    \A r \in Reports \ (clobbered \cup tied) :
        \A p, q \in rows[r].events :
            p # q /\ {op[p], op[q]} \subseteq Decisions => p \in saw[q] \/ q \in saw[p]

InSync == /\ summary # None
          /\ summary.open = OpenReports
          /\ summary.ready = ready

\* The next request for the queue will have the summary rebuilt.
Noticed == summary = None \/ Behind(summary.at)

\* A handler or a rebuild that may still put the summary right.
Working == \/ pending
           \/ \E k \in Rebuilders : rb[k].step # "idle"
           \/ \E q \in Requests : pc[q] \notin Ended \cup {"idle"}

\* How the summary can fall behind unnoticed.
Hidden == raced \/ (undated /\ (faulted \/ clobbered # {}))

\* When nothing is under way the review queue's summary agrees with the
\* reports and the citation, or the next look at it will notice that it does
\* not: failures between a change and its enqueue are repaired by the
\* timestamps.  Apart from a change that commits while a rebuild that has
\* already read is running (its enqueue is dropped and the rebuild's time is
\* later), and from a failure after a change without a later timestamp.
SummaryExplained == ~Working => InSync \/ Noticed \/ Hidden

\* However requests, rebuilds and failures interleave, the summary ends right,
\* with the same two exceptions.
SummarySettles == <>[](InSync \/ Hidden)
=============================================================================
