------------------------ MODULE ReportReview_proofs ------------------------
(***************************************************************************)
(* Proofs about ReportReview: types, what a reviewer was told stays in the *)
(* report, and decisions that stand were made one knowing the other.       *)
(***************************************************************************)
EXTENDS ReportReview, InductionLemmas, TLAPS

\* What a request may be doing at each step.
Flow ==
    \A q \in Requests :
        /\ pc[q] = "insert" => op[q] = "post"
        /\ pc[q] = "delete" => op[q] = "delete"
        /\ pc[q] \in {"read", "write"} => op[q] \in Locked \cup Patches
        /\ pc[q] \in {"cread", "cwrite", "truth", "nread", "nwrite"} => op[q] \in {"truth", "fields"}
        /\ pc[q] \in {"cread", "cwrite"} => op[q] = "fields"
        /\ pc[q] = "get" => op[q] \in Locked
        /\ pc[q] = "enqueue" => op[q] \notin Locked

\* A report is new until its only post inserts it, and never again.
Life ==
    /\ \A p, q \in Requests :
          op[p] = "post" /\ op[q] = "post" /\ target[p] = target[q] => p = q
    /\ \A q \in Requests :
          /\ op[q] = "post" /\ pc[q] \in {"idle", "insert"} => rows[target[q]].status = "new"
          /\ op[q] # "post" /\ pc[q] # "idle" => rows[target[q]].status # "new"
          /\ pc[q] \in {"write", "nwrite"} => base[q].status \notin {"new", "gone"}

\* Nothing carries a time that has not come, and an update carries one that
\* is not before that of the row it read.
Timed ==
    /\ \A r \in Reports : rows[r].at <= now
    /\ \A q \in Requests :
          /\ stamp[q] <= now
          /\ pc[q] \in {"write", "nwrite"} => base[q].at <= stamp[q]

\* Only requests that have arrived leave events.
Known ==
    /\ \A r \in Reports : \A p \in rows[r].events : pc[p] # "idle"
    /\ \A q \in Requests : \A p \in base[q].events : pc[p] # "idle"

\* What an update has written stays in a report that no overlap wrote over.
Written == {"cread", "cwrite", "truth", "nread", "nwrite", "get", "done"}
Noted == {"get", "done"}

Kept ==
    \A q \in Requests :
        op[q] \in Locked /\ Present(target[q]) /\ target[q] \notin clobbered =>
            /\ pc[q] \in Written => q \in rows[target[q]].events
            /\ pc[q] \in Noted /\ op[q] \in {"truth", "fields"}
                  => q \in rows[target[q]].notes

\* Where a decision stands with the events its maker saw.
Clear(r) == r \notin clobbered /\ r \notin tied

Seen ==
    \A q \in Requests : op[q] \in Decisions /\ Clear(target[q]) =>
        /\ pc[q] = "read" /\ Present(target[q]) =>
              /\ sawAt[q] <= rows[target[q]].at
              /\ sawAt[q] = rows[target[q]].at => rows[target[q]].events \subseteq saw[q]
        /\ pc[q] = "write" => base[q].events \subseteq saw[q]

IInv == TypeOK /\ Flow /\ Life /\ Timed /\ Known /\ Kept /\ Seen /\ DecisionsInTurn

-----------------------------------------------------------------------------
\* Types.

LEMMA TimeFacts == 0 \in Time /\ 1 \in Time /\ Time \subseteq Nat
  BY BoundsAssumption DEF Time

LEMMA NoRowType == NoRow \in Row /\ NoRow.at = 0 /\ NoRow.events = {} /\ NoRow.notes = {}
                   /\ NoRow.status = "new"
  BY TimeFacts DEF NoRow, Row, Status

LEMMA NoRebuildType ==
    NoRebuild \in Rebuild
  BY TimeFacts DEF NoRebuild, Rebuild

LEMMA TypeInit == Init => TypeOK
<1> SUFFICES ASSUME Init PROVE TypeOK
  OBVIOUS
<1> USE DEF Init
<1>1. rows \in [Reports -> Row]
  <2>1. [NoRow EXCEPT !.status = "pending"] \in Row
    BY NoRowType DEF Row, Status
  <2> QED
    BY <2>1, NoRowType
<1>2. summary \in Summary \cup {None}
  <2>1. [open |-> OpenReports, ready |-> ready, at |-> 0] \in Summary
    BY TimeFacts DEF Summary, OpenReports
  <2> QED
    BY <2>1
<1>3. pc \in [Requests -> Steps]
  BY DEF Steps
<1>4. base \in [Requests -> Row]
  BY NoRowType
<1>5. rb \in [Rebuilders -> Rebuild]
  BY NoRebuildType
<1>6. faults \in 0 .. MaxFaults
  BY BoundsAssumption
<1> QED
  BY <1>1, <1>2, <1>3, <1>4, <1>5, <1>6, TimeFacts DEF TypeOK

\* The parts of the state that hold types of the requests and the rest.
LEMMA ForgetType ==
  ASSUME TypeOK, NEW Q \in SUBSET Requests, Forget(Q)
  PROVE  /\ sawAt' \in [Requests -> Time] /\ base' \in [Requests -> Row]
         /\ stamp' \in [Requests -> Time] /\ citeStamp' \in [Requests -> Time]
  BY TimeFacts, NoRowType DEF Forget, TypeOK

LEMMA EndType ==
  ASSUME TypeOK, NEW q \in Requests, NEW how \in Steps, End(q, how)
  PROVE  /\ pc' \in [Requests -> Steps]
         /\ sawAt' \in [Requests -> Time] /\ base' \in [Requests -> Row]
         /\ stamp' \in [Requests -> Time] /\ citeStamp' \in [Requests -> Time]
<1>1. Forget({q}) /\ {q} \in SUBSET Requests
  BY DEF End
<1>2. pc' \in [Requests -> Steps]
  BY DEF End, Goto, TypeOK
<1> QED
  BY <1>1, <1>2, ForgetType

LEMMA EnqueueType ==
  ASSUME TypeOK, Enqueue
  PROVE  /\ pending' \in BOOLEAN
         /\ rb' \in [Rebuilders -> Rebuild]
<1>1. [NoRebuild EXCEPT !.step = "reports"] \in
         Rebuild
  BY NoRebuildType DEF Rebuild
<1> QED
  BY <1>1 DEF Enqueue, TypeOK

LEMMA UpdatedType ==
  ASSUME TypeOK, NEW q \in Requests, pc[q] \in {"write", "nwrite"}
  PROVE  Updated(q) \in Row /\ AfterUpdate(q) \in Steps
<1>1. base[q] \in Row /\ stamp[q] \in Time
  BY DEF TypeOK
<1>2. AfterUpdate(q) \in Steps
  BY DEF AfterUpdate, Steps
<1> QED
  BY <1>1, <1>2 DEF Updated, Row, Status

LEMMA TypeStep == TypeOK /\ [Next]_vars => TypeOK'
<1> SUFFICES ASSUME TypeOK, [Next]_vars PROVE TypeOK'
  OBVIOUS
<1> USE DEF sources, rebuilding, reviewing, marks, held
<1>1. ASSUME NEW q \in Requests, Arrive(q) PROVE TypeOK'
  <2>1. saw' \in [Requests -> SUBSET Requests] /\ sawAt' \in [Requests -> Time]
    <3>1. rows[target[q]].events \in SUBSET Requests /\ rows[target[q]].at \in Time
      BY DEF TypeOK, Row
    <3> QED
      BY <1>1, <3>1 DEF Arrive, TypeOK
  <2>2. stamp' \in [Requests -> Time]
    BY <1>1, TimeFacts DEF Arrive, TypeOK
  <2>3. pc' \in [Requests -> Steps]
    BY <1>1 DEF Arrive, Goto, Steps, TypeOK
  <2> QED
    BY <1>1, <2>1, <2>2, <2>3 DEF Arrive, TypeOK
<1>2. ASSUME NEW q \in Requests, Insert(q) PROVE TypeOK'
  <2>1. rows' \in [Reports -> Row]
    BY <1>2, NoRowType DEF Insert, TypeOK, Row, Status
  <2>2. pc' \in [Requests -> Steps] /\ raced' \in BOOLEAN /\ undated' \in BOOLEAN
    BY <1>2 DEF Insert, Goto, Steps, Commits, TypeOK
  <2> QED
    BY <1>2, <2>1, <2>2 DEF Insert, TypeOK
<1>3. ASSUME NEW q \in Requests, Delete(q) PROVE TypeOK'
  <2>1. rows' \in [Reports -> Row]
    BY <1>3, NoRowType DEF Delete, TypeOK, Row, Status
  <2>2. pc' \in [Requests -> Steps] /\ raced' \in BOOLEAN /\ undated' \in BOOLEAN
    BY <1>3 DEF Delete, Goto, Steps, TypeOK
  <2> QED
    BY <1>3, <2>1, <2>2 DEF Delete, TypeOK
<1>4. ASSUME NEW q \in Requests, UpdateRead(q) PROVE TypeOK'
  <2>1. /\ pc' \in [Requests -> Steps] /\ sawAt' \in [Requests -> Time]
        /\ base' \in [Requests -> Row] /\ stamp' \in [Requests -> Time]
        /\ citeStamp' \in [Requests -> Time] /\ faulted' \in BOOLEAN
    <3>1. CASE ~Present(target[q]) /\ UNCHANGED <<held, faulted>>
               /\ Goto(q, IF pc[q] = "nread" THEN "get" ELSE "enqueue")
      BY <3>1 DEF Goto, Steps, TypeOK
    <3>2. CASE End(q, "failed") /\ UNCHANGED faulted
      BY <3>2, EndType DEF Steps, TypeOK
    <3>3. CASE End(q, "refused") /\ faulted' = (faulted \/ pc[q] = "nread")
      BY <3>3, EndType DEF Steps, TypeOK
    <3>4. CASE /\ base' = [base EXCEPT ![q] = rows[target[q]]]
               /\ stamp' = [stamp EXCEPT ![q] = now]
               /\ sawAt' = [sawAt EXCEPT ![q] = 0]
               /\ Goto(q, IF pc[q] = "read" THEN "write" ELSE "nwrite")
               /\ UNCHANGED <<citeStamp, faulted>>
      BY <3>4, TimeFacts DEF Goto, Steps, TypeOK
    <3> QED
      BY <1>4, <3>1, <3>2, <3>3, <3>4 DEF UpdateRead
  <2> QED
    BY <1>4, <2>1 DEF UpdateRead, TypeOK
<1>5. ASSUME NEW q \in Requests, UpdateWrite(q) PROVE TypeOK'
  <2>1. Updated(q) \in Row /\ AfterUpdate(q) \in Steps
    BY <1>5, UpdatedType DEF UpdateWrite
  <2>2. rows' \in [Reports -> Row] /\ pc' \in [Requests -> Steps]
    BY <1>5, <2>1 DEF UpdateWrite, Goto, TypeOK
  <2>3. raced' \in BOOLEAN /\ undated' \in BOOLEAN
    BY <1>5 DEF UpdateWrite, Commits, TypeOK
  <2>4. /\ clobbered' \in SUBSET Reports /\ tied' \in SUBSET Reports
        /\ base' \in [Requests -> Row]
    BY <1>5, NoRowType DEF UpdateWrite, TypeOK
  <2> QED
    BY <1>5, <2>2, <2>3, <2>4 DEF UpdateWrite, TypeOK
<1>6. ASSUME NEW q \in Requests, CitationRead(q) PROVE TypeOK'
  <2>1. pc' \in [Requests -> Steps] /\ citeStamp' \in [Requests -> Time]
    BY <1>6 DEF CitationRead, Goto, Steps, TypeOK
  <2> QED
    BY <1>6, <2>1 DEF CitationRead, TypeOK
<1>7. ASSUME NEW q \in Requests, CitationWrite(q) PROVE TypeOK'
  <2>1. /\ pc' \in [Requests -> Steps] /\ citeStamp' \in [Requests -> Time]
        /\ citeAt' \in Time /\ ready' \in BOOLEAN
    BY <1>7, TimeFacts DEF CitationWrite, Goto, Steps, TypeOK
  <2>2. raced' \in BOOLEAN /\ undated' \in BOOLEAN
    BY <1>7 DEF CitationWrite, Commits, TypeOK
  <2> QED
    BY <1>7, <2>1, <2>2 DEF CitationWrite, TypeOK
<1>8. ASSUME NEW q \in Requests, SaveTruth(q) PROVE TypeOK'
  <2>1. pc' \in [Requests -> Steps]
    BY <1>8 DEF SaveTruth, Goto, Steps, TypeOK
  <2>2. /\ pending' \in BOOLEAN
        /\ rb' \in [Rebuilders -> Rebuild]
    BY <1>8, EnqueueType DEF SaveTruth, TypeOK
  <2> QED
    BY <1>8, <2>1, <2>2 DEF SaveTruth, TypeOK
<1>9. ASSUME NEW q \in Requests, Reload(q) PROVE TypeOK'
  <2>1. /\ pc' \in [Requests -> Steps] /\ sawAt' \in [Requests -> Time]
        /\ base' \in [Requests -> Row] /\ stamp' \in [Requests -> Time]
        /\ citeStamp' \in [Requests -> Time]
    BY <1>9, EndType DEF Reload, Steps
  <2>2. /\ pending' \in BOOLEAN
        /\ rb' \in [Rebuilders -> Rebuild]
    BY <1>9, EnqueueType DEF Reload, TypeOK
  <2> QED
    BY <1>9, <2>1, <2>2 DEF Reload, TypeOK
<1>10. ASSUME NEW q \in Requests, EnqueueAndAnswer(q) PROVE TypeOK'
  <2>1. /\ pc' \in [Requests -> Steps] /\ sawAt' \in [Requests -> Time]
        /\ base' \in [Requests -> Row] /\ stamp' \in [Requests -> Time]
        /\ citeStamp' \in [Requests -> Time]
    BY <1>10, EndType DEF EnqueueAndAnswer, Steps
  <2> QED
    BY <1>10, <2>1, EnqueueType DEF EnqueueAndAnswer, TypeOK
<1>11. ASSUME NEW q \in Requests, Fail(q) PROVE TypeOK'
  <2>1. /\ pc' \in [Requests -> Steps] /\ sawAt' \in [Requests -> Time]
        /\ base' \in [Requests -> Row] /\ stamp' \in [Requests -> Time]
        /\ citeStamp' \in [Requests -> Time]
    BY <1>11, EndType DEF Fail, Steps
  <2>2. faults' \in 0 .. MaxFaults
    BY <1>11, BoundsAssumption DEF Fail, TypeOK
  <2> QED
    BY <1>11, <2>1, <2>2 DEF Fail, TypeOK
<1>12. ASSUME NEW k \in Rebuilders, RebuildStep(k) PROVE TypeOK'
  <2>1. CASE RebuildReports(k)
    <3>1. rb' \in [Rebuilders -> Rebuild]
      <4>1. [rb[k] EXCEPT !.step = "citations", !.open = OpenReports] \in
              Rebuild
        <5>1. /\ rb[k] \in Rebuild
              /\ OpenReports \in SUBSET Reports
          BY DEF TypeOK, OpenReports
        <5> QED
          BY <5>1 DEF Rebuild
      <4>2. rb' = [rb EXCEPT ![k] = [rb[k] EXCEPT !.step = "citations", !.open = OpenReports]]
        BY <2>1 DEF RebuildReports, TypeOK
      <4> QED
        BY <4>1, <4>2 DEF TypeOK
    <3> QED
      BY <2>1, <3>1 DEF RebuildReports, TypeOK
  <2>2. CASE RebuildCitations(k)
    <3>1. rb' \in [Rebuilders -> Rebuild]
      <4>1. [rb[k] EXCEPT !.step = "stamp", !.ready = ready] \in
              Rebuild
        <5>1. /\ rb[k] \in Rebuild
              /\ ready \in BOOLEAN
          BY DEF TypeOK, OpenReports
        <5> QED
          BY <5>1 DEF Rebuild
      <4>2. rb' = [rb EXCEPT ![k] = [rb[k] EXCEPT !.step = "stamp", !.ready = ready]]
        BY <2>2 DEF RebuildCitations, TypeOK
      <4> QED
        BY <4>1, <4>2 DEF TypeOK
    <3> QED
      BY <2>2, <3>1 DEF RebuildCitations, TypeOK
  <2>3. CASE RebuildStamp(k)
    <3>1. rb' \in [Rebuilders -> Rebuild]
      <4>1. [rb[k] EXCEPT !.step = "save", !.at = now] \in
              Rebuild
        <5>1. /\ rb[k] \in Rebuild
              /\ now \in Time
          BY DEF TypeOK, OpenReports
        <5> QED
          BY <5>1 DEF Rebuild
      <4>2. rb' = [rb EXCEPT ![k] = [rb[k] EXCEPT !.step = "save", !.at = now]]
        BY <2>3 DEF RebuildStamp, TypeOK
      <4> QED
        BY <4>1, <4>2 DEF TypeOK
    <3> QED
      BY <2>3, <3>1 DEF RebuildStamp, TypeOK
  <2>4. CASE RebuildSave(k)
    <3>1. rb' \in [Rebuilders -> Rebuild]
      BY <2>4, NoRebuildType DEF RebuildSave, TypeOK
    <3>2. summary' \in Summary
      BY <2>4 DEF RebuildSave, Summary, Rebuild, TypeOK
    <3>3. /\ pending' \in BOOLEAN /\ raced' \in BOOLEAN /\ undated' \in BOOLEAN
          /\ faulted' \in BOOLEAN
      BY <2>4 DEF RebuildSave, TypeOK
    <3> QED
      BY <2>4, <3>1, <3>2, <3>3 DEF RebuildSave, TypeOK
  <2> QED
    BY <1>12, <2>1, <2>2, <2>3, <2>4 DEF RebuildStep
<1>13. CASE View
  <2>1. /\ pending' \in BOOLEAN
        /\ rb' \in [Rebuilders -> Rebuild]
    <3>1. CASE Enqueue
      BY <3>1, EnqueueType
    <3>2. CASE /\ rb' = [rb EXCEPT !["view"] = [NoRebuild EXCEPT !.step = "reports"]]
               /\ UNCHANGED pending
      BY <3>2, NoRebuildType DEF TypeOK, Rebuild
    <3> QED
      BY <1>13, <3>1, <3>2 DEF View
  <2> QED
    BY <1>13, <2>1 DEF View, TypeOK
<1>14. CASE Crash
  <2>1. pc' \in [Requests -> Steps]
    BY <1>14 DEF Crash, Steps, TypeOK
  <2>2. /\ sawAt' \in [Requests -> Time] /\ base' \in [Requests -> Row]
        /\ stamp' \in [Requests -> Time] /\ citeStamp' \in [Requests -> Time]
    <3>1. Forget(Requests) /\ Requests \in SUBSET Requests
      BY <1>14 DEF Crash
    <3> QED
      BY <3>1, ForgetType
  <2>3. faults' \in 0 .. MaxFaults
    BY <1>14, BoundsAssumption DEF Crash, TypeOK
  <2>4. rb' \in [Rebuilders -> Rebuild]
    BY <1>14, NoRebuildType DEF Crash
  <2> QED
    BY <1>14, <2>1, <2>2, <2>3, <2>4 DEF Crash, TypeOK
<1>15. CASE Tick
  <2>1. now' \in Time
    BY <1>15, BoundsAssumption DEF Tick, Time, TypeOK
  <2> QED
    BY <1>15, <2>1 DEF Tick, TypeOK
<1>16. CASE UNCHANGED vars
  BY <1>16 DEF vars, TypeOK, Present, OpenReports
<1> QED
  BY <1>1, <1>2, <1>3, <1>4, <1>5, <1>6, <1>7, <1>8, <1>9, <1>10, <1>11, <1>12,
     <1>13, <1>14, <1>15, <1>16 DEF Next, RequestStep

-----------------------------------------------------------------------------
\* The first state.

LEMMA IInit == Init => IInv
<1> SUFFICES ASSUME Init PROVE IInv
  OBVIOUS
<1>1. TypeOK
  BY TypeInit
<1>2. \A q \in Requests : pc[q] = "idle" /\ base[q] = NoRow /\ stamp[q] = 0
  BY DEF Init
<1>3. now = 1 /\ clobbered = {} /\ tied = {}
  BY DEF Init
<1>4. \A r \in Reports : rows[r].events = {} /\ rows[r].at = 0
  BY NoRowType DEF Init, NoRow
<1>5. Flow
  BY <1>2 DEF Flow
<1>6. Life
  <2>1. \A q \in Requests : op[q] = "post" => rows[target[q]] = NoRow
    BY DEF Init
  <2>2. \A p, q \in Requests :
          op[p] = "post" /\ op[q] = "post" /\ target[p] = target[q] => p = q
    BY DEF Init
  <2> QED
    BY <1>2, <2>1, <2>2, NoRowType DEF Life
<1>7. Timed
  BY <1>2, <1>3, <1>4 DEF Timed
<1>8. Known
  BY <1>2, <1>4, NoRowType DEF Known
<1>9. Kept
  BY <1>2 DEF Kept, Written, Noted
<1>10. Seen
  BY <1>2 DEF Seen
<1>11. DecisionsInTurn
  BY <1>4 DEF DecisionsInTurn
<1> QED
  BY <1>1, <1>5, <1>6, <1>7, <1>8, <1>9, <1>10, <1>11 DEF IInv

-----------------------------------------------------------------------------
\* Steps that touch no report.

\* What such a step may do to a request.
Moves == {<<"cread", "cwrite">>, <<"cwrite", "truth">>, <<"truth", "nread">>}

Quiet(q) ==
    \/ pc'[q] = pc[q] /\ sawAt'[q] = sawAt[q] /\ base'[q] = base[q] /\ stamp'[q] = stamp[q]
    \/ /\ pc[q] \in Ended \cup {"idle"} /\ pc'[q] = pc[q]
       /\ base'[q] = NoRow /\ stamp'[q] = 0
    \/ /\ pc[q] # "idle"
       /\ base'[q] \in {base[q], NoRow} /\ stamp'[q] \in {stamp[q], 0}
       /\ \/ pc'[q] \in {"failed", "refused"}
          \/ pc[q] \in {"get", "enqueue"} /\ pc'[q] = "done"
          \/ <<pc[q], pc'[q]>> \in Moves
          \/ pc[q] = "nread" /\ pc'[q] = "get" /\ ~Present(target[q])
          \/ pc[q] = "read" /\ pc'[q] = "enqueue" /\ op[q] \in Patches

LEMMA QuietStep ==
  ASSUME IInv, TypeOK',
         UNCHANGED <<now, rows, op, target, saw, clobbered, tied>>,
         \A q \in Requests : Quiet(q)
  PROVE  IInv'
<1> USE DEF IInv
<1>1. \A q \in Requests : pc'[q] = "idle" <=> pc[q] = "idle"
  BY DEF Quiet, Moves, Ended
<1>2. Flow'
  <2> SUFFICES ASSUME NEW q \in Requests
               PROVE  /\ pc'[q] = "insert" => op[q] = "post"
                      /\ pc'[q] = "delete" => op[q] = "delete"
                      /\ pc'[q] \in {"read", "write"} => op[q] \in Locked \cup Patches
                      /\ pc'[q] \in {"cread", "cwrite", "truth", "nread", "nwrite"}
                            => op[q] \in {"truth", "fields"}
                      /\ pc'[q] \in {"cread", "cwrite"} => op[q] = "fields"
                      /\ pc'[q] = "get" => op[q] \in Locked
                      /\ pc'[q] = "enqueue" => op[q] \notin Locked
    BY DEF Flow
  <2>1. Quiet(q)
    OBVIOUS
  <2> QED
    BY <2>1 DEF Quiet, Moves, Ended, Flow, Locked, Decisions, Patches
<1>3. Life'
  <2>1. \A q \in Requests : pc'[q] = "insert" => pc[q] = "insert"
    BY DEF Quiet, Moves, Ended
  <2>2. \A q \in Requests : pc'[q] \in {"write", "nwrite"} =>
                              pc[q] = pc'[q] /\ base'[q] = base[q]
    BY DEF Quiet, Moves, Ended
  <2> QED
    BY <1>1, <2>1, <2>2 DEF Life
<1>4. Timed'
  <2>1. \A q \in Requests : pc'[q] \in {"write", "nwrite"} =>
                    pc[q] = pc'[q] /\ base'[q] = base[q] /\ stamp'[q] = stamp[q]
    BY DEF Quiet, Moves, Ended
  <2>2. \A q \in Requests : stamp'[q] \in {stamp[q], 0}
    BY DEF Quiet
  <2>3. now \in Nat
    BY TimeFacts DEF TypeOK
  <2> QED
    BY <2>1, <2>2, <2>3 DEF Timed
<1>5. Known'
  <2>1. \A q \in Requests : base'[q].events \subseteq base[q].events
    BY NoRowType DEF Quiet
  <2>2. \A q \in Requests : \A p \in base[q].events : p \in Requests
    BY DEF TypeOK, Row
  <2>3. \A r \in Reports : \A p \in rows[r].events : p \in Requests
    BY DEF TypeOK, Row
  <2> QED
    BY <1>1, <2>1, <2>2, <2>3 DEF Known
<1>6. Kept'
  <2> SUFFICES ASSUME NEW q \in Requests, op[q] \in Locked, Present(target[q]),
                      target[q] \notin clobbered
               PROVE  /\ pc'[q] \in Written => q \in rows[target[q]].events
                      /\ pc'[q] \in Noted /\ op[q] \in {"truth", "fields"}
                            => q \in rows[target[q]].notes
    BY DEF Kept, Present
  <2>1. pc[q] # "enqueue"
    BY DEF Flow
  <2>2. Quiet(q)
    OBVIOUS
  <2>3. pc'[q] \in Written => pc[q] \in Written
    BY <2>1, <2>2 DEF Quiet, Moves, Ended, Written, Locked, Decisions, Patches
  <2>4. pc'[q] \in Noted => pc[q] \in Noted
    BY <2>1, <2>2 DEF Quiet, Moves, Ended, Noted
  <2> QED
    BY <2>3, <2>4 DEF Kept
<1>7. Seen'
  <2>1. \A q \in Requests : pc'[q] = "read" => pc[q] = "read" /\ sawAt'[q] = sawAt[q]
    BY DEF Quiet, Moves, Ended
  <2>2. \A q \in Requests : pc'[q] = "write" => pc[q] = "write" /\ base'[q] = base[q]
    BY DEF Quiet, Moves, Ended
  <2> QED
    BY <2>1, <2>2 DEF Seen, Clear, Present
<1>8. DecisionsInTurn'
  BY DEF DecisionsInTurn
<1> QED
  BY <1>2, <1>3, <1>4, <1>5, <1>6, <1>7, <1>8

LEMMA EndQuiet ==
  ASSUME TypeOK, NEW q \in Requests, NEW how, End(q, how), pc[q] # "idle",
         \/ how \in {"failed", "refused"}
         \/ pc[q] \in {"get", "enqueue"} /\ how = "done"
  PROVE  \A p \in Requests : Quiet(p)
<1> TAKE p \in Requests
<1>1. CASE p = q
  <2>1. pc'[q] = how /\ base'[q] = NoRow /\ stamp'[q] = 0
    BY DEF End, Goto, Forget, TypeOK
  <2> QED
    BY <1>1, <2>1 DEF Quiet
<1>2. CASE p # q
  BY <1>2 DEF End, Goto, Forget, TypeOK, Quiet
<1> QED
  BY <1>1, <1>2

LEMMA QuietSteps ==
  ASSUME IInv, TypeOK', NEW q \in Requests,
         \/ CitationRead(q) \/ CitationWrite(q) \/ SaveTruth(q)
         \/ Reload(q) \/ EnqueueAndAnswer(q) \/ Fail(q)
  PROVE  IInv'
<1> USE DEF IInv, sources, rebuilding, reviewing, marks
<1>1. CASE CitationRead(q) \/ CitationWrite(q) \/ SaveTruth(q)
  <2>1. /\ UNCHANGED <<now, rows, op, target, saw, sawAt, base, stamp, clobbered, tied>>
        /\ \E step \in Steps : Goto(q, step) /\ <<pc[q], step>> \in Moves
    BY <1>1 DEF CitationRead, CitationWrite, SaveTruth, Moves, Steps
  <2>2. \A p \in Requests : Quiet(p)
    BY <2>1 DEF Goto, Quiet, TypeOK, Moves
  <2> QED
    BY <2>1, <2>2, QuietStep
<1>2. CASE Reload(q) \/ EnqueueAndAnswer(q) \/ Fail(q)
  <2>1. UNCHANGED <<now, rows, op, target, saw, clobbered, tied>>
    BY <1>2 DEF Reload, EnqueueAndAnswer, Fail
  <2>2. \A p \in Requests : Quiet(p)
    <3>1. /\ pc[q] # "idle"
          /\ \/ End(q, "failed")
             \/ pc[q] \in {"get", "enqueue"} /\ End(q, "done")
      BY <1>2 DEF Reload, EnqueueAndAnswer, Fail, Ended
    <3> QED
      BY <3>1, EndQuiet
  <2> QED
    BY <2>1, <2>2, QuietStep
<1> QED
  BY <1>1, <1>2

LEMMA OtherSteps ==
  ASSUME IInv, TypeOK',
         (\E k \in Rebuilders : RebuildStep(k)) \/ View \/ Crash \/ UNCHANGED vars
  PROVE  IInv'
<1> USE DEF IInv, sources, rebuilding, reviewing, marks
<1>1. CASE (\E k \in Rebuilders : RebuildStep(k)) \/ View \/ UNCHANGED vars
  <2>1. UNCHANGED <<now, rows, op, target, saw, sawAt, base, stamp, pc, clobbered, tied>>
    BY <1>1 DEF RebuildStep, RebuildReports, RebuildCitations, RebuildStamp, RebuildSave,
                View, vars
  <2>2. \A p \in Requests : Quiet(p)
    BY <2>1 DEF Quiet
  <2> QED
    BY <2>1, <2>2, QuietStep
<1>2. CASE Crash
  <2>1. UNCHANGED <<now, rows, op, target, saw, clobbered, tied>>
    BY <1>2 DEF Crash
  <2>2. ASSUME NEW p \in Requests PROVE Quiet(p)
    <3>1. base'[p] = NoRow /\ stamp'[p] = 0 /\ sawAt'[p] = 0
      BY <1>2 DEF Crash, Forget
    <3>2. pc'[p] = IF pc[p] \in Ended \cup {"idle"} THEN pc[p] ELSE "failed"
      BY <1>2 DEF Crash
    <3> QED
      BY <3>1, <3>2 DEF Quiet
  <2> QED
    BY <2>1, <2>2, QuietStep
<1> QED
  BY <1>1, <1>2

-----------------------------------------------------------------------------
\* Steps of a request that touch a report or look at it.

LEMMA ArriveStep ==
  ASSUME IInv, TypeOK', NEW q \in Requests, Arrive(q)
  PROVE  IInv'
<1> USE DEF IInv, sources, rebuilding, marks
<1> DEFINE r == target[q]
<1>1. /\ UNCHANGED <<now, rows, op, target, base, clobbered, tied>>
      /\ pc[q] = "idle" /\ (op[q] # "post" => Present(r))
  BY DEF Arrive
<1>2. /\ pc'[q] = IF op[q] = "post" THEN "insert"
                  ELSE IF op[q] = "delete" THEN "delete" ELSE "read"
      /\ saw'[q] = IF op[q] \in Decisions THEN rows[r].events ELSE {}
      /\ sawAt'[q] = rows[r].at
      /\ stamp'[q] = IF op[q] = "post" THEN now ELSE 0
  BY DEF Arrive, Goto, TypeOK
<1>3. \A p \in Requests \ {q} : /\ pc'[p] = pc[p] /\ saw'[p] = saw[p]
                               /\ sawAt'[p] = sawAt[p] /\ stamp'[p] = stamp[p]
  BY DEF Arrive, Goto, TypeOK
<1>4. op[q] \in Ops /\ r \in Reports /\ now \in Nat
  BY TimeFacts DEF TypeOK
<1>5. Flow'
  BY <1>1, <1>2, <1>3, <1>4 DEF Flow, Ops
<1>6. Life'
  BY <1>1, <1>2, <1>3, <1>4 DEF Life, Present
<1>7. Timed'
  BY <1>1, <1>2, <1>3, <1>4 DEF Timed
<1>8. Known'
  <2>1. \A p \in Requests : pc[p] # "idle" => pc'[p] # "idle"
    BY <1>1, <1>3
  <2>2. \A p \in Requests : \A e \in base[p].events : e \in Requests
    BY DEF TypeOK, Row
  <2>3. \A s \in Reports : \A e \in rows[s].events : e \in Requests
    BY DEF TypeOK, Row
  <2> QED
    BY <1>1, <2>1, <2>2, <2>3 DEF Known
<1>9. Kept'
  BY <1>1, <1>2, <1>3 DEF Kept, Written, Noted, Present
<1>10. Seen'
  <2>1. rows[r].at \in Nat
    BY <1>4, TimeFacts DEF TypeOK, Row
  <2> QED
    BY <1>1, <1>2, <1>3, <2>1 DEF Seen, Clear, Present
<1>11. DecisionsInTurn'
  <2> SUFFICES ASSUME NEW s \in Reports \ (clobbered \cup tied),
                      NEW a \in rows[s].events, NEW b \in rows[s].events,
                      a # b, {op[a], op[b]} \subseteq Decisions
               PROVE  a \in saw'[b] \/ b \in saw'[a]
    BY <1>1 DEF DecisionsInTurn
  <2>1. a \in Requests \ {q} /\ b \in Requests \ {q}
    BY <1>1 DEF Known, TypeOK, Row
  <2> QED
    BY <1>3, <2>1 DEF DecisionsInTurn
<1> QED
  BY <1>5, <1>6, <1>7, <1>8, <1>9, <1>10, <1>11

\* An insertion or a deletion: no one has left anything in the new row.
LEMMA RowStep ==
  ASSUME IInv, TypeOK', NEW q \in Requests, Insert(q) \/ Delete(q)
  PROVE  IInv'
<1> USE DEF IInv, rebuilding
<1> DEFINE r == target[q]
<1>1. /\ UNCHANGED <<now, op, target, saw, sawAt, base, stamp, clobbered, tied>>
      /\ pc[q] \in {"insert", "delete"}
  BY DEF Insert, Delete
<1>2. pc'[q] = "enqueue" /\ \A p \in Requests \ {q} : pc'[p] = pc[p]
  BY DEF Insert, Delete, Goto, TypeOK
<1>3. /\ rows'[r].events = {}
      /\ pc[q] = "insert" => rows'[r].status = "pending" /\ rows'[r].at = stamp[q]
      /\ pc[q] = "delete" => rows'[r].status = "gone" /\ rows'[r].at = 0
      /\ \A s \in Reports \ {r} : rows'[s] = rows[s]
  <2>1. rows \in [Reports -> Row] /\ r \in Reports
    BY DEF TypeOK
  <2>2. CASE Insert(q)
    <3>1. rows' = [rows EXCEPT ![r] = [NoRow EXCEPT !.status = "pending", !.at = stamp[q]]]
      BY <2>2 DEF Insert
    <3> QED
      BY <2>1, <2>2, <3>1 DEF Insert, NoRow
  <2>3. CASE Delete(q)
    <3>1. rows' = [rows EXCEPT ![r] = [NoRow EXCEPT !.status = "gone"]]
      BY <2>3 DEF Delete
    <3> QED
      BY <2>1, <2>3, <3>1 DEF Delete, NoRow
  <2> QED
    BY <2>2, <2>3
<1>4. r \in Reports /\ now \in Nat /\ \A p \in Requests : target[p] \in Reports
  BY TimeFacts DEF TypeOK
<1>5. \* no one but a post is after its arrival at a report that was new
      pc[q] = "insert" => /\ op[q] = "post"
                          /\ \A p \in Requests \ {q} : target[p] = r =>
                                op[p] # "post" /\ pc[p] = "idle"
  BY <1>4 DEF Flow, Life
<1>6. Flow'
  <2>1. op[q] \notin Locked
    BY <1>1 DEF Flow, Locked, Decisions
  <2> QED
    BY <1>1, <1>2, <2>1 DEF Flow
<1>7. Life'
  <2>1. \A p \in Requests : op[p] = "post" /\ pc'[p] \in {"idle", "insert"}
                               => rows'[target[p]].status = "new"
    <3> TAKE p \in Requests
    <3> HAVE op[p] = "post" /\ pc'[p] \in {"idle", "insert"}
    <3>1. p # q /\ pc[p] = pc'[p]
      BY <1>2
    <3>2. rows[target[p]].status = "new"
      BY <3>1 DEF Life
    <3>3. target[p] # r
      <4>1. CASE pc[q] = "insert"
        BY <1>5, <3>1, <4>1
      <4>2. CASE pc[q] = "delete"
        BY <3>2, <4>2 DEF Life, Flow
      <4> QED
        BY <1>1, <4>1, <4>2
    <3> QED
      BY <1>3, <1>4, <3>2, <3>3
  <2>2. \A p \in Requests : op[p] # "post" /\ pc'[p] # "idle"
                               => rows'[target[p]].status # "new"
    BY <1>1, <1>2, <1>3, <1>4 DEF Life, Flow
  <2>3. \A p \in Requests : pc'[p] \in {"write", "nwrite"} => pc[p] = pc'[p]
    BY <1>2
  <2> QED
    BY <1>1, <2>1, <2>2, <2>3 DEF Life
<1>8. Timed'
  <2>1. \A s \in Reports : rows'[s].at <= now
    BY <1>1, <1>3, <1>4 DEF Timed
  <2> QED
    BY <1>1, <1>2, <2>1 DEF Timed
<1>9. Known'
  <2>1. \A p \in Requests : pc[p] # "idle" => pc'[p] # "idle"
    BY <1>2
  <2>2. \A p \in Requests : \A e \in base[p].events : e \in Requests
    BY DEF TypeOK, Row
  <2>3. \A s \in Reports : \A e \in rows[s].events : e \in Requests
    BY DEF TypeOK, Row
  <2>4. \A s \in Reports : rows'[s].events \subseteq rows[s].events
    BY <1>3
  <2> QED
    BY <1>1, <2>1, <2>2, <2>3, <2>4 DEF Known
<1>10. Kept'
  <2> SUFFICES ASSUME NEW p \in Requests, op[p] \in Locked, Present(target[p])',
                      target[p] \notin clobbered
               PROVE  /\ pc'[p] \in Written => p \in rows'[target[p]].events
                      /\ pc'[p] \in Noted /\ op[p] \in {"truth", "fields"}
                            => p \in rows'[target[p]].notes
    BY <1>1 DEF Kept
  <2>1. p # q
    BY <1>1 DEF Flow, Locked, Decisions
  <2>2. CASE target[p] = r
    <3>1. pc[q] = "insert"
      BY <1>1, <1>3, <2>2 DEF Present
    <3>2. pc'[p] = "idle"
      BY <1>2, <1>5, <2>1, <2>2, <3>1
    <3> QED
      BY <3>2 DEF Written, Noted
  <2>3. CASE target[p] # r
    BY <1>1, <1>2, <1>3, <1>4, <2>1, <2>3 DEF Kept, Present
  <2> QED
    BY <2>2, <2>3
<1>11. Seen'
  <2> SUFFICES ASSUME NEW p \in Requests, op[p] \in Decisions, Clear(target[p])
               PROVE  /\ pc'[p] = "read" /\ Present(target[p])' =>
                           /\ sawAt[p] <= rows'[target[p]].at
                           /\ sawAt[p] = rows'[target[p]].at
                                 => rows'[target[p]].events \subseteq saw[p]
                      /\ pc'[p] = "write" => base[p].events \subseteq saw[p]
    BY <1>1 DEF Seen, Clear
  <2>1. p # q
    BY <1>1 DEF Flow, Decisions
  <2>2. CASE target[p] = r
    <3>1. pc[q] = "insert" => pc'[p] = "idle"
      BY <1>2, <1>5, <2>1, <2>2
    <3>2. pc[q] = "delete" => ~Present(target[p])'
      BY <1>1, <1>3, <2>2 DEF Present
    <3> QED
      BY <1>1, <1>2, <2>1, <3>1, <3>2 DEF Seen
  <2>3. CASE target[p] # r
    BY <1>1, <1>2, <1>3, <1>4, <2>1, <2>3 DEF Seen, Present
  <2> QED
    BY <2>2, <2>3
<1>12. DecisionsInTurn'
  <2>1. \A s \in Reports : rows'[s].events \subseteq rows[s].events
    BY <1>3
  <2> QED
    BY <1>1, <2>1 DEF DecisionsInTurn
<1> QED
  BY <1>6, <1>7, <1>8, <1>9, <1>10, <1>11, <1>12

LEMMA UpdateReadStep ==
  ASSUME IInv, TypeOK', NEW q \in Requests, UpdateRead(q)
  PROVE  IInv'
<1> USE DEF IInv, sources, rebuilding, held
<1> DEFINE r == target[q]
<1>1. /\ UNCHANGED <<now, rows, op, target, saw, clobbered, tied>>
      /\ pc[q] \in {"read", "nread"}
  BY DEF UpdateRead
<1>2. CASE /\ ~Present(r) /\ (pc[q] = "nread" \/ op[q] \in Patches)
           /\ Goto(q, IF pc[q] = "nread" THEN "get" ELSE "enqueue")
           /\ UNCHANGED held
  <2>1. \A p \in Requests : Quiet(p)
    BY <1>1, <1>2 DEF Goto, Quiet, TypeOK
  <2> QED
    BY <1>1, <2>1, QuietStep
<1>3. CASE End(q, "failed") \/ End(q, "refused")
  <2>1. \A p \in Requests : Quiet(p)
    BY <1>1, <1>3, EndQuiet
  <2> QED
    BY <1>1, <2>1, QuietStep
<1>4. CASE /\ Present(r) /\ ~Conflict(q)
           /\ base' = [base EXCEPT ![q] = rows[r]]
           /\ stamp' = [stamp EXCEPT ![q] = now]
           /\ sawAt' = [sawAt EXCEPT ![q] = 0]
           /\ Goto(q, IF pc[q] = "read" THEN "write" ELSE "nwrite")
  <2>1. /\ pc'[q] = IF pc[q] = "read" THEN "write" ELSE "nwrite"
        /\ base'[q] = rows[r] /\ stamp'[q] = now
    BY <1>4 DEF Goto, TypeOK
  <2>2. \A p \in Requests \ {q} : /\ pc'[p] = pc[p] /\ base'[p] = base[p]
                                 /\ stamp'[p] = stamp[p] /\ sawAt'[p] = sawAt[p]
    BY <1>4 DEF Goto, TypeOK
  <2>3. r \in Reports /\ now \in Nat
    BY TimeFacts DEF TypeOK
  <2>4. Flow'
    BY <1>1, <2>1, <2>2 DEF Flow
  <2>5. Life'
    BY <1>1, <1>4, <2>1, <2>2 DEF Life, Present
  <2>6. Timed'
    BY <1>1, <2>1, <2>2, <2>3 DEF Timed
  <2>7. Known'
    <3>1. \A p \in Requests : pc[p] # "idle" => pc'[p] # "idle"
      BY <1>1, <2>1, <2>2
    <3>2. \A p \in Requests : \A e \in base[p].events : e \in Requests
      BY DEF TypeOK, Row
    <3>3. \A s \in Reports : \A e \in rows[s].events : e \in Requests
      BY DEF TypeOK, Row
    <3> QED
      BY <1>1, <2>1, <2>2, <2>3, <3>1, <3>2, <3>3 DEF Known
  <2>8. Kept'
    <3>1. \A p \in Requests : pc'[p] \in Written => pc[p] \in Written
      BY <1>1, <2>1, <2>2 DEF Written
    <3>2. \A p \in Requests : pc'[p] \in Noted => pc[p] \in Noted
      BY <1>1, <2>1, <2>2 DEF Noted
    <3> QED
      BY <1>1, <3>1, <3>2 DEF Kept, Present
  <2>9. Seen'
    <3>1. ASSUME op[q] \in Decisions, Clear(r), pc'[q] = "write"
          PROVE  base'[q].events \subseteq saw[q]
      <4>1. pc[q] = "read" /\ rows[r].at = sawAt[q]
        BY <1>1, <1>4, <2>1, <3>1 DEF Conflict, Locked
      <4> QED
        BY <1>4, <2>1, <3>1, <4>1 DEF Seen
    <3> QED
      BY <1>1, <2>1, <2>2, <3>1 DEF Seen, Clear, Present
  <2>10. DecisionsInTurn'
    BY <1>1 DEF DecisionsInTurn
  <2> QED
    BY <2>4, <2>5, <2>6, <2>7, <2>8, <2>9, <2>10
<1> QED
  BY <1>2, <1>3, <1>4 DEF UpdateRead

\* What an update that is not the first to write over another one leaves.
LEMMA WriteFacts ==
  ASSUME IInv, NEW q \in Requests, UpdateWrite(q)
  PROVE  /\ UNCHANGED <<now, op, target, saw, sawAt, stamp>>
         /\ \A s \in Reports \ {target[q]} : rows'[s] = rows[s]
         /\ rows'[target[q]] = IF Present(target[q]) THEN Updated(q) ELSE rows[target[q]]
         /\ pc'[q] = AfterUpdate(q) /\ base'[q] = NoRow
         /\ \A p \in Requests \ {q} : pc'[p] = pc[p] /\ base'[p] = base[p]
         /\ clobbered \subseteq clobbered' /\ tied \subseteq tied'
         /\ target[q] \notin clobbered' => rows[target[q]] = base[q]
         /\ target[q] \notin tied' /\ Present(target[q]) => rows[target[q]].at # stamp[q]
<1> USE DEF IInv, rebuilding
<1>1. target[q] \in Reports /\ rows \in [Reports -> Row] /\ pc \in [Requests -> Steps]
      /\ base \in [Requests -> Row]
  BY DEF TypeOK
<1>2. /\ UNCHANGED <<now, op, target, saw, sawAt, stamp>>
      /\ rows' = [rows EXCEPT ![target[q]] =
                     IF Present(target[q]) THEN Updated(q) ELSE rows[target[q]]]
      /\ base' = [base EXCEPT ![q] = NoRow]
      /\ pc' = [pc EXCEPT ![q] = AfterUpdate(q)]
  BY DEF UpdateWrite, Goto
<1>3. /\ clobbered' = IF rows[target[q]] # base[q] THEN clobbered \cup {target[q]} ELSE clobbered
      /\ tied' = IF Present(target[q]) /\ rows[target[q]].at = stamp[q]
                 THEN tied \cup {target[q]} ELSE tied
  BY DEF UpdateWrite
<1> QED
  BY <1>1, <1>2, <1>3

LEMMA UpdatedFacts ==
  ASSUME IInv, NEW q \in Requests, pc[q] \in {"write", "nwrite"}
  PROVE  /\ Updated(q).status \notin {"new", "gone"}
         /\ Updated(q).at = stamp[q]
         /\ base[q].events \subseteq Updated(q).events
         /\ Updated(q).events \subseteq base[q].events \cup {q}
         /\ pc[q] = "nwrite" => Updated(q).events = base[q].events
         /\ pc[q] = "write" /\ op[q] \in Locked => q \in Updated(q).events
         /\ op[q] \notin Locked => Updated(q).events = base[q].events
         /\ base[q].notes \subseteq Updated(q).notes
         /\ pc[q] = "nwrite" => q \in Updated(q).notes
<1>1. base[q].status \notin {"new", "gone"}
  BY DEF IInv, Life
<1>2. Updated(q).status \in {base[q].status, "pending", "rejected", "accepted"}
  BY DEF Updated
<1> QED
  BY <1>1, <1>2 DEF Updated

LEMMA UpdateWriteStep ==
  ASSUME IInv, TypeOK', NEW q \in Requests, UpdateWrite(q)
  PROVE  IInv'
<1> USE DEF IInv
<1> DEFINE r == target[q]
<1>1. pc[q] \in {"write", "nwrite"}
  BY DEF UpdateWrite
<1>2. r \in Reports /\ now \in Nat /\ \A p \in Requests : target[p] \in Reports
  BY TimeFacts DEF TypeOK
<1>3. op[q] \in Locked \cup Patches /\ (pc[q] = "nwrite" => op[q] \in {"truth", "fields"})
  BY <1>1 DEF Flow, Locked, Decisions
<1>4. /\ pc'[q] \in {"get", "enqueue", "cread", "truth"}
      /\ pc'[q] = "enqueue" => op[q] \notin Locked
      /\ pc'[q] \in {"cread", "truth"} => op[q] \in {"truth", "fields"} /\ pc[q] = "write"
      /\ pc'[q] = "cread" => op[q] = "fields"
      /\ pc'[q] = "get" => op[q] \in Locked /\ (pc[q] = "nwrite" \/ op[q] \notin {"truth", "fields"})
  <2>1. pc'[q] = AfterUpdate(q)
    BY WriteFacts
  <2>2. op[q] \in {"comment", "reject", "resolve", "truth", "fields", "reopen", "close"}
    BY <1>3 DEF Locked, Decisions, Patches
  <2>3. op[q] \notin Locked <=> op[q] \in Patches
    BY <2>2 DEF Locked, Decisions, Patches
  <2>4. CASE pc[q] = "nwrite"
    BY <1>3, <2>1, <2>2, <2>3, <2>4 DEF AfterUpdate, Patches
  <2>5. CASE pc[q] = "write"
    BY <2>1, <2>2, <2>3, <2>5 DEF AfterUpdate, Patches
  <2> QED
    BY <1>1, <2>4, <2>5
<1>5. \A p \in Requests : pc[p] # "idle" <=> pc'[p] # "idle"
  BY <1>1, <1>4, WriteFacts
<1>6. \A s \in Reports : rows'[s].status \in {"new", "gone"} <=> rows[s].status \in {"new", "gone"}
  BY <1>1, <1>2, WriteFacts, UpdatedFacts DEF Present
<1>7. \A s \in Reports : rows[s].status \in {"new", "gone"} => rows'[s] = rows[s]
  BY <1>2, WriteFacts DEF Present
<1>8. Flow'
  BY <1>4, WriteFacts DEF Flow
<1>9. Life'
  <2>1. \A s \in Reports : rows'[s].status = "new" <=> rows[s].status = "new"
    BY <1>6, <1>7
  <2>2. \A p \in Requests : pc'[p] \in {"write", "nwrite"} => pc[p] = pc'[p] /\ base'[p] = base[p]
    BY <1>4, WriteFacts
  <2>3. \A p \in Requests : pc'[p] \in {"idle", "insert"} => pc[p] = pc'[p]
    BY <1>4, WriteFacts
  <2> QED
    BY <1>2, <1>5, <2>1, <2>2, <2>3, WriteFacts DEF Life
<1>10. Timed'
  <2>1. rows'[r].at <= now
    BY <1>1, <1>2, WriteFacts, UpdatedFacts DEF Timed
  <2> QED
    BY <1>2, <1>4, <2>1, WriteFacts DEF Timed
<1>11. Known'
  <2>1. \A p \in base[q].events : p \in Requests /\ pc[p] # "idle"
    BY DEF Known, TypeOK, Row
  <2>2. \A s \in Reports : \A p \in rows[s].events : p \in Requests /\ pc[p] # "idle"
    BY DEF Known, TypeOK, Row
  <2>3. ASSUME NEW s \in Reports, NEW p \in rows'[s].events PROVE pc'[p] # "idle"
    <3>1. p \in rows[s].events \/ p \in base[q].events \/ p = q
      BY <1>1, <2>3, WriteFacts, UpdatedFacts
    <3> QED
      BY <1>1, <1>5, <2>1, <2>2, <3>1
  <2>4. ASSUME NEW a \in Requests, NEW p \in base'[a].events PROVE pc'[p] # "idle"
    <3>1. p \in base[a].events
      BY <2>4, WriteFacts, NoRowType
    <3> QED
      BY <1>5, <3>1 DEF Known, TypeOK, Row
  <2> QED
    BY <2>3, <2>4 DEF Known
<1>12. Kept'
  <2> SUFFICES ASSUME NEW p \in Requests, op[p] \in Locked, Present(target[p])',
                      target[p] \notin clobbered'
               PROVE  /\ pc'[p] \in Written => p \in rows'[target[p]].events
                      /\ pc'[p] \in Noted /\ op[p] \in {"truth", "fields"}
                            => p \in rows'[target[p]].notes
    BY WriteFacts DEF Kept
  <2>1. target[p] \notin clobbered /\ Present(target[p])
    BY <1>2, <1>6, WriteFacts DEF Present
  <2>2. CASE target[p] # r
    <3>1. p # q /\ rows'[target[p]] = rows[target[p]] /\ pc'[p] = pc[p]
      BY <1>2, <2>2, WriteFacts
    <3> QED
      BY <2>1, <3>1 DEF Kept
  <2>3. CASE target[p] = r
    <3>1. /\ rows[r].events \subseteq rows'[r].events /\ rows[r].notes \subseteq rows'[r].notes
          /\ rows'[r] = Updated(q)
      BY <1>1, <2>1, <2>3, WriteFacts, UpdatedFacts
    <3>2. CASE p # q
      BY <2>1, <2>3, <3>1, <3>2, WriteFacts DEF Kept
    <3>3. CASE p = q
      <4>1. q \in rows'[r].events
        <5>1. CASE pc[q] = "write"
          BY <3>1, <3>3, <5>1, UpdatedFacts
        <5>2. CASE pc[q] = "nwrite"
          BY <2>1, <2>3, <3>1, <3>3, <5>2 DEF Kept, Written
        <5> QED
          BY <1>1, <5>1, <5>2
      <4>2. pc'[q] \in Noted /\ op[q] \in {"truth", "fields"} => q \in rows'[r].notes
        BY <1>1, <1>4, <3>1, UpdatedFacts DEF Noted
      <4> QED
        BY <3>3, <4>1, <4>2
    <3> QED
      BY <3>2, <3>3
  <2> QED
    BY <2>2, <2>3
<1>13. Seen'
  <2> SUFFICES ASSUME NEW p \in Requests, op[p] \in Decisions, Clear(target[p])'
               PROVE  /\ pc'[p] = "read" /\ Present(target[p])' =>
                           /\ sawAt[p] <= rows'[target[p]].at
                           /\ sawAt[p] = rows'[target[p]].at
                                 => rows'[target[p]].events \subseteq saw[p]
                      /\ pc'[p] = "write" => base'[p].events \subseteq saw[p]
    BY WriteFacts DEF Seen
  <2>1. Clear(target[p])
    BY WriteFacts DEF Clear
  <2>2. ASSUME pc'[p] = "write" PROVE base'[p].events \subseteq saw[p]
    <3>1. p # q /\ pc[p] = "write" /\ base'[p] = base[p]
      BY <1>4, <2>2, WriteFacts
    <3> QED
      BY <2>1, <3>1 DEF Seen
  <2>3. ASSUME pc'[p] = "read", Present(target[p])'
        PROVE  /\ sawAt[p] <= rows'[target[p]].at
               /\ sawAt[p] = rows'[target[p]].at
                     => rows'[target[p]].events \subseteq saw[p]
    <3>1. p # q /\ pc[p] = "read" /\ Present(target[p])
      BY <1>2, <1>4, <1>6, <2>3, WriteFacts DEF Present
    <3>2. CASE target[p] # r
      BY <1>2, <2>1, <3>1, <3>2, WriteFacts DEF Seen
    <3>3. CASE target[p] = r
      <4>1. r \notin clobbered' /\ r \notin tied'
        BY <3>3, WriteFacts DEF Clear
      <4>2. rows[r] = base[q] /\ rows[r].at # stamp[q] /\ rows'[r].at = stamp[q]
        BY <1>1, <3>1, <3>3, <4>1, WriteFacts, UpdatedFacts
      <4>3. sawAt[p] <= rows[r].at /\ rows[r].at <= stamp[q]
        BY <1>1, <2>1, <3>1, <3>3, <4>2 DEF Seen, Timed
      <4>4. sawAt[p] \in Nat /\ rows[r].at \in Nat /\ stamp[q] \in Nat
        BY <1>2, TimeFacts DEF TypeOK, Row
      <4> QED
        BY <3>3, <4>2, <4>3, <4>4
    <3> QED
      BY <3>2, <3>3
  <2> QED
    BY <2>2, <2>3
<1>14. DecisionsInTurn'
  <2> SUFFICES ASSUME NEW s \in Reports, s \notin clobbered', s \notin tied',
                      NEW a \in rows'[s].events, NEW b \in rows'[s].events,
                      a # b, {op[a], op[b]} \subseteq Decisions
               PROVE  a \in saw[b] \/ b \in saw[a]
    BY WriteFacts DEF DecisionsInTurn
  <2>1. Clear(s)
    BY WriteFacts DEF Clear
  <2>2. CASE a \in rows[s].events /\ b \in rows[s].events
    BY <2>1, <2>2 DEF DecisionsInTurn, Clear
  <2>3. CASE ~(a \in rows[s].events /\ b \in rows[s].events)
    <3>1. s = r /\ Present(r)
      BY <2>3, WriteFacts
    <3>2. rows[r] = base[q] /\ rows'[r] = Updated(q)
      BY <3>1, WriteFacts
    <3>3. pc[q] = "write" /\ (a = q \/ b = q) /\ rows[s].events \subseteq rows'[s].events
      BY <1>1, <2>3, <3>1, <3>2, UpdatedFacts
    <3>4. base[q].events \subseteq saw[q]
      BY <2>1, <3>1, <3>3 DEF Seen
    <3>5. {a, b} \subseteq base[q].events \cup {q}
      BY <1>1, <3>1, <3>2, UpdatedFacts
    <3> QED
      BY <3>3, <3>4, <3>5
  <2> QED
    BY <2>2, <2>3
<1> QED
  BY <1>8, <1>9, <1>10, <1>11, <1>12, <1>13, <1>14

LEMMA TickStep ==
  ASSUME IInv, TypeOK', Tick
  PROVE  IInv'
<1> USE DEF IInv, sources, rebuilding, reviewing, marks
<1>1. UNCHANGED <<rows, op, target, pc, saw, sawAt, base, stamp, clobbered, tied>>
  BY DEF Tick
<1>2. Flow' /\ Life' /\ Known' /\ Kept' /\ Seen' /\ DecisionsInTurn'
  BY <1>1 DEF Flow, Life, Known, Kept, Seen, DecisionsInTurn, Clear, Present
<1>3. Timed'
  <2>1. now \in Nat /\ now' = now + 1
    BY TimeFacts DEF TypeOK, Tick
  <2>2. /\ \A r \in Reports : rows[r].at \in Nat
        /\ \A q \in Requests : stamp[q] \in Nat
    BY TimeFacts DEF TypeOK, Row
  <2> QED
    BY <1>1, <2>1, <2>2 DEF Timed
<1> QED
  BY <1>2, <1>3

LEMMA IStep == IInv /\ [Next]_vars => IInv'
<1> SUFFICES ASSUME IInv, [Next]_vars PROVE IInv'
  OBVIOUS
<1>1. TypeOK'
  BY TypeStep DEF IInv
<1>2. CASE \E q \in Requests : RequestStep(q) \/ Fail(q)
  BY <1>1, <1>2, ArriveStep, RowStep, UpdateReadStep, UpdateWriteStep, QuietSteps
     DEF RequestStep
<1> QED
  BY <1>1, <1>2, OtherSteps, TickStep DEF Next

-----------------------------------------------------------------------------
\* The summary.

Active == \E k \in Rebuilders : rb[k].step # "idle"

\* A request that will have the summary rebuilt if nothing fails.
Owes(q) ==
    \/ pc[q] = "enqueue"
    \/ /\ pc[q] \in {"get", "nread", "nwrite", "cread", "cwrite", "truth"}
       /\ op[q] \in Decisions
       /\ Present(target[q])

Differs(r) == ~ (r \in summary.open <=> r \in OpenReports)

\* What a rebuild has read is what is there, unless a change raced it.
Fresh ==
    \A k \in Rebuilders : ~raced =>
        /\ rb[k].step \in AfterReports => rb[k].open = OpenReports
        /\ rb[k].step \in AfterCitations => rb[k].ready = ready

\* A dated change that the summary lacks shows in the timestamps.
Dated == summary # None /\ ~raced /\ ~undated /\ ~InSync => Behind(summary.at)

\* Without failures and overlaps each change the summary lacks has a rebuild
\* under way or a request that owes one.
Owed ==
    summary # None /\ ~raced /\ ~faulted /\ clobbered = {} =>
        /\ \A r \in Reports : Differs(r) =>
              Active \/ \E q \in Requests : target[q] = r /\ Owes(q)
        /\ summary.ready # ready =>
              Active \/ \E q \in Requests : pc[q] = "truth" /\ op[q] = "fields"

Queued == pending => rb["queue"].step # "idle"

SInv == Fresh /\ Dated /\ Owed /\ Queued

LEMMA LatestBounds ==
  ASSUME NEW S \in SUBSET Time, NEW t \in S
  PROVE  t <= Latest(S) /\ Latest(S) \in Nat
<1> DEFINE T == S \cup {0}
<1>1. T \subseteq 0..MaxNow /\ T # {} /\ MaxNow \in Nat
  BY TimeFacts, BoundsAssumption DEF Time
<1> HIDE DEF T
<1>2. \E u \in T : \A v \in T : v <= u
  BY <1>1, Greatest
<1>3. Latest(S) \in S \cup {0} /\ \A v \in S : v <= Latest(S)
  BY <1>2, Zenon DEF Latest, T
<1>4. Latest(S) \in T
  BY <1>3 DEF T
<1>5. Latest(S) \in Nat
  <2>1. \A v \in 0..MaxNow : v \in Nat
    BY <1>1
  <2>2. QED BY <1>1, <1>4, <2>1, Zenon
<1> QED
  BY <1>3, <1>5

\* A report or a citation with a later time than the summary shows it.
LEMMA BehindReport ==
  ASSUME TypeOK', NEW r \in Reports, Present(r)', NEW at \in Time, at < rows'[r].at
  PROVE  Behind(at)'
<1>1. /\ (ReportTimes \cup {citeAt})' \in SUBSET Time
      /\ rows'[r].at \in (ReportTimes \cup {citeAt})'
  BY DEF TypeOK, ReportTimes, Row
<1>2. /\ rows'[r].at <= Latest((ReportTimes \cup {citeAt})')
      /\ Latest((ReportTimes \cup {citeAt})') \in Nat
  BY <1>1, LatestBounds
<1>3. rows'[r].at \in Nat /\ at \in Nat
  BY TimeFacts DEF TypeOK, Row
<1> QED
  BY <1>2, <1>3 DEF Behind, Latest

LEMMA BehindCitation ==
  ASSUME TypeOK', NEW at \in Time, at < citeAt'
  PROVE  Behind(at)'
<1>1. (ReportTimes \cup {citeAt})' \in SUBSET Time
  BY DEF TypeOK, ReportTimes, Row
<1>2. /\ citeAt' <= Latest((ReportTimes \cup {citeAt})')
      /\ Latest((ReportTimes \cup {citeAt})') \in Nat
  BY <1>1, LatestBounds
<1>3. citeAt' \in Nat /\ at \in Nat
  BY TimeFacts DEF TypeOK
<1> QED
  BY <1>2, <1>3 DEF Behind, Latest

\* What a rebuild may do while it has not saved, and an enqueue.
Rebuilt(k) ==
    \/ rb'[k] = rb[k]
    \/ rb'[k].step \in {"idle", "reports"}
    \/ rb'[k].step = "citations" /\ rb'[k].open = OpenReports
    \/ /\ rb[k].step = "citations" /\ rb'[k].step = "stamp"
       /\ rb'[k].open = rb[k].open /\ rb'[k].ready = ready
    \/ /\ rb[k].step = "stamp" /\ rb'[k].step = "save"
       /\ rb'[k].open = rb[k].open /\ rb'[k].ready = rb[k].ready

LEMMA EnqueueRebuilt ==
  ASSUME TypeOK, Queued, Enqueue
  PROVE  /\ \A k \in Rebuilders : Rebuilt(k)
         /\ Active' /\ Queued'
<1>1. CASE pending
  BY <1>1 DEF Enqueue, Rebuilt, Active, Queued, Rebuilders
<1>2. CASE ~pending
  <2>1. rb' = [rb EXCEPT !["queue"] = [NoRebuild EXCEPT !.step = "reports"]]
    BY <1>2 DEF Enqueue
  <2>2. rb'["queue"].step = "reports" /\ \A k \in Rebuilders \ {"queue"} : rb'[k] = rb[k]
    BY <2>1 DEF NoRebuild, TypeOK, Rebuilders
  <2> QED
    BY <2>2 DEF Rebuilt, Active, Queued, Rebuilders
<1> QED
  BY <1>1, <1>2

\* Steps that change neither the sources nor the summary, and lose no debt.
LEMMA SourcesKept ==
  ASSUME IInv, SInv, UNCHANGED <<rows, ready, citeAt, summary, raced, undated, op, target>>,
         \A k \in Rebuilders : Rebuilt(k), Queued',
         clobbered \subseteq clobbered', faulted => faulted',
         \/ Active'
         \/ faulted'
         \/ /\ ~Active
            /\ \A q \in Requests :
                  /\ Owes(q) => Owes(q)'
                  /\ pc[q] = "truth" /\ op[q] = "fields" => pc'[q] = "truth"
  PROVE  SInv'
<1>1. OpenReports' = OpenReports /\ InSync' = InSync /\ \A r \in Reports : Differs(r)' = Differs(r)
  BY DEF OpenReports, InSync, Differs
<1>2. Behind(summary.at)' = Behind(summary.at)
  BY DEF Behind, ReportTimes, Present
<1>3. Fresh'
  <2> SUFFICES ASSUME NEW k \in Rebuilders, ~raced
               PROVE  /\ rb'[k].step \in AfterReports => rb'[k].open = OpenReports
                      /\ rb'[k].step \in AfterCitations => rb'[k].ready = ready
    BY <1>1 DEF Fresh
  <2>1. /\ rb[k].step \in AfterReports => rb[k].open = OpenReports
        /\ rb[k].step \in AfterCitations => rb[k].ready = ready
    BY DEF SInv, Fresh
  <2>2. Rebuilt(k)
    OBVIOUS
  <2> QED
    BY <2>1, <2>2 DEF Rebuilt, AfterReports, AfterCitations
<1>4. Dated'
  BY <1>1, <1>2 DEF SInv, Dated
<1>5. Owed'
  <2>1. CASE Active' \/ faulted'
    BY <2>1 DEF Owed
  <2>2. CASE /\ ~Active
             /\ \A q \in Requests :
                  /\ Owes(q) => Owes(q)'
                  /\ pc[q] = "truth" /\ op[q] = "fields" => pc'[q] = "truth"
    <3> SUFFICES ASSUME summary # None, ~raced, ~faulted', clobbered' = {}
                 PROVE  /\ \A r \in Reports : Differs(r) =>
                              \E q \in Requests : target[q] = r /\ Owes(q)'
                        /\ summary.ready # ready =>
                              \E q \in Requests : pc'[q] = "truth" /\ op[q] = "fields"
      BY <1>1 DEF Owed
    <3>1. ~faulted /\ clobbered = {}
      OBVIOUS
    <3> QED
      BY <2>2, <3>1 DEF SInv, Owed
  <2> QED
    BY <2>1, <2>2
<1> QED
  BY <1>3, <1>4, <1>5 DEF SInv

LEMMA SInit == Init => SInv
<1> SUFFICES ASSUME Init PROVE SInv
  OBVIOUS
<1>1. \A k \in Rebuilders : rb[k].step = "idle"
  BY DEF Init, NoRebuild
<1>2. summary = None \/ (summary.open = OpenReports /\ summary.ready = ready)
  BY DEF Init
<1>3. Fresh
  BY <1>1 DEF Fresh, AfterReports, AfterCitations
<1>4. Dated
  BY <1>2 DEF Dated, InSync
<1>5. Owed
  BY <1>2 DEF Owed, Differs
<1> QED
  BY <1>3, <1>4, <1>5 DEF SInv, Queued, Init

LEMMA RebuildsKept ==
  ASSUME IInv, SInv, UNCHANGED <<rows, ready, citeAt, summary, raced, undated, op, target>>,
         UNCHANGED <<rb, pending>>, clobbered \subseteq clobbered', faulted => faulted',
         \/ faulted'
         \/ \A q \in Requests :
               /\ Owes(q) => Owes(q)'
               /\ pc[q] = "truth" /\ op[q] = "fields" => pc'[q] = "truth"
  PROVE  SInv'
<1>1. (\A k \in Rebuilders : Rebuilt(k)) /\ Queued' /\ (Active' <=> Active)
  BY DEF Rebuilt, Queued, Active, SInv
<1> QED
  BY <1>1, SourcesKept

LEMMA RequestSteps ==
  ASSUME IInv, SInv, NEW q \in Requests,
         \/ Arrive(q) \/ UpdateRead(q) \/ CitationRead(q) \/ SaveTruth(q)
         \/ Reload(q) \/ EnqueueAndAnswer(q) \/ Fail(q)
  PROVE  SInv'
<1> USE DEF sources, rebuilding, reviewing, marks, held
<1> DEFINE Kept1 == /\ UNCHANGED <<rows, ready, citeAt, summary, raced, undated, op, target>>
                    /\ clobbered \subseteq clobbered' /\ (faulted => faulted')
           Debts == \A p \in Requests :
                      /\ Owes(p) => Owes(p)'
                      /\ pc[p] = "truth" /\ op[p] = "fields" => pc'[p] = "truth"
<1>1. Kept1
  <2>1. CASE UpdateRead(q)
    <3>1. UNCHANGED <<rows, ready, citeAt, summary, raced, undated, op, target, clobbered>>
      BY <2>1 DEF UpdateRead
    <3>2. faulted' = faulted \/ faulted' = (faulted \/ pc[q] = "nread")
      BY <2>1 DEF UpdateRead
    <3>3. faulted => faulted'
      BY <3>2, Zenon
    <3> QED
      BY <3>1, <3>3
  <2>2. CASE ~UpdateRead(q)
    BY <2>2 DEF Arrive, CitationRead, SaveTruth, Reload, EnqueueAndAnswer, Fail
  <2> QED
    BY <2>1, <2>2
<1>2. pc \in [Requests -> Steps] /\ TypeOK /\ Queued
  BY DEF IInv, TypeOK, SInv
<1>3. ASSUME Enqueue PROVE SInv'
  BY <1>1, <1>2, <1>3, EnqueueRebuilt, SourcesKept
<1>4. ASSUME UNCHANGED <<rb, pending>>, faulted' \/ Debts PROVE SInv'
  BY <1>1, <1>4, RebuildsKept
<1>5. ASSUME NEW step, Goto(q, step), rows' = rows, op' = op, target' = target,
             /\ Owes(q) => \/ step = "enqueue"
                           \/ /\ pc[q] # "enqueue"
                              /\ step \in {"get", "nread", "nwrite", "cread", "cwrite", "truth"}
             /\ ~ (pc[q] = "truth" /\ op[q] = "fields")
      PROVE  Debts
  BY <1>2, <1>5 DEF Goto, Owes, Present
<1>6. ASSUME NEW how, End(q, how), rows' = rows, op' = op, target' = target, ~Owes(q),
             ~ (pc[q] = "truth" /\ op[q] = "fields")
      PROVE  Debts
  BY <1>2, <1>6 DEF End, Goto, Owes, Present
<1>7. CASE Arrive(q)
  <2>1. PICK step : Goto(q, step) /\ pc[q] = "idle"
    BY <1>7 DEF Arrive
  <2> QED
    BY <1>1, <1>4, <1>5, <1>7, <2>1 DEF Arrive, Owes
<1>8. CASE UpdateRead(q)
  <2>1. UNCHANGED <<rb, pending>> /\ pc[q] \in {"read", "nread"}
    BY <1>8 DEF UpdateRead
  <2>2. faulted' \/ Debts
    <3>1. CASE ~Present(target[q]) /\ Goto(q, IF pc[q] = "nread" THEN "get" ELSE "enqueue")
      BY <1>1, <1>5, <2>1, <3>1 DEF Owes
    <3>2. CASE pc[q] = "read" /\ End(q, "failed")
      BY <1>1, <1>6, <2>1, <3>2 DEF Owes
    <3>3. CASE End(q, "refused") /\ faulted' = (faulted \/ pc[q] = "nread")
      BY <1>1, <1>6, <2>1, <3>3 DEF Owes
    <3>4. CASE Goto(q, IF pc[q] = "read" THEN "write" ELSE "nwrite")
      BY <1>1, <1>5, <2>1, <3>4 DEF Owes
    <3> QED
      BY <1>8, <3>1, <3>2, <3>3, <3>4 DEF UpdateRead
  <2> QED
    BY <1>4, <2>1, <2>2
<1>9. CASE CitationRead(q)
  <2>1. pc[q] = "cread" /\ Goto(q, "cwrite") /\ UNCHANGED <<rb, pending>>
    BY <1>9 DEF CitationRead
  <2> QED
    BY <1>1, <1>4, <1>5, <2>1
<1>10. CASE SaveTruth(q)
  <2>1. CASE op[q] = "fields"
    BY <1>3, <1>10, <2>1 DEF SaveTruth
  <2>2. CASE op[q] # "fields"
    <3>1. pc[q] = "truth" /\ Goto(q, "nread") /\ UNCHANGED <<rb, pending>>
      BY <1>10, <2>2 DEF SaveTruth
    <3> QED
      BY <1>1, <1>4, <1>5, <2>2, <3>1
  <2> QED
    BY <2>1, <2>2
<1>11. CASE Reload(q)
  <2>1. CASE Present(target[q]) /\ op[q] # "comment"
    BY <1>3, <1>11, <2>1 DEF Reload
  <2>2. CASE ~ (Present(target[q]) /\ op[q] # "comment")
    <3>1. UNCHANGED <<rb, pending>> /\ pc[q] = "get" /\ \E how : End(q, how)
      BY <1>11, <2>2 DEF Reload
    <3>2. ~Owes(q)
      BY <2>2, <3>1 DEF Owes, Decisions
    <3> QED
      BY <1>1, <1>4, <1>6, <3>1, <3>2
  <2> QED
    BY <2>1, <2>2
<1>12. CASE EnqueueAndAnswer(q)
  BY <1>3, <1>12 DEF EnqueueAndAnswer
<1>13. CASE Fail(q)
  BY <1>4, <1>13 DEF Fail
<1> QED
  BY <1>7, <1>8, <1>9, <1>10, <1>11, <1>12, <1>13

LEMMA EnvironmentSteps ==
  ASSUME IInv, SInv, View \/ Crash \/ Tick \/ UNCHANGED vars
  PROVE  SInv'
<1> USE DEF sources, rebuilding, reviewing, marks
<1>1. TypeOK /\ Queued
  BY DEF IInv, SInv
<1>2. CASE View
  <2>1. UNCHANGED <<rows, ready, citeAt, summary, raced, undated, op, target, clobbered, faulted>>
    BY <1>2 DEF View
  <2>2. (\A k \in Rebuilders : Rebuilt(k)) /\ Queued' /\ Active'
    <3>1. CASE Enqueue
      BY <1>1, <3>1, EnqueueRebuilt
    <3>2. CASE rb' = [rb EXCEPT !["view"] = [NoRebuild EXCEPT !.step = "reports"]] /\ pending' = pending
      <4>1. rb'["view"].step = "reports" /\ \A k \in Rebuilders \ {"view"} : rb'[k] = rb[k]
        BY <1>1, <3>2 DEF NoRebuild, TypeOK, Rebuilders
      <4> QED
        BY <1>1, <3>2, <4>1 DEF Rebuilt, Queued, Active, Rebuilders
    <3> QED
      BY <1>2, <3>1, <3>2 DEF View
  <2> QED
    BY <2>1, <2>2, SourcesKept
<1>3. CASE Crash
  <2>1. /\ UNCHANGED <<rows, ready, citeAt, summary, raced, undated, op, target, clobbered>>
        /\ faulted' /\ ~pending' /\ rb' = [k \in Rebuilders |-> NoRebuild]
    BY <1>3 DEF Crash
  <2>2. (\A k \in Rebuilders : Rebuilt(k)) /\ Queued'
    BY <2>1 DEF Rebuilt, Queued, NoRebuild
  <2> QED
    BY <2>1, <2>2, SourcesKept
<1>4. CASE Tick \/ UNCHANGED vars
  <2>1. UNCHANGED <<rows, ready, citeAt, summary, raced, undated, op, target, clobbered,
                    faulted, rb, pending, pc>>
    BY <1>4 DEF Tick, vars
  <2>2. \A q \in Requests : Owes(q) => Owes(q)'
    BY <2>1 DEF Owes, Present
  <2> QED
    BY <2>1, <2>2, RebuildsKept
<1> QED
  BY <1>2, <1>3, <1>4

LEMMA RebuildSteps ==
  ASSUME IInv, SInv, NEW k \in Rebuilders, RebuildStep(k)
  PROVE  SInv'
<1> USE DEF sources, rebuilding, reviewing, marks
<1>1. rb \in [Rebuilders -> Rebuild] /\ Queued
  BY DEF IInv, TypeOK, SInv
<1>2. CASE RebuildReports(k) \/ RebuildCitations(k) \/ RebuildStamp(k)
  <2>1. UNCHANGED <<rows, ready, citeAt, summary, raced, undated, op, target, clobbered,
                    faulted, pending>>
    BY <1>2 DEF RebuildReports, RebuildCitations, RebuildStamp
  <2>2. /\ \A j \in Rebuilders \ {k} : rb'[j] = rb[j]
        /\ Rebuilt(k) /\ rb'[k].step # "idle"
    BY <1>1, <1>2 DEF RebuildReports, RebuildCitations, RebuildStamp, Rebuilt, Rebuild
  <2>3. (\A j \in Rebuilders : Rebuilt(j)) /\ Queued' /\ Active'
    BY <1>1, <2>1, <2>2 DEF Rebuilt, Queued, Active, Rebuilders
  <2> QED
    BY <2>1, <2>3, SourcesKept
<1>3. CASE RebuildSave(k)
  <2>1. /\ UNCHANGED <<rows, ready, citeAt, pc, op, target, clobbered>>
        /\ rb[k].step = "save"
        /\ summary' = [open |-> rb[k].open, ready |-> rb[k].ready, at |-> rb[k].at]
        /\ rb' = [rb EXCEPT ![k] = NoRebuild]
        /\ pending' = (pending /\ k # "queue")
    BY <1>3 DEF RebuildSave
  <2>2. rb'[k].step = "idle" /\ \A j \in Rebuilders \ {k} : rb'[j] = rb[j]
    BY <1>1, <2>1 DEF NoRebuild
  <2>3. OpenReports' = OpenReports
    BY <2>1 DEF OpenReports
  <2> DEFINE right == /\ rb[k].open = OpenReports
                      /\ rb[k].ready = ready
                      /\ \A j \in Rebuilders \ {k} : rb[j].step = "idle"
  <2>10. raced' = (raced /\ ~right)
    BY <1>3 DEF RebuildSave
  <2>11. raced /\ ~raced' => right
    <3> HIDE DEF right
    <3> QED
      BY <2>10
  <2>4. ~raced' => summary'.open = OpenReports /\ summary'.ready = ready
    <3>1. CASE ~raced
      BY <2>1, <3>1 DEF SInv, Fresh, AfterReports, AfterCitations
    <3>2. CASE raced /\ ~raced'
      BY <2>1, <2>11, <3>2
    <3> QED
      BY <3>1, <3>2
  <2>5. raced /\ ~raced' => \A j \in Rebuilders \ {k} : rb[j].step = "idle"
    BY <2>11
  <2>6. Fresh'
    <3> SUFFICES ASSUME NEW j \in Rebuilders, ~raced'
                 PROVE  /\ rb'[j].step \in AfterReports => rb'[j].open = OpenReports
                        /\ rb'[j].step \in AfterCitations => rb'[j].ready = ready
      BY <2>1, <2>3 DEF Fresh
    <3>1. CASE j = k
      BY <2>2, <3>1 DEF AfterReports, AfterCitations
    <3>2. CASE j # k /\ raced
      BY <2>2, <2>5, <3>2 DEF AfterReports, AfterCitations
    <3>3. CASE j # k /\ ~raced
      BY <2>2, <3>3 DEF SInv, Fresh
    <3> QED
      BY <3>1, <3>2, <3>3
  <2>7. Dated'
    BY <2>1, <2>3, <2>4 DEF Dated, InSync
  <2>8. Owed'
    BY <2>1, <2>3, <2>4 DEF Owed, Differs
  <2>9. Queued'
    BY <1>1, <2>1, <2>2 DEF Queued, Rebuilders
  <2> QED
    BY <2>6, <2>7, <2>8, <2>9 DEF SInv
<1> QED
  BY <1>2, <1>3 DEF RebuildStep

\* A write to a report.
LEMMA WriteKept ==
  ASSUME IInv, TypeOK', SInv, NEW r \in Reports,
         UNCHANGED <<ready, citeAt, summary, rb, pending, op, target, faulted>>,
         \A s \in Reports \ {r} : rows'[s] = rows[s],
         clobbered \subseteq clobbered',
         ~raced' => /\ ~raced
                    /\ \/ OpenReports' = OpenReports
                       \/ \A k \in Rebuilders : rb[k].step \notin AfterReports,
         ~undated' /\ summary # None => Behind(summary.at)',
         \A p \in Requests :
            /\ target[p] # r /\ Owes(p) => Owes(p)'
            /\ pc[p] = "truth" => pc'[p] = "truth",
         clobbered' = {} =>
            \/ \E p \in Requests : target[p] = r /\ Owes(p)'
            \/ /\ Differs(r)' <=> Differs(r)
               /\ \A p \in Requests : target[p] = r /\ Owes(p) => Owes(p)'
  PROVE  SInv'
<1>1. \A s \in Reports \ {r} : Differs(s)' <=> Differs(s)
  BY DEF Differs, OpenReports
<1>2. Active' <=> Active
  BY DEF Active
<1>3. Fresh'
  BY DEF SInv, Fresh, AfterReports, AfterCitations
<1>4. Dated'
  <2>1. CASE undated'
    BY <2>1 DEF Dated
  <2>2. CASE ~undated'
    BY <2>2 DEF Dated
  <2> QED
    BY <2>1, <2>2
<1>5. Owed'
  <2> SUFFICES ASSUME summary # None, ~raced', ~faulted, clobbered' = {}, ~Active
               PROVE  /\ \A s \in Reports : Differs(s)' =>
                            \E q \in Requests : target[q] = s /\ Owes(q)'
                      /\ summary.ready # ready =>
                            \E q \in Requests : pc'[q] = "truth" /\ op[q] = "fields"
    BY <1>2 DEF Owed
  <2>1. /\ \A s \in Reports : Differs(s) =>
               \E q \in Requests : target[q] = s /\ Owes(q)
        /\ summary.ready # ready =>
               \E q \in Requests : pc[q] = "truth" /\ op[q] = "fields"
    BY DEF SInv, Owed
  <2>2. ASSUME NEW s \in Reports, Differs(s)'
        PROVE  \E q \in Requests : target[q] = s /\ Owes(q)'
    <3>1. CASE s # r
      BY <1>1, <2>1, <2>2, <3>1
    <3>2. CASE s = r
      BY <2>1, <2>2, <3>2
    <3> QED
      BY <3>1, <3>2
  <2> QED
    BY <2>1, <2>2
<1> QED
  BY <1>3, <1>4, <1>5 DEF SInv, Queued

LEMMA InsertDeleteSteps ==
  ASSUME IInv, TypeOK', SInv, NEW q \in Requests, Insert(q) \/ Delete(q)
  PROVE  SInv'
<1> USE DEF rebuilding
<1> DEFINE r == target[q]
<1>1. /\ UNCHANGED <<ready, citeAt, summary, rb, pending, op, target, faulted, clobbered>>
      /\ pc[q] \in {"insert", "delete"}
  BY DEF Insert, Delete
<1>2. /\ r \in Reports /\ rows \in [Reports -> Row] /\ pc \in [Requests -> Steps]
      /\ \A p \in Requests : target[p] \in Reports
  BY DEF IInv, TypeOK
<1>3. /\ \A s \in Reports \ {r} : rows'[s] = rows[s]
      /\ pc'[q] = "enqueue" /\ \A p \in Requests \ {q} : pc'[p] = pc[p]
  BY <1>2 DEF Insert, Delete, Goto
<1>4. ~raced' => /\ ~raced
                 /\ \/ OpenReports' = OpenReports
                    \/ \A k \in Rebuilders : rb[k].step \notin AfterReports
  <2>1. CASE Insert(q)
    BY <2>1 DEF Insert, Commits, HasRead
  <2>2. CASE Delete(q)
    <3>1. raced' = (raced \/ (r \in OpenReports /\ \E k \in Rebuilders : HasRead(k, AfterReports)))
      BY <2>2 DEF Delete
    <3>2. rows'[r].status = "gone"
      BY <1>2, <2>2 DEF Delete, NoRow
    <3>3. r \notin OpenReports => OpenReports' = OpenReports
      BY <1>3, <3>2 DEF OpenReports
    <3> QED
      BY <3>1, <3>3 DEF HasRead
  <2> QED
    BY <2>1, <2>2
<1>5. ~undated' /\ summary # None => Behind(summary.at)'
  <2>1. CASE Insert(q)
    <3> SUFFICES ASSUME ~undated', summary # None PROVE Behind(summary.at)'
      OBVIOUS
    <3>1. ~ (stamp[q] <= summary.at)
      BY <2>1 DEF Insert, Commits
    <3>2. rows'[r].at = stamp[q] /\ Present(r)'
      BY <1>1, <1>2, <2>1 DEF Insert, NoRow, Present
    <3>3. summary.at \in Time /\ summary.at \in Nat /\ stamp[q] \in Nat
      BY TimeFacts DEF IInv, TypeOK, Summary
    <3>4. summary.at < rows'[r].at
      BY <3>1, <3>2, <3>3
    <3>5. summary' = summary
      BY <1>1
    <3>6. PICK at \in Time : at = summary.at
      BY <3>3
    <3>7. Behind(at)'
      <4>1. PICK c \in Reports : c = target[q]
        BY <1>2
      <4>2. Present(c)' /\ at < rows'[c].at
        BY <1>1, <3>2, <3>4, <3>6, <4>1 DEF Present
      <4> QED
        BY <4>2, BehindReport
    <3> QED
      BY <3>5, <3>6, <3>7 DEF Behind
  <2>2. CASE Delete(q)
    BY <2>2 DEF Delete
  <2> QED
    BY <2>1, <2>2
<1>6. \A p \in Requests :
        /\ target[p] # r /\ Owes(p) => Owes(p)'
        /\ pc[p] = "truth" => pc'[p] = "truth"
  BY <1>1, <1>2, <1>3 DEF Owes, Present
<1>7. target[q] = r /\ Owes(q)'
  BY <1>3 DEF Owes
<1> QED
  BY <1>1, <1>2, <1>3, <1>4, <1>5, <1>6, <1>7, WriteKept

LEMMA UpdateWriteKept ==
  ASSUME IInv, TypeOK', SInv, NEW q \in Requests, UpdateWrite(q)
  PROVE  SInv'
<1> USE DEF rebuilding
<1> DEFINE r == target[q]
<1>1. /\ UNCHANGED <<ready, citeAt, summary, rb, pending, op, target, faulted>>
      /\ pc[q] \in {"write", "nwrite"}
  BY DEF UpdateWrite
<1>2. /\ r \in Reports /\ rows \in [Reports -> Row] /\ pc \in [Requests -> Steps]
      /\ \A p \in Requests : target[p] \in Reports
  BY DEF IInv, TypeOK
<1>3. \A p \in Requests : pc[p] = "truth" => pc'[p] = "truth"
  BY <1>1, WriteFacts
<1>4. CASE ~Present(r)
  <2>1. rows' = rows /\ UNCHANGED <<raced, undated>> /\ clobbered \subseteq clobbered'
    BY <1>2, <1>4, WriteFacts DEF UpdateWrite
  <2>2. \A p \in Requests : Owes(p) => Owes(p)'
    BY <1>1, <1>4, <2>1, WriteFacts DEF Owes, Present
  <2> QED
    BY <1>1, <1>3, <2>1, <2>2, RebuildsKept
<1>5. CASE Present(r)
  <2>1. /\ rows'[r] = Updated(q) /\ \A s \in Reports \ {r} : rows'[s] = rows[s]
        /\ clobbered \subseteq clobbered'
    BY <1>5, WriteFacts
  <2>2. Updated(q).status \notin {"new", "gone"} /\ Updated(q).at = stamp[q]
    BY <1>1, UpdatedFacts
  <2>3. Present(r)' /\ \A s \in Reports : Present(s)' <=> Present(s)
    BY <1>1, <1>5, <2>1, <2>2 DEF Present
  <2>4. ~raced' => /\ ~raced
                   /\ \/ OpenReports' = OpenReports
                      \/ \A k \in Rebuilders : rb[k].step \notin AfterReports
    <3>1. raced' = (raced \/ ((Updated(q).status = "pending") # (r \in OpenReports)
                              /\ \E k \in Rebuilders : HasRead(k, AfterReports)))
      BY <1>5 DEF UpdateWrite, Commits
    <3>2. ~ ((Updated(q).status = "pending") # (r \in OpenReports)) => OpenReports' = OpenReports
      BY <2>1 DEF OpenReports
    <3> QED
      BY <3>1, <3>2 DEF HasRead
  <2>5. ~undated' /\ summary # None => Behind(summary.at)'
    <3> SUFFICES ASSUME ~undated', summary # None PROVE Behind(summary.at)'
      OBVIOUS
    <3>1. ~ (stamp[q] <= summary.at)
      BY <1>5 DEF UpdateWrite, Commits
    <3>2. summary.at \in Time /\ summary.at \in Nat /\ stamp[q] \in Nat
      BY TimeFacts DEF IInv, TypeOK, Summary
    <3>3. summary.at < rows'[r].at
      BY <2>1, <2>2, <3>1, <3>2
    <3>4. PICK at \in Time : at = summary.at
      BY <3>2
    <3>5. Behind(at)'
      <4>1. PICK c \in Reports : c = target[q]
        BY <1>2
      <4>2. Present(c)' /\ at < rows'[c].at
        BY <1>5, <2>3, <3>3, <3>4, <4>1
      <4> QED
        BY <4>2, BehindReport
    <3> QED
      BY <1>1, <3>4, <3>5 DEF Behind
  <2>6. \A p \in Requests \ {q} : Owes(p) => Owes(p)'
    BY <1>1, <1>2, <2>3, WriteFacts DEF Owes
  <2>7. pc'[q] = AfterUpdate(q) /\ op[q] \in Locked \cup Patches
    BY <1>1, WriteFacts DEF IInv, Flow, Locked, Decisions
  <2>8. CASE op[q] # "comment"
    <3>1. Owes(q)'
      <4>1. CASE op[q] \in Patches
        <5>1. pc[q] = "write"
          BY <1>1, <4>1 DEF IInv, Flow, Patches
        <5>2. AfterUpdate(q) = "enqueue"
          BY <4>1, <5>1 DEF AfterUpdate, Patches
        <5> QED
          BY <2>7, <5>2 DEF Owes
      <4>2. CASE op[q] \in Decisions
        <5>1. pc'[q] \in {"get", "cread", "truth"}
          BY <2>7, <4>2 DEF AfterUpdate, Decisions, Patches
        <5> QED
          BY <1>1, <2>3, <4>2, <5>1 DEF Owes
      <4> QED
        BY <2>7, <2>8, <4>1, <4>2 DEF Locked
    <3> QED
      BY <1>1, <1>2, <1>3, <2>1, <2>4, <2>5, <2>6, <3>1, WriteKept
  <2>9. CASE op[q] = "comment"
    <3>1. ~Owes(q)
      <4>1. pc[q] = "write"
        BY <1>1, <2>9 DEF IInv, Flow
      <4> QED
        BY <4>1 DEF Owes
    <3>2. clobbered' = {} => (Differs(r)' <=> Differs(r))
      <4> SUFFICES ASSUME clobbered' = {} PROVE Differs(r)' <=> Differs(r)
        OBVIOUS
      <4>1. rows[r] = base[q] /\ Updated(q).status = base[q].status
        BY <2>9, WriteFacts DEF Updated
      <4> QED
        BY <1>1, <2>1, <4>1 DEF Differs, OpenReports
    <3>3. \A p \in Requests : Owes(p) => Owes(p)'
      BY <2>6, <3>1
    <3> QED
      BY <1>1, <1>2, <1>3, <2>1, <2>4, <2>5, <3>2, <3>3, WriteKept
  <2> QED
    BY <2>8, <2>9
<1> QED
  BY <1>4, <1>5

LEMMA CitationWriteKept ==
  ASSUME IInv, TypeOK', SInv, NEW q \in Requests, CitationWrite(q)
  PROVE  SInv'
<1> USE DEF rebuilding
<1>1. /\ UNCHANGED <<rows, summary, rb, pending, op, target, faulted, clobbered>>
      /\ citeAt' = citeStamp[q] /\ pc[q] = "cwrite" /\ op[q] = "fields"
  BY DEF CitationWrite, IInv, Flow
<1>2. pc'[q] = "truth" /\ \A p \in Requests \ {q} : pc'[p] = pc[p]
  BY DEF CitationWrite, Goto, IInv, TypeOK
<1>3. OpenReports' = OpenReports /\ \A r \in Reports : Differs(r)' <=> Differs(r)
  BY <1>1 DEF OpenReports, Differs
<1>4. ~raced' => /\ ~raced
                 /\ \/ ready' = ready
                    \/ \A k \in Rebuilders : rb[k].step \notin AfterCitations
  BY DEF CitationWrite, Commits, HasRead
<1>5. Fresh'
  BY <1>1, <1>3, <1>4 DEF SInv, Fresh
<1>6. Dated'
  <2> SUFFICES ASSUME summary # None, ~undated' PROVE Behind(summary.at)'
    BY <1>1 DEF Dated
  <2>1. ~ (citeStamp[q] <= summary.at)
    BY DEF CitationWrite, Commits
  <2>2. summary.at \in Time /\ summary.at \in Nat /\ citeStamp[q] \in Nat
    BY TimeFacts DEF IInv, TypeOK, Summary
  <2>3. PICK at \in Time : at = summary.at
    BY <2>2
  <2>4. Behind(at)'
    BY <1>1, <2>1, <2>2, <2>3, BehindCitation
  <2> QED
    BY <1>1, <2>3, <2>4 DEF Behind
<1>7. Owed'
  <2> SUFFICES ASSUME summary # None, ~raced', ~faulted, clobbered = {}, ~Active
               PROVE  \A r \in Reports : Differs(r) =>
                         \E p \in Requests : target[p] = r /\ Owes(p)'
    BY <1>1, <1>2, <1>3 DEF Owed, Active
  <2>1. \A r \in Reports : Differs(r) => \E p \in Requests : target[p] = r /\ Owes(p)
    BY <1>4 DEF SInv, Owed
  <2>2. \A p \in Requests : Owes(p) => Owes(p)'
    BY <1>1, <1>2 DEF Owes, Present
  <2> QED
    BY <2>1, <2>2
<1> QED
  BY <1>1, <1>5, <1>6, <1>7 DEF SInv, Queued

LEMMA SStep == IInv /\ IInv' /\ SInv /\ [Next]_vars => SInv'
<1> SUFFICES ASSUME IInv, IInv', SInv, [Next]_vars PROVE SInv'
  OBVIOUS
<1>1. TypeOK'
  BY DEF IInv
<1>2. CASE \E q \in Requests : RequestStep(q) \/ Fail(q)
  BY <1>1, <1>2, RequestSteps, InsertDeleteSteps, UpdateWriteKept, CitationWriteKept
     DEF RequestStep
<1> QED
  BY <1>2, RebuildSteps, EnvironmentSteps DEF Next

-----------------------------------------------------------------------------
\* Every reachable state is well typed.
THEOREM TypeCorrect == Spec => []TypeOK
  BY TypeInit, TypeStep, PTL DEF Spec

\* However many reports, requests, failures and crashes there are, a comment,
\* decision or truth note that was answered with success stays in the review
\* events of a report that no two updates overlapped on (admin.ts, updateReport).
THEOREM WhatWasToldIsKept == Spec => []ToldIsKept
<1>1. IInv => ToldIsKept
  BY DEF IInv, Kept, ToldIsKept, Written, Noted
<1> QED
  BY <1>1, IInit, IStep, PTL DEF Spec

\* Of two decisions that stand in a report one was made in the knowledge of
\* the other, unless their updates overlapped or share a millisecond: what
\* expectedUpdatedAt is for.
THEOREM DecisionsAreInTurn == Spec => []DecisionsInTurn
<1>1. IInv => DecisionsInTurn
  BY DEF IInv
<1> QED
  BY <1>1, IInit, IStep, PTL DEF Spec

\* However many reports, requests, rebuilds, failures and crashes there are,
\* when nothing is under way the review queue's summary agrees with the reports
\* and the citation, or the next request for the queue will notice that it
\* does not, or one of the causes in Hidden keeps it behind
\* (batchHealthSummary.ts, admin.ts).
THEOREM SummaryIsExplained == Spec => []SummaryExplained
<1>1. IInv /\ SInv => SummaryExplained
  <2> SUFFICES ASSUME IInv, SInv, ~Working, ~InSync, ~Noticed, ~Hidden PROVE FALSE
    BY DEF SummaryExplained
  <2>1. summary # None /\ ~raced /\ ~Behind(summary.at)
    BY DEF Noticed, Hidden
  <2>2. undated
    BY <2>1 DEF SInv, Dated
  <2>3. ~faulted /\ clobbered = {}
    BY <2>2 DEF Hidden
  <2>4. ~Active /\ \A q \in Requests : pc[q] \in Ended \cup {"idle"}
    BY DEF Working, Active
  <2>5. \A q \in Requests : ~Owes(q) /\ pc[q] # "truth"
    BY <2>4 DEF Owes, Ended
  <2>6. summary.ready = ready /\ \A r \in Reports : ~Differs(r)
    BY <2>1, <2>3, <2>4, <2>5 DEF SInv, Owed
  <2>7. summary.open = OpenReports
    <3>1. summary.open \subseteq Reports /\ OpenReports \subseteq Reports
      BY <2>1 DEF IInv, TypeOK, Summary, OpenReports
    <3> QED
      BY <2>6, <3>1 DEF Differs
  <2> QED
    BY <2>1, <2>6, <2>7 DEF InSync
<1> QED
  BY <1>1, IInit, IStep, SInit, SStep, PTL DEF Spec
=============================================================================
