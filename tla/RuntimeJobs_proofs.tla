------------------------- MODULE RuntimeJobs_proofs -------------------------
(***************************************************************************)
(* Theorems about RuntimeJobs, for every set of jobs and servers and every *)
(* value of the bounds.                                                    *)
(***************************************************************************)
EXTENDS RuntimeJobs, FiniteSetTheorems, SequenceTheorems, TLAPS

-----------------------------------------------------------------------------
(* The operators on blobs and handlers. *)

\* Pushing an event on a blob, or setting its error, keeps the rest of it.
LEMMA BlobOperators ==
  ASSUME NEW b \in Blob, NEW e \in Event, NEW err \in Error
  PROVE  /\ Pushed(b, e) \in Blob
         /\ Pushed(b, e).result = b.result
         /\ Pushed(b, e).error = b.error
         /\ WithError(b, err) \in Blob
         /\ WithError(b, err).result = b.result
         /\ WithError(b, err).error = err
  BY DEF Pushed, WithError, Blob

LEMMA NoBlobType == NoBlob \in Blob /\ ~NoBlob.result
  BY DEF NoBlob, Blob, Error

\* Where a handler may stand.
Place == {"new", "update", "updating", "append", "appending", "done", "lost"}

\* Opening, moving and losing a handler.
LEMMA HandlerOperators ==
  ASSUME NEW at \in Place, NEW b \in Blob
  PROVE  /\ \A s \in Server \cup {"none"}, st \in Status :
              /\ Opened(at, s, b, st) \in Handler
              /\ Opened(at, s, b, st).at = at
              /\ Opened(at, s, b, st).on = s
              /\ Opened(at, s, b, st).blob = b
              /\ Opened(at, s, b, st).status = st
         /\ \A h \in Handler :
              /\ At(h, at, b) \in Handler
              /\ At(h, at, b).at = at
              /\ At(h, at, b).on = h.on
              /\ At(h, at, b).blob = b
              /\ At(h, at, b).status = h.status
  BY DEF Opened, At, Handler, Place

LEMMA HandlerFields ==
  ASSUME NEW h \in Handler
  PROVE  /\ h.at \in Place /\ h.on \in Server \cup {"none"}
         /\ h.blob \in Blob /\ h.status \in Status
         /\ Lost(h) \in Handler /\ Lost(h).at = "lost" /\ Lost(h).blob = NoBlob
<1>1. h.at \in Place /\ h.on \in Server \cup {"none"} /\ h.blob \in Blob /\ h.status \in Status
  BY DEF Handler, Place
<1>2. "lost" \in Place
  BY DEF Place
<1>3. QED BY <1>1, <1>2, NoBlobType, HandlerOperators DEF Lost

\* The rebuilds of the batch-health summary.
LEMMA RebuildOperators ==
  ASSUME NEW at \in {"none", "check", "update", "updating", "saving"}, NEW b \in Blob,
         NEW st \in Status
  PROVE  /\ Rebuilding(at, b, st) \in Rebuild
         /\ Rebuilding(at, b, st).at = at
         /\ Rebuilding(at, b, st).blob = b
         /\ Rebuilding(at, b, st).status = st
  BY DEF Rebuilding, Rebuild

\* Those with no copy of a row.
LEMMA CopylessFields ==
  ASSUME NEW at \in {"none", "check", "update", "saving"}
  PROVE  /\ Copyless(at) \in Rebuild /\ Copyless(at).at = at
         /\ ~Copyless(at).blob.result
<1>1. "absent" \in Status
  BY DEF Status
<1>2. QED BY <1>1, NoBlobType, RebuildOperators DEF Copyless

LEMMA RebuildFields ==
  ASSUME NEW r \in Rebuild
  PROVE  r.blob \in Blob /\ r.status \in Status
  BY DEF Rebuild

\* Every rebuild of every server.
AllRebuilds == [Server -> [Job -> [Source -> Rebuild]]]

\* The rebuild of v for j on s becomes r, the others stay as they are.
LEMMA SetRebuildFrame ==
  ASSUME TypeOK, NEW s \in Server, NEW j \in Job, NEW v \in Source, NEW r \in Rebuild,
         SetRebuild(s, j, v, r)
  PROVE  /\ rebuild' \in AllRebuilds /\ rebuild'[s][j][v] = r
         /\ \A t \in Server, k \in Job, w \in Source :
              t # s \/ k # j \/ w # v => rebuild'[t][k][w] = rebuild[t][k][w]
<1>1. rebuild \in AllRebuilds
  BY DEF TypeOK, AllRebuilds
<1>2. rebuild' = [rebuild EXCEPT ![s][j][v] = r]
  BY DEF SetRebuild
<1>3. QED BY <1>1, <1>2 DEF AllRebuilds

\* No rebuild takes a copy of a row, or writes one back: rebuilds of j on s begin,
\* end, or find a result to update.
Aside(s, j) ==
  /\ rebuild' \in AllRebuilds
  /\ \A t \in Server, k \in Job, w \in Source :
       \/ rebuild'[t][k][w] = rebuild[t][k][w]
       \/ t = s /\ k = j /\ rebuild'[t][k][w].at \in {"none", "check", "saving"}
       \/ t = s /\ k = j /\ rebuild'[t][k][w].at = "update" /\ blob[j].result

LEMMA SetAside ==
  ASSUME TypeOK, NEW s \in Server, NEW j \in Job, NEW v \in Source,
         NEW at \in {"none", "check", "update", "saving"}, at = "update" => blob[j].result,
         SetRebuild(s, j, v, Copyless(at))
  PROVE  Aside(s, j)
<1>1. Copyless(at) \in Rebuild /\ Copyless(at).at = at
  BY CopylessFields
<1>2. /\ rebuild' \in AllRebuilds /\ rebuild'[s][j][v] = Copyless(at)
      /\ \A t \in Server, k \in Job, w \in Source :
           t # s \/ k # j \/ w # v => rebuild'[t][k][w] = rebuild[t][k][w]
  BY <1>1, SetRebuildFrame
<1>3. \A t \in Server, k \in Job, w \in Source :
        \/ rebuild'[t][k][w] = rebuild[t][k][w]
        \/ t = s /\ k = j /\ rebuild'[t][k][w].at = at
  BY <1>1, <1>2
<1>4. QED BY <1>2, <1>3 DEF Aside

\* What enqueueBatchHealthSummaryRebuild does.
LEMMA EnqueueAside ==
  ASSUME TypeOK, NEW s \in Server, NEW j \in Job, Enqueue(s, j)
  PROVE  Aside(s, j)
<1>1. Enqueued \in Source
  BY DEF Source
<1>2. CASE SetRebuild(s, j, Enqueued, Copyless("check"))
  BY <1>1, <1>2, SetAside
<1>3. CASE UNCHANGED rebuild
  BY <1>3 DEF TypeOK, Aside, AllRebuilds
<1>4. QED BY <1>2, <1>3 DEF Enqueue

\* The other steps that begin a rebuild, end it or look at the job.
AsideStep(s, j) ==
  \/ ViewSummary(s, j) \/ ViewFault(s, j)
  \/ \E v \in Source : RebuildCheck(s, j, v) \/ RebuildDone(s, j, v)

LEMMA StepsAside ==
  ASSUME TypeOK, NEW s \in Server, NEW j \in Job, AsideStep(s, j)
  PROVE  /\ Aside(s, j)
         /\ UNCHANGED <<status, startedAt, createdAt, blob, pc, seen, claimedAt, snapshot,
                        req, can, edit, doubled, told, up, clock>>
         /\ UNCHANGED <<crashes, faults>> \/ ViewFault(s, j)
<1> USE DEF row, worker, world
<1> DEFINE Goal ==
      /\ Aside(s, j)
      /\ UNCHANGED <<status, startedAt, createdAt, blob, pc, seen, claimedAt, snapshot,
                     req, can, edit, doubled, told, up, clock>>
      /\ UNCHANGED <<crashes, faults>> \/ ViewFault(s, j)
<1>1. CASE ViewSummary(s, j)
  <2>1. Aside(s, j)
    <3>1. CASE Enqueue(s, j)
      BY <3>1, EnqueueAside
    <3>2. ASSUME NEW v \in View, SetRebuild(s, j, v, Copyless("check")) PROVE Aside(s, j)
      BY <3>2, SetAside DEF Source
    <3>3. QED BY <1>1, <3>1, <3>2 DEF ViewSummary
  <2>2. QED BY <1>1, <2>1 DEF ViewSummary
<1>2. CASE ViewFault(s, j)
  <2>1. PICK v \in View : SetRebuild(s, j, v, Copyless("none"))
    BY <1>2 DEF ViewFault
  <2>2. Aside(s, j)
    BY <2>1, SetAside DEF Source
  <2>3. QED BY <1>2, <2>2 DEF ViewFault
<1>3. ASSUME NEW v \in Source, RebuildCheck(s, j, v) PROVE Goal
  <2>1. Aside(s, j)
    <3>1. CASE blob[j].result
      BY <1>3, <3>1, SetAside DEF RebuildCheck
    <3>2. CASE ~blob[j].result
      BY <1>3, <3>2, SetAside DEF RebuildCheck
    <3>3. QED BY <3>1, <3>2
  <2>2. QED BY <1>3, <2>1 DEF RebuildCheck
<1>4. ASSUME NEW v \in Source, RebuildDone(s, j, v) PROVE Goal
  <2>1. Aside(s, j)
    BY <1>4, SetAside DEF RebuildDone
  <2>2. QED BY <1>4, <2>1 DEF RebuildDone
<1>5. QED BY <1>1, <1>2, <1>3, <1>4 DEF AsideStep

\* The handlers a process leaves behind.
LEMMA AbandonedAreHandlers ==
  ASSUME NEW h \in [Job -> Handler], NEW s \in Server
  PROVE  Abandoned(h, s) \in [Job -> Handler]
  BY HandlerFields DEF Abandoned

-----------------------------------------------------------------------------
(* Type correctness. *)

\* One step of a worker's program keeps pc, and its accesses keep seen, well
\* typed.
LEMMA WorkerTypes ==
  ASSUME TypeOK, NEW s \in Server, NEW j \in Job
  PROVE  /\ \A from, to \in PC : Goto(s, j, from, to) => pc' \in [Server -> [Job -> PC]]
         /\ \A b \in Blob : [seen EXCEPT ![s][j] = b] \in [Server -> [Job -> Blob]]
         /\ \A n \in Nat : [claimedAt EXCEPT ![s][j] = n] \in [Server -> [Job -> Nat]]
         /\ seen[s][j] \in Blob /\ blob[j] \in Blob
<1>1. pc \in [Server -> [Job -> PC]] /\ seen \in [Server -> [Job -> Blob]]
      /\ claimedAt \in [Server -> [Job -> Nat]] /\ blob \in [Job -> Blob]
  BY DEF TypeOK
<1>2. \A from, to \in PC : Goto(s, j, from, to) => pc' \in [Server -> [Job -> PC]]
  BY <1>1 DEF Goto
<1>3. QED BY <1>1, <1>2

LEMMA WorkerStepType ==
  ASSUME TypeOK, NEW s \in Server, NEW j \in Job, WorkerStep(s, j)
  PROVE  TypeOK'
<1> USE DEF TypeOK, row, handlers, rebuilds, world
<1> DEFINE PCT == [Server -> [Job -> PC]]
<1>0. /\ \A st \in Status : [status EXCEPT ![j] = st] \in [Job -> Status]
      /\ \A b \in Blob : [blob EXCEPT ![j] = b] \in [Job -> Blob]
  OBVIOUS
<1>1. CASE Claim(s, j)
  <2>1. pc' \in PCT
    BY <1>1, WorkerTypes DEF Claim, PC, BeforeTry
  <2>2. status' \in [Job -> Status] /\ startedAt' \in [Job -> Nat]
    BY <1>1 DEF Claim, Status
  <2>3. claimedAt' \in [Server -> [Job -> Nat]]
    BY <1>1, WorkerTypes DEF Claim
  <2>4. QED BY <1>1, <2>1, <2>2, <2>3 DEF Claim
<1>2. CASE ClaimRefused(s, j)
  <2>1. pc' \in PCT
    BY <1>2, WorkerTypes DEF ClaimRefused, PC, BeforeTry
  <2>2. QED BY <1>2, <2>1 DEF ClaimRefused
<1>3. CASE MarkRead(s, j) \/ NoteRead(s, j) \/ PhaseRead(s, j) \/ FailRead(s, j) \/ ErrorRead(s, j)
  <2>1. pc' \in PCT
    BY <1>3, WorkerTypes DEF MarkRead, NoteRead, PhaseRead, FailRead, ErrorRead, PC, BeforeTry, InTry, InCatch
  <2>2. Select(s, j)
    BY <1>3 DEF MarkRead, NoteRead, PhaseRead, FailRead, ErrorRead
  <2>3. QED BY <2>1, <2>2, WorkerTypes DEF Select
<1>4. CASE \/ MarkWrite(s, j) \/ NoteWrite(s, j) \/ PhaseWrite(s, j)
           \/ FailWrite(s, j) \/ ErrorWrite(s, j)
  <2>1. pc' \in PCT
    BY <1>4, WorkerTypes DEF MarkWrite, NoteWrite, PhaseWrite, FailWrite, ErrorWrite, Leave,
                             PC, BeforeTry, InTry, InCatch
  <2>2. \A e \in Event, err \in Error :
           Pushed(seen[s][j], e) \in Blob /\ WithError(seen[s][j], err) \in Blob
    BY WorkerTypes, BlobOperators
  <2>3. PICK st \in Status, b \in Blob : Update(s, j, st, b)
    <3>1. /\ "processing" \in Status /\ "failed" \in Status /\ status[j] \in Status
          /\ "processing" \in Event /\ "phase_complete" \in Event /\ "error" \in Event
          /\ "phase" \in Error
      BY DEF Status, Event, Error
    <3>2. \/ Update(s, j, "processing", seen[s][j])
          \/ Update(s, j, status[j], Pushed(seen[s][j], "processing"))
          \/ Update(s, j, status[j], Pushed(seen[s][j], "phase_complete"))
          \/ Update(s, j, "failed", WithError(seen[s][j], "phase"))
          \/ Update(s, j, status[j], Pushed(seen[s][j], "error"))
      BY <1>4 DEF MarkWrite, NoteWrite, PhaseWrite, FailWrite, ErrorWrite
    <3>3. seen[s][j] \in Blob
      BY WorkerTypes
    <3>4. QED BY <2>2, <3>1, <3>2, <3>3, Zenon
  <2>4. status' \in [Job -> Status] /\ blob' \in [Job -> Blob] /\ seen' \in [Server -> [Job -> Blob]]
    BY <1>0, <2>3, NoBlobType, WorkerTypes DEF Update
  <2>5. claimedAt' \in [Server -> [Job -> Nat]]
    <3>1. claimedAt' = claimedAt \/ claimedAt' = [claimedAt EXCEPT ![s][j] = 0]
      BY <1>4 DEF MarkWrite, NoteWrite, PhaseWrite, FailWrite, ErrorWrite, Leave
    <3>2. [claimedAt EXCEPT ![s][j] = 0] \in [Server -> [Job -> Nat]]
      OBVIOUS
    <3>3. QED BY <3>1, <3>2
  <2>6. QED BY <2>1, <2>3, <2>4, <2>5 DEF Update
<1>5. CASE Convert(s, j)
  <2>1. pc' \in PCT
    BY <1>5, WorkerTypes DEF Convert, PC, InTry, InCatch
  <2>2. QED BY <1>5, <2>1 DEF Convert
<1>10. CASE SaveHistory(s, j)
  <2>1. pc' \in PCT
    BY <1>10, WorkerTypes DEF SaveHistory, PC, InTry
  <2>2. rebuild' \in AllRebuilds
    BY <1>10, EnqueueAside DEF SaveHistory, Aside
  <2>3. QED BY <1>10, <2>1, <2>2 DEF SaveHistory, AllRebuilds
<1>6. CASE Finish(s, j)
  <2>1. pc' \in PCT
    BY <1>6, WorkerTypes DEF Finish, Leave, PC, InTry
  <2>2. QED BY <1>6, <2>1, WorkerTypes DEF Finish, Leave
<1>7. CASE StoreRead(s, j)
  <2>1. pc' \in PCT
    BY <1>7, WorkerTypes DEF StoreRead, PC, InTry
  <2>2. snapshot' \in [Server -> SUBSET Job]
    BY <1>7 DEF StoreRead
  <2>3. QED BY <1>7, <2>1, <2>2, WorkerTypes DEF StoreRead
<1>8. CASE SaveCompleted(s, j)
  <2>1. pc' \in PCT
    BY <1>8, WorkerTypes DEF SaveCompleted, PC, InTry
  <2>2. snapshot' \in [Server -> SUBSET Job]
    BY <1>8 DEF SaveCompleted
  <2>3. [result |-> TRUE, error |-> "none", events |-> Append(seen[s][j].events, "complete")] \in Blob
    BY WorkerTypes DEF Blob, Error, Event
  <2>4. status' \in [Job -> Status] /\ blob' \in [Job -> Blob] /\ seen' \in [Server -> [Job -> Blob]]
    BY <1>0, <1>8, <2>3, NoBlobType, WorkerTypes DEF SaveCompleted, Status
  <2>5. QED BY <1>8, <2>1, <2>2, <2>4 DEF SaveCompleted
<1>9. QED
  BY <1>1, <1>2, <1>3, <1>4, <1>5, <1>6, <1>7, <1>8, <1>10 DEF WorkerStep

LEMMA AsideStepType ==
  ASSUME TypeOK, NEW s \in Server, NEW j \in Job, AsideStep(s, j)
  PROVE  TypeOK'
<1>1. /\ rebuild' \in AllRebuilds
      /\ UNCHANGED <<status, startedAt, createdAt, blob, pc, seen, claimedAt, snapshot,
                     req, can, edit, doubled, told, up, clock>>
  BY StepsAside DEF Aside
<1>2. crashes' \in Nat /\ faults' \in Nat
  <2>1. CASE UNCHANGED <<crashes, faults>>
    BY <2>1 DEF TypeOK
  <2>2. CASE ViewFault(s, j)
    <3>1. crashes' = crashes /\ faults' = faults + 1
      BY <2>2 DEF ViewFault
    <3>2. QED BY <3>1 DEF TypeOK
  <2>3. QED BY <2>1, <2>2, StepsAside
<1>3. QED BY <1>1, <1>2 DEF TypeOK, AllRebuilds

LEMMA RebuildStepType ==
  ASSUME TypeOK, NEW s \in Server, NEW j \in Job, NEW v \in Source, RebuildStep(s, j, v)
  PROVE  TypeOK'
<1> USE DEF TypeOK, row, worker, world
<1>1. /\ rebuild[s][j][v] \in Rebuild
      /\ rebuild[s][j][v].blob \in Blob /\ rebuild[s][j][v].status \in Status
  BY RebuildFields
<1>2. CASE RebuildRead(s, j, v)
  <2>1. rebuild' \in AllRebuilds
    <3>1. Rebuilding("updating", blob[j], status[j]) \in Rebuild
      BY RebuildOperators
    <3>2. QED BY <1>2, <3>1, SetRebuildFrame DEF RebuildRead
  <2>2. doubled' \in SUBSET Job
    BY <1>2 DEF RebuildRead
  <2>3. QED BY <1>2, <2>1, <2>2 DEF RebuildRead, AllRebuilds
<1>3. CASE RebuildWrite(s, j, v)
  <2>1. rebuild' \in AllRebuilds
    BY <1>3, CopylessFields, SetRebuildFrame DEF RebuildWrite
  <2>2. status' \in [Job -> Status] /\ blob' \in [Job -> Blob]
    BY <1>1, <1>3 DEF RebuildWrite
  <2>3. QED BY <1>3, <2>1, <2>2 DEF RebuildWrite, AllRebuilds
<1>4. QED BY <1>2, <1>3, AsideStepType DEF RebuildStep, AsideStep

LEMMA NoRebuildsType ==
  /\ NoRebuilds \in [Source -> Rebuild]
  /\ \A v \in Source : NoRebuilds[v].at = "none"
  BY CopylessFields DEF NoRebuilds

LEMMA HaltType ==
  ASSUME TypeOK, NEW s \in Server, Halt(s),
         crashes' \in Nat, faults' \in Nat
  PROVE  TypeOK'
<1> USE DEF TypeOK, row
<1>1. pc' \in [Server -> [Job -> PC]]
  BY DEF Halt, PC
<1>2. seen' \in [Server -> [Job -> Blob]] /\ claimedAt' \in [Server -> [Job -> Nat]]
  BY NoBlobType DEF Halt
<1>3. snapshot' \in [Server -> SUBSET Job] /\ up' \in SUBSET Server
  BY DEF Halt
<1>4. req' \in [Job -> Handler] /\ can' \in [Job -> Handler] /\ edit' \in [Job -> Handler]
  BY AbandonedAreHandlers DEF Halt
<1>5. rebuild' \in [Server -> [Job -> [Source -> Rebuild]]]
  BY NoRebuildsType DEF Halt
<1>6. QED BY <1>1, <1>2, <1>3, <1>4, <1>5 DEF Halt

LEMMA TypeInit == Init => TypeOK
<1> SUFFICES ASSUME Init PROVE TypeOK
  OBVIOUS
<1>1. NewHandler \in Handler
  BY NoBlobType, HandlerOperators DEF NewHandler, Place, Status
<1>2. rebuild \in [Server -> [Job -> [Source -> Rebuild]]]
  BY NoRebuildsType DEF Init
<1>3. QED BY <1>1, <1>2, NoBlobType DEF Init, TypeOK, Status, PC

\* Every step, stuttering included, keeps the types.
LEMMA TypeStep ==
  ASSUME TypeOK, [Next]_vars
  PROVE  TypeOK'
<1> USE DEF TypeOK, row, worker, handlers, rebuilds, world
<1>0. \A at \in Place, b \in Blob, h \in Handler : At(h, at, b) \in Handler
  BY HandlerOperators
<1>1. ASSUME NEW s \in Server, ServerStep(s) PROVE TypeOK'
  <2>1. CASE Start(s)
    <3>1. pc' \in [Server -> [Job -> PC]]
      BY <2>1 DEF Start, PC, BeforeTry
    <3>2. QED BY <2>1, <3>1 DEF Start
  <2>2. CASE Crash(s)
    <3>1. crashes' \in Nat /\ faults' \in Nat
      BY <2>2 DEF Crash
    <3>2. QED BY <2>2, <3>1, HaltType DEF Crash
  <2>3. QED BY <1>1, <2>1, <2>2 DEF ServerStep
<1>2. ASSUME NEW s \in Server, NEW j \in Job, JobStep(s, j) PROVE TypeOK'
  <2>1. \A at \in Place, b \in Blob, st \in Status : Opened(at, s, b, st) \in Handler
    BY HandlerOperators
  <2>2. CASE QueueSave(j, s)
    <3>1. Cardinality(Submitted) \in Nat
      BY ConstantsAssumption, FS_Subset, FS_CardinalityType DEF Submitted
    <3>2. createdAt' \in [Job -> Nat] /\ status' \in [Job -> Status]
      BY <2>2, <3>1 DEF QueueSave, Status
    <3>3. req' \in [Job -> Handler]
      BY <2>1, <2>2, NoBlobType DEF QueueSave, Place, Status
    <3>4. QED BY <2>2, <3>2, <3>3 DEF QueueSave
  <2>3. CASE CancelCheck(j, s)
    <3>1. can' \in [Job -> Handler]
      BY <2>1, <2>3, NoBlobType DEF CancelCheck, Place, Status
    <3>2. QED BY <2>3, <3>1 DEF CancelCheck
  <2>4. CASE EditRead(j, s)
    <3>1. edit' \in [Job -> Handler]
      BY <2>1, <2>4 DEF EditRead, Place
    <3>2. QED BY <2>4, <3>1 DEF EditRead
  <2>5. CASE WorkerStep(s, j) \/ \E v \in Source : RebuildStep(s, j, v)
    BY <2>5, WorkerStepType, RebuildStepType
  <2>11. CASE ViewSummary(s, j) \/ ViewFault(s, j)
    BY <2>11, AsideStepType DEF AsideStep
  <2>6. CASE Poll(s, j)
    BY <2>6 DEF Poll
  <2>7. CASE ExpireSnapshot(s, j)
    BY <2>7 DEF ExpireSnapshot
  <2>8. CASE UnhandledRejection(s, j)
    <3>1. crashes' \in Nat /\ faults' \in Nat
      BY <2>8 DEF UnhandledRejection
    <3>2. QED BY <2>8, <3>1, HaltType DEF UnhandledRejection
  <2>9. CASE CaughtFault(s, j)
    <3>1. pc' \in [Server -> [Job -> PC]]
      BY <2>9 DEF CaughtFault, PC, InCatch
    <3>2. QED BY <2>9, <3>1, NoBlobType, WorkerTypes DEF CaughtFault
  <2>10. QED
    BY <1>2, <2>2, <2>3, <2>4, <2>5, <2>6, <2>7, <2>8, <2>9, <2>11 DEF JobStep
<1>3. ASSUME NEW j \in Job, RequestStep(j) PROVE TypeOK'
  <2>0. /\ req[j] \in Handler /\ can[j] \in Handler /\ edit[j] \in Handler
        /\ req[j].blob \in Blob /\ can[j].blob \in Blob /\ edit[j].blob \in Blob
        /\ edit[j].status \in Status
    BY HandlerFields
  <2>1. CASE QueueAppendRead(j)
    <3>1. req' \in [Job -> Handler]
      BY <1>0, <2>0, <2>1 DEF QueueAppendRead, Place
    <3>2. QED BY <2>1, <3>1 DEF QueueAppendRead
  <2>2. CASE QueueAppendWrite(j)
    <3>1. req' \in [Job -> Handler]
      BY <1>0, <2>0, <2>2, NoBlobType DEF QueueAppendWrite, Place
    <3>2. blob' \in [Job -> Blob]
      BY <2>0, <2>2, BlobOperators DEF QueueAppendWrite, Event, Error
    <3>3. pc' \in [Server -> [Job -> PC]]
      BY <2>2 DEF QueueAppendWrite, PC, BeforeTry
    <3>4. QED BY <2>2, <3>1, <3>2, <3>3 DEF QueueAppendWrite
  <2>3. CASE CancelRead(j)
    <3>1. At(can[j], "updating", blob[j]) \in Handler /\ At(can[j], "appending", blob[j]) \in Handler
      BY <1>0, <2>0 DEF Place
    <3>2. PICK h \in Handler : can' = [can EXCEPT ![j] = h]
      BY <2>3, <3>1 DEF CancelRead
    <3>3. can' \in [Job -> Handler]
      BY <3>2
    <3>4. QED BY <2>3, <3>3 DEF CancelRead
  <2>4. CASE CancelWrite(j)
    <3>1. can' \in [Job -> Handler]
      BY <1>0, <2>0, <2>4, NoBlobType DEF CancelWrite, Place
    <3>2. blob' \in [Job -> Blob] /\ status' \in [Job -> Status]
      BY <2>0, <2>4, BlobOperators DEF CancelWrite, Event, Error, Status
    <3>3. QED BY <2>4, <3>1, <3>2 DEF CancelWrite
  <2>5. CASE CancelAnswer(j)
    <3>1. can' \in [Job -> Handler]
      BY <1>0, <2>0, <2>5, NoBlobType DEF CancelAnswer, Place
    <3>2. blob' \in [Job -> Blob]
      BY <2>0, <2>5, BlobOperators DEF CancelAnswer, Event, Error
    <3>3. QED BY <2>5, <3>1, <3>2 DEF CancelAnswer
  <2>6. CASE EditWrite(j)
    <3>1. edit' \in [Job -> Handler]
      BY <1>0, <2>0, <2>6, NoBlobType DEF EditWrite, Place
    <3>2. QED BY <2>0, <2>6, <3>1 DEF EditWrite
  <2>7. QED
    BY <1>3, <2>1, <2>2, <2>3, <2>4, <2>5, <2>6 DEF RequestStep
<1>4. ASSUME NEW j \in Job, RequestFault(j) PROVE TypeOK'
  <2>1. req' \in [Job -> Handler] /\ can' \in [Job -> Handler] /\ edit' \in [Job -> Handler]
    <3>1. Lost(req[j]) \in Handler /\ Lost(can[j]) \in Handler /\ Lost(edit[j]) \in Handler
      BY HandlerFields
    <3>2. /\ req' = req \/ req' = [req EXCEPT ![j] = Lost(@)]
          /\ can' = can \/ can' = [can EXCEPT ![j] = Lost(@)]
          /\ edit' = edit \/ edit' = [edit EXCEPT ![j] = Lost(@)]
      BY <1>4 DEF RequestFault
    <3>3. /\ [req EXCEPT ![j] = Lost(@)] \in [Job -> Handler]
          /\ [can EXCEPT ![j] = Lost(@)] \in [Job -> Handler]
          /\ [edit EXCEPT ![j] = Lost(@)] \in [Job -> Handler]
      BY <3>1
    <3>4. QED BY <3>2, <3>3
  <2>2. QED BY <1>4, <2>1 DEF RequestFault
<1>5. CASE Tick
  BY <1>5 DEF Tick
<1>6. CASE UNCHANGED vars
  BY <1>6 DEF vars
<1>7. QED
  BY <1>1, <1>2, <1>3, <1>4, <1>5, <1>6 DEF Next

\* Type correctness of the model of server/src/jobs/runtime.ts: in particular
\* every step of every handler leaves a row the store can read back.
THEOREM TypeCorrect == Spec => []TypeOK
<1>1. TypeOK /\ [Next]_vars => TypeOK'
  BY TypeStep
<1>2. QED BY TypeInit, <1>1, PTL DEF Spec
-----------------------------------------------------------------------------
(***************************************************************************)
(* The inductive invariant.  It rests on one column: startedAt is set by   *)
(* the claim, never cleared, and no status but "processing" or a terminal  *)
(* one is ever written to a row that has it.  So a row that looks          *)
(* unclaimed is unclaimed, and the age of the last claim can be read off   *)
(* the row by every server.                                                *)
(***************************************************************************)

\* A worker that holds a claim holds the row's current claim or an older one;
\* a process that does not run has no worker and no request in flight.
WorkersHoldClaims ==
  /\ \A s \in Server, j \in Job :
       /\ pc[s][j] \in Holding => 0 < claimedAt[s][j] /\ claimedAt[s][j] <= startedAt[j]
       /\ pc[s][j] \notin Holding => claimedAt[s][j] = 0
       /\ s \notin up => pc[s][j] = "idle"
  /\ \A j \in Job : req[j].at \in InFlight => req[j].on \in up

\* The row of a claimed job is neither absent nor pending.
ClaimedRows ==
  \A j \in Job :
    /\ startedAt[j] <= clock
    /\ startedAt[j] # 0 => status[j] \notin {"absent", "pending"}

\* Every copy of a result, stored or private, is younger than a claim.
ResultsAreClaimed ==
  \A j \in Job :
    /\ blob[j].result => startedAt[j] # 0
    /\ \A s \in Server : seen[s][j].result => startedAt[j] # 0
    /\ req[j].blob.result => startedAt[j] # 0
    /\ can[j].blob.result => startedAt[j] # 0
    /\ edit[j].at = "updating" =>
         startedAt[j] # 0 /\ edit[j].status \notin {"absent", "pending"}
    /\ \A s \in Server, v \in Source :
         /\ rebuild[s][j][v].at \in {"update", "updating"} => startedAt[j] # 0
         /\ rebuild[s][j][v].at = "updating" =>
              rebuild[s][j][v].status \notin {"absent", "pending"}

\* Handlers come in order: the row is inserted before anything is cancelled.
HandlersInOrder ==
  \A j \in Job :
    /\ req[j].at = "new" => status[j] = "absent"
    /\ can[j].at # "new" => req[j].at = "done"

\* What a cancellation leaves in a row that was never claimed.
CancelHolds ==
  \A j \in Job :
    can[j].at \in {"append", "appending", "done"} /\ startedAt[j] = 0 =>
      /\ status[j] = "failed" /\ blob[j].error = "cancelled"
      /\ can[j].at = "appending" => can[j].blob.error = "cancelled"

IInv ==
  /\ TypeOK
  /\ WorkersHoldClaims
  /\ ClaimedRows
  /\ ResultsAreClaimed
  /\ HandlersInOrder
  /\ CancelHolds
  /\ ClaimsSpaced

LEMMA InvInit == Init => IInv
<1> SUFFICES ASSUME Init PROVE IInv
  OBVIOUS
<1>1. TypeOK
  BY TypeInit
<1>2. NewHandler.at = "new" /\ ~NewHandler.blob.result
  BY DEF NewHandler, Opened, NoBlob
<1>3. WorkersHoldClaims /\ ClaimsSpaced
  BY <1>2 DEF Init, WorkersHoldClaims, ClaimsSpaced, Holding, InFlight
<1>4. ClaimedRows
  BY DEF Init, ClaimedRows
<1>5. ResultsAreClaimed
  BY <1>2, NoBlobType, NoRebuildsType DEF Init, ResultsAreClaimed
<1>6. HandlersInOrder /\ CancelHolds
  BY <1>2 DEF Init, HandlersInOrder, CancelHolds
<1>7. QED BY <1>1, <1>3, <1>4, <1>5, <1>6 DEF IInv

\* A rebuild that begins, ends or finds a result takes nothing from before a claim.
LEMMA AsideClaimed ==
  ASSUME ResultsAreClaimed, NEW s \in Server, NEW j \in Job,
         rebuild' = rebuild \/ Aside(s, j), startedAt' = startedAt
  PROVE  \A t \in Server, k \in Job, v \in Source :
           /\ rebuild'[t][k][v].at \in {"update", "updating"} => startedAt'[k] # 0
           /\ rebuild'[t][k][v].at = "updating" =>
                rebuild'[t][k][v].status \notin {"absent", "pending"}
<1> SUFFICES ASSUME NEW t \in Server, NEW k \in Job, NEW v \in Source
             PROVE  /\ rebuild'[t][k][v].at \in {"update", "updating"} => startedAt'[k] # 0
                    /\ rebuild'[t][k][v].at = "updating" =>
                         rebuild'[t][k][v].status \notin {"absent", "pending"}
  OBVIOUS
<1>1. CASE rebuild'[t][k][v] = rebuild[t][k][v]
  BY <1>1 DEF ResultsAreClaimed
<1>2. CASE rebuild'[t][k][v].at \in {"none", "check", "saving"}
  BY <1>2
<1>3. CASE rebuild'[t][k][v].at = "update" /\ k = j /\ blob[j].result
  BY <1>3 DEF ResultsAreClaimed
<1>4. QED BY <1>1, <1>2, <1>3 DEF Aside

\* What a worker that holds a claim may change: the row of its job, but not
\* its startedAt, its own registers, and the rebuild it leaves behind.
HolderStep(s, j) ==
  /\ pc[s][j] \in Holding
  /\ startedAt' = startedAt /\ req' = req /\ can' = can /\ edit' = edit
  /\ up' = up /\ clock' = clock
  /\ \A k \in Job \ {j} : status'[k] = status[k] /\ blob'[k] = blob[k]
  /\ status'[j] = status[j] \/ status'[j] \in {"processing", "completed", "failed"}
  /\ rebuild' = rebuild \/ Aside(s, j)
  /\ \A t \in Server, k \in Job :
       t # s \/ k # j => /\ pc'[t][k] = pc[t][k] /\ claimedAt'[t][k] = claimedAt[t][k]
                         /\ seen'[t][k] = seen[t][k]
  /\ \/ pc'[s][j] \in Holding /\ claimedAt'[s][j] = claimedAt[s][j]
     \/ pc'[s][j] = "idle" /\ claimedAt'[s][j] = 0

LEMMA WorkerStepsByHolder ==
  ASSUME TypeOK, NEW s \in Server, NEW j \in Job, WorkerStep(s, j) \/ CaughtFault(s, j)
  PROVE  Claim(s, j) \/ ClaimRefused(s, j) \/ HolderStep(s, j)
<1> USE DEF TypeOK, row, handlers, rebuilds, world, HolderStep, Goto,
            Holding, PC, BeforeTry, InTry, InCatch
<1>1. CASE MarkRead(s, j) \/ NoteRead(s, j) \/ PhaseRead(s, j) \/ FailRead(s, j) \/ ErrorRead(s, j)
  <2>1. PICK to \in Holding : pc[s][j] \in Holding /\ pc' = [pc EXCEPT ![s][j] = to]
    BY <1>1 DEF MarkRead, NoteRead, PhaseRead, FailRead, ErrorRead
  <2>2. Select(s, j)
    BY <1>1 DEF MarkRead, NoteRead, PhaseRead, FailRead, ErrorRead
  <2>3. QED BY <2>1, <2>2 DEF Select
<1>2. CASE MarkWrite(s, j) \/ FailWrite(s, j)
  BY <1>2 DEF MarkWrite, FailWrite, Update
<1>3. CASE NoteWrite(s, j) \/ PhaseWrite(s, j)
  BY <1>3 DEF NoteWrite, PhaseWrite, Update
<1>4. CASE ErrorWrite(s, j)
  BY <1>4 DEF ErrorWrite, Leave, Update
<1>5. CASE Convert(s, j)
  BY <1>5 DEF Convert
<1>11. CASE SaveHistory(s, j)
  <2>1. Aside(s, j)
    BY <1>11, EnqueueAside DEF SaveHistory
  <2>2. QED BY <1>11, <2>1 DEF SaveHistory
<1>6. CASE Finish(s, j)
  BY <1>6 DEF Finish, Leave
<1>7. CASE StoreRead(s, j)
  BY <1>7 DEF StoreRead
<1>8. CASE SaveCompleted(s, j)
  BY <1>8 DEF SaveCompleted
<1>9. CASE CaughtFault(s, j)
  BY <1>9 DEF CaughtFault
<1>10. QED
  BY <1>1, <1>2, <1>3, <1>4, <1>5, <1>6, <1>7, <1>8, <1>9, <1>11 DEF WorkerStep

\* A step that grants no claim keeps the claims apart.
LEMMA NoGrantKeepsSpaced ==
  ASSUME ClaimsSpaced,
         \A t \in Server, k \in Job :
           pc'[t][k] \in Holding => pc[t][k] \in Holding /\ claimedAt'[t][k] = claimedAt[t][k]
  PROVE  ClaimsSpaced'
<1> SUFFICES ASSUME NEW k \in Job, NEW t \in Server, NEW u \in Server, t # u,
                    pc'[t][k] \in Holding, pc'[u][k] \in Holding
             PROVE  \/ claimedAt'[t][k] + StaleAfter < claimedAt'[u][k]
                    \/ claimedAt'[u][k] + StaleAfter < claimedAt'[t][k]
  BY DEF ClaimsSpaced
<1>1. /\ pc[t][k] \in Holding /\ claimedAt'[t][k] = claimedAt[t][k]
      /\ pc[u][k] \in Holding /\ claimedAt'[u][k] = claimedAt[u][k]
  OBVIOUS
<1>2. QED BY <1>1 DEF ClaimsSpaced

LEMMA HolderKeepsInv ==
  ASSUME IInv, TypeOK', NEW s \in Server, NEW j \in Job, HolderStep(s, j)
  PROVE  IInv'
<1> USE DEF IInv, TypeOK, HolderStep
<1>1. startedAt[j] # 0 /\ 0 < startedAt[j] /\ s \in up
  BY DEF WorkersHoldClaims, Holding
<1>a. "idle" \notin Holding
  BY DEF Holding
<1>b. \A t \in Server, k \in Job :
        /\ pc'[t][k] \in Holding => pc[t][k] \in Holding /\ claimedAt'[t][k] = claimedAt[t][k]
        /\ pc'[t][k] \notin Holding => claimedAt'[t][k] = 0
        /\ t \notin up => pc'[t][k] = "idle"
  BY <1>1, <1>a DEF WorkersHoldClaims
<1>2. WorkersHoldClaims'
  BY <1>b DEF WorkersHoldClaims
<1>3. ClaimedRows'
  BY DEF ClaimedRows
<1>4. ResultsAreClaimed'
  <2> SUFFICES ASSUME NEW k \in Job PROVE ResultsAreClaimed!(k)'
    BY DEF ResultsAreClaimed
  <2>0. edit[k].at = "updating" => edit[k].status \notin {"absent", "pending"}
    BY DEF ResultsAreClaimed
  <2>a. \A t \in Server, v \in Source :
          /\ rebuild'[t][k][v].at \in {"update", "updating"} => startedAt'[k] # 0
          /\ rebuild'[t][k][v].at = "updating" =>
               rebuild'[t][k][v].status \notin {"absent", "pending"}
    BY AsideClaimed
  <2>1. CASE k = j
    BY <1>1, <2>0, <2>a, <2>1 DEF ResultsAreClaimed
  <2>2. CASE k # j
    BY <1>1, <2>a, <2>2 DEF ResultsAreClaimed
  <2>3. QED BY <2>1, <2>2
<1>5. HandlersInOrder'
  BY <1>1 DEF HandlersInOrder, ClaimedRows
<1>6. CancelHolds'
  <2> SUFFICES ASSUME NEW k \in Job PROVE CancelHolds!(k)'
    BY DEF CancelHolds
  <2>1. CASE k = j
    BY <1>1, <2>1 DEF CancelHolds
  <2>2. CASE k # j
    BY <2>2 DEF CancelHolds
  <2>3. QED BY <2>1, <2>2
<1>7. ClaimsSpaced'
  BY <1>b, NoGrantKeepsSpaced
<1>8. QED BY <1>2, <1>3, <1>4, <1>5, <1>6, <1>7

\* The heart of the matter: a claim is granted only when every other claim on
\* the job is older than ASYNC_JOB_STALE_MS.
LEMMA ClaimKeepsInv ==
  ASSUME IInv, TypeOK', NEW s \in Server, NEW j \in Job, Claim(s, j)
  PROVE  IInv'
<1> USE DEF IInv, TypeOK, Claim, Goto, handlers, rebuilds, world
<1>0. pc[s][j] = "queued" /\ pc' = [pc EXCEPT ![s][j] = "mark"] /\ clock > 0
  OBVIOUS
<1>1. s \in up /\ startedAt[j] <= clock /\ req[j].at # "new"
  BY DEF WorkersHoldClaims, ClaimedRows, HandlersInOrder, Claimable
<1>2. \A t \in Server : pc[t][j] \in Holding => claimedAt[t][j] + StaleAfter < clock
  <2> SUFFICES ASSUME NEW t \in Server, pc[t][j] \in Holding
               PROVE  claimedAt[t][j] + StaleAfter < clock
    OBVIOUS
  <2>1. 0 < claimedAt[t][j] /\ claimedAt[t][j] <= startedAt[j] /\ startedAt[j] # 0
    BY DEF WorkersHoldClaims
  <2>2. status[j] # "pending"
    BY <2>1 DEF ClaimedRows
  <2>3. startedAt[j] < clock - StaleAfter
    BY <2>1, <2>2 DEF Claimable
  <2>4. QED BY <2>1, <2>3, ConstantsAssumption
<1>3. /\ pc'[s][j] = "mark" /\ claimedAt'[s][j] = clock
      /\ \A t \in Server, k \in Job :
           t # s \/ k # j => pc'[t][k] = pc[t][k] /\ claimedAt'[t][k] = claimedAt[t][k]
  BY <1>0
<1>4. "mark" \in Holding
  BY DEF Holding, PC, BeforeTry
<1>5. startedAt'[j] = clock /\ \A k \in Job \ {j} : startedAt'[k] = startedAt[k]
  OBVIOUS
<1>6. WorkersHoldClaims'
  BY <1>0, <1>1, <1>3, <1>4, <1>5 DEF WorkersHoldClaims
<1>7. ClaimedRows'
  BY <1>0, <1>1, <1>5 DEF ClaimedRows
<1>8. ResultsAreClaimed'
  BY <1>0, <1>5 DEF ResultsAreClaimed
<1>9. HandlersInOrder'
  BY <1>1 DEF HandlersInOrder
<1>10. CancelHolds'
  BY <1>0, <1>5 DEF CancelHolds
<1>11. ClaimsSpaced'
  BY <1>2, <1>3, <1>4 DEF ClaimsSpaced
<1>12. QED BY <1>6, <1>7, <1>8, <1>9, <1>10, <1>11

\* A process that ends takes its claims with it and leaves the rows alone.
LEMMA HaltKeepsInv ==
  ASSUME IInv, TypeOK', NEW s \in Server, Halt(s)
  PROVE  IInv'
<1> USE DEF IInv, TypeOK
<1>0. /\ status' = status /\ startedAt' = startedAt /\ blob' = blob
      /\ clock' = clock /\ up' = up \ {s}
  BY DEF Halt, row
<1>1. ASSUME NEW h \in [Job -> Handler], NEW j \in Job
      PROVE  /\ Abandoned(h, s)[j].at \in InFlight => h[j].on # s
             /\ \/ Abandoned(h, s)[j] = h[j]
                \/ /\ h[j].at \in InFlight /\ Abandoned(h, s)[j].at = "lost"
                   /\ Abandoned(h, s)[j].blob = NoBlob
  BY <1>1, HandlerFields DEF Abandoned, InFlight
<1>2. \A j \in Job :
        /\ req'[j].at \in InFlight => req[j].on # s
        /\ \/ req'[j] = req[j]
           \/ req[j].at \in InFlight /\ req'[j].at = "lost" /\ req'[j].blob = NoBlob
        /\ \/ can'[j] = can[j]
           \/ can[j].at \in InFlight /\ can'[j].at = "lost" /\ can'[j].blob = NoBlob
        /\ edit'[j] = edit[j] \/ edit'[j].at = "lost"
  BY <1>1 DEF Halt
<1>3. /\ \A j \in Job : pc'[s][j] = "idle" /\ claimedAt'[s][j] = 0 /\ seen'[s][j] = NoBlob
      /\ \A t \in Server \ {s}, j \in Job :
           pc'[t][j] = pc[t][j] /\ claimedAt'[t][j] = claimedAt[t][j] /\ seen'[t][j] = seen[t][j]
  BY DEF Halt
<1>4. WorkersHoldClaims'
  <2>1. "idle" \notin Holding
    BY DEF Holding
  <2>2. \A t \in Server, k \in Job :
          \/ t = s /\ pc'[t][k] = "idle" /\ claimedAt'[t][k] = 0
          \/ t # s /\ pc'[t][k] = pc[t][k] /\ claimedAt'[t][k] = claimedAt[t][k]
    BY <1>3
  <2>3. \A k \in Job : req'[k].at \in InFlight => req'[k] = req[k] /\ req[k].on # s
    BY <1>2 DEF InFlight
  <2>4. \A k \in Job : req'[k].at \in InFlight => req'[k].on \in up'
    BY <1>0, <2>3 DEF WorkersHoldClaims
  <2>5. \A t \in Server, k \in Job :
          /\ pc'[t][k] \in Holding => 0 < claimedAt'[t][k] /\ claimedAt'[t][k] <= startedAt'[k]
          /\ pc'[t][k] \notin Holding => claimedAt'[t][k] = 0
          /\ t \notin up' => pc'[t][k] = "idle"
    BY <1>0, <2>1, <2>2 DEF WorkersHoldClaims
  <2>6. QED BY <2>4, <2>5 DEF WorkersHoldClaims
<1>5. ClaimedRows'
  BY <1>0 DEF ClaimedRows
<1>6. ResultsAreClaimed'
  <2> SUFFICES ASSUME NEW j \in Job PROVE ResultsAreClaimed!(j)'
    BY DEF ResultsAreClaimed
  <2>1. \A t \in Server : seen'[t][j] = seen[t][j] \/ seen'[t][j] = NoBlob
    BY <1>3
  <2>2. \A t \in Server, v \in Source :
          rebuild'[t][j][v] = rebuild[t][j][v] \/ rebuild'[t][j][v].at = "none"
    BY NoRebuildsType DEF Halt
  <2>3. \A t \in Server, v \in Source :
          /\ rebuild'[t][j][v].at \in {"update", "updating"} => startedAt'[j] # 0
          /\ rebuild'[t][j][v].at = "updating" =>
               rebuild'[t][j][v].status \notin {"absent", "pending"}
    BY <1>0, <2>2 DEF ResultsAreClaimed
  <2>4. \A t \in Server : seen'[t][j].result => startedAt'[j] # 0
    BY <1>0, <2>1, NoBlobType DEF ResultsAreClaimed
  <2>5. /\ blob'[j].result => startedAt'[j] # 0
        /\ req'[j].blob.result => startedAt'[j] # 0
        /\ can'[j].blob.result => startedAt'[j] # 0
    BY <1>0, <1>2, NoBlobType DEF ResultsAreClaimed
  <2>6. edit'[j].at = "updating" =>
          startedAt'[j] # 0 /\ edit'[j].status \notin {"absent", "pending"}
    BY <1>0, <1>2 DEF ResultsAreClaimed
  <2>7. QED BY <2>3, <2>4, <2>5, <2>6
<1>7. HandlersInOrder'
  <2> SUFFICES ASSUME NEW j \in Job PROVE HandlersInOrder!(j)'
    BY DEF HandlersInOrder
  <2>1. req'[j] = req[j] \/ (req[j].at \in InFlight /\ req'[j].at = "lost")
    BY <1>2
  <2>2. can'[j] = can[j] \/ (can[j].at \in InFlight /\ can'[j].at = "lost")
    BY <1>2
  <2>3. QED BY <1>0, <2>1, <2>2 DEF HandlersInOrder, InFlight
<1>8. CancelHolds'
  <2> SUFFICES ASSUME NEW j \in Job PROVE CancelHolds!(j)'
    BY DEF CancelHolds
  <2>1. can'[j] = can[j] \/ can'[j].at = "lost"
    BY <1>2
  <2>2. QED BY <1>0, <2>1 DEF CancelHolds
<1>9. ClaimsSpaced'
  <2>1. \A t \in Server, k \in Job :
          pc'[t][k] \in Holding => pc[t][k] \in Holding /\ claimedAt'[t][k] = claimedAt[t][k]
    <3>1. "idle" \notin Holding
      BY DEF Holding
    <3>2. TAKE t \in Server, k \in Job
    <3>3. CASE t = s
      BY <1>3, <3>1, <3>3
    <3>4. CASE t # s
      BY <1>3, <3>4
    <3>5. QED BY <3>3, <3>4
  <2>2. QED BY <2>1, NoGrantKeepsSpaced
<1>10. QED BY <1>4, <1>5, <1>6, <1>7, <1>8, <1>9

\* A step of a request handler or of a process that starts: no worker that
\* holds a claim moves, and no startedAt changes.
NoHolderMoves ==
  /\ startedAt' = startedAt /\ claimedAt' = claimedAt /\ seen' = seen /\ clock' = clock
  /\ \A t \in Server, k \in Job :
       \/ pc'[t][k] = pc[t][k]
       \/ pc[t][k] \notin Holding /\ pc'[t][k] \notin Holding /\ t \in up'
  /\ up \subseteq up'

LEMMA NoHolderMovesKeeps ==
  ASSUME IInv, NoHolderMoves,
         \A j \in Job : req'[j].at \in InFlight => req'[j].on \in up'
  PROVE  WorkersHoldClaims' /\ ClaimsSpaced'
<1>1. \A t \in Server, k \in Job :
        pc'[t][k] \in Holding => pc[t][k] \in Holding /\ claimedAt'[t][k] = claimedAt[t][k]
  BY DEF NoHolderMoves
<1>2. ClaimsSpaced'
  BY <1>1, NoGrantKeepsSpaced DEF IInv
<1>3. \A t \in Server, k \in Job :
        /\ pc'[t][k] \notin Holding => pc[t][k] \notin Holding
        /\ t \notin up' => pc'[t][k] = "idle"
  BY DEF NoHolderMoves, IInv, WorkersHoldClaims
<1>4. WorkersHoldClaims'
  BY <1>1, <1>3 DEF NoHolderMoves, IInv, WorkersHoldClaims
<1>5. QED BY <1>2, <1>4

LEMMA HoldingPlaces == "idle" \notin Holding /\ "queued" \notin Holding
  BY DEF Holding

\* The handler that queues a job.
LEMMA QueueKeepsInv ==
  ASSUME IInv, TypeOK', NEW j \in Job,
         \/ \E s \in Server : QueueSave(j, s)
         \/ QueueAppendRead(j) \/ QueueAppendWrite(j)
  PROVE  IInv'
<1> USE DEF IInv, TypeOK, rebuilds, worker, world
<1>0. \A k \in Job : /\ req[k] \in Handler /\ req[k].blob \in Blob
                     /\ req[k].on \in Server \cup {"none"} /\ blob[k] \in Blob
  BY HandlerFields
<1>1. CASE \E s \in Server : QueueSave(j, s)
  <2> PICK s \in Server : QueueSave(j, s)
    BY <1>1
  <2>1. Opened("append", s, NoBlob, "absent") \in Handler
        /\ Opened("append", s, NoBlob, "absent").at = "append"
        /\ Opened("append", s, NoBlob, "absent").on = s
        /\ Opened("append", s, NoBlob, "absent").blob = NoBlob
    BY NoBlobType, HandlerOperators DEF Place, Status
  <2>2. /\ req[j].at = "new" /\ status[j] = "absent" /\ startedAt[j] = 0 /\ can[j].at = "new"
        /\ s \in up
    BY DEF QueueSave, HandlersInOrder, ClaimedRows
  <2>3. /\ req'[j].at = "append" /\ req'[j].on = s /\ ~req'[j].blob.result
        /\ \A k \in Job \ {j} : req'[k] = req[k] /\ status'[k] = status[k]
        /\ can' = can /\ edit' = edit /\ rebuild' = rebuild /\ blob' = blob /\ pc' = pc /\ up' = up
    BY <2>1, NoBlobType DEF QueueSave
  <2>4. NoHolderMoves
    BY DEF NoHolderMoves, QueueSave
  <2>5. \A k \in Job : req'[k].at \in InFlight => req'[k].on \in up'
    BY <2>2, <2>3 DEF WorkersHoldClaims
  <2>6. WorkersHoldClaims' /\ ClaimsSpaced'
    BY <2>4, <2>5, NoHolderMovesKeeps
  <2>7. ClaimedRows' /\ ResultsAreClaimed'
    BY <2>2, <2>3, <2>4 DEF ClaimedRows, ResultsAreClaimed, NoHolderMoves
  <2>8. HandlersInOrder' /\ CancelHolds'
    <3>1. HandlersInOrder'
      <4> SUFFICES ASSUME NEW k \in Job PROVE HandlersInOrder!(k)'
        BY DEF HandlersInOrder
      <4>1. CASE k = j
        BY <2>2, <2>3, <2>4, <4>1 DEF HandlersInOrder, NoHolderMoves
      <4>2. CASE k # j
        BY <2>2, <2>3, <2>4, <4>2 DEF HandlersInOrder, NoHolderMoves
      <4>3. QED BY <4>1, <4>2
    <3>2. CancelHolds'
      BY <2>2, <2>3, <2>4 DEF CancelHolds, NoHolderMoves
    <3>3. QED BY <3>1, <3>2
  <2>9. QED BY <2>6, <2>7, <2>8
<1>2. CASE QueueAppendRead(j)
  <2>1. /\ At(req[j], "appending", blob[j]).at = "appending"
        /\ At(req[j], "appending", blob[j]).on = req[j].on
        /\ At(req[j], "appending", blob[j]).blob = blob[j]
    BY <1>0, HandlerOperators DEF Place
  <2>2. /\ req[j].at = "append"
        /\ req'[j].at = "appending" /\ req'[j].on = req[j].on /\ req'[j].blob = blob[j]
        /\ \A k \in Job \ {j} : req'[k] = req[k]
        /\ can' = can /\ edit' = edit /\ rebuild' = rebuild /\ blob' = blob
        /\ status' = status /\ pc' = pc /\ up' = up
    BY <1>2, <2>1 DEF QueueAppendRead, row
  <2>3. NoHolderMoves
    BY <1>2 DEF NoHolderMoves, QueueAppendRead, row
  <2>4. \A k \in Job : req'[k].at \in InFlight => req'[k].on \in up'
    BY <2>2 DEF WorkersHoldClaims, InFlight
  <2>5. WorkersHoldClaims' /\ ClaimsSpaced'
    BY <2>3, <2>4, NoHolderMovesKeeps
  <2>6. ClaimedRows' /\ ResultsAreClaimed'
    BY <2>2, <2>3 DEF ClaimedRows, ResultsAreClaimed, NoHolderMoves
  <2>7. HandlersInOrder' /\ CancelHolds'
    <3>1. HandlersInOrder'
      <4> SUFFICES ASSUME NEW k \in Job PROVE HandlersInOrder!(k)'
        BY DEF HandlersInOrder
      <4>1. CASE k = j
        BY <2>2, <2>3, <4>1 DEF HandlersInOrder, NoHolderMoves
      <4>2. CASE k # j
        BY <2>2, <2>3, <4>2 DEF HandlersInOrder, NoHolderMoves
      <4>3. QED BY <4>1, <4>2
    <3>2. CancelHolds'
      BY <2>2, <2>3 DEF CancelHolds, NoHolderMoves
    <3>3. QED BY <3>1, <3>2
  <2>8. QED BY <2>5, <2>6, <2>7
<1>3. CASE QueueAppendWrite(j)
  <2>1. /\ At(req[j], "done", NoBlob).at = "done"
        /\ At(req[j], "done", NoBlob).on = req[j].on
        /\ At(req[j], "done", NoBlob).blob = NoBlob
    BY <1>0, NoBlobType, HandlerOperators DEF Place
  <2>2. /\ req[j].at = "appending" /\ req[j].on \in up
        /\ can[j].at = "new"
    BY <1>3 DEF QueueAppendWrite, HandlersInOrder, WorkersHoldClaims, InFlight
  <2>3. /\ req'[j].at = "done" /\ ~req'[j].blob.result
        /\ \A k \in Job \ {j} : req'[k] = req[k] /\ blob'[k] = blob[k]
        /\ blob'[j].result = req[j].blob.result
        /\ can' = can /\ edit' = edit /\ rebuild' = rebuild /\ status' = status /\ up' = up
    BY <1>0, <1>3, <2>1, NoBlobType, BlobOperators DEF QueueAppendWrite, Event, Error
  <2>4. \A t \in Server, k \in Job :
          pc'[t][k] = pc[t][k] \/ (pc[t][k] = "idle" /\ pc'[t][k] = "queued" /\ t = req[j].on)
    BY <1>3 DEF QueueAppendWrite
  <2>5. NoHolderMoves
    BY <1>3, <2>2, <2>3, <2>4, HoldingPlaces DEF NoHolderMoves, QueueAppendWrite
  <2>6. \A k \in Job : req'[k].at \in InFlight => req'[k].on \in up'
    BY <2>3 DEF WorkersHoldClaims, InFlight
  <2>7. WorkersHoldClaims' /\ ClaimsSpaced'
    BY <2>5, <2>6, NoHolderMovesKeeps
  <2>8. ClaimedRows' /\ ResultsAreClaimed'
    BY <2>2, <2>3, <2>5 DEF ClaimedRows, ResultsAreClaimed, NoHolderMoves
  <2>9. HandlersInOrder' /\ CancelHolds'
    <3>1. HandlersInOrder'
      <4> SUFFICES ASSUME NEW k \in Job PROVE HandlersInOrder!(k)'
        BY DEF HandlersInOrder
      <4>1. CASE k = j
        BY <2>2, <2>3, <2>5, <4>1 DEF HandlersInOrder, NoHolderMoves
      <4>2. CASE k # j
        BY <2>2, <2>3, <2>5, <4>2 DEF HandlersInOrder, NoHolderMoves
      <4>3. QED BY <4>1, <4>2
    <3>2. CancelHolds'
      <4> SUFFICES ASSUME NEW k \in Job PROVE CancelHolds!(k)'
        BY DEF CancelHolds
      <4>1. CASE k = j
        BY <2>2, <2>3, <2>5, <4>1 DEF CancelHolds, NoHolderMoves
      <4>2. CASE k # j
        BY <2>2, <2>3, <2>5, <4>2 DEF CancelHolds, NoHolderMoves
      <4>3. QED BY <4>1, <4>2
    <3>3. QED BY <3>1, <3>2
  <2>10. QED BY <2>7, <2>8, <2>9
<1>4. QED BY <1>1, <1>2, <1>3

\* The handlers that cancel or edit a job, a client that polls, a snapshot
\* that expires: the rest of the steps move no worker at all.
LEMMA HandlersKeepInv ==
  ASSUME IInv, TypeOK', NEW j \in Job,
         \/ \E s \in Server : CancelCheck(j, s) \/ EditRead(j, s)
         \/ CancelRead(j) \/ CancelWrite(j) \/ CancelAnswer(j) \/ EditWrite(j)
  PROVE  IInv'
<1> USE DEF IInv, TypeOK, rebuilds, worker, world, row
<1>0. \A k \in Job : /\ can[k] \in Handler /\ can[k].blob \in Blob /\ can[k].status \in Status
                     /\ edit[k] \in Handler /\ edit[k].blob \in Blob /\ edit[k].status \in Status
                     /\ blob[k] \in Blob /\ status[k] \in Status
  BY HandlerFields
<1>1. NoHolderMoves /\ req' = req /\ up' = up /\ rebuild' = rebuild
  BY DEF NoHolderMoves, CancelCheck, EditRead, CancelRead, CancelWrite, CancelAnswer, EditWrite
<1>2. WorkersHoldClaims' /\ ClaimsSpaced'
  <2>1. \A k \in Job : req'[k].at \in InFlight => req'[k].on \in up'
    BY <1>1 DEF WorkersHoldClaims
  <2>2. QED BY <1>1, <2>1, NoHolderMovesKeeps
<1>3. startedAt' = startedAt /\ seen' = seen /\ clock' = clock
  BY <1>1 DEF NoHolderMoves
<1> DEFINE Rest == ClaimedRows' /\ ResultsAreClaimed' /\ HandlersInOrder' /\ CancelHolds'
<1>4. CASE \E s \in Server : CancelCheck(j, s)
  <2> PICK s \in Server : CancelCheck(j, s)
    BY <1>4
  <2>1. /\ Opened("update", s, NoBlob, "absent").at = "update"
        /\ Opened("update", s, NoBlob, "absent").blob = NoBlob
    BY NoBlobType, HandlerOperators DEF Place, Status
  <2>2. /\ can'[j].at = "update" /\ ~can'[j].blob.result /\ req[j].at = "done"
        /\ \A k \in Job \ {j} : can'[k] = can[k]
        /\ edit' = edit /\ blob' = blob /\ status' = status
    BY <2>1, NoBlobType DEF CancelCheck
  <2>3. Rest
    <3>1. ClaimedRows'
      BY <1>1, <1>3, <2>2 DEF ClaimedRows
    <3>2. ResultsAreClaimed'
      BY <1>1, <1>3, <2>2 DEF ResultsAreClaimed
    <3>3. HandlersInOrder'
      BY <1>1, <1>3, <2>2 DEF HandlersInOrder
    <3>4. CancelHolds'
      <4> SUFFICES ASSUME NEW k \in Job PROVE CancelHolds!(k)'
        BY DEF CancelHolds
      <4>1. CASE k = j
        BY <1>1, <1>3, <2>2, <4>1 DEF CancelHolds
      <4>2. CASE k # j
        BY <1>1, <1>3, <2>2, <4>2 DEF CancelHolds
      <4>3. QED BY <4>1, <4>2
    <3>5. QED BY <3>1, <3>2, <3>3, <3>4
  <2>4. QED BY <1>2, <2>3
<1>5. CASE \E s \in Server : EditRead(j, s)
  <2> PICK s \in Server : EditRead(j, s)
    BY <1>5
  <2>1. /\ Opened("updating", s, blob[j], status[j]).at = "updating"
        /\ Opened("updating", s, blob[j], status[j]).status = status[j]
    BY <1>0, HandlerOperators DEF Place
  <2>2. /\ edit'[j].at = "updating" /\ edit'[j].status = status[j] /\ blob[j].result
        /\ \A k \in Job \ {j} : edit'[k] = edit[k]
        /\ can' = can /\ blob' = blob /\ status' = status
    BY <2>1 DEF EditRead
  <2>3. Rest
    <3>1. ClaimedRows'
      BY <1>1, <1>3, <2>2 DEF ClaimedRows
    <3>2. ResultsAreClaimed'
      <4> SUFFICES ASSUME NEW k \in Job PROVE ResultsAreClaimed!(k)'
        BY DEF ResultsAreClaimed
      <4>1. CASE k = j
        BY <1>1, <1>3, <2>2, <4>1 DEF ResultsAreClaimed, ClaimedRows
      <4>2. CASE k # j
        BY <1>1, <1>3, <2>2, <4>2 DEF ResultsAreClaimed
      <4>3. QED BY <4>1, <4>2
    <3>3. HandlersInOrder'
      BY <1>1, <1>3, <2>2 DEF HandlersInOrder
    <3>4. CancelHolds'
      BY <1>1, <1>3, <2>2 DEF CancelHolds
    <3>5. QED BY <3>1, <3>2, <3>3, <3>4
  <2>4. QED BY <1>2, <2>3
<1>6. CASE CancelRead(j)
  <2>1. \A at \in {"updating", "appending"} :
          At(can[j], at, blob[j]).at = at /\ At(can[j], at, blob[j]).blob = blob[j]
    BY <1>0, HandlerOperators DEF Place
  <2>2. /\ \/ can[j].at = "update" /\ can'[j].at = "updating"
           \/ can[j].at = "append" /\ can'[j].at = "appending"
        /\ can'[j].blob = blob[j]
        /\ \A k \in Job \ {j} : can'[k] = can[k]
        /\ edit' = edit /\ blob' = blob /\ status' = status
    BY <1>6, <2>1 DEF CancelRead
  <2>3. Rest
    <3>1. ClaimedRows'
      BY <1>1, <1>3, <2>2 DEF ClaimedRows
    <3>2. ResultsAreClaimed'
      BY <1>1, <1>3, <2>2 DEF ResultsAreClaimed
    <3>3. HandlersInOrder'
      BY <1>1, <1>3, <2>2 DEF HandlersInOrder
    <3>4. CancelHolds'
      <4> SUFFICES ASSUME NEW k \in Job PROVE CancelHolds!(k)'
        BY DEF CancelHolds
      <4>1. CASE k = j
        BY <1>1, <1>3, <2>2, <4>1 DEF CancelHolds
      <4>2. CASE k # j
        BY <1>1, <1>3, <2>2, <4>2 DEF CancelHolds
      <4>3. QED BY <4>1, <4>2
    <3>5. QED BY <3>1, <3>2, <3>3, <3>4
  <2>4. QED BY <1>2, <2>3
<1>7. CASE CancelWrite(j)
  <2>1. /\ At(can[j], "append", NoBlob).at = "append"
        /\ At(can[j], "append", NoBlob).blob = NoBlob
    BY <1>0, NoBlobType, HandlerOperators DEF Place
  <2>2. /\ can[j].at = "updating" /\ can'[j].at = "append" /\ ~can'[j].blob.result
        /\ blob'[j].result = can[j].blob.result /\ blob'[j].error = "cancelled"
        /\ status'[j] = "failed"
        /\ \A k \in Job \ {j} : can'[k] = can[k] /\ blob'[k] = blob[k] /\ status'[k] = status[k]
        /\ edit' = edit
    BY <1>0, <1>7, <2>1, NoBlobType, BlobOperators DEF CancelWrite, Event, Error
  <2>3. Rest
    <3>1. ClaimedRows'
      BY <1>1, <1>3, <2>2 DEF ClaimedRows
    <3>2. ResultsAreClaimed'
      BY <1>1, <1>3, <2>2 DEF ResultsAreClaimed
    <3>3. HandlersInOrder'
      <4> SUFFICES ASSUME NEW k \in Job PROVE HandlersInOrder!(k)'
        BY DEF HandlersInOrder
      <4>1. CASE k = j
        BY <1>1, <1>3, <2>2, <4>1 DEF HandlersInOrder
      <4>2. CASE k # j
        BY <1>1, <1>3, <2>2, <4>2 DEF HandlersInOrder
      <4>3. QED BY <4>1, <4>2
    <3>4. CancelHolds'
      <4> SUFFICES ASSUME NEW k \in Job PROVE CancelHolds!(k)'
        BY DEF CancelHolds
      <4>1. CASE k = j
        BY <1>1, <1>3, <2>2, <4>1 DEF CancelHolds
      <4>2. CASE k # j
        BY <1>1, <1>3, <2>2, <4>2 DEF CancelHolds
      <4>3. QED BY <4>1, <4>2
    <3>5. QED BY <3>1, <3>2, <3>3, <3>4
  <2>4. QED BY <1>2, <2>3
<1>8. CASE CancelAnswer(j)
  <2>1. /\ At(can[j], "done", NoBlob).at = "done"
        /\ At(can[j], "done", NoBlob).blob = NoBlob
    BY <1>0, NoBlobType, HandlerOperators DEF Place
  <2>2. /\ can[j].at = "appending" /\ can'[j].at = "done" /\ ~can'[j].blob.result
        /\ blob'[j].result = can[j].blob.result /\ blob'[j].error = can[j].blob.error
        /\ \A k \in Job \ {j} : can'[k] = can[k] /\ blob'[k] = blob[k]
        /\ edit' = edit /\ status' = status
    BY <1>0, <1>8, <2>1, NoBlobType, BlobOperators DEF CancelAnswer, Event, Error
  <2>3. Rest
    <3>1. ClaimedRows'
      BY <1>1, <1>3, <2>2 DEF ClaimedRows
    <3>2. ResultsAreClaimed'
      BY <1>1, <1>3, <2>2 DEF ResultsAreClaimed
    <3>3. HandlersInOrder'
      BY <1>1, <1>3, <2>2 DEF HandlersInOrder
    <3>4. CancelHolds'
      <4> SUFFICES ASSUME NEW k \in Job PROVE CancelHolds!(k)'
        BY DEF CancelHolds
      <4>1. CASE k = j
        BY <1>1, <1>3, <2>2, <4>1 DEF CancelHolds
      <4>2. CASE k # j
        BY <1>1, <1>3, <2>2, <4>2 DEF CancelHolds
      <4>3. QED BY <4>1, <4>2
    <3>5. QED BY <3>1, <3>2, <3>3, <3>4
  <2>4. QED BY <1>2, <2>3
<1>9. CASE EditWrite(j)
  <2>1. At(edit[j], "done", NoBlob).at = "done"
    BY <1>0, NoBlobType, HandlerOperators DEF Place
  <2>2. /\ edit[j].at = "updating" /\ edit'[j].at = "done"
        /\ status'[j] = edit[j].status
        /\ \A k \in Job \ {j} : edit'[k] = edit[k] /\ blob'[k] = blob[k] /\ status'[k] = status[k]
        /\ can' = can
    BY <1>9, <2>1 DEF EditWrite
  <2>3. startedAt[j] # 0 /\ edit[j].status \notin {"absent", "pending"} /\ req[j].at # "new"
    BY <2>2 DEF ResultsAreClaimed, HandlersInOrder, ClaimedRows
  <2>4. Rest
    <3>1. ClaimedRows'
      BY <1>1, <1>3, <2>2, <2>3 DEF ClaimedRows
    <3>2. ResultsAreClaimed'
      BY <1>1, <1>3, <2>2, <2>3 DEF ResultsAreClaimed
    <3>3. HandlersInOrder'
      BY <1>1, <1>3, <2>2, <2>3 DEF HandlersInOrder
    <3>4. CancelHolds'
      <4> SUFFICES ASSUME NEW k \in Job PROVE CancelHolds!(k)'
        BY DEF CancelHolds
      <4>1. CASE k = j
        BY <1>1, <1>3, <2>2, <2>3, <4>1 DEF CancelHolds
      <4>2. CASE k # j
        BY <1>1, <1>3, <2>2, <2>3, <4>2 DEF CancelHolds
      <4>3. QED BY <4>1, <4>2
    <3>5. QED BY <3>1, <3>2, <3>3, <3>4
  <2>5. QED BY <1>2, <2>4
<1>10. QED BY <1>4, <1>5, <1>6, <1>7, <1>8, <1>9

\* The rebuilds of the batch-health summary, beside the worker or after it.
LEMMA AsideKeepsInv ==
  ASSUME IInv, TypeOK', NEW s \in Server, NEW j \in Job, AsideStep(s, j)
  PROVE  IInv'
<1> USE DEF IInv
<1>1. /\ Aside(s, j)
      /\ UNCHANGED <<status, startedAt, blob, pc, seen, claimedAt, req, can, edit, up, clock>>
  BY StepsAside
<1>2. ResultsAreClaimed'
  <2>1. \A t \in Server, k \in Job, v \in Source :
          /\ rebuild'[t][k][v].at \in {"update", "updating"} => startedAt'[k] # 0
          /\ rebuild'[t][k][v].at = "updating" =>
               rebuild'[t][k][v].status \notin {"absent", "pending"}
    BY <1>1, AsideClaimed
  <2>2. QED BY <1>1, <2>1 DEF ResultsAreClaimed
<1>3. WorkersHoldClaims' /\ ClaimedRows' /\ ClaimsSpaced'
  BY <1>1 DEF WorkersHoldClaims, ClaimedRows, ClaimsSpaced
<1>4. HandlersInOrder' /\ CancelHolds'
  BY <1>1 DEF HandlersInOrder, CancelHolds
<1>5. QED BY <1>2, <1>3, <1>4

LEMMA RebuildKeepsInv ==
  ASSUME IInv, TypeOK', NEW s \in Server, NEW j \in Job, NEW v \in Source,
         RebuildRead(s, j, v) \/ RebuildWrite(s, j, v)
  PROVE  IInv'
<1> USE DEF IInv, TypeOK
<1>1. NoHolderMoves /\ UNCHANGED <<req, can, edit, up, startedAt, seen, clock>>
  BY DEF NoHolderMoves, RebuildRead, RebuildWrite, row, worker, world
<1>2. WorkersHoldClaims' /\ ClaimsSpaced'
  <2>1. \A k \in Job : req'[k].at \in InFlight => req'[k].on \in up'
    BY <1>1 DEF WorkersHoldClaims
  <2>2. QED BY <1>1, <2>1, NoHolderMovesKeeps
<1>3. startedAt[j] # 0 /\ req[j].at # "new"
  BY DEF RebuildRead, RebuildWrite, ResultsAreClaimed, HandlersInOrder, ClaimedRows
<1>4. /\ status'[j] \notin {"absent", "pending"}
      /\ \A k \in Job \ {j} : status'[k] = status[k] /\ blob'[k] = blob[k]
      /\ \A t \in Server, k \in Job, w \in Source :
           t # s \/ k # j \/ w # v => rebuild'[t][k][w] = rebuild[t][k][w]
      /\ rebuild'[s][j][v].at = "updating" =>
           rebuild'[s][j][v].status \notin {"absent", "pending"}
  <2>1. status[j] \notin {"absent", "pending"} /\ blob[j] \in Blob /\ status[j] \in Status
    BY <1>3 DEF ClaimedRows
  <2>2. CASE RebuildRead(s, j, v)
    <3>1. /\ Rebuilding("updating", blob[j], status[j]) \in Rebuild
          /\ Rebuilding("updating", blob[j], status[j]).status = status[j]
      BY <2>1, RebuildOperators
    <3>2. /\ SetRebuild(s, j, v, Rebuilding("updating", blob[j], status[j]))
          /\ status' = status /\ blob' = blob
      BY <2>2 DEF RebuildRead, row
    <3>3. QED BY <2>1, <3>1, <3>2, SetRebuildFrame
  <2>3. CASE RebuildWrite(s, j, v)
    <3>1. Copyless("saving") \in Rebuild /\ Copyless("saving").at = "saving"
      BY CopylessFields
    <3>2. /\ rebuild'[s][j][v] = Copyless("saving")
          /\ \A t \in Server, k \in Job, w \in Source :
               t # s \/ k # j \/ w # v => rebuild'[t][k][w] = rebuild[t][k][w]
      BY <2>3, <3>1, SetRebuildFrame DEF RebuildWrite
    <3>3. status'[j] = rebuild[s][j][v].status /\ rebuild[s][j][v].at = "updating"
      BY <2>3 DEF RebuildWrite
    <3>4. \A k \in Job \ {j} : status'[k] = status[k] /\ blob'[k] = blob[k]
      BY <2>3 DEF RebuildWrite
    <3>5. QED BY <3>1, <3>2, <3>3, <3>4 DEF ResultsAreClaimed
  <2>4. QED BY <2>2, <2>3
<1>5. ClaimedRows'
  BY <1>1, <1>4 DEF ClaimedRows
<1>6. ResultsAreClaimed'
  <2> SUFFICES ASSUME NEW k \in Job PROVE ResultsAreClaimed!(k)'
    BY DEF ResultsAreClaimed
  <2>0. edit[k].at = "updating" => edit[k].status \notin {"absent", "pending"}
    BY DEF ResultsAreClaimed
  <2>a. \A t \in Server, w \in Source :
          /\ rebuild'[t][k][w].at \in {"update", "updating"} => startedAt'[k] # 0
          /\ rebuild'[t][k][w].at = "updating" =>
               rebuild'[t][k][w].status \notin {"absent", "pending"}
    <3> SUFFICES ASSUME NEW t \in Server, NEW w \in Source
                 PROVE  /\ rebuild'[t][k][w].at \in {"update", "updating"} => startedAt'[k] # 0
                        /\ rebuild'[t][k][w].at = "updating" =>
                             rebuild'[t][k][w].status \notin {"absent", "pending"}
      OBVIOUS
    <3>1. CASE t = s /\ k = j /\ w = v
      BY <1>1, <1>3, <1>4, <3>1
    <3>2. CASE t # s \/ k # j \/ w # v
      BY <1>1, <1>4, <3>2 DEF ResultsAreClaimed
    <3>3. QED BY <3>1, <3>2
  <2>1. CASE k = j
    BY <1>1, <1>3, <2>0, <2>a, <2>1 DEF ResultsAreClaimed
  <2>2. CASE k # j
    BY <1>1, <1>4, <2>a, <2>2 DEF ResultsAreClaimed
  <2>3. QED BY <2>1, <2>2
<1>7. HandlersInOrder'
  <2> SUFFICES ASSUME NEW k \in Job PROVE HandlersInOrder!(k)'
    BY DEF HandlersInOrder
  <2>1. CASE k = j
    BY <1>1, <1>3, <2>1 DEF HandlersInOrder
  <2>2. CASE k # j
    BY <1>1, <1>4, <2>2 DEF HandlersInOrder
  <2>3. QED BY <2>1, <2>2
<1>8. CancelHolds'
  <2> SUFFICES ASSUME NEW k \in Job PROVE CancelHolds!(k)'
    BY DEF CancelHolds
  <2>1. CASE k = j
    BY <1>1, <1>3, <2>1 DEF CancelHolds
  <2>2. CASE k # j
    BY <1>1, <1>4, <2>2 DEF CancelHolds
  <2>3. QED BY <2>1, <2>2
<1>9. QED BY <1>2, <1>5, <1>6, <1>7, <1>8

LEMMA InvStep ==
  ASSUME IInv, [Next]_vars
  PROVE  IInv'
<1>0. TypeOK'
  BY TypeStep DEF IInv
<1>1. ASSUME NEW s \in Server, NEW j \in Job, ClaimRefused(s, j)
      PROVE  IInv'
  <2> USE DEF IInv, TypeOK
  <2>1. /\ pc' = [pc EXCEPT ![s][j] = "idle"] /\ pc[s][j] = "queued" /\ s \in up
        /\ UNCHANGED <<status, blob, req, can, edit, rebuild, startedAt, seen, claimedAt, clock, up>>
    BY <1>1 DEF ClaimRefused, Goto, row, handlers, rebuilds, world, WorkersHoldClaims
  <2>2. NoHolderMoves
    BY <2>1, HoldingPlaces DEF NoHolderMoves
  <2>3. WorkersHoldClaims' /\ ClaimsSpaced'
    BY <2>1, <2>2, NoHolderMovesKeeps DEF WorkersHoldClaims
  <2>4. ClaimedRows' /\ ResultsAreClaimed' /\ HandlersInOrder' /\ CancelHolds'
    BY <2>1 DEF ClaimedRows, ResultsAreClaimed, HandlersInOrder, CancelHolds
  <2>5. QED BY <1>0, <2>3, <2>4
<1>2. ASSUME NEW s \in Server, Start(s)
      PROVE  IInv'
  <2> USE DEF IInv, TypeOK
  <2>1. /\ UNCHANGED <<status, blob, req, can, edit, rebuild, startedAt, seen, claimedAt, clock>>
        /\ up' = up \cup {s} /\ s \notin up
        /\ \A t \in Server, k \in Job :
             pc'[t][k] = pc[t][k] \/ (t = s /\ pc'[t][k] \in {"queued", "idle"})
    BY <1>2 DEF Start, row, handlers, rebuilds
  <2>2. NoHolderMoves
    BY <2>1, HoldingPlaces DEF NoHolderMoves, WorkersHoldClaims
  <2>3. WorkersHoldClaims' /\ ClaimsSpaced'
    BY <2>1, <2>2, NoHolderMovesKeeps DEF WorkersHoldClaims
  <2>4. ClaimedRows' /\ ResultsAreClaimed' /\ HandlersInOrder' /\ CancelHolds'
    BY <2>1 DEF ClaimedRows, ResultsAreClaimed, HandlersInOrder, CancelHolds
  <2>5. QED BY <1>0, <2>3, <2>4
<1>3. ASSUME NEW s \in Server, NEW j \in Job, JobStep(s, j)
      PROVE  IInv'
  <2>1. CASE WorkerStep(s, j) \/ CaughtFault(s, j)
    BY <1>0, <1>1, <2>1, WorkerStepsByHolder, ClaimKeepsInv, HolderKeepsInv DEF IInv
  <2>2. CASE QueueSave(j, s) \/ CancelCheck(j, s) \/ EditRead(j, s)
    BY <1>0, <2>2, QueueKeepsInv, HandlersKeepInv
  <2>3. CASE Poll(s, j) \/ ExpireSnapshot(s, j)
    <3>1. /\ UNCHANGED <<status, startedAt, blob, pc, seen, claimedAt, req, can, edit, rebuild, up, clock>>
      BY <2>3 DEF Poll, ExpireSnapshot, row, worker, handlers, rebuilds, world
    <3>2. QED BY <1>0, <3>1
          DEF IInv, WorkersHoldClaims, ClaimedRows, ResultsAreClaimed, HandlersInOrder,
              CancelHolds, ClaimsSpaced
  <2>4. CASE UnhandledRejection(s, j)
    BY <1>0, <2>4, HaltKeepsInv DEF UnhandledRejection
  <2>5. ASSUME NEW v \in Source, RebuildStep(s, j, v) PROVE IInv'
    BY <1>0, <2>5, AsideKeepsInv, RebuildKeepsInv DEF RebuildStep, AsideStep
  <2>6. CASE ViewSummary(s, j) \/ ViewFault(s, j)
    BY <1>0, <2>6, AsideKeepsInv DEF AsideStep
  <2>7. QED BY <1>3, <2>1, <2>2, <2>3, <2>4, <2>5, <2>6 DEF JobStep
<1>4. ASSUME NEW j \in Job, RequestFault(j)
      PROVE  IInv'
  <2> USE DEF IInv, TypeOK
  <2>1. \A k \in Job : /\ Lost(req[k]).at = "lost" /\ Lost(can[k]).at = "lost"
                       /\ Lost(edit[k]).at = "lost"
                       /\ Lost(req[k]).blob = NoBlob /\ Lost(can[k]).blob = NoBlob
    BY HandlerFields
  <2>2. /\ UNCHANGED <<status, startedAt, blob, pc, seen, claimedAt, rebuild, up, clock>>
        /\ \A k \in Job :
             /\ \/ req'[k] = req[k]
                \/ req[k].at \in InFlight /\ req'[k].at = "lost" /\ req'[k].blob = NoBlob
             /\ \/ can'[k] = can[k]
                \/ can[k].at \in InFlight /\ can'[k].at = "lost" /\ can'[k].blob = NoBlob
             /\ edit'[k] = edit[k] \/ edit'[k].at = "lost"
    BY <1>4, <2>1 DEF RequestFault, row, rebuilds, worker
  <2>3. WorkersHoldClaims' /\ ClaimsSpaced'
    <3>1. NoHolderMoves
      BY <2>2 DEF NoHolderMoves
    <3>2. \A k \in Job : req'[k].at \in InFlight => req'[k].on \in up'
      BY <2>2 DEF WorkersHoldClaims, InFlight
    <3>3. QED BY <3>1, <3>2, NoHolderMovesKeeps
  <2>4. ClaimedRows' /\ ResultsAreClaimed' /\ HandlersInOrder' /\ CancelHolds'
    <3>1. ClaimedRows'
      BY <2>2 DEF ClaimedRows
    <3>2. ResultsAreClaimed'
      BY <2>2, NoBlobType DEF ResultsAreClaimed
    <3>3. HandlersInOrder'
      <4> SUFFICES ASSUME NEW k \in Job PROVE HandlersInOrder!(k)'
        BY DEF HandlersInOrder
      <4>1. req'[k] = req[k] \/ (req[k].at \in InFlight /\ req'[k].at = "lost")
        BY <2>2
      <4>2. can'[k] = can[k] \/ (can[k].at \in InFlight /\ can'[k].at = "lost")
        BY <2>2
      <4>3. QED BY <2>2, <4>1, <4>2 DEF HandlersInOrder, InFlight
    <3>4. CancelHolds'
      BY <2>2 DEF CancelHolds
    <3>5. QED BY <3>1, <3>2, <3>3, <3>4
  <2>5. QED BY <1>0, <2>3, <2>4
<1>5. CASE Tick
  <2>1. /\ UNCHANGED <<status, startedAt, blob, pc, seen, claimedAt, req, can, edit, rebuild, up>>
        /\ clock' = clock + 1
    BY <1>5 DEF Tick, row, worker, handlers, rebuilds
  <2>2. ClaimedRows'
    BY <2>1 DEF IInv, TypeOK, ClaimedRows
  <2>3. QED BY <1>0, <2>1, <2>2
        DEF IInv, WorkersHoldClaims, ResultsAreClaimed, HandlersInOrder, CancelHolds, ClaimsSpaced
<1>6. CASE UNCHANGED vars
  <2>1. UNCHANGED <<status, startedAt, blob, pc, seen, claimedAt, req, can, edit, rebuild, up, clock>>
    BY <1>6 DEF vars, row, worker, handlers, rebuilds, world
  <2>2. QED BY <1>0, <2>1
        DEF IInv, WorkersHoldClaims, ClaimedRows, ResultsAreClaimed, HandlersInOrder,
            CancelHolds, ClaimsSpaced
<1>7. ASSUME NEW s \in Server, Crash(s) PROVE IInv'
  BY <1>0, <1>7, HaltKeepsInv DEF Crash
<1>8. ASSUME NEW j \in Job, RequestStep(j) PROVE IInv'
  BY <1>0, <1>8, QueueKeepsInv, HandlersKeepInv DEF RequestStep
<1>9. QED
  BY <1>2, <1>3, <1>4, <1>5, <1>6, <1>7, <1>8 DEF Next, ServerStep

\* The inductive invariant holds in every reachable state.
LEMMA InvHolds == Spec => []IInv
<1>1. IInv /\ [Next]_vars => IInv'
  BY InvStep
<1>2. QED BY InvInit, <1>1, PTL DEF Spec

\* Mutual exclusion in time: two workers of one job hold claims more than
\* ASYNC_JOB_STALE_MS apart, whatever crashes, cancellations and edits occur.
THEOREM ClaimsAreSpaced == Spec => []ClaimsSpaced
<1>1. IInv => ClaimsSpaced
  BY DEF IInv
<1>2. QED BY <1>1, InvHolds, PTL

\* A cancellation that won against every claim is never undone.
THEOREM UnclaimedCancelIsFinal == Spec => []UnclaimedCancelHolds
<1>1. IInv => UnclaimedCancelHolds
  BY DEF IInv, CancelHolds, UnclaimedCancelHolds
<1>2. QED BY <1>1, InvHolds, PTL

-----------------------------------------------------------------------------
(***************************************************************************)
(* The job row implements TimedLease.                                      *)
(***************************************************************************)

\* The workers that hold a claim on j, and the row's expiry.
Holders(j) == {s \in Server : pc[s][j] \in Holding}
Expiry(j) == IF startedAt[j] = 0 THEN 0 ELSE startedAt[j] + StaleAfter
Grants(j) == [s \in Server |-> claimedAt[s][j]]

LEMMA LeaseInit ==
  ASSUME Init, NEW j \in Job
  PROVE  Lease(j)!Init
<1>1. Holders(j) = {} /\ Expiry(j) = 0 /\ Grants(j) = [s \in Server |-> 0] /\ clock = 1
  BY HoldingPlaces DEF Init, Holders, Expiry, Grants
<1>2. QED BY <1>1 DEF Lease!Init, Holders, Expiry, Grants

\* A step that leaves the claims on j and the clock alone.
LEMMA LeaseStutter ==
  ASSUME NEW j \in Job, UNCHANGED <<Holders(j), Expiry(j), Grants(j), clock>>
  PROVE  [Lease(j)!Next]_(Lease(j)!vars)
  BY DEF Lease!vars, Lease!lease, Holders, Expiry, Grants

LEMMA LeaseGrant ==
  ASSUME IInv, TypeOK', NEW s \in Server, NEW j \in Job, Claim(s, j)
  PROVE  Lease(j)!Next
<1> USE DEF IInv, TypeOK, Claim, Goto, world
<1>1. Expiry(j) < clock
  BY ConstantsAssumption DEF Claimable, Expiry, ClaimedRows
<1>2. s \notin Holders(j)
  BY HoldingPlaces DEF Holders
<1>3. Holders(j)' = Holders(j) \cup {s}
  BY DEF Holders, Holding, PC, BeforeTry
<1>4. Grants(j)' = [Grants(j) EXCEPT ![s] = clock]
  <2>1. \A t \in Server : claimedAt'[t][j] = IF t = s THEN clock ELSE claimedAt[t][j]
    OBVIOUS
  <2>2. QED BY <2>1 DEF Grants
<1>5. Expiry(j)' = clock + StaleAfter /\ clock' = clock
  BY DEF Expiry
<1>6. Lease(j)!Grant(s)
  BY <1>1, <1>2, <1>3, <1>4, <1>5 DEF Lease!Grant, Holders, Expiry, Grants
<1>7. QED BY <1>6 DEF Lease!Next

\* The worker on s lets go of j: it finishes, or its process ends.
LEMMA LeaseRelease ==
  ASSUME IInv, TypeOK', NEW s \in Server, NEW j \in Job,
         pc'[s][j] = "idle", claimedAt'[s][j] = 0,
         \A t \in Server \ {s} : pc'[t][j] = pc[t][j] /\ claimedAt'[t][j] = claimedAt[t][j],
         startedAt' = startedAt, clock' = clock
  PROVE  [Lease(j)!Next]_(Lease(j)!vars)
<1> USE DEF IInv, TypeOK
<1>1. Expiry(j)' = Expiry(j)
  BY DEF Expiry
<1>2. \A t \in Server : claimedAt'[t][j] = IF t = s THEN 0 ELSE claimedAt[t][j]
  OBVIOUS
<1>3. Grants(j)' = [Grants(j) EXCEPT ![s] = 0]
  BY <1>2 DEF Grants
<1>4. CASE s \in Holders(j)
  <2>1. Holders(j)' = Holders(j) \ {s}
    BY HoldingPlaces DEF Holders
  <2>2. Lease(j)!Release(s)
    BY <1>1, <1>3, <1>4, <2>1 DEF Lease!Release, Holders, Expiry, Grants
  <2>3. QED BY <2>2 DEF Lease!Next
<1>5. CASE s \notin Holders(j)
  <2>1. Holders(j)' = Holders(j)
    BY <1>5, HoldingPlaces DEF Holders
  <2>2. claimedAt[s][j] = 0
    BY <1>5 DEF Holders, WorkersHoldClaims
  <2>3. Grants(j)' = Grants(j)
    BY <1>2, <2>2 DEF Grants
  <2>4. QED BY <1>1, <2>1, <2>3, LeaseStutter
<1>6. QED BY <1>4, <1>5

LEMMA LeaseStep ==
  ASSUME IInv, [Next]_vars, NEW j \in Job
  PROVE  [Lease(j)!Next]_(Lease(j)!vars)
<1> USE DEF IInv
<1>0. TypeOK'
  BY TypeStep
<1>1. ASSUME NoHolderMoves PROVE [Lease(j)!Next]_(Lease(j)!vars)
  <2>1. Holders(j)' = Holders(j)
    BY <1>1 DEF NoHolderMoves, Holders
  <2>2. UNCHANGED <<Expiry(j), Grants(j), clock>>
    BY <1>1 DEF NoHolderMoves, Expiry, Grants
  <2>3. QED BY <2>1, <2>2, LeaseStutter
<1>2. ASSUME NEW s \in Server, Halt(s) PROVE [Lease(j)!Next]_(Lease(j)!vars)
  <2>1. /\ pc'[s][j] = "idle" /\ claimedAt'[s][j] = 0
        /\ \A t \in Server \ {s} : pc'[t][j] = pc[t][j] /\ claimedAt'[t][j] = claimedAt[t][j]
        /\ startedAt' = startedAt /\ clock' = clock
    BY <1>2 DEF Halt, row, TypeOK
  <2>2. QED BY <1>0, <2>1, LeaseRelease
<1>3. ASSUME NEW s \in Server, NEW k \in Job, Claim(s, k)
      PROVE  [Lease(j)!Next]_(Lease(j)!vars)
  <2>1. CASE k = j
    BY <1>0, <1>3, <2>1, LeaseGrant
  <2>2. CASE k # j
    <3>1. /\ \A t \in Server : pc'[t][j] = pc[t][j] /\ claimedAt'[t][j] = claimedAt[t][j]
          /\ startedAt'[j] = startedAt[j] /\ clock' = clock
      BY <1>3, <2>2 DEF Claim, Goto, TypeOK, world
    <3>2. QED BY <3>1, LeaseStutter DEF Holders, Expiry, Grants
  <2>3. QED BY <2>1, <2>2
<1>4. ASSUME NEW s \in Server, NEW k \in Job, HolderStep(s, k)
      PROVE  [Lease(j)!Next]_(Lease(j)!vars)
  <2>1. CASE k = j /\ pc'[s][j] = "idle" /\ claimedAt'[s][j] = 0
    BY <1>0, <1>4, <2>1, LeaseRelease DEF HolderStep
  <2>2. CASE ~(k = j /\ pc'[s][j] = "idle" /\ claimedAt'[s][j] = 0)
    <3>1. \A t \in Server : /\ pc'[t][j] \in Holding <=> pc[t][j] \in Holding
                            /\ claimedAt'[t][j] = claimedAt[t][j]
      BY <1>4, <2>2 DEF HolderStep
    <3>2. startedAt' = startedAt /\ clock' = clock
      BY <1>4 DEF HolderStep
    <3>3. QED BY <3>1, <3>2, LeaseStutter DEF Holders, Expiry, Grants
  <2>3. QED BY <2>1, <2>2
<1>5. ASSUME NEW s \in Server, NEW k \in Job, JobStep(s, k)
      PROVE  [Lease(j)!Next]_(Lease(j)!vars)
  <2>1. CASE WorkerStep(s, k) \/ CaughtFault(s, k)
    <3>1. CASE ClaimRefused(s, k)
      <4>1. /\ pc' = [pc EXCEPT ![s][k] = "idle"] /\ pc[s][k] = "queued" /\ s \in up
            /\ UNCHANGED <<startedAt, seen, claimedAt, clock, up>>
        BY <3>1 DEF ClaimRefused, Goto, row, world, WorkersHoldClaims
      <4>2. NoHolderMoves
        BY <4>1, HoldingPlaces DEF NoHolderMoves, TypeOK
      <4>3. QED BY <1>1, <4>2
    <3>2. QED BY <1>3, <1>4, <2>1, <3>1, WorkerStepsByHolder
  <2>2. CASE QueueSave(k, s) \/ CancelCheck(k, s) \/ EditRead(k, s) \/ Poll(s, k) \/ ExpireSnapshot(s, k)
    <3>1. NoHolderMoves
      BY <2>2 DEF NoHolderMoves, QueueSave, CancelCheck, EditRead, Poll, ExpireSnapshot,
                  row, worker, world
    <3>2. QED BY <1>1, <3>1
  <2>3. CASE UnhandledRejection(s, k)
    BY <1>2, <2>3 DEF UnhandledRejection
  <2>4. CASE ViewSummary(s, k) \/ ViewFault(s, k) \/ \E v \in Source : RebuildStep(s, k, v)
    <3>1. NoHolderMoves
      BY <2>4 DEF NoHolderMoves, ViewSummary, ViewFault, RebuildStep, RebuildCheck, RebuildRead,
                  RebuildWrite, RebuildDone, row, worker, world
    <3>2. QED BY <1>1, <3>1
  <2>5. QED BY <1>5, <2>1, <2>2, <2>3, <2>4 DEF JobStep
<1>6. ASSUME NEW s \in Server, ServerStep(s)
      PROVE  [Lease(j)!Next]_(Lease(j)!vars)
  <2>1. CASE Crash(s)
    BY <1>2, <2>1 DEF Crash
  <2>2. CASE Start(s)
    <3>1. /\ UNCHANGED <<startedAt, seen, claimedAt, clock>> /\ up' = up \cup {s} /\ s \notin up
          /\ \A t \in Server, k \in Job :
               pc'[t][k] = pc[t][k] \/ (t = s /\ pc'[t][k] \in {"queued", "idle"})
      BY <2>2 DEF Start, row, TypeOK
    <3>2. NoHolderMoves
      BY <3>1, HoldingPlaces DEF NoHolderMoves, WorkersHoldClaims
    <3>3. QED BY <1>1, <3>2
  <2>3. QED BY <1>6, <2>1, <2>2 DEF ServerStep
<1>7. ASSUME NEW k \in Job, RequestStep(k)
      PROVE  [Lease(j)!Next]_(Lease(j)!vars)
  <2>1. CASE QueueAppendWrite(k)
    <3>1. /\ UNCHANGED <<startedAt, seen, claimedAt, clock, up>> /\ req[k].on \in up
          /\ \A t \in Server, i \in Job :
               \/ pc'[t][i] = pc[t][i]
               \/ pc[t][i] = "idle" /\ pc'[t][i] = "queued" /\ t = req[k].on
      BY <2>1 DEF QueueAppendWrite, world, TypeOK, WorkersHoldClaims, InFlight
    <3>2. NoHolderMoves
      BY <3>1, HoldingPlaces DEF NoHolderMoves
    <3>3. QED BY <1>1, <3>2
  <2>2. CASE ~QueueAppendWrite(k)
    <3>1. NoHolderMoves
      BY <1>7, <2>2 DEF RequestStep, NoHolderMoves, QueueAppendRead, CancelRead, CancelWrite,
                        CancelAnswer, EditWrite, row, worker, world
    <3>2. QED BY <1>1, <3>1
  <2>3. QED BY <2>1, <2>2
<1>8. ASSUME NEW k \in Job, RequestFault(k)
      PROVE  [Lease(j)!Next]_(Lease(j)!vars)
  <2>1. NoHolderMoves
    BY <1>8 DEF NoHolderMoves, RequestFault, row, worker
  <2>2. QED BY <1>1, <2>1
<1>9. CASE Tick
  <2>1. UNCHANGED <<Holders(j), Expiry(j), Grants(j)>> /\ clock' = clock + 1
    BY <1>9 DEF Tick, row, worker, Holders, Expiry, Grants
  <2>2. Lease(j)!Pass
    BY <2>1 DEF Lease!Pass, Lease!lease, Holders, Expiry, Grants
  <2>3. QED BY <2>2 DEF Lease!Next
<1>10. CASE UNCHANGED vars
  <2>1. NoHolderMoves
    BY <1>10 DEF NoHolderMoves, vars, row, worker, world
  <2>2. QED BY <1>1, <2>1
<1>11. QED
  BY <1>5, <1>6, <1>7, <1>8, <1>9, <1>10 DEF Next

\* The row of every job is a lease: processRuntimeJob with its conditional
\* UPDATE implements TimedLease, the expiry being startedAt + ASYNC_JOB_STALE_MS.
THEOREM ClaimImplementsLease == Spec => ClaimIsLease
<1>1. Init => \A j \in Job : Lease(j)!Init
  BY LeaseInit
<1>2. IInv /\ [Next]_vars => \A j \in Job : [Lease(j)!Next]_(Lease(j)!vars)
  BY LeaseStep
<1>3. QED BY <1>1, <1>2, InvHolds, PTL DEF Spec, ClaimIsLease

-----------------------------------------------------------------------------
(***************************************************************************)
(* Theorems for one server process at a time, the one web service          *)
(* render.yaml asks for.  Crashes, restarts and database calls that throw  *)
(* are included, and any number of jobs.  The theorems are about the jobs  *)
(* that no one cancels or edits, whose row only the worker writes, and the *)
(* rebuilds: the one that is enqueued and those that requests run.         *)
(***************************************************************************)

OneServer == \E s : Server = {s}

-----------------------------------------------------------------------------
(***************************************************************************)
(* The inductive invariant, for the job j and the server s.                *)
(***************************************************************************)

\* While queueRuntimeJob is under way no worker of j exists, and the copy the
\* append holds is the row's blob.
Queueing(s, j) ==
  /\ req[j].at \in {"new", "append", "appending"} => pc[s][j] = "idle" /\ ~blob[j].result
  /\ req[j].at = "new" => status[j] = "absent"
  /\ req[j].at \in {"append", "appending"} => status[j] = "pending" /\ req[j].on \in up
  /\ req[j].at = "appending" => req[j].blob = blob[j]

\* The row agrees with itself.
Whole(j) ==
  /\ blob[j].result => status[j] \in Terminal
  /\ status[j] = "completed" => blob[j].result
  /\ status[j] = "failed" => blob[j].error # "none" \/ j \in doubled
  /\ j \in doubled => blob[j].result

\* Where the worker stands tells the status.  The catch block is entered before
\* the result is stored, or after.
Working(s, j) ==
  /\ pc[s][j] \in {"mark", "marking", "note", "noting", "run", "store", "save"}
       => status[j] = "processing"
  /\ pc[s][j] \in {"history", "phase", "phasing"} => status[j] = "completed"
  /\ pc[s][j] \in {"fail", "failing"} => status[j] \in {"processing", "completed"}
  /\ pc[s][j] \in {"error", "erring"} => status[j] \in Terminal

\* The worker's private copy is the row's blob until a result is stored; from
\* then on rebuilds may write between the read and the write, but every copy
\* holds the result.
Copying(s, j) ==
  pc[s][j] \in {"marking", "noting", "save", "phasing", "failing", "erring"} =>
    /\ IF blob[j].result THEN seen[s][j].result ELSE seen[s][j] = blob[j]
    /\ pc[s][j] = "erring" /\ status[j] = "failed" => seen[s][j].error # "none" \/ j \in doubled

\* The rebuild of v updates the row only beside a stored result.  The copy it will
\* write back is whole and no older than what the worker relies on; unless
\* another rebuild wrote meanwhile, a failure it read still has its error in the
\* row, and in the worker's copy.
RebuildFits(s, j, v) ==
  LET r == rebuild[s][j][v] IN
  /\ r.at \in {"update", "updating"} => blob[j].result
  /\ r.at = "updating" =>
       /\ r.blob.result /\ r.status \in Terminal
       /\ pc[s][j] \in {"history", "phase", "phasing", "fail", "failing"} => r.status = "completed"
       /\ r.status = "failed" =>
            \/ j \in doubled
            \/ /\ r.blob.error # "none" /\ blob[j].error # "none"
               /\ pc[s][j] = "erring" => seen[s][j].error # "none"

Rebuilt(s, j) ==
  /\ \A v \in Source : RebuildFits(s, j, v)
  /\ \A v, w \in Source :
       v # w /\ rebuild[s][j][v].at = "updating" /\ rebuild[s][j][w].at = "updating"
         => j \in doubled

\* While nothing crashes or throws a stored result is a completed job, and so
\* is a snapshot, but for the write it runs ahead of.
Calm(s, j) ==
  Quiet =>
    /\ blob[j].result => status[j] = "completed"
    /\ pc[s][j] \in InCatch => ~blob[j].result
    /\ \A v \in Source : rebuild[s][j][v].at = "updating" => rebuild[s][j][v].status = "completed"
    /\ j \in snapshot[s] => status[j] = "completed" \/ pc[s][j] = "save"

JobInv(s, j) ==
  Queueing(s, j) /\ Whole(j) /\ Working(s, j) /\ Copying(s, j) /\ Rebuilt(s, j) /\ Calm(s, j)

OneInv == \A j \in Job : Undisturbed(j) => \A s \in Server : JobInv(s, j)

\* What a step may never do to the row of j: drop an event before the result is
\* stored, drop the result, leave a terminal status.
Kept(j) ==
  /\ ~blob[j].result => IsPrefix(blob[j].events, blob'[j].events)
  /\ blob[j].result => blob'[j].result
  /\ status[j] \in Terminal => status'[j] \in Terminal

\* A log is extended by nothing, and by one event.
LEMMA LogExtends ==
  ASSUME NEW q \in Seq(Event), NEW e \in Event
  PROVE  IsPrefix(q, q) /\ IsPrefix(q, Append(q, e))
<1>1. SubSeq(q, 1, Len(q)) = q
  BY SubSeqFull
<1>2. SubSeq(Append(q, e), 1, Len(q)) = q
  OBVIOUS
<1>3. Len(q) \in Nat /\ Len(Append(q, e)) = Len(q) + 1
  OBVIOUS
<1>4. QED BY <1>1, <1>2, <1>3 DEF IsPrefix

\* A step that leaves the row alone.
LEMMA RowHeld ==
  ASSUME TypeOK, NEW j \in Job, status'[j] = status[j], blob'[j] = blob[j]
  PROVE  Kept(j)
<1>1. blob[j].events \in Seq(Event)
  BY DEF TypeOK, Blob
<1>2. "queued" \in Event
  BY DEF Event
<1>3. IsPrefix(blob[j].events, blob[j].events)
  BY <1>1, <1>2, LogExtends
<1>4. QED BY <1>3 DEF Kept

LEMMA Places ==
  /\ InCatch = {"fail", "failing", "error", "erring"}
  /\ Terminal = {"completed", "failed"}
  BY DEF InCatch, Terminal

-----------------------------------------------------------------------------
(* The initial states. *)

LEMMA OneInit ==
  ASSUME Init
  PROVE  OneInv
<1> SUFFICES ASSUME NEW j \in Job, NEW s \in Server PROVE JobInv(s, j)
  BY DEF OneInv
<1>1. /\ status[j] = "absent" /\ blob[j] = NoBlob /\ pc[s][j] = "idle"
      /\ req[j].at = "new" /\ snapshot[s] = {} /\ doubled = {}
      /\ \A v \in Source : rebuild[s][j][v].at = "none"
  BY NoRebuildsType DEF Init, NewHandler, Opened
<1>2. ~blob[j].result
  BY <1>1, NoBlobType
<1>3. Rebuilt(s, j)
  BY <1>1 DEF Rebuilt, RebuildFits
<1>4. QED
  BY <1>1, <1>2, <1>3, Places
  DEF JobInv, Queueing, Whole, Working, Copying, Calm

-----------------------------------------------------------------------------
(* What the rebuilds of j rely on. *)

\* Before a result is stored no rebuild updates the row.
LEMMA NoCopyBefore ==
  ASSUME NEW s \in Server, NEW j \in Job, JobInv(s, j), ~blob[j].result
  PROVE  \A v \in Source : rebuild[s][j][v].at \notin {"update", "updating"}
  BY DEF JobInv, Rebuilt, RebuildFits

\* A rebuild of j is about to write back a failure.
FailureRead(s, j) ==
  \E v \in Source : rebuild[s][j][v].at = "updating" /\ rebuild[s][j][v].status = "failed"

\* The places of a worker that has stored the result and not failed.
Succeeding == {"history", "phase", "phasing", "fail", "failing"}

\* A step that lets no rebuild copy the row: what it has to leave in the row and
\* in the worker's copy.
LEMMA FitsKept ==
  ASSUME NEW s \in Server, NEW j \in Job, JobInv(s, j), doubled' = doubled,
         rebuild' = rebuild \/ Aside(s, j),
         blob[j].result => blob'[j].result,
         pc'[s][j] \in Succeeding => pc[s][j] \in Succeeding \/ ~blob[j].result,
         FailureRead(s, j) /\ j \notin doubled =>
           blob'[j].error # "none" /\ (pc'[s][j] = "erring" => seen'[s][j].error # "none")
  PROVE  Rebuilt(s, j)'
<1>1. \A v \in Source :
        \/ rebuild'[s][j][v] = rebuild[s][j][v]
        \/ rebuild'[s][j][v].at \in {"none", "check", "saving"}
        \/ rebuild'[s][j][v].at = "update" /\ blob[j].result
  BY DEF Aside
<1>2. \A v \in Source : RebuildFits(s, j, v)'
  <2> SUFFICES ASSUME NEW v \in Source PROVE RebuildFits(s, j, v)'
    OBVIOUS
  <2>1. CASE rebuild'[s][j][v] = rebuild[s][j][v] /\ rebuild[s][j][v].at = "updating"
    <3>1. /\ blob[j].result /\ RebuildFits(s, j, v)
      BY <2>1 DEF JobInv, Rebuilt, RebuildFits
    <3>2. rebuild[s][j][v].status = "failed" => FailureRead(s, j)
      BY <2>1 DEF FailureRead
    <3>3. QED BY <2>1, <3>1, <3>2 DEF RebuildFits, Succeeding
  <2>2. CASE rebuild'[s][j][v] = rebuild[s][j][v] /\ rebuild[s][j][v].at # "updating"
    BY <2>2 DEF JobInv, Rebuilt, RebuildFits
  <2>3. CASE rebuild'[s][j][v].at \in {"none", "check", "saving"}
    BY <2>3 DEF RebuildFits
  <2>4. CASE rebuild'[s][j][v].at = "update" /\ blob[j].result
    BY <2>4 DEF RebuildFits
  <2>5. QED BY <1>1, <2>1, <2>2, <2>3, <2>4
<1>3. \A v \in Source : rebuild'[s][j][v].at = "updating" => rebuild[s][j][v].at = "updating"
  BY <1>1
<1>4. QED BY <1>2, <1>3 DEF JobInv, Rebuilt

\* A failure that a rebuild has read alone is in the row, and in the copy of a
\* worker that is about to note it; a worker that has not failed saw none.
LEMMA FailureStays ==
  ASSUME NEW s \in Server, NEW j \in Job, JobInv(s, j), FailureRead(s, j)
  PROVE  /\ pc[s][j] \notin Succeeding
         /\ j \notin doubled =>
              blob[j].error # "none" /\ (pc[s][j] = "erring" => seen[s][j].error # "none")
  BY DEF JobInv, Rebuilt, RebuildFits, FailureRead, Succeeding

\* The copies that rebuilds hold while nothing crashes or throws.
LEMMA CalmCopies ==
  ASSUME NEW s \in Server, NEW j \in Job, JobInv(s, j), Quiet,
         rebuild' = rebuild \/ Aside(s, j)
  PROVE  \A v \in Source : rebuild'[s][j][v].at = "updating" => rebuild'[s][j][v].status = "completed"
<1>1. \A v \in Source :
        rebuild'[s][j][v] = rebuild[s][j][v] \/ rebuild'[s][j][v].at # "updating"
  BY DEF Aside
<1>2. QED BY <1>1 DEF JobInv, Calm

-----------------------------------------------------------------------------
(* The worker of j. *)


LEMMA ClaimKeeps ==
  ASSUME TypeOK, NEW s \in Server, NEW j \in Job, JobInv(s, j),
         Claim(s, j) \/ ClaimRefused(s, j)
  PROVE  JobInv(s, j)' /\ Kept(j)
<1>1. CASE Claim(s, j)
  <2>1. /\ pc[s][j] = "queued" /\ pc'[s][j] = "mark" /\ status[j] \in {"pending", "processing"}
        /\ status'[j] = "processing" /\ blob' = blob /\ seen' = seen
        /\ rebuild' = rebuild /\ doubled' = doubled
        /\ req' = req /\ up' = up /\ snapshot' = snapshot /\ crashes' = crashes /\ faults' = faults
    BY <1>1 DEF TypeOK, Claim, Claimable, Goto, handlers, rebuilds, world
  <2>2. ~blob[j].result /\ j \notin doubled /\ ~FailureRead(s, j)
    BY <2>1, Places, NoCopyBefore DEF JobInv, Whole, FailureRead
  <2>3. Rebuilt(s, j)'
    BY <2>1, <2>2, FitsKept
  <2>5. Quiet' => \A v \in Source :
          rebuild'[s][j][v].at = "updating" => rebuild'[s][j][v].status = "completed"
    BY <2>1, CalmCopies DEF Quiet
  <2>6. JobInv(s, j)'
    BY <2>1, <2>2, <2>3, <2>5, Places
    DEF JobInv, Queueing, Whole, Working, Copying, Calm, Quiet
  <2>4. Kept(j)
    <3>1. blob[j].events \in Seq(Event) /\ "queued" \in Event
      BY DEF TypeOK, Blob, Event
    <3>2. QED BY <2>1, <2>2, <3>1, LogExtends DEF Kept, Terminal
  <2>7. QED BY <2>4, <2>6
<1>2. CASE ClaimRefused(s, j)
  <2>1. /\ pc[s][j] = "queued" /\ pc'[s][j] = "idle" /\ status' = status
        /\ blob' = blob /\ seen' = seen /\ rebuild' = rebuild /\ doubled' = doubled
        /\ req' = req /\ up' = up /\ snapshot' = snapshot /\ crashes' = crashes /\ faults' = faults
    BY <1>2 DEF TypeOK, ClaimRefused, Goto, row, handlers, rebuilds, world
  <2>2. Rebuilt(s, j)'
    BY <2>1, FitsKept, FailureStays DEF Succeeding
  <2>3. JobInv(s, j)'
    BY <2>1, <2>2, Places
    DEF JobInv, Queueing, Whole, Working, Copying, Calm, Quiet
  <2>4. QED BY <2>1, <2>3, RowHeld
<1>3. QED BY <1>1, <1>2

\* A SELECT of the worker.
LEMMA ReadKeeps ==
  ASSUME TypeOK, NEW s \in Server, NEW j \in Job, JobInv(s, j),
         \/ MarkRead(s, j) \/ NoteRead(s, j) \/ PhaseRead(s, j) \/ FailRead(s, j) \/ ErrorRead(s, j)
  PROVE  JobInv(s, j)' /\ Kept(j)
<1>1. /\ \/ pc[s][j] = "mark" /\ pc'[s][j] = "marking"
         \/ pc[s][j] = "note" /\ pc'[s][j] = "noting"
         \/ pc[s][j] = "phase" /\ pc'[s][j] = "phasing"
         \/ pc[s][j] = "fail" /\ pc'[s][j] = "failing"
         \/ pc[s][j] = "error" /\ pc'[s][j] = "erring"
      /\ Select(s, j)
  BY DEF TypeOK, MarkRead, NoteRead, PhaseRead, FailRead, ErrorRead, Goto
<1>2. /\ status' = status /\ blob' = blob /\ seen'[s][j] = blob[j]
      /\ rebuild' = rebuild /\ doubled' = doubled
      /\ req' = req /\ up' = up /\ snapshot' = snapshot /\ crashes' = crashes /\ faults' = faults
  BY <1>1 DEF TypeOK, Select, row, handlers, rebuilds, world
<1>3. Queueing(s, j)' /\ Whole(j)' /\ Working(s, j)'
  BY <1>1, <1>2 DEF JobInv, Queueing, Whole, Working
<1>4. Copying(s, j)'
  BY <1>1, <1>2 DEF JobInv, Whole, Copying
<1>5. Rebuilt(s, j)'
  BY <1>1, <1>2, FitsKept, FailureStays DEF Succeeding
<1>6. Calm(s, j)'
  BY <1>1, <1>2, Places DEF JobInv, Calm, Quiet
<1>7. QED BY <1>2, <1>3, <1>4, <1>5, <1>6, RowHeld DEF JobInv

\* The UPDATE behind a SELECT, with the blob it writes.
LEMMA WriteFacts ==
  ASSUME TypeOK, NEW s \in Server, NEW j \in Job, NEW st, NEW b, Update(s, j, st, b)
  PROVE  /\ status'[j] = st /\ blob'[j] = b /\ rebuild' = rebuild /\ doubled' = doubled
         /\ req' = req /\ up' = up /\ snapshot' = snapshot /\ crashes' = crashes /\ faults' = faults
  BY DEF TypeOK, Update, handlers, rebuilds, world

\* What pushing an event on a blob does to its log.
LEMMA PushedLog ==
  ASSUME NEW b \in Blob, NEW e \in Event
  PROVE  Pushed(b, e).events = Append(b.events, e) /\ IsPrefix(b.events, Pushed(b, e).events)
<1>1. b.events \in Seq(Event) /\ Pushed(b, e).events = Append(b.events, e)
  BY DEF Blob, Pushed
<1>2. QED BY <1>1, LogExtends

\* updateJob(processing) and the "processing" event: no result is stored yet, so
\* the copy written back is the row's own blob.
LEMMA EarlyWriteKeeps ==
  ASSUME TypeOK, NEW s \in Server, NEW j \in Job, JobInv(s, j),
         MarkWrite(s, j) \/ NoteWrite(s, j)
  PROVE  JobInv(s, j)' /\ Kept(j)
<1>0. blob[j] \in Blob /\ "processing" \in Event
  BY DEF TypeOK, Event
<1>1. /\ pc[s][j] \in {"marking", "noting"} /\ status[j] = "processing"
      /\ ~blob[j].result /\ seen[s][j] = blob[j] /\ j \notin doubled
  BY Places DEF MarkWrite, NoteWrite, Goto, JobInv, Working, Whole, Copying
<1>a. ~FailureRead(s, j)
  BY <1>1, NoCopyBefore DEF FailureRead
<1>2. /\ pc'[s][j] \in {"note", "run"} /\ status'[j] = "processing"
      /\ blob'[j] = blob[j] \/ blob'[j] = Pushed(blob[j], "processing")
      /\ rebuild' = rebuild /\ doubled' = doubled
      /\ req' = req /\ up' = up /\ snapshot' = snapshot /\ crashes' = crashes /\ faults' = faults
  BY <1>1, WriteFacts DEF TypeOK, MarkWrite, NoteWrite, Goto
<1>3. /\ ~blob'[j].result
      /\ IsPrefix(blob[j].events, blob'[j].events)
  <2>1. CASE blob'[j] = blob[j]
    BY <1>0, <1>1, <2>1, LogExtends DEF Blob
  <2>2. CASE blob'[j] = Pushed(blob[j], "processing")
    <3>1. IsPrefix(blob[j].events, Pushed(blob[j], "processing").events)
      BY <1>0, PushedLog
    <3>2. Pushed(blob[j], "processing").result = blob[j].result
      BY <1>0, BlobOperators DEF Error
    <3>3. QED BY <1>1, <2>2, <3>1, <3>2
  <2>3. QED BY <1>2, <2>1, <2>2
<1>4. Queueing(s, j)' /\ Whole(j)' /\ Working(s, j)' /\ Copying(s, j)'
  BY <1>1, <1>2, <1>3 DEF JobInv, Queueing, Whole, Working, Copying
<1>5. Rebuilt(s, j)'
  BY <1>1, <1>a, <1>2, FitsKept
<1>6. Calm(s, j)'
  BY <1>1, <1>2, <1>3, Places DEF JobInv, Calm, Quiet
<1>7. Kept(j)
  BY <1>1, <1>3, Places DEF Kept
<1>8. QED BY <1>4, <1>5, <1>6, <1>7 DEF JobInv

\* The pipeline, and the read of storeCompletedJob.
LEMMA RunKeeps ==
  ASSUME TypeOK, NEW s \in Server, NEW j \in Job, JobInv(s, j),
         Convert(s, j) \/ StoreRead(s, j)
  PROVE  JobInv(s, j)' /\ Kept(j)
<1>1. /\ \/ pc[s][j] = "run" /\ pc'[s][j] \in {"store", "fail"} /\ snapshot' = snapshot
         \/ pc[s][j] = "store" /\ pc'[s][j] = "save" /\ seen'[s][j] = blob[j]
      /\ status' = status /\ blob' = blob /\ rebuild' = rebuild /\ doubled' = doubled
      /\ req' = req /\ up' = up /\ crashes' = crashes /\ faults' = faults
  BY DEF TypeOK, Convert, StoreRead, Goto, row, handlers, rebuilds, world
<1>2. status[j] = "processing" /\ ~blob[j].result
  BY <1>1, Places DEF JobInv, Working, Whole
<1>a. ~FailureRead(s, j)
  BY <1>2, NoCopyBefore DEF FailureRead
<1>3. Queueing(s, j)' /\ Whole(j)' /\ Working(s, j)' /\ Copying(s, j)'
  BY <1>1, <1>2 DEF JobInv, Queueing, Whole, Working, Copying
<1>4. Rebuilt(s, j)'
  BY <1>1, <1>2, <1>a, FitsKept
<1>5. Calm(s, j)'
  BY <1>1, <1>2, Places DEF JobInv, Calm, Quiet
<1>6. QED BY <1>1, <1>3, <1>4, <1>5, RowHeld DEF JobInv

\* The write of storeCompletedJob: the log it extends is the row's.
LEMMA SaveKeeps ==
  ASSUME TypeOK, NEW s \in Server, NEW j \in Job, JobInv(s, j), SaveCompleted(s, j)
  PROVE  JobInv(s, j)' /\ Kept(j)
<1>0. blob[j].events \in Seq(Event) /\ "complete" \in Event
  BY DEF TypeOK, Blob, Event
<1>1. pc[s][j] = "save" /\ status[j] = "processing" /\ ~blob[j].result
      /\ seen[s][j] = blob[j] /\ j \notin doubled
  BY Places DEF SaveCompleted, Goto, JobInv, Working, Whole, Copying
<1>a. ~FailureRead(s, j) /\ \A v \in Source : rebuild[s][j][v].at # "updating"
  BY <1>1, NoCopyBefore DEF FailureRead
<1>2. /\ pc'[s][j] = "history" /\ status'[j] = "completed"
      /\ blob'[j] = [result |-> TRUE, error |-> "none", events |-> Append(seen[s][j].events, "complete")]
      /\ rebuild' = rebuild /\ doubled' = doubled
      /\ req' = req /\ up' = up /\ crashes' = crashes /\ faults' = faults
  BY DEF TypeOK, SaveCompleted, Goto, handlers, rebuilds, world
<1>3. blob'[j].result /\ blob'[j].events = Append(blob[j].events, "complete")
  BY <1>1, <1>2
<1>4. Queueing(s, j)' /\ Whole(j)' /\ Working(s, j)' /\ Copying(s, j)'
  BY <1>1, <1>2, <1>3, Places DEF JobInv, Queueing, Whole, Working, Copying
<1>5. Rebuilt(s, j)'
  BY <1>1, <1>a, <1>2, FitsKept
<1>6. Calm(s, j)'
  BY <1>1, <1>a, <1>2, <1>3, Places DEF JobInv, Calm, Quiet
<1>7. Kept(j)
  BY <1>0, <1>1, <1>2, <1>3, LogExtends, Places DEF Kept
<1>8. QED BY <1>4, <1>5, <1>6, <1>7 DEF JobInv

\* The history write, which leaves a rebuild behind, and the end.
LEMMA LateKeeps ==
  ASSUME TypeOK, NEW s \in Server, NEW j \in Job, JobInv(s, j),
         SaveHistory(s, j) \/ Finish(s, j)
  PROVE  JobInv(s, j)' /\ Kept(j)
<1>1. /\ \/ pc[s][j] = "history" /\ pc'[s][j] = "phase"
         \/ pc[s][j] = "phase" /\ pc'[s][j] = "idle"
      /\ status' = status /\ blob' = blob /\ doubled' = doubled
      /\ req' = req /\ up' = up /\ snapshot' = snapshot /\ crashes' = crashes /\ faults' = faults
  BY DEF TypeOK, SaveHistory, Finish, Leave, Goto, row, handlers, rebuilds, world
<1>2. rebuild' = rebuild \/ Aside(s, j)
  BY EnqueueAside DEF SaveHistory, Finish, handlers, rebuilds
<1>3. status[j] = "completed" /\ blob[j].result
  BY <1>1 DEF JobInv, Working, Whole
<1>4. Queueing(s, j)' /\ Whole(j)' /\ Working(s, j)' /\ Copying(s, j)'
  BY <1>1, <1>3 DEF JobInv, Queueing, Whole, Working, Copying
<1>5. Rebuilt(s, j)'
  BY <1>1, <1>2, FitsKept, FailureStays DEF Succeeding
<1>6. Calm(s, j)'
  <2>1. Quiet' => \A v \in Source :
          rebuild'[s][j][v].at = "updating" => rebuild'[s][j][v].status = "completed"
    BY <1>1, <1>2, CalmCopies DEF Quiet
  <2>2. QED BY <1>1, <1>3, <2>1, Places DEF JobInv, Calm
<1>7. QED BY <1>1, <1>4, <1>5, <1>6, RowHeld DEF JobInv

\* An event of the diagnostics: a rebuild may have written since the read, but a
\* result it never takes away.
LEMMA PhaseWriteKeeps ==
  ASSUME TypeOK, NEW s \in Server, NEW j \in Job, JobInv(s, j), PhaseWrite(s, j)
  PROVE  JobInv(s, j)' /\ Kept(j)
<1>1. pc[s][j] = "phasing" /\ status[j] = "completed" /\ blob[j].result /\ seen[s][j].result
  BY DEF PhaseWrite, Goto, JobInv, Working, Whole, Copying
<1>2. /\ pc'[s][j] = "phase" /\ status'[j] = status[j]
      /\ blob'[j] = Pushed(seen[s][j], "phase_complete")
      /\ rebuild' = rebuild /\ doubled' = doubled
      /\ req' = req /\ up' = up /\ snapshot' = snapshot /\ crashes' = crashes /\ faults' = faults
  BY WriteFacts DEF TypeOK, PhaseWrite, Goto
<1>3. blob'[j].result
  BY <1>1, <1>2, BlobOperators DEF TypeOK, Event, Error
<1>4. Queueing(s, j)' /\ Whole(j)' /\ Working(s, j)' /\ Copying(s, j)'
  BY <1>1, <1>2, <1>3, Places DEF JobInv, Queueing, Whole, Working, Copying
<1>5. Rebuilt(s, j)'
  BY <1>1, <1>2, <1>3, FitsKept, FailureStays DEF Succeeding
<1>6. Calm(s, j)'
  BY <1>1, <1>2, <1>3, Places DEF JobInv, Calm, Quiet
<1>7. QED BY <1>1, <1>2, <1>3, <1>4, <1>5, <1>6 DEF JobInv, Kept

\* The catch block: updateJob(failed), and the "error" event.
LEMMA FailWriteKeeps ==
  ASSUME TypeOK, NEW s \in Server, NEW j \in Job, JobInv(s, j), FailWrite(s, j)
  PROVE  JobInv(s, j)' /\ Kept(j)
<1>0. seen[s][j] \in Blob /\ blob[j] \in Blob /\ "queued" \in Event
  BY DEF TypeOK, Event
<1>1. /\ pc[s][j] = "failing"
      /\ IF blob[j].result THEN seen[s][j].result ELSE seen[s][j] = blob[j]
  BY DEF FailWrite, Goto, JobInv, Copying
<1>2. /\ pc'[s][j] = "error" /\ status'[j] = "failed"
      /\ blob'[j] = WithError(seen[s][j], "phase")
      /\ rebuild' = rebuild /\ doubled' = doubled
      /\ req' = req /\ up' = up /\ snapshot' = snapshot /\ crashes' = crashes /\ faults' = faults
  BY WriteFacts DEF TypeOK, FailWrite, Goto
<1>3. blob'[j].result = seen[s][j].result /\ blob'[j].error # "none"
      /\ blob'[j].events = seen[s][j].events
  BY <1>0, <1>2, BlobOperators DEF Error, WithError, Blob
<1>4. Queueing(s, j)' /\ Whole(j)' /\ Working(s, j)' /\ Copying(s, j)'
  BY <1>1, <1>2, <1>3, Places DEF JobInv, Queueing, Whole, Working, Copying
<1>a. Rebuilt(s, j)'
  BY <1>1, <1>2, <1>3, FitsKept, FailureStays DEF Succeeding
<1>5. Calm(s, j)'
  BY <1>1, <1>2, <1>3, Places DEF JobInv, Working, Whole, Calm, Quiet
<1>6. Kept(j)
  <2>1. ~blob[j].result => IsPrefix(blob[j].events, blob'[j].events)
    BY <1>0, <1>1, <1>3, LogExtends DEF Blob
  <2>2. QED BY <1>1, <1>2, <1>3, <2>1, Places DEF Kept
<1>7. QED BY <1>4, <1>a, <1>5, <1>6 DEF JobInv

LEMMA ErrorWriteKeeps ==
  ASSUME TypeOK, NEW s \in Server, NEW j \in Job, JobInv(s, j), ErrorWrite(s, j)
  PROVE  JobInv(s, j)' /\ Kept(j)
<1>0. seen[s][j] \in Blob /\ blob[j] \in Blob /\ "error" \in Event
  BY DEF TypeOK, Event
<1>1. /\ pc[s][j] = "erring" /\ status[j] \in Terminal
      /\ IF blob[j].result THEN seen[s][j].result ELSE seen[s][j] = blob[j]
      /\ status[j] = "failed" => seen[s][j].error # "none" \/ j \in doubled
  BY DEF ErrorWrite, Leave, Goto, JobInv, Working, Copying
<1>2. /\ pc'[s][j] = "idle" /\ status'[j] = status[j]
      /\ blob'[j] = Pushed(seen[s][j], "error")
      /\ rebuild' = rebuild /\ doubled' = doubled
      /\ req' = req /\ up' = up /\ snapshot' = snapshot /\ crashes' = crashes /\ faults' = faults
  BY WriteFacts DEF TypeOK, ErrorWrite, Leave, Goto
<1>3. blob'[j].result = seen[s][j].result /\ blob'[j].error = seen[s][j].error
  <2>1. "none" \in Error
    BY DEF Error
  <2>2. /\ Pushed(seen[s][j], "error").result = seen[s][j].result
        /\ Pushed(seen[s][j], "error").error = seen[s][j].error
    BY <1>0, <2>1, BlobOperators, Zenon
  <2>3. QED BY <1>2, <2>2
<1>4. Queueing(s, j)' /\ Working(s, j)' /\ Copying(s, j)'
  BY <1>1, <1>2, <1>3, Places DEF JobInv, Queueing, Working, Copying
<1>a. Rebuilt(s, j)'
  BY <1>1, <1>2, <1>3, FitsKept, FailureStays DEF Succeeding
<1>5. Whole(j)' /\ Calm(s, j)'
  BY <1>1, <1>2, <1>3, Places DEF JobInv, Whole, Calm, Quiet
<1>6. Kept(j)
  <2>1. ~blob[j].result => IsPrefix(blob[j].events, blob'[j].events)
    BY <1>0, <1>1, <1>2, PushedLog
  <2>2. QED BY <1>1, <1>2, <1>3, <2>1 DEF Kept
<1>7. QED BY <1>4, <1>a, <1>5, <1>6 DEF JobInv

LEMMA WorkerKeeps ==
  ASSUME TypeOK, NEW s \in Server, NEW j \in Job, JobInv(s, j), WorkerStep(s, j)
  PROVE  JobInv(s, j)' /\ Kept(j)
  BY ClaimKeeps, ReadKeeps, EarlyWriteKeeps, RunKeeps, SaveKeeps, LateKeeps, PhaseWriteKeeps,
     FailWriteKeeps, ErrorWriteKeeps, Zenon
  DEF WorkerStep

-----------------------------------------------------------------------------
(* The rebuilds. *)

\* A rebuild of j begins, ends, or finds the result it is to update.
LEMMA AsideKeeps ==
  ASSUME TypeOK, NEW s \in Server, NEW j \in Job, JobInv(s, j), AsideStep(s, j), Quiet' => Quiet
  PROVE  JobInv(s, j)' /\ Kept(j)
<1>1. /\ Aside(s, j)
      /\ UNCHANGED <<status, blob, pc, seen, snapshot, req, doubled, up>>
  BY StepsAside
<1>2. Queueing(s, j)' /\ Whole(j)' /\ Working(s, j)' /\ Copying(s, j)'
  BY <1>1 DEF JobInv, Queueing, Whole, Working, Copying
<1>3. Rebuilt(s, j)'
  BY <1>1, FitsKept, FailureStays
<1>4. Calm(s, j)'
  <2>1. Quiet' => \A v \in Source :
          rebuild'[s][j][v].at = "updating" => rebuild'[s][j][v].status = "completed"
    BY <1>1, CalmCopies
  <2>2. QED BY <1>1, <2>1 DEF JobInv, Calm
<1>5. QED BY <1>1, <1>2, <1>3, <1>4, RowHeld DEF JobInv

\* A rebuild reads the row: alone, or it is doubled from then on.
LEMMA RebuildReadKeeps ==
  ASSUME TypeOK, NEW s \in Server, NEW j \in Job, JobInv(s, j),
         NEW v \in Source, RebuildRead(s, j, v)
  PROVE  JobInv(s, j)' /\ Kept(j)
<1> DEFINE r == Rebuilding("updating", blob[j], status[j])
<1>1. r \in Rebuild /\ r.at = "updating" /\ r.blob = blob[j] /\ r.status = status[j]
  BY RebuildOperators DEF TypeOK
<1> HIDE DEF r
<1>2. /\ rebuild[s][j][v].at = "update" /\ rebuild'[s][j][v] = r
      /\ \A w \in Source \ {v} : rebuild'[s][j][w] = rebuild[s][j][w]
  BY <1>1, SetRebuildFrame DEF RebuildRead, r
<1>3. UNCHANGED <<status, blob, pc, seen, snapshot, req, up, crashes, faults>>
  BY DEF RebuildRead, row, worker, world
<1>4. /\ j \in doubled => j \in doubled'
      /\ j \in doubled' =>
           j \in doubled \/ \E t \in Server, w \in Source : rebuild[t][j][w].at = "updating"
      /\ \A w \in Source : rebuild[s][j][w].at = "updating" => j \in doubled'
  BY DEF RebuildRead
<1>5. blob[j].result
  BY <1>2 DEF JobInv, Rebuilt, RebuildFits
<1>6. Queueing(s, j)' /\ Whole(j)' /\ Working(s, j)' /\ Copying(s, j)'
  BY <1>3, <1>4, <1>5 DEF JobInv, Queueing, Whole, Working, Copying
<1>7. RebuildFits(s, j, v)'
  <2>1. /\ status[j] \in Terminal
        /\ pc[s][j] \in {"history", "phase", "phasing", "fail", "failing"} => status[j] = "completed"
    BY <1>5, Places DEF JobInv, Whole, Working
  <2>2. status[j] = "failed" /\ j \notin doubled =>
          blob[j].error # "none" /\ (pc[s][j] = "erring" => seen[s][j].error # "none")
    BY DEF JobInv, Whole, Copying
  <2>3. QED BY <1>1, <1>2, <1>3, <1>4, <1>5, <2>1, <2>2 DEF RebuildFits
<1>8. ASSUME NEW w \in Source \ {v} PROVE RebuildFits(s, j, w)'
  BY <1>2, <1>3, <1>4 DEF JobInv, Rebuilt, RebuildFits
<1>9. Rebuilt(s, j)'
  BY <1>2, <1>4, <1>7, <1>8 DEF JobInv, Rebuilt
<1>10. Calm(s, j)'
  BY <1>1, <1>2, <1>3, <1>5 DEF JobInv, Calm, Quiet
<1>11. QED BY <1>3, <1>6, <1>9, <1>10, RowHeld DEF JobInv

\* A rebuild writes back what it read.
LEMMA RebuildWriteKeeps ==
  ASSUME TypeOK, NEW s \in Server, NEW j \in Job, JobInv(s, j),
         NEW v \in Source, RebuildWrite(s, j, v)
  PROVE  JobInv(s, j)' /\ Kept(j)
<1> DEFINE r == rebuild[s][j][v]
<1>1. /\ r.at = "updating" /\ status'[j] = r.status /\ blob'[j] = r.blob
      /\ rebuild'[s][j][v].at = "saving"
      /\ \A w \in Source \ {v} : rebuild'[s][j][w] = rebuild[s][j][w]
  BY CopylessFields, SetRebuildFrame DEF TypeOK, RebuildWrite
<1>2. UNCHANGED <<pc, seen, snapshot, req, up, doubled, crashes, faults>>
  BY DEF RebuildWrite, worker, world
<1>3. RebuildFits(s, j, v)
  BY DEF JobInv, Rebuilt
<1>4. /\ blob[j].result /\ blob'[j].result /\ status[j] \in Terminal /\ status'[j] \in Terminal
      /\ status'[j] = "failed" => blob'[j].error # "none" \/ j \in doubled
      /\ pc[s][j] \in {"history", "phase", "phasing", "fail", "failing"} => status'[j] = "completed"
      /\ status'[j] = "failed" /\ pc[s][j] = "erring" => seen[s][j].error # "none" \/ j \in doubled
  BY <1>1, <1>3 DEF JobInv, Whole, RebuildFits
<1>5. Queueing(s, j)' /\ Whole(j)'
  BY <1>2, <1>4, Places DEF JobInv, Queueing, Whole
<1>6. Working(s, j)' /\ Copying(s, j)'
  BY <1>1, <1>2, <1>4, Places DEF JobInv, Working, Copying
<1>7. RebuildFits(s, j, v)'
  BY <1>1 DEF RebuildFits
<1>8. ASSUME NEW w \in Source \ {v} PROVE RebuildFits(s, j, w)'
  <2>1. RebuildFits(s, j, w) /\ (rebuild[s][j][w].at = "updating" => j \in doubled)
    BY <1>1 DEF JobInv, Rebuilt
  <2>2. QED BY <1>1, <1>2, <1>4, <2>1 DEF RebuildFits
<1>9. Rebuilt(s, j)'
  BY <1>1, <1>2, <1>7, <1>8 DEF JobInv, Rebuilt
<1>10. Calm(s, j)'
  BY <1>1, <1>2, <1>4 DEF JobInv, Calm, Quiet
<1>11. QED BY <1>4, <1>5, <1>6, <1>9, <1>10 DEF JobInv, Kept

LEMMA RebuildKeeps ==
  ASSUME TypeOK, NEW s \in Server, NEW j \in Job, JobInv(s, j), Quiet' => Quiet,
         NEW v \in Source, RebuildStep(s, j, v)
  PROVE  JobInv(s, j)' /\ Kept(j)
  BY AsideKeeps, RebuildReadKeeps, RebuildWriteKeeps DEF RebuildStep, AsideStep

-----------------------------------------------------------------------------
(* The handler that queues j. *)

LEMMA QueueKeeps ==
  ASSUME TypeOK, NEW s \in Server, NEW j \in Job, JobInv(s, j),
         QueueSave(j, s) \/ QueueAppendRead(j) \/ (QueueAppendWrite(j) /\ OneServer)
  PROVE  JobInv(s, j)' /\ Kept(j)
<1>0. /\ \A h : [req EXCEPT ![j] = h][j] = h
      /\ blob[j] \in Blob /\ blob[j].events \in Seq(Event) /\ "queued" \in Event
      /\ req[j] \in Handler /\ "append" \in Place /\ "appending" \in Place /\ "done" \in Place
      /\ "absent" \in Status
  BY DEF TypeOK, Blob, Event, Place, Status
<1>1. CASE QueueSave(j, s)
  <2>1. /\ req[j].at = "new" /\ req'[j].at = "append" /\ req'[j].on = s /\ s \in up
    <3>1. s \in up /\ req[j].at = "new" /\ req'[j] = Opened("append", s, NoBlob, "absent")
      BY <1>0, <1>1 DEF QueueSave
    <3>2. QED BY <1>0, <3>1, NoBlobType, HandlerOperators
  <2>2. /\ status'[j] = "pending" /\ blob' = blob /\ pc' = pc /\ seen' = seen
        /\ rebuild' = rebuild /\ doubled' = doubled
        /\ up' = up /\ snapshot' = snapshot /\ crashes' = crashes /\ faults' = faults
    BY <1>1 DEF TypeOK, QueueSave, rebuilds, worker, world
  <2>3. /\ status[j] = "absent" /\ pc[s][j] = "idle" /\ ~blob[j].result /\ j \notin doubled
    BY <2>1 DEF JobInv, Queueing, Whole
  <2>a. ~FailureRead(s, j)
    BY <2>3, NoCopyBefore DEF FailureRead
  <2>4. Queueing(s, j)' /\ Whole(j)' /\ Working(s, j)' /\ Copying(s, j)'
    BY <2>1, <2>2, <2>3 DEF JobInv, Queueing, Whole, Working, Copying
  <2>b. Rebuilt(s, j)'
    BY <2>2, <2>3, <2>a, FitsKept
  <2>5. Calm(s, j)'
    BY <2>2, <2>3, Places DEF JobInv, Calm, Quiet
  <2>6. Kept(j)
    BY <1>0, <2>2, <2>3, LogExtends, Places DEF Kept
  <2>7. QED BY <2>4, <2>b, <2>5, <2>6 DEF JobInv
<1>2. CASE QueueAppendRead(j)
  <2>1. /\ req[j].at = "append" /\ req'[j].at = "appending" /\ req'[j].on = req[j].on
        /\ req'[j].blob = blob[j]
    <3>1. req[j].at = "append" /\ req'[j] = At(req[j], "appending", blob[j])
      BY <1>0, <1>2 DEF QueueAppendRead
    <3>2. QED BY <1>0, <3>1, HandlerOperators
  <2>2. /\ status' = status /\ blob' = blob /\ pc' = pc /\ seen' = seen
        /\ rebuild' = rebuild /\ doubled' = doubled
        /\ up' = up /\ snapshot' = snapshot /\ crashes' = crashes /\ faults' = faults
    BY <1>2 DEF QueueAppendRead, row, rebuilds, worker, world
  <2>3. Rebuilt(s, j)'
    BY <2>2, FitsKept, FailureStays
  <2>4. JobInv(s, j)'
    BY <2>1, <2>2, <2>3
    DEF JobInv, Queueing, Whole, Working, Copying, Calm, Quiet
  <2>5. QED BY <2>2, <2>4, RowHeld
<1>3. CASE QueueAppendWrite(j) /\ OneServer
  <2>1. /\ req[j].at = "appending" /\ req[j].blob = blob[j] /\ status[j] = "pending"
        /\ pc[s][j] = "idle" /\ ~blob[j].result /\ req[j].on \in up
    BY <1>3 DEF QueueAppendWrite, JobInv, Queueing
  <2>a. ~FailureRead(s, j)
    BY <2>1, NoCopyBefore DEF FailureRead
  <2>2. req[j].on = s
    BY <1>3, <2>1 DEF TypeOK, OneServer
  <2>3. pc'[s][j] = "queued" /\ req'[j].at = "done"
    BY <1>0, <1>3, <2>1, <2>2, NoBlobType, HandlerOperators DEF TypeOK, QueueAppendWrite
  <2>4. /\ status' = status /\ blob'[j] = Pushed(blob[j], "queued") /\ seen' = seen
        /\ rebuild' = rebuild /\ doubled' = doubled
        /\ up' = up /\ snapshot' = snapshot /\ crashes' = crashes /\ faults' = faults
    BY <1>3, <2>1 DEF TypeOK, QueueAppendWrite, rebuilds, world
  <2>5. ~blob'[j].result /\ IsPrefix(blob[j].events, blob'[j].events)
    <3>1. blob'[j].result = blob[j].result
      <4>1. "none" \in Error
        BY DEF Error
      <4>2. Pushed(blob[j], "queued").result = blob[j].result
        BY <1>0, <4>1, BlobOperators, Zenon
      <4>3. QED BY <2>4, <4>2
    <3>2. QED BY <1>0, <2>1, <2>4, <3>1, PushedLog
  <2>6. Queueing(s, j)' /\ Whole(j)' /\ Working(s, j)' /\ Copying(s, j)'
    BY <2>1, <2>3, <2>4, <2>5, Places DEF JobInv, Queueing, Whole, Working, Copying
  <2>7. Rebuilt(s, j)'
    BY <2>1, <2>a, <2>3, <2>4, FitsKept DEF Succeeding
  <2>8. Calm(s, j)'
    BY <2>1, <2>3, <2>4, <2>5, Places DEF JobInv, Calm, Quiet
  <2>9. QED BY <2>1, <2>4, <2>5, <2>6, <2>7, <2>8 DEF JobInv, Kept
<1>4. QED BY <1>1, <1>2, <1>3

-----------------------------------------------------------------------------
(* Processes that start and end, and calls that throw. *)

LEMMA StartKeeps ==
  ASSUME TypeOK, WorkersHoldClaims, OneServer,
         NEW s \in Server, NEW j \in Job, JobInv(s, j), Start(s)
  PROVE  JobInv(s, j)' /\ Kept(j)
<1>1. /\ status' = status /\ blob' = blob /\ seen' = seen /\ req' = req
      /\ rebuild' = rebuild /\ doubled' = doubled
      /\ snapshot' = snapshot /\ crashes' = crashes /\ faults' = faults /\ s \notin up
      /\ up' = up \cup {s}
  BY DEF Start, row, handlers, rebuilds
<1>2. pc[s][j] = "idle"
  BY <1>1 DEF WorkersHoldClaims
<1>3. /\ pc'[s][j] \in {"queued", "idle"}
      /\ pc'[s][j] = "queued" => status[j] \in {"pending", "processing"}
  <2>1. PICK C \in Resumable :
          pc' = [pc EXCEPT ![s] = [k \in Job |-> IF k \in C THEN "queued" ELSE "idle"]]
    BY DEF Start
  <2>2. pc'[s][j] = IF j \in C THEN "queued" ELSE "idle"
    BY <2>1 DEF TypeOK
  <2>3. j \in C => Claimable(j)
    BY <2>1 DEF Resumable, Listed
  <2>4. QED BY <2>2, <2>3 DEF Claimable
<1>4. req[j].at \notin {"append", "appending"}
  <2>1. req[j].at \in {"append", "appending"} => req[j].on \in Server /\ req[j].on \in up
    BY DEF JobInv, Queueing, TypeOK
  <2>2. QED BY <1>1, <2>1 DEF OneServer
<1>5. req[j].at = "new" => pc'[s][j] = "idle"
  BY <1>3 DEF JobInv, Queueing
<1>6. Queueing(s, j)' /\ Whole(j)' /\ Working(s, j)' /\ Copying(s, j)'
  BY <1>1, <1>3, <1>4, <1>5 DEF JobInv, Queueing, Whole, Working, Copying
<1>7. Rebuilt(s, j)'
  BY <1>1, <1>2, <1>3, FitsKept, FailureStays DEF Succeeding
<1>8. Calm(s, j)'
  BY <1>1, <1>2, <1>3, Places DEF JobInv, Calm, Quiet
<1>9. QED BY <1>1, <1>6, <1>7, <1>8, RowHeld DEF JobInv

LEMMA HaltKeeps ==
  ASSUME TypeOK, WorkersHoldClaims, OneServer, NEW s \in Server, NEW j \in Job, JobInv(s, j),
         Halt(s), ~Quiet'
  PROVE  JobInv(s, j)' /\ Kept(j)
<1>1. /\ status' = status /\ blob' = blob /\ pc'[s][j] = "idle" /\ doubled' = doubled
      /\ rebuild'[s][j] = NoRebuilds
      /\ req'[j] = IF req[j].on = s /\ req[j].at \in InFlight THEN Lost(req[j]) ELSE req[j]
  BY DEF TypeOK, Halt, Abandoned, row
<1>2. \A v \in Source : rebuild'[s][j][v].at = "none"
  BY <1>1, NoRebuildsType
<1>3. req[j].at \in InFlight => req[j].on = s
  BY DEF WorkersHoldClaims, OneServer, TypeOK
<1>4. req'[j].at \notin {"append", "appending"} /\ (req'[j].at = "new" => req[j].at = "new")
  <2>1. Lost(req[j]).at = "lost"
    BY HandlerFields DEF TypeOK
  <2>2. QED BY <1>1, <1>3, <2>1 DEF InFlight
<1>5. Queueing(s, j)' /\ Whole(j)' /\ Working(s, j)' /\ Copying(s, j)'
  BY <1>1, <1>4 DEF JobInv, Queueing, Whole, Working, Copying
<1>6. Rebuilt(s, j)' /\ Calm(s, j)'
  BY <1>2 DEF Rebuilt, RebuildFits, Calm
<1>7. QED BY <1>1, <1>5, <1>6, RowHeld DEF JobInv

LEMMA CaughtKeeps ==
  ASSUME TypeOK, NEW s \in Server, NEW j \in Job, JobInv(s, j), CaughtFault(s, j)
  PROVE  JobInv(s, j)' /\ Kept(j)
<1>1. /\ pc[s][j] \in {"store", "save", "history", "phase", "phasing"} /\ pc'[s][j] = "fail"
      /\ status' = status /\ blob' = blob /\ rebuild' = rebuild /\ doubled' = doubled
      /\ req' = req /\ up' = up /\ faults' = faults + 1 /\ faults \in Nat
  BY DEF TypeOK, CaughtFault, InTry, row, handlers, rebuilds
<1>2. ~Quiet'
  BY <1>1 DEF Quiet
<1>3. Queueing(s, j)' /\ Whole(j)' /\ Working(s, j)' /\ Copying(s, j)'
  BY <1>1 DEF JobInv, Queueing, Whole, Working, Copying
<1>4. Rebuilt(s, j)' /\ Calm(s, j)'
  <2>1. pc[s][j] \in Succeeding \/ ~blob[j].result
    BY <1>1, Places DEF JobInv, Whole, Working, Succeeding
  <2>2. ~FailureRead(s, j)
    BY <2>1, NoCopyBefore, FailureStays DEF FailureRead
  <2>3. Rebuilt(s, j)'
    BY <1>1, <2>1, <2>2, FitsKept
  <2>4. QED BY <1>2, <2>3 DEF Calm
<1>5. QED BY <1>1, <1>3, <1>4, RowHeld DEF JobInv

-----------------------------------------------------------------------------
(* The steps that are none of j's business. *)

\* All that JobInv(s, j) reads is as it was, but that j's queueing may be lost and
\* a snapshot forgotten.
Held(s, j) ==
  /\ status'[j] = status[j] /\ blob'[j] = blob[j]
  /\ pc'[s][j] = pc[s][j] /\ seen'[s][j] = seen[s][j]
  /\ \A v \in Source : rebuild'[s][j][v] = rebuild[s][j][v]
  /\ j \in doubled' <=> j \in doubled
  /\ req'[j] = req[j] \/ req'[j].at = "lost"
  /\ j \in snapshot'[s] => j \in snapshot[s]
  /\ up' = up

LEMMA HeldKeeps ==
  ASSUME TypeOK, NEW s \in Server, NEW j \in Job, JobInv(s, j), Held(s, j), Quiet' => Quiet
  PROVE  JobInv(s, j)' /\ Kept(j)
<1>1. Queueing(s, j)' /\ Whole(j)' /\ Working(s, j)' /\ Copying(s, j)'
  BY DEF Held, JobInv, Queueing, Whole, Working, Copying
<1>2. Rebuilt(s, j)' /\ Calm(s, j)'
  BY DEF Held, JobInv, Rebuilt, RebuildFits, Calm
<1>3. QED BY <1>1, <1>2, RowHeld DEF Held, JobInv

\* The steps of another job's worker, rebuild, handlers and snapshot.
LEMMA OthersHold ==
  ASSUME TypeOK, NEW s \in Server, NEW j \in Job, NEW k \in Job, k # j,
         \/ WorkerStep(s, k) \/ CaughtFault(s, k) \/ \E v \in Source : RebuildStep(s, k, v)
         \/ ViewSummary(s, k) \/ ViewFault(s, k)
         \/ QueueSave(k, s) \/ CancelCheck(k, s) \/ EditRead(k, s)
         \/ RequestStep(k) \/ RequestFault(k)
  PROVE  Held(s, j)
<1> USE DEF TypeOK, Held, row, worker, handlers, rebuilds, world
<1>1. CASE Claim(s, k) \/ ClaimRefused(s, k)
  BY <1>1 DEF Claim, ClaimRefused, Goto
<1>2. CASE MarkRead(s, k) \/ NoteRead(s, k) \/ PhaseRead(s, k) \/ FailRead(s, k) \/ ErrorRead(s, k)
  BY <1>2 DEF MarkRead, NoteRead, PhaseRead, FailRead, ErrorRead, Goto, Select
<1>3. CASE \/ MarkWrite(s, k) \/ NoteWrite(s, k) \/ PhaseWrite(s, k)
           \/ FailWrite(s, k) \/ ErrorWrite(s, k)
  <2>1. \E st, b : Update(s, k, st, b)
    BY <1>3 DEF MarkWrite, NoteWrite, PhaseWrite, FailWrite, ErrorWrite
  <2>2. pc'[s][j] = pc[s][j]
    BY <1>3 DEF MarkWrite, NoteWrite, PhaseWrite, FailWrite, ErrorWrite, Leave, Goto
  <2>3. QED BY <2>1, <2>2 DEF Update
<1>4. CASE Convert(s, k) \/ Finish(s, k) \/ CaughtFault(s, k)
  BY <1>4 DEF Convert, Finish, CaughtFault, Leave, Goto
<1>5. CASE StoreRead(s, k) \/ SaveCompleted(s, k)
  BY <1>5 DEF StoreRead, SaveCompleted, Goto
<1>a. Aside(s, k) => \A v \in Source : rebuild'[s][j][v] = rebuild[s][j][v]
  BY DEF Aside
<1>6. CASE SaveHistory(s, k)
  <2>1. Aside(s, k)
    BY <1>6, EnqueueAside DEF SaveHistory
  <2>2. QED BY <1>6, <1>a, <2>1 DEF SaveHistory, Goto
<1>7. CASE ViewSummary(s, k) \/ ViewFault(s, k) \/ \E v \in Source : RebuildStep(s, k, v)
  <2>1. CASE AsideStep(s, k)
    <3>1. /\ Aside(s, k)
          /\ UNCHANGED <<status, blob, pc, seen, snapshot, req, doubled, up>>
      BY <2>1, StepsAside
    <3>2. QED BY <1>a, <3>1
  <2>2. ASSUME NEW v \in Source, RebuildRead(s, k, v) PROVE Held(s, j)
    <3>1. Rebuilding("updating", blob[k], status[k]) \in Rebuild
      BY RebuildOperators
    <3>2. \A w \in Source : rebuild'[s][j][w] = rebuild[s][j][w]
      BY <2>2, <3>1, SetRebuildFrame DEF RebuildRead
    <3>3. QED BY <2>2, <3>2 DEF RebuildRead
  <2>3. ASSUME NEW v \in Source, RebuildWrite(s, k, v) PROVE Held(s, j)
    <3>1. \A w \in Source : rebuild'[s][j][w] = rebuild[s][j][w]
      BY <2>3, CopylessFields, SetRebuildFrame DEF RebuildWrite
    <3>2. QED BY <2>3, <3>1 DEF RebuildWrite
  <2>4. QED BY <1>7, <2>1, <2>2, <2>3 DEF RebuildStep, AsideStep
<1>8. CASE QueueSave(k, s) \/ CancelCheck(k, s) \/ EditRead(k, s)
  BY <1>8 DEF QueueSave, CancelCheck, EditRead
<1>9. CASE RequestStep(k)
  <2>1. CASE QueueAppendWrite(k)
    <3>1. pc'[s][j] = pc[s][j]
      <4>1. CASE pc' = [pc EXCEPT ![req[k].on][k] = "queued"]
        BY <4>1
      <4>2. QED BY <2>1, <4>1 DEF QueueAppendWrite
    <3>2. QED BY <2>1, <3>1 DEF QueueAppendWrite
  <2>2. CASE QueueAppendRead(k) \/ EditWrite(k)
    BY <2>2 DEF QueueAppendRead, EditWrite
  <2>3. CASE CancelRead(k) \/ CancelWrite(k) \/ CancelAnswer(k)
    BY <2>3 DEF CancelRead, CancelWrite, CancelAnswer
  <2>4. QED BY <1>9, <2>1, <2>2, <2>3 DEF RequestStep
<1>10. CASE RequestFault(k)
  BY <1>10 DEF RequestFault
<1>11. QED
  BY <1>1, <1>2, <1>3, <1>4, <1>5, <1>6, <1>7, <1>8, <1>9, <1>10 DEF WorkerStep

\* The handler h of j after a step that opens it, moves it or loses it.
Moves(h, j) == h'[j] = h[j] \/ h'[j].at # "new"

\* A handler never returns to its beginning.
LEMMA HandlersMove ==
  ASSUME TypeOK, NEW j \in Job, [Next]_vars
  PROVE  Moves(can, j) /\ Moves(edit, j)
<1> USE DEF TypeOK, Moves
<1>0. /\ \A k \in Job : Lost(can[k]).at = "lost" /\ Lost(edit[k]).at = "lost"
      /\ NoBlob \in Blob /\ "absent" \in Status
      /\ {"update", "updating", "append", "appending", "done"} \subseteq Place
  BY HandlerFields, NoBlobType DEF Place, Status
<1>1. ASSUME NEW s \in Server, Start(s) \/ Halt(s) PROVE Moves(can, j) /\ Moves(edit, j)
  BY <1>0, <1>1 DEF Start, Halt, Abandoned, handlers
<1>2. ASSUME NEW s \in Server, NEW k \in Job, JobStep(s, k) PROVE Moves(can, j) /\ Moves(edit, j)
  <2>1. CASE CancelCheck(k, s)
    <3>1. can' = [can EXCEPT ![k] = Opened("update", s, NoBlob, "absent")] /\ edit' = edit
      BY <2>1 DEF CancelCheck
    <3>2. Opened("update", s, NoBlob, "absent").at # "new"
      BY <1>0, HandlerOperators
    <3>3. QED BY <3>1, <3>2
  <2>2. CASE EditRead(k, s)
    <3>1. edit' = [edit EXCEPT ![k] = Opened("updating", s, blob[k], status[k])] /\ can' = can
      BY <2>2 DEF EditRead
    <3>2. Opened("updating", s, blob[k], status[k]).at # "new"
      BY <1>0, HandlerOperators
    <3>3. QED BY <3>1, <3>2
  <2>3. CASE UnhandledRejection(s, k)
    BY <1>1, <2>3 DEF UnhandledRejection
  <2>4. CASE WorkerStep(s, k)
    BY <2>4 DEF WorkerStep, Claim, ClaimRefused, MarkRead, NoteRead, PhaseRead, FailRead, ErrorRead,
                MarkWrite, NoteWrite, PhaseWrite, FailWrite, ErrorWrite, Select, Update, Convert,
                StoreRead, SaveCompleted, SaveHistory, Finish, handlers
  <2>5. CASE \/ QueueSave(k, s) \/ ViewSummary(s, k) \/ ViewFault(s, k)
             \/ \E v \in Source : RebuildStep(s, k, v)
             \/ Poll(s, k) \/ ExpireSnapshot(s, k) \/ CaughtFault(s, k)
    BY <2>5 DEF QueueSave, ViewSummary, ViewFault, RebuildStep, RebuildCheck, RebuildRead,
                RebuildWrite, RebuildDone, Poll, ExpireSnapshot, CaughtFault, handlers
  <2>6. QED BY <1>2, <2>1, <2>2, <2>3, <2>4, <2>5 DEF JobStep
<1>3. ASSUME NEW k \in Job, RequestStep(k) PROVE Moves(can, j) /\ Moves(edit, j)
  <2>0. \A at \in Place, b \in Blob : At(can[k], at, b).at = at /\ At(edit[k], at, b).at = at
    BY HandlerOperators
  <2>1. CASE QueueAppendRead(k) \/ QueueAppendWrite(k)
    BY <2>1 DEF QueueAppendRead, QueueAppendWrite
  <2>2. CASE CancelRead(k) \/ CancelWrite(k) \/ CancelAnswer(k)
    <3>1. req[k].blob \in Blob /\ blob[k] \in Blob
      BY HandlerFields
    <3>2. PICK at \in {"updating", "append", "appending", "done"}, b \in Blob :
            can' = [can EXCEPT ![k] = At(@, at, b)]
      BY <1>0, <2>2, <3>1 DEF CancelRead, CancelWrite, CancelAnswer
    <3>3. edit' = edit
      BY <2>2 DEF CancelRead, CancelWrite, CancelAnswer
    <3>4. QED BY <1>0, <2>0, <3>2, <3>3
  <2>3. CASE EditWrite(k)
    BY <1>0, <2>0, <2>3 DEF EditWrite
  <2>4. QED BY <1>3, <2>1, <2>2, <2>3 DEF RequestStep
<1>4. ASSUME NEW k \in Job, RequestFault(k) PROVE Moves(can, j) /\ Moves(edit, j)
  BY <1>0, <1>4 DEF RequestFault
<1>5. CASE Tick \/ UNCHANGED vars
  BY <1>5 DEF Tick, vars, handlers
<1>6. QED BY <1>1, <1>2, <1>3, <1>4, <1>5 DEF Next, ServerStep, Crash

\* A job that was disturbed stays so, and nothing that happened is undone.
LEMMA Disturbing ==
  ASSUME TypeOK, NEW j \in Job, [Next]_vars
  PROVE  Undisturbed(j)' => Undisturbed(j)
  BY HandlersMove DEF Undisturbed, Moves

LEMMA QuietBefore ==
  ASSUME TypeOK, [Next]_vars
  PROVE  Quiet' => Quiet
<1> USE DEF TypeOK, Quiet
<1>1. crashes' \in {crashes, crashes + 1} /\ faults' \in {faults, faults + 1}
  <2>1. ASSUME NEW s \in Server, ServerStep(s) PROVE <1>1!1 /\ <1>1!2
    BY <2>1 DEF ServerStep, Start, Crash, world
  <2>2. ASSUME NEW s \in Server, NEW k \in Job, JobStep(s, k) PROVE <1>1!1 /\ <1>1!2
    <3>1. CASE WorkerStep(s, k)
      BY <3>1 DEF WorkerStep, Claim, ClaimRefused, MarkRead, NoteRead, PhaseRead, FailRead, ErrorRead,
                  MarkWrite, NoteWrite, PhaseWrite, FailWrite, ErrorWrite, Select, Update, Convert,
                  StoreRead, SaveCompleted, SaveHistory, Finish, world
    <3>2. CASE ~WorkerStep(s, k)
      BY <2>2, <3>2 DEF JobStep, QueueSave, CancelCheck, EditRead, ViewSummary, ViewFault, RebuildStep,
                  RebuildCheck, RebuildRead, RebuildWrite, RebuildDone, Poll, ExpireSnapshot,
                  UnhandledRejection, CaughtFault, world
    <3>3. QED BY <3>1, <3>2
  <2>3. ASSUME NEW k \in Job, RequestStep(k) \/ RequestFault(k) PROVE <1>1!1 /\ <1>1!2
    BY <2>3 DEF RequestStep, QueueAppendRead, QueueAppendWrite, CancelRead, CancelWrite, CancelAnswer,
                EditWrite, RequestFault, world
  <2>4. CASE Tick \/ UNCHANGED vars
    BY <2>4 DEF Tick, vars, world
  <2>5. QED BY <2>1, <2>2, <2>3, <2>4 DEF Next
<1>2. QED BY <1>1

-----------------------------------------------------------------------------
(* Every step keeps the invariant and the row. *)

LEMMA OneStep ==
  ASSUME IInv, OneServer, OneInv, [Next]_vars, NEW j \in Job, Undisturbed(j)'
  PROVE  (\A s \in Server : JobInv(s, j)') /\ Kept(j)
<1>1. PICK s \in Server : Server = {s}
  BY DEF OneServer
<1> SUFFICES JobInv(s, j)' /\ Kept(j)
  BY <1>1
<1> DEFINE Goal == JobInv(s, j)' /\ Kept(j)
<1>2. TypeOK /\ WorkersHoldClaims /\ Undisturbed(j) /\ (Quiet' => Quiet)
  BY Disturbing, QuietBefore DEF IInv
<1>3. JobInv(s, j)
  BY <1>2 DEF OneInv
<1>4. Held(s, j) => Goal
  BY <1>2, <1>3, HeldKeeps
<1>5. ASSUME NEW k \in Job, k # j,
             \/ WorkerStep(s, k) \/ CaughtFault(s, k) \/ \E v \in Source : RebuildStep(s, k, v)
             \/ ViewSummary(s, k) \/ ViewFault(s, k)
             \/ QueueSave(k, s) \/ CancelCheck(k, s) \/ EditRead(k, s)
             \/ RequestStep(k) \/ RequestFault(k)
      PROVE  Goal
  BY <1>2, <1>4, <1>5, OthersHold
<1>6. CASE Start(s)
  BY <1>2, <1>3, <1>6, StartKeeps
<1>7. CASE Crash(s)
  <2>1. ~Quiet'
    BY <1>2, <1>7 DEF Crash, Quiet, TypeOK
  <2>2. QED BY <1>2, <1>3, <1>7, <2>1, HaltKeeps DEF Crash
<1>8. ASSUME NEW k \in Job, JobStep(s, k) PROVE Goal
  <2>1. CASE UnhandledRejection(s, k)
    <3>1. ~Quiet'
      BY <1>2, <2>1 DEF UnhandledRejection, Quiet, TypeOK
    <3>2. QED BY <1>2, <1>3, <2>1, <3>1, HaltKeeps DEF UnhandledRejection
  <2>2. CASE Poll(s, k) \/ ExpireSnapshot(s, k)
    <3>1. Held(s, j)
      BY <1>2, <2>2 DEF Held, TypeOK, Poll, ExpireSnapshot, row, worker, handlers, rebuilds, world
    <3>2. QED BY <1>4, <3>1
  <2>3. CASE k = j /\ \/ WorkerStep(s, k) \/ CaughtFault(s, k) \/ QueueSave(k, s)
                      \/ ViewSummary(s, k) \/ ViewFault(s, k)
                      \/ \E v \in Source : RebuildStep(s, k, v)
    BY <1>2, <1>3, <2>3, WorkerKeeps, CaughtKeeps, AsideKeeps, RebuildKeeps, QueueKeeps DEF AsideStep
  <2>4. CASE k = j /\ (CancelCheck(k, s) \/ EditRead(k, s))
    <3>1. ~Undisturbed(j)'
      <4>1. NoBlob \in Blob /\ "absent" \in Status /\ "update" \in Place /\ "updating" \in Place
            /\ blob[j] \in Blob /\ status[j] \in Status
        BY <1>2, NoBlobType DEF TypeOK, Status, Place
      <4>2. CASE CancelCheck(j, s)
        <5>1. can'[j] = Opened("update", s, NoBlob, "absent")
          BY <1>2, <4>2 DEF CancelCheck, TypeOK
        <5>2. can'[j].at = "update"
          BY <4>1, <5>1, HandlerOperators
        <5>3. QED BY <5>2 DEF Undisturbed
      <4>3. CASE EditRead(j, s)
        <5>1. edit'[j] = Opened("updating", s, blob[j], status[j])
          BY <1>2, <4>3 DEF EditRead, TypeOK
        <5>2. edit'[j].at = "updating"
          BY <4>1, <5>1, HandlerOperators
        <5>3. QED BY <5>2 DEF Undisturbed
      <4>4. QED BY <2>4, <4>2, <4>3
    <3>2. QED BY <3>1
  <2>5. QED BY <1>5, <1>8, <2>1, <2>2, <2>3, <2>4 DEF JobStep
<1>9. ASSUME NEW k \in Job, RequestStep(k) \/ RequestFault(k) PROVE Goal
  <2>1. CASE k = j /\ (QueueAppendRead(k) \/ QueueAppendWrite(k))
    BY <1>2, <1>3, <2>1, QueueKeeps
  <2>2. CASE k = j /\ (CancelRead(k) \/ CancelWrite(k) \/ CancelAnswer(k) \/ EditWrite(k))
    BY <1>2, <2>2 DEF Undisturbed, CancelRead, CancelWrite, CancelAnswer, EditWrite
  <2>3. CASE k = j /\ RequestFault(k)
    <3>1. can[j].at \notin InFlight /\ edit[j].at \notin InFlight
      BY <1>2 DEF Undisturbed, InFlight
    <3>2. Lost(req[j]).at = "lost"
      BY <1>2, HandlerFields DEF TypeOK
    <3>3. Held(s, j)
      BY <1>2, <2>3, <3>1, <3>2 DEF Held, TypeOK, RequestFault, row, rebuilds, worker
    <3>4. QED BY <1>4, <3>3
  <2>4. QED BY <1>5, <1>9, <2>1, <2>2, <2>3 DEF RequestStep
<1>10. CASE Tick \/ UNCHANGED vars
  <2>1. Held(s, j)
    BY <1>10 DEF Held, Tick, vars, row, worker, handlers, rebuilds, world
  <2>2. QED BY <1>4, <2>1
<1>11. QED BY <1>1, <1>6, <1>7, <1>8, <1>9, <1>10 DEF Next, ServerStep

LEMMA OneInvStep == IInv /\ OneServer /\ OneInv /\ [Next]_vars => OneInv'
<1> SUFFICES ASSUME IInv, OneServer, OneInv, [Next]_vars, NEW j \in Job, Undisturbed(j)',
                    NEW s \in Server
             PROVE  JobInv(s, j)'
  BY DEF OneInv
<1>1. QED BY OneStep

LEMMA OneInvHolds ==
  ASSUME OneServer
  PROVE  Spec => []OneInv
<1>1. IInv /\ OneInv /\ [Next]_vars => OneInv'
  BY OneInvStep
<1>2. Init => OneInv
  BY OneInit
<1>3. QED BY <1>1, <1>2, InvHolds, PTL DEF Spec

-----------------------------------------------------------------------------
(* What a client was told. *)

\* Only a poll tells a client anything.
LEMMA OnlyPollsTell ==
  ASSUME TypeOK, NEW j \in Job, [Next]_vars
  PROVE  told'[j] = told[j] \/ \E s \in Server : Poll(s, j)
<1> DEFINE Goal == told'[j] = told[j] \/ \E s \in Server : Poll(s, j)
<1>1. ASSUME NEW s \in Server, ServerStep(s) PROVE Goal
  BY <1>1 DEF ServerStep, Start, Crash, Halt
<1>2. ASSUME NEW s \in Server, NEW k \in Job, JobStep(s, k) PROVE Goal
  <2>1. CASE Poll(s, k)
    BY <2>1 DEF Poll, TypeOK
  <2>2. CASE WorkerStep(s, k)
    BY <2>2 DEF WorkerStep, Claim, ClaimRefused, MarkRead, NoteRead, PhaseRead, FailRead, ErrorRead,
                MarkWrite, NoteWrite, PhaseWrite, FailWrite, ErrorWrite, Select, Update, Convert,
                StoreRead, SaveCompleted, SaveHistory, Finish
  <2>3. CASE ~Poll(s, k) /\ ~WorkerStep(s, k)
    BY <1>2, <2>3 DEF JobStep, QueueSave, CancelCheck, EditRead, ViewSummary, ViewFault, RebuildStep,
                RebuildCheck, RebuildRead, RebuildWrite, RebuildDone, ExpireSnapshot,
                UnhandledRejection, CaughtFault, Halt
  <2>4. QED BY <2>1, <2>2, <2>3
<1>3. ASSUME NEW k \in Job, RequestStep(k) \/ RequestFault(k) PROVE Goal
  BY <1>3 DEF RequestStep, QueueAppendRead, QueueAppendWrite, CancelRead, CancelWrite, CancelAnswer,
              EditWrite, RequestFault
<1>4. CASE Tick \/ UNCHANGED vars
  BY <1>4 DEF Tick, vars
<1>5. QED BY <1>1, <1>2, <1>3, <1>4 DEF Next

\* A worker about to complete its job does so, unless something crashes or throws.
LEMMA SaveIsNext ==
  ASSUME TypeOK, WorkersHoldClaims, [Next]_vars, Quiet', NEW s \in Server, NEW j \in Job,
         pc[s][j] = "save"
  PROVE  pc'[s][j] = "save" \/ status'[j] = "completed"
<1> USE DEF TypeOK
<1> DEFINE Goal == pc'[s][j] = "save" \/ status'[j] = "completed"
<1>0. crashes = 0 /\ faults = 0 /\ crashes' = 0 /\ faults' = 0
  BY QuietBefore DEF Quiet
<1>1. ASSUME NEW t \in Server, ServerStep(t) PROVE Goal
  <2>1. Start(t)
    BY <1>0, <1>1 DEF ServerStep, Crash
  <2>2. t # s
    BY <2>1 DEF Start, WorkersHoldClaims
  <2>3. QED BY <2>1, <2>2 DEF Start
<1>2. ASSUME NEW t \in Server, NEW k \in Job, WorkerStep(t, k) PROVE Goal
  <2>1. CASE SaveCompleted(t, k)
    BY <2>1 DEF SaveCompleted, Goto
  <2>2. CASE ~SaveCompleted(t, k)
    <3>1. \E from, to : pc[t][k] = from /\ from # "save" /\ pc' = [pc EXCEPT ![t][k] = to]
      BY <1>2, <2>2
      DEF WorkerStep, Claim, ClaimRefused, MarkRead, NoteRead, PhaseRead, FailRead, ErrorRead,
          MarkWrite, NoteWrite, PhaseWrite, FailWrite, ErrorWrite, Convert, StoreRead, SaveHistory,
          Finish, Leave, Goto
    <3>2. QED BY <3>1
  <2>3. QED BY <2>1, <2>2
<1>3. ASSUME NEW t \in Server, NEW k \in Job, JobStep(t, k) PROVE Goal
  <2>1. ~UnhandledRejection(t, k) /\ ~CaughtFault(t, k)
    BY <1>0 DEF UnhandledRejection, CaughtFault
  <2>2. CASE ~WorkerStep(t, k)
    <3>1. pc' = pc
      BY <1>3, <2>1, <2>2 DEF JobStep, QueueSave, CancelCheck, EditRead, ViewSummary, ViewFault,
            RebuildStep, RebuildCheck, RebuildRead, RebuildWrite, RebuildDone, Poll, ExpireSnapshot, worker
    <3>2. QED BY <3>1
  <2>3. QED BY <1>2, <2>2
<1>4. ASSUME NEW k \in Job, RequestStep(k) \/ RequestFault(k) PROVE Goal
  <2>1. CASE QueueAppendWrite(k)
    <3> DEFINE t == req[k].on
    <3>1. CASE pc[t][k] = "idle" /\ pc' = [pc EXCEPT ![t][k] = "queued"]
      <4>1. t # s \/ k # j
        BY <3>1
      <4> HIDE DEF t
      <4>2. pc'[s][j] = pc[s][j]
        BY <3>1, <4>1
      <4>3. QED BY <4>2
    <3>2. CASE pc' = pc
      BY <3>2
    <3>3. QED BY <2>1, <3>1, <3>2 DEF QueueAppendWrite
  <2>2. CASE ~QueueAppendWrite(k)
    <3>1. pc' = pc
      BY <1>4, <2>2 DEF RequestStep, QueueAppendRead, CancelRead, CancelWrite, CancelAnswer,
            EditWrite, RequestFault, worker
    <3>2. QED BY <3>1
  <2>3. QED BY <2>1, <2>2
<1>5. CASE Tick \/ UNCHANGED vars
  BY <1>5 DEF Tick, vars, worker
<1>6. QED BY <1>1, <1>3, <1>4, <1>5 DEF Next

LEMMA ToldStep ==
  ASSUME IInv, OneServer, OneInv, OneInv', ToldCompletedIsKept, [Next]_vars
  PROVE  ToldCompletedIsKept'
<1> SUFFICES ASSUME NEW j \in Job, Quiet', Undisturbed(j)', told'[j] = "completed"
             PROVE  status'[j] = "completed" \/ \E s \in Server : pc'[s][j] = "save"
  BY DEF ToldCompletedIsKept
<1>1. PICK s \in Server : Server = {s}
  BY DEF OneServer
<1>2. TypeOK /\ WorkersHoldClaims /\ Undisturbed(j) /\ Quiet
  BY Disturbing, QuietBefore DEF IInv
<1>3. JobInv(s, j) /\ JobInv(s, j)' /\ Kept(j)
  BY <1>2, OneStep DEF OneInv
<1>4. CASE status[j] = "completed"
  BY <1>3, <1>4 DEF JobInv, Whole, Kept, Calm
<1>5. CASE pc[s][j] = "save"
  BY <1>2, <1>5, SaveIsNext
<1>6. CASE told[j] = "completed"
  BY <1>1, <1>2, <1>4, <1>5, <1>6 DEF ToldCompletedIsKept
<1>7. CASE Poll(s, j)
  <2>1. Answer(s, j) = "completed"
    BY <1>2, <1>7 DEF Poll, TypeOK
  <2>2. status[j] = "completed" \/ pc[s][j] = "save"
    BY <1>2, <1>3, <2>1 DEF Answer, JobInv, Calm
  <2>3. QED BY <1>4, <1>5, <2>2
<1>8. QED BY <1>1, <1>2, <1>6, <1>7, OnlyPollsTell

-----------------------------------------------------------------------------
\* On one server a row that says completed has its result and one that says
\* failed has its error, however the worker's and the rebuilds' reads and writes
\* interleave, and whatever crashes or throws; unless two rebuilds overlapped,
\* and then the job has its result.
THEOREM OutcomesAreWhole == OneServer => (Spec => []OutcomeIsWhole)
<1> SUFFICES ASSUME OneServer PROVE Spec => []OutcomeIsWhole
  OBVIOUS
<1>1. OneInv => OutcomeIsWhole
  <2> SUFFICES ASSUME OneInv, NEW j \in Job, Undisturbed(j)
               PROVE  /\ status[j] = "completed" => blob[j].result
                      /\ status[j] = "failed" => \/ blob[j].error # "none"
                                                 \/ (j \in doubled /\ blob[j].result)
    BY DEF OutcomeIsWhole
  <2>1. PICK s \in Server : Server = {s}
    BY DEF OneServer
  <2>2. Whole(j)
    BY <2>1 DEF OneInv, JobInv
  <2>3. QED BY <2>2 DEF Whole
<1>2. QED BY <1>1, OneInvHolds, PTL

\* On one server the event log of a job without a result only grows, so the live
\* stream misses no event.
THEOREM LogsGrow == OneServer => (Spec => EventLogGrows)
<1> SUFFICES ASSUME OneServer PROVE Spec => EventLogGrows
  OBVIOUS
<1>1. IInv /\ OneInv /\ [Next]_vars
      => [\A j \in Job : Undisturbed(j)' /\ ~blob[j].result
            => IsPrefix(blob[j].events, blob'[j].events)]_vars
  BY OneStep DEF Kept
<1>2. QED BY <1>1, InvHolds, OneInvHolds, PTL DEF Spec, EventLogGrows

\* On one server a stored result is never dropped and a job that ended never runs
\* again: neither the worker nor a rebuild writes back a row from before.
THEOREM OutcomesStick == OneServer => (Spec => OutcomeSticks)
<1> SUFFICES ASSUME OneServer PROVE Spec => OutcomeSticks
  OBVIOUS
<1>1. IInv /\ OneInv /\ [Next]_vars
      => [\A j \in Job : Undisturbed(j)' =>
            /\ blob[j].result => blob'[j].result
            /\ status[j] \in Terminal => status'[j] \in Terminal]_vars
  BY OneStep DEF Kept
<1>2. QED BY <1>1, InvHolds, OneInvHolds, PTL DEF Spec, OutcomeSticks

\* On one server on which nothing crashes or throws, a client that was told
\* completed finds the job completed, or its worker at the write that does it.
THEOREM ToldIsTrue == OneServer => (Spec => []ToldCompletedIsKept)
<1> SUFFICES ASSUME OneServer PROVE Spec => []ToldCompletedIsKept
  OBVIOUS
<1>1. Init => ToldCompletedIsKept
  BY DEF Init, ToldCompletedIsKept
<1>2. IInv /\ OneInv /\ OneInv' /\ ToldCompletedIsKept /\ [Next]_vars => ToldCompletedIsKept'
  BY ToldStep
<1>3. QED BY <1>1, <1>2, InvHolds, OneInvHolds, PTL DEF Spec
=============================================================================
