----------------------------- MODULE WorkerPool -----------------------------
(***************************************************************************)
(* The core stages of a conversion of the fast lane: in the server's own   *)
(* thread when it is small, in a pool of persistent worker threads when it *)
(* is large, or in worker threads of its own when the pool is busy.        *)
(*                                                                         *)
(* Source: server/src/pipeline/orchestrator.ts (runBatchedCorePipeline and *)
(* below), server/src/pipeline/coreFastWorker.ts.                          *)
(*                                                                         *)
(* Granularity.  An action of the server is what one event of its loop     *)
(* does, with the microtasks that follow it: where a handler waits for     *)
(* promises that are settled already (Due), no other event comes first.    *)
(* The threads run beside it.  A message of a thread is taken when it is   *)
(* posted: before that it could as well not have been computed yet.        *)
(*                                                                         *)
(* Data.  Work is named by the request and the part of it.  What a thread  *)
(* does with it, returns, throws or dies, is not looked into; a thread     *)
(* works on several parts at once.  Abort signals, which no route of the   *)
(* server passes, are left out.                                            *)
(***************************************************************************)
EXTENDS BlockSchedule, FiniteSets

CONSTANTS
  Request,     \* conversions, each submitted once
  Warm,        \* the warm-up of the pool at startup
  Input,       \* Input[r]: what request r may convert, see BlockSchedule
  Sample,      \* more inputs, which are only divided
  MinRefs,     \* PIPELINE_FAST_MULTICORE_MIN_REFS
  MaxThreads,  \* bound on the threads of one process
  MaxFaults    \* bound on the parts that throw and the threads that die

ASSUME PoolAssumption ==
  /\ IsFiniteSet(Request) /\ Warm \notin Request
  /\ MinRefs \in Nat /\ MaxFaults \in Nat
  /\ MaxThreads \in Nat /\ MaxConcurrency <= MaxThreads
  /\ \A r \in Request : Input[r] \subseteq Seq(Key)
  /\ Sample \subseteq Seq(Key)

Thread == 1..MaxThreads
User == Request \union {Warm}

VARIABLES
  thread,   \* thread[t]: see Life
  ready,    \* ready[t]: the promise slot.ready of a persistent thread
  pool,     \* persistentCoreFastWorkerPool
  busy,     \* persistentCoreFastWorkerPoolBusy
  created,  \* the threads created so far
  sent,     \* persistentCoreFastWorkerRequestId
  tasks,    \* what the threads are computing
  listen,   \* the listeners on a thread's message, error and exit
  pc,       \* pc[u]: what a conversion, or the warm-up, waits for
  input,    \* input[r]: what r converts, and how it is divided
  cursor,   \* cursor[r]: the shared batch cursor in the server's own thread
  slots,    \* slots[u]: the threads of its parts
  got,      \* got[r]: for each part the work that was returned for it
  threw,    \* requests one of whose parts threw
  died,     \* threads of this process that died
  faults

pooling == <<thread, ready, pool, created>>
mail == <<sent, tasks, listen>>
marks == <<threw, died, faults>>
vars == <<pooling, busy, mail, pc, input, cursor, slots, got, marks>>

-----------------------------------------------------------------------------
\* "starting", "up"; "failed": an uncaught error, its events still to come;
\* "ending": terminated, or done and leaving; "gone": exited.
Life == {"none", "starting", "up", "failed", "ending", "gone"}

\* "inline": in the server's own thread; "ready", "await": promises of the
\* pool; "own": threads of its own; "reap", "drop": their end after a result or
\* an error; "lost": the process ended.
PC == {"idle", "inline", "ready", "await", "own", "reap", "drop", "done", "failed", "lost"}
Ended == {"done", "failed", "lost"}

\* What there is to convert, and its division.
Plan(x) == [blocks |-> x, batches |-> Batches(x), parts |-> Assignments(x)]

\* shouldUseCoreFastWorkerThreads
Threaded(r) ==
  MaxConcurrency > 1 /\ Len(input[r].batches) > 1 /\ Len(input[r].blocks) >= MinRefs

NumParts(r) == IF Threaded(r) THEN Len(input[r].parts) ELSE Len(input[r].batches)
Parts(r) == 1..NumParts(r)

\* The batches of part p of r.
BatchesOf(r, p) == IF Threaded(r) THEN input[r].parts[p] ELSE {p}

Work(u, p) == [user |-> u, part |-> p]
Open == Work(Warm, 0)

\* min(PIPELINE_MAX_CONCURRENCY, 16)
WarmCount == IF MaxConcurrency < 16 THEN MaxConcurrency ELSE 16

\* What a new process starts with: prewarmPersistentCoreFastWorkerPool runs
\* before any conversion, and does not take the pool.
FreshThread == [t \in Thread |-> IF t <= WarmCount THEN "starting" ELSE "none"]
FreshReady == [t \in Thread |-> "wait"]
FreshPool == [k \in 1..WarmCount |-> k]

Init ==
  /\ thread = FreshThread /\ ready = FreshReady /\ pool = FreshPool
  /\ created = WarmCount /\ busy = FALSE
  /\ sent = 0 /\ tasks = {} /\ listen = {}
  /\ pc = [u \in User |-> IF u = Warm THEN "ready" ELSE "idle"]
  /\ input \in {f \in [Request -> UNION {{Plan(x) : x \in Input[r]} : r \in Request}] :
                 \A r \in Request : f[r].blocks \in Input[r]}
  /\ cursor = [r \in Request |-> 0]
  /\ slots = [u \in User |-> IF u = Warm THEN FreshPool ELSE <<>>]
  /\ got = [r \in Request |-> <<>>]
  /\ threw = {} /\ died = {} /\ faults = 0

-----------------------------------------------------------------------------
AllReady(u) == pc[u] = "ready" /\ \A k \in DOMAIN slots[u] : ready[slots[u][k]] = "yes"
AnyUnready(u) == pc[u] = "ready" /\ \E k \in DOMAIN slots[u] : ready[slots[u][k]] = "no"

Members(seq) == {seq[k] : k \in DOMAIN seq}

\* A handler goes on before the loop takes its next event.
Due == \E u \in User : AllReady(u) \/ AnyUnready(u)

Listeners(t) == {l \in listen : l.thread = t}
Heard(t) == Listeners(t) # {} \/ ready[t] = "wait"

\* terminate() of the threads in S.  If nobody listens, nobody sees when they
\* exit.
Terminated(S) ==
  [t \in Thread |->
     IF t \notin S \/ thread[t] \notin {"starting", "up"} THEN thread[t]
     ELSE IF Heard(t) THEN "ending" ELSE "gone"]

\* The next n threads.
NewThreads(n) == [k \in 1..n |-> created + k]
Unanswered(r) == [p \in Parts(r) |-> Open]

\* runBatchedCorePipeline without threads: min(maxConcurrency, batches) loops
\* take their first batch.  Without a batch the first loop ends at once.
StartInline(r) ==
  /\ ~Due /\ pc[r] = "idle" /\ ~Threaded(r)
  /\ pc' = [pc EXCEPT ![r] = IF NumParts(r) = 0 THEN "done" ELSE "inline"]
  /\ cursor' = [cursor EXCEPT ![r] =
       IF NumParts(r) < MaxConcurrency THEN NumParts(r) ELSE MaxConcurrency]
  /\ got' = [got EXCEPT ![r] = Unanswered(r)]
  /\ UNCHANGED <<pooling, busy, mail, input, slots, marks>>

\* Mutant: the threads of the old pool are not terminated.
EnsurePoolLeaves(n) ==
  IF Len(pool) = n
  THEN UNCHANGED pooling
  ELSE /\ created + n <= MaxThreads
       /\ pool' = NewThreads(n) /\ created' = created + n
       /\ thread' = [t \in Thread |-> IF t \in Members(NewThreads(n)) THEN "starting" ELSE thread[t]]
       /\ UNCHANGED ready

\* ensurePersistentCoreFastWorkerPool: a pool of another size is terminated, one
\* of the same size is taken as it is.
EnsurePool(n) ==
  IF Len(pool) = n
  THEN UNCHANGED pooling
  ELSE /\ created + n <= MaxThreads
       /\ pool' = NewThreads(n) /\ created' = created + n
       /\ thread' = [t \in Thread |->
            IF t \in Members(NewThreads(n)) THEN "starting" ELSE Terminated(Members(pool))[t]]
       /\ UNCHANGED ready

\* runBatchedCorePipelineInPersistentWorkers up to the ready promises.
StartPooled(r) ==
  /\ ~Due /\ pc[r] = "idle" /\ Threaded(r) /\ ~busy
  /\ busy' = TRUE
  /\ EnsurePool(NumParts(r))
  /\ slots' = [slots EXCEPT ![r] = pool']
  /\ pc' = [pc EXCEPT ![r] = "ready"]
  /\ got' = [got EXCEPT ![r] = Unanswered(r)]
  /\ UNCHANGED <<mail, input, cursor, marks>>

\* What a thread is sent, and who listens for the answer.
Task(t, id, work) == [thread |-> t, id |-> id, work |-> work]

\* runBatchedCorePipelineInOneShotWorkers: a thread for each part, with its work
\* in workerData instead of a request id.
StartOneShot(r) ==
  LET n == NumParts(r)
      own == NewThreads(n)
      new == {Task(own[k], 0, Work(r, k)) : k \in 1..n}
  IN
  /\ ~Due /\ pc[r] = "idle" /\ Threaded(r) /\ busy
  /\ created + n <= MaxThreads
  /\ created' = created + n
  /\ thread' = [t \in Thread |-> IF t \in Members(own) THEN "up" ELSE thread[t]]
  /\ ready' = [t \in Thread |-> IF t \in Members(own) THEN "yes" ELSE ready[t]]
  /\ tasks' = tasks \union new /\ listen' = listen \union new
  /\ slots' = [slots EXCEPT ![r] = own]
  /\ pc' = [pc EXCEPT ![r] = "own"]
  /\ got' = [got EXCEPT ![r] = Unanswered(r)]
  /\ UNCHANGED <<pool, busy, sent, input, cursor, marks>>

\* runPersistentCoreFastWorkerRequest for every slot, when all are ready.  What
\* is posted to a thread that is gone is lost without a sign.
Post(u) ==
  LET new == {Task(slots[u][k], sent + k, Work(u, k)) : k \in DOMAIN slots[u]}
  IN
  /\ AllReady(u)
  /\ sent' = sent + Len(slots[u])
  /\ listen' = listen \union new
  /\ tasks' = tasks \union {x \in new : thread[x.thread] = "up"}
  /\ pc' = [pc EXCEPT ![u] = "await"]
  /\ UNCHANGED <<pooling, busy, input, cursor, slots, got, marks>>

\* Mutant: the warm-up frees the pool as a conversion does.
UnreadyFrees(u) ==
  /\ AnyUnready(u)
  /\ pc' = [pc EXCEPT ![u] = "failed"]
  /\ busy' = FALSE
  /\ UNCHANGED <<pooling, mail, input, cursor, slots, got, marks>>

\* One ready promise was rejected.  The warm-up only logs it.
Unready(u) ==
  /\ AnyUnready(u)
  /\ pc' = [pc EXCEPT ![u] = "failed"]
  /\ busy' = (busy /\ u = Warm)
  /\ UNCHANGED <<pooling, mail, input, cursor, slots, got, marks>>

-----------------------------------------------------------------------------
(* The server's own thread. *)

\* A loop ends its batch and takes the one at the cursor.
InlineBatch(r) ==
  /\ ~Due /\ pc[r] = "inline"
  /\ \E b \in 1..cursor[r] :
       /\ got[r][b] = Open
       /\ got' = [got EXCEPT ![r] = [got[r] EXCEPT ![b] = Work(r, b)]]
  /\ cursor' = [cursor EXCEPT ![r] = IF cursor[r] < NumParts(r) THEN cursor[r] + 1 ELSE cursor[r]]
  /\ pc' = IF \A p \in Parts(r) : got'[r][p] # Open THEN [pc EXCEPT ![r] = "done"] ELSE pc
  /\ UNCHANGED <<pooling, busy, mail, input, slots, marks>>

InlineThrow(r) ==
  /\ ~Due /\ pc[r] = "inline" /\ faults < MaxFaults
  /\ pc' = [pc EXCEPT ![r] = "failed"]
  /\ threw' = threw \union {r} /\ faults' = faults + 1
  /\ UNCHANGED <<pooling, busy, mail, input, cursor, slots, got, died>>

-----------------------------------------------------------------------------
(* The worker threads. *)

\* coreFastWorker posts ready.  A thread that is ending may have done so before.
Ready(t) ==
  /\ ~Due /\ ready[t] = "wait" /\ thread[t] \in {"starting", "failed", "ending"}
  /\ ready' = [ready EXCEPT ![t] = "yes"]
  /\ thread' = IF thread[t] = "starting" THEN [thread EXCEPT ![t] = "up"] ELSE thread
  /\ UNCHANGED <<pool, created, busy, mail, pc, input, cursor, slots, got, marks>>

\* An error that nothing catches, or no memory left.
Die(t) ==
  /\ thread[t] \in {"starting", "up"} /\ faults < MaxFaults
  /\ thread' = [thread EXCEPT ![t] = "failed"]
  /\ tasks' = {x \in tasks : x.thread # t}
  /\ died' = died \union {t} /\ faults' = faults + 1
  /\ UNCHANGED <<ready, pool, created, busy, sent, listen, pc, input, cursor, slots, got, threw>>

-----------------------------------------------------------------------------
(* Their events. *)

\* Promise.all of the users in S is settled, for good or bad: the pool is free
\* for the next request, threads of their own are terminated.
Settle(S, pooled, own) ==
  /\ pc' = [u \in User |-> IF u \in S /\ pc[u] = "await" THEN pooled
                           ELSE IF u \in S /\ pc[u] = "own" THEN own ELSE pc[u]]
  /\ busy' = (busy /\ \A r \in S \ {Warm} : pc[r] # "await")
OwnThreads(S) == UNION {Members(slots[u]) : u \in {v \in S : pc[v] = "own"}}

\* Mutant: the request id is not compared.
ListeningAny(x) == {l \in listen : l.thread = x.thread}

\* Who takes the answer to task x for his.
Listening(x) == {l \in listen : l.thread = x.thread /\ l.id = x.id}
Users(L) == {l.work.user : l \in L}

\* A thread of one request ends with its answer.
Leaving(x, life) == IF x.id = 0 THEN [life EXCEPT ![x.thread] = "gone"] ELSE life

\* runAssignments returns: onMessage of a result.
Result(x) ==
  LET L == Listening(x) IN
  /\ ~Due /\ x \in tasks /\ thread[x.thread] = "up"
  /\ tasks' = tasks \ {x} /\ listen' = listen \ L
  /\ got' = [r \in Request |-> [p \in DOMAIN got[r] |->
       IF \E l \in L : l.work = Work(r, p) THEN x.work ELSE got[r][p]]]
  /\ LET whole == {r \in Users(L) \ {Warm} : \A p \in Parts(r) : got'[r][p] # Open} IN
       /\ Settle(whole, "done", "reap")
       /\ thread' = Leaving(x, Terminated(OwnThreads(whole)))
  /\ UNCHANGED <<ready, pool, created, sent, input, cursor, slots, marks>>

\* runAssignments throws: onMessage of an error.
Thrown(x) ==
  LET L == Listening(x) IN
  /\ ~Due /\ x \in tasks /\ thread[x.thread] = "up" /\ faults < MaxFaults
  /\ tasks' = tasks \ {x} /\ listen' = listen \ L
  /\ threw' = threw \union {x.work.user} /\ faults' = faults + 1
  /\ Settle(Users(L), "failed", "drop")
  /\ thread' = Leaving(x, Terminated(OwnThreads(Users(L))))
  /\ UNCHANGED <<ready, pool, created, sent, input, cursor, slots, got, died>>

\* Mutant: a thread's end does not reject its ready promise.
RejectedNever(t) == ready

\* The ready promise of a thread that ended first is rejected.
Rejected(t) == IF ready[t] = "wait" THEN [ready EXCEPT ![t] = "no"] ELSE ready

\* onError.
Errored(t) ==
  LET L == Listeners(t) IN
  /\ ~Due /\ thread[t] = "failed" /\ Heard(t)
  /\ listen' = listen \ L /\ ready' = Rejected(t)
  /\ Settle(Users(L), "failed", "drop")
  /\ thread' = [Terminated(OwnThreads(Users(L))) EXCEPT ![t] = "ending"]
  /\ UNCHANGED <<pool, created, sent, tasks, input, cursor, slots, got, marks>>

\* onExit.
Exited(t) ==
  LET L == Listeners(t) IN
  /\ ~Due /\ thread[t] = "ending"
  /\ listen' = listen \ L /\ ready' = Rejected(t)
  /\ tasks' = {x \in tasks : x.thread # t}
  /\ Settle(Users(L), "failed", "drop")
  /\ thread' = [Terminated(OwnThreads(Users(L))) EXCEPT ![t] = "gone"]
  /\ UNCHANGED <<pool, created, sent, input, cursor, slots, got, marks>>

\* The finally block has waited for the exits.
Reaped(r) ==
  /\ pc[r] \in {"reap", "drop"} /\ \A k \in DOMAIN slots[r] : thread[slots[r][k]] = "gone"
  /\ pc' = [pc EXCEPT ![r] = IF pc[r] = "reap" THEN "done" ELSE "failed"]
  /\ UNCHANGED <<pooling, busy, mail, input, cursor, slots, got, marks>>

\* The error event of a thread that nobody listens to ends the server, which is
\* started again.
Crash(t) ==
  /\ ~Due /\ thread[t] = "failed" /\ ~Heard(t)
  /\ thread' = FreshThread /\ ready' = FreshReady /\ pool' = FreshPool
  /\ created' = WarmCount /\ busy' = FALSE
  /\ sent' = 0 /\ tasks' = {} /\ listen' = {}
  /\ pc' = [u \in User |-> IF u = Warm THEN "ready"
                           ELSE IF pc[u] \in Ended \union {"idle"} THEN pc[u] ELSE "lost"]
  /\ slots' = [slots EXCEPT ![Warm] = FreshPool]
  /\ died' = {}
  /\ UNCHANGED <<input, cursor, got, threw, faults>>

-----------------------------------------------------------------------------
Serve(r) == InlineBatch(r) \/ Reaped(r)
Event(t) == Ready(t) \/ Errored(t) \/ Exited(t) \/ Crash(t)

Next ==
  \/ \E r \in Request :
       StartInline(r) \/ StartPooled(r) \/ StartOneShot(r) \/ InlineThrow(r) \/ Serve(r)
  \/ \E u \in User : Post(u) \/ Unready(u)
  \/ \E t \in Thread : Die(t) \/ Event(t)
  \/ \E x \in tasks : Result(x) \/ Thrown(x)

Spec == Init /\ [][Next]_vars

\* The server's loop takes every event in the end, and every thread computes.
Run ==
  \/ \E r \in Request : Serve(r)
  \/ \E u \in User : Post(u) \/ Unready(u)
  \/ \E t \in Thread : Event(t)
  \/ \E x \in tasks : Result(x) \/ Thrown(x)

FairSpec == Spec /\ WF_vars(Run)

-----------------------------------------------------------------------------
TypeOK ==
  /\ thread \in [Thread -> Life] /\ ready \in [Thread -> {"wait", "yes", "no"}]
  /\ pool \in Seq(Thread) /\ created \in 0..MaxThreads /\ busy \in BOOLEAN
  /\ sent \in Nat
  /\ tasks \subseteq [thread : Thread, id : Nat, work : [user : User, part : Nat]]
  /\ listen \subseteq [thread : Thread, id : Nat, work : [user : User, part : Nat]]
  /\ pc \in [User -> PC] /\ DOMAIN input = Request
  /\ \A r \in Request : Len(input[r].batches) \in Nat /\ Len(input[r].parts) \in Nat
  /\ cursor \in [Request -> Nat] /\ slots \in [User -> Seq(Thread)]
  /\ DOMAIN got = Request
  /\ \A r \in Request : DOMAIN got[r] \subseteq Parts(r)
  /\ \A r \in Request : got[r] \in [DOMAIN got[r] -> [user : User, part : Nat]]
  /\ threw \subseteq User /\ died \subseteq Thread /\ faults \in 0..MaxFaults

\* A conversion that was answered has for each of its parts what was computed
\* for that part, although a thread may still compute for a request that has
\* failed, or for the warm-up, and answer late.
AnswersAreOwn ==
  \A r \in Request : pc[r] \in {"reap", "done"} => \A p \in Parts(r) : got[r][p] = Work(r, p)

\* So every block is converted once, whichever way its request goes and however
\* its batches are spread, and the blocks of one semantic group by one thread
\* after the other.
Blocks(w) ==
  UNION {Members(input[w.user].batches[b]) : b \in BatchesOf(w.user, w.part)}
Converted ==
  \A r \in Request : pc[r] = "done" =>
    /\ AnswersAreOwn
    /\ \A i \in DOMAIN input[r].blocks : \E p \in Parts(r) :
         /\ i \in Blocks(got[r][p]) /\ \A q \in Parts(r) \ {p} : i \notin Blocks(got[r][q])
         /\ i > 1 /\ input[r].blocks[i] = input[r].blocks[i - 1] => i - 1 \in Blocks(got[r][p])

\* Whatever the input, the batches hold its blocks in their order and divide no
\* semantic group (chunkBlocksPreservingSemanticGroups), and no thread gets more
\* work than any other and its own smallest batch together
\* (createWeightedWorkerAssignments).  It is looked at where nothing has
\* happened, since it does not depend on the state.
ScheduleSound == Init => \A x \in Sample : Grouped(x) /\ Balanced(x)

\* The pool belongs to one request at a time, and while that one waits nobody
\* terminates or replaces its threads, also when the warm-up fails beside it.
PoolHeld ==
  /\ busy <=> \E r \in Request : pc[r] \in {"ready", "await"}
  /\ \A r \in Request : pc[r] \in {"ready", "await"} =>
       /\ slots[r] = pool
       /\ \A q \in Request \ {r} : pc[q] \notin {"ready", "await"}
       /\ \A t \in Members(pool) : thread[t] = "ending" => t \in died

\* Every thread that lives is in the pool, or works for a request that waits for
\* it and will end it.
NoThreadLeaks ==
  \A t \in Thread : thread[t] \in {"starting", "up"} =>
    t \in Members(pool) \/ \E r \in Request : pc[r] = "own" /\ t \in Members(slots[r])

\* Waits for a thread that was gone before it was asked: the pool keeps a thread
\* that died, and its listeners come too late for its exit.
Stuck(r) == pc[r] = "await" /\ \E l \in listen : l.work.user = r /\ thread[l.thread] = "gone"

\* A conversion fails, or comes to wait for ever, only if one of its own parts
\* threw or one of its threads died, whatever becomes of those before and beside
\* it.
OwnFault(r) == r \in threw \/ Members(slots[r]) \intersect died # {}
OwnFailures ==
  [][\A r \in Request :
       (pc'[r] # pc[r] /\ pc'[r] \in {"drop", "failed"}) \/ Stuck(r)' => OwnFault(r)']_vars

\* Every conversion ends, apart from one that waits for a thread that is gone.
RequestsEnd ==
  \A r \in Request : pc[r] \notin Ended \union {"idle"} ~> pc[r] \in Ended \/ Stuck(r)
=============================================================================
