----------------------------- MODULE MlRuntime -----------------------------
(***************************************************************************)
(* The gate in front of the ML service: every extract call passes the      *)
(* circuit breaker, then waits for one of a few slots, calls the service,  *)
(* reports the outcome to the breaker and gives its slot back.             *)
(*                                                                         *)
(* Source: server/src/ml/phase4Runtime.ts and                              *)
(* server/src/pipeline/circuitBreaker.ts.                                  *)
(*                                                                         *)
(* Granularity.  One action is what runs between two awaits: the admission *)
(* with the first pass of acquire(), a pass after a wake-up, a timer, and  *)
(* the return of the service with its release, the wake-ups and the grants *)
(* that follow.  The service itself answers with any outcome at any time.  *)
(*                                                                         *)
(* Data.  Time is left out: a timer may fire as long as it is set, and the *)
(* reset timeout of an open breaker is a flag.  A call that finds the      *)
(* cached health not callable returns at once and is not modelled.         *)
(***************************************************************************)
EXTENDS Naturals, Sequences, FiniteSets, SequencesExt

CONSTANTS
  Caller,     \* the conversions that call extract, one call at a time
  Primary,    \* those in primary mode; the others are in shadow mode
  MaxActive,  \* ML_MAX_CONCURRENT_REQUESTS
  MaxQueue,   \* ML_MAX_QUEUE_DEPTH
  Threshold,  \* ML_CB_FAILURE_THRESHOLD
  MaxCalls    \* bound on the calls made

ASSUME ConstantsAssumption ==
  /\ IsFiniteSet(Caller) /\ Primary \subseteq Caller
  /\ MaxActive \in Nat \ {0} /\ MaxQueue \in Nat /\ Threshold \in Nat \ {0}
  /\ MaxCalls \in Nat

VARIABLES
  state,     \* of the breaker
  failures,  \* its count, which saturates at Threshold: no one looks beyond
  probing,   \* probeInFlight
  cooled,    \* whether resetTimeoutMs passed since openedAt
  active,    \* activeRequests
  waiters,   \* the queue
  pc,        \* pc[c]: where the call of c stands
  adm,       \* adm[c]: its CircuitAdmission
  calls      \* how many calls were made

breaker == <<state, failures, probing, cooled>>
slots == <<active, waiters>>
vars == <<breaker, slots, pc, adm, calls>>

-----------------------------------------------------------------------------
State == {"closed", "open", "half_open"}
Outcome == {"success", "transient", "other"}

\* "sleep": in waitForCapacity; "retry": its promise is resolved; "refused":
\* acquire() has thrown; "call": in transport.extract.
PC == {"idle", "queued", "sleep", "retry", "refused", "call"}

TypeOK ==
  /\ state \in State /\ failures \in 0..Threshold
  /\ probing \in BOOLEAN /\ cooled \in BOOLEAN
  /\ active \in Nat /\ waiters \in Seq(Caller)
  /\ pc \in [Caller -> PC]
  /\ adm \in [Caller -> {"none", "normal", "probe"}]
  /\ calls \in Nat

Init ==
  /\ state = "closed" /\ failures = 0 /\ probing = FALSE /\ cooled = FALSE
  /\ active = 0 /\ waiters = <<>>
  /\ pc = [c \in Caller |-> "idle"]
  /\ adm = [c \in Caller |-> "none"]
  /\ calls = 0

-----------------------------------------------------------------------------
\* The circuit breaker.

\* getState: an open breaker whose timeout passed turns half open.  extract()
\* calls it on admission and again after every outcome it records.
StateNow == IF state = "open" /\ cooled THEN "half_open" ELSE state

Close == state' = "closed" /\ failures' = 0 /\ cooled' = FALSE
Open == state' = "open" /\ cooled' = FALSE

\* recordSuccess
RecordSuccess(c) ==
  /\ Close
  /\ probing' = (probing /\ adm[c] # "probe")

\* recordFailure
RecordFailure(c) ==
  /\ failures' = IF failures < Threshold THEN failures + 1 ELSE failures
  /\ IF adm[c] = "probe" \/ failures' >= Threshold
     THEN Open /\ probing' = (probing /\ adm[c] # "probe")
     ELSE IF state = "half_open"
     THEN Open /\ probing' = FALSE
     ELSE state' = StateNow /\ UNCHANGED <<cooled, probing>>

\* Mutant: a call without a verdict leaves the breaker alone.
RecordIgnoredProbing(c) == state' = StateNow /\ UNCHANGED <<failures, probing, cooled>>

\* recordIgnored
RecordIgnored(c) ==
  IF adm[c] = "probe"
  THEN Close /\ probing' = FALSE
  ELSE state' = StateNow /\ UNCHANGED <<failures, probing, cooled>>

\* The clock of an open breaker.
Cool ==
  /\ state = "open" /\ ~cooled
  /\ cooled' = TRUE
  /\ UNCHANGED <<state, failures, probing, slots, pc, adm, calls>>

-----------------------------------------------------------------------------
\* The slots.

\* What notifyCapacityChanged does to the callers.
Woken(p) == [c \in Caller |-> IF p[c] = "sleep" THEN "retry" ELSE p[c]]

Smaller(a, b) == IF a < b THEN a ELSE b

\* drainQueue, when a slots are taken, w waits and the callers stand at p: the
\* head of the queue moves into the free slots, and if it does wakes the others.
Drain(a, w, p) ==
  LET n == Smaller(MaxActive - a, Len(w)) IN
  IF a >= MaxActive \/ w = <<>>
  THEN active' = a /\ waiters' = w /\ pc' = p
  ELSE /\ active' = a + n
       /\ waiters' = SubSeq(w, n + 1, Len(w))
       /\ pc' = Woken([c \in Caller |-> IF \E i \in 1..n : w[i] = c THEN "call" ELSE p[c]])

\* One pass of the loop in acquire(): a slot, a place in the queue, a refusal,
\* or waitForCapacity.
Pass(c) ==
  \/ /\ active < MaxActive /\ waiters = <<>>
     /\ active' = active + 1 /\ pc' = [pc EXCEPT ![c] = "call"]
     /\ UNCHANGED waiters
  \/ /\ ~(active < MaxActive /\ waiters = <<>>)
     /\ Len(waiters) < MaxQueue
     /\ Drain(active, Append(waiters, c), [pc EXCEPT ![c] = "queued"])
  \/ /\ ~(active < MaxActive /\ waiters = <<>>)
     /\ Len(waiters) >= MaxQueue
     /\ pc' = [pc EXCEPT ![c] = IF c \notin Primary THEN "refused"
                                ELSE IF active < MaxActive THEN "retry" ELSE "sleep"]
     /\ UNCHANGED slots

-----------------------------------------------------------------------------
\* extract(): tryStartRequest, and the first pass of acquire() if it admits.
Extract(c) ==
  /\ pc[c] = "idle" /\ calls < MaxCalls
  /\ calls' = calls + 1
  /\ state' = StateNow
  /\ \/ /\ StateNow = "closed"
        /\ adm' = [adm EXCEPT ![c] = "normal"]
        /\ Pass(c)
        /\ UNCHANGED probing
     \/ /\ StateNow = "half_open" /\ ~probing
        /\ adm' = [adm EXCEPT ![c] = "probe"]
        /\ probing' = TRUE
        /\ Pass(c)
     \/ /\ \/ StateNow = "open"
           \/ StateNow = "half_open" /\ probing
        /\ UNCHANGED <<probing, slots, pc, adm>>
  /\ UNCHANGED <<failures, cooled>>

Retry(c) ==
  /\ pc[c] = "retry"
  /\ Pass(c)
  /\ UNCHANGED <<breaker, adm, calls>>

\* The timer of waitForCapacity.
SleepTimeout(c) ==
  /\ pc[c] = "sleep"
  /\ pc' = [pc EXCEPT ![c] = "refused"]
  /\ UNCHANGED <<breaker, slots, adm, calls>>

\* Mutant: the waiter that gave up stays in the queue.
QueueTimeoutKept(c) ==
  /\ pc[c] = "queued" /\ c \in Primary
  /\ pc' = Woken([pc EXCEPT ![c] = "refused"])
  /\ UNCHANGED <<breaker, slots, adm, calls>>

\* Mutant: the place that became free is not announced.
QueueTimeoutSilent(c) ==
  /\ pc[c] = "queued" /\ c \in Primary
  /\ \E i \in 1..Len(waiters) : waiters[i] = c /\ waiters' = RemoveAt(waiters, i)
  /\ pc' = [pc EXCEPT ![c] = "refused"]
  /\ UNCHANGED <<breaker, active, adm, calls>>

\* The timer of a primary waiter: it leaves the queue and wakes the sleepers.
QueueTimeout(c) ==
  /\ pc[c] = "queued" /\ c \in Primary
  /\ \E i \in 1..Len(waiters) : waiters[i] = c /\ waiters' = RemoveAt(waiters, i)
  /\ pc' = Woken([pc EXCEPT ![c] = "refused"])
  /\ UNCHANGED <<breaker, active, adm, calls>>

\* Mutant: the slot is released that was never granted.
RefusedReleasing(c) ==
  /\ pc[c] = "refused"
  /\ RecordIgnored(c)
  /\ adm' = [adm EXCEPT ![c] = "none"]
  /\ Drain(IF active > 0 THEN active - 1 ELSE 0, waiters, Woken([pc EXCEPT ![c] = "idle"]))
  /\ UNCHANGED calls

\* The catch around acquire().
Refused(c) ==
  /\ pc[c] = "refused"
  /\ RecordIgnored(c)
  /\ pc' = [pc EXCEPT ![c] = "idle"]
  /\ adm' = [adm EXCEPT ![c] = "none"]
  /\ UNCHANGED <<slots, calls>>

\* Mutant: the release does not move the queue up.
ReturnUndrained(c, outcome) ==
  /\ pc[c] = "call"
  /\ \/ outcome = "success" /\ RecordSuccess(c)
     \/ outcome = "transient" /\ RecordFailure(c)
     \/ outcome = "other" /\ RecordIgnored(c)
  /\ adm' = [adm EXCEPT ![c] = "none"]
  /\ active' = active - 1
  /\ pc' = Woken([pc EXCEPT ![c] = "idle"])
  /\ UNCHANGED <<waiters, calls>>

\* The service answers; in the finally block the slot is released, the
\* sleepers wake and the queue moves up.
Return(c, outcome) ==
  /\ pc[c] = "call"
  /\ \/ outcome = "success" /\ RecordSuccess(c)
     \/ outcome = "transient" /\ RecordFailure(c)
     \/ outcome = "other" /\ RecordIgnored(c)
  /\ adm' = [adm EXCEPT ![c] = "none"]
  /\ Drain(IF active > 0 THEN active - 1 ELSE 0, waiters, Woken([pc EXCEPT ![c] = "idle"]))
  /\ UNCHANGED calls

CallStep(c) ==
  \/ Retry(c) \/ SleepTimeout(c) \/ QueueTimeout(c) \/ Refused(c)
  \/ \E outcome \in Outcome : Return(c, outcome)

Next ==
  \/ \E c \in Caller : Extract(c) \/ CallStep(c)
  \/ Cool

Spec == Init /\ [][Next]_vars

\* Promises that are resolved continue, timers fire, and MLClient bounds every
\* request to the service with a timeout.
FairSpec == Spec /\ \A c \in Caller : WF_vars(CallStep(c))

-----------------------------------------------------------------------------
\* A slot is taken for every call in progress and for no other: a release that
\* is lost or done twice would shrink or widen the gate for good.
SlotsExact ==
  /\ active = Cardinality({c \in Caller : pc[c] = "call"})
  /\ active <= MaxActive

\* The queue holds the waiting callers, each once.
QueueExact ==
  /\ {waiters[i] : i \in 1..Len(waiters)} = {c \in Caller : pc[c] = "queued"}
  /\ Len(waiters) = Cardinality({c \in Caller : pc[c] = "queued"})
  /\ Len(waiters) <= MaxQueue

\* No one waits beside a free slot, and no one sleeps beside a free place in
\* the queue: no wake-up is lost between notifyCapacityChanged and the
\* promises it resolves.
NoIdleSlot ==
  /\ waiters # <<>> => active >= MaxActive
  /\ (\E c \in Caller : pc[c] = "sleep") => active >= MaxActive /\ Len(waiters) >= MaxQueue

\* A half-open breaker that refuses everyone waits for a probe that is under
\* way: otherwise it would stay half open for ever.
ProbeIsAlive == probing => \E c \in Caller : adm[c] = "probe" /\ pc[c] # "idle"

\* A closed breaker has seen fewer failures in a row than its threshold,
\* whatever answers of calls admitted before it opened come in.
ClosedIsBelow == state = "closed" => failures < Threshold

\* Every call ends, however long others hold the slots.
CallsEnd == \A c \in Caller : pc[c] # "idle" ~> pc[c] = "idle"
=============================================================================
