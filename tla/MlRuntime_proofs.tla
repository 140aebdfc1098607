-------------------------- MODULE MlRuntime_proofs --------------------------
(***************************************************************************)
(* Theorems about MlRuntime, for every set of callers, every number of     *)
(* slots and places in the queue and every failure threshold.              *)
(***************************************************************************)
EXTENDS MlRuntime, FiniteSetTheorems, SequenceTheorems, TLAPS

-----------------------------------------------------------------------------
(* The inductive invariant. *)

\* Who is in the queue is queued, once, and who is queued is in the queue.
QueueHolds ==
  /\ \A c \in Caller : pc[c] = "queued" <=> \E i \in 1..Len(waiters) : waiters[i] = c
  /\ \A i, k \in 1..Len(waiters) : waiters[i] = waiters[k] => i = k

\* A caller has an admission exactly while its call is under way.
Admitted == \A c \in Caller : pc[c] = "idle" <=> adm[c] = "none"

\* What is said of the slots: active, waiters and pc.
SlotInv ==
  /\ active \in Nat /\ waiters \in Seq(Caller) /\ pc \in [Caller -> PC]
  /\ QueueHolds
  /\ SlotsExact
  /\ NoIdleSlot

\* What is said of the breaker: of pc it needs who is idle, and no more.
BreakerInv ==
  /\ state \in State /\ failures \in 0..Threshold
  /\ probing \in BOOLEAN /\ cooled \in BOOLEAN
  /\ adm \in [Caller -> {"none", "normal", "probe"}] /\ calls \in Nat
  /\ Admitted
  /\ ProbeIsAlive
  /\ ClosedIsBelow

IInv == SlotInv /\ BreakerInv

Calling == {c \in Caller : pc[c] = "call"}

-----------------------------------------------------------------------------
(* The queue. *)

\* A queue of one caller at most is drained: the free slot goes to its head.
LEMMA DrainHead ==
  ASSUME NEW w \in Seq(Caller), NEW p, w # <<>>, Drain(MaxActive - 1, w, p)
  PROVE  /\ active' = MaxActive
         /\ waiters' = SubSeq(w, 2, Len(w))
         /\ pc' = Woken([c \in Caller |-> IF c = w[1] THEN "call" ELSE p[c]])
<1>1. Len(w) \in Nat \ {0} /\ MaxActive \in Nat \ {0}
  BY ConstantsAssumption
<1>2. Smaller(MaxActive - (MaxActive - 1), Len(w)) = 1
  BY <1>1 DEF Smaller
<1>3. ~(MaxActive - 1 >= MaxActive) /\ (MaxActive - 1) + 1 = MaxActive
  BY <1>1
<1>4. /\ active' = (MaxActive - 1) + 1
      /\ waiters' = SubSeq(w, 1 + 1, Len(w))
      /\ pc' = Woken([c \in Caller |-> IF \E i \in 1..1 : w[i] = c THEN "call" ELSE p[c]])
  BY <1>2, <1>3 DEF Drain
<1>5. \A c \in Caller : (\E i \in 1..1 : w[i] = c) <=> c = w[1]
  OBVIOUS
<1>6. QED BY <1>3, <1>4, <1>5

\* What taking an element out of a queue without duplicates leaves.
LEMMA Removed ==
  ASSUME NEW w \in Seq(Caller), NEW i \in 1..Len(w),
         \A j, k \in 1..Len(w) : w[j] = w[k] => j = k
  PROVE  /\ RemoveAt(w, i) \in Seq(Caller)
         /\ Len(RemoveAt(w, i)) = Len(w) - 1
         /\ \A c \in Caller : (\E k \in 1..Len(w) - 1 : RemoveAt(w, i)[k] = c)
                                <=> c # w[i] /\ \E k \in 1..Len(w) : w[k] = c
         /\ \A j, k \in 1..Len(w) - 1 : RemoveAt(w, i)[j] = RemoveAt(w, i)[k] => j = k
<1> DEFINE r == RemoveAt(w, i)
<1> DEFINE before == SubSeq(w, 1, i - 1)
           after == SubSeq(w, i + 1, Len(w))
<1>a. Len(w) \in Nat /\ i \in Nat
  OBVIOUS
<1>b. before \in Seq(Caller) /\ Len(before) = i - 1
      /\ \A k \in 1..i - 1 : before[k] = w[k]
  BY <1>a
<1>c. after \in Seq(Caller) /\ Len(after) = Len(w) - i
      /\ \A k \in 1..Len(w) - i : after[k] = w[i + k]
  BY <1>a
<1>d. r = before \o after
  BY DEF RemoveAt
<1> HIDE DEF r, before, after
<1>e. \A k \in 1..Len(before) + Len(after) :
        r[k] = IF k <= Len(before) THEN before[k] ELSE after[k - Len(before)]
  BY <1>b, <1>c, <1>d, ConcatProperties
<1>1. r \in Seq(Caller) /\ Len(r) = Len(w) - 1
  BY <1>a, <1>b, <1>c, <1>d
<1>2. ASSUME NEW k \in 1..Len(w) - 1
      PROVE  r[k] = IF k < i THEN w[k] ELSE w[k + 1]
  <2>1. CASE k < i
    <3>1. k \in 1..i - 1 /\ k <= i - 1
      BY <1>a, <2>1
    <3>2. k \in 1..Len(before) + Len(after) /\ k <= Len(before)
      BY <1>a, <1>b, <1>c, <3>1
    <3>4. r[k] = before[k]
      BY <1>e, <3>2
    <3>3. QED BY <1>b, <2>1, <3>1, <3>4
  <2>2. CASE ~(k < i)
    <3>1. k - (i - 1) \in 1..Len(w) - i /\ i + (k - (i - 1)) = k + 1 /\ ~(k <= i - 1)
      BY <1>a, <2>2
    <3>4. k \in 1..Len(before) + Len(after) /\ ~(k <= Len(before)) /\ Len(before) = i - 1
      BY <1>a, <1>b, <1>c, <3>1
    <3>2. r[k] = after[k - (i - 1)]
      BY <1>e, <3>4
    <3>3. QED BY <1>c, <2>2, <3>1, <3>2
  <2>3. QED BY <2>1, <2>2
<1>3. ASSUME NEW c \in Caller, NEW k \in 1..Len(w) - 1, r[k] = c
      PROVE  c # w[i] /\ \E j \in 1..Len(w) : w[j] = c
  BY <1>2, <1>3
<1>4. ASSUME NEW c \in Caller, c # w[i], NEW k \in 1..Len(w), w[k] = c
      PROVE  \E j \in 1..Len(w) - 1 : r[j] = c
  <2>1. CASE k < i
    BY <1>2, <1>4, <2>1
  <2>2. CASE k > i
    <3>1. k - 1 \in 1..Len(w) - 1 /\ ~(k - 1 < i) /\ (k - 1) + 1 = k
      BY <2>2
    <3>2. QED BY <1>2, <1>4, <3>1
  <2>3. QED BY <1>4, <2>1, <2>2
<1>5. ASSUME NEW j \in 1..Len(w) - 1, NEW k \in 1..Len(w) - 1, r[j] = r[k]
      PROVE  j = k
  BY <1>2, <1>5
<1>6. QED BY <1>1, <1>3, <1>4, <1>5 DEF r

\* The set of callers that hold a slot grows or shrinks by one.
LEMMA CallingFinite == IsFiniteSet(Calling) /\ Cardinality(Calling) \in Nat
<1>1. IsFiniteSet(Calling)
  BY FS_Subset, ConstantsAssumption DEF Calling
<1>2. QED BY <1>1, FS_CardinalityType

-----------------------------------------------------------------------------
(* The slots. *)

\* No call but c's begins or ends.
OthersStay(c) == \A d \in Caller \ {c} : pc'[d] = "idle" <=> pc[d] = "idle"

LEMMA PassKeeps ==
  ASSUME SlotInv, NEW c \in Caller, pc[c] \in {"idle", "retry"}, Pass(c)
  PROVE  SlotInv' /\ pc'[c] # "idle" /\ OthersStay(c)
<1> USE DEF SlotInv
<1>0. /\ active \in Nat /\ MaxActive \in Nat /\ MaxQueue \in Nat /\ active <= MaxActive
      /\ Len(waiters) \in Nat /\ (Len(waiters) = 0 <=> waiters = <<>>)
      /\ (waiters # <<>> => active >= MaxActive)
  BY ConstantsAssumption DEF SlotsExact, NoIdleSlot
<1>1. CASE active < MaxActive /\ waiters = <<>>
  <2>1. active' = active + 1 /\ pc' = [pc EXCEPT ![c] = "call"] /\ waiters' = waiters
    BY <1>1 DEF Pass
  <2>2. \A d \in Caller : pc'[d] = IF d = c THEN "call" ELSE pc[d]
    BY <2>1
  <2>3. pc' \in [Caller -> PC]
    BY <2>1 DEF PC
  <2>4. QueueHolds'
    BY <2>1, <2>2, <1>0, <1>1 DEF QueueHolds
  <2>5. Calling' = Calling \cup {c} /\ c \notin Calling
    BY <2>2 DEF Calling
  <2>6. Cardinality(Calling') = Cardinality(Calling) + 1
    BY <2>5, CallingFinite, FS_AddElement
  <2>7. SlotsExact'
    BY <1>0, <1>1, <2>1, <2>6 DEF SlotsExact, Calling
  <2>8. NoIdleSlot'
    BY <1>0, <1>1, <2>1, <2>2 DEF NoIdleSlot
  <2>9. QED BY <1>0, <2>1, <2>2, <2>3, <2>4, <2>7, <2>8 DEF OthersStay
<1>2. CASE active = MaxActive /\ Len(waiters) < MaxQueue
  <2>1. Drain(active, Append(waiters, c), [pc EXCEPT ![c] = "queued"])
    BY <1>0, <1>2 DEF Pass
  <2>2. /\ active' = active /\ waiters' = Append(waiters, c)
        /\ pc' = [pc EXCEPT ![c] = "queued"]
    BY <1>0, <1>2, <2>1 DEF Drain
  <2>3. \A d \in Caller : pc'[d] = IF d = c THEN "queued" ELSE pc[d]
    BY <2>2
  <2>4. pc' \in [Caller -> PC] /\ waiters' \in Seq(Caller)
    BY <2>2 DEF PC
  <2>5. /\ Len(waiters') = Len(waiters) + 1
        /\ waiters'[Len(waiters) + 1] = c
        /\ \A i \in 1..Len(waiters) : waiters'[i] = waiters[i]
    BY <2>2
  <2>6. \A i \in 1..Len(waiters) : waiters[i] # c
    BY DEF QueueHolds
  <2>7. QueueHolds'
    <3>1. ASSUME NEW d \in Caller
          PROVE  pc'[d] = "queued" <=> \E i \in 1..Len(waiters') : waiters'[i] = d
      <4>1. CASE d = c
        BY <1>0, <2>3, <2>5, <4>1
      <4>2. CASE d # c
        <5>1. (\E i \in 1..Len(waiters') : waiters'[i] = d)
                <=> \E i \in 1..Len(waiters) : waiters[i] = d
          BY <1>0, <2>5, <4>2
        <5>2. QED BY <2>3, <4>2, <5>1 DEF QueueHolds
      <4>3. QED BY <4>1, <4>2
    <3>2. ASSUME NEW i \in 1..Len(waiters'), NEW k \in 1..Len(waiters'),
                 waiters'[i] = waiters'[k]
          PROVE  i = k
      BY <1>0, <2>5, <2>6, <3>2 DEF QueueHolds
    <3>3. QED BY <3>1, <3>2 DEF QueueHolds
  <2>8. Calling' = Calling
    BY <2>3 DEF Calling
  <2>9. SlotsExact'
    BY <2>2, <2>8 DEF SlotsExact, Calling
  <2>10. \A d \in Caller : pc[d] # "sleep"
    BY <1>0, <1>2 DEF NoIdleSlot
  <2>11. NoIdleSlot'
    BY <1>0, <1>2, <2>2, <2>3, <2>10 DEF NoIdleSlot
  <2>12. QED BY <1>0, <2>2, <2>3, <2>4, <2>7, <2>9, <2>11 DEF OthersStay
<1>3. CASE active = MaxActive /\ Len(waiters) >= MaxQueue
  <2>1. UNCHANGED slots /\ \E q \in {"refused", "sleep"} : pc' = [pc EXCEPT ![c] = q]
    BY <1>0, <1>3 DEF Pass
  <2>2. PICK q \in {"refused", "sleep"} : pc' = [pc EXCEPT ![c] = q]
    BY <2>1
  <2>3. \A d \in Caller : pc'[d] = IF d = c THEN q ELSE pc[d]
    BY <2>2
  <2>4. active' = active /\ waiters' = waiters
    BY <2>1 DEF slots
  <2>5. pc' \in [Caller -> PC]
    BY <2>2 DEF PC
  <2>6. QueueHolds'
    BY <2>3, <2>4 DEF QueueHolds
  <2>7. Calling' = Calling
    BY <2>3 DEF Calling
  <2>8. SlotsExact'
    BY <2>4, <2>7 DEF SlotsExact, Calling
  <2>9. NoIdleSlot'
    BY <1>0, <1>3, <2>4 DEF NoIdleSlot
  <2>10. QED BY <2>3, <2>4, <2>5, <2>6, <2>8, <2>9 DEF OthersStay
<1>4. QED BY <1>0, <1>1, <1>2, <1>3

\* Giving a slot back: the head of the queue has it at once.
LEMMA ReleaseKeeps ==
  ASSUME SlotInv, NEW c \in Caller, pc[c] = "call",
         Drain(IF active > 0 THEN active - 1 ELSE 0, waiters, Woken([pc EXCEPT ![c] = "idle"]))
  PROVE  SlotInv' /\ pc'[c] = "idle" /\ OthersStay(c)
<1> USE DEF SlotInv
<1> DEFINE p == Woken([pc EXCEPT ![c] = "idle"])
<1>0. /\ active \in Nat /\ MaxActive \in Nat /\ active <= MaxActive
      /\ Len(waiters) \in Nat /\ (Len(waiters) = 0 <=> waiters = <<>>)
      /\ (waiters # <<>> => active = MaxActive)
  BY ConstantsAssumption DEF SlotsExact, NoIdleSlot
<1>1. Cardinality(Calling \ {c}) = Cardinality(Calling) - 1 /\ IsFiniteSet(Calling \ {c})
      /\ c \in Calling
  BY CallingFinite, FS_RemoveElement DEF Calling
<1>2. active = Cardinality(Calling) /\ active # 0
  <2>1. active = Cardinality(Calling)
    BY DEF SlotsExact, Calling
  <2>2. Cardinality(Calling \ {c}) \in Nat
    BY <1>1, FS_CardinalityType
  <2>3. QED BY <1>0, <1>1, <2>1, <2>2
<1>3. Drain(active - 1, waiters, p) /\ active - 1 \in Nat
  BY <1>0, <1>2
<1>4. \A d \in Caller : p[d] = IF d = c THEN "idle" ELSE IF pc[d] = "sleep" THEN "retry" ELSE pc[d]
  BY DEF Woken
<1>5. p \in [Caller -> PC]
  BY <1>4 DEF PC, Woken
<1> HIDE DEF p
<1>6. CASE waiters = <<>>
  <2>1. active' = active - 1 /\ waiters' = waiters /\ pc' = p
    BY <1>3, <1>6 DEF Drain
  <2>2. QueueHolds'
    BY <1>4, <1>6, <2>1 DEF QueueHolds
  <2>3. Calling' = Calling \ {c}
    BY <1>4, <2>1 DEF Calling
  <2>7. Cardinality(Calling') = Cardinality(Calling) - 1
    BY <1>1, <2>3
  <2>8. active' = Cardinality(Calling') /\ active' <= MaxActive
    BY <1>0, <1>2, <2>1, <2>7
  <2>4. SlotsExact'
    BY <2>8 DEF SlotsExact, Calling
  <2>5. NoIdleSlot'
    BY <1>4, <1>6, <2>1 DEF NoIdleSlot
  <2>6. QED BY <1>3, <1>4, <1>5, <2>1, <2>2, <2>4, <2>5 DEF OthersStay
<1>7. CASE waiters # <<>>
  <2> DEFINE h == waiters[1]
  <2>1. active = MaxActive /\ 1 \in 1..Len(waiters) /\ h \in Caller
    BY <1>0, <1>7
  <2>2. pc[h] = "queued" /\ h # c
    BY <2>1 DEF QueueHolds
  <2>3. /\ active' = active /\ waiters' = SubSeq(waiters, 2, Len(waiters))
        /\ pc' = Woken([d \in Caller |-> IF d = h THEN "call" ELSE p[d]])
    BY <1>3, <1>7, <2>1, DrainHead
  <2> HIDE DEF h
  <2>4. \A d \in Caller : pc'[d] = IF d = h THEN "call" ELSE p[d]
    BY <1>4, <2>3 DEF Woken
  <2>5. pc' \in [Caller -> PC]
    BY <1>5, <2>3, <2>4 DEF PC, Woken
  <2>6. /\ waiters' \in Seq(Caller) /\ Len(waiters') = Len(waiters) - 1
        /\ \A i \in 1..Len(waiters) - 1 : waiters'[i] = waiters[i + 1]
    <3>1. Len(waiters) \in Int /\ 2 \in Int /\ \A i \in 2..Len(waiters) : waiters[i] \in Caller
      BY <1>0
    <3>2. /\ waiters' \in Seq(Caller)
          /\ Len(waiters') = IF 2 <= Len(waiters) THEN Len(waiters) - 2 + 1 ELSE 0
          /\ \A i \in 1..Len(waiters) - 2 + 1 : waiters'[i] = waiters[2 + i - 1]
      BY <2>3, <3>1, SubSeqProperties
    <3>3. Len(waiters') = Len(waiters) - 1
      <4>1. Len(waiters) \in Nat \ {0}
        BY <1>0, <1>7
      <4>2. ASSUME NEW n \in Nat \ {0}
            PROVE  (IF 2 <= n THEN n - 2 + 1 ELSE 0) = n - 1
        OBVIOUS
      <4>3. Len(waiters') = IF 2 <= Len(waiters) THEN Len(waiters) - 2 + 1 ELSE 0
        BY ONLY <3>2
      <4>4. (IF 2 <= Len(waiters) THEN Len(waiters) - 2 + 1 ELSE 0) = Len(waiters) - 1
        BY ONLY <4>1, <4>2
      <4>5. QED BY ONLY <4>3, <4>4
    <3>4. ASSUME NEW i \in 1..Len(waiters) - 1 PROVE waiters'[i] = waiters[i + 1]
      <4>1. i \in 1..Len(waiters) - 2 + 1 /\ 2 + i - 1 = i + 1
        BY <1>0
      <4>2. QED BY <3>2, <4>1
    <3>5. QED BY <3>2, <3>3, <3>4
  <2>7. QueueHolds'
    <3>1. ASSUME NEW d \in Caller
          PROVE  pc'[d] = "queued" <=> \E i \in 1..Len(waiters') : waiters'[i] = d
      <4>1. pc'[d] = "queued" <=> d # h /\ pc[d] = "queued"
        BY <1>4, <2>2, <2>4
      <4>2. ASSUME d # h, NEW i \in 1..Len(waiters), waiters[i] = d
            PROVE  \E k \in 1..Len(waiters') : waiters'[k] = d
        <5>1. i # 1
          BY <4>2 DEF h
        <5>2. i - 1 \in 1..Len(waiters) - 1 /\ (i - 1) + 1 = i
          BY <1>0, <5>1
        <5>3. QED BY <2>6, <4>2, <5>2
      <4>3. ASSUME NEW k \in 1..Len(waiters'), waiters'[k] = d
            PROVE  d # h /\ pc[d] = "queued"
        <5>1. k + 1 \in 1..Len(waiters) /\ waiters[k + 1] = d /\ k + 1 # 1
          BY <1>0, <2>6, <4>3
        <5>2. d # h
          BY <2>1, <5>1 DEF QueueHolds, h
        <5>3. QED BY <5>1, <5>2 DEF QueueHolds
      <4>4. QED BY <4>1, <4>2, <4>3 DEF QueueHolds
    <3>2. ASSUME NEW i \in 1..Len(waiters'), NEW k \in 1..Len(waiters'),
                 waiters'[i] = waiters'[k]
          PROVE  i = k
      <4>1. i + 1 \in 1..Len(waiters) /\ k + 1 \in 1..Len(waiters) /\ waiters[i + 1] = waiters[k + 1]
        BY <1>0, <2>6, <3>2
      <4>2. i + 1 = k + 1
        BY <4>1 DEF QueueHolds
      <4>3. QED BY <1>0, <2>6, <4>2
    <3>3. QED BY <3>1, <3>2 DEF QueueHolds
  <2>8. Calling' = (Calling \ {c}) \cup {h} /\ h \notin Calling \ {c}
    BY <1>4, <2>1, <2>2, <2>4 DEF Calling
  <2>9. Cardinality(Calling') = (Cardinality(Calling) - 1) + 1
    BY <1>1, <2>8, FS_AddElement
  <2>10. SlotsExact'
    BY <1>0, <1>2, <2>3, <2>9 DEF SlotsExact, Calling
  <2>11. NoIdleSlot'
    BY <1>4, <2>1, <2>3, <2>4 DEF NoIdleSlot
  <2>12. QED BY <1>0, <1>4, <2>1, <2>2, <2>3, <2>4, <2>5, <2>6, <2>7, <2>10, <2>11 DEF OthersStay
<1>8. QED BY <1>6, <1>7

LEMMA QueueTimeoutKeeps ==
  ASSUME SlotInv, NEW c \in Caller, QueueTimeout(c)
  PROVE  SlotInv' /\ \A d \in Caller : pc'[d] = "idle" <=> pc[d] = "idle"
<1> USE DEF SlotInv
<1>0. active \in Nat /\ Len(waiters) \in Nat
  OBVIOUS
<1>1. PICK i \in 1..Len(waiters) : waiters[i] = c /\ waiters' = RemoveAt(waiters, i)
  BY DEF QueueTimeout
<1>2. active' = active /\ pc[c] = "queued" /\ pc' = Woken([pc EXCEPT ![c] = "refused"])
  BY DEF QueueTimeout
<1>3. \A d \in Caller :
        pc'[d] = IF d = c THEN "refused" ELSE IF pc[d] = "sleep" THEN "retry" ELSE pc[d]
  BY <1>2 DEF Woken
<1>4. pc' \in [Caller -> PC]
  BY <1>2, <1>3 DEF PC, Woken
<1>5. /\ waiters' \in Seq(Caller) /\ Len(waiters') = Len(waiters) - 1
      /\ \A d \in Caller : (\E k \in 1..Len(waiters') : waiters'[k] = d)
                             <=> d # c /\ \E k \in 1..Len(waiters) : waiters[k] = d
      /\ \A j, k \in 1..Len(waiters') : waiters'[j] = waiters'[k] => j = k
  <2>1. \A j, k \in 1..Len(waiters) : waiters[j] = waiters[k] => j = k
    BY DEF QueueHolds
  <2>2. /\ waiters' \in Seq(Caller) /\ Len(waiters') = Len(waiters) - 1
        /\ \A d \in Caller : (\E k \in 1..Len(waiters) - 1 : waiters'[k] = d)
                               <=> d # waiters[i] /\ \E k \in 1..Len(waiters) : waiters[k] = d
        /\ \A j, k \in 1..Len(waiters) - 1 : waiters'[j] = waiters'[k] => j = k
    <3>1. waiters \in Seq(Caller) /\ i \in 1..Len(waiters)
      OBVIOUS
    <3>2. /\ RemoveAt(waiters, i) \in Seq(Caller)
          /\ Len(RemoveAt(waiters, i)) = Len(waiters) - 1
          /\ \A d \in Caller : (\E k \in 1..Len(waiters) - 1 : RemoveAt(waiters, i)[k] = d)
                                 <=> d # waiters[i] /\ \E k \in 1..Len(waiters) : waiters[k] = d
          /\ \A j, k \in 1..Len(waiters) - 1 :
               RemoveAt(waiters, i)[j] = RemoveAt(waiters, i)[k] => j = k
      BY <2>1, <3>1, Removed
    <3>3. QED BY <1>1, <3>2
  <2>3. QED BY <1>1, <2>2
<1>6. QueueHolds'
  BY <1>3, <1>5 DEF QueueHolds
<1>7. Calling' = Calling
  BY <1>2, <1>3 DEF Calling
<1>8. SlotsExact'
  BY <1>2, <1>7 DEF SlotsExact, Calling
<1>9. waiters # <<>>
  BY <1>0, <1>1
<1>10. NoIdleSlot'
  BY <1>2, <1>3, <1>9 DEF NoIdleSlot
<1>11. QED BY <1>2, <1>3, <1>4, <1>5, <1>6, <1>8, <1>10

\* A call that is refused leaves the slots as they are.
LEMMA LeavingKeeps ==
  ASSUME SlotInv, NEW c \in Caller, NEW q \in {"idle", "refused"},
         pc[c] \in {"sleep", "refused"}, pc' = [pc EXCEPT ![c] = q], UNCHANGED slots
  PROVE  SlotInv' /\ pc'[c] = q /\ OthersStay(c)
<1> USE DEF SlotInv
<1>1. active' = active /\ waiters' = waiters
  BY DEF slots
<1>2. \A d \in Caller : pc'[d] = IF d = c THEN q ELSE pc[d]
  OBVIOUS
<1>3. pc' \in [Caller -> PC]
  BY DEF PC
<1>4. QueueHolds'
  BY <1>1, <1>2 DEF QueueHolds
<1>5. Calling' = Calling
  BY <1>2 DEF Calling
<1>6. SlotsExact'
  BY <1>1, <1>5 DEF SlotsExact, Calling
<1>7. NoIdleSlot'
  BY <1>1, <1>2 DEF NoIdleSlot
<1>8. QED BY <1>1, <1>2, <1>3, <1>4, <1>6, <1>7 DEF OthersStay

-----------------------------------------------------------------------------
(* The breaker. *)

\* The end of a call, whatever the breaker makes of it.
LEMMA VerdictKeeps ==
  ASSUME BreakerInv, NEW c \in Caller,
         RecordSuccess(c) \/ RecordFailure(c) \/ RecordIgnored(c),
         adm' = [adm EXCEPT ![c] = "none"], pc'[c] = "idle", OthersStay(c),
         UNCHANGED calls
  PROVE  BreakerInv'
<1> USE DEF BreakerInv
<1>1. Threshold \in Nat \ {0}
  BY ConstantsAssumption
<1>a. ASSUME Close
      PROVE  /\ state' \in State /\ failures' \in 0..Threshold /\ cooled' \in BOOLEAN
             /\ failures' < Threshold
  <2>1. state' = "closed" /\ failures' = 0 /\ cooled' = FALSE
    BY <1>a DEF Close
  <2>2. 0 \in 0..Threshold /\ 0 < Threshold
    BY <1>1
  <2>3. QED BY <2>1, <2>2 DEF State
<1>2. /\ adm' \in [Caller -> {"none", "normal", "probe"}] /\ calls' \in Nat
      /\ \A d \in Caller : adm'[d] = IF d = c THEN "none" ELSE adm[d]
  OBVIOUS
<1>3. Admitted'
  BY <1>2 DEF Admitted, OthersStay
<1>4. StateNow \in State /\ (StateNow = "closed" <=> state = "closed")
  BY DEF StateNow, State
<1>5. /\ state' \in State /\ failures' \in 0..Threshold
      /\ probing' \in BOOLEAN /\ cooled' \in BOOLEAN
      /\ (state' = "closed" => failures' < Threshold)
      /\ (probing' => probing /\ adm[c] # "probe")
  <2>1. CASE RecordSuccess(c)
    <3>1. Close /\ probing' = (probing /\ adm[c] # "probe")
      BY <2>1 DEF RecordSuccess
    <3>2. probing' \in BOOLEAN /\ (probing' => probing /\ adm[c] # "probe")
      BY <3>1
    <3>3. QED BY <1>a, <3>1, <3>2
  <2>2. CASE RecordFailure(c)
    <3>1. failures' \in 0..Threshold
      BY <1>1, <2>2 DEF RecordFailure
    <3>2. CASE adm[c] = "probe" \/ failures' >= Threshold
      BY <2>2, <3>1, <3>2 DEF RecordFailure, Open, State
    <3>3. CASE ~(adm[c] = "probe" \/ failures' >= Threshold) /\ state = "half_open"
      BY <2>2, <3>1, <3>3 DEF RecordFailure, Open, State
    <3>4. CASE ~(adm[c] = "probe" \/ failures' >= Threshold) /\ state # "half_open"
      <4>1. state' = StateNow /\ UNCHANGED <<cooled, probing>>
        BY <2>2, <3>4 DEF RecordFailure
      <4>2. failures' < Threshold
        BY <1>1, <3>1, <3>4
      <4>3. QED BY <1>4, <3>1, <3>4, <4>1, <4>2
    <3>5. QED BY <3>2, <3>3, <3>4
  <2>3. CASE RecordIgnored(c)
    <3>1. CASE adm[c] = "probe"
      <4>1. Close /\ probing' = FALSE
        BY <2>3, <3>1 DEF RecordIgnored
      <4>2. QED BY <1>a, <4>1
    <3>2. CASE adm[c] # "probe"
      <4>1. state' = StateNow /\ UNCHANGED <<failures, probing, cooled>>
        BY <2>3, <3>2 DEF RecordIgnored
      <4>2. QED BY <1>4, <3>2, <4>1 DEF ClosedIsBelow
    <3>3. QED BY <3>1, <3>2
  <2>4. QED BY <2>1, <2>2, <2>3
<1>6. ProbeIsAlive'
  BY <1>2, <1>5 DEF ProbeIsAlive, OthersStay
<1>7. ClosedIsBelow'
  BY <1>5 DEF ClosedIsBelow
<1>8. QED BY <1>2, <1>3, <1>5, <1>6, <1>7

\* The admission of a call, or its refusal by the breaker.
LEMMA ExtractKeeps ==
  ASSUME IInv, NEW c \in Caller, Extract(c)
  PROVE  IInv'
<1>1. SlotInv /\ BreakerInv
  BY DEF IInv
<1>2. /\ pc[c] = "idle" /\ calls' = calls + 1 /\ state' = StateNow
      /\ failures' = failures /\ cooled' = cooled
  BY DEF Extract
<1>3. StateNow \in State /\ (StateNow = "closed" <=> state = "closed")
  BY <1>1 DEF StateNow, State, BreakerInv
<1>4. ASSUME NEW a \in {"normal", "probe"}, adm' = [adm EXCEPT ![c] = a],
             probing' = (probing \/ a = "probe"), Pass(c)
      PROVE  IInv'
  <2>1. SlotInv' /\ pc'[c] # "idle" /\ OthersStay(c)
    BY <1>1, <1>2, <1>4, PassKeeps
  <2>2. /\ adm' \in [Caller -> {"none", "normal", "probe"}]
        /\ \A d \in Caller : adm'[d] = IF d = c THEN a ELSE adm[d]
    BY <1>1, <1>4 DEF BreakerInv
  <2>3. Admitted'
    BY <1>1, <2>1, <2>2 DEF BreakerInv, Admitted, OthersStay
  <2>4. ProbeIsAlive'
    <3>1. CASE a = "probe"
      BY <2>1, <2>2, <3>1 DEF ProbeIsAlive
    <3>2. CASE a # "probe"
      <4>1. ASSUME probing' PROVE \E d \in Caller : adm'[d] = "probe" /\ pc'[d] # "idle"
        <5>1. probing
          BY <1>4, <3>2, <4>1
        <5>2. PICK d \in Caller : adm[d] = "probe" /\ pc[d] # "idle"
          BY <1>1, <5>1 DEF BreakerInv, ProbeIsAlive
        <5>3. d # c
          BY <1>2, <5>2
        <5>4. QED BY <2>1, <2>2, <5>2, <5>3 DEF OthersStay
      <4>2. QED BY <4>1 DEF ProbeIsAlive
    <3>3. QED BY <3>1, <3>2
  <2>5. ClosedIsBelow'
    BY <1>1, <1>2, <1>3 DEF BreakerInv, ClosedIsBelow
  <2>6. probing' \in BOOLEAN
    BY <1>4
  <2>7. QED BY <1>1, <1>2, <1>3, <2>1, <2>2, <2>3, <2>4, <2>5, <2>6 DEF IInv, BreakerInv
<1>5. CASE StateNow = "closed" /\ adm' = [adm EXCEPT ![c] = "normal"] /\ Pass(c) /\ probing' = probing
  BY <1>1, <1>4, <1>5 DEF BreakerInv
<1>6. CASE adm' = [adm EXCEPT ![c] = "probe"] /\ Pass(c) /\ probing' = TRUE
  BY <1>4, <1>6
<1>7. CASE UNCHANGED <<probing, slots, pc, adm>>
  <2>1. SlotInv'
    BY <1>1, <1>7 DEF slots, SlotInv, QueueHolds, SlotsExact, NoIdleSlot
  <2>2. Admitted' /\ ProbeIsAlive'
    BY <1>1, <1>7 DEF BreakerInv, Admitted, ProbeIsAlive
  <2>3. ClosedIsBelow'
    BY <1>1, <1>2, <1>3 DEF BreakerInv, ClosedIsBelow
  <2>4. QED BY <1>1, <1>2, <1>3, <1>7, <2>1, <2>2, <2>3 DEF IInv, BreakerInv
<1>8. QED BY <1>5, <1>6, <1>7 DEF Extract

-----------------------------------------------------------------------------
(* A step that leaves the breaker and the admissions alone. *)
LEMMA SlotStepKeeps ==
  ASSUME IInv, SlotInv', UNCHANGED <<breaker, adm, calls>>,
         \A d \in Caller : pc'[d] = "idle" <=> pc[d] = "idle"
  PROVE  IInv'
<1>1. /\ state' = state /\ failures' = failures /\ probing' = probing /\ cooled' = cooled
      /\ adm' = adm /\ calls' = calls
  BY DEF breaker
<1>2. Admitted' /\ ProbeIsAlive' /\ ClosedIsBelow'
  BY <1>1 DEF IInv, BreakerInv, Admitted, ProbeIsAlive, ClosedIsBelow
<1>3. QED BY <1>1, <1>2 DEF IInv, BreakerInv

LEMMA InvInit == Init => IInv
<1> SUFFICES ASSUME Init PROVE IInv
  OBVIOUS
<1>0. Len(waiters) = 0 /\ waiters = <<>> /\ waiters \in Seq(Caller)
  BY DEF Init
<1>1. TypeOK
  <2>1. state \in State /\ probing \in BOOLEAN /\ cooled \in BOOLEAN
    BY DEF Init, State
  <2>2. failures \in 0..Threshold /\ active \in Nat /\ calls \in Nat
    BY ConstantsAssumption DEF Init
  <2>3. pc \in [Caller -> PC] /\ adm \in [Caller -> {"none", "normal", "probe"}]
    BY DEF Init, PC
  <2>4. QED BY <1>0, <2>1, <2>2, <2>3 DEF TypeOK
<1>4. QueueHolds
  BY <1>0 DEF Init, QueueHolds
<1>5. Admitted
  BY DEF Init, Admitted
<1>6. NoIdleSlot
  BY <1>0 DEF Init, NoIdleSlot
<1>7. ProbeIsAlive /\ ClosedIsBelow
  BY ConstantsAssumption DEF Init, ProbeIsAlive, ClosedIsBelow
<1>2. {c \in Caller : pc[c] = "call"} = {}
  BY DEF Init
<1>3. SlotsExact
  <2>1. Cardinality({c \in Caller : pc[c] = "call"}) = 0
    BY <1>2, FS_EmptySet
  <2>2. active = 0 /\ 0 <= MaxActive
    BY ConstantsAssumption DEF Init
  <2>3. QED BY <2>1, <2>2 DEF SlotsExact
<1>8. QED BY <1>1, <1>3, <1>4, <1>5, <1>6, <1>7 DEF IInv, SlotInv, BreakerInv, TypeOK

LEMMA InvNext == IInv /\ [Next]_vars => IInv'
<1> SUFFICES ASSUME IInv, [Next]_vars PROVE IInv'
  OBVIOUS
<1>0. SlotInv /\ BreakerInv
  BY DEF IInv
<1>1. ASSUME NEW c \in Caller, Extract(c) PROVE IInv'
  BY <1>1, ExtractKeeps
<1>2. ASSUME NEW c \in Caller, Retry(c) PROVE IInv'
  <2>1. pc[c] = "retry" /\ Pass(c) /\ UNCHANGED <<breaker, adm, calls>>
    BY <1>2 DEF Retry
  <2>2. SlotInv' /\ pc'[c] # "idle" /\ OthersStay(c)
    BY <1>0, <2>1, PassKeeps
  <2>3. QED BY <2>1, <2>2, SlotStepKeeps DEF OthersStay
<1>3. ASSUME NEW c \in Caller, SleepTimeout(c) PROVE IInv'
  <2>1. pc[c] = "sleep" /\ pc' = [pc EXCEPT ![c] = "refused"] /\ UNCHANGED slots
        /\ UNCHANGED <<breaker, adm, calls>>
    BY <1>3 DEF SleepTimeout
  <2>2. SlotInv' /\ pc'[c] = "refused" /\ OthersStay(c)
    BY <1>0, <2>1, LeavingKeeps
  <2>3. QED BY <2>1, <2>2, SlotStepKeeps DEF OthersStay
<1>4. ASSUME NEW c \in Caller, QueueTimeout(c) PROVE IInv'
  <2>1. UNCHANGED <<breaker, adm, calls>>
    BY <1>4 DEF QueueTimeout
  <2>2. SlotInv' /\ \A d \in Caller : pc'[d] = "idle" <=> pc[d] = "idle"
    BY <1>0, <1>4, QueueTimeoutKeeps
  <2>3. QED BY <2>1, <2>2, SlotStepKeeps
<1>5. ASSUME NEW c \in Caller, Refused(c) PROVE IInv'
  <2>1. /\ pc[c] = "refused" /\ RecordIgnored(c) /\ pc' = [pc EXCEPT ![c] = "idle"]
        /\ adm' = [adm EXCEPT ![c] = "none"] /\ UNCHANGED slots /\ UNCHANGED calls
    BY <1>5 DEF Refused
  <2>2. SlotInv' /\ pc'[c] = "idle" /\ OthersStay(c)
    BY <1>0, <2>1, LeavingKeeps
  <2>3. BreakerInv'
    BY <1>0, <2>1, <2>2, VerdictKeeps
  <2>4. QED BY <2>2, <2>3 DEF IInv
<1>6. ASSUME NEW c \in Caller, NEW outcome \in Outcome, Return(c, outcome) PROVE IInv'
  <2>1. /\ pc[c] = "call"
        /\ RecordSuccess(c) \/ RecordFailure(c) \/ RecordIgnored(c)
        /\ adm' = [adm EXCEPT ![c] = "none"] /\ UNCHANGED calls
        /\ Drain(IF active > 0 THEN active - 1 ELSE 0, waiters, Woken([pc EXCEPT ![c] = "idle"]))
    BY <1>6 DEF Return
  <2>2. SlotInv' /\ pc'[c] = "idle" /\ OthersStay(c)
    BY <1>0, <2>1, ReleaseKeeps
  <2>3. BreakerInv'
    BY <1>0, <2>1, <2>2, VerdictKeeps
  <2>4. QED BY <2>2, <2>3 DEF IInv
<1>7. CASE Cool
  <2>1. /\ cooled' = TRUE /\ UNCHANGED <<state, failures, probing, adm, calls, pc>>
        /\ active' = active /\ waiters' = waiters
    BY <1>7 DEF Cool, slots
  <2>2. SlotInv'
    BY <1>0, <2>1 DEF SlotInv, QueueHolds, SlotsExact, NoIdleSlot
  <2>3. BreakerInv'
    BY <1>0, <2>1 DEF BreakerInv, Admitted, ProbeIsAlive, ClosedIsBelow
  <2>4. QED BY <2>2, <2>3 DEF IInv
<1>8. CASE UNCHANGED vars
  <2>1. UNCHANGED <<state, failures, probing, cooled, active, waiters, pc, adm, calls>>
    BY <1>8 DEF vars, breaker, slots
  <2>2. SlotInv'
    BY <1>0, <2>1 DEF SlotInv, QueueHolds, SlotsExact, NoIdleSlot
  <2>3. BreakerInv'
    BY <1>0, <2>1 DEF BreakerInv, Admitted, ProbeIsAlive, ClosedIsBelow
  <2>4. QED BY <2>2, <2>3 DEF IInv
<1>9. QED
  BY <1>1, <1>2, <1>3, <1>4, <1>5, <1>6, <1>7, <1>8 DEF Next, CallStep

-----------------------------------------------------------------------------
(* The bound of the queue. *)

QueueBelow == Len(waiters) <= MaxQueue

LEMMA DrainShrinks ==
  ASSUME NEW w \in Seq(Caller), NEW a \in Nat, NEW p, Len(w) <= MaxQueue, Drain(a, w, p)
  PROVE  QueueBelow'
<1>1. Len(w) \in Nat /\ MaxActive \in Nat /\ MaxQueue \in Nat
  BY ConstantsAssumption
<1>2. CASE a >= MaxActive \/ w = <<>>
  BY <1>2 DEF Drain, QueueBelow
<1>3. CASE ~(a >= MaxActive \/ w = <<>>)
  <2> DEFINE n == Smaller(MaxActive - a, Len(w))
  <2>1. n \in Nat
    BY <1>1, <1>3 DEF Smaller
  <2>2. waiters' = SubSeq(w, n + 1, Len(w))
    BY <1>3 DEF Drain
  <2> HIDE DEF n
  <2>3. n + 1 \in Int /\ Len(w) \in Int /\ \A i \in n + 1 .. Len(w) : w[i] \in Caller
    BY <1>1, <2>1
  <2>4. Len(waiters') = IF n + 1 <= Len(w) THEN Len(w) - (n + 1) + 1 ELSE 0
    BY <2>2, <2>3, SubSeqProperties
  <2>5. Len(waiters') <= Len(w)
    BY <1>1, <2>1, <2>4
  <2>6. Len(waiters') \in Nat
    BY <1>1, <2>1, <2>4
  <2>7. QED BY <1>1, <2>5, <2>6 DEF QueueBelow
<1>4. QED BY <1>2, <1>3

LEMMA PassShrinks ==
  ASSUME SlotInv, QueueBelow, NEW c \in Caller, Pass(c)
  PROVE  QueueBelow'
<1>1. active \in Nat /\ waiters \in Seq(Caller) /\ Len(waiters) \in Nat /\ MaxQueue \in Nat
  BY ConstantsAssumption DEF SlotInv
<1>2. CASE UNCHANGED waiters
  BY <1>2 DEF QueueBelow
<1>3. CASE /\ Len(waiters) < MaxQueue
           /\ Drain(active, Append(waiters, c), [pc EXCEPT ![c] = "queued"])
  <2>1. Append(waiters, c) \in Seq(Caller) /\ Len(Append(waiters, c)) = Len(waiters) + 1
    BY <1>1
  <2>2. Len(Append(waiters, c)) <= MaxQueue
    BY <1>1, <1>3, <2>1
  <2>3. QED BY <1>1, <1>3, <2>1, <2>2, DrainShrinks
<1>4. QED BY <1>2, <1>3 DEF Pass, slots

LEMMA QueueStep == IInv /\ QueueBelow /\ [Next]_vars => QueueBelow'
<1> SUFFICES ASSUME IInv, QueueBelow, [Next]_vars PROVE QueueBelow'
  OBVIOUS
<1>1. active \in Nat /\ waiters \in Seq(Caller) /\ Len(waiters) \in Nat /\ SlotInv
      /\ MaxQueue \in Nat
  BY ConstantsAssumption DEF IInv, SlotInv
<1>2. ASSUME UNCHANGED waiters PROVE QueueBelow'
  BY <1>2 DEF QueueBelow
<1>3. ASSUME NEW c \in Caller, QueueTimeout(c) PROVE QueueBelow'
  <2>1. PICK i \in 1..Len(waiters) : waiters' = RemoveAt(waiters, i)
    BY <1>3 DEF QueueTimeout
  <2>2. \A j, k \in 1..Len(waiters) : waiters[j] = waiters[k] => j = k
    BY <1>1 DEF SlotInv, QueueHolds
  <2>3. Len(RemoveAt(waiters, i)) = Len(waiters) - 1
    BY <1>1, <2>2, Removed
  <2>4. QED BY <1>1, <2>1, <2>3 DEF QueueBelow
<1>4. ASSUME NEW c \in Caller, NEW outcome \in Outcome, Return(c, outcome) PROVE QueueBelow'
  <2>1. (IF active > 0 THEN active - 1 ELSE 0) \in Nat
    BY <1>1
  <2>2. Drain(IF active > 0 THEN active - 1 ELSE 0, waiters, Woken([pc EXCEPT ![c] = "idle"]))
    BY <1>4 DEF Return
  <2>3. QED BY <1>1, <2>1, <2>2, DrainShrinks DEF QueueBelow
<1>5. ASSUME NEW c \in Caller, Extract(c) PROVE QueueBelow'
  BY <1>1, <1>2, <1>5, PassShrinks DEF Extract, slots
<1>6. ASSUME NEW c \in Caller, Retry(c) \/ SleepTimeout(c) \/ Refused(c) PROVE QueueBelow'
  BY <1>1, <1>2, <1>6, PassShrinks DEF Retry, SleepTimeout, Refused, slots
<1>7. CASE Cool \/ UNCHANGED vars
  BY <1>2, <1>7 DEF Cool, vars, slots
<1>8. QED BY <1>3, <1>4, <1>5, <1>6, <1>7 DEF Next, CallStep

\* A queue without duplicates is as long as the set of its callers is large.
LEMMA QueueCount ==
  ASSUME SlotInv
  PROVE  /\ {waiters[i] : i \in 1..Len(waiters)} = {c \in Caller : pc[c] = "queued"}
         /\ Len(waiters) = Cardinality({c \in Caller : pc[c] = "queued"})
<1> DEFINE Q == {c \in Caller : pc[c] = "queued"}
           f == [i \in 1..Len(waiters) |-> waiters[i]]
<1>1. waiters \in Seq(Caller) /\ Len(waiters) \in Nat
  BY DEF SlotInv
<1>2. {waiters[i] : i \in 1..Len(waiters)} = Q
  BY <1>1 DEF SlotInv, QueueHolds
<1>3. f \in Bijection(1..Len(waiters), Q)
  BY <1>1, <1>2 DEF SlotInv, QueueHolds, Bijection, Injection, Surjection, IsInjective
<1>4. IsFiniteSet(1..Len(waiters)) /\ Cardinality(1..Len(waiters)) = Len(waiters)
  <2>1. Cardinality(1..Len(waiters)) = IF 1 > Len(waiters) THEN 0 ELSE Len(waiters) - 1 + 1
    BY <1>1, FS_Interval
  <2>2. IsFiniteSet(1..Len(waiters))
    BY <1>1, FS_Interval
  <2>3. QED BY <1>1, <2>1, <2>2
<1>5. Cardinality(Q) = Cardinality(1..Len(waiters))
  BY <1>3, <1>4, FS_Bijection DEF ExistsBijection
<1> QED BY <1>2, <1>4, <1>5

-----------------------------------------------------------------------------
\* IInv holds in every state of every run.
THEOREM Invariance == Spec => []IInv
<1>1. QED BY InvInit, InvNext, PTL DEF Spec

\* Every variable keeps the type it has in phase4Runtime.ts and circuitBreaker.ts.
THEOREM TypeCorrect == Spec => []TypeOK
<1>1. IInv => TypeOK
  BY DEF IInv, SlotInv, BreakerInv, TypeOK
<1>2. QED BY <1>1, Invariance, PTL

\* A slot is taken for every call in progress and for no other, and never more
\* than MaxActive of them, however timers, releases and retries of acquire() meet.
THEOREM SlotsAreExact == Spec => []SlotsExact
<1>1. IInv => SlotsExact
  BY DEF IInv, SlotInv
<1>2. QED BY <1>1, Invariance, PTL

\* No wake-up is lost: no caller waits beside a free slot, none sleeps beside a
\* free place in the queue.
THEOREM NoWakeUpIsLost == Spec => []NoIdleSlot
<1>1. IInv => NoIdleSlot
  BY DEF IInv, SlotInv
<1>2. QED BY <1>1, Invariance, PTL

\* A half-open breaker that refuses everyone has a probe under way.
THEOREM HalfOpenHasAProbe == Spec => []ProbeIsAlive
<1>1. IInv => ProbeIsAlive
  BY DEF IInv, BreakerInv
<1>2. QED BY <1>1, Invariance, PTL

\* A closed breaker is below its threshold, whatever late answers come in.
THEOREM ClosedMeansBelow == Spec => []ClosedIsBelow
<1>1. IInv => ClosedIsBelow
  BY DEF IInv, BreakerInv
<1>2. QED BY <1>1, Invariance, PTL

\* The queue holds the callers that wait, once each, and never more of them than
\* there are places, whatever timers take out of it and releases move up.
THEOREM QueueIsExact == Spec => []QueueExact
<1>1. Init => QueueBelow
  BY ConstantsAssumption DEF Init, QueueBelow
<1>2. IInv /\ QueueBelow => QueueExact
  BY QueueCount DEF IInv, QueueExact, QueueBelow
<1>3. QED BY <1>1, <1>2, Invariance, QueueStep, PTL DEF Spec
=============================================================================
