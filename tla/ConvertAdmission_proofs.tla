----------------------- MODULE ConvertAdmission_proofs -----------------------
(***************************************************************************)
(* Theorems about ConvertAdmission, for every set of identities and of     *)
(* requests, and all limits.                                               *)
(***************************************************************************)
EXTENDS ConvertAdmission, FiniteSetTheorems, TLAPS

-----------------------------------------------------------------------------
(* The inductive invariant. *)

\* A ledger stands at x, the requests in owing may still add to it, w[p] each
\* and never more than limit; n requests can be in flight.  The request that
\* was checked last left room for itself, every other has a limit of its own.
Within(x, owing, w, limit, n) ==
  \/ x + limit * Cardinality(owing) <= limit * n
  \/ \E p \in owing : x + w[p] + limit * (Cardinality(owing) - 1) <= limit * n

\* The requests of u that may still charge the row of day d: those that passed
\* the check, and those that are being checked against the row of an earlier day.
Owing(u, d) ==
  {r \in Sent(u) : \/ pc[r] = "charge" /\ req[r].day = d
                   \/ pc[r] = "quota" /\ req[r].day < d}
ChargeOf(u) == [r \in Request |-> IF pc[r] = "charge" THEN req[r].refs ELSE DailyLimit[u]]

Enriching(u) == {r \in Sent(u) : pc[r] = "enrich"}
RefsOf == [r \in Request |-> req[r].refs]

\* The requests of u whose count left a place for their job.
Queueing(u) == {r \in Sent(u) : pc[r] = "count" /\ "scope" \notin req[r].toCount /\ ~req[r].full}

\* No key is of a day to come, and nothing is charged to one.
DaysPast ==
  /\ \A r \in Request : req[r].day <= today
  /\ \A u \in Identity, d \in Day : d > today => used[u][d] = 0

\* What passed a check fits under its limit alone.
Fits ==
  \A r \in Request : /\ pc[r] = "charge" => req[r].refs <= DailyLimit[By[r]]
                     /\ pc[r] = "enrich" => req[r].refs <= Trial

QuotaInv ==
  \A u \in Identity, d \in Day : Within(used[u][d], Owing(u, d), ChargeOf(u), DailyLimit[u], InFlight(u))

TrialInv ==
  \A u \in Identity : Within(trial[u], Enriching(u), RefsOf, Trial, InFlight(u))

JobsInv ==
  \A u \in Identity \ Admin :
    Sent(u) # {} => jobs[u] + Cardinality(Queueing(u)) <= JobLimit[u] + InFlight(u) - 1

IInv == TypeOK /\ DaysPast /\ Fits /\ QuotaInv /\ TrialInv /\ JobsInv

-----------------------------------------------------------------------------
(* Arithmetic and finite sets. *)

LEMMA Times ==
  ASSUME NEW m \in Nat, NEW a \in Nat, NEW b \in Nat, a <= b
  PROVE  m * a \in Nat /\ m * a <= m * b /\ m * (a + 1) = m * a + m
OBVIOUS

LEMMA SentFinite ==
  ASSUME NEW u \in Identity, NEW S \in SUBSET Sent(u)
  PROVE  /\ IsFiniteSet(S) /\ Cardinality(S) \in Nat
         /\ InFlight(u) \in Nat /\ Cardinality(S) <= InFlight(u)
<1>1. IsFiniteSet(Sent(u))
  BY FS_Subset, ConstantsAssumption DEF Sent
<1>2. QED BY <1>1, FS_Subset, FS_CardinalityType DEF InFlight

-----------------------------------------------------------------------------
(* A ledger that is checked first and charged later. *)

\* A ledger nobody charged.
LEMMA NothingUsed ==
  ASSUME NEW O, NEW w, NEW L \in Nat, NEW n \in Nat, Cardinality(O) \in Nat, Cardinality(O) <= n
  PROVE  Within(0, O, w, L, n)
<1>1. L * Cardinality(O) <= L * n
  BY Times
<1>2. QED BY <1>1, Times DEF Within

\* What the invariant says when it is all charged.
LEMMA WithinBound ==
  ASSUME NEW O, IsFiniteSet(O), NEW w, \A p \in O : w[p] \in Nat,
         NEW L \in Nat, NEW n \in Nat, NEW x \in Nat, Within(x, O, w, L, n)
  PROVE  x <= L * n
<1>1. Cardinality(O) \in Nat /\ (\A p \in O : Cardinality(O) - 1 \in Nat)
  BY FS_CardinalityType, FS_EmptySet
<1>2. L * Cardinality(O) \in Nat /\ L * n \in Nat
  BY <1>1, Times
<1>3. CASE x + L * Cardinality(O) <= L * n
  BY <1>2, <1>3
<1>4. ASSUME NEW p \in O, x + w[p] + L * (Cardinality(O) - 1) <= L * n
      PROVE  x <= L * n
  <2>1. L * (Cardinality(O) - 1) \in Nat
    BY <1>1, Times
  <2>2. QED BY <1>2, <1>4, <2>1
<1>5. QED BY <1>3, <1>4 DEF Within

\* A request passes the check: it is the witness.
LEMMA OneMoreOwes ==
  ASSUME NEW O, NEW r \in O, IsFiniteSet(O), NEW w, w[r] \in Nat,
         NEW L \in Nat, NEW n \in Nat, Cardinality(O) <= n,
         NEW x \in Nat, x + w[r] <= L
  PROVE  Within(x, O, w, L, n)
<1>1. Cardinality(O) \in Nat /\ Cardinality(O) - 1 \in Nat
  BY FS_CardinalityType, FS_EmptySet
<1> DEFINE k == Cardinality(O) - 1
<1>2. k \in Nat /\ k + 1 <= n
  BY <1>1
<1> HIDE DEF k
<1>3. L * (k + 1) <= L * n /\ L * (k + 1) = L * k + L /\ L * k \in Nat /\ L * n \in Nat
  BY <1>2, Times
<1>4. x + w[r] + L * k <= L * n
  BY <1>3
<1>5. QED BY <1>4 DEF Within, k

\* Some requests no longer owe, the others do not owe more than before.
LEMMA FewerOwe ==
  ASSUME NEW O, IsFiniteSet(O), NEW O2 \in SUBSET O, NEW w, NEW w2,
         NEW L \in Nat, NEW n \in Nat, NEW x \in Nat,
         \A p \in O : w[p] \in Nat,
         \A p \in O2 : w2[p] \in Nat /\ w2[p] <= w[p],
         Within(x, O, w, L, n)
  PROVE  Within(x, O2, w2, L, n)
<1>1. /\ IsFiniteSet(O2) /\ Cardinality(O) \in Nat /\ Cardinality(O2) \in Nat
      /\ Cardinality(O2) <= Cardinality(O)
  BY FS_Subset, FS_CardinalityType
<1>2. L * Cardinality(O) \in Nat /\ L * Cardinality(O2) \in Nat /\ L * n \in Nat
      /\ L * Cardinality(O2) <= L * Cardinality(O)
  BY <1>1, Times
<1>3. CASE x + L * Cardinality(O) <= L * n
  BY <1>2, <1>3 DEF Within
<1>4. ASSUME NEW p \in O, x + w[p] + L * (Cardinality(O) - 1) <= L * n
      PROVE  Within(x, O2, w2, L, n)
  <2>1. Cardinality(O) - 1 \in Nat
    BY <1>1, FS_EmptySet
  <2>2. L * (Cardinality(O) - 1) \in Nat
    BY <2>1, Times
  <2>3. CASE p \in O2
    <3>1. Cardinality(O2) - 1 \in Nat
      BY <1>1, <2>3, FS_EmptySet
    <3>2. L * (Cardinality(O2) - 1) \in Nat /\ L * (Cardinality(O2) - 1) <= L * (Cardinality(O) - 1)
      BY <1>1, <2>1, <3>1, Times
    <3>3. x + w2[p] + L * (Cardinality(O2) - 1) <= L * n
      BY <1>2, <1>4, <2>2, <2>3, <3>2
    <3>4. QED BY <2>3, <3>3 DEF Within
  <2>4. CASE p \notin O2
    <3>1. Cardinality(O2) <= Cardinality(O) - 1
      <4>1. O2 \subseteq O \ {p} /\ IsFiniteSet(O \ {p})
            /\ Cardinality(O \ {p}) = Cardinality(O) - 1
        BY <2>4, FS_RemoveElement
      <4>2. QED BY <4>1, FS_Subset
    <3>2. L * Cardinality(O2) <= L * (Cardinality(O) - 1)
      BY <1>1, <2>1, <3>1, Times
    <3>3. x + L * Cardinality(O2) <= L * n
      BY <1>2, <1>4, <2>2, <3>2
    <3>4. QED BY <3>3 DEF Within
  <2>5. QED BY <2>3, <2>4
<1>5. QED BY <1>3, <1>4 DEF Within

\* A request that owes w[r] is charged for it.
LEMMA OnePays ==
  ASSUME NEW O, IsFiniteSet(O), NEW r \in O, NEW w, NEW w2,
         NEW L \in Nat, NEW n \in Nat, NEW x \in Nat,
         \A p \in O : w[p] \in Nat /\ w[p] <= L,
         \A p \in O \ {r} : w2[p] = w[p],
         Within(x, O, w, L, n)
  PROVE  Within(x + w[r], O \ {r}, w2, L, n)
<1> DEFINE k == Cardinality(O) - 1
<1>1. k \in Nat /\ Cardinality(O) = k + 1 /\ Cardinality(O \ {r}) = k
  <2>1. Cardinality(O) \in Nat /\ Cardinality(O) # 0
    BY FS_CardinalityType, FS_EmptySet
  <2>2. Cardinality(O \ {r}) = Cardinality(O) - 1
    BY FS_RemoveElement
  <2>3. QED BY <2>1, <2>2
<1> HIDE DEF k
<1>2. L * (k + 1) = L * k + L /\ L * k \in Nat /\ L * n \in Nat
  BY <1>1, Times
<1>3. CASE x + L * Cardinality(O) <= L * n
  <2>1. x + w[r] + L * Cardinality(O \ {r}) <= L * n
    BY <1>1, <1>2, <1>3
  <2>2. QED BY <2>1 DEF Within
<1>4. ASSUME NEW p \in O, x + w[p] + L * (Cardinality(O) - 1) <= L * n
      PROVE  Within(x + w[r], O \ {r}, w2, L, n)
  <2>1. x + w[p] + L * k <= L * n
    BY <1>1, <1>4
  <2>2. CASE p = r
    <3>1. x + w[r] + L * Cardinality(O \ {r}) <= L * n
      BY <1>1, <2>1, <2>2
    <3>2. QED BY <3>1 DEF Within
  <2>3. CASE p # r
    <3>1. k - 1 \in Nat
      <4>1. p \in O \ {r} /\ IsFiniteSet(O \ {r})
        BY <2>3, FS_RemoveElement
      <4>2. Cardinality(O \ {r}) # 0
        BY <4>1, FS_EmptySet
      <4>3. QED BY <1>1, <4>2
    <3>2. L * ((k - 1) + 1) = L * (k - 1) + L /\ L * (k - 1) \in Nat /\ (k - 1) + 1 = k
      <4>1. (k - 1) + 1 = k
        BY <1>1
      <4>2. L * (k - 1) \in Nat /\ L * ((k - 1) + 1) = L * (k - 1) + L
        BY <3>1, Times
      <4>3. QED BY <4>1, <4>2
    <3>3. (x + w[r]) + w2[p] + L * (Cardinality(O \ {r}) - 1) <= L * n
      BY <1>1, <1>2, <2>1, <2>3, <3>2
    <3>4. QED BY <2>3, <3>3 DEF Within
  <2>4. QED BY <2>2, <2>3
<1>5. QED BY <1>3, <1>4 DEF Within

-----------------------------------------------------------------------------
(* What a step of one request does to each ledger and to the count of jobs. *)

\* A step of r at today, as the other requests and the types see it.
Moves(r) ==
  /\ \A q \in Request \ {r} : pc'[q] = pc[q] /\ req'[q] = req[q]
  /\ pc' \in [Request -> PC] /\ req' \in [Request -> Req]
  /\ req'[r].day <= today
  /\ today' = today

LEMMA ChargeOfType ==
  ASSUME TypeOK, Fits, NEW u \in Identity, NEW d \in Day
  PROVE  \A p \in Owing(u, d) : ChargeOf(u)[p] \in Nat /\ ChargeOf(u)[p] <= DailyLimit[u]
<1> SUFFICES ASSUME NEW p \in Owing(u, d)
             PROVE  ChargeOf(u)[p] \in Nat /\ ChargeOf(u)[p] <= DailyLimit[u]
  OBVIOUS
<1>1. p \in Request /\ By[p] = u /\ DailyLimit[u] \in Nat
  BY ConstantsAssumption DEF Owing, Sent
<1>2. ChargeOf(u)[p] = IF pc[p] = "charge" THEN req[p].refs ELSE DailyLimit[u]
  BY <1>1 DEF ChargeOf
<1>3. req[p].refs \in Nat
  BY <1>1 DEF TypeOK, Req
<1>4. QED BY <1>1, <1>2, <1>3 DEF Fits

LEMMA OwingFinite ==
  ASSUME NEW u \in Identity, NEW d
  PROVE  /\ IsFiniteSet(Owing(u, d)) /\ Cardinality(Owing(u, d)) \in Nat
         /\ Cardinality(Owing(u, d)) <= InFlight(u) /\ InFlight(u) \in Nat
BY SentFinite DEF Owing

\* A row that is not charged by a step after which no more requests owe.
LEMMA RowKeeps ==
  ASSUME IInv, TypeOK', Fits', NEW u \in Identity, NEW d \in Day,
         used'[u][d] = used[u][d], Owing(u, d)' \subseteq Owing(u, d),
         \A p \in Owing(u, d)' : ChargeOf(u)'[p] <= ChargeOf(u)[p]
  PROVE  Within(used'[u][d], Owing(u, d)', ChargeOf(u)', DailyLimit[u], InFlight(u))
<1>1. Within(used[u][d], Owing(u, d), ChargeOf(u), DailyLimit[u], InFlight(u))
  BY DEF IInv, QuotaInv
<1>2. /\ used[u][d] \in Nat /\ DailyLimit[u] \in Nat /\ InFlight(u) \in Nat
      /\ IsFiniteSet(Owing(u, d))
      /\ \A p \in Owing(u, d) : ChargeOf(u)[p] \in Nat
  BY ConstantsAssumption, OwingFinite, ChargeOfType DEF IInv, TypeOK
<1>3. \A p \in Owing(u, d)' : ChargeOf(u)'[p] \in Nat
  <2> SUFFICES ASSUME NEW p \in Owing(u, d)' PROVE ChargeOf(u)'[p] \in Nat
    OBVIOUS
  <2>1. p \in Request
    BY DEF Owing, Sent
  <2>2. ChargeOf(u)'[p] = IF pc'[p] = "charge" THEN req'[p].refs ELSE DailyLimit[u]
    BY <2>1 DEF ChargeOf
  <2>3. req'[p].refs \in Nat
    BY <2>1 DEF TypeOK, Req
  <2>4. QED BY <1>2, <2>2, <2>3
<1>4. QED BY <1>1, <1>2, <1>3, FewerOwe

\* Every step of a request but the check that admits it and the charge.
LEMMA QuotaSame ==
  ASSUME IInv, TypeOK', Fits', NEW r \in Request, Moves(r), used' = used,
         pc'[r] # "charge", pc'[r] = "quota" => req'[r].day = today
  PROVE  QuotaInv'
<1> SUFFICES ASSUME NEW u \in Identity, NEW d \in Day
             PROVE  Within(used'[u][d], Owing(u, d)', ChargeOf(u)', DailyLimit[u], InFlight(u))
  BY DEF QuotaInv, InFlight
<1>1. CASE d > today
  <2>1. used'[u][d] = 0
    BY <1>1 DEF IInv, DaysPast
  <2>2. Cardinality(Owing(u, d)') \in Nat /\ Cardinality(Owing(u, d)') <= InFlight(u)
        /\ InFlight(u) \in Nat /\ DailyLimit[u] \in Nat
    BY SentFinite, ConstantsAssumption DEF Owing
  <2>3. QED BY <2>1, <2>2, NothingUsed
<1>2. CASE ~(d > today)
  <2>1. today \in Nat /\ d \in Nat
    BY DEF IInv, TypeOK, Day
  <2>2. ASSUME NEW q \in Owing(u, d)'
        PROVE  q # r /\ q \in Owing(u, d) /\ ChargeOf(u)'[q] <= ChargeOf(u)[q]
    <3>1. q \in Request /\ q # r
      BY <1>2, <2>1, <2>2 DEF Owing, Sent
    <3>2. pc'[q] = pc[q] /\ req'[q] = req[q]
      BY <3>1 DEF Moves
    <3>3. q \in Owing(u, d)
      BY <2>2, <3>1, <3>2 DEF Owing, Sent
    <3>4. ChargeOf(u)'[q] = ChargeOf(u)[q]
      BY <3>1, <3>2 DEF ChargeOf
    <3>5. ChargeOf(u)[q] \in Nat
      BY <3>3, ChargeOfType DEF IInv
    <3>6. QED BY <3>1, <3>3, <3>4, <3>5
  <2>3. QED BY <2>2, RowKeeps
<1>3. QED BY <1>1, <1>2

\* The check that admits r.
LEMMA QuotaPass ==
  ASSUME IInv, TypeOK', Fits', NEW r \in Request, Moves(r), used' = used,
         pc[r] = "quota", WithinQuota(r),
         pc'[r] = "charge", req'[r] = [req[r] EXCEPT !.day = today]
  PROVE  QuotaInv'
<1> SUFFICES ASSUME NEW u \in Identity, NEW d \in Day
             PROVE  Within(used'[u][d], Owing(u, d)', ChargeOf(u)', DailyLimit[u], InFlight(u))
  BY DEF QuotaInv, InFlight
<1>0. /\ today \in Nat /\ d \in Nat /\ req[r].refs \in Nat /\ req[r].day \in Nat
      /\ req[r].day <= today
      /\ req'[r].refs = req[r].refs /\ req'[r].day = today
      /\ used[u][d] \in Nat /\ DailyLimit[u] \in Nat
  <2>1. req[r] \in Req /\ today \in Day /\ used[u] \in [Day -> Nat]
    BY DEF IInv, TypeOK
  <2>2. req'[r].refs = req[r].refs /\ req'[r].day = today
    BY <2>1 DEF Req
  <2>3. req[r].refs \in Nat /\ req[r].day \in Day
    BY <2>1 DEF Req
  <2>4. req[r].day <= today
    BY DEF IInv, DaysPast
  <2>5. used[u][d] \in Nat /\ DailyLimit[u] \in Nat
    BY <2>1, ConstantsAssumption
  <2>6. today \in Nat /\ d \in Nat /\ req[r].day \in Nat
    BY <2>1, <2>3 DEF Day
  <2>7. QED BY <2>2, <2>3, <2>4, <2>5, <2>6
<1>a. Fits /\ TypeOK
  BY DEF IInv
<1>b. ASSUME NEW q \in Request \ {r}
      PROVE  /\ q \in Owing(u, d)' <=> q \in Owing(u, d)
             /\ ChargeOf(u)'[q] = ChargeOf(u)[q]
  <2>1. pc'[q] = pc[q] /\ req'[q] = req[q]
    BY DEF Moves
  <2>2. QED BY <2>1 DEF Owing, Sent, ChargeOf
<1>c. ChargeOf(u)'[r] = req[r].refs /\ ChargeOf(u)[r] = DailyLimit[u]
  BY <1>0 DEF ChargeOf
<1>1. CASE d > today
  <2>1. used'[u][d] = 0
    BY <1>1 DEF IInv, DaysPast
  <2>2. Cardinality(Owing(u, d)') \in Nat /\ Cardinality(Owing(u, d)') <= InFlight(u)
        /\ InFlight(u) \in Nat /\ DailyLimit[u] \in Nat
    BY SentFinite, ConstantsAssumption DEF Owing
  <2>3. QED BY <2>1, <2>2, NothingUsed
<1>2. CASE d = today /\ By[r] = u /\ req[r].day = today
  <2>1. r \in Owing(u, d)'
    BY <1>0, <1>2 DEF Owing, Sent
  <2>2. /\ IsFiniteSet(Owing(u, d)') /\ Cardinality(Owing(u, d)') <= InFlight(u)
        /\ InFlight(u) \in Nat
    BY SentFinite DEF Owing
  <2>3. used[u][d] + ChargeOf(u)'[r] <= DailyLimit[u]
    BY <1>0, <1>2, <1>c DEF WithinQuota
  <2>4. ChargeOf(u)'[r] \in Nat
    BY <1>0, <1>c
  <2>5. QED BY <1>0, <2>1, <2>2, <2>3, <2>4, OneMoreOwes
<1>3. CASE ~(d > today) /\ ~(d = today /\ By[r] = u /\ req[r].day = today)
  <2>1. ASSUME NEW q \in Owing(u, d)'
        PROVE  q \in Owing(u, d) /\ ChargeOf(u)'[q] <= ChargeOf(u)[q]
    <3>1. q \in Request /\ By[q] = u
      BY DEF Owing, Sent
    <3>2. CASE q # r
      <4>1. q \in Owing(u, d) /\ ChargeOf(u)'[q] = ChargeOf(u)[q]
        BY <1>b, <3>1, <3>2
      <4>2. ChargeOf(u)[q] \in Nat
        BY <1>a, <4>1, ChargeOfType
      <4>3. QED BY <4>1, <4>2
    <3>3. CASE q = r
      <4>1. d = today
        BY <1>0, <3>3 DEF Owing
      <4>2. req[r].day < d
        BY <1>0, <1>3, <3>1, <3>3, <4>1
      <4>3. r \in Owing(u, d)
        BY <3>1, <3>3, <4>2 DEF Owing, Sent
      <4>4. req[r].refs <= DailyLimit[u]
        <5>1. used[u][req[r].day] + req[r].refs <= DailyLimit[u]
          BY <3>1, <3>3 DEF WithinQuota
        <5>2. used[u][req[r].day] \in Nat
          BY <1>a DEF TypeOK, Req
        <5>3. QED BY <1>0, <5>1, <5>2
      <4>5. QED BY <1>c, <3>3, <4>3, <4>4
    <3>4. QED BY <3>2, <3>3
  <2>2. QED BY <2>1, RowKeeps
<1>4. QED BY <1>1, <1>2, <1>3

\* The charge.
LEMMA QuotaPaid ==
  ASSUME IInv, TypeOK', Fits', NEW r \in Request, Moves(r), pc[r] = "charge",
         used' = [used EXCEPT ![By[r]] =
           [used[By[r]] EXCEPT ![req[r].day] = used[By[r]][req[r].day] + req[r].refs]],
         pc'[r] \notin {"charge", "quota"}
  PROVE  QuotaInv'
<1> SUFFICES ASSUME NEW u \in Identity, NEW d \in Day
             PROVE  Within(used'[u][d], Owing(u, d)', ChargeOf(u)', DailyLimit[u], InFlight(u))
  BY DEF QuotaInv, InFlight
<1>a. Fits /\ TypeOK
  BY DEF IInv
<1>b. ASSUME NEW q \in Request \ {r}
      PROVE  /\ q \in Owing(u, d)' <=> q \in Owing(u, d)
             /\ ChargeOf(u)'[q] = ChargeOf(u)[q]
  <2>1. pc'[q] = pc[q] /\ req'[q] = req[q]
    BY DEF Moves
  <2>2. QED BY <2>1 DEF Owing, Sent, ChargeOf
<1>c. r \notin Owing(u, d)'
  BY DEF Owing
<1>d. Owing(u, d)' = Owing(u, d) \ {r}
  BY <1>b, <1>c DEF Owing, Sent
<1>e. /\ \A p \in Owing(u, d) : ChargeOf(u)[p] \in Nat /\ ChargeOf(u)[p] <= DailyLimit[u]
      /\ IsFiniteSet(Owing(u, d)) /\ InFlight(u) \in Nat
      /\ DailyLimit[u] \in Nat /\ used[u][d] \in Nat
  <2>1. \A p \in Owing(u, d) : ChargeOf(u)[p] \in Nat /\ ChargeOf(u)[p] <= DailyLimit[u]
    BY <1>a, ChargeOfType
  <2>2. DailyLimit[u] \in Nat
    BY ConstantsAssumption
  <2>3. used[u][d] \in Nat
    BY <1>a DEF TypeOK
  <2>4. QED BY <2>1, <2>2, <2>3, OwingFinite
<1>f. By[r] \in Identity /\ req[r].day \in Day
  BY <1>a, ConstantsAssumption DEF TypeOK, Req
<1>1. CASE By[r] = u /\ req[r].day = d
  <2>1. r \in Owing(u, d) /\ ChargeOf(u)[r] = req[r].refs
    BY <1>1 DEF Owing, Sent, ChargeOf
  <2>2. used'[u][d] = used[u][d] + ChargeOf(u)[r]
    BY <1>1, <1>a, <2>1 DEF TypeOK
  <2>3. Within(used[u][d], Owing(u, d), ChargeOf(u), DailyLimit[u], InFlight(u))
    BY DEF IInv, QuotaInv
  <2>4. \A p \in Owing(u, d) \ {r} : ChargeOf(u)'[p] = ChargeOf(u)[p]
    BY <1>b DEF Owing, Sent
  <2>5. Within(used[u][d] + ChargeOf(u)[r], Owing(u, d) \ {r}, ChargeOf(u)', DailyLimit[u], InFlight(u))
    BY <1>e, <2>1, <2>3, <2>4, OnePays
  <2>6. QED BY <1>d, <2>2, <2>5
<1>2. CASE ~(By[r] = u /\ req[r].day = d)
  <2>1. used'[u][d] = used[u][d]
    BY <1>2, <1>a, <1>f DEF TypeOK
  <2>2. \A q \in Owing(u, d)' : ChargeOf(u)'[q] <= ChargeOf(u)[q]
    BY <1>b, <1>d, <1>e DEF Owing, Sent
  <2>3. QED BY <1>d, <2>1, <2>2, RowKeeps
<1>3. QED BY <1>1, <1>2

\* The trial, in the steps that neither admit to it nor charge it.
LEMMA TrialSame ==
  ASSUME IInv, TypeOK', NEW r \in Request, Moves(r), trial' = trial, pc'[r] # "enrich"
  PROVE  TrialInv'
<1> SUFFICES ASSUME NEW u \in Identity
             PROVE  Within(trial'[u], Enriching(u)', RefsOf', Trial, InFlight(u))
  BY DEF TrialInv, InFlight
<1>1. /\ Within(trial[u], Enriching(u), RefsOf, Trial, InFlight(u))
      /\ trial[u] \in Nat /\ trial'[u] = trial[u]
  BY DEF IInv, TrialInv, TypeOK
<1>2. ASSUME NEW q \in Enriching(u)' PROVE q \in Enriching(u) /\ RefsOf'[q] = RefsOf[q]
  <2>1. q \in Request \ {r}
    BY DEF Enriching, Sent
  <2>2. pc'[q] = pc[q] /\ req'[q] = req[q]
    BY <2>1 DEF Moves
  <2>3. QED BY <2>1, <2>2 DEF Enriching, Sent, RefsOf
<1>3. \A q \in Request : RefsOf[q] \in Nat
  BY DEF IInv, TypeOK, Req, RefsOf
<1>4. \A q \in Enriching(u) : RefsOf[q] \in Nat
  BY <1>3 DEF Enriching, Sent
<1>5. \A q \in Enriching(u)' : RefsOf'[q] \in Nat /\ RefsOf'[q] <= RefsOf[q]
  BY <1>2, <1>4
<1>6. Enriching(u)' \subseteq Enriching(u)
  BY <1>2
<1>7. IsFiniteSet(Enriching(u)) /\ InFlight(u) \in Nat /\ Trial \in Nat
  BY SentFinite, ConstantsAssumption DEF Enriching
<1>8. QED BY <1>1, <1>4, <1>5, <1>6, <1>7, FewerOwe

\* checkEnrichmentAllowance lets r in.
LEMMA TrialPass ==
  ASSUME IInv, TypeOK', NEW r \in Request, Moves(r), trial' = trial, TrialLeft(r),
         pc'[r] = "enrich", req' = req
  PROVE  TrialInv'
<1> SUFFICES ASSUME NEW u \in Identity
             PROVE  Within(trial'[u], Enriching(u)', RefsOf', Trial, InFlight(u))
  BY DEF TrialInv, InFlight
<1>1. /\ Within(trial[u], Enriching(u), RefsOf, Trial, InFlight(u))
      /\ trial[u] \in Nat /\ trial'[u] = trial[u]
  BY DEF IInv, TrialInv, TypeOK
<1>2. RefsOf' = RefsOf /\ \A q \in Request : RefsOf[q] \in Nat
  BY DEF IInv, TypeOK, Req, RefsOf
<1>3. \A q \in Request \ {r} : q \in Enriching(u)' <=> q \in Enriching(u)
  BY DEF Moves, Enriching, Sent
<1>4. /\ IsFiniteSet(Enriching(u)) /\ IsFiniteSet(Enriching(u)')
      /\ Cardinality(Enriching(u)') <= InFlight(u)
      /\ InFlight(u) \in Nat /\ Trial \in Nat
  BY SentFinite, ConstantsAssumption DEF Enriching
<1>5. CASE By[r] = u
  <2>1. r \in Enriching(u)' /\ RefsOf'[r] \in Nat
    BY <1>2, <1>5 DEF Enriching, Sent
  <2>2. trial'[u] \in Nat /\ trial'[u] + RefsOf'[r] <= Trial
    BY <1>1, <1>2, <1>5 DEF TrialLeft, RefsOf
  <2>3. QED BY <1>4, <2>1, <2>2, OneMoreOwes
<1>6. CASE By[r] # u
  <2>1. Enriching(u)' = Enriching(u)
    BY <1>3, <1>6 DEF Enriching, Sent
  <2>2. QED BY <1>1, <1>2, <2>1
<1>7. QED BY <1>5, <1>6

\* consumeEnrichmentUse.
LEMMA TrialPaid ==
  ASSUME IInv, TypeOK', NEW r \in Request, Moves(r), pc[r] = "enrich",
         trial' = [trial EXCEPT ![By[r]] = trial[By[r]] + req[r].refs], pc'[r] # "enrich"
  PROVE  TrialInv'
<1> SUFFICES ASSUME NEW u \in Identity
             PROVE  Within(trial'[u], Enriching(u)', RefsOf', Trial, InFlight(u))
  BY DEF TrialInv, InFlight
<1>1. Within(trial[u], Enriching(u), RefsOf, Trial, InFlight(u)) /\ trial[u] \in Nat
  BY DEF IInv, TrialInv, TypeOK
<1>2. ASSUME NEW q \in Request \ {r}
      PROVE  (q \in Enriching(u)' <=> q \in Enriching(u)) /\ RefsOf'[q] = RefsOf[q]
  <2>1. pc'[q] = pc[q] /\ req'[q] = req[q]
    BY DEF Moves
  <2>2. QED BY <2>1 DEF Enriching, Sent, RefsOf
<1>3. \A q \in Request : RefsOf[q] \in Nat
  BY DEF IInv, TypeOK, Req, RefsOf
<1>4. Enriching(u)' = Enriching(u) \ {r}
  BY <1>2 DEF Enriching, Sent
<1>5. \A q \in Enriching(u) : RefsOf[q] \in Nat /\ RefsOf[q] <= Trial
  BY <1>3 DEF Enriching, Sent, IInv, Fits, RefsOf
<1>6. /\ IsFiniteSet(Enriching(u)) /\ InFlight(u) \in Nat /\ Trial \in Nat
      /\ \A q \in Enriching(u) \ {r} : RefsOf'[q] = RefsOf[q]
  BY <1>2, SentFinite, ConstantsAssumption DEF Enriching, Sent
<1>7. CASE By[r] = u
  <2>1. r \in Enriching(u) /\ trial'[u] = trial[u] + RefsOf[r]
    BY <1>7 DEF Enriching, Sent, RefsOf, IInv, TypeOK
  <2>2. Within(trial[u] + RefsOf[r], Enriching(u) \ {r}, RefsOf', Trial, InFlight(u))
    BY <1>1, <1>5, <1>6, <2>1, OnePays
  <2>3. QED BY <1>4, <2>1, <2>2
<1>8. CASE By[r] # u
  <2>1. r \notin Enriching(u) /\ trial'[u] = trial[u]
    BY <1>8, ConstantsAssumption DEF Enriching, Sent, IInv, TypeOK
  <2>2. Enriching(u)' = Enriching(u)
    BY <1>4, <2>1
  <2>3. \A q \in Enriching(u) : RefsOf'[q] \in Nat /\ RefsOf'[q] <= RefsOf[q]
    BY <1>5, <1>6, <2>1
  <2>4. QED BY <1>1, <1>5, <1>6, <2>1, <2>2, <2>3, FewerOwe
<1>9. QED BY <1>7, <1>8

-----------------------------------------------------------------------------
\* A job ends, or a request leaves or does not join those that have a place.
LEMMA JobsSame ==
  ASSUME IInv, TypeOK',
         \A u \in Identity \ Admin : jobs'[u] <= jobs[u] /\ Queueing(u)' \subseteq Queueing(u)
  PROVE  JobsInv'
<1> SUFFICES ASSUME NEW u \in Identity \ Admin, Sent(u) # {}
             PROVE  jobs'[u] + Cardinality(Queueing(u)') <= JobLimit[u] + InFlight(u) - 1
  BY DEF JobsInv, InFlight, Sent
<1>1. jobs[u] + Cardinality(Queueing(u)) <= JobLimit[u] + InFlight(u) - 1
  BY DEF IInv, JobsInv
<1>2. /\ IsFiniteSet(Queueing(u)) /\ Cardinality(Queueing(u)) \in Nat
      /\ Cardinality(Queueing(u)') \in Nat /\ InFlight(u) \in Nat /\ JobLimit[u] \in Nat
  BY SentFinite, ConstantsAssumption DEF Queueing
<1>3. Cardinality(Queueing(u)') <= Cardinality(Queueing(u))
  BY <1>2, FS_Subset
<1>4. jobs[u] \in Nat /\ jobs'[u] \in Nat /\ jobs'[u] <= jobs[u]
  BY DEF IInv, TypeOK
<1>5. QED BY <1>1, <1>2, <1>3, <1>4

\* The count of jobs finds room for that of r.
LEMMA JobsPass ==
  ASSUME IInv, TypeOK', NEW r \in Request, Moves(r), jobs' = jobs,
         jobs[By[r]] < JobLimit[By[r]]
  PROVE  JobsInv'
<1> SUFFICES ASSUME NEW u \in Identity \ Admin, Sent(u) # {}
             PROVE  jobs'[u] + Cardinality(Queueing(u)') <= JobLimit[u] + InFlight(u) - 1
  BY DEF JobsInv, InFlight, Sent
<1>1. /\ Cardinality(Queueing(u)') \in Nat /\ Cardinality(Queueing(u)') <= InFlight(u)
      /\ InFlight(u) \in Nat /\ JobLimit[u] \in Nat /\ jobs[u] \in Nat
  BY SentFinite, ConstantsAssumption DEF Queueing, IInv, TypeOK
<1>2. CASE By[r] = u
  BY <1>1, <1>2
<1>3. CASE By[r] # u
  <2>1. Queueing(u)' = Queueing(u)
    BY <1>3 DEF Queueing, Sent, Moves
  <2>2. QED BY <2>1 DEF IInv, JobsInv
<1>4. QED BY <1>2, <1>3

\* The INSERT of the job of r.
LEMMA JobsStored ==
  ASSUME IInv, TypeOK', NEW r \in Request, Moves(r), pc[r] = "count", pc'[r] = "idle",
         req[r].toCount = {}, ~req[r].full,
         jobs' = [jobs EXCEPT ![By[r]] = jobs[By[r]] + 1]
  PROVE  JobsInv'
<1> SUFFICES ASSUME NEW u \in Identity \ Admin, Sent(u) # {}
             PROVE  jobs'[u] + Cardinality(Queueing(u)') <= JobLimit[u] + InFlight(u) - 1
  BY DEF JobsInv, InFlight, Sent
<1>1. jobs[u] + Cardinality(Queueing(u)) <= JobLimit[u] + InFlight(u) - 1
  BY DEF IInv, JobsInv
<1>2. \A q \in Request \ {r} : q \in Queueing(u)' <=> q \in Queueing(u)
  BY DEF Queueing, Sent, Moves
<1>3. Queueing(u)' = Queueing(u) \ {r}
  BY <1>2 DEF Queueing, Sent
<1>4. /\ IsFiniteSet(Queueing(u)) /\ Cardinality(Queueing(u)) \in Nat
      /\ InFlight(u) \in Nat /\ JobLimit[u] \in Nat /\ jobs[u] \in Nat
  BY SentFinite, ConstantsAssumption DEF Queueing, IInv, TypeOK
<1>5. CASE By[r] = u
  <2>1. r \in Queueing(u)
    BY <1>5 DEF Queueing, Sent
  <2>2. Cardinality(Queueing(u)') = Cardinality(Queueing(u)) - 1
    BY <1>3, <1>4, <2>1, FS_RemoveElement
  <2>3. jobs'[u] = jobs[u] + 1
    BY <1>5 DEF IInv, TypeOK
  <2>4. QED BY <1>1, <1>4, <2>2, <2>3
<1>6. CASE By[r] # u
  <2>1. r \notin Queueing(u)
    BY <1>6 DEF Queueing, Sent
  <2>2. Queueing(u)' = Queueing(u) /\ jobs'[u] = jobs[u]
    BY <1>3, <1>6, <2>1, ConstantsAssumption DEF IInv, TypeOK
  <2>3. QED BY <1>1, <2>2
<1>7. QED BY <1>5, <1>6

-----------------------------------------------------------------------------
(* The actions. *)

LEMMA AnswerFacts ==
  ASSUME IInv, NEW r \in Request, Answer(r), today' = today
  PROVE  Moves(r) /\ pc'[r] = "idle"
<1>1. NoReq \in Req /\ NoReq.day <= today
  <2>1. 1 \in Day /\ 1 <= today
    BY ConstantsAssumption DEF Day, IInv, TypeOK
  <2>2. QED BY <2>1 DEF NoReq, Req
<1>2. pc \in [Request -> PC] /\ req \in [Request -> Req] /\ "idle" \in PC
  BY DEF IInv, TypeOK, PC
<1>3. pc' = [pc EXCEPT ![r] = "idle"] /\ req' = [req EXCEPT ![r] = NoReq]
  BY DEF Answer, Goto
<1>4. QED BY <1>1, <1>2, <1>3 DEF Moves

LEMMA AfterFacts ==
  ASSUME IInv, NEW r \in Request, After(r), today' = today
  PROVE  /\ Moves(r) /\ pc'[r] \in {"idle", "count"}
         /\ \A u \in Identity \ Admin : r \notin Queueing(u)'
<1>1. CASE Answer(r)
  BY <1>1, AnswerFacts DEF Queueing
<1>2. CASE Goto(r, "count") /\ req' = [req EXCEPT ![r] = [req[r] EXCEPT !.toCount = CountsOf(r)]]
  <2>1. pc \in [Request -> PC] /\ req \in [Request -> Req] /\ "count" \in PC /\ req[r] \in Req
    BY DEF IInv, TypeOK, PC
  <2>2. pc' = [pc EXCEPT ![r] = "count"]
    BY <1>2 DEF Goto
  <2>3. CountsOf(r) \in SUBSET Kind /\ (By[r] \notin Admin => "scope" \in CountsOf(r))
    BY DEF CountsOf, Kind
  <2>4. /\ [req[r] EXCEPT !.toCount = CountsOf(r)] \in Req
        /\ [req[r] EXCEPT !.toCount = CountsOf(r)].day = req[r].day
        /\ [req[r] EXCEPT !.toCount = CountsOf(r)].toCount = CountsOf(r)
    BY <2>1, <2>3 DEF Req
  <2>5. req[r].day <= today
    BY DEF IInv, DaysPast
  <2>6. req'[r].toCount = CountsOf(r) /\ pc'[r] = "count"
    BY <1>2, <2>1, <2>2, <2>4
  <2>7. Moves(r)
    BY <1>2, <2>1, <2>2, <2>4, <2>5 DEF Moves
  <2>8. QED BY <2>3, <2>6, <2>7 DEF Queueing, Sent
<1>3. QED BY <1>1, <1>2 DEF After

\* r moves, and its refs fit when it is about to charge.
LEMMA FitsKeeps ==
  ASSUME IInv, NEW r \in Request, Moves(r),
         pc'[r] = "charge" => req'[r].refs <= DailyLimit[By[r]],
         pc'[r] = "enrich" => req'[r].refs <= Trial
  PROVE  Fits'
<1>1. ASSUME NEW q \in Request
      PROVE  /\ pc'[q] = "charge" => req'[q].refs <= DailyLimit[By[q]]
             /\ pc'[q] = "enrich" => req'[q].refs <= Trial
  <2>1. CASE q = r
    BY <2>1
  <2>2. CASE q # r
    BY <2>2 DEF Moves, IInv, Fits
  <2>3. QED BY <2>1, <2>2
<1>2. QED BY <1>1 DEF Fits

LEMMA DaysKeep ==
  ASSUME IInv, NEW r \in Request, Moves(r),
         \A u \in Identity, d \in Day : d > today => used'[u][d] = used[u][d]
  PROVE  DaysPast'
<1>1. \A q \in Request : req'[q].day <= today'
  BY DEF Moves, IInv, DaysPast
<1>2. \A u \in Identity, d \in Day : d > today' => used'[u][d] = 0
  BY DEF Moves, IInv, DaysPast
<1>3. QED BY <1>1, <1>2 DEF DaysPast

LEMMA Quiet ==
  ASSUME IInv, NEW r \in Request, Moves(r), UNCHANGED <<used, trial, store>>,
         pc'[r] \notin {"charge", "enrich"},
         pc'[r] = "quota" => req'[r].day = today,
         \A u \in Identity \ Admin : r \in Queueing(u)' => r \in Queueing(u)
  PROVE  IInv'
<1>1. /\ used' = used /\ trial' = trial /\ jobs' = jobs /\ zombies' = zombies
      /\ revived' = revived /\ cancels' = cancels
  BY DEF store
<1>2. TypeOK'
  BY <1>1 DEF IInv, TypeOK, Moves
<1>3. Fits'
  BY FitsKeeps
<1>4. DaysPast'
  BY <1>1, DaysKeep
<1>5. QuotaInv'
  BY <1>1, <1>2, <1>3, QuotaSame
<1>6. TrialInv'
  BY <1>1, <1>2, TrialSame
<1>7. ASSUME NEW u \in Identity \ Admin
      PROVE  jobs'[u] <= jobs[u] /\ Queueing(u)' \subseteq Queueing(u)
  <2>1. jobs[u] \in Nat
    BY DEF IInv, TypeOK
  <2>2. \A q \in Request \ {r} : q \in Queueing(u)' => q \in Queueing(u)
    BY DEF Queueing, Sent, Moves
  <2>3. QED BY <1>1, <2>1, <2>2 DEF Queueing, Sent
<1>8. JobsInv'
  BY <1>2, <1>7, JobsSame
<1>9. QED BY <1>2, <1>3, <1>4, <1>5, <1>6, <1>8 DEF IInv

\* The request goes on to its next query without a change of what it knows.
LEMMA GotoFacts ==
  ASSUME IInv, NEW r \in Request, NEW to \in PC, Goto(r, to), UNCHANGED req, today' = today
  PROVE  Moves(r) /\ pc'[r] = to
BY DEF Goto, Moves, IInv, TypeOK, DaysPast

LEMMA BeginKeeps ==
  ASSUME IInv, NEW r \in Request, NEW n \in 1..MaxRefs, NEW up \in BOOLEAN, Begin(r, n, up)
  PROVE  IInv'
<1> DEFINE new == [NoReq EXCEPT !.refs = n, !.upload = up, !.day = DayKey]
<1>1. /\ pc' = [pc EXCEPT ![r] = "quota"] /\ req' = [req EXCEPT ![r] = new]
      /\ UNCHANGED <<used, trial, store>> /\ today' = today
  BY DEF Begin, Goto
<1>2. new \in Req /\ new.day = today
  <2>1. today \in Day /\ 1 \in Day /\ n \in Nat
    BY ConstantsAssumption DEF IInv, TypeOK, Day
  <2>2. QED BY <2>1 DEF NoReq, Req, DayKey
<1> HIDE DEF new
<1>3. pc \in [Request -> PC] /\ req \in [Request -> Req] /\ "quota" \in PC /\ today \in Nat
  BY DEF IInv, TypeOK, PC, Day
<1>4. Moves(r) /\ pc'[r] = "quota" /\ req'[r].day = today
  BY <1>1, <1>2, <1>3 DEF Moves
<1>5. QED BY <1>1, <1>4, Quiet DEF Queueing

LEMMA BypassKeeps ==
  ASSUME IInv, NEW r \in Request, Bypass(r)
  PROVE  IInv'
<1>1. UNCHANGED <<used, trial, store>> /\ today' = today
  BY DEF Bypass
<1>2. CASE After(r)
  <2>1. Moves(r) /\ pc'[r] \in {"idle", "count"} /\ \A u \in Identity \ Admin : r \notin Queueing(u)'
    BY <1>1, <1>2, AfterFacts
  <2>2. QED BY <1>1, <2>1, Quiet
<1>3. CASE Goto(r, "allow") /\ UNCHANGED req
  <2>1. Moves(r) /\ pc'[r] = "allow"
    BY <1>1, <1>3, GotoFacts DEF PC
  <2>2. QED BY <1>1, <2>1, Quiet DEF Queueing
<1>4. QED BY <1>2, <1>3 DEF Bypass

LEMMA QuotaReadKeeps ==
  ASSUME IInv, NEW r \in Request, QuotaRead(r)
  PROVE  IInv'
<1>1. pc[r] = "quota" /\ UNCHANGED <<used, trial, store>> /\ today' = today
  BY DEF QuotaRead
<1>2. CASE Answer(r)
  <2>1. Moves(r) /\ pc'[r] = "idle"
    BY <1>1, <1>2, AnswerFacts
  <2>2. QED BY <1>1, <2>1, Quiet DEF Queueing
<1>3. CASE WithinQuota(r) /\ Goto(r, "charge") /\ req' = [req EXCEPT ![r] = [req[r] EXCEPT !.day = DayKey]]
  <2> DEFINE new == [req[r] EXCEPT !.day = today]
  <2>1. pc' = [pc EXCEPT ![r] = "charge"] /\ req' = [req EXCEPT ![r] = new]
    BY <1>3 DEF Goto, DayKey
  <2>2. req[r] \in Req /\ today \in Day /\ today \in Nat
    BY DEF IInv, TypeOK, Day
  <2>3. new \in Req /\ new.day = today /\ new.refs = req[r].refs
    BY <2>2 DEF Req
  <2>4. req'[r] = [req[r] EXCEPT !.day = today] /\ req'[r].refs = req[r].refs
    BY <2>1, <2>3 DEF IInv, TypeOK
  <2> HIDE DEF new
  <2>5. pc \in [Request -> PC] /\ req \in [Request -> Req] /\ "charge" \in PC
    BY DEF IInv, TypeOK, PC
  <2>6. Moves(r) /\ pc'[r] = "charge"
    BY <1>1, <2>1, <2>2, <2>3, <2>5 DEF Moves
  <2>7. /\ used' = used /\ trial' = trial /\ jobs' = jobs /\ zombies' = zombies
        /\ revived' = revived /\ cancels' = cancels
    BY <1>1 DEF store
  <2>8. TypeOK'
    BY <2>6, <2>7 DEF IInv, TypeOK, Moves
  <2>9. req[r].refs <= DailyLimit[By[r]]
    <3>1. used[By[r]][req[r].day] \in Nat /\ DailyLimit[By[r]] \in Nat /\ req[r].refs \in Nat
      <4>1. By[r] \in Identity /\ DailyLimit[By[r]] \in Nat
        BY ConstantsAssumption
      <4>2. req[r].day \in Day /\ req[r].refs \in Nat
        BY <2>2 DEF Req
      <4>3. used[By[r]][req[r].day] \in Nat
        BY <4>1, <4>2 DEF IInv, TypeOK
      <4>4. QED BY <4>1, <4>2, <4>3
    <3>2. QED BY <1>3, <3>1 DEF WithinQuota
  <2>10. Fits'
    BY <2>4, <2>6, <2>9, FitsKeeps
  <2>11. DaysPast'
    BY <2>6, <2>7, DaysKeep
  <2>12. QuotaInv'
    BY <1>1, <1>3, <2>4, <2>6, <2>7, <2>8, <2>10, QuotaPass
  <2>13. TrialInv'
    BY <2>6, <2>7, <2>8, TrialSame
  <2>14. ASSUME NEW u \in Identity \ Admin
         PROVE  jobs'[u] <= jobs[u] /\ Queueing(u)' \subseteq Queueing(u)
    <3>1. jobs[u] \in Nat
      BY DEF IInv, TypeOK
    <3>2. QED BY <2>6, <2>7, <3>1 DEF Queueing, Sent, Moves
  <2>15. JobsInv'
    BY <2>8, <2>14, JobsSame
  <2>16. QED BY <2>8, <2>10, <2>11, <2>12, <2>13, <2>15 DEF IInv
<1>4. QED BY <1>2, <1>3 DEF QuotaRead

LEMMA ChargeKeeps ==
  ASSUME IInv, NEW r \in Request, Charge(r)
  PROVE  IInv'
<1> DEFINE total == used[By[r]][req[r].day] + req[r].refs
<1>1. /\ pc[r] = "charge" /\ today' = today /\ trial' = trial /\ jobs' = jobs
      /\ zombies' = zombies /\ revived' = revived /\ cancels' = cancels
      /\ used' = [used EXCEPT ![By[r]] = [used[By[r]] EXCEPT ![req[r].day] = total]]
  BY DEF Charge, store
<1>2. /\ Moves(r) /\ pc'[r] \in {"idle", "count", "allow"}
      /\ \A u \in Identity \ Admin : r \notin Queueing(u)'
  <2>1. CASE After(r)
    BY <1>1, <2>1, AfterFacts
  <2>2. CASE Goto(r, "allow") /\ UNCHANGED req
    <3>1. Moves(r) /\ pc'[r] = "allow"
      BY <1>1, <2>2, GotoFacts DEF PC
    <3>2. QED BY <3>1 DEF Queueing
  <2>3. QED BY <2>1, <2>2 DEF Charge
<1>3. /\ By[r] \in Identity /\ req[r] \in Req /\ req[r].day \in Day /\ req[r].refs \in Nat
      /\ used \in [Identity -> [Day -> Nat]]
  BY ConstantsAssumption DEF IInv, TypeOK, Req
<1>4. total \in Nat
  BY <1>3
<1>5. used' \in [Identity -> [Day -> Nat]]
  <2>1. [used[By[r]] EXCEPT ![req[r].day] = total] \in [Day -> Nat]
    BY <1>3, <1>4
  <2> HIDE DEF total
  <2>2. QED BY <1>1, <1>3, <2>1
<1>6. TypeOK'
  BY <1>1, <1>2, <1>5 DEF IInv, TypeOK, Moves
<1>7. Fits'
  BY <1>2, FitsKeeps
<1>8. ASSUME NEW u \in Identity, NEW d \in Day, d > today
      PROVE  used'[u][d] = used[u][d]
  <2>1. req[r].day # d
    BY <1>8 DEF IInv, DaysPast, TypeOK, Day
  <2> HIDE DEF total
  <2>2. QED BY <1>1, <1>3, <2>1
<1>9. DaysPast'
  BY <1>2, <1>8, DaysKeep
<1>10. QuotaInv'
  BY <1>1, <1>2, <1>6, <1>7, QuotaPaid
<1>11. TrialInv'
  BY <1>1, <1>2, <1>6, TrialSame
<1>12. ASSUME NEW u \in Identity \ Admin
       PROVE  jobs'[u] <= jobs[u] /\ Queueing(u)' \subseteq Queueing(u)
  <2>1. jobs[u] \in Nat
    BY DEF IInv, TypeOK
  <2>2. \A q \in Request \ {r} : q \in Queueing(u)' => q \in Queueing(u)
    BY <1>2 DEF Queueing, Sent, Moves
  <2>3. QED BY <1>1, <1>2, <2>1, <2>2 DEF Queueing, Sent
<1>13. JobsInv'
  BY <1>6, <1>12, JobsSame
<1>14. QED BY <1>6, <1>7, <1>9, <1>10, <1>11, <1>13 DEF IInv

LEMMA AllowKeeps ==
  ASSUME IInv, NEW r \in Request, Allow(r)
  PROVE  IInv'
<1>1. pc[r] = "allow" /\ UNCHANGED <<used, trial, store>> /\ today' = today
  BY DEF Allow
<1>2. CASE After(r)
  <2>1. Moves(r) /\ pc'[r] \in {"idle", "count"} /\ \A u \in Identity \ Admin : r \notin Queueing(u)'
    BY <1>1, <1>2, AfterFacts
  <2>2. QED BY <1>1, <2>1, Quiet
<1>3. CASE TrialLeft(r) /\ Goto(r, "enrich") /\ UNCHANGED req
  <2>1. Moves(r) /\ pc'[r] = "enrich" /\ req' = req
    BY <1>1, <1>3, GotoFacts DEF PC
  <2>2. /\ used' = used /\ trial' = trial /\ jobs' = jobs /\ zombies' = zombies
        /\ revived' = revived /\ cancels' = cancels
    BY <1>1 DEF store
  <2>3. TypeOK'
    BY <2>1, <2>2 DEF IInv, TypeOK, Moves
  <2>4. req'[r].refs <= Trial
    <3>1. trial[By[r]] \in Nat /\ req[r].refs \in Nat /\ Trial \in Nat
      BY ConstantsAssumption DEF IInv, TypeOK, Req
    <3>2. QED BY <1>3, <2>1, <3>1 DEF TrialLeft
  <2>5. Fits'
    BY <2>1, <2>4, FitsKeeps
  <2>6. DaysPast'
    BY <2>1, <2>2, DaysKeep
  <2>7. QuotaInv'
    BY <2>1, <2>2, <2>3, <2>5, QuotaSame
  <2>8. TrialInv'
    BY <1>3, <2>1, <2>2, <2>3, TrialPass
  <2>9. ASSUME NEW u \in Identity \ Admin
        PROVE  jobs'[u] <= jobs[u] /\ Queueing(u)' \subseteq Queueing(u)
    <3>1. jobs[u] \in Nat
      BY DEF IInv, TypeOK
    <3>2. QED BY <2>1, <2>2, <3>1 DEF Queueing, Sent, Moves
  <2>10. JobsInv'
    BY <2>3, <2>9, JobsSame
  <2>11. QED BY <2>3, <2>5, <2>6, <2>7, <2>8, <2>10 DEF IInv
<1>4. QED BY <1>2, <1>3 DEF Allow

LEMMA UseTrialKeeps ==
  ASSUME IInv, NEW r \in Request, UseTrial(r)
  PROVE  IInv'
<1>1. /\ pc[r] = "enrich" /\ After(r) /\ today' = today /\ used' = used /\ jobs' = jobs
      /\ zombies' = zombies /\ revived' = revived /\ cancels' = cancels
      /\ trial' = [trial EXCEPT ![By[r]] = trial[By[r]] + req[r].refs]
  BY DEF UseTrial, store
<1>2. Moves(r) /\ pc'[r] \in {"idle", "count"} /\ \A u \in Identity \ Admin : r \notin Queueing(u)'
  BY <1>1, AfterFacts
<1>3. trial' \in [Identity -> Nat]
  <2>1. By[r] \in Identity /\ trial \in [Identity -> Nat] /\ req[r].refs \in Nat
    BY ConstantsAssumption DEF IInv, TypeOK, Req
  <2>2. trial[By[r]] + req[r].refs \in Nat
    BY <2>1
  <2>3. QED BY <1>1, <2>1, <2>2
<1>4. TypeOK'
  BY <1>1, <1>2, <1>3 DEF IInv, TypeOK, Moves
<1>5. Fits'
  BY <1>2, FitsKeeps
<1>6. DaysPast'
  BY <1>1, <1>2, DaysKeep
<1>7. QuotaInv'
  BY <1>1, <1>2, <1>4, <1>5, QuotaSame
<1>8. TrialInv'
  BY <1>1, <1>2, <1>4, TrialPaid
<1>9. ASSUME NEW u \in Identity \ Admin
      PROVE  jobs'[u] <= jobs[u] /\ Queueing(u)' \subseteq Queueing(u)
  <2>1. jobs[u] \in Nat
    BY DEF IInv, TypeOK
  <2>2. \A q \in Request \ {r} : q \in Queueing(u)' => q \in Queueing(u)
    BY <1>2 DEF Queueing, Sent, Moves
  <2>3. QED BY <1>1, <1>2, <2>1, <2>2 DEF Queueing, Sent
<1>10. JobsInv'
  BY <1>4, <1>9, JobsSame
<1>11. QED BY <1>4, <1>5, <1>6, <1>7, <1>8, <1>10 DEF IInv

LEMMA CountKeeps ==
  ASSUME IInv, NEW r \in Request, NEW k \in Kind, Count(r, k)
  PROVE  IInv'
<1> DEFINE new == [req[r] EXCEPT !.toCount = req[r].toCount \ {k},
                                 !.full = req[r].full \/ AtLimit(r, k)]
<1>1. /\ pc[r] = "count" /\ pc' = pc /\ req' = [req EXCEPT ![r] = new] /\ today' = today
      /\ used' = used /\ trial' = trial /\ jobs' = jobs
      /\ zombies' = zombies /\ revived' = revived /\ cancels' = cancels
  BY DEF Count, store
<1>2. req[r] \in Req /\ req \in [Request -> Req] /\ pc \in [Request -> PC]
  BY DEF IInv, TypeOK
<1>3. req[r].toCount \ {k} \in SUBSET Kind
  BY <1>2 DEF Req
<1>a. (req[r].full \/ AtLimit(r, k)) \in BOOLEAN
  OBVIOUS
<1>4. /\ new \in Req /\ new.day = req[r].day /\ new.toCount = req[r].toCount \ {k}
      /\ new.full = (req[r].full \/ AtLimit(r, k))
  BY <1>2, <1>3, <1>a DEF Req
<1> HIDE DEF new
<1>5. req'[r] = new /\ Moves(r) /\ pc'[r] = "count"
  BY <1>1, <1>2, <1>4 DEF Moves, IInv, DaysPast
<1>6. TypeOK'
  BY <1>1, <1>5 DEF IInv, TypeOK, Moves
<1>7. Fits'
  BY <1>5, FitsKeeps
<1>8. DaysPast'
  BY <1>1, <1>5, DaysKeep
<1>9. QuotaInv'
  BY <1>1, <1>5, <1>6, <1>7, QuotaSame
<1>10. TrialInv'
  BY <1>1, <1>5, <1>6, TrialSame
<1>11. JobsInv'
  <2>1. CASE k = "scope" /\ ~AtLimit(r, k)
    <3>1. ~(Active(By[r]) >= JobLimit[By[r]])
      BY <2>1 DEF AtLimit
    <3>2. jobs[By[r]] \in Nat /\ revived[By[r]] \in Nat /\ JobLimit[By[r]] \in Nat
      BY ConstantsAssumption DEF IInv, TypeOK
    <3>3. jobs[By[r]] < JobLimit[By[r]]
      BY <3>1, <3>2 DEF Active
    <3>4. QED BY <1>1, <1>5, <1>6, <3>3, JobsPass
  <2>2. CASE ~(k = "scope" /\ ~AtLimit(r, k))
    <3>1. ASSUME NEW u \in Identity \ Admin
          PROVE  jobs'[u] <= jobs[u] /\ Queueing(u)' \subseteq Queueing(u)
      <4>1. jobs[u] \in Nat
        BY DEF IInv, TypeOK
      <4>2. \A q \in Request \ {r} : q \in Queueing(u)' => q \in Queueing(u)
        BY <1>5 DEF Queueing, Sent, Moves
      <4>3. r \in Queueing(u)' => r \in Queueing(u)
        BY <1>1, <1>4, <1>5, <2>2 DEF Queueing, Sent
      <4>4. QED BY <1>1, <4>1, <4>2, <4>3 DEF Queueing, Sent
    <3>2. QED BY <1>6, <3>1, JobsSame
  <2>3. QED BY <2>1, <2>2
<1>12. QED BY <1>6, <1>7, <1>8, <1>9, <1>10, <1>11 DEF IInv

LEMMA QueueKeeps ==
  ASSUME IInv, NEW r \in Request, Queue(r)
  PROVE  IInv'
<1>1. /\ pc[r] = "count" /\ req[r].toCount = {} /\ ~req[r].full /\ Answer(r)
      /\ today' = today /\ used' = used /\ trial' = trial
      /\ zombies' = zombies /\ revived' = revived /\ cancels' = cancels
      /\ jobs' = [jobs EXCEPT ![By[r]] = jobs[By[r]] + 1]
  BY DEF Queue
<1>2. Moves(r) /\ pc'[r] = "idle"
  BY <1>1, AnswerFacts
<1>3. jobs' \in [Identity -> Nat]
  <2>1. By[r] \in Identity /\ jobs \in [Identity -> Nat]
    BY ConstantsAssumption DEF IInv, TypeOK
  <2>2. QED BY <1>1, <2>1
<1>4. TypeOK'
  BY <1>1, <1>2, <1>3 DEF IInv, TypeOK, Moves
<1>5. Fits'
  BY <1>2, FitsKeeps
<1>6. DaysPast'
  BY <1>1, <1>2, DaysKeep
<1>7. QuotaInv'
  BY <1>1, <1>2, <1>4, <1>5, QuotaSame
<1>8. TrialInv'
  BY <1>1, <1>2, <1>4, TrialSame
<1>9. JobsInv'
  BY <1>1, <1>2, <1>4, JobsStored
<1>10. QED BY <1>4, <1>5, <1>6, <1>7, <1>8, <1>9 DEF IInv

LEMMA JobStepKeeps ==
  ASSUME IInv, NEW u \in Identity, JobStep(u)
  PROVE  IInv'
<1>1. UNCHANGED <<used, trial, pc, req, today>>
  BY DEF JobStep
<1>2. /\ jobs' \in [Identity -> Nat] /\ zombies' \in [Identity -> Nat]
      /\ revived' \in [Identity -> Nat] /\ cancels' \in Nat
      /\ \A v \in Identity : jobs'[v] <= jobs[v]
  <2>1. /\ jobs \in [Identity -> Nat] /\ zombies \in [Identity -> Nat]
        /\ revived \in [Identity -> Nat] /\ cancels \in Nat
    BY DEF IInv, TypeOK
  <2>2. CASE JobEnds(u)
    BY <2>1, <2>2 DEF JobEnds
  <2>3. CASE Cancel(u)
    BY <2>1, <2>3 DEF Cancel
  <2>4. CASE Revive(u)
    BY <2>1, <2>4 DEF Revive
  <2>5. CASE ZombieEnds(u)
    BY <2>1, <2>5 DEF ZombieEnds
  <2>6. QED BY <2>2, <2>3, <2>4, <2>5 DEF JobStep
<1>3. TypeOK'
  BY <1>1, <1>2 DEF IInv, TypeOK
<1>4. DaysPast' /\ Fits'
  BY <1>1 DEF IInv, DaysPast, Fits
<1>5. QuotaInv' /\ TrialInv'
  BY <1>1 DEF IInv, QuotaInv, TrialInv, Owing, ChargeOf, Enriching, RefsOf
<1>6. JobsInv'
  BY <1>1, <1>2, <1>3, JobsSame DEF Queueing
<1>7. QED BY <1>3, <1>4, <1>5, <1>6 DEF IInv

LEMMA MidnightKeeps == IInv /\ Midnight => IInv'
<1> SUFFICES ASSUME IInv, Midnight PROVE IInv'
  OBVIOUS
<1>1. /\ today < MaxDay /\ today' = today + 1 /\ UNCHANGED <<used, trial, pc, req>>
      /\ jobs' = jobs /\ zombies' = zombies /\ revived' = revived /\ cancels' = cancels
  BY DEF Midnight, store
<1>2. today \in Nat /\ today \in Day /\ MaxDay \in Nat
  BY ConstantsAssumption DEF IInv, TypeOK, Day
<1>3. today' \in Day
  BY <1>1, <1>2 DEF Day
<1>4. TypeOK'
  BY <1>1, <1>3 DEF IInv, TypeOK
<1>5. DaysPast'
  <2>1. \A r \in Request : req'[r].day <= today'
    BY <1>1, <1>2 DEF IInv, DaysPast, TypeOK, Req, Day
  <2>2. \A u \in Identity, d \in Day : d > today' => used'[u][d] = 0
    BY <1>1, <1>2 DEF IInv, DaysPast, Day
  <2>3. QED BY <2>1, <2>2 DEF DaysPast
<1>6. Fits' /\ QuotaInv' /\ TrialInv' /\ JobsInv'
  BY <1>1 DEF IInv, Fits, QuotaInv, TrialInv, JobsInv, Owing, ChargeOf, Enriching, RefsOf, Queueing
<1>7. QED BY <1>4, <1>5, <1>6 DEF IInv

-----------------------------------------------------------------------------
LEMMA InvInit == Init => IInv
<1> SUFFICES ASSUME Init PROVE IInv
  OBVIOUS
<1>1. 1 \in Day
  BY ConstantsAssumption DEF Day
<1>2. NoReq \in Req
  BY <1>1 DEF NoReq, Req
<1>3. TypeOK
  BY <1>1, <1>2 DEF Init, TypeOK, PC
<1>4. DaysPast
  BY DEF Init, DaysPast, NoReq
<1>5. Fits
  BY DEF Init, Fits
<1>6. QuotaInv
  <2> SUFFICES ASSUME NEW u \in Identity, NEW d \in Day
               PROVE  Within(used[u][d], Owing(u, d), ChargeOf(u), DailyLimit[u], InFlight(u))
    BY DEF QuotaInv
  <2>1. used[u][d] = 0 /\ DailyLimit[u] \in Nat
    BY ConstantsAssumption DEF Init
  <2>2. QED BY <2>1, OwingFinite, NothingUsed
<1>7. TrialInv
  <2> SUFFICES ASSUME NEW u \in Identity
               PROVE  Within(trial[u], Enriching(u), RefsOf, Trial, InFlight(u))
    BY DEF TrialInv
  <2>1. trial[u] = 0 /\ Trial \in Nat
    BY ConstantsAssumption DEF Init
  <2>2. QED BY <2>1, SentFinite, NothingUsed DEF Enriching
<1>8. JobsInv
  <2> SUFFICES ASSUME NEW u \in Identity, Sent(u) # {}
               PROVE  jobs[u] + Cardinality(Queueing(u)) <= JobLimit[u] + InFlight(u) - 1
    BY DEF JobsInv
  <2>1. jobs[u] = 0 /\ JobLimit[u] \in Nat \ {0}
    BY ConstantsAssumption DEF Init
  <2>2. Cardinality(Queueing(u)) \in Nat /\ Cardinality(Queueing(u)) <= InFlight(u) /\ InFlight(u) \in Nat
    BY SentFinite DEF Queueing
  <2>3. QED BY <2>1, <2>2
<1>9. QED BY <1>3, <1>4, <1>5, <1>6, <1>7, <1>8 DEF IInv

LEMMA InvNext == IInv /\ [Next]_vars => IInv'
<1> SUFFICES ASSUME IInv, [Next]_vars PROVE IInv'
  OBVIOUS
<1>1. ASSUME NEW r \in Request, RequestStep(r) PROVE IInv'
  <2>1. ASSUME NEW n \in 1..MaxRefs, NEW up \in BOOLEAN, Begin(r, n, up) PROVE IInv'
    BY <2>1, BeginKeeps
  <2>2. ASSUME NEW k \in Kind, Count(r, k) PROVE IInv'
    BY <2>2, CountKeeps
  <2>3. CASE JobsRefused(r) \/ Fail(r)
    <3>1. Answer(r) /\ today' = today /\ UNCHANGED <<used, trial, store>>
      BY <2>3 DEF JobsRefused, Fail
    <3>2. Moves(r) /\ pc'[r] = "idle"
      BY <3>1, AnswerFacts
    <3>3. QED BY <3>1, <3>2, Quiet DEF Queueing
  <2>4. QED
    BY <1>1, <2>1, <2>2, <2>3, BypassKeeps, QuotaReadKeeps, ChargeKeeps, AllowKeeps,
       UseTrialKeeps, QueueKeeps DEF RequestStep
<1>2. ASSUME NEW u \in Identity, JobStep(u) PROVE IInv'
  BY <1>2, JobStepKeeps
<1>3. CASE Midnight
  BY <1>3, MidnightKeeps
<1>4. CASE UNCHANGED vars
  <2>1. UNCHANGED <<used, trial, jobs, zombies, revived, cancels, pc, req, today>>
    BY <1>4 DEF vars, store
  <2>2. QED
    BY <2>1 DEF IInv, TypeOK, DaysPast, Fits, QuotaInv, TrialInv, JobsInv, Owing, ChargeOf,
                Enriching, RefsOf, Queueing
<1>5. QED BY <1>1, <1>2, <1>3, <1>4 DEF Next

-----------------------------------------------------------------------------
(* The ceiling over all organisations. *)

Orgs == {u \in Identity \ Admin : Tier[u] = "b2b"}
JobsOf(S, count) == UNION {{u} \X (1..count[u]) : u \in S}
OrgSent == {r \in Request : By[r] \in Orgs}

\* The requests of organisations whose count left a place under the ceiling.
OrgQueueing == {r \in OrgSent : pc[r] = "count" /\ "global" \notin req[r].toCount /\ ~req[r].full}

CeilingInv ==
  Cardinality(JobsOf(Orgs, jobs)) + Cardinality(OrgQueueing) <= GlobalLimit + Cardinality(OrgSent) - 1

LEMMA JobsOfFinite ==
  ASSUME NEW S \in SUBSET Identity, NEW count \in [Identity -> Nat]
  PROVE  /\ IsFiniteSet(JobsOf(S, count)) /\ Cardinality(JobsOf(S, count)) \in Nat
         /\ \A x : x \in JobsOf(S, count) <=> \E u \in S : \E k \in 1..count[u] : x = <<u, k>>
<1> DEFINE f == [u \in S |-> {u} \X (1..count[u])]
           T == {{u} \X (1..count[u]) : u \in S}
<1>1. IsFiniteSet(S)
  BY FS_Subset, ConstantsAssumption
<1>2. f \in Surjection(S, T)
  BY DEF Surjection
<1>3. IsFiniteSet(T)
  BY <1>1, <1>2, FS_Surjection
<1>4. ASSUME NEW u \in S PROVE IsFiniteSet({u} \X (1..count[u]))
  <2>1. 1 \in Int /\ count[u] \in Int
    OBVIOUS
  <2>2. IsFiniteSet({u}) /\ IsFiniteSet(1..count[u])
    BY <2>1, FS_Singleton, FS_Interval
  <2> QED BY <2>2, FS_Product
<1>5. \A t \in T : IsFiniteSet(t)
  BY <1>4
<1>6. IsFiniteSet(UNION T)
  BY <1>3, <1>5, FS_UNION
<1>7. JobsOf(S, count) = UNION T
  BY DEF JobsOf
<1>8. \A x : x \in UNION T <=> \E u \in S : \E k \in 1..count[u] : x = <<u, k>>
  <2>1. ASSUME NEW x, NEW u \in S, x \in {u} \X (1..count[u])
        PROVE  \E k \in 1..count[u] : x = <<u, k>>
    BY <2>1
  <2>2. ASSUME NEW u \in S, NEW k \in 1..count[u]
        PROVE  <<u, k>> \in UNION T
    <3>1. <<u, k>> \in {u} \X (1..count[u])
      OBVIOUS
    <3> QED BY <3>1
  <2>3. ASSUME NEW x, x \in UNION T
        PROVE  \E u \in S : x \in {u} \X (1..count[u])
    BY <2>3
  <2> QED BY <2>1, <2>2, <2>3
<1> HIDE DEF T
<1> QED BY <1>6, <1>7, <1>8, FS_CardinalityType

LEMMA OrgFinite ==
  ASSUME NEW S \in SUBSET OrgSent
  PROVE  /\ IsFiniteSet(S) /\ Cardinality(S) \in Nat
         /\ Cardinality(OrgSent) \in Nat /\ Cardinality(S) <= Cardinality(OrgSent)
<1>1. IsFiniteSet(OrgSent)
  BY FS_Subset, ConstantsAssumption DEF OrgSent
<1> QED BY <1>1, FS_Subset, FS_CardinalityType

\* A job ends, or a request leaves or does not join those that have a place.
LEMMA CeilingSame ==
  ASSUME TypeOK, TypeOK', CeilingInv, \A u \in Orgs : jobs'[u] <= jobs[u],
         OrgQueueing' \subseteq OrgQueueing
  PROVE  CeilingInv'
<1>1. Orgs \in SUBSET Identity /\ OrgQueueing \in SUBSET OrgSent
  BY DEF Orgs, OrgQueueing
<1>2. jobs \in [Identity -> Nat] /\ jobs' \in [Identity -> Nat]
  BY DEF TypeOK
<1>3. JobsOf(Orgs, jobs') \subseteq JobsOf(Orgs, jobs)
  <2> SUFFICES ASSUME NEW u \in Orgs, NEW k \in 1..jobs'[u]
               PROVE  <<u, k>> \in JobsOf(Orgs, jobs)
    BY <1>1, <1>2, JobsOfFinite
  <2>1. k \in 1..jobs[u]
    BY <1>1, <1>2
  <2> QED BY <1>1, <1>2, <2>1, JobsOfFinite
<1>4. /\ Cardinality(JobsOf(Orgs, jobs)) \in Nat /\ Cardinality(JobsOf(Orgs, jobs')) \in Nat
      /\ Cardinality(JobsOf(Orgs, jobs')) <= Cardinality(JobsOf(Orgs, jobs))
  BY <1>1, <1>2, <1>3, JobsOfFinite, FS_Subset
<1>5. /\ Cardinality(OrgQueueing) \in Nat /\ Cardinality(OrgQueueing') \in Nat
      /\ Cardinality(OrgQueueing') <= Cardinality(OrgQueueing)
  BY <1>1, OrgFinite, FS_Subset
<1>6. GlobalLimit \in Nat /\ Cardinality(OrgSent) \in Nat
  BY <1>1, OrgFinite, ConstantsAssumption
<1>7. Cardinality(JobsOf(Orgs, jobs)) + Cardinality(OrgQueueing) <= GlobalLimit + Cardinality(OrgSent) - 1
  BY DEF CeilingInv
<1>8. Cardinality(JobsOf(Orgs, jobs')) + Cardinality(OrgQueueing') <= GlobalLimit + Cardinality(OrgSent) - 1
  BY <1>4, <1>5, <1>6, <1>7
<1>9. OrgSent' = OrgSent /\ JobsOf(Orgs, jobs)' = JobsOf(Orgs, jobs')
  BY DEF OrgSent, Orgs, JobsOf
<1> QED BY <1>8, <1>9 DEF CeilingInv

\* The count finds the ceiling free: that was all jobs of tier b2b.
LEMMA CeilingPass ==
  ASSUME TypeOK, TypeOK', NEW r \in OrgSent, jobs' = jobs, GlobalActive < GlobalLimit
  PROVE  CeilingInv'
<1> DEFINE active == [u \in Identity |-> Active(u)]
           owners == {v \in Identity : OwnerTier(v) = "b2b"}
<1>1. jobs \in [Identity -> Nat] /\ revived \in [Identity -> Nat] /\ active \in [Identity -> Nat]
  BY DEF TypeOK, Active
<1>2. Orgs \subseteq owners /\ Orgs \in SUBSET Identity /\ owners \in SUBSET Identity
  BY DEF Orgs, OwnerTier
<1>3. GlobalActive = Cardinality(JobsOf(owners, active))
  <2>1. {{u} \X (1..Active(u)) : u \in owners} = {{u} \X (1..active[u]) : u \in owners}
    BY <1>2
  <2> QED BY <2>1 DEF GlobalActive, JobsOf
<1>a. \A u \in Identity : active[u] = jobs[u] + revived[u]
  BY DEF Active
<1> HIDE DEF active, owners
<1>4. JobsOf(Orgs, jobs) \subseteq JobsOf(owners, active)
  <2> SUFFICES ASSUME NEW u \in Orgs, NEW k \in 1..jobs[u]
               PROVE  <<u, k>> \in JobsOf(owners, active)
    BY <1>1, <1>2, JobsOfFinite
  <2>1. k \in 1..active[u] /\ u \in owners
    BY <1>1, <1>2, <1>a
  <2> QED BY <1>1, <1>2, <2>1, JobsOfFinite
<1>5. /\ Cardinality(JobsOf(Orgs, jobs)) \in Nat /\ Cardinality(JobsOf(owners, active)) \in Nat
      /\ Cardinality(JobsOf(Orgs, jobs)) <= Cardinality(JobsOf(owners, active))
  BY <1>1, <1>2, <1>4, JobsOfFinite, FS_Subset
<1>6. OrgQueueing' \in SUBSET OrgSent
  BY DEF OrgQueueing, OrgSent, Orgs
<1>7. /\ Cardinality(OrgQueueing') \in Nat /\ Cardinality(OrgSent) \in Nat
      /\ Cardinality(OrgQueueing') <= Cardinality(OrgSent) /\ GlobalLimit \in Nat
  BY <1>6, OrgFinite, ConstantsAssumption
<1>8. Cardinality(JobsOf(Orgs, jobs)) + Cardinality(OrgQueueing') <= GlobalLimit + Cardinality(OrgSent) - 1
  BY <1>3, <1>5, <1>7
<1>9. OrgSent' = OrgSent /\ JobsOf(Orgs, jobs)' = JobsOf(Orgs, jobs)
  BY DEF OrgSent, Orgs, JobsOf
<1> QED BY <1>8, <1>9 DEF CeilingInv

\* The INSERT of the job of r takes its place.
LEMMA CeilingStored ==
  ASSUME TypeOK, TypeOK', CeilingInv, NEW r \in OrgSent, Queue(r)
  PROVE  CeilingInv'
<1> DEFINE u == By[r]
           x == <<u, jobs[u] + 1>>
<1>1. /\ pc[r] = "count" /\ req[r].toCount = {} /\ ~req[r].full
      /\ jobs' = [jobs EXCEPT ![u] = jobs[u] + 1]
      /\ pc' = [pc EXCEPT ![r] = "idle"] /\ req' = [req EXCEPT ![r] = NoReq]
  BY DEF Queue, Answer, Goto
<1>2. /\ jobs \in [Identity -> Nat] /\ jobs' \in [Identity -> Nat]
      /\ u \in Orgs /\ r \in Request /\ Orgs \in SUBSET Identity
      /\ pc \in [Request -> PC] /\ req \in [Request -> Req]
  BY DEF TypeOK, OrgSent, Orgs
<1> HIDE DEF u
<1>3. \A v \in Identity : jobs'[v] = IF v = u THEN jobs[u] + 1 ELSE jobs[v]
  BY <1>1, <1>2
<1>4. \A y : y \in JobsOf(Orgs, jobs') <=> y \in JobsOf(Orgs, jobs) \/ y = x
  <2>1. ASSUME NEW v \in Orgs, NEW k \in 1..jobs'[v]
        PROVE  (v = u /\ k = jobs[u] + 1) \/ k \in 1..jobs[v]
    <3>1. v \in Identity /\ jobs[v] \in Nat /\ jobs[u] \in Nat
      BY <1>2
    <3> QED BY <1>3, <3>1
  <2>2. ASSUME NEW v \in Orgs, NEW k \in 1..jobs[v]
        PROVE  k \in 1..jobs'[v]
    BY <1>2, <1>3
  <2>3. jobs[u] + 1 \in 1..jobs'[u]
    BY <1>2, <1>3
  <2> QED BY <1>2, <2>1, <2>2, <2>3, JobsOfFinite
<1>5. x \notin JobsOf(Orgs, jobs)
  <2>1. jobs[u] \in Nat /\ jobs[u] + 1 \notin 1..jobs[u]
    BY <1>2
  <2> QED BY <1>2, <2>1, JobsOfFinite
<1> HIDE DEF x
<1>6. JobsOf(Orgs, jobs') = JobsOf(Orgs, jobs) \cup {x}
  BY <1>4
<1>7. /\ Cardinality(JobsOf(Orgs, jobs)) \in Nat
      /\ Cardinality(JobsOf(Orgs, jobs')) = Cardinality(JobsOf(Orgs, jobs)) + 1
  BY <1>2, <1>5, <1>6, JobsOfFinite, FS_AddElement
<1>8. OrgQueueing' = OrgQueueing \ {r} /\ r \in OrgQueueing
  <2>1. \A q \in Request : q # r => pc'[q] = pc[q] /\ req'[q] = req[q]
    BY <1>1, <1>2
  <2>2. pc'[r] = "idle"
    BY <1>1, <1>2
  <2> QED BY <1>1, <2>1, <2>2 DEF OrgQueueing, OrgSent, Orgs
<1>9. /\ Cardinality(OrgQueueing) \in Nat /\ Cardinality(OrgSent) \in Nat
      /\ Cardinality(OrgQueueing') = Cardinality(OrgQueueing) - 1
  <2>1. OrgQueueing \in SUBSET OrgSent
    BY DEF OrgQueueing
  <2> QED BY <1>8, <2>1, OrgFinite, FS_RemoveElement
<1>10. Cardinality(JobsOf(Orgs, jobs)) + Cardinality(OrgQueueing) <= GlobalLimit + Cardinality(OrgSent) - 1
  BY DEF CeilingInv
<1>11. GlobalLimit \in Nat
  BY ConstantsAssumption
<1>12. Cardinality(JobsOf(Orgs, jobs')) + Cardinality(OrgQueueing') <= GlobalLimit + Cardinality(OrgSent) - 1
  BY <1>7, <1>9, <1>10, <1>11
<1>13. OrgSent' = OrgSent /\ JobsOf(Orgs, jobs)' = JobsOf(Orgs, jobs')
  BY DEF OrgSent, Orgs, JobsOf
<1> QED BY <1>12, <1>13 DEF CeilingInv

\* An organisation's request begins to count with both counts to take.
LEMMA AfterCounts ==
  ASSUME TypeOK, NEW r \in Request, After(r)
  PROVE  /\ r \notin OrgQueueing'
         /\ \A q \in Request \ {r} : pc'[q] = pc[q] /\ req'[q] = req[q]
<1>1. pc \in [Request -> PC] /\ req \in [Request -> Req]
  BY DEF TypeOK
<1>2. CASE Answer(r)
  <2>1. pc' = [pc EXCEPT ![r] = "idle"] /\ req' = [req EXCEPT ![r] = NoReq]
    BY <1>2 DEF Answer, Goto
  <2> QED BY <1>1, <2>1 DEF OrgQueueing
<1>3. CASE Goto(r, "count") /\ req' = [req EXCEPT ![r] = [req[r] EXCEPT !.toCount = CountsOf(r)]]
  <2>1. pc' = [pc EXCEPT ![r] = "count"] /\ req[r] \in Req
    BY <1>1, <1>3 DEF Goto
  <2>2. req'[r].toCount = CountsOf(r)
    BY <1>1, <1>3, <2>1 DEF Req
  <2>3. By[r] \in Orgs => "global" \in CountsOf(r)
    BY DEF Orgs, CountsOf, Kind
  <2>4. r \notin OrgQueueing'
    BY <2>2, <2>3 DEF OrgQueueing, OrgSent, Orgs
  <2> QED BY <1>1, <1>3, <2>1, <2>4
<1> QED BY <1>2, <1>3 DEF After

\* A request that does not count, or does not find a place, joins nobody.
LEMMA OrgsStay ==
  ASSUME TypeOK, NEW r \in Request, \A q \in Request \ {r} : pc'[q] = pc[q] /\ req'[q] = req[q],
         r \in OrgQueueing' => r \in OrgQueueing
  PROVE  OrgQueueing' \subseteq OrgQueueing
BY DEF OrgQueueing, OrgSent, Orgs

LEMMA CeilingStep == IInv /\ TypeOK' /\ CeilingInv /\ [Next]_vars => CeilingInv'
<1> SUFFICES ASSUME IInv, TypeOK', CeilingInv, [Next]_vars PROVE CeilingInv'
  OBVIOUS
<1>0. /\ TypeOK /\ pc \in [Request -> PC] /\ req \in [Request -> Req]
      /\ jobs \in [Identity -> Nat] /\ Orgs \in SUBSET Identity
  BY DEF IInv, TypeOK, Orgs
<1>a. ASSUME jobs' = jobs PROVE \A u \in Orgs : jobs'[u] <= jobs[u]
  BY <1>0, <1>a
<1>1. ASSUME NEW r \in Request,
             Bypass(r) \/ Charge(r) \/ Allow(r) \/ UseTrial(r) \/ QuotaRead(r) \/ JobsRefused(r) \/ Fail(r)
      PROVE  CeilingInv'
  <2>1. jobs' = jobs
    BY <1>1 DEF Bypass, Charge, Allow, UseTrial, QuotaRead, JobsRefused, Fail, store
  <2>2. CASE After(r)
    BY <1>0, <1>a, <2>1, <2>2, AfterCounts, OrgsStay, CeilingSame
  <2>3. CASE Answer(r)
    <3>1. pc' = [pc EXCEPT ![r] = "idle"] /\ req' = [req EXCEPT ![r] = NoReq]
      BY <2>3 DEF Answer, Goto
    <3>2. r \notin OrgQueueing' /\ \A q \in Request \ {r} : pc'[q] = pc[q] /\ req'[q] = req[q]
      BY <1>0, <3>1 DEF OrgQueueing
    <3> QED BY <1>0, <1>a, <2>1, <3>2, OrgsStay, CeilingSame
  <2>4. ASSUME NEW to \in {"allow", "enrich"}, Goto(r, to), UNCHANGED req PROVE CeilingInv'
    <3>1. pc' = [pc EXCEPT ![r] = to] /\ req' = req
      BY <2>4 DEF Goto
    <3>2. r \notin OrgQueueing' /\ \A q \in Request \ {r} : pc'[q] = pc[q] /\ req'[q] = req[q]
      BY <1>0, <3>1 DEF OrgQueueing
    <3> QED BY <1>0, <1>a, <2>1, <3>2, OrgsStay, CeilingSame
  <2>5. CASE Goto(r, "charge") /\ req' = [req EXCEPT ![r] = [req[r] EXCEPT !.day = DayKey]]
    <3>1. pc' = [pc EXCEPT ![r] = "charge"]
      BY <2>5 DEF Goto
    <3>2. r \notin OrgQueueing' /\ \A q \in Request \ {r} : pc'[q] = pc[q] /\ req'[q] = req[q]
      BY <1>0, <2>5, <3>1 DEF OrgQueueing
    <3> QED BY <1>0, <1>a, <2>1, <3>2, OrgsStay, CeilingSame
  <2> QED BY <1>1, <2>2, <2>3, <2>4, <2>5
          DEF Bypass, Charge, Allow, UseTrial, QuotaRead, JobsRefused, Fail
<1>2. ASSUME NEW r \in Request, NEW n \in 1..MaxRefs, NEW up \in BOOLEAN, Begin(r, n, up)
      PROVE  CeilingInv'
  <2>1. /\ jobs' = jobs /\ pc' = [pc EXCEPT ![r] = "quota"]
        /\ req' = [req EXCEPT ![r] = [NoReq EXCEPT !.refs = n, !.upload = up, !.day = DayKey]]
    BY <1>2 DEF Begin, Goto, store
  <2>2. r \notin OrgQueueing' /\ \A q \in Request \ {r} : pc'[q] = pc[q] /\ req'[q] = req[q]
    BY <1>0, <2>1 DEF OrgQueueing
  <2> QED BY <1>0, <1>a, <2>1, <2>2, OrgsStay, CeilingSame
<1>3. ASSUME NEW r \in Request, NEW k \in Kind, Count(r, k) PROVE CeilingInv'
  <2>1. /\ jobs' = jobs /\ pc' = pc /\ pc[r] = "count"
        /\ req' = [req EXCEPT ![r] = [req[r] EXCEPT !.toCount = req[r].toCount \ {k},
                                                    !.full = req[r].full \/ AtLimit(r, k)]]
    BY <1>3 DEF Count, store
  <2>2. /\ req'[r].toCount = req[r].toCount \ {k}
        /\ req'[r].full = (req[r].full \/ AtLimit(r, k))
        /\ \A q \in Request \ {r} : pc'[q] = pc[q] /\ req'[q] = req[q]
    <3>1. req[r] \in Req
      BY <1>0
    <3> QED BY <1>0, <2>1, <3>1 DEF Req
  <2>3. CASE k = "global" /\ ~AtLimit(r, k) /\ r \in OrgSent
    <3>1. ~(GlobalActive >= GlobalLimit)
      BY <2>3 DEF AtLimit
    <3>2. GlobalActive \in Nat /\ GlobalLimit \in Nat
      <4>1. [u \in Identity |-> Active(u)] \in [Identity -> Nat]
        BY <1>0 DEF TypeOK, Active
      <4>2. {v \in Identity : OwnerTier(v) = "b2b"} \in SUBSET Identity
        OBVIOUS
      <4>3. GlobalActive = Cardinality(JobsOf({v \in Identity : OwnerTier(v) = "b2b"},
                                              [u \in Identity |-> Active(u)]))
        <5>1. {{u} \X (1..Active(u)) : u \in {v \in Identity : OwnerTier(v) = "b2b"}}
                = {{u} \X (1..[w \in Identity |-> Active(w)][u]) : u \in {v \in Identity : OwnerTier(v) = "b2b"}}
          OBVIOUS
        <5> QED BY <5>1 DEF GlobalActive, JobsOf
      <4>4. Cardinality(JobsOf({v \in Identity : OwnerTier(v) = "b2b"},
                               [u \in Identity |-> Active(u)])) \in Nat
        BY <4>1, <4>2, JobsOfFinite
      <4> QED BY <4>3, <4>4, ConstantsAssumption
    <3> QED BY <1>0, <2>1, <2>3, <3>1, <3>2, CeilingPass
  <2>4. CASE ~(k = "global" /\ ~AtLimit(r, k) /\ r \in OrgSent)
    <3>1. r \in OrgQueueing' => r \in OrgQueueing
      BY <2>1, <2>2, <2>4 DEF OrgQueueing, OrgSent, Orgs
    <3> QED BY <1>0, <1>a, <2>1, <2>2, <3>1, OrgsStay, CeilingSame
  <2> QED BY <2>3, <2>4
<1>4. ASSUME NEW r \in Request, Queue(r) PROVE CeilingInv'
  <2>1. CASE r \in OrgSent
    BY <1>0, <1>4, <2>1, CeilingStored
  <2>2. CASE r \notin OrgSent
    <3>1. /\ jobs' = [jobs EXCEPT ![By[r]] = jobs[By[r]] + 1]
          /\ pc' = [pc EXCEPT ![r] = "idle"] /\ req' = [req EXCEPT ![r] = NoReq]
      BY <1>4 DEF Queue, Answer, Goto
    <3>2. \A u \in Orgs : u # By[r]
      BY <2>2 DEF OrgSent
    <3>3. \A u \in Orgs : jobs'[u] <= jobs[u]
      BY <1>0, <3>1, <3>2
    <3>4. r \notin OrgQueueing' /\ \A q \in Request \ {r} : pc'[q] = pc[q] /\ req'[q] = req[q]
      BY <1>0, <3>1 DEF OrgQueueing
    <3> QED BY <1>0, <3>3, <3>4, OrgsStay, CeilingSame
  <2> QED BY <2>1, <2>2
<1>5. ASSUME NEW u \in Identity, JobStep(u) PROVE CeilingInv'
  <2>1. \A v \in Identity : jobs'[v] <= jobs[v]
    BY <1>0, <1>5 DEF JobStep, JobEnds, Cancel, Revive, ZombieEnds
  <2>2. OrgQueueing' = OrgQueueing
    BY <1>5 DEF JobStep, OrgQueueing, OrgSent, Orgs
  <2> QED BY <1>0, <2>1, <2>2, CeilingSame
<1>6. CASE Midnight \/ UNCHANGED vars
  <2>1. UNCHANGED <<jobs, pc, req>>
    BY <1>6 DEF Midnight, vars, store
  <2>2. OrgQueueing' = OrgQueueing
    BY <2>1 DEF OrgQueueing, OrgSent, Orgs
  <2> QED BY <1>0, <1>a, <2>1, <2>2, CeilingSame
<1> QED BY <1>1, <1>2, <1>3, <1>4, <1>5, <1>6 DEF Next, RequestStep

LEMMA CeilingInit == Init => CeilingInv
<1> SUFFICES ASSUME Init PROVE CeilingInv
  OBVIOUS
<1>1. Orgs \in SUBSET Identity /\ jobs \in [Identity -> Nat] /\ OrgQueueing \in SUBSET OrgSent
  BY DEF Orgs, Init, OrgQueueing
<1>2. JobsOf(Orgs, jobs) = {}
  <2>1. \A u \in Orgs : 1..jobs[u] = {}
    BY <1>1 DEF Init
  <2> QED BY <1>1, <2>1, JobsOfFinite
<1>3. Cardinality(JobsOf(Orgs, jobs)) = 0
  BY <1>2, FS_EmptySet
<1>4. Cardinality(OrgQueueing) = 0 /\ Cardinality(OrgSent) \in Nat
  <2>1. OrgQueueing = {}
    BY DEF Init, OrgQueueing, OrgSent
  <2> QED BY <1>1, <2>1, OrgFinite, FS_EmptySet
<1>5. GlobalLimit \in Nat \ {0}
  BY ConstantsAssumption
<1> QED BY <1>3, <1>4, <1>5 DEF CeilingInv

-----------------------------------------------------------------------------
\* IInv holds in every state of every run.
THEOREM Invariance == Spec => []IInv
<1>1. QED BY InvInit, InvNext, PTL DEF Spec

\* Every variable keeps the type it has in the guardrails and the usage table.
THEOREM TypeCorrect == Spec => []TypeOK
<1>1. IInv => TypeOK
  BY DEF IInv
<1>2. QED BY <1>1, Invariance, PTL

\* enforceReferenceQuota lets an identity exceed its daily limit by no more than
\* a limit for every other request it has in flight, at midnight too.
THEOREM QuotaIsBounded == Spec => []DailyBounded
<1>1. IInv => DailyBounded
  <2> SUFFICES ASSUME IInv, NEW u \in Identity, NEW d \in Day
               PROVE  used[u][d] <= DailyLimit[u] * InFlight(u)
    BY DEF DailyBounded
  <2>1. Within(used[u][d], Owing(u, d), ChargeOf(u), DailyLimit[u], InFlight(u))
    BY DEF IInv, QuotaInv
  <2>2. used[u][d] \in Nat /\ DailyLimit[u] \in Nat
    BY ConstantsAssumption DEF IInv, TypeOK
  <2>3. \A p \in Owing(u, d) : ChargeOf(u)[p] \in Nat
    BY ChargeOfType DEF IInv
  <2>4. QED BY <2>1, <2>2, <2>3, OwingFinite, WithinBound
<1>2. QED BY <1>1, Invariance, PTL

\* checkEnrichmentAllowance and consumeEnrichmentUse bound the trial likewise.
THEOREM TrialIsBounded == Spec => []TrialBounded
<1>1. IInv => TrialBounded
  <2> SUFFICES ASSUME IInv, NEW u \in Identity
               PROVE  trial[u] <= Trial * InFlight(u)
    BY DEF TrialBounded
  <2>1. Within(trial[u], Enriching(u), RefsOf, Trial, InFlight(u))
    BY DEF IInv, TrialInv
  <2>2. trial[u] \in Nat /\ Trial \in Nat
    BY ConstantsAssumption DEF IInv, TypeOK
  <2>3. \A p \in Request : RefsOf[p] \in Nat
    BY DEF IInv, TypeOK, Req, RefsOf
  <2>4. (\A p \in Enriching(u) : RefsOf[p] \in Nat) /\ IsFiniteSet(Enriching(u)) /\ InFlight(u) \in Nat
    BY <2>3, SentFinite DEF Enriching, Sent
  <2>5. QED BY <2>1, <2>2, <2>4, WithinBound
<1>2. QED BY <1>1, Invariance, PTL

\* enforceConcurrentJobLimit admits one job too many for every other request
\* that is in flight, and no more.
THEOREM JobsAreBounded == Spec => []JobsBounded
<1>1. IInv => JobsBounded
  <2> SUFFICES ASSUME IInv, NEW u \in Identity \ Admin, Sent(u) # {}
               PROVE  jobs[u] <= JobLimit[u] + InFlight(u) - 1
    BY DEF JobsBounded
  <2>1. jobs[u] + Cardinality(Queueing(u)) <= JobLimit[u] + InFlight(u) - 1
    BY DEF IInv, JobsInv
  <2>2. /\ Cardinality(Queueing(u)) \in Nat /\ InFlight(u) \in Nat
        /\ jobs[u] \in Nat /\ JobLimit[u] \in Nat
    BY SentFinite, ConstantsAssumption DEF Queueing, IInv, TypeOK
  <2>3. QED BY <2>1, <2>2
<1>2. QED BY <1>1, Invariance, PTL
\* The ceiling over all organisations is exceeded by no more than the other
\* requests of organisations in flight, whatever jobs end or come back.
THEOREM CeilingIsBounded == Spec => []GlobalBounded
<1>1. IInv => TypeOK
  BY DEF IInv
<1>2. IInv /\ CeilingInv => GlobalBounded
  <2> SUFFICES ASSUME IInv, CeilingInv PROVE GlobalBounded
    OBVIOUS
  <2>1. Orgs \in SUBSET Identity /\ jobs \in [Identity -> Nat] /\ OrgQueueing \in SUBSET OrgSent
    BY DEF Orgs, IInv, TypeOK, OrgQueueing
  <2>2. /\ Cardinality(JobsOf(Orgs, jobs)) \in Nat /\ Cardinality(OrgQueueing) \in Nat
        /\ Cardinality(OrgSent) \in Nat /\ GlobalLimit \in Nat
    BY <2>1, JobsOfFinite, OrgFinite, ConstantsAssumption
  <2>3. Cardinality(JobsOf(Orgs, jobs)) <= GlobalLimit + Cardinality(OrgSent) - 1
    BY <2>2 DEF CeilingInv
  <2> QED BY <2>3 DEF GlobalBounded, JobsOf, OrgSent, Orgs
<1>3. IInv /\ CeilingInv /\ IInv' /\ [Next]_vars => CeilingInv'
  BY CeilingStep DEF IInv
<1>4. QED BY CeilingInit, <1>2, <1>3, Invariance, PTL DEF Spec
=============================================================================
