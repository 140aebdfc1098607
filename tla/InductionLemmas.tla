-------------------------- MODULE InductionLemmas --------------------------
(***************************************************************************)
(* Induction over the natural numbers and over finite sets, and what it    *)
(* says of the folds of the community modules, in a form that has no       *)
(* operators as parameters: what is proved by induction is given as the    *)
(* set of the numbers or sets of which it holds, and the operation of a    *)
(* fold as a function.                                                     *)
(***************************************************************************)
EXTENDS Naturals, FiniteSetsExt, FiniteSetTheorems, WellFoundedInduction, TLAPS

\* A set of numbers has a least one.
LEMMA Least ==
  ASSUME NEW T, T \subseteq Nat, T # {}
  PROVE  \E m \in T : \A n \in T : m <= n
<1>1. PICK R : IsWellFoundedOn(R, Nat) /\ \A m, n \in Nat : <<m, n>> \in R <=> m < n
  <2>1. IsWellFoundedOn(OpToRel(<, Nat), Nat)
    BY NatLessThanWellFounded, Zenon
  <2>2. \A m, n \in Nat : <<m, n>> \in OpToRel(<, Nat) <=> m < n
    BY DEF OpToRel
  <2>3. QED BY <2>1, <2>2, Zenon
<1>2. PICK S : S = Nat
  OBVIOUS
<1>3. IsWellFoundedOn(R, S) /\ T \subseteq S
  BY <1>1, <1>2
<1>4. PICK m \in T : \A n \in T : ~(<<n, m>> \in R)
  BY <1>3, WFMin
<1>5. SUFFICES ASSUME NEW n \in T PROVE m <= n
  OBVIOUS
<1>6. ~(n < m) /\ m \in Nat /\ n \in Nat
  BY <1>1, <1>4
<1>7. QED BY <1>6

\* A bounded one has a greatest.
LEMMA Greatest ==
  ASSUME NEW n \in Nat, NEW S, S \subseteq 0..n, S # {}
  PROVE  \E m \in S : \A i \in S : i <= m
<1>0. \A i \in S : i \in 0..n
  OBVIOUS
<1> DEFINE T == {n - i : i \in S}
<1>1. T \subseteq Nat /\ T # {}
  <2>1. \A i \in S : n - i \in Nat
    BY <1>0
  <2>2. PICK i \in S : TRUE
    OBVIOUS
  <2>3. n - i \in T
    BY <2>2
  <2>4. QED BY <2>1, <2>3, Zenon
<1>2. PICK k \in T : \A l \in T : k <= l
  BY <1>1, Least
<1>3. PICK m \in S : k = n - m
  BY <1>2
<1>4. ASSUME NEW i \in S PROVE i <= m
  <2>1. n - i \in T
    OBVIOUS
  <2>2. k <= n - i
    BY <1>2, <2>1, Zenon
  <2>3. i \in 0..n /\ m \in 0..n
    BY <1>0, Zenon
  <2>4. QED BY <1>3, <2>2, <2>3
<1>5. QED BY <1>4

\* The maximum of positions is one of them.
LEMMA MaxIs ==
  ASSUME NEW n \in Nat, NEW s \in SUBSET (1..n), s # {}
  PROVE  Max(s) \in s /\ \A i \in s : i <= Max(s)
<1>0. s \subseteq 0..n
  OBVIOUS
<1>1. PICK m \in s : \A i \in s : i <= m
  BY <1>0, Greatest
<1>2. \A i \in s : m >= i
  BY <1>1
<1>3. \A m1 \in s : (\A i \in s : m1 >= i) => \A i \in s : i <= m1
  OBVIOUS
<1>4. QED BY <1>1, <1>2, <1>3 DEF Max

\* What holds of 0, and of k + 1 whenever it holds of k, holds of 0..n.
LEMMA UpTo ==
  ASSUME NEW n \in Nat, NEW T, 0 \in T, \A k \in 0..n - 1 : k \in T => k + 1 \in T
  PROVE  \A k \in 0..n : k \in T
<1> DEFINE U == {k \in 0..n : k \notin T}
<1>1. SUFFICES ASSUME U # {} PROVE FALSE
  OBVIOUS
<1>2. U \subseteq Nat
  OBVIOUS
<1>3. PICK m \in U : \A k \in U : m <= k
  BY <1>1, <1>2, Least
<1>4. m # 0 /\ m \in 0..n /\ m \notin T
  BY <1>3
<1>5. m - 1 \in 0..n - 1 /\ m - 1 \notin U
  BY <1>3, <1>4
<1>6. m - 1 \in T /\ m - 1 + 1 = m
  BY <1>5
<1>7. QED BY <1>4, <1>5, <1>6

\* What holds of a finite set whenever it holds of the set without one of its
\* elements, whichever, holds of every subset.
LEMMA Subsets ==
  ASSUME NEW D, IsFiniteSet(D), NEW T,
         \A s \in SUBSET D : (\A x \in s : s \ {x} \in T) => s \in T
  PROVE  \A s \in SUBSET D : s \in T
<1>0. \A s \in SUBSET D : IsFiniteSet(s) /\ Cardinality(s) \in Nat
  BY FS_Subset, FS_CardinalityType
<1> DEFINE N == {n \in Nat : \E s \in SUBSET D : s \notin T /\ Cardinality(s) = n}
<1>1. SUFFICES ASSUME NEW u \in SUBSET D, u \notin T PROVE FALSE
  OBVIOUS
<1>2. N # {} /\ N \subseteq Nat
  BY <1>0, <1>1
<1>3. PICK m \in N : \A n \in N : m <= n
  BY <1>2, Least
<1>4. PICK s \in SUBSET D : s \notin T /\ Cardinality(s) = m
  BY <1>3
<1>5. ASSUME NEW x \in s PROVE s \ {x} \in T
  <2>1. /\ s \ {x} \in SUBSET D /\ Cardinality(s \ {x}) = Cardinality(s) - 1
        /\ Cardinality(s \ {x}) \in Nat
    BY <1>0, FS_RemoveElement
  <2>2. SUFFICES ASSUME s \ {x} \notin T PROVE FALSE
    OBVIOUS
  <2>3. Cardinality(s \ {x}) \in N
    BY <2>1, <2>2
  <2>4. m <= Cardinality(s \ {x})
    BY <1>3, <2>3, Zenon
  <2> HIDE DEF N
  <2>5. m \in Nat
    BY <1>2, <1>3
  <2>6. QED BY <1>4, <2>1, <2>4, <2>5
<1>6. QED BY <1>4, <1>5

\* The function by which MapThenFoldSet folds a set, pick[s] the last of s.
FoldsSet(it, D, b, pick, G) ==
  \A s \in SUBSET D : it[s] = IF s = {} THEN b ELSE G[pick[s]][it[s \ {pick[s]}]]

LEMMA SetFoldExists ==
  ASSUME NEW D, IsFiniteSet(D), NEW A, NEW b \in A, NEW G \in [D -> [A -> A]],
         NEW pick, \A s \in SUBSET D : s # {} => pick[s] \in s
  PROVE  \E it \in [SUBSET D -> A] : FoldsSet(it, D, b, pick, G)
<1> DEFINE Ok(k) == \E it \in [SUBSET D -> A] : \A s \in SUBSET D : Cardinality(s) <= k =>
                      it[s] = IF s = {} THEN b ELSE G[pick[s]][it[s \ {pick[s]}]]
<1>0. /\ Cardinality(D) \in Nat
      /\ \A s \in SUBSET D : Cardinality(s) \in Nat /\ Cardinality(s) <= Cardinality(D)
                             /\ (Cardinality(s) = 0 <=> s = {})
  BY FS_Subset, FS_CardinalityType, FS_EmptySet
<1>1. ASSUME NEW s \in SUBSET D, s # {}
      PROVE  /\ pick[s] \in D /\ s \ {pick[s]} \in SUBSET D
             /\ Cardinality(s \ {pick[s]}) = Cardinality(s) - 1
  <2>1. IsFiniteSet(s) /\ pick[s] \in s
    BY <1>1, FS_Subset
  <2>2. QED BY <2>1, FS_RemoveElement
<1>2. Ok(0)
  <2>1. [s \in SUBSET D |-> b] \in [SUBSET D -> A]
    OBVIOUS
  <2>2. \A s \in SUBSET D : Cardinality(s) <= 0 => s = {}
    BY <1>0
  <2>3. QED BY <2>1, <2>2
<1>3. ASSUME NEW k \in Nat, Ok(k) PROVE Ok(k + 1)
  <2>1. PICK it \in [SUBSET D -> A] : \A s \in SUBSET D : Cardinality(s) <= k =>
               it[s] = IF s = {} THEN b ELSE G[pick[s]][it[s \ {pick[s]}]]
    BY <1>3
  <2> DEFINE jt == [s \in SUBSET D |-> IF Cardinality(s) = k + 1 THEN G[pick[s]][it[s \ {pick[s]}]] ELSE it[s]]
  <2>2. ASSUME NEW s \in SUBSET D, Cardinality(s) = k + 1 PROVE s # {} /\ G[pick[s]][it[s \ {pick[s]}]] \in A
    <3>1. s # {}
      BY <1>0, <2>2
    <3>2. pick[s] \in D /\ it[s \ {pick[s]}] \in A
      BY <1>1, <2>1, <3>1
    <3>3. QED BY <3>1, <3>2
  <2>3. jt \in [SUBSET D -> A]
    <3>1. \A s \in SUBSET D : (IF Cardinality(s) = k + 1 THEN G[pick[s]][it[s \ {pick[s]}]] ELSE it[s]) \in A
      BY <2>1, <2>2
    <3>2. QED BY <3>1
  <2>4. ASSUME NEW s \in SUBSET D, Cardinality(s) <= k + 1
        PROVE  jt[s] = IF s = {} THEN b ELSE G[pick[s]][jt[s \ {pick[s]}]]
    <3>1. CASE s = {}
      <4>1. Cardinality(s) = 0
        BY <1>0, <3>1
      <4>2. Cardinality(s) <= k /\ Cardinality(s) # k + 1
        BY <4>1
      <4>3. it[s] = b
        BY <2>1, <3>1, <4>2
      <4>4. jt[s] = it[s]
        BY <4>2
      <4>5. QED BY <3>1, <4>3, <4>4
    <3>2. CASE s # {}
      <4>1. /\ s \ {pick[s]} \in SUBSET D
            /\ Cardinality(s \ {pick[s]}) = Cardinality(s) - 1 /\ Cardinality(s) \in Nat
        BY <1>0, <1>1, <3>2
      <4>2. jt[s \ {pick[s]}] = it[s \ {pick[s]}]
        BY <2>4, <4>1
      <4>3. CASE Cardinality(s) = k + 1
        BY <3>2, <4>2, <4>3
      <4>4. CASE Cardinality(s) # k + 1
        <5>1. Cardinality(s) <= k
          BY <2>4, <4>1, <4>4
        <5>2. it[s] = G[pick[s]][it[s \ {pick[s]}]]
          BY <2>1, <3>2, <5>1
        <5>3. jt[s] = it[s]
          BY <4>4
        <5>4. QED BY <3>2, <4>2, <5>2, <5>3
      <4>5. QED BY <4>3, <4>4
    <3>3. QED BY <3>1, <3>2
  <2>5. QED BY <2>3, <2>4, Zenon
<1> HIDE DEF Ok
<1>4. Ok(Cardinality(D))
  <2> DEFINE T == {i \in Nat : Ok(i)}
  <2>1. 0 \in T
    BY <1>2
  <2>2. \A k \in 0..Cardinality(D) - 1 : k \in T => k + 1 \in T
    BY <1>0, <1>3
  <2> HIDE DEF T
  <2>3. Cardinality(D) \in 0..Cardinality(D)
    BY <1>0
  <2>4. Cardinality(D) \in T
    BY <1>0, <2>1, <2>2, <2>3, UpTo
  <2>5. QED BY <2>4 DEF T
<1>5. QED BY <1>0, <1>4 DEF Ok, FoldsSet

\* The function by which MapThenFoldSet folds positions, the last one last.
Iterates(it, n, b, G) ==
  \A s \in SUBSET (1..n) : it[s] = IF s = {} THEN b ELSE G[Max(s)][it[s \ {Max(s)}]]

\* It exists.
LEMMA FoldIter ==
  ASSUME NEW n \in Nat, NEW A, NEW b \in A, NEW G \in [1..n -> [A -> A]]
  PROVE  \E it \in [SUBSET (1..n) -> A] : Iterates(it, n, b, G)
<1> DEFINE pick == [s \in SUBSET (1..n) |-> Max(s)]
<1>1. IsFiniteSet(1..n)
  BY FS_Interval
<1>2. \A s \in SUBSET (1..n) : pick[s] = Max(s) /\ (s # {} => pick[s] \in s)
  BY MaxIs
<1> HIDE DEF pick
<1>3. PICK it \in [SUBSET (1..n) -> A] : FoldsSet(it, 1..n, b, pick, G)
  BY <1>1, <1>2, SetFoldExists
<1>4. \A s \in SUBSET (1..n) : it[s] = IF s = {} THEN b ELSE G[Max(s)][it[s \ {Max(s)}]]
  BY <1>2, <1>3 DEF FoldsSet
<1>5. QED BY <1>4 DEF Iterates
=============================================================================
