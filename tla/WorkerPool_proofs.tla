-------------------------- MODULE WorkerPool_proofs --------------------------
(***************************************************************************)
(* Theorems about WorkerPool, for every set of conversions, every input    *)
(* and every number of threads, parts that throw and threads that die.     *)
(***************************************************************************)
EXTENDS WorkerPool, InductionLemmas, SequenceTheorems, TLAPS

-----------------------------------------------------------------------------
(* How an input is divided. *)

\* The positions after a up to b.
Span(a, b) == [i \in 1..b - a |-> a + i]

LEMMA SpanType ==
  ASSUME NEW a \in Nat, NEW b \in Nat, a <= b
  PROVE  /\ Span(a, b) \in Seq(Nat) /\ Len(Span(a, b)) = b - a
         /\ \A i \in 1..b - a : Span(a, b)[i] = a + i
<1>1. b - a \in Nat /\ \A i \in 1..b - a : a + i \in Nat
  OBVIOUS
<1>2. QED BY <1>1 DEF Span

LEMMA SpanJoin ==
  ASSUME NEW a \in Nat, NEW b \in Nat, NEW c \in Nat, a <= b, b <= c
  PROVE  Span(a, b) \o Span(b, c) = Span(a, c)
<1>1. /\ Span(a, b) \in Seq(Nat) /\ Len(Span(a, b)) = b - a
      /\ \A i \in 1..b - a : Span(a, b)[i] = a + i
      /\ Span(b, c) \in Seq(Nat) /\ Len(Span(b, c)) = c - b
      /\ \A i \in 1..c - b : Span(b, c)[i] = b + i
  BY SpanType
<1>2. PICK s \in Seq(Nat) : s = Span(a, b)
  BY <1>1
<1>3. PICK t \in Seq(Nat) : t = Span(b, c)
  BY <1>1
<1>4. PICK u \in Seq(Nat) : u = Span(a, c) /\ Len(u) = c - a /\ \A i \in 1..c - a : u[i] = a + i
  <2>1. a <= c
    OBVIOUS
  <2>2. QED BY <2>1, SpanType
<1>5. /\ Len(s) = b - a /\ \A i \in 1..b - a : s[i] = a + i
      /\ Len(t) = c - b /\ \A i \in 1..c - b : t[i] = b + i
  BY <1>1, <1>2, <1>3
<1>6. /\ s \o t \in Seq(Nat) /\ Len(s \o t) = c - a
      /\ \A i \in 1..c - a : (s \o t)[i] = IF i <= Len(s) THEN s[i] ELSE t[i - Len(s)]
  <2>1. Len(s) + Len(t) = c - a
    BY <1>5
  <2>2. QED BY <2>1, ConcatProperties
<1>7. ASSUME NEW i \in 1..c - a PROVE (s \o t)[i] = u[i]
  <2>1. u[i] = a + i /\ (s \o t)[i] = IF i <= Len(s) THEN s[i] ELSE t[i - Len(s)]
    BY <1>4, <1>6
  <2>2. CASE i <= b - a
    <3>1. i \in 1..b - a
      BY <2>2
    <3>2. s[i] = a + i /\ Len(s) = b - a
      BY <1>5, <3>1
    <3>3. QED BY <2>1, <2>2, <3>2
  <2>3. CASE ~(i <= b - a)
    <3>1. i - (b - a) \in 1..c - b
      BY <2>3
    <3>2. t[i - (b - a)] = b + (i - (b - a)) /\ Len(s) = b - a
      BY <1>5, <3>1
    <3>3. b + (i - (b - a)) = a + i
      OBVIOUS
    <3>4. QED BY <2>1, <2>3, <3>2, <3>3
  <2>4. QED BY <2>2, <2>3
<1>8. s \o t = u
  BY <1>4, <1>6, <1>7, SeqEqual
<1>9. QED BY <1>2, <1>3, <1>4, <1>8

LEMMA SpanNext ==
  ASSUME NEW a \in Nat, NEW b \in Nat, a <= b
  PROVE  /\ <<b + 1>> = Span(b, b + 1)
         /\ Append(Span(a, b), b + 1) = Span(a, b + 1)
<1>1. <<b + 1>> = Span(b, b + 1)
  <2>1. b + 1 - b = 1
    OBVIOUS
  <2>2. QED BY <2>1 DEF Span
<1>2. Span(a, b) \in Seq(Nat)
  BY SpanType
<1>3. Append(Span(a, b), b + 1) = Span(a, b) \o <<b + 1>>
  BY <1>2
<1>4. b + 1 \in Nat /\ b <= b + 1
  OBVIOUS
<1>5. Span(a, b) \o Span(b, b + 1) = Span(a, b + 1)
  BY <1>4, SpanJoin
<1>6. QED BY <1>1, <1>3, <1>5

-----------------------------------------------------------------------------
\* c divides the first n blocks into spans, the k-th of which ends with ends[k].
Divides(c, ends, n) ==
  /\ c \in Seq(Seq(Nat)) /\ ends \in [0..Len(c) -> 0..n]
  /\ ends[0] = 0 /\ ends[Len(c)] = n
  /\ \A k \in 1..Len(c) : ends[k - 1] < ends[k] /\ c[k] = Span(ends[k - 1], ends[k])

\* Another span.
LEMMA DividesMore ==
  ASSUME NEW n \in Nat, NEW m \in Nat, n < m, NEW c, NEW ends, Divides(c, ends, n)
  PROVE  LET more == [k \in 0..Len(c) + 1 |-> IF k <= Len(c) THEN ends[k] ELSE m]
         IN  Divides(Append(c, Span(n, m)), more, m)
<1> DEFINE more == [k \in 0..Len(c) + 1 |-> IF k <= Len(c) THEN ends[k] ELSE m]
           d == Append(c, Span(n, m))
<1>1. c \in Seq(Seq(Nat)) /\ Len(c) \in Nat /\ ends \in [0..Len(c) -> 0..n] /\ Span(n, m) \in Seq(Nat)
  <2>1. n <= m
    OBVIOUS
  <2>2. Span(n, m) \in Seq(Nat)
    BY <2>1, SpanType
  <2>3. QED BY <2>2 DEF Divides
<1>2. /\ d \in Seq(Seq(Nat)) /\ Len(d) = Len(c) + 1 /\ d[Len(c) + 1] = Span(n, m)
      /\ \A k \in 1..Len(c) : d[k] = c[k]
  BY <1>1
<1>3. /\ more \in [0..Len(c) + 1 -> 0..m] /\ more[Len(c) + 1] = m
      /\ \A k \in 0..Len(c) : more[k] = ends[k]
  BY <1>1
<1> HIDE DEF more, d
<1>4. more[0] = 0
  BY <1>1, <1>3 DEF Divides
<1>5. ASSUME NEW k \in 1..Len(d)
      PROVE  more[k - 1] < more[k] /\ d[k] = Span(more[k - 1], more[k])
  <2>1. CASE k = Len(c) + 1
    <3>1. k - 1 = Len(c) /\ Len(c) \in 0..Len(c)
      BY <1>1, <2>1
    <3>2. more[k - 1] = n /\ more[k] = m
      BY <1>3, <2>1, <3>1 DEF Divides
    <3>3. QED BY <1>2, <2>1, <3>2
  <2>2. CASE k # Len(c) + 1
    <3>1. k \in 1..Len(c) /\ k - 1 \in 0..Len(c) /\ k \in 0..Len(c)
      BY <1>1, <1>2, <2>2
    <3>2. more[k - 1] = ends[k - 1] /\ more[k] = ends[k] /\ d[k] = c[k]
      BY <1>2, <1>3, <3>1
    <3>3. QED BY <3>1, <3>2 DEF Divides
  <2>3. QED BY <2>1, <2>2
<1>6. Divides(d, more, m)
  BY <1>2, <1>3, <1>4, <1>5 DEF Divides
<1>7. QED BY <1>6 DEF d, more

\* The last span one longer.
LEMMA DividesLonger ==
  ASSUME NEW n \in Nat \ {0}, NEW c, NEW ends, Divides(c, ends, n)
  PROVE  /\ Len(c) \in 1..Len(c) /\ Len(c) \in Nat
         /\ Divides([c EXCEPT ![Len(c)] = Append(c[Len(c)], n + 1)],
                    [ends EXCEPT ![Len(c)] = n + 1], n + 1)
<1> DEFINE l == Len(c)
           more == [ends EXCEPT ![l] = n + 1]
           d == [c EXCEPT ![l] = Append(c[l], n + 1)]
<1>1. c \in Seq(Seq(Nat)) /\ l \in Nat /\ ends \in [0..l -> 0..n] /\ ends[0] = 0 /\ ends[l] = n
  BY DEF Divides
<1> HIDE DEF l
<1>2. l \in 1..l /\ l - 1 \in 0..l
  BY <1>1
<1>3. ends[l - 1] \in 0..n /\ ends[l - 1] < n /\ c[l] = Span(ends[l - 1], n)
  BY <1>1, <1>2 DEF Divides, l
<1>4. Append(c[l], n + 1) = Span(ends[l - 1], n + 1) /\ Span(ends[l - 1], n + 1) \in Seq(Nat)
  <2>1. ends[l - 1] \in Nat /\ ends[l - 1] <= n /\ n \in Nat /\ n + 1 \in Nat /\ ends[l - 1] <= n + 1
    BY <1>3
  <2>2. QED BY <1>3, <2>1, SpanNext, SpanType
<1>5. /\ d \in Seq(Seq(Nat)) /\ Len(d) = l /\ d[l] = Span(ends[l - 1], n + 1)
      /\ \A k \in 1..l : k # l => d[k] = c[k]
  <2>1. l = Len(c) /\ l \in 1..Len(c) /\ Append(c[l], n + 1) \in Seq(Nat)
    BY <1>2, <1>4 DEF l
  <2>2. PICK v \in Seq(Nat) : v = Append(c[l], n + 1)
    BY <2>1
  <2>3. d = [c EXCEPT ![l] = v]
    BY <2>2
  <2>4. /\ [c EXCEPT ![l] = v] \in Seq(Seq(Nat)) /\ Len([c EXCEPT ![l] = v]) = Len(c)
        /\ \A k \in 1..Len(c) : [c EXCEPT ![l] = v][k] = IF k = l THEN v ELSE c[k]
    BY <1>1, <2>1, ExceptSeq
  <2> HIDE DEF d
  <2>5. QED BY <1>2, <1>4, <2>1, <2>2, <2>3, <2>4
<1>6. /\ more \in [0..l -> 0..n + 1] /\ more[l] = n + 1
      /\ \A k \in 0..l : k # l => more[k] = ends[k]
  BY <1>1
<1> HIDE DEF more, d
<1>7. more[0] = 0
  BY <1>1, <1>2, <1>6
<1>8. ASSUME NEW k \in 1..l
      PROVE  more[k - 1] < more[k] /\ d[k] = Span(more[k - 1], more[k])
  <2>1. CASE k = l
    <3>1. more[k - 1] = ends[l - 1] /\ more[k] = n + 1
      BY <1>2, <1>6, <2>1
    <3>2. QED BY <1>3, <1>5, <2>1, <3>1
  <2>2. CASE k # l
    <3>1. k - 1 \in 0..l /\ k \in 0..l /\ k - 1 # l
      BY <1>1, <2>2
    <3>2. more[k - 1] = ends[k - 1] /\ more[k] = ends[k] /\ d[k] = c[k]
      BY <1>5, <1>6, <2>2, <3>1
    <3>3. QED BY <3>1, <3>2 DEF Divides, l
  <2>3. QED BY <2>1, <2>2
<1>9. Divides(d, more, n + 1)
  BY <1>5, <1>6, <1>7, <1>8 DEF Divides
<1>10. QED BY <1>1, <1>2, <1>9 DEF d, more, l

-----------------------------------------------------------------------------
\* Positions are folded one after the other.
LEMMA MaxUpTo ==
  ASSUME NEW n \in Nat, NEW k \in 1..n
  PROVE  /\ 1..k \in SUBSET (1..n) /\ 1..k # {} /\ Max(1..k) = k
         /\ (1..k) \ {k} = 1..k - 1 /\ k \in 0..n /\ k - 1 \in 0..n
<1>1. 1..k \in SUBSET (1..n) /\ k \in 1..k /\ k \in Nat /\ 1..k \in SUBSET (1..k)
  OBVIOUS
<1>2. Max(1..k) \in 1..k /\ k <= Max(1..k)
  BY <1>1, MaxIs
<1>3. Max(1..k) = k
  BY <1>1, <1>2
<1>4. QED BY <1>1, <1>3

\* What Bundles does with one block.
AddBlock(keys, bundles, i) ==
  IF i > 1 /\ keys[i] = keys[i - 1]
  THEN [bundles EXCEPT ![Len(bundles)] = Append(bundles[Len(bundles)], i)]
  ELSE Append(bundles, <<i>>)

LEMMA AddBlockType ==
  ASSUME NEW keys, NEW c \in Seq(Seq(Nat)), NEW i \in Nat
  PROVE  AddBlock(keys, c, i) \in Seq(Seq(Nat))
<1>1. Append(c, <<i>>) \in Seq(Seq(Nat))
  OBVIOUS
<1>2. [c EXCEPT ![Len(c)] = Append(c[Len(c)], i)] \in Seq(Seq(Nat))
  <2>1. CASE c = <<>>
    <3>1. DOMAIN [c EXCEPT ![Len(c)] = Append(c[Len(c)], i)] = {} /\ DOMAIN c = {}
      BY <2>1
    <3>2. [c EXCEPT ![Len(c)] = Append(c[Len(c)], i)] = c
      BY <3>1
    <3>3. QED BY <3>2
  <2>2. CASE c # <<>>
    <3>1. Len(c) \in 1..Len(c) /\ c[Len(c)] \in Seq(Nat)
      BY <2>2
    <3>2. Append(c[Len(c)], i) \in Seq(Nat)
      BY <3>1
    <3>3. QED BY <3>1, <3>2, ExceptSeq
  <2>3. QED BY <2>1, <2>2
<1>3. QED BY <1>1, <1>2 DEF AddBlock

LEMMA BundlesTrace ==
  ASSUME NEW keys \in Seq(Key)
  PROVE  \E f : /\ f[0] = <<>> /\ Bundles(keys) = f[Len(keys)]
                /\ \A k \in 1..Len(keys) : f[k] = AddBlock(keys, f[k - 1], k)
<1> DEFINE n == Len(keys)
           A == Seq(Seq(Nat))
<1>0. n \in Nat /\ DOMAIN keys = 1..n
  OBVIOUS
<1> HIDE DEF n
<1> DEFINE G == [i \in 1..n |-> [c \in A |-> AddBlock(keys, c, i)]]
<1>1. \E it \in [SUBSET (1..n) -> A] : Iterates(it, n, <<>>, G)
  <2>1. <<>> \in A
    OBVIOUS
  <2>2. G \in [1..n -> [A -> A]]
    BY <1>0, AddBlockType
  <2> HIDE DEF G, A
  <2>3. QED BY <1>0, <2>1, <2>2, FoldIter
<1>2. \E it : it = [S \in SUBSET (1..n) |-> IF S = {} THEN <<>>
                      ELSE AddBlock(keys, it[S \ {Max(S)}], [i \in 1..n |-> i][Max(S)])]
  <2>1. PICK it \in [SUBSET (1..n) -> A] : \A S \in SUBSET (1..n) :
             it[S] = IF S = {} THEN <<>> ELSE G[Max(S)][it[S \ {Max(S)}]]
    BY <1>1 DEF Iterates
  <2>2. ASSUME NEW S \in SUBSET (1..n), S # {}
        PROVE  it[S] = AddBlock(keys, it[S \ {Max(S)}], [i \in 1..n |-> i][Max(S)])
    <3>1. Max(S) \in 1..n
      BY <1>0, <2>2, MaxIs
    <3>2. S \ {Max(S)} \in SUBSET (1..n)
      OBVIOUS
    <3>3. it[S \ {Max(S)}] \in A
      BY <2>1, <3>2
    <3> HIDE DEF A
    <3>4. G[Max(S)][it[S \ {Max(S)}]] = AddBlock(keys, it[S \ {Max(S)}], Max(S))
      BY <3>1, <3>3
    <3>5. [i \in 1..n |-> i][Max(S)] = Max(S)
      BY <3>1
    <3>6. it[S] = G[Max(S)][it[S \ {Max(S)}]]
      BY <2>1, <2>2
    <3>7. QED BY <3>4, <3>5, <3>6, Zenon
  <2>3. it[{}] = <<>>
    BY <2>1
  <2>4. it = [S \in SUBSET (1..n) |-> IF S = {} THEN <<>>
                ELSE AddBlock(keys, it[S \ {Max(S)}], [i \in 1..n |-> i][Max(S)])]
    BY <2>1, <2>2, <2>3
  <2>5. QED BY <2>4
<1> DEFINE it == CHOOSE it : it = [S \in SUBSET (1..n) |-> IF S = {} THEN <<>>
                      ELSE AddBlock(keys, it[S \ {Max(S)}], [i \in 1..n |-> i][Max(S)])]
<1>3. it = [S \in SUBSET (1..n) |-> IF S = {} THEN <<>>
                      ELSE AddBlock(keys, it[S \ {Max(S)}], [i \in 1..n |-> i][Max(S)])]
  BY <1>2, Zenon
<1>4. Bundles(keys) = it[1..n]
  <2> DEFINE pos == [i \in DOMAIN keys |-> i]
  <2>1. Bundles(keys) =
          (CHOOSE jt : jt = [S \in SUBSET DOMAIN pos |-> IF S = {} THEN <<>>
                              ELSE AddBlock(keys, jt[S \ {Max(S)}], pos[Max(S)])])[DOMAIN pos]
    BY Zenon DEF Bundles, FoldLeftDomain, FoldLeft, MapThenFoldSet, AddBlock
  <2> HIDE DEF pos
  <2>2. pos = [i \in 1..n |-> i] /\ DOMAIN pos = 1..n
    BY <1>0 DEF pos
  <2>3. Bundles(keys) =
          (CHOOSE jt : jt = [S \in SUBSET (1..n) |-> IF S = {} THEN <<>>
                              ELSE AddBlock(keys, jt[S \ {Max(S)}], pos[Max(S)])])[1..n]
    BY <2>1, <2>2, ZenonT(40)
  <2>4. QED BY <2>2, <2>3, ZenonT(40)
<1> HIDE DEF it
<1> DEFINE f == [k \in 0..n |-> it[1..k]]
<1>5. f[0] = <<>>
  <2>1. 1..0 = {} /\ 1..0 \in SUBSET (1..n) /\ 0 \in 0..n
    BY <1>0
  <2>2. it[1..0] = <<>>
    BY <1>3, <2>1
  <2>3. QED BY <2>1, <2>2
<1>6. ASSUME NEW k \in 1..n PROVE f[k] = AddBlock(keys, f[k - 1], k)
  <2>1. /\ 1..k \in SUBSET (1..n) /\ 1..k # {} /\ Max(1..k) = k
        /\ (1..k) \ {k} = 1..k - 1 /\ k \in 0..n /\ k - 1 \in 0..n
    BY <1>0, MaxUpTo
  <2>2. it[1..k] = AddBlock(keys, it[1..k - 1], [i \in 1..n |-> i][k])
    BY <1>3, <2>1
  <2>3. [i \in 1..n |-> i][k] = k
    OBVIOUS
  <2>4. QED BY <2>1, <2>2, <2>3
<1>7. f[n] = it[1..n]
  BY <1>0
<1> HIDE DEF f
<1>8. QED BY <1>4, <1>5, <1>6, <1>7 DEF n

\* c are the semantic groups of the first n blocks.
OneKey(keys, a, b) == \A j \in a + 1..b : keys[j] = keys[a + 1]
Groups(keys, c, ends, n) ==
  /\ Divides(c, ends, n)
  /\ \A k \in 1..Len(c) :
       /\ k > 1 => keys[ends[k - 1] + 1] # keys[ends[k - 1]]
       /\ OneKey(keys, ends[k - 1], ends[k])

LEMMA AddBlockGroups ==
  ASSUME NEW keys \in Seq(Key), NEW n \in 0..Len(keys) - 1, NEW c, NEW ends,
         Groups(keys, c, ends, n)
  PROVE  \E more : Groups(keys, AddBlock(keys, c, n + 1), more, n + 1)
<1>0. n \in Nat /\ n + 1 - 1 = n /\ Divides(c, ends, n) /\ Len(c) \in Nat
  BY DEF Groups, Divides
<1>1. CASE n + 1 > 1 /\ keys[n + 1] = keys[n]
  <2> DEFINE d == [c EXCEPT ![Len(c)] = Append(c[Len(c)], n + 1)]
             more == [ends EXCEPT ![Len(c)] = n + 1]
  <2>1. n \in Nat \ {0} /\ AddBlock(keys, c, n + 1) = d
    BY <1>0, <1>1 DEF AddBlock
  <2>2. Len(c) \in 1..Len(c) /\ Divides(d, more, n + 1)
    BY <1>0, <2>1, DividesLonger
  <2>3. /\ c \in Seq(Seq(Nat)) /\ ends \in [0..Len(c) -> 0..n] /\ ends[Len(c)] = n
        /\ ends[Len(c) - 1] < n
    BY <2>2 DEF Groups, Divides
  <2>4. more[Len(c)] = n + 1 /\ \A k \in 0..Len(c) : k # Len(c) => more[k] = ends[k]
    BY <1>0, <2>3
  <2>5. Len(d) = Len(c)
    BY <2>3
  <2> HIDE DEF d, more
  <2>6. ASSUME NEW k \in 1..Len(c)
        PROVE  /\ k > 1 => keys[more[k - 1] + 1] # keys[more[k - 1]]
               /\ OneKey(keys, more[k - 1], more[k])
    <3>1. k - 1 \in 0..Len(c) /\ k \in 0..Len(c) /\ k - 1 # Len(c)
      BY <1>0
    <3>2. more[k - 1] = ends[k - 1] /\ ends[k - 1] \in 0..n
      BY <2>3, <2>4, <3>1
    <3>3. k > 1 => keys[more[k - 1] + 1] # keys[more[k - 1]]
      BY <3>2 DEF Groups
    <3>4. CASE k # Len(c)
      BY <2>4, <3>1, <3>2, <3>3, <3>4 DEF Groups
    <3>5. CASE k = Len(c)
      <4>1. more[k] = n + 1 /\ ends[k] = n /\ ends[k - 1] < n
        BY <2>3, <2>4, <3>5
      <4>2. OneKey(keys, ends[k - 1], n)
        BY <4>1 DEF Groups
      <4>3. n \in ends[k - 1] + 1..n
        BY <3>2, <4>1
      <4>4. keys[n + 1] = keys[ends[k - 1] + 1]
        BY <1>1, <4>2, <4>3 DEF OneKey
      <4>5. \A j \in ends[k - 1] + 1..n + 1 : j \in ends[k - 1] + 1..n \/ j = n + 1
        BY <3>2, <4>1
      <4>6. OneKey(keys, ends[k - 1], n + 1)
        BY <4>2, <4>4, <4>5 DEF OneKey
      <4>7. QED BY <3>2, <3>3, <4>1, <4>6
    <3>6. QED BY <3>4, <3>5
  <2>7. Groups(keys, d, more, n + 1)
    BY <2>2, <2>5, <2>6 DEF Groups
  <2>8. QED BY <2>1, <2>7
<1>2. CASE ~(n + 1 > 1 /\ keys[n + 1] = keys[n])
  <2> DEFINE d == Append(c, Span(n, n + 1))
             more == [k \in 0..Len(c) + 1 |-> IF k <= Len(c) THEN ends[k] ELSE n + 1]
  <2>1. AddBlock(keys, c, n + 1) = d
    <3>1. <<n + 1>> = Span(n, n + 1)
      <4>1. n <= n
        BY <1>0
      <4>2. QED BY <1>0, <4>1, SpanNext
    <3>2. QED BY <1>0, <1>2, <3>1 DEF AddBlock
  <2>2. Divides(d, more, n + 1)
    <3>1. n + 1 \in Nat /\ n < n + 1
      BY <1>0
    <3>2. QED BY <1>0, <3>1, DividesMore, Zenon
  <2>3. c \in Seq(Seq(Nat)) /\ ends \in [0..Len(c) -> 0..n] /\ ends[Len(c)] = n /\ ends[0] = 0
    BY <1>0 DEF Divides
  <2>4. more[Len(c) + 1] = n + 1 /\ \A k \in 0..Len(c) : more[k] = ends[k]
    BY <1>0, <2>3
  <2>5. Len(d) = Len(c) + 1
    BY <2>2, <2>3
  <2> HIDE DEF d, more
  <2>6. ASSUME NEW k \in 1..Len(c) + 1
        PROVE  /\ k > 1 => keys[more[k - 1] + 1] # keys[more[k - 1]]
               /\ OneKey(keys, more[k - 1], more[k])
    <3>1. CASE k \in 1..Len(c)
      <4>1. k - 1 \in 0..Len(c) /\ k \in 0..Len(c)
        BY <1>0, <3>1
      <4>2. more[k - 1] = ends[k - 1] /\ more[k] = ends[k]
        BY <2>4, <4>1
      <4>3. QED BY <3>1, <4>2 DEF Groups
    <3>2. CASE k = Len(c) + 1
      <4>1. Len(c) \in 0..Len(c) /\ k - 1 = Len(c)
        BY <1>0, <3>2
      <4>2. more[k - 1] = n /\ more[k] = n + 1
        BY <2>3, <2>4, <3>2, <4>1
      <4>3. OneKey(keys, n, n + 1)
        <5>1. \A j \in n + 1..n + 1 : j = n + 1
          BY <1>0
        <5>2. QED BY <5>1 DEF OneKey
      <4>4. ASSUME k > 1 PROVE n > 0
        <5>1. Len(c) \in 1..Len(c) /\ Len(c) - 1 \in 0..Len(c)
          BY <1>0, <3>2, <4>4
        <5>2. ends[Len(c) - 1] < n /\ ends[Len(c) - 1] \in 0..n
          BY <2>3, <5>1 DEF Groups, Divides
        <5>3. QED BY <1>0, <5>2
      <4>5. k > 1 => keys[n + 1] # keys[n]
        BY <1>0, <1>2, <4>4
      <4>6. QED BY <4>2, <4>3, <4>5
    <3>3. QED BY <1>0, <3>1, <3>2
  <2>7. Groups(keys, d, more, n + 1)
    BY <2>2, <2>5, <2>6 DEF Groups
  <2>8. QED BY <2>1, <2>7
<1>3. QED BY <1>1, <1>2

\* The bundles are the semantic groups of the input.
LEMMA BundlesAre ==
  ASSUME NEW keys \in Seq(Key)
  PROVE  \E ends : Groups(keys, Bundles(keys), ends, Len(keys))
<1> DEFINE n == Len(keys)
<1>0. n \in Nat
  OBVIOUS
<1>1. PICK f : /\ f[0] = <<>> /\ Bundles(keys) = f[n]
               /\ \A k \in 1..n : f[k] = AddBlock(keys, f[k - 1], k)
  BY BundlesTrace
<1> DEFINE T == {k \in 0..n : \E ends : Groups(keys, f[k], ends, k)}
<1>2. 0 \in T
  <2>1. <<>> \in Seq(Seq(Nat)) /\ Len(<<>>) = 0
    OBVIOUS
  <2>2. [k \in 0..0 |-> 0] \in [0..0 -> 0..0] /\ [k \in 0..0 |-> 0][0] = 0
    OBVIOUS
  <2>3. Groups(keys, <<>>, [k \in 0..0 |-> 0], 0)
    BY <2>1, <2>2 DEF Groups, Divides
  <2>4. QED BY <1>0, <1>1, <2>3
<1>3. ASSUME NEW k \in 0..n - 1, k \in T PROVE k + 1 \in T
  <2>1. k + 1 \in 1..n /\ k + 1 - 1 = k /\ k + 1 \in 0..n
    BY <1>0
  <2>2. PICK ends : Groups(keys, f[k], ends, k)
    BY <1>3
  <2>3. \E more : Groups(keys, AddBlock(keys, f[k], k + 1), more, k + 1)
    BY <2>2, AddBlockGroups
  <2>4. f[k + 1] = AddBlock(keys, f[k], k + 1)
    BY <1>1, <2>1
  <2>5. QED BY <2>1, <2>3, <2>4
<1> HIDE DEF T
<1>4. n \in 0..n
  BY <1>0
<1>5. n \in T
  BY <1>0, <1>2, <1>3, <1>4, UpTo
<1>6. QED BY <1>1, <1>5 DEF T

Acc == [batches : Seq(Seq(Nat)), current : Seq(Nat)]
NoBatch == [batches |-> <<>>, current |-> <<>>]
Packing(bundles) == FoldLeft(AddBundle, NoBatch, bundles)

LEMMA CutType ==
  ASSUME NEW acc \in Acc
  PROVE  /\ Cut(acc) \in Acc
         /\ acc.current # <<>> => /\ Cut(acc).batches = Append(acc.batches, acc.current)
                                  /\ Cut(acc).current = <<>>
         /\ acc.current = <<>> => Cut(acc) = acc
<1>1. /\ acc.batches \in Seq(Seq(Nat)) /\ acc.current \in Seq(Nat)
  BY DEF Acc
<1>2. Append(acc.batches, acc.current) \in Seq(Seq(Nat)) /\ <<>> \in Seq(Nat)
  BY <1>1
<1>3. QED BY <1>2 DEF Cut, Acc

\* AddBundle in terms of its parts.
Opened(acc, bundle) == IF Len(acc.current) + Len(bundle) > BatchSize THEN Cut(acc) ELSE acc
Joined(acc, bundle) == [acc EXCEPT !.current = acc.current \o bundle]

LEMMA AddBundleIs ==
  ASSUME NEW acc, NEW bundle
  PROVE  LET more == Joined(Opened(acc, bundle), bundle)
         IN  AddBundle(acc, bundle) = IF Len(more.current) >= BatchSize THEN Cut(more) ELSE more
BY Zenon DEF AddBundle, Joined, Opened

LEMMA JoinedType ==
  ASSUME NEW acc \in Acc, NEW bundle \in Seq(Nat)
  PROVE  /\ Opened(acc, bundle) \in Acc
         /\ Joined(acc, bundle) \in Acc
         /\ Joined(acc, bundle).batches = acc.batches
         /\ Joined(acc, bundle).current = acc.current \o bundle
<1>1. acc.current \o bundle \in Seq(Nat)
  BY ConcatProperties DEF Acc
<1>2. Opened(acc, bundle) \in Acc
  BY CutType DEF Opened
<1>3. QED BY <1>1, <1>2 DEF Joined, Acc

LEMMA AddBundleType ==
  ASSUME NEW acc \in Acc, NEW bundle \in Seq(Nat)
  PROVE  AddBundle(acc, bundle) \in Acc
<1>1. Opened(acc, bundle) \in Acc
  BY JoinedType
<1>2. Joined(Opened(acc, bundle), bundle) \in Acc
  BY <1>1, JoinedType
<1>3. Cut(Joined(Opened(acc, bundle), bundle)) \in Acc
  BY <1>2, CutType
<1>4. QED BY <1>2, <1>3, AddBundleIs

LEMMA PackingTrace ==
  ASSUME NEW bundles \in Seq(Seq(Nat))
  PROVE  \E f : /\ f[0] = NoBatch /\ Packing(bundles) = f[Len(bundles)]
                /\ \A k \in 1..Len(bundles) : f[k] = AddBundle(f[k - 1], bundles[k])
<1> DEFINE n == Len(bundles)
<1>0. n \in Nat /\ DOMAIN bundles = 1..n /\ \A k \in 1..n : bundles[k] \in Seq(Nat)
  OBVIOUS
<1> HIDE DEF n
<1> DEFINE G == [i \in 1..n |-> [a \in Acc |-> AddBundle(a, bundles[i])]]
<1>1. \E it \in [SUBSET (1..n) -> Acc] : Iterates(it, n, NoBatch, G)
  <2>1. NoBatch \in Acc
    BY DEF NoBatch, Acc
  <2>2. G \in [1..n -> [Acc -> Acc]]
    BY <1>0, AddBundleType
  <2> HIDE DEF G
  <2>3. QED BY <1>0, <2>1, <2>2, FoldIter
<1>2. \E it : it = [S \in SUBSET (1..n) |-> IF S = {} THEN NoBatch
                      ELSE AddBundle(it[S \ {Max(S)}], bundles[Max(S)])]
  <2>1. PICK it \in [SUBSET (1..n) -> Acc] : \A S \in SUBSET (1..n) :
             it[S] = IF S = {} THEN NoBatch ELSE G[Max(S)][it[S \ {Max(S)}]]
    BY <1>1 DEF Iterates
  <2>2. ASSUME NEW S \in SUBSET (1..n), S # {}
        PROVE  it[S] = AddBundle(it[S \ {Max(S)}], bundles[Max(S)])
    <3>1. Max(S) \in 1..n
      BY <1>0, <2>2, MaxIs
    <3>2. S \ {Max(S)} \in SUBSET (1..n)
      OBVIOUS
    <3>3. it[S \ {Max(S)}] \in Acc
      BY <2>1, <3>2
    <3>4. G[Max(S)][it[S \ {Max(S)}]] = AddBundle(it[S \ {Max(S)}], bundles[Max(S)])
      BY <3>1, <3>3
    <3>5. it[S] = G[Max(S)][it[S \ {Max(S)}]]
      BY <2>1, <2>2
    <3>6. QED BY <3>4, <3>5, Zenon
  <2>3. it[{}] = NoBatch
    BY <2>1
  <2>4. it = [S \in SUBSET (1..n) |-> IF S = {} THEN NoBatch
                ELSE AddBundle(it[S \ {Max(S)}], bundles[Max(S)])]
    BY <2>1, <2>2, <2>3
  <2>5. QED BY <2>4
<1> DEFINE it == CHOOSE it : it = [S \in SUBSET (1..n) |-> IF S = {} THEN NoBatch
                      ELSE AddBundle(it[S \ {Max(S)}], bundles[Max(S)])]
<1>3. it = [S \in SUBSET (1..n) |-> IF S = {} THEN NoBatch
                      ELSE AddBundle(it[S \ {Max(S)}], bundles[Max(S)])]
  BY <1>2, Zenon
<1>4. Packing(bundles) = it[1..n]
  BY <1>0, Zenon DEF Packing, FoldLeft, MapThenFoldSet
<1> HIDE DEF it
<1> DEFINE f == [k \in 0..n |-> it[1..k]]
<1>5. f[0] = NoBatch
  <2>1. 1..0 = {} /\ 1..0 \in SUBSET (1..n) /\ 0 \in 0..n
    BY <1>0
  <2>2. it[1..0] = NoBatch
    BY <1>3, <2>1
  <2>3. QED BY <2>1, <2>2
<1>6. ASSUME NEW k \in 1..n PROVE f[k] = AddBundle(f[k - 1], bundles[k])
  <2>1. /\ 1..k \in SUBSET (1..n) /\ 1..k # {} /\ Max(1..k) = k
        /\ (1..k) \ {k} = 1..k - 1 /\ k \in 0..n /\ k - 1 \in 0..n
    BY <1>0, MaxUpTo
  <2>2. it[1..k] = AddBundle(it[1..k - 1], bundles[k])
    BY <1>3, <2>1
  <2>3. QED BY <2>1, <2>2
<1>7. f[n] = it[1..n]
  BY <1>0
<1> HIDE DEF f
<1>8. QED BY <1>4, <1>5, <1>6, <1>7 DEF n

\* No semantic group goes on after block a.
Boundary(keys, a) == a \in 1..Len(keys) - 1 => keys[a + 1] # keys[a]

\* A span of more blocks than a batch holds is one group.
FitsOrWhole(keys, a, b) == b - a > BatchSize => OneKey(keys, a, b)

\* The first m blocks are in batches, and those after them up to e in the
\* current one.
Packed(keys, acc, cuts, m, e) ==
  /\ acc \in Acc /\ Divides(acc.batches, cuts, m)
  /\ m \in 0..e /\ acc.current = Span(m, e) /\ FitsOrWhole(keys, m, e)
  /\ \A k \in 0..Len(acc.batches) : Boundary(keys, cuts[k])
  /\ \A k \in 1..Len(acc.batches) : FitsOrWhole(keys, cuts[k - 1], cuts[k])

LEMMA CutPacked ==
  ASSUME NEW keys \in Seq(Key), NEW e \in Nat, Boundary(keys, e),
         NEW acc, NEW cuts, NEW m, Packed(keys, acc, cuts, m, e)
  PROVE  \E more : Packed(keys, Cut(acc), more, e, e)
<1>0. m \in Nat /\ m <= e /\ acc \in Acc /\ Divides(acc.batches, cuts, m) /\ acc.current = Span(m, e)
  BY DEF Packed
<1>1. Len(Span(m, e)) = e - m /\ Span(m, e) \in Seq(Nat)
  BY <1>0, SpanType
<1>2. Span(e, e) = <<>> /\ FitsOrWhole(keys, e, e) /\ e \in 0..e
  <2>1. e - e = 0 /\ e <= e
    OBVIOUS
  <2>2. Span(e, e) \in Seq(Nat) /\ Len(Span(e, e)) = 0
    BY <2>1, SpanType
  <2>3. ~(e - e > BatchSize)
    BY <2>1, SizesAssumption
  <2>4. QED BY <2>2, <2>3 DEF FitsOrWhole
<1>3. CASE acc.current = <<>>
  <2>1. m = e
    BY <1>0, <1>1, <1>3
  <2>2. Cut(acc) = acc
    BY <1>0, <1>3, CutType
  <2>3. QED BY <2>1, <2>2
<1>4. CASE acc.current # <<>>
  <2> DEFINE c == acc.batches
             d == Append(c, Span(m, e))
             more == [k \in 0..Len(c) + 1 |-> IF k <= Len(c) THEN cuts[k] ELSE e]
  <2>1. /\ Cut(acc) \in Acc /\ Cut(acc).batches = d /\ Cut(acc).current = <<>>
    BY <1>0, <1>4, CutType
  <2>2. m < e
    BY <1>0, <1>1, <1>4
  <2>3. Divides(d, more, e)
    BY <1>0, <2>2, DividesMore, Zenon
  <2>4. c \in Seq(Seq(Nat)) /\ Len(c) \in Nat /\ cuts \in [0..Len(c) -> 0..m] /\ cuts[Len(c)] = m
    BY <1>0 DEF Divides
  <2>5. more[Len(c) + 1] = e /\ \A k \in 0..Len(c) : more[k] = cuts[k]
    BY <2>4
  <2>6. Len(d) = Len(c) + 1
    BY <1>1, <2>4
  <2>7. /\ \A k \in 0..Len(c) : Boundary(keys, cuts[k])
        /\ \A k \in 1..Len(c) : FitsOrWhole(keys, cuts[k - 1], cuts[k])
        /\ FitsOrWhole(keys, m, e)
    BY DEF Packed
  <2> HIDE DEF c, d, more
  <2>8. ASSUME NEW k \in 0..Len(d) PROVE Boundary(keys, more[k])
    <3>1. CASE k = Len(c) + 1
      BY <2>5, <3>1
    <3>2. CASE k # Len(c) + 1
      <4>1. k \in 0..Len(c)
        BY <2>4, <2>6, <3>2
      <4>2. QED BY <2>5, <2>7, <4>1
    <3>3. QED BY <3>1, <3>2
  <2>9. ASSUME NEW k \in 1..Len(d) PROVE FitsOrWhole(keys, more[k - 1], more[k])
    <3>1. CASE k = Len(c) + 1
      <4>1. k - 1 = Len(c) /\ Len(c) \in 0..Len(c)
        BY <2>4, <3>1
      <4>2. more[k - 1] = m /\ more[k] = e
        BY <2>4, <2>5, <3>1, <4>1
      <4>3. QED BY <2>7, <4>2
    <3>2. CASE k # Len(c) + 1
      <4>1. k \in 1..Len(c) /\ k \in 0..Len(c) /\ k - 1 \in 0..Len(c)
        BY <2>4, <2>6, <3>2
      <4>2. more[k - 1] = cuts[k - 1] /\ more[k] = cuts[k]
        BY <2>5, <4>1
      <4>3. QED BY <2>7, <4>1, <4>2
    <3>3. QED BY <3>1, <3>2
  <2>10. Packed(keys, Cut(acc), more, e, e)
    BY <1>2, <2>1, <2>3, <2>8, <2>9 DEF Packed
  <2>11. QED BY <2>10
<1>5. QED BY <1>3, <1>4

\* A group is added to the current batch or to one of its own.
LEMMA AddBundlePacked ==
  ASSUME NEW keys \in Seq(Key), NEW a \in Nat, NEW b \in Nat, a < b,
         Boundary(keys, a), Boundary(keys, b), OneKey(keys, a, b),
         NEW acc, NEW cuts, NEW m, Packed(keys, acc, cuts, m, a), a - m < BatchSize
  PROVE  \E more, m2 : Packed(keys, AddBundle(acc, Span(a, b)), more, m2, b) /\ b - m2 < BatchSize
<1> DEFINE bundle == Span(a, b)
           open == Opened(acc, bundle)
           full == Joined(open, bundle)
<1>0. BatchSize \in Nat /\ BatchSize > 0
  BY SizesAssumption
<1>1. /\ m \in Nat /\ m <= a /\ acc \in Acc /\ acc.current = Span(m, a)
  BY DEF Packed
<1>2. /\ Len(acc.current) = a - m /\ bundle \in Seq(Nat) /\ Len(bundle) = b - a
  <2>1. a <= b
    OBVIOUS
  <2>2. QED BY <1>1, <2>1, SpanType
<1>3. \E cuts1, m1 : Packed(keys, open, cuts1, m1, a) /\ FitsOrWhole(keys, m1, b)
  <2>1. CASE Len(acc.current) + Len(bundle) > BatchSize
    <3>1. open = Cut(acc)
      BY <2>1 DEF Opened
    <3>2. \E more : Packed(keys, Cut(acc), more, a, a)
      BY CutPacked
    <3>3. FitsOrWhole(keys, a, b)
      BY DEF FitsOrWhole
    <3>4. QED BY <3>1, <3>2, <3>3
  <2>2. CASE ~(Len(acc.current) + Len(bundle) > BatchSize)
    <3>1. open = acc
      BY <2>2 DEF Opened
    <3>2. ~(b - m > BatchSize)
      BY <1>0, <1>1, <1>2, <2>2
    <3>3. FitsOrWhole(keys, m, b)
      BY <3>2 DEF FitsOrWhole
    <3>4. QED BY <3>1, <3>3
  <2>3. QED BY <2>1, <2>2
<1>4. PICK cuts1, m1 : Packed(keys, open, cuts1, m1, a) /\ FitsOrWhole(keys, m1, b)
  BY <1>3
<1>5. /\ m1 \in Nat /\ m1 <= a /\ open \in Acc /\ open.current = Span(m1, a)
  BY <1>4 DEF Packed
<1>6. Span(m1, a) \o Span(a, b) = Span(m1, b)
  <2>1. a <= b
    OBVIOUS
  <2>2. QED BY <1>5, <2>1, SpanJoin
<1> HIDE DEF open
<1>7. full \in Acc /\ full.batches = open.batches /\ full.current = Span(m1, b)
  <2>1. full.current = open.current \o bundle /\ full \in Acc /\ full.batches = open.batches
    BY <1>2, <1>5, JoinedType
  <2>2. QED BY <1>5, <1>6, <2>1
<1>8. AddBundle(acc, Span(a, b)) = IF Len(full.current) >= BatchSize THEN Cut(full) ELSE full
  BY AddBundleIs, Zenon DEF open
<1> HIDE DEF full
<1>9. Packed(keys, full, cuts1, m1, b)
  <2>1. m1 \in 0..b
    BY <1>5
  <2>2. QED BY <1>4, <1>7, <2>1 DEF Packed
<1>10. Len(full.current) = b - m1
  <2>1. m1 <= b
    BY <1>5
  <2>2. QED BY <1>5, <1>7, <2>1, SpanType
<1>11. CASE Len(full.current) >= BatchSize
  <2>1. \E more : Packed(keys, Cut(full), more, b, b)
    BY <1>9, CutPacked
  <2>2. b - b < BatchSize
    BY <1>0
  <2>3. QED BY <1>8, <1>11, <2>1, <2>2
<1>12. CASE ~(Len(full.current) >= BatchSize)
  <2>1. b - m1 < BatchSize
    BY <1>0, <1>5, <1>10, <1>12
  <2>2. QED BY <1>8, <1>9, <1>12, <2>1
<1>13. QED BY <1>11, <1>12

\* The batches of an input end with its groups, and one that is larger than
\* BatchSize is one group.
BatchesEnd(keys, cuts) ==
  /\ Divides(Batches(keys), cuts, Len(keys))
  /\ \A k \in 0..Len(Batches(keys)) : Boundary(keys, cuts[k])
  /\ \A k \in 1..Len(Batches(keys)) : FitsOrWhole(keys, cuts[k - 1], cuts[k])

LEMMA BatchesAre ==
  ASSUME NEW keys \in Seq(Key)
  PROVE  \E cuts : BatchesEnd(keys, cuts)
<1>1. PICK ends : Groups(keys, Bundles(keys), ends, Len(keys))
  BY BundlesAre
<1>2. PICK c : c = Bundles(keys)
  OBVIOUS
<1> DEFINE n == Len(c)
<1>3. /\ c \in Seq(Seq(Nat)) /\ n \in Nat /\ Len(keys) \in Nat
      /\ ends \in [0..n -> 0..Len(keys)] /\ ends[0] = 0 /\ ends[n] = Len(keys)
  BY <1>1, <1>2 DEF Groups, Divides
<1>4. \A k \in 1..n : /\ ends[k - 1] < ends[k] /\ c[k] = Span(ends[k - 1], ends[k])
                      /\ k > 1 => keys[ends[k - 1] + 1] # keys[ends[k - 1]]
                      /\ OneKey(keys, ends[k - 1], ends[k])
  BY <1>1, <1>2 DEF Groups, Divides
<1>5. PICK f : /\ f[0] = NoBatch /\ Packing(c) = f[n]
               /\ \A k \in 1..n : f[k] = AddBundle(f[k - 1], c[k])
  BY <1>3, PackingTrace
<1>6. Batches(keys) = Cut(f[n]).batches
  BY <1>2, <1>5, Zenon DEF Batches, Packing, NoBatch
<1> HIDE DEF n
<1>7. ASSUME NEW k \in 0..n PROVE ends[k] \in Nat /\ Boundary(keys, ends[k])
  <2>1. ends[k] \in 0..Len(keys)
    BY <1>3
  <2>2. CASE k = 0
    BY <1>3, <2>2 DEF Boundary
  <2>3. CASE k = n
    BY <1>3, <2>3 DEF Boundary
  <2>4. CASE k # 0 /\ k # n
    <3>1. k + 1 \in 1..n /\ k + 1 > 1 /\ k + 1 - 1 = k
      BY <1>3, <2>4
    <3>2. keys[ends[k] + 1] # keys[ends[k]]
      BY <1>4, <3>1
    <3>3. QED BY <2>1, <3>2 DEF Boundary
  <2>5. QED BY <2>1, <2>2, <2>3, <2>4
<1> DEFINE T == {k \in 0..n : \E cuts, m : /\ Packed(keys, f[k], cuts, m, ends[k])
                                          /\ ends[k] - m < BatchSize}
<1>8. 0 \in T
  <2>1. <<>> \in Seq(Seq(Nat)) /\ Len(<<>>) = 0 /\ <<>> \in Seq(Nat)
    OBVIOUS
  <2>2. [k \in 0..0 |-> 0] \in [0..0 -> 0..0] /\ [k \in 0..0 |-> 0][0] = 0
    OBVIOUS
  <2>3. Divides(<<>>, [k \in 0..0 |-> 0], 0)
    BY <2>1, <2>2 DEF Divides
  <2>4. Span(0, 0) = <<>>
    <3>1. Span(0, 0) \in Seq(Nat) /\ Len(Span(0, 0)) = 0
      <4>1. 0 \in Nat /\ 0 <= 0 /\ 0 - 0 = 0
        OBVIOUS
      <4>2. QED BY <4>1, SpanType
    <3>2. QED BY <3>1
  <2>5. NoBatch \in Acc /\ NoBatch.batches = <<>> /\ NoBatch.current = <<>>
    BY <2>1 DEF NoBatch, Acc
  <2>6. BatchSize > 0 /\ BatchSize \in Nat
    BY SizesAssumption
  <2>7. FitsOrWhole(keys, 0, 0) /\ Boundary(keys, 0)
    BY <1>3, <2>6 DEF FitsOrWhole, Boundary
  <2>8. Packed(keys, NoBatch, [k \in 0..0 |-> 0], 0, 0)
    BY <2>1, <2>2, <2>3, <2>4, <2>5, <2>7 DEF Packed
  <2>9. QED BY <1>3, <1>5, <2>6, <2>8
<1>9. ASSUME NEW k \in 0..n - 1, k \in T PROVE k + 1 \in T
  <2>1. k + 1 \in 1..n /\ k + 1 - 1 = k /\ k + 1 \in 0..n /\ k \in 0..n
    BY <1>3
  <2>2. PICK cuts, m : Packed(keys, f[k], cuts, m, ends[k]) /\ ends[k] - m < BatchSize
    BY <1>9
  <2>3. /\ f[k + 1] = AddBundle(f[k], Span(ends[k], ends[k + 1]))
        /\ ends[k] < ends[k + 1] /\ OneKey(keys, ends[k], ends[k + 1])
    BY <1>4, <1>5, <2>1
  <2>4. /\ ends[k] \in Nat /\ Boundary(keys, ends[k])
        /\ ends[k + 1] \in Nat /\ Boundary(keys, ends[k + 1])
    BY <1>7, <2>1
  <2>5. \E more, m2 : Packed(keys, f[k + 1], more, m2, ends[k + 1]) /\ ends[k + 1] - m2 < BatchSize
    BY <2>2, <2>3, <2>4, AddBundlePacked
  <2>6. QED BY <2>1, <2>5
<1> HIDE DEF T
<1>10. n \in 0..n
  BY <1>3
<1>11. n \in T
  BY <1>3, <1>8, <1>9, <1>10, UpTo
<1>12. PICK cuts, m : Packed(keys, f[n], cuts, m, Len(keys))
  BY <1>3, <1>11 DEF T
<1>13. PICK more : Packed(keys, Cut(f[n]), more, Len(keys), Len(keys))
  BY <1>3, <1>7, <1>10, <1>12, CutPacked
<1>14. BatchesEnd(keys, more)
  BY <1>6, <1>13 DEF BatchesEnd, Packed
<1>15. QED BY <1>14

\* Spans one after the other are the positions they divide.
LEMMA FlattenDivided ==
  ASSUME NEW n \in Nat, NEW c, NEW ends, Divides(c, ends, n)
  PROVE  FlattenSeq(c) = Span(0, n)
<1> DEFINE l == Len(c)
<1>0. l \in Nat /\ c \in Seq(Seq(Nat)) /\ ends \in [0..l -> 0..n] /\ ends[0] = 0 /\ ends[l] = n
  BY DEF Divides
<1>1. \A k \in 1..l : c[k] = Span(ends[k - 1], ends[k]) /\ ends[k - 1] < ends[k]
  BY DEF Divides
<1>2. CASE l = 0
  <2>1. FlattenSeq(c) = c /\ c = <<>>
    BY <1>0, <1>2 DEF FlattenSeq
  <2>2. n = 0 /\ 0 <= 0 /\ 0 - 0 = 0
    BY <1>0, <1>2
  <2>3. Span(0, 0) \in Seq(Nat) /\ Len(Span(0, 0)) = 0
    BY <2>2, SpanType
  <2>4. QED BY <2>1, <2>2, <2>3
<1>3. CASE l # 0
  <2> DEFINE fl == CHOOSE fl : fl = [i \in 1..l |-> IF i = 1 THEN c[i] ELSE fl[i - 1] \o c[i]]
  <2>1. FlattenSeq(c) = fl[l]
    BY <1>3, Zenon DEF FlattenSeq
  <2> HIDE DEF l
  <2>2. \E f : f = [i \in 1..l |-> IF i = 1 THEN c[i] ELSE f[i - 1] \o c[i]]
    <3> DEFINE f == [i \in 1..l |-> Span(0, ends[i])]
    <3>1. ASSUME NEW i \in 1..l PROVE f[i] = IF i = 1 THEN c[i] ELSE f[i - 1] \o c[i]
      <4>1. CASE i = 1
        <5>1. i - 1 = 0
          BY <4>1
        <5>2. QED BY <1>0, <1>1, <4>1, <5>1
      <4>2. CASE i # 1
        <5>1. i - 1 \in 1..l /\ i - 1 \in 0..l /\ i \in 0..l
          BY <1>0, <4>2
        <5>2. /\ ends[i - 1] \in Nat /\ ends[i] \in Nat /\ 0 <= ends[i - 1]
              /\ ends[i - 1] <= ends[i] /\ c[i] = Span(ends[i - 1], ends[i])
          BY <1>0, <1>1, <5>1
        <5>3. Span(0, ends[i - 1]) \o Span(ends[i - 1], ends[i]) = Span(0, ends[i])
          BY <5>2, SpanJoin
        <5>4. f[i - 1] = Span(0, ends[i - 1]) /\ f[i] = Span(0, ends[i])
          BY <5>1
        <5>5. QED BY <4>2, <5>2, <5>3, <5>4
      <4>3. QED BY <4>1, <4>2
    <3>2. f = [i \in 1..l |-> IF i = 1 THEN c[i] ELSE f[i - 1] \o c[i]]
      <4>1. DOMAIN f = 1..l /\ f = [i \in 1..l |-> f[i]]
        OBVIOUS
      <4> HIDE DEF f
      <4>2. QED BY <3>1, <4>1
    <3>3. QED BY <3>2
  <2>3. fl = [i \in 1..l |-> IF i = 1 THEN c[i] ELSE fl[i - 1] \o c[i]]
    BY <2>2, Zenon
  <2> HIDE DEF fl
  <2> DEFINE T == {k \in 0..l : k # 0 => fl[k] = Span(0, ends[k])}
  <2>4. 0 \in T
    BY <1>0
  <2>5. ASSUME NEW k \in 0..l - 1, k \in T PROVE k + 1 \in T
    <3>1. k + 1 \in 1..l /\ k + 1 - 1 = k /\ k \in 0..l /\ k + 1 \in 0..l
      BY <1>0
    <3>2. /\ k + 1 = 1 => fl[k + 1] = c[k + 1]
          /\ k + 1 # 1 => fl[k + 1] = fl[k] \o c[k + 1]
      <4>1. \A i \in 1..l : i = 1 => fl[i] = c[i]
        BY <2>3
      <4>2. \A i \in 1..l : i # 1 => fl[i] = fl[i - 1] \o c[i]
        BY <2>3
      <4>3. PICK i \in 1..l : i = k + 1 /\ i - 1 = k
        BY <3>1
      <4>4. QED BY <4>1, <4>2, <4>3
    <3>3. /\ ends[k] \in Nat /\ ends[k + 1] \in Nat /\ 0 <= ends[k]
          /\ ends[k] <= ends[k + 1] /\ c[k + 1] = Span(ends[k], ends[k + 1])
      BY <1>0, <1>1, <3>1
    <3>4. CASE k = 0
      BY <1>0, <3>1, <3>2, <3>3, <3>4
    <3>5. CASE k # 0
      <4>1. fl[k] = Span(0, ends[k])
        BY <2>5, <3>5
      <4>2. Span(0, ends[k]) \o Span(ends[k], ends[k + 1]) = Span(0, ends[k + 1])
        BY <3>3, SpanJoin
      <4>3. k + 1 # 1
        BY <3>5
      <4>4. fl[k + 1] = Span(0, ends[k + 1])
        BY <3>2, <3>3, <4>1, <4>2, <4>3
      <4>5. QED BY <3>1, <4>4
    <3>6. QED BY <3>4, <3>5
  <2> HIDE DEF T
  <2>6. l \in 0..l
    BY <1>0
  <2>7. l \in T
    BY <1>0, <2>4, <2>5, <2>6, UpTo
  <2>8. QED BY <1>0, <1>3, <2>1, <2>7 DEF T
<1>4. QED BY <1>2, <1>3

\* Whatever the input, the batches are its blocks in their order, and divide no
\* semantic group.
THEOREM BatchesAreGrouped ==
  ASSUME NEW keys \in Seq(Key)
  PROVE  Grouped(keys)
<1>1. PICK cuts : BatchesEnd(keys, cuts)
  BY BatchesAre
<1>2. PICK c : c = Batches(keys)
  OBVIOUS
<1> DEFINE l == Len(c)
           n == Len(keys)
<1>3. /\ l \in Nat /\ n \in Nat /\ Divides(c, cuts, n) /\ c \in Seq(Seq(Nat)) /\ DOMAIN c = 1..l
      /\ cuts \in [0..l -> 0..n] /\ cuts[0] = 0 /\ cuts[l] = n
      /\ DOMAIN keys = 1..n
  BY <1>1, <1>2 DEF BatchesEnd, Divides
<1>4. \A k \in 1..l : c[k] = Span(cuts[k - 1], cuts[k]) /\ cuts[k - 1] < cuts[k]
  BY <1>3 DEF Divides
<1>5. /\ \A k \in 0..l : Boundary(keys, cuts[k])
      /\ \A k \in 1..l : FitsOrWhole(keys, cuts[k - 1], cuts[k])
  BY <1>1, <1>2 DEF BatchesEnd
<1> HIDE DEF l, n
<1>6. FlattenSeq(c) = [i \in DOMAIN keys |-> i]
  <2>1. FlattenSeq(c) = Span(0, n)
    BY <1>3, FlattenDivided
  <2>2. n - 0 = n /\ \A i \in 1..n : 0 + i = i
    BY <1>3
  <2>3. Span(0, n) = [i \in 1..n |-> i]
    BY <2>2 DEF Span
  <2>4. QED BY <1>3, <2>1, <2>3
<1>7. ASSUME NEW b \in DOMAIN c
      PROVE  /\ c[b] # <<>>
             /\ b > 1 => keys[c[b][1]] # keys[c[b][1] - 1]
             /\ Len(c[b]) > BatchSize => \A i \in DOMAIN c[b] : keys[c[b][i]] = keys[c[b][1]]
  <2>1. b \in 1..l /\ b \in 0..l /\ b - 1 \in 0..l
    BY <1>3
  <2> DEFINE x == cuts[b - 1]
             y == cuts[b]
  <2>2. x \in 0..n /\ y \in 0..n /\ x < y /\ c[b] = Span(x, y)
    BY <1>3, <1>4, <2>1
  <2>3. Boundary(keys, x) /\ FitsOrWhole(keys, x, y)
    BY <1>5, <2>1
  <2> HIDE DEF x, y
  <2>4. /\ c[b] \in Seq(Nat) /\ Len(c[b]) = y - x
        /\ \A i \in 1..y - x : c[b][i] = x + i
    <3>1. x \in Nat /\ y \in Nat /\ x <= y
      BY <1>3, <2>2
    <3>2. QED BY <2>2, <3>1, SpanType
  <2>5. 1 \in 1..y - x /\ y - x # 0
    BY <1>3, <2>2
  <2>6. c[b] # <<>> /\ c[b][1] = x + 1 /\ DOMAIN c[b] = 1..y - x
    BY <2>4, <2>5
  <2>7. ASSUME b > 1 PROVE keys[x + 1] # keys[x]
    <3>1. b - 1 \in 1..l /\ b - 1 - 1 \in 0..l
      BY <1>3, <2>1, <2>7
    <3>2. cuts[b - 1 - 1] < x /\ cuts[b - 1 - 1] \in 0..n
      BY <1>3, <1>4, <3>1 DEF x
    <3>3. x \in 1..n - 1
      BY <1>3, <2>2, <3>2
    <3>4. QED BY <2>3, <3>3 DEF Boundary, n
  <2>8. ASSUME Len(c[b]) > BatchSize, NEW i \in DOMAIN c[b] PROVE keys[c[b][i]] = keys[x + 1]
    <3>1. OneKey(keys, x, y)
      BY <2>3, <2>4, <2>8 DEF FitsOrWhole
    <3>2. i \in 1..y - x /\ c[b][i] = x + i
      BY <2>4, <2>6
    <3>3. x \in Nat /\ y \in Nat
      BY <1>3, <2>2
    <3>4. x + i \in x + 1..y
      BY <3>2, <3>3
    <3>5. QED BY <3>1, <3>2, <3>4 DEF OneKey
  <2>9. x + 1 - 1 = x
    BY <1>3, <2>2
  <2>10. b > 1 => keys[c[b][1]] # keys[c[b][1] - 1]
    <3>1. c[b][1] - 1 = x
      BY <1>3, <2>2, <2>6
    <3>2. QED BY <2>6, <2>7, <3>1
  <2>11. Len(c[b]) > BatchSize => \A i \in DOMAIN c[b] : keys[c[b][i]] = keys[c[b][1]]
    BY <2>6, <2>8
  <2>12. QED BY <2>6, <2>10, <2>11
<1>8. QED BY <1>2, <1>6, <1>7, Zenon DEF Grouped

\* The element MapThenSumSet takes from s.
Taken(s) == CHOOSE x \in s : TRUE

LEMMA TakenIs == ASSUME NEW s, s # {} PROVE Taken(s) \in s
BY DEF Taken

\* The sum over all subsets at once.
Sums(it, c) ==
  /\ it \in [SUBSET DOMAIN c -> Nat]
  /\ \A s \in SUBSET DOMAIN c : it[s] = IF s = {} THEN 0 ELSE Len(c[Taken(s)]) + it[s \ {Taken(s)}]

LEMMA SumsExist ==
  ASSUME NEW c \in Seq(Seq(Nat))
  PROVE  \E it : Sums(it, c)
<1> DEFINE D == DOMAIN c
           pick == [s \in SUBSET D |-> Taken(s)]
           G == [b \in D |-> [v \in Nat |-> Len(c[b]) + v]]
<1>1. IsFiniteSet(D) /\ \A b \in D : Len(c[b]) \in Nat
  <2>1. Len(c) \in Nat /\ D = 1..Len(c) /\ \A b \in 1..Len(c) : c[b] \in Seq(Nat)
    OBVIOUS
  <2>2. IsFiniteSet(1..Len(c))
    BY <2>1, FS_Interval
  <2>3. QED BY <2>1, <2>2
<1> HIDE DEF D
<1>2. \A s \in SUBSET D : pick[s] = Taken(s) /\ (s # {} => pick[s] \in s)
  BY TakenIs
<1>3. G \in [D -> [Nat -> Nat]]
  BY <1>1
<1>4. \A b \in D : \A v \in Nat : G[b][v] = Len(c[b]) + v
  OBVIOUS
<1> HIDE DEF pick, G
<1>5. PICK it \in [SUBSET D -> Nat] : FoldsSet(it, D, 0, pick, G)
  BY <1>1, <1>2, <1>3, SetFoldExists
<1>6. ASSUME NEW s \in SUBSET D
      PROVE  it[s] = IF s = {} THEN 0 ELSE Len(c[Taken(s)]) + it[s \ {Taken(s)}]
  <2>1. CASE s = {}
    BY <1>5, <2>1 DEF FoldsSet
  <2>2. CASE s # {}
    <3>1. Taken(s) \in D /\ it[s \ {Taken(s)}] \in Nat /\ pick[s] = Taken(s)
      BY <1>2, <1>5, <2>2
    <3>2. it[s] = G[Taken(s)][it[s \ {Taken(s)}]]
      BY <1>5, <2>2, <3>1 DEF FoldsSet
    <3>3. QED BY <1>4, <2>2, <3>1, <3>2
  <2>3. QED BY <2>1, <2>2
<1>7. QED BY <1>5, <1>6 DEF Sums, D

LEMMA LoadIs ==
  ASSUME NEW c \in Seq(Seq(Nat)), NEW it, Sums(it, c), NEW S \in SUBSET DOMAIN c
  PROVE  Load(c, S) = it[S]
<1> DEFINE jt == CHOOSE jt : jt = [s \in SUBSET S |-> IF s = {} THEN 0
                     ELSE Len(c[CHOOSE x \in s : TRUE]) + jt[s \ {CHOOSE x \in s : TRUE}]]
<1>1. Load(c, S) = jt[S]
  BY Zenon DEF Load, MapThenSumSet, MapThenFoldSet
<1>2. \E f : f = [s \in SUBSET S |-> IF s = {} THEN 0
                     ELSE Len(c[CHOOSE x \in s : TRUE]) + f[s \ {CHOOSE x \in s : TRUE}]]
  <2> DEFINE f == [s \in SUBSET S |-> it[s]]
  <2>1. ASSUME NEW s \in SUBSET S
        PROVE  f[s] = IF s = {} THEN 0 ELSE Len(c[Taken(s)]) + f[s \ {Taken(s)}]
    <3>1. s \in SUBSET DOMAIN c /\ s \ {Taken(s)} \in SUBSET S
      OBVIOUS
    <3>2. f[s] = it[s] /\ f[s \ {Taken(s)}] = it[s \ {Taken(s)}]
      BY <3>1
    <3>3. QED BY <3>1, <3>2 DEF Sums
  <2>2. f = [s \in SUBSET S |-> f[s]]
    OBVIOUS
  <2> HIDE DEF f
  <2>3. f = [s \in SUBSET S |-> IF s = {} THEN 0 ELSE Len(c[Taken(s)]) + f[s \ {Taken(s)}]]
    BY <2>1, <2>2
  <2>4. QED BY <2>3, Zenon DEF Taken
<1>3. jt = [s \in SUBSET S |-> IF s = {} THEN 0
              ELSE Len(c[CHOOSE x \in s : TRUE]) + jt[s \ {CHOOSE x \in s : TRUE}]]
  BY <1>2, Zenon
<1> HIDE DEF jt
<1>4. \A s \in SUBSET S : jt[s] = IF s = {} THEN 0 ELSE Len(c[Taken(s)]) + jt[s \ {Taken(s)}]
  <2>1. jt = [s \in SUBSET S |-> IF s = {} THEN 0 ELSE Len(c[Taken(s)]) + jt[s \ {Taken(s)}]]
    BY <1>3, Zenon DEF Taken
  <2>2. QED BY <2>1
<1> DEFINE T == {s \in SUBSET S : jt[s] = it[s]}
<1>5. ASSUME NEW s \in SUBSET S, \A x \in s : s \ {x} \in T PROVE s \in T
  <2>1. s \in SUBSET DOMAIN c
    OBVIOUS
  <2>2. CASE s = {}
    BY <1>4, <2>1, <2>2 DEF Sums
  <2>3. CASE s # {}
    <3>1. Taken(s) \in s
      BY <2>3, TakenIs
    <3>2. jt[s \ {Taken(s)}] = it[s \ {Taken(s)}]
      BY <1>5, <3>1
    <3>3. QED BY <1>4, <2>1, <2>3, <3>2 DEF Sums
  <2>4. QED BY <2>2, <2>3
<1> HIDE DEF T
<1>6. IsFiniteSet(S)
  <2>1. DOMAIN c = 1..Len(c) /\ Len(c) \in Nat
    OBVIOUS
  <2>2. IsFiniteSet(DOMAIN c)
    BY <2>1, FS_Interval
  <2>3. QED BY <2>2, FS_Subset
<1>7. S \in T
  <2>1. \A s \in SUBSET S : (\A x \in s : s \ {x} \in T) => s \in T
    BY <1>5
  <2>2. \A s \in SUBSET S : s \in T
    BY <1>6, <2>1, Subsets
  <2>3. QED BY <2>2
<1>8. QED BY <1>1, <1>7 DEF T

\* The order of the sum does not matter.
AddsTo(it, c, s, x) == it[s] = Len(c[x]) + it[s \ {x}]

LEMMA SumsAdd ==
  ASSUME NEW c \in Seq(Seq(Nat)), NEW it, Sums(it, c), NEW S \in SUBSET DOMAIN c, NEW e \in S
  PROVE  AddsTo(it, c, S, e)
<1> DEFINE D == DOMAIN c
<1> DEFINE T == {s \in SUBSET D : \A b \in s : it[s] = Len(c[b]) + it[s \ {b}]}
<1>1. IsFiniteSet(D) /\ \A b \in D : Len(c[b]) \in Nat
  <2>1. Len(c) \in Nat /\ D = 1..Len(c) /\ \A b \in 1..Len(c) : c[b] \in Seq(Nat)
    OBVIOUS
  <2>2. IsFiniteSet(1..Len(c))
    BY <2>1, FS_Interval
  <2>3. QED BY <2>1, <2>2
<1>2. /\ it \in [SUBSET D -> Nat]
      /\ \A s \in SUBSET D : s # {} => it[s] = Len(c[Taken(s)]) + it[s \ {Taken(s)}]
  BY DEF Sums
<1> HIDE DEF D
<1>3. ASSUME NEW s \in SUBSET D, \A x \in s : s \ {x} \in T PROVE s \in T
  <2> SUFFICES ASSUME NEW b \in s PROVE it[s] = Len(c[b]) + it[s \ {b}]
    OBVIOUS
  <2>1. PICK a \in s : a = Taken(s)
    BY TakenIs
  <2>2. it[s] = Len(c[a]) + it[s \ {a}]
    BY <1>2, <2>1
  <2>3. CASE a = b
    BY <2>2, <2>3
  <2>4. CASE a # b
    <3>1. /\ s \ {a} \in T /\ s \ {b} \in T /\ b \in s \ {a} /\ a \in s \ {b}
      BY <1>3, <2>4
    <3>2. it[s \ {a}] = Len(c[b]) + it[(s \ {a}) \ {b}]
      BY <3>1
    <3>3. it[s \ {b}] = Len(c[a]) + it[(s \ {b}) \ {a}]
      BY <3>1
    <3>4. PICK r \in SUBSET D : r = (s \ {a}) \ {b}
      OBVIOUS
    <3>5. (s \ {b}) \ {a} = r
      BY <3>4
    <3>6. it[r] \in Nat /\ Len(c[a]) \in Nat /\ Len(c[b]) \in Nat
      BY <1>1, <1>2
    <3> HIDE DEF T
    <3>7. it[s] = Len(c[a]) + (Len(c[b]) + it[r]) /\ it[s \ {b}] = Len(c[a]) + it[r]
      BY <2>2, <3>2, <3>3, <3>4, <3>5
    <3>8. QED BY <3>6, <3>7
  <2>5. QED BY <2>3, <2>4
<1> HIDE DEF T
<1>4. \A s \in SUBSET D : s \in T
  BY <1>1, <1>3, Subsets
<1>5. \A s \in SUBSET D : \A b \in s : it[s] = Len(c[b]) + it[s \ {b}]
  BY <1>4 DEF T
<1>6. QED BY <1>5, Zenon DEF D, AddsTo

\* The work of batches adds up.
LEMMA LoadAdds ==
  ASSUME NEW c \in Seq(Seq(Nat))
  PROVE  \A S \in SUBSET DOMAIN c :
           /\ Load(c, S) \in Nat /\ (S = {} => Load(c, S) = 0)
           /\ \A b \in S : Load(c, S) = Len(c[b]) + Load(c, S \ {b})
<1>1. PICK it : Sums(it, c)
  BY SumsExist
<1>2. SUFFICES ASSUME NEW S \in SUBSET DOMAIN c
               PROVE  /\ Load(c, S) \in Nat /\ (S = {} => Load(c, S) = 0)
                      /\ \A b \in S : Load(c, S) = Len(c[b]) + Load(c, S \ {b})
  OBVIOUS
<1>3. Load(c, S) = it[S] /\ it[S] \in Nat /\ (S = {} => it[S] = 0)
  <2>1. Load(c, S) = it[S]
    BY <1>1, LoadIs
  <2>2. QED BY <1>1, <2>1 DEF Sums
<1>4. ASSUME NEW b \in S PROVE Load(c, S) = Len(c[b]) + Load(c, S \ {b})
  <2>1. S \ {b} \in SUBSET DOMAIN c
    OBVIOUS
  <2>2. Load(c, S \ {b}) = it[S \ {b}]
    BY <1>1, <2>1, LoadIs
  <2>3. it[S] = Len(c[b]) + it[S \ {b}]
    <3>1. AddsTo(it, c, S, b)
      BY <1>1, SumsAdd
    <3>2. QED BY <3>1 DEF AddsTo
  <2>4. QED BY <1>3, <2>2, <2>3
<1>5. QED BY <1>3, <1>4

\* Of different batches one is dealt before the other.
LEMMA BeforeOrders ==
  ASSUME NEW c \in Seq(Seq(Nat)), NEW a \in DOMAIN c, NEW b \in DOMAIN c, NEW d \in DOMAIN c
  PROVE  /\ a # b => Before(c, a, b) \/ Before(c, b, a)
         /\ Before(c, a, b) /\ Before(c, b, d) => Before(c, a, d)
         /\ Before(c, a, b) => Len(c[b]) <= Len(c[a])
<1>1. /\ Len(c[a]) \in Nat /\ Len(c[b]) \in Nat /\ Len(c[d]) \in Nat
      /\ a \in Nat /\ b \in Nat /\ d \in Nat
  OBVIOUS
<1>2. QED BY <1>1 DEF Before

\* One of a set is the last.
LEMMA LastIs ==
  ASSUME NEW c \in Seq(Seq(Nat)), NEW S \in SUBSET DOMAIN c, S # {}
  PROVE  /\ LastOf(c, S) \in S
         /\ \A a \in S : Len(c[LastOf(c, S)]) <= Len(c[a])
<1> DEFINE D == DOMAIN c
           T == {s \in SUBSET D : s # {} => \E b \in s : \A a \in s \ {b} : Before(c, a, b)}
<1>1. IsFiniteSet(D)
  <2>1. DOMAIN c = 1..Len(c) /\ Len(c) \in Nat
    OBVIOUS
  <2>2. QED BY <2>1, FS_Interval
<1>2. /\ \A p, q \in D : p # q => Before(c, p, q) \/ Before(c, q, p)
      /\ \A p, q, r \in D : Before(c, p, q) /\ Before(c, q, r) => Before(c, p, r)
      /\ \A p, q \in D : Before(c, p, q) => Len(c[q]) <= Len(c[p])
  BY BeforeOrders
<1>3. \A b \in D : Len(c[b]) <= Len(c[b])
  <2>1. \A b \in D : Len(c[b]) \in Nat
    OBVIOUS
  <2>2. QED BY <2>1
<1> HIDE DEF D
<1>4. ASSUME NEW s \in SUBSET D, \A x \in s : s \ {x} \in T PROVE s \in T
  <2> SUFFICES ASSUME s # {} PROVE \E b \in s : \A a \in s \ {b} : Before(c, a, b)
    OBVIOUS
  <2>1. PICK x \in s : TRUE
    OBVIOUS
  <2>2. CASE s \ {x} = {}
    BY <2>1, <2>2
  <2>3. CASE s \ {x} # {}
    <3>1. PICK b \in s \ {x} : \A a \in (s \ {x}) \ {b} : Before(c, a, b)
      BY <1>4, <2>3
    <3>2. CASE Before(c, x, b)
      <4>1. \A a \in s \ {b} : Before(c, a, b)
        BY <3>1, <3>2
      <4>2. QED BY <4>1
    <3>3. CASE ~Before(c, x, b)
      <4>1. Before(c, b, x)
        <5>1. b \in D /\ x \in D /\ x # b
          BY <3>1
        <5>2. QED BY <1>2, <3>3, <5>1, Zenon
      <4>2. ASSUME NEW a \in s \ {x} PROVE Before(c, a, x)
        <5>1. CASE a = b
          BY <4>1, <5>1
        <5>2. CASE a # b
          <6>1. Before(c, a, b)
            BY <3>1, <5>2
          <6>2. a \in D /\ b \in D /\ x \in D
            BY <3>1
          <6>3. QED BY <1>2, <4>1, <6>1, <6>2, Zenon
        <5>3. QED BY <5>1, <5>2
      <4>3. QED BY <4>2
    <3>4. QED BY <3>2, <3>3
  <2>4. QED BY <2>2, <2>3
<1> HIDE DEF T
<1>5. S \in T
  <2>1. \A s \in SUBSET D : (\A x \in s : s \ {x} \in T) => s \in T
    BY <1>4
  <2>2. \A s \in SUBSET D : s \in T
    BY <1>1, <2>1, Subsets
  <2>3. S \in SUBSET D
    BY DEF D
  <2>4. QED BY <2>2, <2>3
<1>6. \E b \in S : \A a \in S \ {b} : Before(c, a, b)
  BY <1>5 DEF T
<1>7. LastOf(c, S) \in S /\ \A a \in S \ {LastOf(c, S)} : Before(c, a, LastOf(c, S))
  BY <1>6, Zenon DEF LastOf
<1>8. ASSUME NEW a \in S PROVE Len(c[LastOf(c, S)]) <= Len(c[a])
  <2>1. a \in D /\ LastOf(c, S) \in D
    BY <1>7 DEF D
  <2>2. CASE a = LastOf(c, S)
    BY <1>3, <2>1, <2>2, Zenon
  <2>3. CASE a # LastOf(c, S)
    <3>1. Before(c, a, LastOf(c, S))
      BY <1>7, <2>3, Zenon
    <3>2. QED BY <1>2, <2>1, <3>1, Zenon
  <2>4. QED BY <2>2, <2>3
<1>9. QED BY <1>7, <1>8

\* One bucket is the lightest.
LEMMA LightestIs ==
  ASSUME NEW c \in Seq(Seq(Nat)), NEW w \in Nat \ {0}, NEW buckets \in [1..w -> SUBSET DOMAIN c]
  PROVE  /\ Lightest(c, buckets) \in 1..w
         /\ \A l \in 1..w : Load(c, buckets[Lightest(c, buckets)]) <= Load(c, buckets[l])
<1> DEFINE L == [k \in 1..w |-> Load(c, buckets[k])]
<1>1. \A k \in 1..w : L[k] \in Nat /\ L[k] = Load(c, buckets[k])
  BY LoadAdds
<1> HIDE DEF L
<1> DEFINE N == {L[k] : k \in 1..w}
<1>2. N \subseteq Nat /\ N # {}
  <2>1. 1 \in 1..w
    OBVIOUS
  <2>2. QED BY <1>1, <2>1
<1>3. PICK v \in N : \A u \in N : v <= u
  BY <1>2, Least
<1> DEFINE K == {k \in 1..w : L[k] = v}
<1>4. K \subseteq Nat /\ K # {}
  BY <1>3
<1>5. PICK m \in K : \A k \in K : m <= k
  BY <1>4, Least
<1>6. ASSUME NEW l \in 1..w PROVE L[m] < L[l] \/ (L[m] = L[l] /\ m <= l)
  <2>1. L[l] \in N /\ v <= L[l] /\ L[m] = v /\ L[l] \in Nat /\ L[m] \in Nat
    BY <1>1, <1>3, <1>5
  <2>2. CASE L[l] = v
    BY <1>5, <2>1, <2>2
  <2>3. CASE L[l] # v
    BY <2>1, <2>3
  <2>4. QED BY <2>2, <2>3
<1>7. DOMAIN buckets = 1..w
  OBVIOUS
<1> DEFINE best == Lightest(c, buckets)
<1>8. \E k \in DOMAIN buckets : \A l \in DOMAIN buckets :
        \/ Load(c, buckets[k]) < Load(c, buckets[l])
        \/ Load(c, buckets[k]) = Load(c, buckets[l]) /\ k <= l
  <2>1. m \in 1..w
    BY <1>5
  <2>2. \A l \in 1..w : \/ Load(c, buckets[m]) < Load(c, buckets[l])
                        \/ Load(c, buckets[m]) = Load(c, buckets[l]) /\ m <= l
    BY <1>1, <1>6, <2>1
  <2>3. QED BY <1>7, <2>1, <2>2
<1>9. /\ best \in DOMAIN buckets
      /\ \A l \in DOMAIN buckets :
           \/ Load(c, buckets[best]) < Load(c, buckets[l])
           \/ Load(c, buckets[best]) = Load(c, buckets[l]) /\ best <= l
  BY <1>8, Zenon DEF Lightest
<1> HIDE DEF best
<1>10. ASSUME NEW l \in 1..w PROVE Load(c, buckets[best]) <= Load(c, buckets[l])
  <2>1. \/ Load(c, buckets[best]) < Load(c, buckets[l])
        \/ Load(c, buckets[best]) = Load(c, buckets[l])
    BY <1>7, <1>9
  <2>2. Load(c, buckets[best]) \in Nat /\ Load(c, buckets[l]) \in Nat
    BY <1>1, <1>7, <1>9
  <2>3. QED BY <2>1, <2>2
<1>11. QED BY <1>7, <1>9, <1>10 DEF best

\* What Assignments does with one batch.
DealTo(c, b, buckets) ==
  LET k == Lightest(c, buckets) IN [buckets EXCEPT ![k] = buckets[k] \union {b}]

\* The batches of s are dealt out to w workers.
Dealt(c, w, s, buckets) ==
  /\ buckets \in [1..w -> SUBSET s]
  /\ \A b \in s : \E p \in 1..w : b \in buckets[p] /\ \A q \in 1..w \ {p} : b \notin buckets[q]
  /\ \A p, q \in 1..w : \A b \in buckets[p] :
       Load(c, buckets[p]) <= Load(c, buckets[q]) + Len(c[b])
  /\ (\E p \in 1..w : buckets[p] = {}) => \A p \in 1..w : \A a, b \in buckets[p] : a = b

LEMMA DealStep ==
  ASSUME NEW c \in Seq(Seq(Nat)), \A b \in DOMAIN c : c[b] # <<>>,
         NEW w \in Nat \ {0}, NEW s \in SUBSET DOMAIN c, s # {},
         NEW buckets, Dealt(c, w, s \ {LastOf(c, s)}, buckets)
  PROVE  Dealt(c, w, s, DealTo(c, LastOf(c, s), buckets))
<1> DEFINE x == LastOf(c, s)
           k == Lightest(c, buckets)
           more == [buckets EXCEPT ![k] = buckets[k] \union {x}]
<1>1. x \in s /\ \A a \in s : Len(c[x]) <= Len(c[a])
  BY LastIs
<1>2. \A b \in DOMAIN c : Len(c[b]) \in Nat /\ Len(c[b]) > 0
  OBVIOUS
<1>3. buckets \in [1..w -> SUBSET (s \ {x})] /\ buckets \in [1..w -> SUBSET DOMAIN c]
  BY DEF Dealt
<1>4. k \in 1..w /\ \A l \in 1..w : Load(c, buckets[k]) <= Load(c, buckets[l])
  BY <1>3, LightestIs
<1>5. DealTo(c, LastOf(c, s), buckets) = more
  BY DEF DealTo
<1> HIDE DEF x, k
<1>6. /\ more \in [1..w -> SUBSET s] /\ more[k] = buckets[k] \union {x}
      /\ \A p \in 1..w : p # k => more[p] = buckets[p]
      /\ \A p \in 1..w : x \notin buckets[p]
  BY <1>1, <1>3, <1>4
<1> HIDE DEF more
<1>7. /\ \A p \in 1..w : Load(c, buckets[p]) \in Nat
      /\ Load(c, more[k]) = Load(c, buckets[k]) + Len(c[x])
      /\ x \in DOMAIN c
  <2>1. more[k] \in SUBSET DOMAIN c /\ x \in more[k] /\ more[k] \ {x} = buckets[k] /\ x \in DOMAIN c
    BY <1>1, <1>3, <1>4, <1>6
  <2>2. \A p \in 1..w : Load(c, buckets[p]) \in Nat
    BY <1>3, LoadAdds
  <2>3. Load(c, more[k]) = Len(c[x]) + Load(c, more[k] \ {x})
    BY <2>1, LoadAdds, ZenonT(40)
  <2>4. Load(c, more[k]) = Len(c[x]) + Load(c, buckets[k])
    BY <2>1, <2>3
  <2>5. Load(c, buckets[k]) \in Nat /\ Len(c[x]) \in Nat
    BY <1>2, <1>4, <2>1, <2>2
  <2>6. Load(c, more[k]) = Load(c, buckets[k]) + Len(c[x])
    BY <2>4, <2>5
  <2>7. QED BY <2>1, <2>2, <2>6
<1>8. ASSUME NEW b \in s
      PROVE \E p \in 1..w : b \in more[p] /\ \A q \in 1..w \ {p} : b \notin more[q]
  <2>1. CASE b = x
    BY <1>4, <1>6, <2>1
  <2>2. CASE b # x
    <3>1. PICK p \in 1..w : b \in buckets[p] /\ \A q \in 1..w \ {p} : b \notin buckets[q]
      BY <2>2 DEF Dealt, x
    <3>2. b \in more[p]
      BY <1>6, <3>1
    <3>3. ASSUME NEW q \in 1..w \ {p} PROVE b \notin more[q]
      BY <1>6, <2>2, <3>1
    <3>4. QED BY <3>2, <3>3
  <2>3. QED BY <2>1, <2>2
<1>9. ASSUME NEW p \in 1..w, NEW q \in 1..w, NEW b \in more[p]
      PROVE  Load(c, more[p]) <= Load(c, more[q]) + Len(c[b])
  <2>1. /\ Load(c, buckets[p]) \in Nat /\ Load(c, buckets[q]) \in Nat /\ Load(c, buckets[k]) \in Nat
        /\ Len(c[x]) \in Nat /\ Len(c[b]) \in Nat /\ b \in s
    BY <1>2, <1>4, <1>6, <1>7
  <2>2. Load(c, buckets[q]) <= Load(c, more[q]) /\ Load(c, more[q]) \in Nat
    <3>1. CASE q = k
      <4>1. Load(c, more[q]) = Load(c, buckets[q]) + Len(c[x])
        BY <1>7, <3>1, Zenon
      <4>2. \A i, j \in Nat : i <= i + j /\ i + j \in Nat
        OBVIOUS
      <4>3. QED BY <2>1, <4>1, <4>2, Zenon
    <3>2. CASE q # k
      <4>1. more[q] = buckets[q]
        BY <1>6, <3>2
      <4>2. Load(c, buckets[q]) <= Load(c, buckets[q])
        BY <2>1
      <4>3. QED BY <2>1, <4>1, <4>2
    <3>3. QED BY <3>1, <3>2
  <2>4. CASE p = k
    <3>1. Load(c, more[p]) = Load(c, buckets[k]) + Len(c[x])
      BY <1>7, <2>4
    <3>2. Load(c, buckets[k]) <= Load(c, buckets[q]) /\ Len(c[x]) <= Len(c[b])
      BY <1>1, <1>4, <2>1
    <3> DEFINE lk == Load(c, buckets[k])
               lq == Load(c, buckets[q])
               lm == Load(c, more[q])
               nx == Len(c[x])
               nb == Len(c[b])
    <3>3. /\ lk \in Nat /\ lq \in Nat /\ lm \in Nat /\ nx \in Nat /\ nb \in Nat
          /\ lk <= lq /\ lq <= lm /\ nx <= nb
      BY <2>1, <2>2, <3>2
    <3> HIDE DEF lk, lq, lm, nx, nb
    <3>4. lk + nx <= lm + nb
      BY <3>3
    <3>5. QED BY <3>1, <3>4 DEF lk, lm, nx, nb
  <2>5. CASE p # k
    <3>1. more[p] = buckets[p]
      BY <1>6, <2>5
    <3>2. Load(c, buckets[p]) <= Load(c, buckets[q]) + Len(c[b])
      BY <3>1 DEF Dealt
    <3>3. QED BY <2>1, <2>2, <3>1, <3>2
  <2>6. QED BY <2>4, <2>5
<1>10. ASSUME NEW e \in 1..w, more[e] = {}, NEW p \in 1..w, NEW a \in more[p], NEW b \in more[p]
       PROVE  a = b
  <2>1. e # k /\ buckets[e] = {}
    BY <1>6, <1>10
  <2>2. Load(c, buckets[e]) = 0
    BY <2>1, LoadAdds
  <2>3. buckets[k] = {}
    <3>1. SUFFICES ASSUME NEW d \in buckets[k] PROVE FALSE
      OBVIOUS
    <3>2. buckets[k] \in SUBSET DOMAIN c /\ buckets[k] \ {d} \in SUBSET DOMAIN c /\ d \in DOMAIN c
      BY <1>3, <1>4
    <3>3. /\ Load(c, buckets[k]) = Len(c[d]) + Load(c, buckets[k] \ {d})
          /\ Load(c, buckets[k] \ {d}) \in Nat
      BY <3>2, LoadAdds
    <3>4. Load(c, buckets[k]) <= 0
      BY <1>4, <2>2
    <3>5. Len(c[d]) \in Nat /\ Len(c[d]) > 0
      BY <1>2, <3>2
    <3>6. QED BY <3>3, <3>4, <3>5
  <2>4. CASE p = k
    BY <1>6, <1>10, <2>3, <2>4
  <2>5. CASE p # k
    <3>1. a \in buckets[p] /\ b \in buckets[p]
      BY <1>6, <1>10, <2>5
    <3>2. QED BY <2>1, <3>1 DEF Dealt
  <2>6. QED BY <2>4, <2>5
<1>11. Dealt(c, w, s, more)
  BY <1>6, <1>8, <1>9, <1>10 DEF Dealt
<1>12. QED BY <1>5, <1>11

\* With no more workers than batches, none is left without.
LEMMA NoneEmpty ==
  ASSUME NEW l \in Nat, NEW c \in Seq(Seq(Nat)), DOMAIN c = 1..l,
         NEW w \in 1..l, NEW buckets, Dealt(c, w, DOMAIN c, buckets)
  PROVE  \A p \in 1..w : buckets[p] # {}
<1> SUFFICES ASSUME NEW e \in 1..w, buckets[e] = {} PROVE FALSE
  OBVIOUS
<1>1. \A p \in 1..w : \A a, b \in buckets[p] : a = b
  BY DEF Dealt
<1>2. \A b \in 1..l : \E p \in 1..w : b \in buckets[p]
  BY DEF Dealt
<1> DEFINE home == [b \in 1..l |-> CHOOSE p \in 1..w : b \in buckets[p]]
           others == (1..w) \ {e}
<1>3. \A b \in 1..l : home[b] \in 1..w /\ b \in buckets[home[b]]
  BY <1>2
<1> HIDE DEF home
<1>4. home \in [1..l -> others]
  <2>1. \A b \in 1..l : home[b] # e
    BY <1>3
  <2>2. home = [b \in 1..l |-> home[b]]
    BY DEF home
  <2>3. QED BY <1>3, <2>1, <2>2
<1>5. IsFiniteSet(1..l) /\ Cardinality(1..l) = l
  BY FS_Interval
<1>6. IsFiniteSet(others) /\ Cardinality(others) = w - 1
  <2>1. IsFiniteSet(1..w) /\ Cardinality(1..w) = w
    BY FS_Interval
  <2>2. QED BY <2>1, FS_RemoveElement
<1> HIDE DEF others
<1>7. home \in Injection(1..l, others)
  <2>1. \A a, b \in 1..l : home[a] = home[b] => a = b
    BY <1>1, <1>3
  <2>2. QED BY <1>4, <2>1 DEF Injection, IsInjective
<1>8. Cardinality(1..l) <= Cardinality(others)
  BY <1>6, <1>7, FS_Injection
<1>9. QED BY <1>5, <1>6, <1>8

Workers(c) == IF Len(c) < MaxConcurrency THEN Len(c) ELSE MaxConcurrency
NoWork(c) == [k \in 1..Workers(c) |-> {}]

\* Assignments deals the batches out in their order, the last one last.
LEMMA DealTrace ==
  ASSUME NEW keys, NEW c \in Seq(Seq(Nat)), Batches(keys) = c
  PROVE  \E f : /\ Assignments(keys) = f[DOMAIN c] /\ f[{}] = NoWork(c)
                /\ \A s \in SUBSET DOMAIN c : s # {} =>
                     f[s] = DealTo(c, LastOf(c, s), f[s \ {LastOf(c, s)}])
<1> DEFINE D == DOMAIN c
           w == Workers(c)
           A == [1..w -> SUBSET D]
           pick == [s \in SUBSET D |-> LastOf(c, s)]
           G == [b \in D |-> [v \in A |-> DealTo(c, b, v)]]
<1>0. Len(c) \in Nat /\ D = 1..Len(c) /\ IsFiniteSet(D)
  <2>1. Len(c) \in Nat /\ D = 1..Len(c)
    OBVIOUS
  <2>2. QED BY <2>1, FS_Interval
<1>1. \A s \in SUBSET D : pick[s] = LastOf(c, s) /\ (s # {} => pick[s] \in s)
  BY LastIs
<1>2. NoWork(c) \in A
  BY DEF NoWork
<1>3. G \in [D -> [A -> A]]
  <2> SUFFICES ASSUME NEW b \in D, NEW v \in A PROVE DealTo(c, b, v) \in A
    OBVIOUS
  <2>1. v[Lightest(c, v)] \union {b} \in SUBSET D \/ Lightest(c, v) \notin 1..w
    OBVIOUS
  <2>2. QED BY <2>1 DEF DealTo
<1>4. \A b \in D : \A v \in A : G[b][v] = DealTo(c, b, v)
  OBVIOUS
<1> HIDE DEF A, G, pick
<1>5. PICK it \in [SUBSET D -> A] : FoldsSet(it, D, NoWork(c), pick, G)
  BY <1>0, <1>1, <1>2, <1>3, SetFoldExists
<1>6. \E f : f = [s \in SUBSET D |-> IF s = {} THEN NoWork(c)
                    ELSE DealTo(c, LastOf(c, s), f[s \ {LastOf(c, s)}])]
  <2>1. ASSUME NEW s \in SUBSET D
        PROVE  it[s] = IF s = {} THEN NoWork(c) ELSE DealTo(c, LastOf(c, s), it[s \ {LastOf(c, s)}])
    <3>1. CASE s = {}
      BY <1>5, <3>1 DEF FoldsSet
    <3>2. CASE s # {}
      <4>1. pick[s] = LastOf(c, s) /\ LastOf(c, s) \in D /\ it[s \ {LastOf(c, s)}] \in A
        BY <1>1, <1>5, <3>2
      <4>2. it[s] = G[pick[s]][it[s \ {pick[s]}]]
        BY <1>5, <3>2 DEF FoldsSet
      <4>3. QED BY <1>4, <3>2, <4>1, <4>2
    <3>3. QED BY <3>1, <3>2
  <2>2. it = [s \in SUBSET D |-> IF s = {} THEN NoWork(c)
                ELSE DealTo(c, LastOf(c, s), it[s \ {LastOf(c, s)}])]
    BY <1>5, <2>1
  <2>3. QED BY <2>2
<1> DEFINE jt == CHOOSE jt : jt = [s \in SUBSET D |-> IF s = {} THEN NoWork(c)
                               ELSE DealTo(c, LastOf(c, s), jt[s \ {LastOf(c, s)}])]
<1>7. jt = [s \in SUBSET D |-> IF s = {} THEN NoWork(c)
              ELSE DealTo(c, LastOf(c, s), jt[s \ {LastOf(c, s)}])]
  BY <1>6, Zenon
<1>8. Assignments(keys) = jt[D]
  BY ZenonT(40) DEF Assignments, MapThenFoldSet, DealTo, NoWork, Workers
<1> HIDE DEF jt
<1>9. jt[{}] = NoWork(c)
  BY <1>7
<1>10. \A s \in SUBSET D : s # {} => jt[s] = DealTo(c, LastOf(c, s), jt[s \ {LastOf(c, s)}])
  BY <1>7
<1>11. QED BY <1>8, <1>9, <1>10

\* What Batches makes.
LEMMA BatchesType ==
  ASSUME NEW keys \in Seq(Key)
  PROVE  /\ Batches(keys) \in Seq(Seq(Nat))
         /\ \A b \in DOMAIN Batches(keys) : Batches(keys)[b] # <<>>
<1>1. \E cuts : BatchesEnd(keys, cuts)
  BY BatchesAre
<1>2. Grouped(keys)
  BY BatchesAreGrouped
<1>3. QED BY <1>1, <1>2 DEF BatchesEnd, Divides, Grouped

LEMMA AssignmentsAre ==
  ASSUME NEW keys \in Seq(Key)
  PROVE  LET c == Batches(keys)
         IN  Dealt(c, Workers(c), DOMAIN c, Assignments(keys))
<1> DEFINE c == Batches(keys)
           w == Workers(c)
           D == DOMAIN c
<1>1. c \in Seq(Seq(Nat)) /\ \A b \in DOMAIN c : c[b] # <<>>
  BY BatchesType
<1>2. Len(c) \in Nat /\ DOMAIN c = 1..Len(c) /\ w \in Nat /\ (D # {} => w # 0)
  BY <1>1, SizesAssumption DEF Workers
<1>3. IsFiniteSet(D)
  BY <1>2, FS_Interval
<1> HIDE DEF c
<1>4. PICK f : /\ Assignments(keys) = f[DOMAIN c] /\ f[{}] = NoWork(c)
               /\ \A s \in SUBSET DOMAIN c : s # {} =>
                     f[s] = DealTo(c, LastOf(c, s), f[s \ {LastOf(c, s)}])
  BY <1>1, DealTrace, ZenonT(40) DEF c
<1> HIDE DEF w, D
<1> DEFINE T == {s \in SUBSET D : Dealt(c, w, s, f[s])}
<1>5. ASSUME NEW s \in SUBSET D, \A x \in s : s \ {x} \in T PROVE s \in T
  <2>1. CASE s = {}
    <3>1. NoWork(c) \in [1..w -> SUBSET {}] /\ \A p \in 1..w : NoWork(c)[p] = {}
      BY DEF NoWork, w
    <3>2. Dealt(c, w, {}, NoWork(c))
      BY <3>1 DEF Dealt
    <3>3. QED BY <1>4, <2>1, <3>2
  <2>2. CASE s # {}
    <3>1. LastOf(c, s) \in s /\ s \in SUBSET DOMAIN c /\ w \in Nat \ {0}
      BY <1>1, <1>2, <2>2, LastIs DEF D
    <3>2. Dealt(c, w, s \ {LastOf(c, s)}, f[s \ {LastOf(c, s)}])
      BY <1>5, <3>1
    <3>3. Dealt(c, w, s, DealTo(c, LastOf(c, s), f[s \ {LastOf(c, s)}]))
      BY <1>1, <2>2, <3>1, <3>2, DealStep
    <3>4. QED BY <1>4, <2>2, <3>1, <3>3
  <2>3. QED BY <2>1, <2>2
<1> HIDE DEF T
<1>6. D \in T
  <2>1. \A s \in SUBSET D : (\A x \in s : s \ {x} \in T) => s \in T
    BY <1>5
  <2>2. \A s \in SUBSET D : s \in T
    BY <1>3, <2>1, Subsets
  <2>3. QED BY <2>2
<1>7. Dealt(c, w, DOMAIN c, Assignments(keys))
  BY <1>4, <1>6 DEF T, D
<1>8. QED BY <1>7 DEF c, w

\* Whatever the input, the batches are shared out to the threads, and none gets
\* more work than another and its own smallest batch together.
THEOREM AssignmentsAreBalanced ==
  ASSUME NEW keys \in Seq(Key)
  PROVE  Balanced(keys)
<1>1. PICK c : c = Batches(keys)
  OBVIOUS
<1>2. PICK parts : parts = Assignments(keys)
  OBVIOUS
<1>3. PICK w : w = Workers(c)
  OBVIOUS
<1>4. /\ c \in Seq(Seq(Nat)) /\ Len(c) \in Nat /\ DOMAIN c = 1..Len(c)
      /\ w \in 0..Len(c) /\ (Len(c) # 0 => w # 0)
  BY <1>1, <1>3, BatchesType, SizesAssumption DEF Workers
<1>5. Dealt(c, w, DOMAIN c, parts)
  BY <1>1, <1>2, <1>3, AssignmentsAre
<1>6. \A p \in 1..w : parts[p] # {}
  <2>1. CASE w = 0
    BY <2>1
  <2>2. CASE w # 0
    <3>1. w \in 1..Len(c)
      BY <1>4, <2>2
    <3>2. QED BY <1>4, <1>5, <3>1, NoneEmpty
  <2>3. QED BY <2>1, <2>2
<1>7. DOMAIN parts = 1..w
  BY <1>5 DEF Dealt
<1>8. QED BY <1>1, <1>2, <1>5, <1>6, <1>7, Zenon DEF Balanced, Dealt

\* The model's sample is sound, since every input is.
THEOREM SchedulesAreSound == Spec => []ScheduleSound
<1>1. ScheduleSound
  BY PoolAssumption, BatchesAreGrouped, AssignmentsAreBalanced DEF ScheduleSound
<1>2. QED BY <1>1, PTL

LEMMA DivisionType ==
  ASSUME NEW keys \in Seq(Key)
  PROVE  Len(Batches(keys)) \in Nat /\ Len(Assignments(keys)) \in Nat
<1>1. PICK c \in Seq(Seq(Nat)) : c = Batches(keys)
  BY BatchesType
<1>2. Len(c) \in Nat /\ Workers(c) \in Nat
  BY SizesAssumption DEF Workers
<1>3. Assignments(keys) \in [1..Workers(c) -> SUBSET DOMAIN c]
  BY <1>1, AssignmentsAre DEF Dealt
<1>4. Len(Assignments(keys)) = Workers(c)
  <2>1. PICK w \in Nat : w = Workers(c)
    BY <1>2
  <2>2. PICK parts \in [1..w -> SUBSET DOMAIN c] : parts = Assignments(keys)
    BY <1>3, <2>1
  <2>3. parts \in Seq(SUBSET DOMAIN c) /\ DOMAIN parts = 1..w
    BY <2>2, SeqDef
  <2>4. Len(parts) = w
    BY <2>3
  <2>5. QED BY <2>1, <2>2, <2>4
<1>5. QED BY <1>1, <1>2, <1>4

\* What a span holds.
LEMMA SpanMembers ==
  ASSUME NEW a \in Nat, NEW b \in Nat, a <= b
  PROVE  \A i \in Nat : i \in Members(Span(a, b)) <=> a < i /\ i <= b
<1>1. PICK s \in Seq(Nat) : s = Span(a, b) /\ Len(s) = b - a /\ \A k \in 1..b - a : s[k] = a + k
  BY SpanType
<1>2. Members(s) = {s[k] : k \in 1..b - a}
  BY <1>1 DEF Members
<1>3. ASSUME NEW i \in Nat, a < i, i <= b PROVE i \in Members(s)
  <2>1. i - a \in 1..b - a /\ a + (i - a) = i
    BY <1>3
  <2>2. QED BY <1>1, <1>2, <2>1
<1>4. ASSUME NEW i \in Nat, i \in Members(s) PROVE a < i /\ i <= b
  <2>1. PICK k \in 1..b - a : i = s[k]
    BY <1>2, <1>4
  <2>2. QED BY <1>1, <2>1
<1>5. QED BY <1>1, <1>3, <1>4

\* The ends of spans grow.
LEMMA EndsGrow ==
  ASSUME NEW n \in Nat, NEW c, NEW ends, Divides(c, ends, n),
         NEW j \in 0..Len(c), NEW k \in 0..Len(c), j <= k
  PROVE  ends[j] <= ends[k]
<1>1. /\ Len(c) \in Nat /\ ends \in [0..Len(c) -> 0..n]
      /\ \A m \in 1..Len(c) : ends[m - 1] < ends[m]
  BY DEF Divides
<1> DEFINE T == {m \in 0..Len(c) : j <= m => ends[j] <= ends[m]}
<1>2. 0 \in T
  BY <1>1
<1>3. ASSUME NEW m \in 0..Len(c) - 1, m \in T PROVE m + 1 \in T
  <2>1. m \in 0..Len(c) /\ m + 1 \in 1..Len(c) /\ m + 1 \in 0..Len(c) /\ m + 1 - 1 = m
    BY <1>1
  <2>2. /\ ends[m] < ends[m + 1] /\ ends[m] \in Nat /\ ends[m + 1] \in Nat /\ ends[j] \in Nat
    <3>1. ends[m + 1 - 1] < ends[m + 1]
      BY <1>1, <2>1
    <3>2. ends[m] \in 0..n /\ ends[m + 1] \in 0..n /\ ends[j] \in 0..n
      BY <1>1, <2>1
    <3>3. QED BY <2>1, <3>1, <3>2
  <2>3. CASE j <= m
    BY <1>3, <2>1, <2>2, <2>3
  <2>4. CASE j > m
    <3>1. j <= m + 1 => j = m + 1
      BY <1>1, <2>4
    <3>2. QED BY <2>1, <2>2, <3>1
  <2>5. QED BY <1>1, <2>3, <2>4
<1> HIDE DEF T
<1>4. k \in T
  BY <1>1, <1>2, <1>3, UpTo
<1>5. QED BY <1>4 DEF T

\* Every block is in one batch, and with it the one before it of its group.
InOneBatch(keys, c, i, b) ==
  /\ i \in Members(c[b]) /\ \A a \in DOMAIN c \ {b} : i \notin Members(c[a])
  /\ i > 1 /\ keys[i] = keys[i - 1] => i - 1 \in Members(c[b])

LEMMA BatchesHoldOnce ==
  ASSUME NEW keys \in Seq(Key), NEW c, c = Batches(keys), NEW i \in DOMAIN keys
  PROVE  \E b \in DOMAIN c : InOneBatch(keys, c, i, b)
<1>1. PICK cuts : BatchesEnd(keys, cuts)
  BY BatchesAre
<1>2. PICK n \in Nat : n = Len(keys) /\ i \in 1..n
  OBVIOUS
<1>3. PICK l \in Nat : l = Len(c) /\ c \in Seq(Seq(Nat)) /\ DOMAIN c = 1..l
  BY BatchesType
<1>4. Divides(c, cuts, n) /\ \A k \in 0..l : Boundary(keys, cuts[k])
  BY <1>1, <1>2, <1>3 DEF BatchesEnd
<1>5. /\ cuts \in [0..l -> 0..n] /\ cuts[0] = 0 /\ cuts[l] = n
      /\ \A k \in 1..l : cuts[k - 1] < cuts[k] /\ c[k] = Span(cuts[k - 1], cuts[k])
  BY <1>3, <1>4 DEF Divides
<1>6. ASSUME NEW k \in 1..l
      PROVE  /\ cuts[k - 1] \in Nat /\ cuts[k] \in Nat
             /\ \A j \in Nat : j \in Members(c[k]) <=> cuts[k - 1] < j /\ j <= cuts[k]
  <2>1. k - 1 \in 0..l /\ k \in 0..l
    BY <1>6
  <2>2. cuts[k - 1] \in Nat /\ cuts[k] \in Nat /\ cuts[k - 1] <= cuts[k]
    BY <1>5, <2>1
  <2>3. QED BY <1>5, <2>2, SpanMembers
<1> DEFINE S == {k \in 0..l : i <= cuts[k]}
<1>7. l \in S /\ S \subseteq Nat /\ S # {}
  <2>1. l \in S
    BY <1>2, <1>5
  <2>2. QED BY <2>1
<1>8. PICK b \in S : \A k \in S : b <= k
  BY <1>7, Least
<1>9. b \in 1..l /\ b - 1 \in 0..l /\ i <= cuts[b] /\ cuts[b - 1] < i /\ cuts[b - 1] \in 0..n
  <2>1. b \in 0..l /\ i <= cuts[b] /\ b # 0
    BY <1>2, <1>5
  <2>2. b - 1 \in 0..l /\ ~(b <= b - 1)
    BY <2>1
  <2>3. b - 1 \notin S
    BY <1>8, <2>2
  <2>4. cuts[b - 1] \in 0..n
    BY <1>5, <2>2
  <2>5. QED BY <1>2, <2>1, <2>2, <2>3, <2>4
<1> HIDE DEF S
<1>10. i \in Members(c[b])
  BY <1>2, <1>6, <1>9
<1>11. ASSUME NEW a \in 1..l, a # b PROVE i \notin Members(c[a])
  <2>1. /\ cuts[a - 1] \in Nat /\ cuts[a] \in Nat
        /\ i \in Members(c[a]) <=> cuts[a - 1] < i /\ i <= cuts[a]
    BY <1>2, <1>6
  <2>2. CASE a < b
    <3>1. a \in 0..l /\ ~(b <= a)
      BY <1>9, <2>2
    <3>2. QED BY <1>8, <2>1, <3>1 DEF S
  <2>3. CASE a > b
    <3>1. a - 1 \in 0..Len(c) /\ b \in 0..Len(c) /\ b <= a - 1
      BY <1>3, <1>9, <2>3
    <3>2. cuts[b] <= cuts[a - 1]
      BY <1>4, <3>1, EndsGrow
    <3>3. cuts[b] \in Nat
      BY <1>6, <1>9
    <3>4. QED BY <1>2, <1>9, <2>1, <3>2, <3>3
  <2>4. QED BY <1>9, <1>11, <2>2, <2>3
<1>12. ASSUME i > 1, keys[i] = keys[i - 1] PROVE i - 1 \in Members(c[b])
  <2>1. i - 1 \in Nat
    BY <1>2
  <2>2. CASE cuts[b - 1] = i - 1
    <3>1. cuts[b - 1] \in 1..n - 1 /\ cuts[b - 1] + 1 = i
      BY <1>2, <1>12, <2>2
    <3>2. Boundary(keys, cuts[b - 1])
      BY <1>4, <1>9
    <3>3. keys[i] # keys[i - 1]
      BY <1>2, <2>2, <3>1, <3>2 DEF Boundary
    <3>4. QED BY <1>12, <3>3
  <2>3. CASE cuts[b - 1] # i - 1
    <3>1. cuts[b - 1] < i - 1 /\ i - 1 <= cuts[b]
      <4>1. cuts[b] \in Nat
        BY <1>6, <1>9
      <4>2. QED BY <1>2, <1>9, <2>3, <4>1
    <3>2. QED BY <1>6, <1>9, <2>1, <3>1
  <2>4. QED BY <2>2, <2>3
<1>13. QED BY <1>3, <1>9, <1>10, <1>11, <1>12 DEF InOneBatch

-----------------------------------------------------------------------------
(* The inductive invariant. *)

\* Threads, tasks and listeners are numbered from 1, and only by what there is.
Numbered ==
  /\ \A t \in Thread : t > created => thread[t] = "none" /\ ready[t] = "wait"
  /\ \A t \in Members(pool) : t <= created
  /\ \A u \in User : pc[u] \in {"ready", "await", "own"} =>
       \A t \in Members(slots[u]) : t \in Thread /\ t <= created
  /\ \A x \in tasks \union listen : x.thread <= created /\ x.id <= sent

\* Who listens has posted, and listens on a thread of his own.
Listens ==
  \A l \in listen :
    /\ pc[l.work.user] \notin {"idle", "inline", "ready"}
    /\ pc[l.work.user] \in {"await", "own"} => l.thread \in Members(slots[l.work.user])

\* An answer that is taken is the answer that is waited for.
Matched == \A x \in tasks, l \in listen : x.thread = l.thread /\ x.id = l.id => x.work = l.work

\* Only the threads of the pool are sent numbered requests.
OwnTasks == \A x \in tasks : x.id = 0 => x.thread \notin Members(pool)

\* The threads of a request that uses its own are not the pool's nor another's,
\* and end only when they die or with their answers.
OwnApart ==
  \A r \in Request : pc[r] = "own" => \A t \in Members(slots[r]) :
    /\ t \notin Members(pool)
    /\ \A q \in Request \ {r} : pc[q] = "own" => t \notin Members(slots[q])
    /\ thread[t] \in {"failed", "ending"} => t \in died

\* Nobody but itself ends a thread of the pool.
PoolSound ==
  \A t \in Members(pool) :
    thread[t] \in {"failed", "ending", "gone"} \/ ready[t] = "no" => t \in died

FailedDied == \A t \in Thread : thread[t] = "failed" => t \in died
WarmAt == pc[Warm] \in {"ready", "await", "failed"}
DropExplained == \A r \in Request : pc[r] = "drop" => OwnFault(r)

GotOwn ==
  \A r \in Request : pc[r] # "idle" =>
    /\ DOMAIN got[r] = Parts(r)
    /\ \A p \in Parts(r) : got[r][p] \in {Open, Work(r, p)}
    /\ pc[r] \in {"reap", "done"} => \A p \in Parts(r) : got[r][p] # Open

PInv ==
  /\ Numbered /\ Listens /\ Matched /\ OwnTasks /\ OwnApart
  /\ PoolSound /\ FailedDied /\ WarmAt /\ PoolHeld /\ NoThreadLeaks

-----------------------------------------------------------------------------
(* Types. *)

LEMMA WarmIsOf == WarmCount \in Nat /\ WarmCount \in 1..MaxThreads
BY PoolAssumption, SizesAssumption DEF WarmCount

LEMMA NewOnes ==
  ASSUME NEW n \in Nat, created \in Nat, created + n <= MaxThreads
  PROVE  /\ NewThreads(n) \in Seq(Thread) /\ Len(NewThreads(n)) = n
         /\ \A t : t \in Members(NewThreads(n)) <=> t \in (created + 1)..(created + n)
<1>1. MaxThreads \in Nat
  BY PoolAssumption
<1>2. \A k \in 1..n : created + k \in Thread
  BY <1>1 DEF Thread
<1>3. NewThreads(n) \in Seq(Thread) /\ Len(NewThreads(n)) = n /\ DOMAIN NewThreads(n) = 1..n
  BY <1>2 DEF NewThreads
<1>4. \A t : t \in Members(NewThreads(n)) <=> \E k \in 1..n : t = created + k
  BY <1>3 DEF NewThreads, Members
<1>5. \A t \in (created + 1)..(created + n) : t - created \in 1..n /\ t = created + (t - created)
  OBVIOUS
<1> QED BY <1>3, <1>4, <1>5

LEMMA PartsCount ==
  ASSUME TypeOK, NEW r \in Request
  PROVE  NumParts(r) \in Nat
BY DEF TypeOK, NumParts

LEMMA MembersOf ==
  ASSUME NEW s \in Seq(Thread)
  PROVE  Members(s) \subseteq Thread
BY DEF Members

LEMMA TerminatedType ==
  ASSUME TypeOK, NEW S
  PROVE  Terminated(S) \in [Thread -> Life]
BY DEF TypeOK, Terminated, Life

LEMMA SettleType ==
  ASSUME TypeOK, NEW S, NEW pooled \in PC, NEW own \in PC, Settle(S, pooled, own)
  PROVE  pc' \in [User -> PC] /\ busy' \in BOOLEAN
BY DEF TypeOK, Settle

LEMMA InitType == Init => TypeOK
<1> SUFFICES ASSUME Init PROVE TypeOK
  OBVIOUS
<1>1. WarmCount \in Nat /\ WarmCount \in 1..MaxThreads /\ MaxThreads \in Nat
  BY WarmIsOf, PoolAssumption
<1>2. FreshPool \in Seq(Thread)
  BY <1>1 DEF FreshPool, Thread
<1>3. /\ thread \in [Thread -> Life] /\ ready \in [Thread -> {"wait", "yes", "no"}]
      /\ pool \in Seq(Thread) /\ created \in 0..MaxThreads /\ busy \in BOOLEAN
      /\ sent \in Nat /\ tasks = {} /\ listen = {}
  <2>1. /\ thread = FreshThread /\ ready = FreshReady /\ pool = FreshPool
        /\ created = WarmCount /\ busy = FALSE /\ sent = 0 /\ tasks = {} /\ listen = {}
    BY DEF Init
  <2>2. FreshThread \in [Thread -> Life] /\ FreshReady \in [Thread -> {"wait", "yes", "no"}]
    BY DEF FreshThread, FreshReady, Life
  <2>3. busy \in BOOLEAN
    BY <2>1
  <2>4. created \in 0..MaxThreads /\ sent \in Nat
    BY <2>1, <1>1
  <2> QED BY <2>1, <2>2, <2>3, <2>4, <1>2
<1>4. pc \in [User -> PC] /\ cursor \in [Request -> Nat] /\ slots \in [User -> Seq(Thread)]
  BY <1>2 DEF Init, PC
<1>5. threw \subseteq User /\ died \subseteq Thread /\ faults \in 0..MaxFaults
  BY PoolAssumption DEF Init
<1>6. DOMAIN input = Request
  BY DEF Init
<1>7. ASSUME NEW r \in Request
      PROVE  Len(input[r].batches) \in Nat /\ Len(input[r].parts) \in Nat
  <2>1. PICK q \in Request : \E x \in Input[q] : input[r] = Plan(x)
    BY DEF Init
  <2>2. PICK x \in Input[q] : input[r] = Plan(x)
    BY <2>1
  <2>3. input[r].batches = Batches(x) /\ input[r].parts = Assignments(x)
    BY <2>2 DEF Plan
  <2>4. x \in Seq(Key)
    BY <2>2, PoolAssumption
  <2> QED BY <2>3, <2>4, DivisionType
<1>8. DOMAIN got = Request
      /\ \A r \in Request : DOMAIN got[r] = {} /\ got[r] \in [DOMAIN got[r] -> [user : User, part : Nat]]
  BY DEF Init
<1> QED BY <1>3, <1>4, <1>5, <1>6, <1>7, <1>8 DEF TypeOK

LEMMA Typed == TypeOK /\ [Next]_vars => TypeOK'
<1> SUFFICES ASSUME TypeOK, [Next]_vars PROVE TypeOK'
  OBVIOUS
<1> USE DEF TypeOK, pooling, mail, marks
<1>n. MaxThreads \in Nat /\ MaxFaults \in Nat
  BY PoolAssumption
<1>p. ASSUME input' = input PROVE \A r \in Request : Parts(r)' = Parts(r)
  BY <1>p DEF Parts, NumParts, Threaded
<1>w. ASSUME NEW r \in Request, NEW p \in Parts(r)
      PROVE  Work(r, p) \in [user : User, part : Nat]
  BY DEF Work, User, Parts
<1>o. Open \in [user : User, part : Nat]
  BY DEF Open, Work, User
<1>g. ASSUME NEW r \in Request, input' = input, got' = [got EXCEPT ![r] = Unanswered(r)]
      PROVE  /\ DOMAIN got' = Request
             /\ \A q \in Request : DOMAIN got'[q] \subseteq Parts(q)'
             /\ \A q \in Request : got'[q] \in [DOMAIN got'[q] -> [user : User, part : Nat]]
  BY <1>g, <1>p, <1>o DEF Unanswered
<1>1. ASSUME NEW r \in Request, StartInline(r) PROVE TypeOK'
  <2>1. NumParts(r) \in Nat
    BY PartsCount
  <2>2. cursor' \in [Request -> Nat] /\ pc' \in [User -> PC]
    BY <1>1, <2>1, SizesAssumption DEF StartInline, PC, User
  <2> QED BY <1>1, <1>g, <2>2 DEF StartInline
<1>2. ASSUME NEW r \in Request, StartPooled(r) PROVE TypeOK'
  <2>1. NumParts(r) \in Nat
    BY PartsCount
  <2>2. /\ thread' \in [Thread -> Life] /\ ready' \in [Thread -> {"wait", "yes", "no"}]
        /\ pool' \in Seq(Thread) /\ created' \in 0..MaxThreads
    <3>1. CASE Len(pool) = NumParts(r)
      BY <1>2, <3>1 DEF StartPooled, EnsurePool
    <3>2. CASE Len(pool) # NumParts(r)
      <4>1. /\ created + NumParts(r) <= MaxThreads /\ ready' = ready
            /\ pool' = NewThreads(NumParts(r)) /\ created' = created + NumParts(r)
            /\ thread' = [t \in Thread |-> IF t \in Members(NewThreads(NumParts(r))) THEN "starting"
                                            ELSE Terminated(Members(pool))[t]]
        BY <1>2, <3>2 DEF StartPooled, EnsurePool
      <4>2. pool' \in Seq(Thread)
        BY <4>1, <2>1, <1>n, NewOnes
      <4>3. thread' \in [Thread -> Life]
        BY <4>1, TerminatedType DEF Life
      <4> QED BY <4>1, <4>2, <4>3, <2>1, <1>n
    <3> QED BY <3>1, <3>2
  <2>3. pc' \in [User -> PC] /\ slots' \in [User -> Seq(Thread)] /\ busy' \in BOOLEAN
    BY <1>2, <2>2 DEF StartPooled, PC, User
  <2> QED BY <1>2, <1>g, <2>2, <2>3 DEF StartPooled
<1>t. ASSUME NEW u \in User, NEW t \in Thread, NEW i \in Nat, NEW k \in Nat
      PROVE  Task(t, i, Work(u, k)) \in [thread : Thread, id : Nat, work : [user : User, part : Nat]]
  BY DEF Task, Work
<1>3. ASSUME NEW r \in Request, StartOneShot(r) PROVE TypeOK'
  <2>1. NumParts(r) \in Nat
    BY PartsCount
  <2>2. /\ NewThreads(NumParts(r)) \in Seq(Thread) /\ DOMAIN NewThreads(NumParts(r)) = 1..NumParts(r)
    BY <1>3, <2>1, <1>n, NewOnes DEF StartOneShot, NewThreads
  <2>3. \A k \in 1..NumParts(r) :
          Task(NewThreads(NumParts(r))[k], 0, Work(r, k))
            \in [thread : Thread, id : Nat, work : [user : User, part : Nat]]
    <3> SUFFICES ASSUME NEW k \in 1..NumParts(r)
                 PROVE  Task(NewThreads(NumParts(r))[k], 0, Work(r, k))
                          \in [thread : Thread, id : Nat, work : [user : User, part : Nat]]
      OBVIOUS
    <3>0. r \in User
      BY DEF User
    <3>1. NewThreads(NumParts(r))[k] \in Thread /\ k \in Nat /\ r \in User
      <4> HIDE DEF TypeOK
      <4> QED BY <2>1, <2>2, <3>0
    <3> QED BY <3>1, <1>t
  <2>4. /\ tasks' \subseteq [thread : Thread, id : Nat, work : [user : User, part : Nat]]
        /\ listen' \subseteq [thread : Thread, id : Nat, work : [user : User, part : Nat]]
    BY <1>3, <2>3 DEF StartOneShot
  <2>5. /\ thread' \in [Thread -> Life] /\ ready' \in [Thread -> {"wait", "yes", "no"}]
        /\ created' \in 0..MaxThreads /\ slots' \in [User -> Seq(Thread)] /\ pc' \in [User -> PC]
    BY <1>3, <2>1, <2>2, <1>n DEF StartOneShot, Life, PC, User
  <2> QED BY <1>3, <1>g, <2>4, <2>5 DEF StartOneShot
<1>4. ASSUME NEW u \in User, Post(u) PROVE TypeOK'
  <2>1. slots[u] \in Seq(Thread) /\ DOMAIN slots[u] = 1..Len(slots[u]) /\ Len(slots[u]) \in Nat
    OBVIOUS
  <2>2. \A k \in DOMAIN slots[u] :
          Task(slots[u][k], sent + k, Work(u, k))
            \in [thread : Thread, id : Nat, work : [user : User, part : Nat]]
    <3> SUFFICES ASSUME NEW k \in DOMAIN slots[u]
                 PROVE  Task(slots[u][k], sent + k, Work(u, k))
                          \in [thread : Thread, id : Nat, work : [user : User, part : Nat]]
      OBVIOUS
    <3>1. slots[u][k] \in Thread /\ k \in Nat /\ sent + k \in Nat
      BY <2>1
    <3> QED BY <3>1, <1>t
  <2>3. /\ tasks' \subseteq [thread : Thread, id : Nat, work : [user : User, part : Nat]]
        /\ listen' \subseteq [thread : Thread, id : Nat, work : [user : User, part : Nat]]
    BY <1>4, <2>2 DEF Post
  <2>4. sent' \in Nat /\ pc' \in [User -> PC]
    BY <1>4, <2>1 DEF Post, PC
  <2> QED BY <1>4, <1>p, <2>3, <2>4 DEF Post
<1>5. ASSUME NEW u \in User, Unready(u) PROVE TypeOK'
  BY <1>5, <1>p DEF Unready, PC
<1>6. ASSUME NEW r \in Request, InlineBatch(r) PROVE TypeOK'
  <2>1. PICK b \in 1..cursor[r] : got[r][b] = Open
                              /\ got' = [got EXCEPT ![r] = [got[r] EXCEPT ![b] = Work(r, b)]]
    BY <1>6 DEF InlineBatch
  <2>2. Work(r, b) \in [user : User, part : Nat]
    BY DEF Work, User
  <2>3. /\ DOMAIN got' = Request
        /\ \A q \in Request : DOMAIN got'[q] = DOMAIN got[q]
        /\ \A q \in Request : got'[q] \in [DOMAIN got'[q] -> [user : User, part : Nat]]
    BY <2>1, <2>2
  <2>4. NumParts(r) \in Nat
    BY PartsCount
  <2>5. cursor' \in [Request -> Nat] /\ pc' \in [User -> PC]
    BY <1>6, <2>4 DEF InlineBatch, PC, User
  <2>6. UNCHANGED <<thread, ready, pool, created, busy, sent, tasks, listen, input, slots, threw,
                    died, faults>>
    BY <1>6 DEF InlineBatch
  <2>7. \A q \in Request : DOMAIN got'[q] \subseteq Parts(q)'
    BY <1>p, <2>3, <2>6
  <2> QED BY <2>3, <2>5, <2>6, <2>7
<1>7. ASSUME NEW r \in Request, InlineThrow(r) PROVE TypeOK'
  BY <1>7, <1>p, <1>n DEF InlineThrow, PC, User
<1>8. ASSUME NEW t \in Thread, Ready(t) PROVE TypeOK'
  BY <1>8, <1>p DEF Ready, Life
<1>9. ASSUME NEW t \in Thread, Die(t) PROVE TypeOK'
  BY <1>9, <1>p, <1>n DEF Die, Life
<1>10. ASSUME NEW x \in tasks, Result(x) PROVE TypeOK'
  <2> DEFINE L == Listening(x)
             whole == {r \in Users(L) \ {Warm} : \A p \in Parts(r) : got'[r][p] # Open}
  <2>1. /\ DOMAIN got' = Request
        /\ \A q \in Request : DOMAIN got'[q] = DOMAIN got[q]
        /\ \A q \in Request : got'[q] \in [DOMAIN got'[q] -> [user : User, part : Nat]]
    BY <1>10 DEF Result
  <2>2. pc' \in [User -> PC] /\ busy' \in BOOLEAN
    BY <1>10, SettleType DEF Result, PC
  <2>3. thread' \in [Thread -> Life]
    BY <1>10, TerminatedType DEF Result, Leaving, Life
  <2>4. /\ tasks' \subseteq [thread : Thread, id : Nat, work : [user : User, part : Nat]]
        /\ listen' \subseteq [thread : Thread, id : Nat, work : [user : User, part : Nat]]
        /\ UNCHANGED <<ready, pool, created, sent, input, cursor, slots, threw, died, faults>>
    BY <1>10 DEF Result
  <2> QED BY <1>p, <2>1, <2>2, <2>3, <2>4
<1>11. ASSUME NEW x \in tasks, Thrown(x) PROVE TypeOK'
  <2>2. pc' \in [User -> PC] /\ busy' \in BOOLEAN
    BY <1>11, SettleType DEF Thrown, PC
  <2>3. thread' \in [Thread -> Life]
    BY <1>11, TerminatedType DEF Thrown, Leaving, Life
  <2> QED BY <1>11, <1>p, <1>n, <2>2, <2>3 DEF Thrown
<1>12. ASSUME NEW t \in Thread, Errored(t) PROVE TypeOK'
  <2>2. pc' \in [User -> PC] /\ busy' \in BOOLEAN
    BY <1>12, SettleType DEF Errored, PC
  <2>3. thread' \in [Thread -> Life] /\ ready' \in [Thread -> {"wait", "yes", "no"}]
    BY <1>12, TerminatedType DEF Errored, Rejected, Life
  <2> QED BY <1>12, <1>p, <2>2, <2>3 DEF Errored
<1>13. ASSUME NEW t \in Thread, Exited(t) PROVE TypeOK'
  <2>2. pc' \in [User -> PC] /\ busy' \in BOOLEAN
    BY <1>13, SettleType DEF Exited, PC
  <2>3. thread' \in [Thread -> Life] /\ ready' \in [Thread -> {"wait", "yes", "no"}]
    BY <1>13, TerminatedType DEF Exited, Rejected, Life
  <2> QED BY <1>13, <1>p, <2>2, <2>3 DEF Exited
<1>14. ASSUME NEW r \in Request, Reaped(r) PROVE TypeOK'
  BY <1>14, <1>p DEF Reaped, PC
<1>15. ASSUME NEW t \in Thread, Crash(t) PROVE TypeOK'
  <2>1. WarmCount \in Nat /\ WarmCount \in 1..MaxThreads /\ FreshPool \in Seq(Thread)
    BY WarmIsOf, <1>n DEF FreshPool, Thread
  <2>2. pc' \in [User -> PC]
    BY <1>15 DEF Crash, PC
  <2>3. thread' \in [Thread -> Life] /\ ready' \in [Thread -> {"wait", "yes", "no"}]
    BY <1>15 DEF Crash, FreshThread, FreshReady, Life
  <2>4. slots' \in [User -> Seq(Thread)] /\ pool' \in Seq(Thread) /\ created' \in 0..MaxThreads
    BY <1>15, <1>n, <2>1 DEF Crash, User
  <2>5. /\ busy' = FALSE /\ sent' = 0 /\ tasks' = {} /\ listen' = {} /\ died' = {}
        /\ UNCHANGED <<input, cursor, got, threw, faults>>
    BY <1>15 DEF Crash
  <2>6. \A q \in Request : DOMAIN got'[q] \subseteq Parts(q)'
    BY <1>p, <2>5
  <2> QED BY <2>2, <2>3, <2>4, <2>5, <2>6
<1>16. CASE UNCHANGED vars
  BY <1>16, <1>p DEF vars
<1> QED BY <1>1, <1>2, <1>3, <1>4, <1>5, <1>6, <1>7, <1>8, <1>9, <1>10, <1>11, <1>12, <1>13,
           <1>14, <1>15, <1>16 DEF Next, Serve, Event

\* Every reachable state of the pool and of the conversions that use it is well
\* typed.
THEOREM TypeCorrect == Spec => []TypeOK
BY InitType, Typed, PTL DEF Spec

-----------------------------------------------------------------------------
(* The events of threads. *)

\* The threads of the users in S that have their own are ended, and those in D
\* came to their end.
Moved(S, D) ==
  \A t \in Thread :
    /\ \/ thread'[t] = thread[t]
       \/ t \in OwnThreads(S) /\ thread[t] \in {"starting", "up"} /\ thread'[t] \in {"ending", "gone"}
       \/ t \in D /\ thread'[t] \in {"ending", "gone"}
    /\ t \in OwnThreads(S) => thread'[t] \notin {"starting", "up"}

\* What the handlers of a thread's message, error and exit have in common.
LEMMA EventStep ==
  ASSUME TypeOK, PInv,
         NEW S \in SUBSET User, NEW D \in SUBSET Thread,
         NEW pooled \in {"done", "failed"}, NEW own \in {"reap", "drop"},
         Warm \in S => pooled = "failed",
         Settle(S, pooled, own), Moved(S, D),
         \A d \in D : d <= created /\ (d \in died \/ (d \notin Members(pool) /\ thread'[d] = "gone")),
         tasks' \subseteq tasks, listen' \subseteq listen,
         \A t \in Thread : ready'[t] = ready[t] \/ t \in D,
         UNCHANGED <<pool, created, sent, slots, died>>
  PROVE  PInv'
<1> USE DEF PInv
<1>1. \A u \in User : pc'[u] = pc[u] \/ pc'[u] \in {"done", "failed", "reap", "drop"}
  BY DEF Settle, TypeOK
<1>2. \A u \in S : pc'[u] \notin {"await", "own"}
  BY DEF Settle, TypeOK
<1>3. \A t \in OwnThreads(S) : \E v \in S \intersect Request : pc[v] = "own" /\ t \in Members(slots[v])
  BY DEF OwnThreads, WarmAt, User
<1>4. \A v \in S : pc[v] = "own" => Members(slots[v]) \subseteq OwnThreads(S)
  BY DEF OwnThreads
<1>5. pool' = pool /\ created' = created /\ sent' = sent /\ slots' = slots /\ died' = died
  OBVIOUS
<1>6. Members(pool)' = Members(pool) /\ \A u \in User : Members(slots[u])' = Members(slots[u])
  BY <1>5
<1>7. Members(pool) \subseteq Thread
  BY MembersOf DEF TypeOK
<1>8. \A u \in User : Members(slots[u]) \subseteq Thread
  BY MembersOf DEF TypeOK
<1>n. Numbered'
  <2>1. \A t \in Thread : t > created => thread'[t] = "none" /\ ready'[t] = "wait"
    <3> SUFFICES ASSUME NEW t \in Thread, t > created
                 PROVE  thread'[t] = "none" /\ ready'[t] = "wait"
      OBVIOUS
    <3>1. t \in Nat /\ created \in Nat
      BY PoolAssumption DEF TypeOK, Thread
    <3>2. t \notin D
      BY <3>1
    <3> QED BY <3>2 DEF Numbered, Moved
  <2>2. \A u \in User : pc'[u] \in {"ready", "await", "own"} => pc[u] \in {"ready", "await", "own"}
    BY <1>1
  <2> QED BY <2>1, <2>2, <1>5, <1>6 DEF Numbered
<1>l. Listens'
  <2>1. \A l \in listen : l.work.user \in User
    BY DEF TypeOK
  <2> QED BY <2>1, <1>1, <1>5, <1>6 DEF Listens
<1>m. Matched'
  BY DEF Matched
<1>t. OwnTasks'
  BY <1>6 DEF OwnTasks
<1>o. OwnApart'
  <2> SUFFICES ASSUME NEW r \in Request, pc'[r] = "own", NEW t \in Members(slots[r])
               PROVE  /\ t \notin Members(pool)
                      /\ \A q \in Request \ {r} : pc'[q] = "own" => t \notin Members(slots[q])
                      /\ thread'[t] \in {"failed", "ending"} => t \in died
    BY <1>5, <1>6 DEF OwnApart
  <2>1. r \in User /\ pc[r] = "own" /\ r \notin S /\ t \in Thread
    BY <1>1, <1>2, <1>8 DEF User
  <2>2. \A q \in Request : pc'[q] = "own" => pc[q] = "own"
    BY <1>1 DEF User
  <2>3. t \notin OwnThreads(S)
    BY <2>1, <1>3 DEF OwnApart
  <2>4. thread'[t] \in {"failed", "ending"} => t \in died
    BY <2>1, <2>3 DEF Moved, OwnApart
  <2> QED BY <2>1, <2>2, <2>4 DEF OwnApart
<1>s. PoolSound'
  <2> SUFFICES ASSUME NEW t \in Members(pool),
                      thread'[t] \in {"failed", "ending", "gone"} \/ ready'[t] = "no"
               PROVE  t \in died
    BY <1>5, <1>6 DEF PoolSound
  <2>1. t \in Thread /\ t \notin OwnThreads(S)
    BY <1>3, <1>7 DEF OwnApart
  <2> QED BY <2>1 DEF Moved, PoolSound
<1>f. FailedDied'
  BY <1>5 DEF FailedDied, Moved
<1>w. WarmAt'
  BY DEF WarmAt, Settle, User
<1>h. PoolHeld'
  <2>1. \A r \in Request : pc'[r] \in {"ready", "await"} <=> pc[r] \in {"ready", "await"} /\ ~(r \in S /\ pc[r] = "await")
    BY <1>1, <1>2 DEF Settle, User
  <2>2. busy' <=> busy /\ \A r \in S \ {Warm} : pc[r] # "await"
    BY DEF Settle
  <2>3. S \ {Warm} \subseteq Request
    BY DEF User
  <2>4. busy' <=> \E r \in Request : pc'[r] \in {"ready", "await"}
    <3>1. ASSUME busy' PROVE \E r \in Request : pc'[r] \in {"ready", "await"}
      BY <3>1, <2>1, <2>2, PoolAssumption DEF PoolHeld
    <3>2. ASSUME NEW r \in Request, pc'[r] \in {"ready", "await"} PROVE busy'
      BY <3>2, <2>1, <2>2, <2>3 DEF PoolHeld
    <3> QED BY <3>1, <3>2
  <2>5. \A t \in Members(pool) : thread'[t] = "ending" => t \in died
    BY <1>s, <1>5, <1>6 DEF PoolSound
  <2> QED BY <2>1, <2>4, <2>5, <1>5, <1>6 DEF PoolHeld
<1>k. NoThreadLeaks'
  <2> SUFFICES ASSUME NEW t \in Thread, thread'[t] \in {"starting", "up"}
               PROVE  t \in Members(pool) \/ \E r \in Request : pc'[r] = "own" /\ t \in Members(slots[r])
    BY <1>5, <1>6 DEF NoThreadLeaks
  <2>1. thread[t] \in {"starting", "up"} /\ t \notin OwnThreads(S)
    BY DEF Moved
  <2>2. CASE t \in Members(pool)
    BY <2>2
  <2>3. CASE \E r \in Request : pc[r] = "own" /\ t \in Members(slots[r])
    <3>1. PICK r \in Request : pc[r] = "own" /\ t \in Members(slots[r])
      BY <2>3
    <3>2. r \notin S /\ r \in User
      BY <3>1, <2>1, <1>4 DEF User
    <3> QED BY <3>1, <3>2 DEF Settle
  <2> QED BY <2>1, <2>2, <2>3 DEF NoThreadLeaks
<1> QED BY <1>n, <1>l, <1>m, <1>t, <1>o, <1>s, <1>f, <1>w, <1>h, <1>k

\* The answers, errors and exits of threads.
LEMMA ResultStep ==
  ASSUME TypeOK, PInv, NEW x \in tasks, Result(x)
  PROVE  PInv'
<1> DEFINE whole == {r \in Users(Listening(x)) \ {Warm} : \A p \in Parts(r) : got'[r][p] # Open}
           ended == IF x.id = 0 THEN {x.thread} ELSE {}
<1>1. x.thread \in Thread /\ x.thread <= created
  BY DEF TypeOK, PInv, Numbered
<1>2. Settle(whole, "done", "reap") /\ thread' = Leaving(x, Terminated(OwnThreads(whole)))
  BY DEF Result
<1>3. whole \in SUBSET User /\ ended \in SUBSET Thread
  BY <1>1 DEF TypeOK, Users, Listening
<1>4. Moved(whole, ended)
  BY <1>1, <1>2 DEF Moved, Leaving, Terminated, TypeOK
<1>5. \A d \in ended : d <= created /\ d \notin Members(pool) /\ thread'[d] = "gone"
  BY <1>1, <1>2 DEF PInv, OwnTasks, Leaving, Terminated
<1>6. /\ tasks' \subseteq tasks /\ listen' \subseteq listen
      /\ UNCHANGED <<ready, pool, created, sent, slots, died>>
  BY DEF Result, marks
<1>7. Warm \notin whole
  OBVIOUS
<1> HIDE DEF whole, ended
<1> QED BY <1>2, <1>3, <1>4, <1>5, <1>6, <1>7, EventStep

LEMMA ThrownStep ==
  ASSUME TypeOK, PInv, NEW x \in tasks, Thrown(x)
  PROVE  PInv'
<1> DEFINE S == Users(Listening(x))
           ended == IF x.id = 0 THEN {x.thread} ELSE {}
<1>1. x.thread \in Thread /\ x.thread <= created
  BY DEF TypeOK, PInv, Numbered
<1>2. Settle(S, "failed", "drop") /\ thread' = Leaving(x, Terminated(OwnThreads(S)))
  BY DEF Thrown
<1>3. S \in SUBSET User /\ ended \in SUBSET Thread
  BY <1>1 DEF TypeOK, Users, Listening
<1>4. Moved(S, ended)
  BY <1>1, <1>2 DEF Moved, Leaving, Terminated, TypeOK
<1>5. \A d \in ended : d <= created /\ d \notin Members(pool) /\ thread'[d] = "gone"
  BY <1>1, <1>2 DEF PInv, OwnTasks, Leaving, Terminated
<1>6. /\ tasks' \subseteq tasks /\ listen' \subseteq listen
      /\ UNCHANGED <<ready, pool, created, sent, slots, died>>
  BY DEF Thrown
<1> HIDE DEF S, ended
<1> QED BY <1>2, <1>3, <1>4, <1>5, <1>6, EventStep

\* A thread that exists has been created.
LEMMA Created ==
  ASSUME TypeOK, PInv, NEW t \in Thread, thread[t] # "none"
  PROVE  t <= created
<1>1. t \in Nat /\ created \in Nat
  BY PoolAssumption DEF TypeOK, Thread
<1>2. ~(t > created)
  BY DEF PInv, Numbered
<1> QED BY <1>1, <1>2

LEMMA ErroredStep ==
  ASSUME TypeOK, PInv, NEW t \in Thread, Errored(t)
  PROVE  PInv'
<1> DEFINE S == Users(Listeners(t))
<1>1. t <= created /\ t \in died /\ thread[t] = "failed"
  BY Created DEF Errored, PInv, FailedDied
<1>2. Settle(S, "failed", "drop") /\ thread' = [Terminated(OwnThreads(S)) EXCEPT ![t] = "ending"]
  BY DEF Errored
<1>3. S \in SUBSET User /\ {t} \in SUBSET Thread
  BY DEF TypeOK, Users, Listeners
<1>4. Moved(S, {t})
  BY <1>2 DEF Moved, Terminated, TypeOK
<1>5. \A d \in {t} : d <= created /\ d \in died
  BY <1>1
<1>6. /\ tasks' \subseteq tasks /\ listen' \subseteq listen
      /\ \A s \in Thread : ready'[s] = ready[s] \/ s \in {t}
      /\ UNCHANGED <<pool, created, sent, slots, died>>
  BY DEF Errored, Rejected, TypeOK, marks
<1> HIDE DEF S
<1> QED BY <1>2, <1>3, <1>4, <1>5, <1>6, EventStep

LEMMA ExitedStep ==
  ASSUME TypeOK, PInv, NEW t \in Thread, Exited(t)
  PROVE  PInv'
<1> DEFINE S == Users(Listeners(t))
<1>1. t <= created /\ thread[t] = "ending"
  BY Created DEF Exited
<1>2. Settle(S, "failed", "drop") /\ thread' = [Terminated(OwnThreads(S)) EXCEPT ![t] = "gone"]
  BY DEF Exited
<1>3. S \in SUBSET User /\ {t} \in SUBSET Thread
  BY DEF TypeOK, Users, Listeners
<1>4. Moved(S, {t}) /\ thread'[t] = "gone"
  BY <1>2 DEF Moved, Terminated, TypeOK
<1>5. \A d \in {t} : d <= created /\ (d \in died \/ (d \notin Members(pool) /\ thread'[d] = "gone"))
  BY <1>1, <1>4 DEF PInv, PoolSound
<1>6. /\ tasks' \subseteq tasks /\ listen' \subseteq listen
      /\ \A s \in Thread : ready'[s] = ready[s] \/ s \in {t}
      /\ UNCHANGED <<pool, created, sent, slots, died>>
  BY DEF Exited, Rejected, TypeOK, marks
<1> HIDE DEF S
<1> QED BY <1>2, <1>3, <1>4, <1>5, <1>6, EventStep

-----------------------------------------------------------------------------
(* The other steps. *)

\* A request begins or ends in the server's own thread, or has waited for its
\* threads.
LEMMA PcStep ==
  ASSUME TypeOK, PInv, NEW r \in Request, NEW to, pc' = [pc EXCEPT ![r] = to],
         \/ pc[r] = "idle" /\ to \in {"inline", "done"}
         \/ pc[r] \in {"inline", "reap", "drop"} /\ to \in {"done", "failed"}
         \/ to = pc[r],
         UNCHANGED <<pooling, busy, mail, slots, died>>
  PROVE  PInv'
<1> USE DEF PInv, pooling, mail
<1>1. r \in User /\ r # Warm /\ pc'[r] = to /\ \A u \in User \ {r} : pc'[u] = pc[u]
  BY PoolAssumption DEF User, TypeOK
<1>2. \A u \in User : pc'[u] \in {"ready", "await", "own"} <=> pc[u] \in {"ready", "await", "own"}
  BY <1>1
<1>3. \A u \in User : pc[u] \in {"ready", "await", "own"} => pc'[u] = pc[u]
  BY <1>1
<1>4. \A u \in User, s \in {"ready", "await", "own"} : pc'[u] = s <=> pc[u] = s
  BY <1>2, <1>3
<1>5. Request \subseteq User
  BY DEF User
<1>n. Numbered'
  BY <1>4 DEF Numbered
<1>l. Listens'
  <2>1. \A l \in listen : l.work.user \in User
    BY DEF TypeOK
  <2> QED BY <2>1, <1>1, <1>4 DEF Listens
<1>m. Matched' /\ OwnTasks' /\ PoolSound' /\ FailedDied'
  BY DEF Matched, OwnTasks, PoolSound, FailedDied
<1>o. OwnApart'
  BY <1>4, <1>5 DEF OwnApart
<1>w. WarmAt'
  BY <1>1 DEF WarmAt, User
<1>h. PoolHeld'
  BY <1>4, <1>5 DEF PoolHeld
<1>k. NoThreadLeaks'
  BY <1>4, <1>5 DEF NoThreadLeaks
<1> QED BY <1>n, <1>l, <1>m, <1>o, <1>w, <1>h, <1>k

LEMMA UnreadyStep ==
  ASSUME TypeOK, PInv, NEW u \in User, Unready(u)
  PROVE  PInv'
<1> USE DEF PInv, pooling, mail, marks
<1>1. /\ pc[u] = "ready" /\ pc'[u] = "failed" /\ \A v \in User \ {u} : pc'[v] = pc[v]
      /\ UNCHANGED <<thread, ready, pool, created, sent, tasks, listen, slots, died>>
  BY DEF Unready, AnyUnready, TypeOK
<1>5. Request \subseteq User /\ Warm \notin Request
  BY PoolAssumption DEF User
<1>n. Numbered'
  BY <1>1 DEF Numbered
<1>l. Listens'
  <2>1. \A l \in listen : l.work.user \in User
    BY DEF TypeOK
  <2> QED BY <2>1, <1>1 DEF Listens
<1>m. Matched' /\ OwnTasks' /\ PoolSound' /\ FailedDied'
  BY <1>1 DEF Matched, OwnTasks, PoolSound, FailedDied
<1>o. OwnApart'
  BY <1>1, <1>5 DEF OwnApart
<1>w. WarmAt'
  BY <1>1 DEF WarmAt, User
<1>h. PoolHeld'
  <2>1. CASE u = Warm
    <3>1. busy' <=> busy
      BY <2>1 DEF Unready
    <3>2. \A r \in Request : pc'[r] = pc[r]
      BY <1>1, <1>5, <2>1
    <3> QED BY <3>1, <3>2, <1>1 DEF PoolHeld
  <2>2. CASE u \in Request
    <3>1. ~busy'
      BY <2>2, <1>5 DEF Unready
    <3>2. \A r \in Request : pc'[r] \notin {"ready", "await"}
      BY <2>2, <1>1, <1>5 DEF PoolHeld
    <3> QED BY <3>1, <3>2 DEF PoolHeld
  <2> QED BY <2>1, <2>2 DEF User
<1>k. NoThreadLeaks'
  BY <1>1, <1>5 DEF NoThreadLeaks
<1> QED BY <1>n, <1>l, <1>m, <1>o, <1>w, <1>h, <1>k

LEMMA ReadyStep ==
  ASSUME TypeOK, PInv, NEW t \in Thread, Ready(t)
  PROVE  PInv'
<1> USE DEF PInv, pooling, mail, marks
<1>1. /\ ready' = [ready EXCEPT ![t] = "yes"]
      /\ \A s \in Thread : thread'[s] = thread[s] \/ (thread[s] = "starting" /\ thread'[s] = "up")
      /\ thread[t] # "none"
      /\ UNCHANGED <<pool, created, busy, sent, tasks, listen, pc, slots, died>>
  BY DEF Ready, TypeOK
<1>2. t <= created
  BY Created, <1>1
<1>3. Members(pool) \subseteq Thread /\ \A r \in Request : Members(slots[r]) \subseteq Thread
  BY MembersOf DEF TypeOK, User
<1>n. Numbered'
  <2>1. created \in Nat /\ \A s \in Thread : s \in Nat
    BY PoolAssumption DEF TypeOK, Thread
  <2>2. \A s \in Thread : s > created => s # t
    BY <1>2, <2>1
  <2> QED BY <1>1, <2>2 DEF Numbered, TypeOK
<1>m. Listens' /\ Matched' /\ OwnTasks' /\ FailedDied' /\ WarmAt'
  BY <1>1 DEF Listens, Matched, OwnTasks, FailedDied, WarmAt
<1>o. OwnApart'
  BY <1>1, <1>3 DEF OwnApart
<1>s. PoolSound'
  BY <1>1, <1>3 DEF PoolSound, TypeOK
<1>h. PoolHeld'
  BY <1>1, <1>3 DEF PoolHeld
<1>k. NoThreadLeaks'
  BY <1>1 DEF NoThreadLeaks
<1> QED BY <1>n, <1>m, <1>o, <1>s, <1>h, <1>k

LEMMA DieStep ==
  ASSUME TypeOK, PInv, NEW t \in Thread, Die(t)
  PROVE  PInv'
<1> USE DEF PInv, pooling, mail, marks
<1>1. /\ thread' = [thread EXCEPT ![t] = "failed"] /\ thread[t] # "none"
      /\ tasks' \subseteq tasks /\ died' = died \union {t}
      /\ UNCHANGED <<ready, pool, created, busy, sent, listen, pc, slots>>
  BY DEF Die
<1>2. t <= created
  BY Created, <1>1
<1>3. Members(pool) \subseteq Thread /\ \A r \in Request : Members(slots[r]) \subseteq Thread
  BY MembersOf DEF TypeOK, User
<1>n. Numbered'
  <2>1. created \in Nat /\ \A s \in Thread : s \in Nat
    BY PoolAssumption DEF TypeOK, Thread
  <2>2. \A s \in Thread : s > created => s # t
    BY <1>2, <2>1
  <2> QED BY <1>1, <2>2 DEF Numbered, TypeOK
<1>m. Listens' /\ Matched' /\ OwnTasks' /\ FailedDied' /\ WarmAt'
  BY <1>1 DEF Listens, Matched, OwnTasks, FailedDied, WarmAt, TypeOK
<1>o. OwnApart'
  BY <1>1, <1>3 DEF OwnApart, TypeOK
<1>s. PoolSound'
  BY <1>1, <1>3 DEF PoolSound, TypeOK
<1>h. PoolHeld'
  BY <1>1, <1>3 DEF PoolHeld, TypeOK
<1>k. NoThreadLeaks'
  BY <1>1 DEF NoThreadLeaks, TypeOK
<1> QED BY <1>n, <1>m, <1>o, <1>s, <1>h, <1>k

\* The ids of what is posted are new, and different for different threads.
LEMMA PostStep ==
  ASSUME TypeOK, PInv, NEW u \in User, Post(u)
  PROVE  PInv'
<1> USE DEF PInv, pooling, mail, marks
<1> DEFINE new == {Task(slots[u][k], sent + k, Work(u, k)) : k \in DOMAIN slots[u]}
<1>1. /\ pc[u] = "ready" /\ pc'[u] = "await" /\ \A v \in User \ {u} : pc'[v] = pc[v]
      /\ UNCHANGED <<thread, ready, pool, created, busy, slots, died>>
      /\ sent' = sent + Len(slots[u]) /\ listen' = listen \union new /\ tasks' \subseteq tasks \union new
  BY DEF Post, AllReady, TypeOK
<1>2. Request \subseteq User /\ Warm \notin Request
  BY PoolAssumption DEF User
<1>3. /\ sent \in Nat /\ Len(slots[u]) \in Nat /\ DOMAIN slots[u] = 1..Len(slots[u])
      /\ \A k \in DOMAIN slots[u] : slots[u][k] \in Thread
  BY DEF TypeOK
<1>4. \A x \in tasks \union listen : x.id \in Nat /\ x.id <= sent /\ x.work.user \in User
  BY DEF TypeOK, Numbered
<1>5. \A x \in new : \E k \in DOMAIN slots[u] :
        /\ x = Task(slots[u][k], sent + k, Work(u, k))
        /\ x.thread = slots[u][k] /\ x.id = sent + k /\ x.work = Work(u, k) /\ x.work.user = u
  BY DEF Task, Work
<1>6. \A x \in new : x.thread \in Members(slots[u]) /\ x.id > sent /\ x.id <= sent' /\ x.work.user = u
  <2> SUFFICES ASSUME NEW x \in new
               PROVE  /\ x.thread \in Members(slots[u]) /\ x.id > sent /\ x.id <= sent'
                      /\ x.work.user = u
    OBVIOUS
  <2>1. PICK k \in DOMAIN slots[u] : x.thread = slots[u][k] /\ x.id = sent + k /\ x.work.user = u
    BY <1>5
  <2> HIDE DEF new
  <2>2. x.thread \in Members(slots[u])
    BY <2>1 DEF Members
  <2>3. x.id > sent /\ x.id <= sent'
    BY <1>1, <1>3, <2>1
  <2> QED BY <2>1, <2>2, <2>3
<1>n. Numbered'
  <2>1. \A v \in User : pc'[v] \in {"ready", "await", "own"} <=> pc[v] \in {"ready", "await", "own"}
    BY <1>1
  <2>2. \A x \in new : x.thread <= created
    BY <1>1, <1>6 DEF Numbered
  <2>3. \A x \in tasks \union listen : x.id <= sent'
    BY <1>1, <1>3, <1>4
  <2> QED BY <1>1, <1>6, <2>1, <2>2, <2>3 DEF Numbered
<1>l. Listens'
  <2> SUFFICES ASSUME NEW l \in listen \union new
               PROVE  /\ pc'[l.work.user] \notin {"idle", "inline", "ready"}
                      /\ pc'[l.work.user] \in {"await", "own"} => l.thread \in Members(slots[l.work.user])
    BY <1>1 DEF Listens
  <2>1. CASE l \in new
    BY <2>1, <1>1, <1>6
  <2>2. CASE l \in listen
    <3>1. l.work.user \in User /\ l.work.user # u
      BY <2>2, <1>1, <1>4 DEF Listens
    <3> QED BY <2>2, <3>1, <1>1 DEF Listens
  <2> QED BY <2>1, <2>2
<1>m. Matched'
  <2> SUFFICES ASSUME NEW x \in tasks \union new, NEW l \in listen \union new, x.thread = l.thread, x.id = l.id
               PROVE  x.work = l.work
    BY <1>1 DEF Matched
  <2>1. CASE x \in new /\ l \in new
    <3>1. PICK k \in DOMAIN slots[u] : x.id = sent + k /\ x.work = Work(u, k)
      BY <2>1, <1>5
    <3>2. PICK k2 \in DOMAIN slots[u] : l.id = sent + k2 /\ l.work = Work(u, k2)
      BY <2>1, <1>5
    <3>3. k = k2
      <4>1. k \in Nat /\ k2 \in Nat /\ sent \in Nat
        BY <1>3
      <4>2. sent + k = sent + k2
        BY <3>1, <3>2
      <4> HIDE DEF new
      <4> QED BY <4>1, <4>2
    <3> QED BY <3>1, <3>2, <3>3
  <2>2. CASE x \in tasks /\ l \in listen
    BY <2>2 DEF Matched
  <2>d. \A y \in new, z \in tasks \union listen : y.id # z.id
    <3>1. \A y \in new : y.id > sent
      BY <1>6
    <3> HIDE DEF new
    <3> QED BY <1>3, <1>4, <3>1
  <2>3. CASE x \in tasks /\ l \in new
    BY <2>3, <2>d
  <2>4. CASE x \in new /\ l \in listen
    BY <2>4, <2>d
  <2> QED BY <2>1, <2>2, <2>3, <2>4
<1>t. OwnTasks'
  <2>1. \A x \in new : x.id # 0
    BY <1>3, <1>5
  <2> QED BY <1>1, <2>1 DEF OwnTasks
<1>o. OwnApart' /\ PoolSound' /\ FailedDied' /\ WarmAt'
  <2>1. \A r \in Request : pc'[r] = "own" <=> pc[r] = "own"
    BY <1>1, <1>2
  <2> QED BY <1>1, <2>1 DEF OwnApart, PoolSound, FailedDied, WarmAt, User
<1>h. PoolHeld' /\ NoThreadLeaks'
  <2>1. \A r \in Request : /\ pc'[r] \in {"ready", "await"} <=> pc[r] \in {"ready", "await"}
                           /\ pc'[r] = "own" <=> pc[r] = "own"
    BY <1>1, <1>2
  <2> QED BY <1>1, <2>1 DEF PoolHeld, NoThreadLeaks
<1> QED BY <1>n, <1>l, <1>m, <1>t, <1>o, <1>h

LEMMA StartPooledStep ==
  ASSUME TypeOK, PInv, NEW r \in Request, StartPooled(r)
  PROVE  PInv'
<1> USE DEF PInv, mail, marks
<1>1. /\ pc[r] = "idle" /\ pc'[r] = "ready" /\ \A v \in User \ {r} : pc'[v] = pc[v]
      /\ ~busy /\ busy' /\ UNCHANGED <<sent, tasks, listen, died>>
      /\ slots'[r] = pool' /\ \A v \in User \ {r} : slots'[v] = slots[v]
  BY DEF StartPooled, TypeOK, User
<1>2. Request \subseteq User /\ Warm \notin Request /\ MaxThreads \in Nat
  BY PoolAssumption DEF User
<1>3. created \in Nat /\ \A t \in Thread : t \in Nat
  BY <1>2 DEF TypeOK, Thread
<1>4. NumParts(r) \in Nat
  BY PartsCount
<1>5. \A q \in Request : pc[q] \notin {"ready", "await"}
  BY <1>1 DEF PoolHeld
<1>6. Members(pool) \subseteq Thread /\ \A v \in User : Members(slots[v]) \subseteq Thread
  BY MembersOf DEF TypeOK
\* What is true of the new pool, whether or not it is the old one.
<1>7. /\ created' \in Nat /\ created <= created' /\ ready' = ready
      /\ Members(pool') \subseteq Thread /\ \A t \in Members(pool') : t <= created'
      /\ \A t \in Members(pool') : t \in Members(pool) \/ t > created
      /\ \A t \in Thread : t > created' => thread'[t] = thread[t]
      /\ \A t \in Members(pool') : thread'[t] = "starting" \/ (pool' = pool /\ thread' = thread)
      /\ \A t \in Thread \ Members(pool) : t \notin Members(pool') => thread'[t] = thread[t]
      /\ \A t \in Members(pool) : t \notin Members(pool') => thread'[t] \notin {"starting", "up"}
      /\ \A t \in Thread : thread'[t] = "failed" => thread[t] = "failed"
  <2>1. CASE Len(pool) = NumParts(r)
    <3>1. UNCHANGED <<thread, ready, pool, created>>
      BY <2>1 DEF StartPooled, EnsurePool, pooling
    <3> QED BY <3>1, <1>3, <1>6 DEF Numbered
  <2>2. CASE Len(pool) # NumParts(r)
    <3> DEFINE own == NewThreads(NumParts(r))
    <3>1. /\ created + NumParts(r) <= MaxThreads /\ ready' = ready
          /\ pool' = own /\ created' = created + NumParts(r)
          /\ thread' = [t \in Thread |-> IF t \in Members(own) THEN "starting"
                                         ELSE Terminated(Members(pool))[t]]
      BY <2>2 DEF StartPooled, EnsurePool
    <3>2. own \in Seq(Thread) /\ \A t : t \in Members(own) <=> t \in (created + 1)..(created + NumParts(r))
      BY <3>1, <1>3, <1>4, NewOnes
    <3>3. Members(own) \subseteq Thread
      BY <3>2, MembersOf
    <3>4. \A t \in Members(own) : t > created /\ t <= created' /\ t \notin Members(pool)
      BY <3>1, <3>2, <1>3, <1>4 DEF Numbered
    <3>5. \A t \in Members(pool) : t <= created /\ ~(t > created')
      BY <3>1, <1>3, <1>4, <1>6 DEF Numbered
    <3> HIDE DEF own
    <3>6. \A t \in Thread : thread'[t] = IF t \in Members(own) THEN "starting"
                                         ELSE IF t \notin Members(pool) \/ thread[t] \notin {"starting", "up"}
                                              THEN thread[t]
                                              ELSE IF Heard(t) THEN "ending" ELSE "gone"
      BY <3>1 DEF Terminated
    <3>7. \A t \in Thread : t > created' => t \notin Members(own) /\ t \notin Members(pool)
      BY <3>1, <3>4, <3>5, <1>3, <1>4
    <3>8. /\ created' \in Nat /\ created <= created' /\ ready' = ready
          /\ Members(pool') \subseteq Thread /\ \A t \in Members(pool') : t <= created' /\ t > created
      BY <3>1, <3>3, <3>4, <1>3, <1>4
    <3>9. /\ \A t \in Thread : t > created' => thread'[t] = thread[t]
          /\ \A t \in Members(pool') : thread'[t] = "starting"
          /\ \A t \in Thread \ Members(pool) : t \notin Members(pool') => thread'[t] = thread[t]
      BY <3>1, <3>3, <3>6, <3>7
    <3>10. /\ \A t \in Members(pool) : t \notin Members(pool') => thread'[t] \notin {"starting", "up"}
           /\ \A t \in Thread : thread'[t] = "failed" => thread[t] = "failed"
      BY <3>1, <3>6, <1>6
    <3> QED BY <3>8, <3>9, <3>10
  <2> QED BY <2>1, <2>2
<1>n. Numbered'
  <2>1. \A t \in Thread : t > created' => t > created
    BY <1>3, <1>7
  <2>2. \A x \in tasks \union listen : x.thread \in Thread
    BY DEF TypeOK
  <2>3. \A t \in Thread : t <= created => t <= created'
    BY <1>3, <1>7
  <2> QED BY <1>1, <1>6, <1>7, <2>1, <2>2, <2>3 DEF Numbered
<1>l. Listens'
  <2>1. \A l \in listen : l.work.user \in User /\ l.work.user # r
    BY <1>1 DEF TypeOK, Listens
  <2> QED BY <2>1, <1>1 DEF Listens
<1>m. Matched' /\ FailedDied' /\ WarmAt'
  BY <1>1, <1>2, <1>7 DEF Matched, FailedDied, WarmAt, User
<1>t. OwnTasks'
  <2>1. \A x \in tasks : x.thread \in Thread /\ ~(x.thread > created)
    BY <1>3 DEF TypeOK, Numbered
  <2> QED BY <2>1, <1>1, <1>7 DEF OwnTasks
<1>o. OwnApart'
  <2> SUFFICES ASSUME NEW q \in Request, pc'[q] = "own", NEW t \in Members(slots'[q])
               PROVE  /\ t \notin Members(pool')
                      /\ \A q2 \in Request \ {q} : pc'[q2] = "own" => t \notin Members(slots'[q2])
                      /\ thread'[t] \in {"failed", "ending"} => t \in died
    BY <1>1 DEF OwnApart
  <2>1. q # r /\ pc[q] = "own" /\ slots'[q] = slots[q] /\ t \in Thread /\ ~(t > created)
    BY <1>1, <1>2, <1>3, <1>6 DEF Numbered
  <2>2. \A q2 \in Request : pc'[q2] = "own" => pc[q2] = "own" /\ slots'[q2] = slots[q2]
    BY <1>1, <1>2
  <2>3. t \notin Members(pool) /\ t \notin Members(pool')
    BY <2>1, <1>7 DEF OwnApart
  <2> QED BY <2>1, <2>2, <2>3, <1>7 DEF OwnApart
<1>s. PoolSound'
  <2> SUFFICES ASSUME NEW t \in Members(pool'),
                      thread'[t] \in {"failed", "ending", "gone"} \/ ready'[t] = "no"
               PROVE  t \in died
    BY <1>1 DEF PoolSound
  <2>1. CASE pool' = pool /\ thread' = thread
    BY <2>1, <1>7 DEF PoolSound
  <2>2. CASE thread'[t] = "starting" /\ t > created
    BY <2>2, <1>7 DEF Numbered
  <2>3. CASE thread'[t] = "starting" /\ t \in Members(pool)
    BY <2>3, <1>7 DEF PoolSound
  <2> QED BY <2>1, <2>2, <2>3, <1>7
<1>h. PoolHeld'
  <2>1. \A q \in Request \ {r} : pc'[q] \notin {"ready", "await"}
    BY <1>1, <1>2, <1>5
  <2>2. \A t \in Members(pool') : thread'[t] = "ending" => t \in died'
    BY <1>s DEF PoolSound
  <2> QED BY <1>1, <2>1, <2>2 DEF PoolHeld
<1>k. NoThreadLeaks'
  <2> SUFFICES ASSUME NEW t \in Thread, thread'[t] \in {"starting", "up"}, t \notin Members(pool')
               PROVE  \E q \in Request : pc'[q] = "own" /\ t \in Members(slots'[q])
    BY DEF NoThreadLeaks
  <2>1. t \notin Members(pool) /\ thread[t] \in {"starting", "up"}
    BY <1>7
  <2>2. PICK q \in Request : pc[q] = "own" /\ t \in Members(slots[q])
    BY <2>1 DEF NoThreadLeaks
  <2> QED BY <2>2, <1>1, <1>2
<1> QED BY <1>n, <1>l, <1>m, <1>t, <1>o, <1>s, <1>h, <1>k

LEMMA StartOneShotStep ==
  ASSUME TypeOK, PInv, NEW r \in Request, StartOneShot(r)
  PROVE  PInv'
<1> USE DEF PInv, marks
<1> DEFINE n == NumParts(r)
           own == NewThreads(n)
           new == {Task(own[k], 0, Work(r, k)) : k \in 1..n}
<1>1. /\ pc[r] = "idle" /\ pc'[r] = "own" /\ \A v \in User \ {r} : pc'[v] = pc[v]
      /\ created + n <= MaxThreads /\ created' = created + n
      /\ tasks' = tasks \union new /\ listen' = listen \union new
      /\ slots'[r] = own /\ \A v \in User \ {r} : slots'[v] = slots[v]
      /\ \A t \in Thread : thread'[t] = IF t \in Members(own) THEN "up" ELSE thread[t]
      /\ \A t \in Thread : ready'[t] = IF t \in Members(own) THEN "yes" ELSE ready[t]
      /\ UNCHANGED <<pool, busy, sent, died>>
  BY DEF StartOneShot, TypeOK, User
<1>2. Request \subseteq User /\ Warm \notin Request /\ MaxThreads \in Nat
  BY PoolAssumption DEF User
<1>3. created \in Nat /\ sent \in Nat /\ n \in Nat /\ \A t \in Thread : t \in Nat
  BY <1>2, PartsCount DEF TypeOK, Thread
<1>4. own \in Seq(Thread) /\ \A t : t \in Members(own) <=> t \in (created + 1)..(created + n)
  BY <1>1, <1>3, NewOnes
<1>5. Members(own) \subseteq Thread /\ Members(pool) \subseteq Thread
      /\ \A v \in User : Members(slots[v]) \subseteq Thread
  BY <1>4, MembersOf DEF TypeOK
<1>6. \A t \in Members(own) : t > created /\ t <= created'
  BY <1>1, <1>3, <1>4
<1>7. \A t \in Members(pool) : t \notin Members(own)
  BY <1>3, <1>5, <1>6 DEF Numbered
<1>8. \A x \in new : \E k \in 1..n :
        /\ x.thread = created + k /\ x.id = 0 /\ x.work = Work(r, k) /\ x.work.user = r
        /\ x.thread \in Members(own)
  <2> SUFFICES ASSUME NEW k \in 1..n
               PROVE  LET x == Task(own[k], 0, Work(r, k))
                      IN  /\ x.thread = created + k /\ x.id = 0 /\ x.work = Work(r, k) /\ x.work.user = r
                          /\ x.thread \in Members(own)
    OBVIOUS
  <2>1. own[k] = created + k /\ created + k \in (created + 1)..(created + n)
    BY <1>3 DEF NewThreads
  <2> QED BY <2>1, <1>4 DEF Task, Work
<1>9. \A x \in tasks \union listen : x.thread \in Nat /\ x.thread <= created /\ x.thread \notin Members(own)
  BY <1>3, <1>6 DEF TypeOK, Numbered
<1> HIDE DEF n, own, new
<1>n. Numbered'
  <2>1. \A t \in Thread : t > created' => t > created /\ t \notin Members(own)
    BY <1>1, <1>3, <1>6
  <2>2. \A t \in Thread : t <= created => t <= created'
    BY <1>1, <1>3
  <2>3. \A x \in tasks' \union listen' : x.thread <= created' /\ x.id <= sent
    <3>1. \A x \in new : x.thread <= created' /\ x.id <= sent
      BY <1>3, <1>6, <1>8
    <3>2. \A x \in tasks \union listen : x.thread <= created' /\ x.id <= sent
      BY <1>1, <1>3, <1>9 DEF Numbered
    <3> QED BY <1>1, <3>1, <3>2
  <2>4. \A t \in Thread : t > created' => thread'[t] = "none" /\ ready'[t] = "wait"
    BY <1>1, <2>1 DEF Numbered
  <2>5. \A t \in Members(pool) : t <= created'
    BY <1>5, <2>2 DEF Numbered
  <2>6. \A v \in User : pc'[v] \in {"ready", "await", "own"} =>
          \A t \in Members(slots'[v]) : t \in Thread /\ t <= created'
    <3> SUFFICES ASSUME NEW v \in User, pc'[v] \in {"ready", "await", "own"}, NEW t \in Members(slots'[v])
                 PROVE  t \in Thread /\ t <= created'
      OBVIOUS
    <3>1. CASE v = r
      BY <3>1, <1>1, <1>5, <1>6
    <3>2. CASE v # r
      BY <3>2, <1>1, <2>2 DEF Numbered
    <3> QED BY <3>1, <3>2
  <2> QED BY <1>1, <2>3, <2>4, <2>5, <2>6 DEF Numbered
<1>l. Listens'
  <2> SUFFICES ASSUME NEW l \in listen \union new
               PROVE  /\ pc'[l.work.user] \notin {"idle", "inline", "ready"}
                      /\ pc'[l.work.user] \in {"await", "own"} => l.thread \in Members(slots'[l.work.user])
    BY <1>1 DEF Listens
  <2>1. CASE l \in new
    BY <2>1, <1>1, <1>8
  <2>2. CASE l \in listen
    <3>1. l.work.user \in User /\ l.work.user # r
      BY <2>2, <1>1 DEF Listens, TypeOK
    <3> QED BY <2>2, <3>1, <1>1 DEF Listens
  <2> QED BY <2>1, <2>2
<1>m. Matched'
  <2> SUFFICES ASSUME NEW x \in tasks \union new, NEW l \in listen \union new, x.thread = l.thread, x.id = l.id
               PROVE  x.work = l.work
    BY <1>1 DEF Matched
  <2>1. CASE x \in new /\ l \in new
    <3>1. PICK k \in 1..n : x.thread = created + k /\ x.work = Work(r, k)
      BY <2>1, <1>8
    <3>2. PICK k2 \in 1..n : l.thread = created + k2 /\ l.work = Work(r, k2)
      BY <2>1, <1>8
    <3>3. created + k = created + k2
      BY <3>1, <3>2
    <3>4. k = k2
      BY <3>3, <1>3
    <3> QED BY <3>1, <3>2, <3>4
  <2>2. CASE x \in tasks /\ l \in listen
    BY <2>2 DEF Matched
  <2>3. CASE x \in tasks /\ l \in new
    BY <2>3, <1>8, <1>9
  <2>4. CASE x \in new /\ l \in listen
    BY <2>4, <1>8, <1>9
  <2> QED BY <2>1, <2>2, <2>3, <2>4
<1>t. OwnTasks'
  BY <1>1, <1>7, <1>8 DEF OwnTasks
<1>o. OwnApart'
  <2>1. \A q \in Request \ {r} : pc'[q] = "own" =>
          /\ pc[q] = "own" /\ slots'[q] = slots[q]
          /\ \A t \in Members(slots[q]) : t \in Thread /\ t \notin Members(own)
    BY <1>1, <1>2, <1>3, <1>6 DEF Numbered
  <2>2. \A t \in Members(own) : thread'[t] = "up"
    BY <1>1, <1>5
  <2> SUFFICES ASSUME NEW q \in Request, pc'[q] = "own", NEW t \in Members(slots'[q])
               PROVE  /\ t \notin Members(pool)
                      /\ \A q2 \in Request \ {q} : pc'[q2] = "own" => t \notin Members(slots'[q2])
                      /\ thread'[t] \in {"failed", "ending"} => t \in died
    BY <1>1 DEF OwnApart
  <2>3. CASE q = r
    BY <2>1, <2>2, <2>3, <1>1, <1>7
  <2>4. CASE q # r
    BY <2>1, <2>4, <1>1 DEF OwnApart
  <2> QED BY <2>3, <2>4
<1>s. PoolSound' /\ FailedDied' /\ WarmAt'
  BY <1>1, <1>2, <1>5, <1>7 DEF PoolSound, FailedDied, WarmAt, User
<1>h. PoolHeld'
  <2>1. \A q \in Request : pc'[q] \in {"ready", "await"} <=> pc[q] \in {"ready", "await"}
    BY <1>1, <1>2
  <2>2. \A q \in Request : pc'[q] \in {"ready", "await"} => slots'[q] = slots[q]
    BY <1>1, <1>2
  <2>3. \A t \in Members(pool) : thread'[t] = thread[t]
    BY <1>1, <1>5, <1>7
  <2> QED BY <1>1, <2>1, <2>2, <2>3 DEF PoolHeld
<1>k. NoThreadLeaks'
  <2> SUFFICES ASSUME NEW t \in Thread, thread'[t] \in {"starting", "up"}, t \notin Members(pool)
               PROVE  \E q \in Request : pc'[q] = "own" /\ t \in Members(slots'[q])
    BY <1>1 DEF NoThreadLeaks
  <2>1. CASE t \in Members(own)
    BY <2>1, <1>1
  <2>2. CASE t \notin Members(own)
    <3>1. PICK q \in Request : pc[q] = "own" /\ t \in Members(slots[q])
      BY <2>2, <1>1 DEF NoThreadLeaks
    <3> QED BY <3>1, <1>1, <1>2
  <2> QED BY <2>1, <2>2
<1> QED BY <1>n, <1>l, <1>m, <1>t, <1>o, <1>s, <1>h, <1>k

LEMMA FreshMembers == \A t : t \in Members(FreshPool) <=> t \in 1..WarmCount
BY WarmIsOf DEF Members, FreshPool

\* What a process starts with.
Fresh ==
  /\ thread = FreshThread /\ ready = FreshReady /\ pool = FreshPool
  /\ created = WarmCount /\ busy = FALSE /\ sent = 0 /\ tasks = {} /\ listen = {}
  /\ slots[Warm] = FreshPool /\ pc[Warm] = "ready"
  /\ \A r \in Request : pc[r] \notin {"ready", "await", "own"}

LEMMA FreshStart == Fresh => PInv
<1> SUFFICES ASSUME Fresh PROVE PInv
  OBVIOUS
<1> USE DEF Fresh
<1>1. WarmCount \in Nat /\ MaxThreads \in Nat /\ WarmCount <= MaxThreads
  BY WarmIsOf, PoolAssumption
<1>2. \A t \in Thread : t \in Nat
  BY DEF Thread
<1>3. \A t \in Members(FreshPool) : t \in Thread /\ t <= WarmCount
  BY <1>1, FreshMembers DEF Thread
<1>4. \A t \in Thread : /\ thread[t] = IF t <= WarmCount THEN "starting" ELSE "none"
                        /\ ready[t] = "wait"
  BY DEF FreshThread, FreshReady
<1>5. \A t \in Thread : t > created => thread[t] = "none" /\ ready[t] = "wait"
  BY <1>1, <1>2, <1>4
<1>6. \A t \in Thread : thread[t] \in {"starting", "up"} => t \in Members(pool)
  BY <1>1, <1>2, <1>4, FreshMembers DEF Thread
<1>7. Numbered
  BY <1>3, <1>5 DEF Numbered, User
<1>8. \A t \in Thread : thread[t] \notin {"failed", "ending", "gone"} /\ ready[t] # "no"
  BY <1>4
<1>9. PoolHeld
  BY <1>8 DEF PoolHeld
<1> QED BY <1>3, <1>6, <1>7, <1>8, <1>9
     DEF PInv, Listens, Matched, OwnTasks, OwnApart, PoolSound, FailedDied, WarmAt, NoThreadLeaks

LEMMA CrashStep ==
  ASSUME TypeOK, NEW t \in Thread, Crash(t)
  PROVE  PInv'
<1>1. /\ thread' = FreshThread /\ ready' = FreshReady /\ pool' = FreshPool
      /\ created' = WarmCount /\ busy' = FALSE /\ sent' = 0 /\ tasks' = {} /\ listen' = {}
  BY DEF Crash
<1>2. slots'[Warm] = FreshPool /\ pc'[Warm] = "ready"
  BY DEF Crash, TypeOK, User
<1>3. \A r \in Request : pc'[r] \notin {"ready", "await", "own"}
  BY PoolAssumption DEF Crash, User, Ended
<1>4. Fresh'
  BY <1>1, <1>2, <1>3 DEF Fresh
<1> QED BY <1>4, FreshStart, PTL

LEMMA InitPInv == Init => PInv
<1> SUFFICES ASSUME Init PROVE Fresh
  BY FreshStart
<1> QED BY PoolAssumption DEF Init, Fresh, User

LEMMA PStep == TypeOK /\ PInv /\ [Next]_vars => PInv'
<1> SUFFICES ASSUME TypeOK, PInv, [Next]_vars PROVE PInv'
  OBVIOUS
<1>r. Request \subseteq User
  BY DEF User
<1>1. ASSUME NEW r \in Request, StartInline(r) PROVE PInv'
  <2>1. PICK to \in {"inline", "done"} : pc' = [pc EXCEPT ![r] = to]
    BY <1>1 DEF StartInline
  <2> QED BY <1>1, <2>1, PcStep DEF StartInline, marks
<1>2. ASSUME NEW r \in Request, InlineBatch(r) PROVE PInv'
  <2>1. pc' = [pc EXCEPT ![r] = "done"] \/ pc' = [pc EXCEPT ![r] = pc[r]]
    BY <1>2 DEF InlineBatch, TypeOK
  <2>2. pc[r] = "inline" /\ UNCHANGED <<pooling, busy, mail, slots, died>>
    BY <1>2 DEF InlineBatch, marks
  <2> QED BY <2>1, <2>2, PcStep
<1>3. ASSUME NEW r \in Request, InlineThrow(r) PROVE PInv'
  BY <1>3, PcStep DEF InlineThrow
<1>4. ASSUME NEW r \in Request, Reaped(r) PROVE PInv'
  <2>1. pc' = [pc EXCEPT ![r] = "done"] \/ pc' = [pc EXCEPT ![r] = "failed"]
    BY <1>4 DEF Reaped
  <2>2. pc[r] \in {"reap", "drop"} /\ UNCHANGED <<pooling, busy, mail, slots, died>>
    BY <1>4 DEF Reaped, marks
  <2> QED BY <2>1, <2>2, PcStep
<1>5. CASE UNCHANGED vars
  BY <1>5 DEF vars, pooling, mail, marks, PInv, Numbered, Listens, Matched, OwnTasks, OwnApart,
     PoolSound, FailedDied, WarmAt, PoolHeld, NoThreadLeaks
<1> QED BY <1>1, <1>2, <1>3, <1>4, <1>5, StartPooledStep, StartOneShotStep, PostStep, UnreadyStep,
     DieStep, ReadyStep, ErroredStep, ExitedStep, CrashStep, ResultStep, ThrownStep DEF Next, Serve, Event

\* Whatever conversions, results, errors and ends of threads come in whatever
\* order, the pool of persistent threads is one conversion's at a time, and its
\* threads are not ended under it (persistentCoreFastWorkerPoolBusy).
THEOREM PoolIsHeld == Spec => []PoolHeld
<1>1. Init => TypeOK /\ PInv
  BY InitType, InitPInv
<1>2. TypeOK /\ PInv /\ [Next]_vars => TypeOK' /\ PInv'
  BY Typed, PStep
<1>3. PInv => PoolHeld
  BY DEF PInv
<1> QED BY <1>1, <1>2, <1>3, PTL DEF Spec

\* No thread lives on without the pool or a conversion that will end it, also
\* after failures, resizings and restarts.
THEOREM NoThreadIsLeaked == Spec => []NoThreadLeaks
<1>1. Init => TypeOK /\ PInv
  BY InitType, InitPInv
<1>2. TypeOK /\ PInv /\ [Next]_vars => TypeOK' /\ PInv'
  BY Typed, PStep
<1>3. PInv => NoThreadLeaks
  BY DEF PInv
<1> QED BY <1>1, <1>2, <1>3, PTL DEF Spec

-----------------------------------------------------------------------------
(* Results and failures. *)

LEMMA WorkDiffers ==
  ASSUME NEW r \in Request, NEW p
  PROVE  Work(r, p) # Open
BY PoolAssumption DEF Work, Open

LEMMA GotStep ==
  ASSUME TypeOK, PInv, GotOwn, [Next]_vars
  PROVE  GotOwn'
<1>p. \A r \in Request : Parts(r)' = Parts(r)
  BY DEF Next, Serve, Event, StartInline, StartPooled, StartOneShot, Post, Unready, InlineBatch,
         InlineThrow, Ready, Die, Result, Thrown, Errored, Exited, Reaped, Crash, vars,
         Parts, NumParts, Threaded
<1>u. Request \subseteq User
  BY DEF User
\* A step that takes no result, and after which no more requests are answered
\* than have all their results.
<1>q. ASSUME got' = got,
             \A r \in Request : pc[r] = "idle" => pc'[r] = "idle",
             \A r \in Request : pc'[r] \in {"reap", "done"} => pc[r] \in {"reap", "done"}
      PROVE  GotOwn'
  BY <1>q, <1>p DEF GotOwn
<1>s. ASSUME NEW r \in Request, got' = [got EXCEPT ![r] = Unanswered(r)],
             \A q \in Request \ {r} : pc'[q] = pc[q], pc'[r] \in {"reap", "done"} => Parts(r) = {}
      PROVE  GotOwn'
  <2>1. got'[r] = [p \in Parts(r) |-> Open] /\ \A q \in Request \ {r} : got'[q] = got[q]
    BY <1>s DEF Unanswered, TypeOK
  <2>2. DOMAIN got'[r] = Parts(r) /\ \A p \in Parts(r) : got'[r][p] = Open
    BY <2>1
  <2> QED BY <1>s, <1>p, <2>1, <2>2 DEF GotOwn
<1>1. ASSUME NEW r \in Request, StartInline(r) \/ StartPooled(r) \/ StartOneShot(r) PROVE GotOwn'
  <2>1. /\ got' = [got EXCEPT ![r] = Unanswered(r)]
        /\ \A q \in Request \ {r} : pc'[q] = pc[q]
    BY <1>1, <1>u DEF StartInline, StartPooled, StartOneShot, TypeOK
  <2>2. pc'[r] \in {"reap", "done"} => NumParts(r) = 0
    BY <1>1, <1>u DEF StartInline, StartPooled, StartOneShot, TypeOK
  <2>3. NumParts(r) = 0 => Parts(r) = {}
    BY DEF Parts
  <2> QED BY <2>1, <2>2, <2>3, <1>s
<1>2. ASSUME NEW r \in Request, InlineThrow(r) \/ Reaped(r) PROVE GotOwn'
  BY <1>2, <1>q, <1>u DEF InlineThrow, Reaped, TypeOK
<1>3. ASSUME NEW u \in User, Post(u) \/ Unready(u) PROVE GotOwn'
  BY <1>3, <1>q, <1>u DEF Post, Unready, AllReady, AnyUnready, TypeOK
<1>4. ASSUME NEW t \in Thread, Die(t) \/ Ready(t) \/ Crash(t) PROVE GotOwn'
  <2>1. CASE Die(t) \/ Ready(t)
    BY <2>1, <1>q DEF Die, Ready
  <2>2. CASE Crash(t)
    <3>1. \A r \in Request : pc'[r] = pc[r] \/ (pc[r] # "idle" /\ pc'[r] = "lost")
      BY <2>2, <1>u, PoolAssumption DEF Crash, Ended
    <3>2. got' = got
      BY <2>2 DEF Crash
    <3> QED BY <3>1, <3>2, <1>q
  <2> QED BY <1>4, <2>1, <2>2
<1>5. ASSUME NEW S, Settle(S, "failed", "drop"), got' = got PROVE GotOwn'
  BY <1>5, <1>q, <1>u DEF Settle, TypeOK
<1>6. ASSUME NEW t \in Thread, Errored(t) \/ Exited(t) PROVE GotOwn'
  BY <1>6, <1>5 DEF Errored, Exited
<1>7. ASSUME NEW x \in tasks, Thrown(x) PROVE GotOwn'
  BY <1>7, <1>5 DEF Thrown
<1>8. ASSUME NEW r \in Request, InlineBatch(r) PROVE GotOwn'
  <2>1. PICK b \in 1..cursor[r] : got[r][b] = Open
                              /\ got' = [got EXCEPT ![r] = [got[r] EXCEPT ![b] = Work(r, b)]]
    BY <1>8 DEF InlineBatch
  <2>2. pc[r] = "inline" /\ \A q \in Request \ {r} : pc'[q] = pc[q] /\ got'[q] = got[q]
    BY <1>8, <2>1, <1>u DEF InlineBatch, TypeOK
  <2>3. DOMAIN got'[r] = Parts(r) /\ \A p \in Parts(r) : got'[r][p] \in {Open, Work(r, p)}
    BY <2>1, <2>2 DEF GotOwn, TypeOK
  <2>4. pc'[r] \in {"reap", "done"} => \A p \in Parts(r) : got'[r][p] # Open
    BY <1>8, <2>2, <1>u DEF InlineBatch, TypeOK
  <2> QED BY <2>2, <2>3, <2>4, <1>p DEF GotOwn
<1>9. ASSUME NEW x \in tasks, Result(x) PROVE GotOwn'
  <2> DEFINE whole == {r \in Users(Listening(x)) \ {Warm} : \A p \in Parts(r) : got'[r][p] # Open}
  <2>1. /\ got' = [r \in Request |-> [p \in DOMAIN got[r] |->
                     IF \E l \in Listening(x) : l.work = Work(r, p) THEN x.work ELSE got[r][p]]]
        /\ Settle(whole, "done", "reap")
    BY <1>9 DEF Result
  <2>2. \A l \in Listening(x) : l.work = x.work
    BY DEF Listening, PInv, Matched
  <2>3. \A r \in Request : DOMAIN got'[r] = DOMAIN got[r]
          /\ \A p \in DOMAIN got[r] : got'[r][p] \in {got[r][p], Work(r, p)}
    BY <2>1, <2>2
  <2>4. \A r \in Request : pc'[r] # pc[r] =>
          /\ r \in whole /\ pc[r] \in {"await", "own"}
    BY <2>1, <1>u DEF Settle, TypeOK
  <2> SUFFICES ASSUME NEW r \in Request, pc'[r] # "idle"
               PROVE  /\ DOMAIN got'[r] = Parts(r)
                      /\ \A p \in Parts(r) : got'[r][p] \in {Open, Work(r, p)}
                      /\ pc'[r] \in {"reap", "done"} => \A p \in Parts(r) : got'[r][p] # Open
    BY <1>p DEF GotOwn
  <2>5. pc[r] # "idle"
    BY <2>4
  <2>6. DOMAIN got'[r] = Parts(r) /\ \A p \in Parts(r) : got'[r][p] \in {Open, Work(r, p)}
    BY <2>3, <2>5 DEF GotOwn
  <2>7. CASE pc'[r] = pc[r]
    BY <2>3, <2>5, <2>6, <2>7, WorkDiffers DEF GotOwn
  <2>8. CASE pc'[r] # pc[r]
    BY <2>4, <2>6, <2>8
  <2> QED BY <2>6, <2>7, <2>8
<1>10. CASE UNCHANGED vars
  BY <1>10, <1>q DEF vars
<1> QED BY <1>1, <1>2, <1>3, <1>4, <1>6, <1>7, <1>8, <1>9, <1>10 DEF Next, Serve, Event

\* For any number of conversions and threads, a conversion that was answered has
\* for each part what was computed for that part, although threads answer late
\* (the request ids of runPersistentCoreFastWorkerRequest).
THEOREM AnswersAreItsOwn == Spec => []AnswersAreOwn
<1>1. Init => TypeOK /\ PInv /\ GotOwn
  BY InitType, InitPInv, PoolAssumption DEF Init, GotOwn, User
<1>2. TypeOK /\ PInv /\ GotOwn /\ [Next]_vars => TypeOK' /\ PInv' /\ GotOwn'
  BY Typed, PStep, GotStep
<1>3. GotOwn => AnswersAreOwn
  BY DEF GotOwn, AnswersAreOwn
<1> QED BY <1>1, <1>2, <1>3, PTL DEF Spec

\* What is converted was divided as a whole.
Planned == \A r \in Request : \E x \in Seq(Key) : input[r] = Plan(x)

LEMMA InputIsPlanned ==
  /\ Init => Planned
  /\ Planned /\ [Next]_vars => Planned'
<1>1. Init => Planned
  BY PoolAssumption DEF Init, Planned
<1>2. ASSUME [Next]_vars PROVE input' = input
  BY <1>2 DEF Next, Serve, Event, StartInline, StartPooled, StartOneShot, Post, Unready, InlineBatch,
              InlineThrow, Ready, Die, Result, Thrown, Errored, Exited, Reaped, Crash, vars
<1>3. QED BY <1>1, <1>2 DEF Planned

\* Every batch is in one part.
LEMMA BatchesInOnePart ==
  ASSUME NEW r \in Request, NEW x \in Seq(Key), input[r] = Plan(x), NEW b \in DOMAIN Batches(x)
  PROVE  /\ \A p \in Parts(r) : BatchesOf(r, p) \subseteq DOMAIN Batches(x)
         /\ \E p \in Parts(r) : /\ b \in BatchesOf(r, p)
                                /\ \A q \in Parts(r) \ {p} : b \notin BatchesOf(r, q)
<1>1. PICK c \in Seq(Seq(Nat)) : c = Batches(x) /\ DOMAIN c = 1..Len(c)
  BY BatchesType
<1>2. PICK parts : parts = Assignments(x)
  OBVIOUS
<1>3. input[r].batches = c /\ input[r].parts = parts
  BY <1>1, <1>2 DEF Plan
<1>4. CASE Threaded(r)
  <2>1. PICK w \in Nat : w = Workers(c)
    BY SizesAssumption DEF Workers
  <2>2. Dealt(c, w, DOMAIN c, parts)
    BY <1>1, <1>2, <2>1, AssignmentsAre
  <2>3. Len(parts) = w
    <3>1. PICK s \in [1..w -> SUBSET DOMAIN c] : s = parts
      BY <2>2 DEF Dealt
    <3>2. s \in Seq(SUBSET DOMAIN c) /\ DOMAIN s = 1..w
      BY <3>1, SeqDef
    <3>3. QED BY <3>1, <3>2
  <2>4. Parts(r) = 1..w /\ \A p : BatchesOf(r, p) = parts[p]
    BY <1>3, <1>4, <2>3 DEF Parts, NumParts, BatchesOf
  <2>5. /\ \A p \in 1..w : parts[p] \subseteq DOMAIN c
        /\ \E p \in 1..w : b \in parts[p] /\ \A q \in 1..w \ {p} : b \notin parts[q]
    BY <1>1, <2>2 DEF Dealt
  <2>6. \A p \in Parts(r) : BatchesOf(r, p) \subseteq DOMAIN c
    BY <2>4, <2>5
  <2>7. \E p \in Parts(r) : b \in BatchesOf(r, p) /\ \A q \in Parts(r) \ {p} : b \notin BatchesOf(r, q)
    <3>1. PICK p \in 1..w : b \in parts[p] /\ \A q \in 1..w \ {p} : b \notin parts[q]
      BY <2>5
    <3>2. /\ p \in Parts(r) /\ b \in BatchesOf(r, p)
          /\ \A q \in Parts(r) \ {p} : b \notin BatchesOf(r, q)
      BY <2>4, <3>1
    <3>3. QED BY <3>2
  <2>8. QED BY <1>1, <2>6, <2>7, Zenon
<1>5. CASE ~Threaded(r)
  <2>1. Parts(r) = DOMAIN c /\ \A p : BatchesOf(r, p) = {p}
    BY <1>1, <1>3, <1>5 DEF Parts, NumParts, BatchesOf
  <2>2. QED BY <1>1, <2>1
<1>6. QED BY <1>4, <1>5

\* Whatever its input and whichever way it goes, a conversion that is answered
\* has converted each block once, and the blocks of one semantic group together.
THEOREM ConvertedOnce == Spec => []Converted
<1>1. Init => Planned
  BY InputIsPlanned
<1>2. Planned /\ [Next]_vars => Planned'
  BY InputIsPlanned
<1>3. ASSUME Planned, AnswersAreOwn PROVE Converted
  <2> SUFFICES ASSUME NEW r \in Request, pc[r] = "done", NEW i \in DOMAIN input[r].blocks
               PROVE  \E p \in Parts(r) :
                        /\ i \in Blocks(got[r][p])
                        /\ \A q \in Parts(r) \ {p} : i \notin Blocks(got[r][q])
                        /\ i > 1 /\ input[r].blocks[i] = input[r].blocks[i - 1]
                             => i - 1 \in Blocks(got[r][p])
    BY <1>3 DEF Converted
  <2>1. PICK x \in Seq(Key) : input[r] = Plan(x)
    BY <1>3 DEF Planned
  <2>2. PICK c : c = Batches(x)
    OBVIOUS
  <2>3. input[r].blocks = x /\ input[r].batches = c
    BY <2>1, <2>2 DEF Plan
  <2>4. PICK b \in DOMAIN c : InOneBatch(x, c, i, b)
    BY <2>2, <2>3, BatchesHoldOnce
  <2>5. /\ \A p \in Parts(r) : BatchesOf(r, p) \subseteq DOMAIN c
        /\ \E p \in Parts(r) : /\ b \in BatchesOf(r, p)
                               /\ \A q \in Parts(r) \ {p} : b \notin BatchesOf(r, q)
    BY <2>1, <2>2, BatchesInOnePart
  <2>6. PICK p \in Parts(r) : /\ b \in BatchesOf(r, p)
                              /\ \A q \in Parts(r) \ {p} : b \notin BatchesOf(r, q)
    BY <2>5
  <2>7. ASSUME NEW q \in Parts(r)
        PROVE  \A j : j \in Blocks(got[r][q]) <=> \E a \in BatchesOf(r, q) : j \in Members(c[a])
    <3>1. got[r][q] = Work(r, q)
      BY <1>3 DEF AnswersAreOwn
    <3>2. got[r][q].user = r /\ got[r][q].part = q
      BY <3>1 DEF Work
    <3>3. QED BY <2>3, <3>2, Zenon DEF Blocks
  <2>8. i \in Blocks(got[r][p])
    BY <2>4, <2>6, <2>7 DEF InOneBatch
  <2>9. ASSUME NEW q \in Parts(r) \ {p} PROVE i \notin Blocks(got[r][q])
    <3>1. \A a \in BatchesOf(r, q) : a \in DOMAIN c \ {b}
      BY <2>5, <2>6
    <3>2. QED BY <2>4, <2>7, <3>1 DEF InOneBatch
  <2>10. ASSUME i > 1, input[r].blocks[i] = input[r].blocks[i - 1]
         PROVE  i - 1 \in Blocks(got[r][p])
    <3>1. i - 1 \in Members(c[b])
      BY <2>3, <2>4, <2>10 DEF InOneBatch
    <3>2. QED BY <2>6, <2>7, <3>1
  <2>11. QED BY <2>8, <2>9, <2>10
<1>4. QED BY <1>1, <1>2, <1>3, AnswersAreItsOwn, PTL DEF Spec

-----------------------------------------------------------------------------
(* Who is to blame for a failure. *)

\* What the threads a request waits on come to is its own.
LEMMA DeadIsOwn ==
  ASSUME TypeOK, PInv, NEW r \in Request, pc[r] \in {"ready", "await", "own"},
         NEW t \in Members(slots[r]),
         \/ thread[t] \in {"failed", "ending"}
         \/ pc[r] # "own" /\ (thread[t] = "gone" \/ ready[t] = "no")
  PROVE  OwnFault(r)
<1>1. CASE pc[r] = "own"
  BY <1>1 DEF PInv, OwnApart, OwnFault
<1>2. CASE pc[r] \in {"ready", "await"}
  <2>1. slots[r] = pool
    BY <1>2 DEF PInv, PoolHeld
  <2> QED BY <1>2, <2>1 DEF PInv, PoolSound, OwnFault
<1> QED BY <1>1, <1>2

LEMMA StuckIsOwn ==
  ASSUME TypeOK, PInv, NEW r \in Request, Stuck(r)
  PROVE  OwnFault(r)
<1>1. PICK l \in listen : l.work.user = r /\ thread[l.thread] = "gone"
  BY DEF Stuck
<1>2. pc[r] = "await"
  BY DEF Stuck
<1>3. l.thread \in Members(slots[r])
  BY <1>1, <1>2 DEF PInv, Listens
<1> QED BY <1>1, <1>2, <1>3, DeadIsOwn

\* A step after which r is failing, and was not.
Fails(r) == pc'[r] # pc[r] /\ pc'[r] \in {"drop", "failed"}

LEMMA FailStep ==
  ASSUME TypeOK, PInv, DropExplained, [Next]_vars, NEW r \in Request, Fails(r)
  PROVE  OwnFault(r)'
<1>u. r \in User /\ r # Warm
  BY PoolAssumption DEF User
<1>k. ASSUME OwnFault(r), slots' = slots, threw \subseteq threw', died \subseteq died'
      PROVE  OwnFault(r)'
  BY <1>k DEF OwnFault
<1>1. ASSUME NEW q \in Request, StartInline(q) \/ StartPooled(q) \/ StartOneShot(q) \/ InlineBatch(q)
      PROVE  FALSE
  BY <1>1, <1>u DEF Fails, StartInline, StartPooled, StartOneShot, InlineBatch, TypeOK
<1>2. ASSUME NEW q \in Request, InlineThrow(q) PROVE OwnFault(r)'
  BY <1>2, <1>u DEF Fails, InlineThrow, TypeOK, OwnFault
<1>3. ASSUME NEW q \in Request, Reaped(q) PROVE OwnFault(r)'
  <2>1. pc[r] = "drop"
    BY <1>3, <1>u DEF Fails, Reaped, TypeOK
  <2> QED BY <2>1, <1>3, <1>k DEF DropExplained, Reaped, marks
<1>4. ASSUME NEW u \in User, Post(u) PROVE FALSE
  BY <1>4, <1>u DEF Fails, Post, TypeOK
<1>5. ASSUME NEW u \in User, Unready(u) PROVE OwnFault(r)'
  <2>1. pc[r] = "ready" /\ \E k \in DOMAIN slots[r] : ready[slots[r][k]] = "no"
    BY <1>5, <1>u DEF Fails, Unready, AnyUnready, TypeOK
  <2>2. PICK k \in DOMAIN slots[r] : ready[slots[r][k]] = "no"
    BY <2>1
  <2>3. slots[r][k] \in Members(slots[r])
    BY DEF Members
  <2>4. OwnFault(r)
    BY <2>1, <2>2, <2>3, DeadIsOwn
  <2> QED BY <2>4, <1>5, <1>k DEF Unready, marks
<1>6. ASSUME NEW t \in Thread, Die(t) \/ Ready(t) PROVE FALSE
  BY <1>6 DEF Fails, Die, Ready
<1>7. ASSUME NEW t \in Thread, Crash(t) PROVE FALSE
  BY <1>7, <1>u DEF Fails, Crash, Ended
\* Whom the end of thread t fails listened on it.
<1>e. ASSUME NEW t \in Thread, Settle(Users(Listeners(t)), "failed", "drop"),
             thread[t] \in {"failed", "ending"}
      PROVE  OwnFault(r)
  <2>1. r \in Users(Listeners(t)) /\ pc[r] \in {"await", "own"}
    BY <1>e, <1>u DEF Fails, Settle, TypeOK
  <2>2. PICK l \in listen : l.thread = t /\ l.work.user = r
    BY <2>1 DEF Users, Listeners
  <2>3. t \in Members(slots[r])
    BY <2>1, <2>2 DEF PInv, Listens
  <2> QED BY <1>e, <2>1, <2>3, DeadIsOwn
<1>8. ASSUME NEW t \in Thread, Errored(t) \/ Exited(t) PROVE OwnFault(r)'
  BY <1>8, <1>e, <1>k DEF Errored, Exited, marks
<1>9. ASSUME NEW x \in tasks, Thrown(x) PROVE OwnFault(r)'
  <2>1. Settle(Users(Listening(x)), "failed", "drop") /\ threw' = threw \union {x.work.user}
    BY <1>9 DEF Thrown
  <2>2. r \in Users(Listening(x))
    BY <2>1, <1>u DEF Fails, Settle, TypeOK
  <2>3. PICK l \in listen : l.thread = x.thread /\ l.id = x.id /\ l.work.user = r
    BY <2>2 DEF Users, Listening
  <2>4. x.work.user = r
    BY <2>3 DEF PInv, Matched
  <2> QED BY <2>1, <2>4 DEF OwnFault
<1>10. ASSUME NEW x \in tasks, Result(x) PROVE FALSE
  <2>1. \E S : Settle(S, "done", "reap")
    BY <1>10 DEF Result
  <2> QED BY <2>1, <1>u DEF Fails, Settle, TypeOK
<1>11. CASE UNCHANGED vars
  BY <1>11 DEF Fails, vars
<1> QED BY <1>1, <1>2, <1>3, <1>4, <1>5, <1>6, <1>7, <1>8, <1>9, <1>10, <1>11 DEF Next, Serve, Event

\* threw and, within one process, died only grow, and a request that is failing
\* keeps its threads.
LEMMA DropStep ==
  ASSUME TypeOK, PInv, DropExplained, [Next]_vars
  PROVE  DropExplained'
<1> SUFFICES ASSUME NEW r \in Request, pc'[r] = "drop" PROVE OwnFault(r)'
  BY DEF DropExplained
<1>u. r \in User /\ r # Warm
  BY PoolAssumption DEF User
<1>1. CASE pc[r] # "drop"
  BY <1>1, FailStep DEF Fails
<1>2. CASE pc[r] = "drop"
  <2>1. OwnFault(r)
    BY <1>2 DEF DropExplained
  <2>2. threw \subseteq threw'
    BY DEF Next, Serve, Event, StartInline, StartPooled, StartOneShot, Post, Unready, InlineBatch,
         InlineThrow, Ready, Die, Result, Thrown, Errored, Exited, Reaped, Crash, vars, marks
  <2>3. ASSUME NEW t \in Thread, Crash(t) PROVE FALSE
    BY <2>3, <1>2, <1>u DEF Crash, Ended
  <2>4. died \subseteq died'
    BY <2>3 DEF Next, Serve, Event, StartInline, StartPooled, StartOneShot, Post, Unready, InlineBatch,
         InlineThrow, Ready, Die, Result, Thrown, Errored, Exited, Reaped, vars, marks
  <2>5. ASSUME NEW q \in Request, StartPooled(q) \/ StartOneShot(q) PROVE slots'[r] = slots[r]
    BY <2>5, <1>2, <1>u DEF StartPooled, StartOneShot, TypeOK
  <2>6. slots'[r] = slots[r]
    BY <2>3, <2>5 DEF Next, Serve, Event, StartInline, Post, Unready, InlineBatch,
         InlineThrow, Ready, Die, Result, Thrown, Errored, Exited, Reaped, vars
  <2> QED BY <2>1, <2>2, <2>4, <2>6 DEF OwnFault
<1> QED BY <1>1, <1>2

\* A conversion that waits for a thread that is gone has a dead thread of its own.
StuckExplained == \A r \in Request : Stuck(r) => OwnFault(r)

LEMMA StuckIsExplained == TypeOK /\ PInv => StuckExplained
BY StuckIsOwn DEF StuckExplained

\* For any number of conversions and threads, a step that fails a conversion, or
\* after which it waits for a thread that is gone, has to do with a part of its
\* own that threw or a thread of its own that died.
THEOREM FailuresAreOwn == Spec => OwnFailures
<1>1. Init => TypeOK /\ PInv /\ DropExplained
  BY InitType, InitPInv, PoolAssumption DEF Init, DropExplained, User
<1>2. TypeOK /\ PInv /\ DropExplained /\ [Next]_vars => TypeOK' /\ PInv' /\ DropExplained'
  BY Typed, PStep, DropStep
<1>3. TypeOK /\ PInv => StuckExplained
  BY StuckIsExplained
<1>4. TypeOK' /\ PInv' => StuckExplained'
  BY <1>3, PTL
<1>5. TypeOK /\ PInv /\ DropExplained /\ [Next]_vars =>
        [\A r \in Request : (pc'[r] # pc[r] /\ pc'[r] \in {"drop", "failed"}) \/ Stuck(r)' => OwnFault(r)']_vars
  <2> SUFFICES ASSUME TypeOK, PInv, DropExplained, [Next]_vars, NEW r \in Request,
                      (pc'[r] # pc[r] /\ pc'[r] \in {"drop", "failed"}) \/ Stuck(r)'
               PROVE  OwnFault(r)'
    OBVIOUS
  <2>1. TypeOK' /\ PInv'
    BY Typed, PStep
  <2> QED BY <2>1, <1>4, FailStep DEF Fails, StuckExplained
<1> QED BY <1>1, <1>2, <1>5, PTL DEF Spec, OwnFailures
-----------------------------------------------------------------------------
(* Nobody waits in vain: what RequestsEnd rests on. *)

\* What r waits for is there to be taken, or an event of one of its threads will
\* end its wait.
Coming(r) ==
  \/ pc[r] = "inline" /\ \E b \in 1..cursor[r] : got[r][b] = Open
  \/ AllReady(r) \/ AnyUnready(r)
  \/ /\ pc[r] = "ready"
     /\ \E t \in Members(slots[r]) :
          ready[t] = "wait" /\ thread[t] \in {"starting", "failed", "ending"}
  \/ /\ pc[r] \in {"await", "own"}
     /\ \E l \in listen :
          /\ l.work.user = r
          /\ thread[l.thread] \in {"failed", "ending"} \/ (l \in tasks /\ thread[l.thread] = "up")
  \/ /\ pc[r] \in {"reap", "drop"}
     /\ \/ \A t \in Members(slots[r]) : thread[t] = "gone"
        \/ \E t \in Members(slots[r]) : thread[t] \in {"failed", "ending"}

NobodyWaitsInVain ==
  \A r \in Request : pc[r] \notin Ended \union {"idle"} => Coming(r) \/ Stuck(r)

\* What is promised of a thread is settled by its life.
Lives ==
  \A t \in Thread :
    /\ thread[t] = "up" => ready[t] = "yes"
    /\ thread[t] = "starting" => ready[t] = "wait"
    /\ thread[t] = "gone" => ready[t] # "wait"
    /\ t <= created => thread[t] # "none"

\* The threads of a request of its own stay apart until they are gone.
KeptApart ==
  \A r \in Request : pc[r] \in {"own", "reap", "drop"} => \A t \in Members(slots[r]) :
    /\ t \in Thread /\ t <= created /\ t \notin Members(pool)
    /\ \A q \in Request \ {r} : pc[q] = "own" => t \notin Members(slots[q])

\* A listener on a thread that lives has a task there, and one on a thread of
\* one request is told of its end.
Heeded ==
  \A l \in listen :
    /\ thread[l.thread] # "starting"
    /\ thread[l.thread] = "up" => l \in tasks
    /\ l.id = 0 => thread[l.thread] # "gone"
    /\ pc[l.work.user] = "own" => l.id = 0

\* A request that waits for answers lacks one, and listens for each that it lacks.
Lacks(r) ==
  /\ pc[r] \in {"ready", "await", "own"} => Len(slots[r]) = NumParts(r) /\ NumParts(r) # 0
  /\ pc[r] = "ready" => \A p \in Parts(r) : got[r][p] = Open
  /\ pc[r] \in {"await", "own"} =>
       /\ \E p \in Parts(r) : got[r][p] = Open
       /\ \A p \in Parts(r) : got[r][p] = Open => \E l \in listen : l.work = Work(r, p)
Lacking == \A r \in Request : Lacks(r)

\* The loops of the server's own thread have begun the batches up to the cursor,
\* and no others; one of them is not done.
Begun ==
  \A r \in Request : pc[r] = "inline" =>
    /\ cursor[r] <= NumParts(r)
    /\ \A b \in Parts(r) : b > cursor[r] => got[r][b] = Open
    /\ \E b \in 1..cursor[r] : got[r][b] = Open

QInv == Lives /\ KeptApart /\ Heeded /\ Lacking /\ Begun

\* What becomes of threads that are terminated.
LEMMA Ends ==
  ASSUME TypeOK, NEW S, NEW t \in Thread
  PROVE  /\ Terminated(S)[t] \in {thread[t], "ending", "gone"}
         /\ Terminated(S)[t] = "gone" => thread[t] = "gone" \/ (ready[t] # "wait" /\ Listeners(t) = {})
<1>1. Terminated(S)[t] = IF t \notin S \/ thread[t] \notin {"starting", "up"} THEN thread[t]
                         ELSE IF Heard(t) THEN "ending" ELSE "gone"
  BY DEF Terminated
<1>2. CASE t \notin S \/ thread[t] \notin {"starting", "up"}
  <2>1. Terminated(S)[t] = thread[t]
    BY <1>1, <1>2
  <2>2. QED BY <2>1
<1>3. CASE ~(t \notin S \/ thread[t] \notin {"starting", "up"}) /\ Heard(t)
  BY <1>1, <1>3
<1>4. CASE ~(t \notin S \/ thread[t] \notin {"starting", "up"}) /\ ~Heard(t)
  BY <1>1, <1>4 DEF Heard
<1>5. QED BY <1>2, <1>3, <1>4

LEMMA LivesStep ==
  ASSUME TypeOK, PInv, Lives, [Next]_vars
  PROVE  Lives'
<1>c. created \in Nat /\ \A t \in Thread : t \in Nat
  BY PoolAssumption DEF TypeOK, Thread
<1>f. ASSUME UNCHANGED <<thread, ready, created>> PROVE Lives'
  BY <1>f DEF Lives
\* Threads are terminated, and those in D have come to their end.
<1>e. ASSUME NEW S, NEW D, created' = created,
             \A t \in Thread : t \notin D => thread'[t] = Terminated(S)[t] /\ ready'[t] = ready[t],
             \A t \in Thread : t \in D => thread'[t] \in {"ending", "gone"} /\ ready'[t] # "wait"
      PROVE  Lives'
  <2> SUFFICES ASSUME NEW t \in Thread
               PROVE  /\ thread'[t] = "up" => ready'[t] = "yes"
                      /\ thread'[t] = "starting" => ready'[t] = "wait"
                      /\ thread'[t] = "gone" => ready'[t] # "wait"
                      /\ t <= created => thread'[t] # "none"
    BY <1>e DEF Lives
  <2>1. CASE t \in D
    BY <1>e, <2>1
  <2>2. CASE t \notin D
    <3>1. /\ thread'[t] \in {thread[t], "ending", "gone"} /\ ready'[t] = ready[t]
          /\ thread'[t] = "gone" => thread[t] = "gone" \/ ready[t] # "wait"
      BY <1>e, <2>2, Ends
    <3>2. QED BY <3>1 DEF Lives
  <2>3. QED BY <2>1, <2>2
<1>1. ASSUME NEW r \in Request,
             StartInline(r) \/ InlineBatch(r) \/ InlineThrow(r) \/ Reaped(r)
      PROVE  Lives'
  BY <1>1, <1>f DEF StartInline, InlineBatch, InlineThrow, Reaped, pooling
<1>2. ASSUME NEW u \in User, Post(u) \/ Unready(u) PROVE Lives'
  BY <1>2, <1>f DEF Post, Unready, pooling
<1>3. ASSUME NEW r \in Request, StartPooled(r) PROVE Lives'
  <2> DEFINE n == NumParts(r)
  <2>1. n \in Nat
    BY PartsCount
  <2>2. CASE Len(pool) = n
    <3>1. UNCHANGED <<thread, ready, created>>
      BY <1>3, <2>2 DEF StartPooled, EnsurePool, pooling
    <3>2. QED BY <3>1, <1>f
  <2>3. CASE Len(pool) # n
    <3>1. /\ created + n <= MaxThreads /\ created' = created + n /\ ready' = ready
          /\ thread' = [t \in Thread |-> IF t \in Members(NewThreads(n)) THEN "starting"
                                         ELSE Terminated(Members(pool))[t]]
      BY <1>3, <2>3 DEF StartPooled, EnsurePool
    <3> HIDE DEF n
    <3> SUFFICES ASSUME NEW t \in Thread
                 PROVE  /\ thread'[t] = "up" => ready'[t] = "yes"
                        /\ thread'[t] = "starting" => ready'[t] = "wait"
                        /\ thread'[t] = "gone" => ready'[t] # "wait"
                        /\ t <= created' => thread'[t] # "none"
      BY DEF Lives
    <3>2. t \in Members(NewThreads(n)) <=> t \in (created + 1)..(created + n)
      BY <1>c, <2>1, <3>1, NewOnes
    <3>3. CASE t \in Members(NewThreads(n))
      <4>1. t > created
        BY <1>c, <2>1, <3>2, <3>3
      <4>2. ready[t] = "wait"
        BY <4>1 DEF PInv, Numbered
      <4>3. QED BY <3>1, <3>3, <4>2
    <3>4. CASE t \notin Members(NewThreads(n))
      <4>1. /\ thread'[t] \in {thread[t], "ending", "gone"} /\ ready'[t] = ready[t]
            /\ thread'[t] = "gone" => thread[t] = "gone" \/ ready[t] # "wait"
        BY <3>1, <3>4, Ends
      <4>2. t <= created' => t <= created
        BY <1>c, <2>1, <3>1, <3>2, <3>4
      <4>3. QED BY <4>1, <4>2 DEF Lives
    <3>5. QED BY <3>3, <3>4
  <2>4. QED BY <2>2, <2>3
<1>4. ASSUME NEW r \in Request, StartOneShot(r) PROVE Lives'
  <2> DEFINE n == NumParts(r)
  <2>1. n \in Nat
    BY PartsCount
  <2>2. /\ created + n <= MaxThreads /\ created' = created + n
        /\ thread' = [t \in Thread |-> IF t \in Members(NewThreads(n)) THEN "up" ELSE thread[t]]
        /\ ready' = [t \in Thread |-> IF t \in Members(NewThreads(n)) THEN "yes" ELSE ready[t]]
    BY <1>4 DEF StartOneShot
  <2> HIDE DEF n
  <2> SUFFICES ASSUME NEW t \in Thread
               PROVE  /\ thread'[t] = "up" => ready'[t] = "yes"
                      /\ thread'[t] = "starting" => ready'[t] = "wait"
                      /\ thread'[t] = "gone" => ready'[t] # "wait"
                      /\ t <= created' => thread'[t] # "none"
    BY DEF Lives
  <2>3. t \in Members(NewThreads(n)) <=> t \in (created + 1)..(created + n)
    BY <1>c, <2>1, <2>2, NewOnes
  <2>4. CASE t \in Members(NewThreads(n))
    BY <2>2, <2>4
  <2>5. CASE t \notin Members(NewThreads(n))
    <3>1. t <= created' => t <= created
      BY <1>c, <2>1, <2>2, <2>3, <2>5
    <3>2. thread'[t] = thread[t] /\ ready'[t] = ready[t]
      BY <2>2, <2>5
    <3>3. QED BY <3>1, <3>2 DEF Lives
  <2>6. QED BY <2>4, <2>5
<1>5. ASSUME NEW t \in Thread, Ready(t) \/ Die(t) PROVE Lives'
  BY <1>5 DEF Ready, Die, Lives, TypeOK
<1>6. ASSUME NEW x \in tasks, Result(x) \/ Thrown(x) PROVE Lives'
  <2>1. PICK S : thread' = Leaving(x, Terminated(S))
    BY <1>6 DEF Result, Thrown
  <2>2. ready' = ready /\ created' = created /\ thread[x.thread] = "up" /\ x.thread \in Thread
    BY <1>6 DEF Result, Thrown, TypeOK
  <2>3. Terminated(S) \in [Thread -> Life]
    BY TerminatedType
  <2>4. PICK D : D = IF x.id = 0 THEN {x.thread} ELSE {}
    OBVIOUS
  <2>5. \A t \in Thread : /\ t \notin D => thread'[t] = Terminated(S)[t]
                          /\ t \in D => thread'[t] = "gone"
    BY <2>1, <2>3, <2>4 DEF Leaving
  <2>6. \A t \in Thread : t \in D => ready'[t] # "wait"
    BY <2>2, <2>4 DEF Lives
  <2>7. QED BY <1>e, <2>2, <2>5, <2>6
<1>7. ASSUME NEW t \in Thread, Errored(t) \/ Exited(t) PROVE Lives'
  <2>1. PICK S : S = OwnThreads(Users(Listeners(t)))
    OBVIOUS
  <2>2. PICK to \in {"ending", "gone"} : thread' = [Terminated(S) EXCEPT ![t] = to]
    BY <1>7, <2>1 DEF Errored, Exited
  <2>3. ready' = Rejected(t) /\ created' = created
    BY <1>7 DEF Errored, Exited
  <2>4. Terminated(S) \in [Thread -> Life]
    BY TerminatedType
  <2>5. /\ \A s \in Thread : s \notin {t} => thread'[s] = Terminated(S)[s] /\ ready'[s] = ready[s]
        /\ \A s \in Thread : s \in {t} => thread'[s] \in {"ending", "gone"} /\ ready'[s] # "wait"
    BY <2>2, <2>3, <2>4 DEF Rejected, TypeOK
  <2>6. PICK D : D = {t}
    OBVIOUS
  <2>7. QED BY <1>e, <2>3, <2>5, <2>6
<1>8. ASSUME NEW t \in Thread, Crash(t) PROVE Lives'
  <2>1. thread' = FreshThread /\ ready' = FreshReady /\ created' = WarmCount
    BY <1>8 DEF Crash
  <2>2. QED BY <2>1 DEF Lives, FreshThread, FreshReady
<1>9. CASE UNCHANGED vars
  BY <1>9, <1>f DEF vars, pooling
<1>10. QED BY <1>1, <1>2, <1>3, <1>4, <1>5, <1>6, <1>7, <1>8, <1>9 DEF Next, Serve, Event

LEMMA KeptApartStep ==
  ASSUME TypeOK, PInv, KeptApart, [Next]_vars
  PROVE  KeptApart'
<1>u. Request \subseteq User /\ Warm \notin Request
  BY PoolAssumption DEF User
<1>c. created \in Nat /\ \A t \in Thread : t \in Nat
  BY PoolAssumption DEF TypeOK, Thread
<1>f. ASSUME UNCHANGED <<pool, created, slots>>,
             \A q \in Request : /\ pc'[q] \in {"own", "reap", "drop"} => pc[q] \in {"own", "reap", "drop"}
                                /\ pc'[q] = "own" => pc[q] = "own"
      PROVE  KeptApart'
  <2> SUFFICES ASSUME NEW q \in Request, pc'[q] \in {"own", "reap", "drop"}, NEW t \in Members(slots'[q])
               PROVE  /\ t \in Thread /\ t <= created' /\ t \notin Members(pool')
                      /\ \A q2 \in Request \ {q} : pc'[q2] = "own" => t \notin Members(slots'[q2])
    BY DEF KeptApart
  <2>1. slots' = slots /\ pool' = pool /\ created' = created
    BY <1>f
  <2>2. \A q2 \in Request : slots'[q2] = slots[q2]
    BY <2>1
  <2>3. pc[q] \in {"own", "reap", "drop"} /\ \A q2 \in Request : pc'[q2] = "own" => pc[q2] = "own"
    BY <1>f
  <2>4. /\ t \in Thread /\ t <= created /\ t \notin Members(pool)
        /\ \A q2 \in Request \ {q} : pc[q2] = "own" => t \notin Members(slots[q2])
    BY <2>2, <2>3 DEF KeptApart
  <2>5. QED BY <2>1, <2>2, <2>3, <2>4
<1>1. ASSUME NEW r \in Request, StartInline(r) \/ InlineBatch(r) \/ InlineThrow(r) \/ Reaped(r)
      PROVE  KeptApart'
  <2>1. UNCHANGED <<pool, created, slots>>
    BY <1>1 DEF StartInline, InlineBatch, InlineThrow, Reaped, pooling
  <2>2. \A q \in Request : pc'[q] = pc[q] \/ (pc'[q] \notin {"own", "reap", "drop"})
    BY <1>1, <1>u DEF StartInline, InlineBatch, InlineThrow, Reaped, TypeOK
  <2>3. QED BY <2>1, <2>2, <1>f
<1>2. ASSUME NEW u \in User, Post(u) \/ Unready(u) PROVE KeptApart'
  <2>1. UNCHANGED <<pool, created, slots>>
    BY <1>2 DEF Post, Unready, pooling
  <2>2. \A q \in Request : pc'[q] = pc[q] \/ (pc'[q] \notin {"own", "reap", "drop"})
    BY <1>2, <1>u DEF Post, Unready, TypeOK
  <2>3. QED BY <2>1, <2>2, <1>f
\* Promises are settled.
<1>s. ASSUME NEW S, NEW pooled \in {"done", "failed"}, NEW own \in {"reap", "drop"}, Settle(S, pooled, own),
             UNCHANGED <<pool, created, slots>>
      PROVE  KeptApart'
  BY <1>s, <1>f, <1>u DEF Settle
<1>3. ASSUME NEW t \in Thread, Errored(t) \/ Exited(t) PROVE KeptApart'
  BY <1>3, <1>s DEF Errored, Exited
<1>4. ASSUME NEW x \in tasks, Result(x) \/ Thrown(x) PROVE KeptApart'
  BY <1>4, <1>s DEF Result, Thrown
<1>5. ASSUME NEW t \in Thread, Ready(t) \/ Die(t) PROVE KeptApart'
  BY <1>5, <1>f DEF Ready, Die
<1>6. ASSUME NEW t \in Thread, Crash(t) PROVE KeptApart'
  <2>1. \A q \in Request : pc'[q] \notin {"own", "reap", "drop"}
    BY <1>6, <1>u DEF Crash, Ended
  <2>2. QED BY <2>1 DEF KeptApart
<1>7. CASE UNCHANGED vars
  BY <1>7, <1>f DEF vars, pooling
<1>8. ASSUME NEW r \in Request, StartPooled(r) PROVE KeptApart'
  <2>1. /\ pc'[r] = "ready" /\ \A q \in Request \ {r} : pc'[q] = pc[q] /\ slots'[q] = slots[q]
    BY <1>8, <1>u DEF StartPooled, TypeOK
  <2>2. NumParts(r) \in Nat
    BY PartsCount
  <2>3. created' \in Nat /\ created <= created' /\ \A t \in Members(pool') : t \in Members(pool) \/ t > created
    <3>1. CASE Len(pool) = NumParts(r)
      <4>1. pool' = pool /\ created' = created
        BY <1>8, <3>1 DEF StartPooled, EnsurePool, pooling
      <4>2. QED BY <1>c, <4>1
    <3>2. CASE Len(pool) # NumParts(r)
      <4>1. /\ created + NumParts(r) <= MaxThreads /\ pool' = NewThreads(NumParts(r))
            /\ created' = created + NumParts(r)
        BY <1>8, <3>2 DEF StartPooled, EnsurePool
      <4>2. \A t : t \in Members(NewThreads(NumParts(r))) <=> t \in (created + 1)..(created + NumParts(r))
        BY <1>c, <2>2, <4>1, NewOnes
      <4>3. QED BY <1>c, <2>2, <4>1, <4>2
    <3>3. QED BY <3>1, <3>2
  <2> SUFFICES ASSUME NEW q \in Request, pc'[q] \in {"own", "reap", "drop"}, NEW t \in Members(slots'[q])
               PROVE  /\ t \in Thread /\ t <= created' /\ t \notin Members(pool')
                      /\ \A q2 \in Request \ {q} : pc'[q2] = "own" => t \notin Members(slots'[q2])
    BY DEF KeptApart
  <2>4. q # r /\ pc[q] \in {"own", "reap", "drop"} /\ t \in Members(slots[q])
    BY <2>1
  <2>5. /\ t \in Thread /\ t <= created /\ t \notin Members(pool)
        /\ \A q2 \in Request \ {q} : pc[q2] = "own" => t \notin Members(slots[q2])
    BY <2>4 DEF KeptApart
  <2>6. t <= created' /\ ~(t > created)
    BY <1>c, <2>3, <2>5
  <2>7. t \notin Members(pool')
    BY <2>3, <2>5, <2>6
  <2>8. QED BY <2>1, <2>5, <2>6, <2>7
<1>9. ASSUME NEW r \in Request, StartOneShot(r) PROVE KeptApart'
  <2>1. /\ pc'[r] = "own" /\ \A q \in Request \ {r} : pc'[q] = pc[q] /\ slots'[q] = slots[q]
        /\ pool' = pool /\ slots'[r] = NewThreads(NumParts(r))
        /\ created + NumParts(r) <= MaxThreads /\ created' = created + NumParts(r)
    BY <1>9, <1>u DEF StartOneShot, TypeOK
  <2>2. NumParts(r) \in Nat
    BY PartsCount
  <2>3. /\ NewThreads(NumParts(r)) \in Seq(Thread)
        /\ \A t : t \in Members(NewThreads(NumParts(r))) <=> t \in (created + 1)..(created + NumParts(r))
    BY <1>c, <2>1, <2>2, NewOnes
  <2>4. \A t \in Members(slots'[r]) : t \in Thread /\ t > created /\ t <= created'
    BY <1>c, <2>1, <2>2, <2>3, MembersOf
  <2>5. \A q \in Request \ {r} : pc[q] \in {"own", "reap", "drop"} => \A t \in Members(slots[q]) : ~(t > created)
    BY <1>c DEF KeptApart
  <2>6. \A t \in Members(pool) : ~(t > created)
    <3>1. Members(pool) \subseteq Thread
      BY MembersOf DEF TypeOK
    <3>2. QED BY <1>c, <3>1 DEF PInv, Numbered
  <2> SUFFICES ASSUME NEW q \in Request, pc'[q] \in {"own", "reap", "drop"}, NEW t \in Members(slots'[q])
               PROVE  /\ t \in Thread /\ t <= created' /\ t \notin Members(pool')
                      /\ \A q2 \in Request \ {q} : pc'[q2] = "own" => t \notin Members(slots'[q2])
    BY DEF KeptApart
  <2>7. CASE q = r
    BY <2>1, <2>4, <2>5, <2>6, <2>7
  <2>8. CASE q # r
    <3>1. pc[q] \in {"own", "reap", "drop"} /\ t \in Members(slots[q])
      BY <2>1, <2>8
    <3>2. /\ t \in Thread /\ t <= created /\ t \notin Members(pool)
          /\ \A q2 \in Request \ {q} : pc[q2] = "own" => t \notin Members(slots[q2])
      BY <3>1 DEF KeptApart
    <3>3. t <= created' /\ ~(t > created)
      BY <1>c, <2>1, <2>2, <3>2
    <3>4. QED BY <2>1, <2>4, <3>2, <3>3
  <2>9. QED BY <2>7, <2>8
<1>10. QED BY <1>1, <1>2, <1>3, <1>4, <1>5, <1>6, <1>7, <1>8, <1>9 DEF Next, Serve, Event

\* While somebody listens to a thread, terminating it leaves its end to be told.
LEMMA HeardEnds ==
  ASSUME TypeOK, NEW S, NEW l \in listen
  PROVE  l.thread \in Thread /\ Terminated(S)[l.thread] \in {thread[l.thread], "ending"}
<1>1. l.thread \in Thread
  BY DEF TypeOK
<1>2. l \in Listeners(l.thread)
  BY DEF Listeners
<1>3. QED BY <1>1, <1>2, Ends

LEMMA HeededStep ==
  ASSUME TypeOK, PInv, Lives, Heeded, [Next]_vars
  PROVE  Heeded'
<1>u. Request \subseteq User /\ Warm \notin Request
  BY PoolAssumption DEF User
<1>c. created \in Nat /\ \A t \in Thread : t \in Nat
  BY PoolAssumption DEF TypeOK, Thread
<1>l. \A l \in listen : l.thread \in Thread /\ l.work.user \in User /\ ~(l.thread > created)
  BY <1>c DEF TypeOK, PInv, Numbered
\* Listeners are only removed.
<1>g. ASSUME listen' \subseteq listen,
             \A l \in listen' : pc'[l.work.user] = "own" => pc[l.work.user] = "own",
             \A l \in listen' : thread'[l.thread] = "up" => (l \in tasks => l \in tasks'),
             \A l \in listen' : \/ thread'[l.thread] \in {thread[l.thread], "ending", "failed"}
                                \/ thread'[l.thread] = "gone" /\ l.id # 0
      PROVE  Heeded'
  BY <1>g DEF Heeded
<1>1. ASSUME NEW r \in Request, StartInline(r) \/ InlineBatch(r) \/ InlineThrow(r) \/ Reaped(r)
      PROVE  Heeded'
  <2>1. UNCHANGED <<thread, tasks, listen>>
    BY <1>1 DEF StartInline, InlineBatch, InlineThrow, Reaped, pooling, mail
  <2>2. \A v \in User : pc'[v] = "own" => pc[v] = "own"
    BY <1>1 DEF StartInline, InlineBatch, InlineThrow, Reaped, TypeOK
  <2>3. QED BY <1>g, <1>l, <2>1, <2>2
<1>2. ASSUME NEW u \in User, Unready(u) PROVE Heeded'
  <2>1. UNCHANGED <<thread, tasks, listen>>
    BY <1>2 DEF Unready, pooling, mail
  <2>2. \A v \in User : pc'[v] = "own" => pc[v] = "own"
    BY <1>2 DEF Unready, TypeOK
  <2>3. QED BY <1>g, <1>l, <2>1, <2>2
<1>3. ASSUME NEW r \in Request, StartPooled(r) PROVE Heeded'
  <2>1. UNCHANGED <<tasks, listen>>
    BY <1>3 DEF StartPooled, mail
  <2>2. \A v \in User : pc'[v] = "own" => pc[v] = "own"
    BY <1>3 DEF StartPooled, TypeOK
  <2>3. \A l \in listen : thread'[l.thread] \in {thread[l.thread], "ending"}
    <3>1. CASE Len(pool) = NumParts(r)
      BY <1>3, <3>1 DEF StartPooled, EnsurePool, pooling
    <3>2. CASE Len(pool) # NumParts(r)
      <4>1. PICK n \in Nat : n = NumParts(r)
        BY PartsCount
      <4>2. /\ created + n <= MaxThreads
            /\ thread' = [t \in Thread |-> IF t \in Members(NewThreads(n)) THEN "starting"
                                           ELSE Terminated(Members(pool))[t]]
        BY <1>3, <3>2, <4>1 DEF StartPooled, EnsurePool
      <4>3. \A t : t \in Members(NewThreads(n)) <=> t \in (created + 1)..(created + n)
        BY <1>c, <4>2, NewOnes
      <4>4. \A l \in listen : l.thread \notin Members(NewThreads(n))
        BY <1>c, <1>l, <4>1, <4>3
      <4>5. \A l \in listen : thread'[l.thread] = Terminated(Members(pool))[l.thread]
        BY <1>l, <4>2, <4>4
      <4>6. QED BY <4>5, HeardEnds
    <3>3. QED BY <3>1, <3>2
  <2>4. QED BY <1>g, <1>l, <2>1, <2>2, <2>3
<1>4. ASSUME NEW r \in Request, StartOneShot(r) PROVE Heeded'
  <2>1. PICK n \in Nat : n = NumParts(r)
    BY PartsCount
  <2>2. PICK own : own = NewThreads(n)
    OBVIOUS
  <2>3. PICK new : new = {Task(own[k], 0, Work(r, k)) : k \in 1..n}
    OBVIOUS
  <2>4. /\ created + n <= MaxThreads /\ pc[r] = "idle"
        /\ thread' = [t \in Thread |-> IF t \in Members(own) THEN "up" ELSE thread[t]]
        /\ tasks' = tasks \union new /\ listen' = listen \union new
        /\ \A v \in User \ {r} : pc'[v] = pc[v]
    BY <1>4, <2>1, <2>2, <2>3 DEF StartOneShot, TypeOK
  <2>5. \A t : t \in Members(own) <=> t \in (created + 1)..(created + n)
    BY <1>c, <2>2, <2>4, NewOnes
  <2> SUFFICES ASSUME NEW l \in listen'
               PROVE  /\ thread'[l.thread] # "starting"
                      /\ thread'[l.thread] = "up" => l \in tasks'
                      /\ l.id = 0 => thread'[l.thread] # "gone"
                      /\ pc'[l.work.user] = "own" => l.id = 0
    BY DEF Heeded
  <2>6. CASE l \in new
    <3>1. PICK k \in 1..n : l = Task(own[k], 0, Work(r, k))
      BY <2>3, <2>6
    <3>2. own[k] = created + k /\ created + k \in (created + 1)..(created + n) /\ created + k \in Thread
      BY <1>c, <2>2, <2>4, PoolAssumption DEF NewThreads, Thread
    <3>3. l.thread \in Thread /\ l.thread \in Members(own) /\ l.id = 0
      BY <2>5, <3>1, <3>2 DEF Task
    <3>4. thread'[l.thread] = "up"
      BY <2>4, <3>3
    <3>5. QED BY <2>4, <2>6, <3>3, <3>4
  <2>7. CASE l \notin new
    <3>1. l \in listen /\ l.thread \in Thread /\ l.thread \notin Members(own)
      BY <1>c, <1>l, <2>4, <2>5, <2>7
    <3>2. thread'[l.thread] = thread[l.thread]
      BY <2>4, <3>1
    <3>3. l.work.user \in User /\ l.work.user # r
      BY <1>l, <2>4, <3>1 DEF PInv, Listens
    <3>4. QED BY <2>4, <3>1, <3>2, <3>3 DEF Heeded
  <2>8. QED BY <2>6, <2>7
<1>5. ASSUME NEW u \in User, Post(u) PROVE Heeded'
  <2>1. PICK new : new = {Task(slots[u][k], sent + k, Work(u, k)) : k \in DOMAIN slots[u]}
    OBVIOUS
  <2>2. /\ \A k \in DOMAIN slots[u] : ready[slots[u][k]] = "yes"
        /\ tasks' = tasks \union {x \in new : thread[x.thread] = "up"} /\ listen' = listen \union new
        /\ thread' = thread /\ pc'[u] = "await" /\ \A v \in User \ {u} : pc'[v] = pc[v]
    BY <1>5, <2>1 DEF Post, AllReady, pooling, TypeOK
  <2>3. /\ sent \in Nat /\ \A k \in DOMAIN slots[u] : k \in Nat \ {0} /\ slots[u][k] \in Thread
    BY DEF TypeOK
  <2> SUFFICES ASSUME NEW l \in listen'
               PROVE  /\ thread'[l.thread] # "starting"
                      /\ thread'[l.thread] = "up" => l \in tasks'
                      /\ l.id = 0 => thread'[l.thread] # "gone"
                      /\ pc'[l.work.user] = "own" => l.id = 0
    BY DEF Heeded
  <2>4. CASE l \in new
    <3>1. PICK k \in DOMAIN slots[u] : l = Task(slots[u][k], sent + k, Work(u, k))
      BY <2>1, <2>4
    <3>2. l.thread = slots[u][k] /\ l.id = sent + k /\ l.work.user = u
      BY <3>1 DEF Task, Work
    <3>3. thread[l.thread] # "starting"
      BY <2>2, <2>3, <3>2 DEF Lives
    <3>4. l.id # 0
      BY <2>3, <3>2
    <3>5. QED BY <2>2, <2>4, <3>2, <3>3, <3>4
  <2>5. CASE l \notin new
    <3>1. l \in listen /\ l.work.user \in User
      BY <1>l, <2>2, <2>5
    <3>2. pc'[l.work.user] = "own" => pc[l.work.user] = "own"
      BY <2>2, <3>1
    <3>3. QED BY <2>2, <3>1, <3>2 DEF Heeded
  <2>6. QED BY <2>4, <2>5
<1>6. ASSUME NEW t \in Thread, Ready(t) \/ Die(t) PROVE Heeded'
  <2>1. listen' = listen /\ pc' = pc
    BY <1>6 DEF Ready, Die, mail
  <2>2. ASSUME Ready(t) PROVE \A l \in listen : thread'[l.thread] = thread[l.thread] /\ tasks' = tasks
    BY <2>2, <1>l DEF Ready, Heeded, TypeOK, mail
  <2>3. ASSUME Die(t)
        PROVE  \A l \in listen : /\ thread'[l.thread] \in {thread[l.thread], "failed"}
                                 /\ thread'[l.thread] # "failed" => (l \in tasks => l \in tasks')
    BY <2>3, <1>l DEF Die, TypeOK
  <2>4. QED BY <1>6, <1>g, <2>1, <2>2, <2>3

<1>7. ASSUME NEW x \in tasks, Result(x) \/ Thrown(x) PROVE Heeded'
  <2>1. /\ listen' = listen \ Listening(x) /\ tasks' = tasks \ {x}
        /\ \A v \in User : pc'[v] = "own" => pc[v] = "own"
    BY <1>7 DEF Result, Thrown, Settle
  <2>2. PICK S : thread' = Leaving(x, Terminated(S))
    BY <1>7 DEF Result, Thrown
  <2>3. \A l \in listen' : l \in listen /\ l # x /\ ~(l.thread = x.thread /\ l.id = x.id)
    BY <2>1 DEF Listening
  <2>4. Terminated(S) \in [Thread -> Life]
    BY TerminatedType
  <2>5. ASSUME NEW l \in listen'
        PROVE  \/ thread'[l.thread] \in {thread[l.thread], "ending", "failed"}
               \/ thread'[l.thread] = "gone" /\ l.id # 0
    <3>1. l.thread \in Thread /\ Terminated(S)[l.thread] \in {thread[l.thread], "ending"}
      BY <2>3, HeardEnds
    <3>2. CASE x.id = 0 /\ l.thread = x.thread
      <4>1. thread'[l.thread] = "gone"
        BY <2>2, <2>4, <3>1, <3>2 DEF Leaving
      <4>2. QED BY <2>3, <3>2, <4>1
    <3>3. CASE ~(x.id = 0 /\ l.thread = x.thread)
      <4>1. thread'[l.thread] = Terminated(S)[l.thread]
        BY <2>2, <2>4, <3>1, <3>3 DEF Leaving
      <4>2. QED BY <3>1, <4>1
    <3>4. QED BY <3>2, <3>3
  <2>6. QED BY <1>g, <1>l, <2>1, <2>3, <2>5
<1>8. ASSUME NEW t \in Thread, Errored(t) \/ Exited(t) PROVE Heeded'
  <2>1. PICK S : S = OwnThreads(Users(Listeners(t)))
    OBVIOUS
  <2>2. PICK to \in {"ending", "gone"} : thread' = [Terminated(S) EXCEPT ![t] = to]
    BY <1>8, <2>1 DEF Errored, Exited
  <2>3. /\ listen' = listen \ Listeners(t) /\ \A x \in tasks : x.thread # t => x \in tasks'
        /\ \A v \in User : pc'[v] = "own" => pc[v] = "own"
    BY <1>8 DEF Errored, Exited, Settle
  <2>4. Terminated(S) \in [Thread -> Life]
    BY TerminatedType
  <2>5. \A l \in listen' : l \in listen /\ l.thread # t
    BY <2>3 DEF Listeners
  <2>6. ASSUME NEW l \in listen' PROVE thread'[l.thread] \in {thread[l.thread], "ending"}
    <3>1. l.thread \in Thread /\ Terminated(S)[l.thread] \in {thread[l.thread], "ending"}
      BY <2>5, HeardEnds
    <3>2. thread'[l.thread] = Terminated(S)[l.thread]
      BY <2>2, <2>4, <2>5, <3>1
    <3>3. QED BY <3>1, <3>2
  <2>7. QED BY <1>g, <1>l, <2>3, <2>5, <2>6
<1>9. ASSUME NEW t \in Thread, Crash(t) PROVE Heeded'
  BY <1>9 DEF Crash, Heeded
<1>10. CASE UNCHANGED vars
  BY <1>10, <1>g DEF vars, pooling, mail
<1>11. QED BY <1>1, <1>2, <1>3, <1>4, <1>5, <1>6, <1>7, <1>8, <1>9, <1>10 DEF Next, Serve, Event

\* There is something to do for threads.
LEMMA SomePart ==
  ASSUME TypeOK, Planned, NEW r \in Request, Threaded(r)
  PROVE  NumParts(r) \in Nat \ {0}
<1>1. PICK x \in Seq(Key) : input[r] = Plan(x)
  BY DEF Planned
<1>2. input[r].batches = Batches(x) /\ Len(Batches(x)) > 1
  BY <1>1 DEF Threaded, Plan
<1>3. PICK c \in Seq(Seq(Nat)) : c = Batches(x)
  BY BatchesType
<1>4. 1 \in DOMAIN Batches(x)
  BY <1>2, <1>3
<1>5. \E p \in Parts(r) : 1 \in BatchesOf(r, p)
  BY <1>1, <1>4, BatchesInOnePart
<1>6. QED BY <1>5, PartsCount DEF Parts

LEMMA LackingStep ==
  ASSUME TypeOK, PInv, GotOwn, Planned, Lacking, [Next]_vars
  PROVE  Lacking'
<1> SUFFICES ASSUME NEW r \in Request PROVE Lacks(r)'
  BY DEF Lacking
<1>u. r \in User /\ r # Warm
  BY PoolAssumption DEF User
<1>p. NumParts(r)' = NumParts(r) /\ Parts(r)' = Parts(r) /\ NumParts(r) \in Nat
  <2>1. input' = input
    BY DEF Next, Serve, Event, StartInline, StartPooled, StartOneShot, Post, Unready, InlineBatch,
           InlineThrow, Ready, Die, Result, Thrown, Errored, Exited, Reaped, Crash, vars
  <2>2. QED BY <2>1, PartsCount DEF Parts, NumParts, Threaded
<1>0. Lacks(r)
  BY DEF Lacking
<1>e. ASSUME pc'[r] \notin {"ready", "await", "own"} PROVE Lacks(r)'
  BY <1>e DEF Lacks
<1>f. ASSUME pc'[r] = pc[r], slots'[r] = slots[r], got'[r] = got[r],
             \A l \in listen : l.work.user = r => l \in listen'
      PROVE  Lacks(r)'
  <2>1. /\ pc[r] \in {"ready", "await", "own"} => Len(slots[r]) = NumParts(r) /\ NumParts(r) # 0
        /\ pc[r] = "ready" => \A p \in Parts(r) : got[r][p] = Open
        /\ pc[r] \in {"await", "own"} => \E p \in Parts(r) : got[r][p] = Open
    BY <1>0 DEF Lacks
  <2>2. pc[r] \in {"await", "own"} =>
          \A p \in Parts(r) : got[r][p] = Open => \E l \in listen' : l.work = Work(r, p)
    <3> SUFFICES ASSUME pc[r] \in {"await", "own"}, NEW p \in Parts(r), got[r][p] = Open
                 PROVE  \E l \in listen' : l.work = Work(r, p)
      OBVIOUS
    <3>1. PICK l \in listen : l.work = Work(r, p)
      BY <1>0 DEF Lacks
    <3>2. l.work.user = r
      BY <3>1 DEF Work
    <3>3. QED BY <1>f, <3>1, <3>2
  <2>3. QED BY <1>f, <1>p, <2>1, <2>2 DEF Lacks
<1>1. ASSUME NEW q \in Request, StartInline(q) \/ InlineBatch(q) \/ InlineThrow(q) \/ Reaped(q)
      PROVE  Lacks(r)'
  <2>1. CASE q = r
    <3>1. pc'[r] \notin {"ready", "await", "own"}
      BY <1>1, <1>u, <2>1 DEF StartInline, InlineBatch, InlineThrow, Reaped, TypeOK
    <3>2. QED BY <1>e, <3>1
  <2>2. CASE q # r
    <3>1. pc'[r] = pc[r] /\ slots' = slots /\ listen' = listen /\ got'[r] = got[r]
      BY <1>1, <1>u, <2>2 DEF StartInline, InlineBatch, InlineThrow, Reaped, mail, TypeOK
    <3>2. QED BY <1>f, <3>1
  <2>3. QED BY <2>1, <2>2
<1>2. ASSUME NEW u \in User, Unready(u) PROVE Lacks(r)'
  <2>1. CASE u = r
    <3>1. pc'[r] = "failed"
      BY <1>2, <1>u, <2>1 DEF Unready, TypeOK
    <3>2. QED BY <1>e, <3>1
  <2>2. CASE u # r
    <3>1. pc'[r] = pc[r] /\ slots' = slots /\ listen' = listen /\ got' = got
      BY <1>2, <1>u, <2>2 DEF Unready, mail, TypeOK
    <3>2. QED BY <1>f, <3>1
  <2>3. QED BY <2>1, <2>2
<1>3. ASSUME NEW u \in User, Post(u) PROVE Lacks(r)'
  <2>1. slots' = slots /\ got' = got
    BY <1>3 DEF Post
  <2>2. listen' = listen \union {Task(slots[u][k], sent + k, Work(u, k)) : k \in DOMAIN slots[u]}
    BY <1>3 DEF Post
  <2>3. CASE u = r
    <3>1. pc[r] = "ready" /\ pc'[r] = "await"
      BY <1>3, <1>u, <2>3 DEF Post, AllReady, TypeOK
    <3>2. /\ Len(slots[r]) = NumParts(r) /\ NumParts(r) # 0
          /\ \A p \in Parts(r) : got[r][p] = Open
      BY <1>0, <3>1 DEF Lacks
    <3>3. 1 \in Parts(r) /\ DOMAIN slots[r] = Parts(r)
      BY <1>p, <1>u, <3>2 DEF Parts, TypeOK
    <3>4. \A p \in Parts(r) : \E l \in listen' : l.work = Work(r, p)
      <4> TAKE p \in Parts(r)
      <4>1. PICK l : l = Task(slots[r][p], sent + p, Work(r, p))
        OBVIOUS
      <4>2. l \in listen' /\ l.work = Work(r, p)
        BY <2>2, <2>3, <3>3, <4>1 DEF Task
      <4>3. QED BY <4>2
    <3>5. QED BY <1>p, <2>1, <3>1, <3>2, <3>3, <3>4 DEF Lacks
  <2>4. CASE u # r
    <3>1. pc'[r] = pc[r]
      BY <1>3, <1>u, <2>4 DEF Post, TypeOK
    <3>2. QED BY <1>f, <2>1, <2>2, <3>1
  <2>5. QED BY <2>3, <2>4
<1>4. ASSUME NEW q \in Request, StartPooled(q) PROVE Lacks(r)'
  <2>1. /\ pc' = [pc EXCEPT ![q] = "ready"] /\ slots' = [slots EXCEPT ![q] = pool']
        /\ got' = [got EXCEPT ![q] = Unanswered(q)] /\ listen' = listen /\ Threaded(q)
    BY <1>4 DEF StartPooled, mail
  <2>2. CASE q = r
    <3>1. pc'[r] = "ready" /\ slots'[r] = pool' /\ got'[r] = Unanswered(r)
      BY <1>u, <2>1, <2>2 DEF TypeOK
    <3>2. NumParts(r) \in Nat \ {0}
      BY <2>1, <2>2, SomePart
    <3>3. Len(pool') = NumParts(r)
      <4>1. CASE Len(pool) = NumParts(r)
        BY <1>4, <2>2, <4>1 DEF StartPooled, EnsurePool, pooling
      <4>2. CASE Len(pool) # NumParts(r)
        <5>1. /\ created + NumParts(r) <= MaxThreads /\ pool' = NewThreads(NumParts(r))
              /\ created \in Nat
          BY <1>4, <2>2, <4>2, PoolAssumption DEF StartPooled, EnsurePool, TypeOK
        <5>2. QED BY <3>2, <5>1, NewOnes
      <4>3. QED BY <4>1, <4>2
    <3>4. \A p \in Parts(r) : got'[r][p] = Open
      BY <3>1 DEF Unanswered
    <3>5. QED BY <1>p, <3>1, <3>2, <3>3, <3>4 DEF Lacks
  <2>3. CASE q # r
    <3>1. pc'[r] = pc[r] /\ slots'[r] = slots[r] /\ got'[r] = got[r]
      BY <1>u, <2>1, <2>3 DEF TypeOK
    <3>2. QED BY <1>f, <2>1, <3>1
  <2>4. QED BY <2>2, <2>3
<1>5. ASSUME NEW q \in Request, StartOneShot(q) PROVE Lacks(r)'
  <2>1. PICK n : n = NumParts(q)
    OBVIOUS
  <2>2. PICK own : own = NewThreads(n)
    OBVIOUS
  <2>3. /\ pc' = [pc EXCEPT ![q] = "own"] /\ slots' = [slots EXCEPT ![q] = own]
        /\ got' = [got EXCEPT ![q] = Unanswered(q)] /\ Threaded(q) /\ created + n <= MaxThreads
        /\ listen' = listen \union {Task(own[k], 0, Work(q, k)) : k \in 1..n}
    BY <1>5, <2>1, <2>2 DEF StartOneShot
  <2>4. CASE q = r
    <3>1. pc'[r] = "own" /\ slots'[r] = own /\ got'[r] = Unanswered(r)
      BY <1>u, <2>3, <2>4 DEF TypeOK
    <3>2. n \in Nat \ {0} /\ n = NumParts(r) /\ created \in Nat
      BY <2>1, <2>3, <2>4, SomePart, PoolAssumption DEF TypeOK
    <3>3. Len(own) = n
      BY <2>2, <2>3, <3>2, NewOnes
    <3>4. \A p \in Parts(r) : got'[r][p] = Open
      BY <3>1 DEF Unanswered
    <3>5. \A p \in Parts(r) : \E l \in listen' : l.work = Work(r, p)
      <4> TAKE p \in Parts(r)
      <4>1. PICK l : l = Task(own[p], 0, Work(r, p))
        OBVIOUS
      <4>2. p \in 1..n
        BY <3>2 DEF Parts
      <4>3. l \in listen' /\ l.work = Work(r, p)
        BY <2>3, <2>4, <4>1, <4>2 DEF Task
      <4>4. QED BY <4>3
    <3>6. 1 \in Parts(r)
      BY <3>2 DEF Parts
    <3>7. QED BY <1>p, <3>1, <3>2, <3>3, <3>4, <3>5, <3>6 DEF Lacks
  <2>5. CASE q # r
    <3>1. pc'[r] = pc[r] /\ slots'[r] = slots[r] /\ got'[r] = got[r]
      BY <1>u, <2>3, <2>5 DEF TypeOK
    <3>2. QED BY <1>f, <2>3, <3>1
  <2>6. QED BY <2>4, <2>5
<1>6. ASSUME NEW t \in Thread, Ready(t) \/ Die(t) PROVE Lacks(r)'
  <2>1. UNCHANGED <<pc, slots, got, listen>>
    BY <1>6 DEF Ready, Die, mail
  <2>2. QED BY <1>f, <2>1
\* Those who hear of an error or an end go on.
<1>s. ASSUME NEW L, Settle(Users(L), "failed", "drop"), L \subseteq listen, listen' = listen \ L,
             slots' = slots, got' = got
      PROVE  Lacks(r)'
  <2>1. CASE r \in Users(L)
    <3>1. PICK l \in listen : l.work.user = r
      BY <1>s, <2>1 DEF Users
    <3>2. pc[r] # "ready"
      BY <3>1 DEF PInv, Listens
    <3>3. pc'[r] \notin {"ready", "await", "own"}
      BY <1>s, <1>u, <2>1, <3>2 DEF Settle
    <3>4. QED BY <1>e, <3>3
  <2>2. CASE r \notin Users(L)
    <3>1. pc'[r] = pc[r]
      BY <1>s, <1>u, <2>2 DEF Settle
    <3>2. \A l \in listen : l.work.user = r => l \in listen'
      BY <1>s, <2>2 DEF Users
    <3>3. QED BY <1>s, <1>f, <3>1, <3>2
  <2>3. QED BY <2>1, <2>2
<1>7. ASSUME NEW t \in Thread, Errored(t) \/ Exited(t) PROVE Lacks(r)'
  <2>1. PICK L : L = Listeners(t)
    OBVIOUS
  <2>2. L \subseteq listen
    BY <2>1 DEF Listeners
  <2>3. Settle(Users(L), "failed", "drop") /\ listen' = listen \ L /\ slots' = slots /\ got' = got
    BY <1>7, <2>1 DEF Errored, Exited
  <2>4. QED BY <1>s, <2>2, <2>3
<1>8. ASSUME NEW x \in tasks, Thrown(x) PROVE Lacks(r)'
  <2>1. PICK L : L = Listening(x)
    OBVIOUS
  <2>2. L \subseteq listen
    BY <2>1 DEF Listening
  <2>3. Settle(Users(L), "failed", "drop") /\ listen' = listen \ L /\ slots' = slots /\ got' = got
    BY <1>8, <2>1 DEF Thrown
  <2>4. QED BY <1>s, <2>2, <2>3
<1>9. ASSUME NEW x \in tasks, Result(x) PROVE Lacks(r)'
  <2>1. PICK L : L = Listening(x)
    OBVIOUS
  <2>2. L \subseteq listen /\ \A l \in L : l.work = x.work
    BY <2>1 DEF Listening, PInv, Matched
  <2>3. PICK whole : whole = {q \in Users(L) \ {Warm} : \A p \in Parts(q) : got'[q][p] # Open}
    OBVIOUS
  <2>4. /\ listen' = listen \ L /\ slots' = slots /\ Settle(whole, "done", "reap")
        /\ got'[r] = [p \in DOMAIN got[r] |-> IF \E l \in L : l.work = Work(r, p) THEN x.work ELSE got[r][p]]
    BY <1>9, <2>1, <2>3 DEF Result
  <2>5. CASE r \notin Users(L)
    <3>1. pc'[r] = pc[r]
      BY <1>u, <2>3, <2>4, <2>5 DEF Settle
    <3>2. \A l \in listen : l.work.user = r => l \in listen'
      BY <2>4, <2>5 DEF Users
    <3>3. \A p : ~\E l \in L : l.work = Work(r, p)
      BY <2>5 DEF Users, Work
    <3>4. got'[r] = got[r]
      BY <2>4, <3>3 DEF TypeOK
    <3>5. QED BY <1>f, <2>4, <3>1, <3>2, <3>4
  <2>6. CASE r \in Users(L)
    <3>1. PICK l \in listen : l.work.user = r
      BY <2>2, <2>6 DEF Users
    <3>2. pc[r] \notin {"idle", "ready"}
      BY <3>1 DEF PInv, Listens
    <3>3. CASE r \in whole
      <4>1. pc'[r] \notin {"ready", "await", "own"}
        BY <1>u, <2>4, <3>2, <3>3 DEF Settle
      <4>2. QED BY <1>e, <4>1
    <3>4. CASE r \notin whole
      <4>1. pc'[r] = pc[r] /\ \E p \in Parts(r) : got'[r][p] = Open
        BY <1>u, <2>3, <2>4, <2>6, <3>4 DEF Settle
      <4>2. DOMAIN got[r] = Parts(r)
        BY <3>2 DEF GotOwn
      <4>3. ASSUME NEW p \in Parts(r), got'[r][p] = Open, pc[r] \in {"await", "own"}
            PROVE  \E k \in listen' : k.work = Work(r, p)
        <5>1. ~\E k \in L : k.work = Work(r, p)
          BY <2>2, <2>4, <4>2, <4>3, WorkDiffers
        <5>2. got[r][p] = Open
          BY <2>4, <4>2, <4>3, <5>1
        <5>3. PICK k \in listen : k.work = Work(r, p)
          BY <1>0, <4>3, <5>2 DEF Lacks
        <5>4. QED BY <2>4, <5>1, <5>3
      <4>4. pc[r] \in {"await", "own"} => Len(slots[r]) = NumParts(r) /\ NumParts(r) # 0
        BY <1>0 DEF Lacks
      <4>5. QED BY <1>p, <2>4, <3>2, <4>1, <4>3, <4>4 DEF Lacks
    <3>5. QED BY <3>3, <3>4
  <2>7. QED BY <2>5, <2>6
<1>10. ASSUME NEW t \in Thread, Crash(t) PROVE Lacks(r)'
  <2>1. pc'[r] \notin {"ready", "await", "own"}
    BY <1>10, <1>u DEF Crash, Ended
  <2>2. QED BY <1>e, <2>1
<1>11. CASE UNCHANGED vars
  BY <1>11, <1>f DEF vars, mail
<1>12. QED BY <1>1, <1>2, <1>3, <1>4, <1>5, <1>6, <1>7, <1>8, <1>9, <1>10, <1>11 DEF Next, Serve, Event

LEMMA BegunStep ==
  ASSUME TypeOK, PInv, GotOwn, Begun, [Next]_vars
  PROVE  Begun'
<1> SUFFICES ASSUME NEW r \in Request, pc'[r] = "inline"
             PROVE  /\ cursor'[r] <= NumParts(r)
                    /\ \A b \in Parts(r) : b > cursor'[r] => got'[r][b] = Open
                    /\ \E b \in 1..cursor'[r] : got'[r][b] = Open
  <2>1. input' = input
    BY DEF Next, Serve, Event, StartInline, StartPooled, StartOneShot, Post, Unready, InlineBatch,
           InlineThrow, Ready, Die, Result, Thrown, Errored, Exited, Reaped, Crash, vars
  <2>2. \A q : NumParts(q)' = NumParts(q) /\ Parts(q)' = Parts(q)
    BY <2>1 DEF Parts, NumParts, Threaded
  <2>3. QED BY <2>2 DEF Begun
<1>u. r \in User /\ NumParts(r) \in Nat
  BY PartsCount DEF User
<1>f. ASSUME pc[r] = "inline", cursor'[r] = cursor[r], got'[r] = got[r]
      PROVE  /\ cursor'[r] <= NumParts(r)
             /\ \A b \in Parts(r) : b > cursor'[r] => got'[r][b] = Open
             /\ \E b \in 1..cursor'[r] : got'[r][b] = Open
  BY <1>f DEF Begun
<1>1. ASSUME NEW q \in Request, q # r,
             \/ StartInline(q) \/ InlineBatch(q) \/ StartPooled(q) \/ StartOneShot(q)
             \/ InlineThrow(q) \/ Reaped(q)
      PROVE  pc[r] = "inline" /\ cursor'[r] = cursor[r] /\ got'[r] = got[r]
  BY <1>1, <1>u DEF StartInline, InlineBatch, StartPooled, StartOneShot, InlineThrow, Reaped, TypeOK
<1>2. ASSUME StartPooled(r) \/ StartOneShot(r) \/ InlineThrow(r) \/ Reaped(r) PROVE FALSE
  BY <1>2, <1>u DEF StartPooled, StartOneShot, InlineThrow, Reaped, TypeOK
<1>3. ASSUME StartInline(r)
      PROVE  /\ cursor'[r] <= NumParts(r)
             /\ \A b \in Parts(r) : b > cursor'[r] => got'[r][b] = Open
             /\ \E b \in 1..cursor'[r] : got'[r][b] = Open
  <2>1. NumParts(r) # 0
    BY <1>3, <1>u DEF StartInline, TypeOK
  <2>2. cursor'[r] = IF NumParts(r) < MaxConcurrency THEN NumParts(r) ELSE MaxConcurrency
    BY <1>3 DEF StartInline, TypeOK
  <2>3. \A b \in Parts(r) : got'[r][b] = Open
    BY <1>3 DEF StartInline, TypeOK, Unanswered
  <2>4. cursor'[r] \in 1..NumParts(r)
    BY <1>u, <2>1, <2>2, SizesAssumption
  <2>5. 1 \in 1..cursor'[r] /\ 1 \in Parts(r) /\ cursor'[r] <= NumParts(r)
    BY <1>u, <2>4 DEF Parts
  <2>6. QED BY <2>3, <2>5
<1>4. ASSUME InlineBatch(r)
      PROVE  /\ cursor'[r] <= NumParts(r)
             /\ \A b \in Parts(r) : b > cursor'[r] => got'[r][b] = Open
             /\ \E b \in 1..cursor'[r] : got'[r][b] = Open
  <2>1. PICK a \in 1..cursor[r] : got' = [got EXCEPT ![r] = [got[r] EXCEPT ![a] = Work(r, a)]]
    BY <1>4 DEF InlineBatch
  <2>2. pc[r] = "inline" /\ cursor'[r] = IF cursor[r] < NumParts(r) THEN cursor[r] + 1 ELSE cursor[r]
    BY <1>4 DEF InlineBatch, TypeOK
  <2>3. PICK p \in Parts(r) : got'[r][p] = Open
    <3>1. ASSUME \A p \in Parts(r) : got'[r][p] # Open PROVE FALSE
      <4>1. pc' = [pc EXCEPT ![r] = "done"]
        BY <1>4, <3>1 DEF InlineBatch
      <4>2. QED BY <1>u, <4>1 DEF TypeOK
    <3>2. QED BY <3>1
  <2>4. /\ cursor[r] \in Nat /\ cursor[r] <= NumParts(r)
        /\ \A b \in Parts(r) : b > cursor[r] => got[r][b] = Open
    BY <2>2 DEF Begun, TypeOK
  <2>5. \A b \in Parts(r) : b # a => got'[r][b] = got[r][b]
    BY <2>1, <2>2 DEF GotOwn, TypeOK
  <2>6. cursor'[r] \in Nat /\ cursor[r] <= cursor'[r] /\ cursor'[r] <= NumParts(r)
    BY <1>u, <2>2, <2>4
  <2>7. ASSUME NEW b \in Parts(r), b > cursor[r] PROVE got'[r][b] = Open
    <3>1. b # a
      BY <2>4, <2>7 DEF Parts
    <3>2. QED BY <2>4, <2>5, <2>7, <3>1
  <2>8. \A b \in Parts(r) : b > cursor'[r] => got'[r][b] = Open
    BY <2>4, <2>6, <2>7 DEF Parts
  <2>9. \E b \in 1..cursor'[r] : got'[r][b] = Open
    <3>1. CASE p <= cursor'[r]
      BY <2>3, <2>6, <3>1 DEF Parts
    <3>2. CASE ~(p <= cursor'[r])
      <4>1. cursor[r] + 1 \in Parts(r) /\ cursor[r] + 1 > cursor[r]
        BY <1>u, <2>4, <2>6, <3>2 DEF Parts
      <4>2. cursor'[r] = cursor[r] + 1
        BY <1>u, <2>2, <2>4, <4>1 DEF Parts
      <4>3. cursor[r] + 1 \in 1..cursor'[r]
        BY <2>4, <4>2
      <4>4. QED BY <2>7, <4>1, <4>3
    <3>3. QED BY <3>1, <3>2
  <2>10. QED BY <2>6, <2>8, <2>9
<1>5. ASSUME NEW u \in User, Post(u) \/ Unready(u)
      PROVE  pc[r] = "inline" /\ cursor'[r] = cursor[r] /\ got'[r] = got[r]
  BY <1>5, <1>u DEF Post, Unready, TypeOK
<1>6. ASSUME NEW t \in Thread, Ready(t) \/ Die(t)
      PROVE  pc[r] = "inline" /\ cursor'[r] = cursor[r] /\ got'[r] = got[r]
  BY <1>6, <1>u DEF Ready, Die
<1>7. ASSUME NEW t \in Thread, Errored(t) \/ Exited(t)
      PROVE  pc[r] = "inline" /\ cursor'[r] = cursor[r] /\ got'[r] = got[r]
  BY <1>7, <1>u DEF Errored, Exited, Settle
<1>8. ASSUME NEW t \in Thread, Crash(t) PROVE FALSE
  BY <1>8, <1>u, PoolAssumption DEF Crash, Ended
<1>9. ASSUME NEW x \in tasks, Thrown(x)
      PROVE  pc[r] = "inline" /\ cursor'[r] = cursor[r] /\ got'[r] = got[r]
  BY <1>9, <1>u DEF Thrown, Settle
<1>10. ASSUME NEW x \in tasks, Result(x)
       PROVE  pc[r] = "inline" /\ cursor'[r] = cursor[r] /\ got'[r] = got[r]
  <2>1. \E S : Settle(S, "done", "reap")
    BY <1>10 DEF Result
  <2>2. pc[r] = "inline"
    BY <1>u, <2>1 DEF Settle
  <2>3. \A p : ~\E l \in Listening(x) : l.work = Work(r, p)
    BY <2>2 DEF PInv, Listens, Listening, Work
  <2>4. cursor' = cursor
        /\ got'[r] = [p \in DOMAIN got[r] |->
                        IF \E l \in Listening(x) : l.work = Work(r, p) THEN x.work ELSE got[r][p]]
    BY <1>10 DEF Result
  <2>5. got'[r] = got[r]
    BY <2>3, <2>4 DEF TypeOK
  <2>6. QED BY <2>2, <2>4, <2>5
<1>11. ASSUME UNCHANGED vars PROVE pc[r] = "inline" /\ cursor'[r] = cursor[r] /\ got'[r] = got[r]
  BY <1>11 DEF vars
<1>12. CASE \/ \E q \in Request :
                 StartInline(q) \/ StartPooled(q) \/ StartOneShot(q) \/ InlineThrow(q) \/ Serve(q)
  BY <1>12, <1>1, <1>2, <1>3, <1>4, <1>f DEF Serve
<1>13. QED BY <1>12, <1>5, <1>6, <1>7, <1>8, <1>9, <1>10, <1>11, <1>f DEF Next, Event

LEMMA InitQInv == Init => QInv
<1> SUFFICES ASSUME Init PROVE QInv
  OBVIOUS
<1>1. /\ thread = FreshThread /\ ready = FreshReady /\ created = WarmCount /\ listen = {}
      /\ \A r \in Request : pc[r] = "idle"
  BY PoolAssumption DEF Init, User
<1>2. Lives
  BY <1>1 DEF Lives, FreshThread, FreshReady
<1>3. KeptApart /\ Heeded /\ Lacking /\ Begun
  BY <1>1 DEF KeptApart, Heeded, Lacking, Lacks, Begun
<1>4. QED BY <1>2, <1>3 DEF QInv

LEMMA ComingOrStuck ==
  ASSUME TypeOK, PInv, QInv
  PROVE  NobodyWaitsInVain
<1> SUFFICES ASSUME NEW r \in Request, pc[r] \notin Ended \union {"idle"}
             PROVE  Coming(r) \/ Stuck(r)
  BY DEF NobodyWaitsInVain
<1>u. r \in User /\ pc[r] \in {"inline", "ready", "await", "own", "reap", "drop"}
  BY DEF User, TypeOK, PC, Ended
\* A thread of a request has been created.
<1>t. ASSUME NEW t \in Thread, t <= created
      PROVE  thread[t] \in {"starting", "up", "failed", "ending", "gone"}
  BY <1>t DEF QInv, Lives, TypeOK, Life
<1>1. CASE pc[r] = "inline"
  BY <1>1 DEF QInv, Begun, Coming
<1>2. CASE pc[r] = "ready"
  <2>1. CASE AllReady(r) \/ AnyUnready(r)
    BY <2>1 DEF Coming
  <2>2. CASE ~(AllReady(r) \/ AnyUnready(r))
    <3>1. PICK k \in DOMAIN slots[r] : ready[slots[r][k]] # "yes" /\ ready[slots[r][k]] # "no"
      BY <1>2, <2>2 DEF AllReady, AnyUnready
    <3>2. PICK t : t = slots[r][k]
      OBVIOUS
    <3>3. t \in Members(slots[r]) /\ t \in Thread /\ t <= created
      BY <1>2, <1>u, <3>2 DEF Members, PInv, Numbered
    <3>4. ready[t] = "wait"
      BY <3>1, <3>2, <3>3 DEF TypeOK
    <3>5. thread[t] \in {"starting", "failed", "ending"}
      BY <1>t, <3>3, <3>4 DEF QInv, Lives
    <3>6. QED BY <1>2, <3>3, <3>4, <3>5 DEF Coming
  <2>3. QED BY <2>1, <2>2
<1>3. CASE pc[r] \in {"await", "own"}
  <2>1. PICK l \in listen : \E p \in Parts(r) : l.work = Work(r, p)
    BY <1>3 DEF QInv, Lacking, Lacks
  <2>2. l.work.user = r
    BY <2>1 DEF Work
  <2>3. l.thread \in Thread /\ l.thread <= created
    BY <1>3, <1>u, <2>2 DEF PInv, Listens, Numbered
  <2>4. /\ thread[l.thread] # "starting"
        /\ thread[l.thread] = "up" => l \in tasks
        /\ pc[r] = "own" => thread[l.thread] # "gone"
    BY <2>2 DEF QInv, Heeded
  <2>5. CASE thread[l.thread] = "gone"
    <3>1. pc[r] = "await"
      BY <1>3, <2>4, <2>5
    <3>2. QED BY <2>2, <2>5, <3>1 DEF Stuck
  <2>6. CASE thread[l.thread] # "gone"
    <3>1. thread[l.thread] \in {"failed", "ending"} \/ (l \in tasks /\ thread[l.thread] = "up")
      BY <1>t, <2>3, <2>4, <2>6
    <3>2. QED BY <1>3, <2>2, <3>1 DEF Coming
  <2>7. QED BY <2>5, <2>6
<1>4. CASE pc[r] \in {"reap", "drop"}
  <2>1. CASE \A t \in Members(slots[r]) : thread[t] = "gone"
    BY <1>4, <2>1 DEF Coming
  <2>2. CASE ~\A t \in Members(slots[r]) : thread[t] = "gone"
    <3>1. PICK t \in Members(slots[r]) : thread[t] # "gone"
      BY <2>2
    <3>2. /\ t \in Thread /\ t <= created /\ t \notin Members(pool)
          /\ \A q \in Request \ {r} : pc[q] = "own" => t \notin Members(slots[q])
      BY <1>4, <3>1 DEF QInv, KeptApart
    <3>3. thread[t] \notin {"starting", "up"}
      BY <1>4, <3>2 DEF PInv, NoThreadLeaks
    <3>4. thread[t] \in {"failed", "ending"}
      BY <1>t, <3>1, <3>2, <3>3
    <3>5. QED BY <1>4, <3>1, <3>4 DEF Coming
  <2>3. QED BY <2>1, <2>2
<1>5. QED BY <1>u, <1>1, <1>2, <1>3, <1>4

LEMMA QStep ==
  ASSUME TypeOK, PInv, GotOwn, Planned, QInv, [Next]_vars
  PROVE  QInv'
<1>1. Lives /\ KeptApart /\ Heeded /\ Lacking /\ Begun
  BY DEF QInv
<1>2. Lives' /\ KeptApart' /\ Heeded'
  BY <1>1, LivesStep, KeptApartStep, HeededStep
<1>3. Lacking' /\ Begun'
  BY <1>1, LackingStep, BegunStep
<1>4. QED BY <1>2, <1>3 DEF QInv

\* Whatever throws, dies, is replaced or answers late, every conversion that has
\* begun and not ended can go on by itself, has a batch or a task that is computed
\* for it or the end of a thread that it will be told of, or else waits for a
\* thread of the pool that was gone before it was asked
\* (runPersistentCoreFastWorkerRequest, runBatchedCorePipelineInOneShotWorkers).
THEOREM NobodyWaits == Spec => []NobodyWaitsInVain
<1>1. Init => TypeOK /\ PInv /\ GotOwn /\ Planned /\ QInv
  BY InitType, InitPInv, InputIsPlanned, InitQInv, PoolAssumption DEF Init, GotOwn, User
<1>2. TypeOK /\ PInv /\ GotOwn /\ Planned /\ QInv /\ [Next]_vars
        => TypeOK' /\ PInv' /\ GotOwn' /\ Planned' /\ QInv'
  BY Typed, PStep, GotStep, InputIsPlanned, QStep
<1>3. TypeOK /\ PInv /\ QInv => NobodyWaitsInVain
  BY ComingOrStuck
<1> QED BY <1>1, <1>2, <1>3, PTL DEF Spec
=============================================================================
