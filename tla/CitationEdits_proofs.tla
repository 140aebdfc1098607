------------------------ MODULE CitationEdits_proofs ------------------------
(***************************************************************************)
(* Proofs about CitationEdits: types, the numbering of versions, the       *)
(* overlay baseline, the projection, the version history, and that edits   *)
(* which do not meet add up.                                               *)
(***************************************************************************)
EXTENDS CitationEdits, InductionLemmas, TLAPS

\* No overlay shows in the fields, or the citation has an original.
Covered(c, fields) ==
    Originals(c) # {} \/ \A e \in fields : kind[e] # "overlay"

\* A handler about to insert a version holds the lock, and its number is next.
Numbering ==
    \A e \in Edits : num[e] # 0 =>
        /\ lock[target[e]] = e
        /\ num[e] = Len(versions[target[e]]) + 1

AllCovered ==
    /\ \A c \in Cites : Covered(c, row.cite[c])
    /\ \A p \in Procs : \A c \in Cites : Covered(c, snap[p].cite[c])
    /\ \A e \in Edits : Covered(target[e], seen[e]) /\ Covered(target[e], got[e])

\* Where an overlay stands with its baseline.
Baselined ==
    \A e \in Edits :
        /\ pc[e] = "base" => IsOverlay(e)
        /\ pc[e] = "vbase" => IsOverlay(e) /\ \A f \in seen[e] : kind[f] # "overlay"
        /\ IsOverlay(e) /\ pc[e] \notin {"idle", "base", "vbase", "done", "failed"}
              => Originals(target[e]) # {}

\* What an edit leaves in the history before it is answered.
Marking == {"overlay", "approve"}
InHistory(e) ==
    \E i \in DOMAIN versions[target[e]] : e \in versions[target[e]][i].fields

Recorded ==
    \A e \in Edits : kind[e] \in Marking =>
        /\ pc[e] \in {"u2r", "u2w", "vafter"} => e \in got[e]
        /\ pc[e] \in {"er", "ew", "tail", "done"} => InHistory(e)

-----------------------------------------------------------------------------
\* Types.

LEMMA NewRowType == NewRow \in Row /\ NewRow.cite = [c \in Cites |-> {}]
  BY DEF NewRow, Row, Fields, Procs

LEMMA TypeInit == Init => TypeOK
<1> SUFFICES ASSUME Init PROVE TypeOK
  OBVIOUS
<1> USE DEF Init
<1>1. /\ row \in Row /\ proj \in [Cites -> Fields \cup {None}]
      /\ snap \in [Procs -> Row] /\ ensure \in [Edits -> {"none", "missing", "read"}]
  BY NewRowType DEF Fields
<1>2. pc \in [Procs -> Steps]
  BY DEF Steps
<1>3. versions \in [Cites -> Seq(Version)] /\ history \in [Cites -> Seq(Edits)]
  OBVIOUS
<1>4. /\ seen \in [Edits -> Fields] /\ base \in [Edits -> Fields]
      /\ got \in [Edits -> Fields] /\ num \in [Edits -> Nat]
  BY DEF Fields
<1> QED
  BY <1>1, <1>2, <1>3, <1>4 DEF TypeOK

LEMMA NumsType ==
  ASSUME TypeOK, VersionsNumbered, NEW c \in Cites
  PROVE  MaxNum(c) = Len(versions[c])
<1>1. versions[c] \in Seq(Version)
  BY DEF TypeOK
<1>2. \A i \in 1 .. Len(versions[c]) : versions[c][i].num = i
  BY <1>1 DEF VersionsNumbered
<1>3. CASE versions[c] = <<>>
  BY <1>3 DEF MaxNum
<1>4. CASE versions[c] # <<>>
  <2>1. Nums(c) = 1 .. Len(versions[c])
    BY <1>1, <1>2 DEF Nums
  <2>2. Len(versions[c]) \in Nat /\ Len(versions[c]) \in 1 .. Len(versions[c])
    BY <1>1, <1>4
  <2>3. \A n \in 1 .. Len(versions[c]) :
          (\A m \in 1 .. Len(versions[c]) : m <= n) <=> n = Len(versions[c])
    BY <2>2
  <2>4. (CHOOSE n \in Nums(c) : \A m \in Nums(c) : m <= n) = Len(versions[c])
    BY <2>1, <2>2, <2>3
  <2> QED
    BY <1>4, <2>4 DEF MaxNum
<1> QED
  BY <1>3, <1>4

\* There is a first original when there is one at all.
LEMMA FirstOriginal ==
  ASSUME TypeOK, VersionsNumbered, NEW c \in Cites, Originals(c) # {}
  PROVE  \E i \in Originals(c) :
            \A j \in Originals(c) : versions[c][i].num <= versions[c][j].num
<1>1. versions[c] \in Seq(Version)
  BY DEF TypeOK
<1>2. Originals(c) \subseteq Nat /\ Originals(c) \subseteq DOMAIN versions[c]
  BY <1>1 DEF Originals
<1>3. PICK i \in Originals(c) : \A j \in Originals(c) : i <= j
  BY <1>2, Least
<1>4. \A j \in Originals(c) : versions[c][j].num = j
  BY <1>2 DEF VersionsNumbered
<1> QED
  BY <1>2, <1>3, <1>4

LEMMA BaselineIn ==
  ASSUME TypeOK, VersionsNumbered, NEW c \in Cites, Originals(c) # {}
  PROVE  /\ Baseline(c) \in Fields
         /\ \E i \in Originals(c) : Baseline(c) = versions[c][i].fields
<1>1. versions[c] \in Seq(Version)
  BY DEF TypeOK
<1>2. PICK i \in Originals(c) : Baseline(c) = versions[c][i].fields
  BY FirstOriginal DEF Baseline
<1>3. versions[c][i] \in Version
  BY <1>1, <1>2 DEF Originals
<1> QED
  BY <1>2, <1>3 DEF Version

LEMMA VersionType ==
  ASSUME TypeOK, NEW e \in Edits, pc[e] \in Versioning
  PROVE  VersionOf(e) \in Version /\ AfterVersion(e) \in Steps
<1>1. num[e] \in Nat /\ got[e] \in Fields /\ seen[e] \in Fields
  BY DEF TypeOK
<1>2. Source(e) \in {"original", "before", "after"}
  BY DEF Source, Versioning
<1>3. AfterVersion(e) \in Steps
  BY DEF AfterVersion, Versioning, Steps
<1> QED
  BY <1>1, <1>2, <1>3 DEF VersionOf, Version

LEMMA UpdatedType ==
  ASSUME TypeOK, NEW e \in Edits, pc[e] \in {"u1w", "u2w"}, NEW fields \in Fields
  PROVE  Updated(e, fields) \in Fields
<1>1. got[e] \in Fields /\ seen[e] \in Fields /\ base[e] \in Fields /\ kind[e] \in Kinds
  BY DEF TypeOK
<1> QED
  BY <1>1 DEF Updated, Fields, Kinds, OverlayFields, Own, IsOverlay, Confirmed

\* The citations and the row an updateCitation writes.
NewCites(e) == [snap[e].cite EXCEPT ![target[e]] = Updated(e, @)]

LEMMA UpdateFacts ==
  ASSUME TypeOK, NEW e \in Edits, UpdateCitation(e)
  PROVE  /\ NewCites(e) \in [Cites -> Fields]
         /\ row' = [snap[e] EXCEPT !.cite = NewCites(e)]
         /\ row' \in Row /\ row'.cite = NewCites(e)
         /\ proj' = NewCites(e)
         /\ got' = [got EXCEPT ![e] = NewCites(e)[target[e]]]
         /\ NewCites(e)[target[e]] = Updated(e, snap[e].cite[target[e]])
         /\ \A c \in Cites \ {target[e]} : NewCites(e)[c] = snap[e].cite[c]
<1>1. snap[e] \in Row /\ target[e] \in Cites
  BY DEF TypeOK, Procs
<1>2. pc[e] \in {"u1w", "u2w"}
  BY DEF UpdateCitation
<1>3. snap[e].cite \in [Cites -> Fields]
  BY <1>1 DEF Row
<1>4. Updated(e, snap[e].cite[target[e]]) \in Fields
  BY <1>1, <1>2, <1>3, UpdatedType
<1>5. NewCites(e) \in [Cites -> Fields]
  BY <1>1, <1>3, <1>4 DEF NewCites
<1>6. /\ row' = [snap[e] EXCEPT !.cite = NewCites(e)]
      /\ proj' = NewCites(e)
      /\ got' = [got EXCEPT ![e] = NewCites(e)[target[e]]]
  BY DEF UpdateCitation, NewCites
<1>7. row' \in Row /\ row'.cite = NewCites(e)
  BY <1>1, <1>5, <1>6 DEF Row
<1> QED
  BY <1>1, <1>3, <1>5, <1>6, <1>7 DEF NewCites

LEMMA ForgetType ==
  ASSUME TypeOK, NEW e \in Edits, Forget(e)
  PROVE  /\ seen' \in [Edits -> Fields] /\ base' \in [Edits -> Fields]
         /\ got' \in [Edits -> Fields] /\ num' \in [Edits -> Nat]
         /\ ensure' \in [Edits -> {"none", "missing", "read"}]
         /\ snap' \in [Procs -> Row]
  BY NewRowType DEF TypeOK, Forget, Fields

LEMMA TypeStep == TypeOK /\ VersionsNumbered /\ [Next]_vars => TypeOK'
<1> SUFFICES ASSUME TypeOK, VersionsNumbered, [Next]_vars PROVE TypeOK'
  OBVIOUS
<1>1. ASSUME NEW e \in Edits, Start(e) PROVE TypeOK'
  <2>1. row.cite[target[e]] \in Fields
    BY DEF TypeOK, Row
  <2> QED
    BY <1>1, <2>1 DEF Start, TypeOK, data, Steps, Versioning, Procs
<1>2. ASSUME NEW e \in Edits, FindBaseline(e) PROVE TypeOK'
  <2>1. base' \in [Edits -> Fields]
    <3>1. CASE Originals(target[e]) = {}
      BY <1>2, <3>1 DEF FindBaseline, TypeOK
    <3>2. CASE Originals(target[e]) # {}
      <4>1. Baseline(target[e]) \in Fields
        BY <3>2, BaselineIn DEF TypeOK
      <4> QED
        BY <1>2, <3>2, <4>1 DEF FindBaseline, TypeOK
    <3> QED
      BY <3>1, <3>2
  <2> QED
    BY <1>2, <2>1 DEF FindBaseline, TypeOK, data, ghosts, Steps, Versioning, Procs
<1>3. ASSUME NEW e \in Edits, VersionLock(e) PROVE TypeOK'
  <2>1. MaxNum(target[e]) + 1 \in Nat
    BY NumsType DEF TypeOK
  <2> QED
    BY <1>3, <2>1 DEF VersionLock, TypeOK, ghosts
<1>4. ASSUME NEW e \in Edits, VersionInsert(e) PROVE TypeOK'
  <2>1. VersionOf(e) \in Version /\ AfterVersion(e) \in Steps
    BY <1>4, VersionType DEF VersionInsert
  <2>2. versions' \in [Cites -> Seq(Version)]
    BY <1>4, <2>1 DEF VersionInsert, TypeOK
  <2>3. lock' \in [Cites -> Edits \cup {None}] /\ num' \in [Edits -> Nat]
    BY <1>4 DEF VersionInsert, TypeOK
  <2>4. pc' \in [Procs -> Steps]
    BY <1>4, <2>1 DEF VersionInsert, TypeOK
  <2>5. snap' \in [Procs -> Row] /\ ensure' \in [Edits -> {"none", "missing", "read"}]
    BY <1>4, NewRowType DEF VersionInsert, TypeOK
  <2>6. proj' \in [Cites -> Fields \cup {None}]
    <3>1. snap[e].cite \in [Cites -> Fields]
      BY DEF TypeOK, Row, Procs
    <3> QED
      BY <1>4, <3>1 DEF VersionInsert, TypeOK
  <2>7. torn' \in BOOLEAN
    BY <1>4 DEF VersionInsert, TypeOK
  <2> QED
    BY <1>4, <2>2, <2>3, <2>4, <2>5, <2>6, <2>7 DEF VersionInsert, TypeOK
<1>5. ASSUME NEW e \in Edits, UpdateCitation(e) PROVE TypeOK'
  <2>1. row' \in Row /\ proj' \in [Cites -> Fields \cup {None}] /\ got' \in [Edits -> Fields]
    <3>1. NewCites(e) \in [Cites -> Fields] /\ target[e] \in Cites
      BY <1>5, UpdateFacts DEF TypeOK
    <3>2. got' = [got EXCEPT ![e] = NewCites(e)[target[e]]]
      BY <1>5, UpdateFacts
    <3> QED
      BY <1>5, <3>1, <3>2, UpdateFacts DEF TypeOK
  <2>2. pc' \in [Procs -> Steps] /\ snap' \in [Procs -> Row]
    BY <1>5, NewRowType DEF UpdateCitation, TypeOK, Steps, Versioning, Procs
  <2> QED
    BY <1>5, <2>1, <2>2 DEF UpdateCitation, TypeOK
<1>6. ASSUME NEW e \in Edits, Answer(e) PROVE TypeOK'
  <2>1. pc' \in [Procs -> Steps] /\ history' \in [Cites -> Seq(Edits)]
    BY <1>6 DEF Answer, TypeOK, Steps, Procs
  <2> QED
    BY <1>6, <2>1, ForgetType DEF Answer, TypeOK, data
<1>7. ASSUME NEW e \in Edits, Fail(e) PROVE TypeOK'
  <2>1. pc' \in [Procs -> Steps] /\ lock' \in [Cites -> Edits \cup {None}]
    BY <1>7 DEF Fail, TypeOK, Steps, Procs
  <2> QED
    BY <1>7, <2>1, ForgetType DEF Fail, TypeOK, ghosts
<1>8. ASSUME NEW p \in Procs, ReadRow(p) PROVE TypeOK'
  BY <1>8 DEF ReadRow, TypeOK, data, ghosts, Steps
<1>9. ASSUME NEW p \in Procs, WriteBlob(p) PROVE TypeOK'
  <2>1. row' \in Row
    BY <1>9 DEF WriteBlob, TypeOK, Row
  <2> QED
    BY <1>9, <2>1, NewRowType DEF WriteBlob, TypeOK, Steps
<1>10. CASE DeferredProjection
  BY <1>10, NewRowType DEF DeferredProjection, TypeOK, Fields
<1>11. CASE UNCHANGED vars
  BY <1>11 DEF vars, TypeOK
<1>12. ASSUME NEW e \in Edits, FindNoRow(e) \/ ReadForRow(e) PROVE TypeOK'
  BY <1>12 DEF FindNoRow, ReadForRow, TypeOK, data, ghosts
<1> QED
  BY <1>1, <1>2, <1>3, <1>4, <1>5, <1>6, <1>7, <1>8, <1>9, <1>10, <1>11, <1>12
     DEF Next, EditStep, RowStep

-----------------------------------------------------------------------------
\* The history of a citation only grows.

LEMMA InsertFacts ==
  ASSUME TypeOK, NEW e \in Edits, VersionInsert(e)
  PROVE  /\ target[e] \in Cites
         /\ \A c \in Cites \ {target[e]} : versions'[c] = versions[c]
         /\ versions'[target[e]] = Append(versions[target[e]], VersionOf(e))
         /\ \A c \in Cites : versions[c] \in Seq(Version)
         /\ kind' = kind /\ target' = target
  BY DEF VersionInsert, TypeOK

LEMMA Grows ==
  ASSUME TypeOK, NEW e \in Edits, VersionInsert(e), NEW c \in Cites,
         NEW i \in DOMAIN versions[c]
  PROVE  i \in DOMAIN versions'[c] /\ versions'[c][i] = versions[c][i]
<1>1. CASE c # target[e]
  BY <1>1, InsertFacts
<1>2. CASE c = target[e]
  <2>1. VersionOf(e) \in Version
    BY VersionType DEF VersionInsert
  <2>2. versions[c] \in Seq(Version) /\ versions'[c] = Append(versions[c], VersionOf(e))
    BY <1>2, InsertFacts
  <2> QED
    BY <2>1, <2>2
<1> QED
  BY <1>1, <1>2

LEMMA NewIndex ==
  ASSUME TypeOK, NEW e \in Edits, VersionInsert(e), NEW c \in Cites,
         NEW i \in DOMAIN versions'[c], i \notin DOMAIN versions[c]
  PROVE  /\ c = target[e] /\ i = Len(versions[c]) + 1
         /\ versions'[c][i] = VersionOf(e)
<1>1. c = target[e]
  BY InsertFacts
<1> QED
  BY <1>1, InsertFacts

LEMMA StillOriginal ==
  ASSUME TypeOK, NEW e \in Edits, VersionInsert(e), NEW c \in Cites
  PROVE  Originals(c) \subseteq Originals(c)'
  BY Grows DEF Originals

-----------------------------------------------------------------------------
\* Numbering.

LEMMA NumberingInit == Init => Numbering /\ VersionsNumbered
  BY DEF Init, Numbering, VersionsNumbered

LEMMA NumberingStep ==
  TypeOK /\ Numbering /\ VersionsNumbered /\ [Next]_vars
     => Numbering' /\ VersionsNumbered'
<1> SUFFICES ASSUME TypeOK, Numbering, VersionsNumbered, [Next]_vars
             PROVE  Numbering' /\ VersionsNumbered'
  OBVIOUS
<1>1. CASE /\ UNCHANGED <<versions, lock, num, target>>
  BY <1>1 DEF Numbering, VersionsNumbered
<1>2. ASSUME NEW e \in Edits, VersionLock(e) PROVE Numbering' /\ VersionsNumbered'
  <2>1. MaxNum(target[e]) = Len(versions[target[e]]) /\ target[e] \in Cites
    BY NumsType DEF TypeOK
  <2>2. /\ lock[target[e]] = None /\ e # None
        /\ lock' = [lock EXCEPT ![target[e]] = e]
        /\ num' = [num EXCEPT ![e] = Len(versions[target[e]]) + 1]
        /\ versions' = versions /\ target' = target
    BY <1>2, <2>1, RequestAssumption DEF VersionLock
  <2>3. ASSUME NEW f \in Edits, num'[f] # 0
        PROVE  lock'[target[f]] = f /\ num'[f] = Len(versions[target[f]]) + 1
    <3>1. CASE f = e
      BY <2>1, <2>2, <3>1 DEF TypeOK
    <3>2. CASE f # e
      <4>1. num'[f] = num[f] /\ num[f] # 0
        BY <2>2, <2>3, <3>2 DEF TypeOK
      <4>2. lock[target[f]] = f /\ num[f] = Len(versions[target[f]]) + 1
        BY <4>1 DEF Numbering
      <4>3. target[f] # target[e]
        BY <2>2, <4>2, RequestAssumption
      <4> QED
        BY <2>2, <4>1, <4>2, <4>3
    <3> QED
      BY <3>1, <3>2
  <2> QED
    BY <2>2, <2>3 DEF Numbering, VersionsNumbered
<1>3. ASSUME NEW e \in Edits, VersionInsert(e) PROVE Numbering' /\ VersionsNumbered'
  <2>1. num[e] # 0 /\ lock[target[e]] = e /\ num[e] = Len(versions[target[e]]) + 1
    BY <1>3 DEF VersionInsert, Numbering
  <2>2. ASSUME NEW c \in Cites, NEW i \in DOMAIN versions'[c]
        PROVE  versions'[c][i].num = i
    <3>1. CASE i \in DOMAIN versions[c]
      BY <1>3, <3>1, Grows DEF VersionsNumbered
    <3>2. CASE i \notin DOMAIN versions[c]
      <4>1. c = target[e] /\ i = Len(versions[c]) + 1 /\ versions'[c][i] = VersionOf(e)
        BY <1>3, <2>2, <3>2, NewIndex
      <4> QED
        BY <2>1, <4>1 DEF VersionOf
    <3> QED
      BY <3>1, <3>2
  <2>3. ASSUME NEW f \in Edits, num'[f] # 0
        PROVE  lock'[target[f]] = f /\ num'[f] = Len(versions'[target[f]]) + 1
    <3>1. f # e /\ num'[f] = num[f]
      BY <1>3, <2>3 DEF VersionInsert, TypeOK
    <3>2. lock[target[f]] = f /\ num[f] = Len(versions[target[f]]) + 1
      BY <2>3, <3>1 DEF Numbering
    <3>3. target[f] # target[e]
      BY <2>1, <3>1, <3>2
    <3>4. target[f] \in Cites
      BY DEF TypeOK
    <3>5. lock'[target[f]] = lock[target[f]] /\ versions'[target[f]] = versions[target[f]]
      BY <1>3, <3>3, <3>4, InsertFacts DEF VersionInsert, TypeOK
    <3> QED
      BY <3>1, <3>2, <3>5
  <2> QED
    BY <1>3, <2>2, <2>3, InsertFacts DEF Numbering, VersionsNumbered
<1>4. ASSUME NEW e \in Edits, Answer(e) PROVE Numbering' /\ VersionsNumbered'
  <2>1. /\ versions' = versions /\ lock' = lock /\ target' = target
        /\ num' = [num EXCEPT ![e] = 0] /\ num \in [Edits -> Nat]
    BY <1>4 DEF Answer, data, Forget, TypeOK
  <2> QED
    BY <2>1 DEF Numbering, VersionsNumbered
<1>5. ASSUME NEW e \in Edits, Fail(e) PROVE Numbering' /\ VersionsNumbered'
  <2>1. /\ versions' = versions /\ target' = target
        /\ lock' = [c \in Cites |-> IF lock[c] = e THEN None ELSE lock[c]]
        /\ num' = [num EXCEPT ![e] = 0] /\ num \in [Edits -> Nat]
        /\ target \in [Edits -> Cites]
    BY <1>5 DEF Fail, Forget, TypeOK
  <2> QED
    BY <2>1 DEF Numbering, VersionsNumbered
<1> QED
  BY <1>1, <1>2, <1>3, <1>4, <1>5
     DEF Next, EditStep, RowStep, Start, FindBaseline, FindNoRow, ReadForRow, UpdateCitation,
         ReadRow, WriteBlob, DeferredProjection, data, vars

\* Every reachable state is well typed, and the versions of a citation are
\* numbered 1, 2, 3, ... in the order in which they were saved
\* (appendCitationVersion).
THEOREM Safe == Spec => [](TypeOK /\ VersionsNumbered)
<1>1. Init => TypeOK /\ Numbering /\ VersionsNumbered
  BY TypeInit, NumberingInit
<1>2. TypeOK /\ Numbering /\ VersionsNumbered /\ [Next]_vars
         => (TypeOK /\ Numbering /\ VersionsNumbered)'
  BY TypeStep, NumberingStep
<1> QED
  BY <1>1, <1>2, PTL DEF Spec

-----------------------------------------------------------------------------
\* Original versions stay.

\* The fields an overlay starts from are those of the original of least index.
LEMMA BaselineIs ==
  ASSUME NEW vs \in Seq(Version), \A i \in DOMAIN vs : vs[i].num = i,
         NEW S, S = {i \in DOMAIN vs : vs[i].source = "original"},
         NEW k \in S, \A j \in S : k <= j
  PROVE  (CHOOSE i \in S : \A j \in S : vs[i].num <= vs[j].num) = k
<1>1. S \subseteq Nat /\ \A i \in S : vs[i].num = i
  OBVIOUS
<1>2. \A j \in S : vs[k].num <= vs[j].num
  BY <1>1
<1>3. \A i \in S : (\A j \in S : vs[i].num <= vs[j].num) => i = k
  BY <1>1
<1> QED
  BY <1>2, <1>3

LEMMA SticksStep ==
  ASSUME TypeOK, VersionsNumbered, TypeOK', VersionsNumbered', [Next]_vars,
         NEW c \in Cites, Originals(c) # {}
  PROVE  Baseline(c)' = Baseline(c)
<1>1. CASE versions' = versions
  BY <1>1 DEF Baseline, Originals
<1>2. ASSUME NEW e \in Edits, VersionInsert(e) PROVE Baseline(c)' = Baseline(c)
  <2>1. versions[c] \in Seq(Version) /\ versions'[c] \in Seq(Version)
    BY DEF TypeOK
  <2>2. Originals(c) \subseteq DOMAIN versions[c] /\ Originals(c) \subseteq Nat
    BY <2>1 DEF Originals
  <2>3. PICK k \in Originals(c) :
             \A j \in Originals(c) : versions[c][k].num <= versions[c][j].num
    BY FirstOriginal
  <2>4. \A j \in Originals(c) : k <= j
    BY <2>2, <2>3 DEF VersionsNumbered
  <2>5. k \in DOMAIN versions'[c] /\ versions'[c][k] = versions[c][k]
    BY <1>2, <2>2, Grows
  <2>6. k \in Originals(c)'
    BY <1>2, StillOriginal
  <2>7. ASSUME NEW j \in Originals(c)' PROVE k <= j
    <3>1. j \in DOMAIN versions'[c] /\ versions'[c][j].source = "original"
      BY <2>7 DEF Originals
    <3>2. CASE j \in DOMAIN versions[c]
      <4>1. versions'[c][j] = versions[c][j]
        BY <1>2, <3>2, Grows
      <4> QED
        BY <2>4, <3>1, <3>2, <4>1 DEF Originals
    <3>3. CASE j \notin DOMAIN versions[c]
      <4>1. j = Len(versions[c]) + 1
        BY <1>2, <3>1, <3>3, NewIndex
      <4>2. k \in 1 .. Len(versions[c])
        BY <2>1, <2>2
      <4> QED
        BY <2>1, <4>1, <4>2
    <3> QED
      BY <3>2, <3>3
  <2>8. (CHOOSE i \in Originals(c) : \A j \in Originals(c) :
            versions[c][i].num <= versions[c][j].num) = k
    <3>1. \A i \in DOMAIN versions[c] : versions[c][i].num = i
      BY DEF VersionsNumbered
    <3> HIDE DEF Originals
    <3>2. Originals(c) = {i \in DOMAIN versions[c] : versions[c][i].source = "original"}
      BY DEF Originals
    <3> QED
      BY <2>1, <2>4, <3>1, <3>2, BaselineIs
  <2>9. (CHOOSE i \in Originals(c)' : \A j \in Originals(c)' :
            versions'[c][i].num <= versions'[c][j].num) = k
    <3>1. \A i \in DOMAIN versions'[c] : versions'[c][i].num = i
      BY DEF VersionsNumbered
    <3>2. Originals(c)' = {i \in DOMAIN versions'[c] : versions'[c][i].source = "original"}
      BY DEF Originals
    <3> QED
      BY <2>1, <2>6, <2>7, <3>1, <3>2, BaselineIs
  <2> QED
    BY <2>5, <2>8, <2>9 DEF Baseline
<1>3. versions' = versions \/ \E e \in Edits : VersionInsert(e)
  BY DEF Next, EditStep, RowStep, Start, FindBaseline, FindNoRow, ReadForRow,
         VersionLock, UpdateCitation, Answer,
         Fail, ReadRow, WriteBlob, DeferredProjection, data, vars
<1> QED
  BY <1>1, <1>2, <1>3

\* Once a citation has an original, that stays the one all overlays use
\* (ensureOverlayBaselineFields).
THEOREM Sticks == Spec => BaselineSticks
<1>1. TypeOK /\ VersionsNumbered /\ (TypeOK /\ VersionsNumbered)' /\ [Next]_vars
         => [\A c \in Cites : Originals(c) # {} => Baseline(c)' = Baseline(c)]_vars
  BY SticksStep
<1> QED
  BY <1>1, Safe, PTL DEF Spec, BaselineSticks

-----------------------------------------------------------------------------
\* What an overlay starts from.

\* A citation with an original keeps it, and the requests stay what they are.
LEMMA OriginalsStay ==
  ASSUME TypeOK, [Next]_vars
  PROVE  /\ kind' = kind /\ target' = target
         /\ \A c \in Cites : Originals(c) # {} => Originals(c)' # {}
<1>1. kind' = kind /\ target' = target
  BY DEF Next, EditStep, RowStep, Start, FindBaseline, FindNoRow, ReadForRow, VersionLock,
     VersionInsert,
         UpdateCitation, Answer, Fail, ReadRow, WriteBlob, DeferredProjection, vars
<1>2. CASE versions' = versions
  BY <1>1, <1>2 DEF Originals
<1>3. CASE \E e \in Edits : VersionInsert(e)
  BY <1>1, <1>3, StillOriginal
<1> QED
  BY <1>1, <1>2, <1>3
     DEF Next, EditStep, RowStep, Start, FindBaseline, FindNoRow, ReadForRow, VersionLock,
        UpdateCitation,
         Answer, Fail, ReadRow, WriteBlob, DeferredProjection, data, vars

BaselineInv == AllCovered /\ Baselined /\ BaselineClean

LEMMA BaselineInit == Init => BaselineInv
<1> SUFFICES ASSUME Init PROVE BaselineInv
  OBVIOUS
<1>1. row.cite = [c \in Cites |-> {}] /\ \A p \in Procs : snap[p].cite = [c \in Cites |-> {}]
  BY NewRowType DEF Init
<1>2. AllCovered
  BY <1>1 DEF AllCovered, Covered, Init
<1>3. Baselined /\ BaselineClean
  BY DEF Baselined, BaselineClean, Originals, Init, Procs
<1> QED
  BY <1>2, <1>3 DEF BaselineInv

\* The fields an updateCitation writes are covered.
LEMMA UpdateCovered ==
  ASSUME TypeOK, BaselineInv, NEW e \in Edits, UpdateCitation(e), NEW c \in Cites
  PROVE  Covered(c, NewCites(e)[c])
<1>1. Covered(c, snap[e].cite[c]) /\ Covered(target[e], got[e])
  BY DEF BaselineInv, AllCovered, Procs
<1>2. CASE c # target[e]
  BY <1>1, <1>2, UpdateFacts
<1>3. CASE c = target[e]
  <2>1. NewCites(e)[c] = Updated(e, snap[e].cite[c])
    BY <1>3, UpdateFacts
  <2>2. pc[e] \in {"u1w", "u2w"} /\ kind[e] \in Kinds
    BY DEF UpdateCitation, TypeOK
  <2>3. CASE IsOverlay(e)
    BY <1>3, <2>2, <2>3 DEF BaselineInv, Baselined, Covered
  <2>4. CASE pc[e] = "u2w"
    BY <1>1, <1>3, <2>1, <2>4 DEF Updated
  <2>5. CASE pc[e] = "u1w" /\ kind[e] = "approve"
    <3>1. Updated(e, snap[e].cite[c]) = snap[e].cite[c] \cup {e}
      BY <2>5 DEF Updated, IsOverlay
    <3> QED
      BY <1>1, <2>1, <2>5, <3>1 DEF Covered
  <2>6. CASE pc[e] = "u1w" /\ kind[e] = "reprocess"
    <3>1. Updated(e, snap[e].cite[c]) = Confirmed(seen[e])
      BY <2>6 DEF Updated, IsOverlay
    <3> QED
      BY <2>1, <3>1 DEF Covered, Confirmed
  <2> QED
    BY <2>2, <2>3, <2>4, <2>5, <2>6 DEF Kinds, IsOverlay
<1> QED
  BY <1>2, <1>3

LEMMA AllCoveredStep ==
  ASSUME TypeOK, BaselineInv, [Next]_vars
  PROVE  AllCovered'
<1> DEFINE Ok(c, fields) == Originals(c)' # {} \/ \A e \in fields : kind'[e] # "overlay"
<1>1. \A c \in Cites : \A fields : Covered(c, fields) => Ok(c, fields)
  BY OriginalsStay DEF Covered
<1>2. \A c \in Cites : Ok(c, {})
  OBVIOUS
<1>3. target' = target /\ target \in [Edits -> Cites]
  BY OriginalsStay DEF TypeOK
<1>4. /\ \A c \in Cites : Ok(c, row.cite[c])
      /\ \A p \in Procs : \A c \in Cites : Ok(c, snap[p].cite[c])
      /\ \A e \in Edits : Ok(target[e], seen[e]) /\ Ok(target[e], got[e])
  BY <1>1, <1>3 DEF BaselineInv, AllCovered
<1>5. \A c \in Cites : NewRow.cite[c] = {}
  BY NewRowType
<1> HIDE DEF Ok
<1>6. \A c \in Cites : Ok(c, row'.cite[c])
  <2>1. CASE row' = row
    BY <1>4, <2>1
  <2>2. ASSUME NEW e \in Edits, UpdateCitation(e) PROVE \A c \in Cites : Ok(c, row'.cite[c])
    BY <1>1, <2>2, UpdateCovered, UpdateFacts
  <2>3. ASSUME NEW p \in Procs, WriteBlob(p) PROVE \A c \in Cites : Ok(c, row'.cite[c])
    <3>1. row'.cite = snap[p].cite
      BY <2>3 DEF WriteBlob, TypeOK, Row
    <3> QED
      BY <1>4, <3>1
  <2> QED
    BY <2>1, <2>2, <2>3
       DEF Next, EditStep, RowStep, Start, FindBaseline, FindNoRow, ReadForRow, VersionLock,
          VersionInsert,
           Answer, Fail, ReadRow, DeferredProjection, data, vars
<1>7. \A p \in Procs : \A c \in Cites : Ok(c, snap'[p].cite[c])
  <2>1. CASE snap' = snap
    BY <1>4, <2>1
  <2>2. ASSUME NEW q \in Procs, snap' = [snap EXCEPT ![q] = NewRow]
        PROVE  \A p \in Procs : \A c \in Cites : Ok(c, snap'[p].cite[c])
    <3>1. \A p \in Procs : snap'[p] = IF p = q THEN NewRow ELSE snap[p]
      BY <2>2 DEF TypeOK
    <3> QED
      BY <1>2, <1>4, <1>5, <3>1
  <2>3. ASSUME NEW q \in Procs, ReadRow(q) \/ ReadForRow(q)
        PROVE  \A p \in Procs : \A c \in Cites : Ok(c, snap'[p].cite[c])
    <3>1. \A p \in Procs : snap'[p] = IF p = q THEN row ELSE snap[p]
      BY <2>3 DEF ReadRow, ReadForRow, TypeOK
    <3> QED
      BY <1>4, <3>1
  <2> QED
    BY <2>1, <2>2, <2>3
       DEF Next, EditStep, RowStep, Start, FindBaseline, FindNoRow, VersionLock, VersionInsert,
           UpdateCitation, Answer, Fail, Forget, WriteBlob, DeferredProjection, vars, Procs
<1>8. \A e \in Edits : Ok(target[e], seen'[e])
  <2>1. CASE seen' = seen
    BY <1>4, <2>1
  <2>2. ASSUME NEW f \in Edits, seen' = [seen EXCEPT ![f] = {}]
        PROVE  \A e \in Edits : Ok(target[e], seen'[e])
    <3>1. \A e \in Edits : seen'[e] = IF e = f THEN {} ELSE seen[e]
      BY <2>2 DEF TypeOK
    <3> QED
      BY <1>2, <1>3, <1>4, <3>1
  <2>3. ASSUME NEW f \in Edits, Start(f) PROVE \A e \in Edits : Ok(target[e], seen'[e])
    <3>1. \A e \in Edits : seen'[e] = IF e = f THEN row.cite[target[e]] ELSE seen[e]
      BY <2>3 DEF Start, TypeOK
    <3> QED
      BY <1>3, <1>4, <3>1
  <2> QED
    BY <2>1, <2>2, <2>3
       DEF Next, EditStep, RowStep, FindBaseline, FindNoRow, ReadForRow, VersionLock, VersionInsert,
           UpdateCitation, Answer, Fail, Forget, ReadRow, WriteBlob, DeferredProjection, vars
<1>9. \A e \in Edits : Ok(target[e], got'[e])
  <2>1. CASE got' = got
    BY <1>4, <2>1
  <2>2. ASSUME NEW f \in Edits, got' = [got EXCEPT ![f] = {}]
        PROVE  \A e \in Edits : Ok(target[e], got'[e])
    <3>1. \A e \in Edits : got'[e] = IF e = f THEN {} ELSE got[e]
      BY <2>2 DEF TypeOK
    <3> QED
      BY <1>2, <1>3, <1>4, <3>1
  <2>3. ASSUME NEW f \in Edits, UpdateCitation(f)
        PROVE  \A e \in Edits : Ok(target[e], got'[e])
    <3>1. got' = [got EXCEPT ![f] = NewCites(f)[target[f]]]
      BY <2>3, UpdateFacts
    <3>2. \A e \in Edits : got'[e] = IF e = f THEN NewCites(f)[target[f]] ELSE got[e]
      BY <3>1 DEF TypeOK
    <3>3. Ok(target[f], NewCites(f)[target[f]])
      BY <1>1, <1>3, <2>3, UpdateCovered
    <3> QED
      BY <1>4, <3>2, <3>3
  <2> QED
    BY <2>1, <2>2, <2>3
       DEF Next, EditStep, RowStep, Start, FindBaseline, FindNoRow, ReadForRow, VersionLock,
          VersionInsert,
           Answer, Fail, Forget, ReadRow, WriteBlob, DeferredProjection, data, vars
<1> USE DEF Ok
<1> QED
  BY <1>3, <1>6, <1>7, <1>8, <1>9 DEF AllCovered, Covered

\* The clauses of Baselined for one edit.
BaselinedAt(e) ==
  /\ pc[e] = "base" => IsOverlay(e)
  /\ pc[e] = "vbase" => IsOverlay(e) /\ \A f \in seen[e] : kind[f] # "overlay"
  /\ IsOverlay(e) /\ pc[e] \notin {"idle", "base", "vbase", "done", "failed"}
        => Originals(target[e]) # {}

LEMMA BaselinedStep ==
  ASSUME TypeOK, BaselineInv, [Next]_vars
  PROVE  Baselined'
<1> SUFFICES ASSUME NEW e \in Edits PROVE BaselinedAt(e)'
  BY DEF Baselined, BaselinedAt
<1>1. BaselinedAt(e) /\ Covered(target[e], seen[e])
  BY DEF BaselineInv, Baselined, BaselinedAt, AllCovered
<1>2. kind' = kind /\ target' = target /\ target[e] \in Cites
  BY OriginalsStay DEF TypeOK
<1>3. Originals(target[e]) # {} => Originals(target[e])' # {}
  BY <1>2, OriginalsStay
<1>4. CASE pc'[e] = pc[e] /\ seen'[e] = seen[e]
  BY <1>1, <1>2, <1>3, <1>4 DEF BaselinedAt, IsOverlay
<1>5. CASE pc'[e] \in {"done", "failed"}
  BY <1>5 DEF BaselinedAt
<1>6. CASE Start(e)
  <2>1. pc'[e] = IF IsOverlay(e) THEN "base" ELSE "vsnap"
    BY <1>6 DEF Start, TypeOK, Procs
  <2> QED
    BY <1>2, <2>1 DEF BaselinedAt, IsOverlay
<1>7. CASE FindBaseline(e)
  <2>1. pc[e] = "base" /\ seen' = seen /\ versions' = versions
    BY <1>7 DEF FindBaseline, data
  <2>2. CASE Originals(target[e]) # {}
    <3>1. pc'[e] = "vsnap"
      BY <1>7, <2>2 DEF FindBaseline, TypeOK, Procs
    <3> QED
      BY <1>3, <2>2, <1>2, <3>1 DEF BaselinedAt
  <2>3. CASE Originals(target[e]) = {}
    <3>1. pc'[e] = "vbase"
      BY <1>7, <2>3 DEF FindBaseline, TypeOK, Procs
    <3>2. \A f \in seen[e] : kind[f] # "overlay"
      BY <1>1, <2>3 DEF Covered
    <3> QED
      BY <1>1, <1>2, <2>1, <3>1, <3>2 DEF BaselinedAt, IsOverlay
  <2> QED
    BY <2>2, <2>3
<1>8. CASE VersionInsert(e)
  <2>1. pc[e] \in Versioning /\ pc'[e] = AfterVersion(e)
    BY <1>8 DEF VersionInsert, TypeOK, Procs
  <2>2. pc'[e] \in {"vsnap", "tail", "u1r", "er"}
    BY <2>1 DEF AfterVersion, Versioning
  <2>3. CASE pc[e] = "vbase"
    <3>1. Len(versions[target[e]]) + 1 \in Originals(target[e])'
      <4>1. VersionOf(e) \in Version /\ VersionOf(e).source = "original"
        BY <2>1, <2>3, VersionType DEF VersionOf, Source
      <4>2. /\ versions[target[e]] \in Seq(Version)
            /\ versions'[target[e]] = Append(versions[target[e]], VersionOf(e))
        BY <1>2, <1>8, InsertFacts
      <4> QED
        BY <1>2, <4>1, <4>2 DEF Originals
    <3> QED
      BY <1>2, <2>2, <3>1 DEF BaselinedAt
  <2>4. CASE pc[e] # "vbase"
    <3>1. IsOverlay(e) => Originals(target[e]) # {}
      BY <1>1, <2>1, <2>4 DEF BaselinedAt, Versioning
    <3> QED
      BY <1>2, <1>3, <2>2, <3>1 DEF BaselinedAt, IsOverlay
  <2> QED
    BY <2>3, <2>4
<1>9. CASE UpdateCitation(e) \/ ReadRow(e) \/ WriteBlob(e)
  <2>1. /\ pc[e] \in {"u1w", "u2w", "u1r", "u2r", "er", "ew"} \/ e \in Notes
        /\ pc'[e] \in {"u1w", "u2w", "u2r", "ew", "vafter", "tail"}
        /\ seen' = seen
    BY <1>9 DEF UpdateCitation, ReadRow, WriteBlob, TypeOK, Procs
  <2>2. e \notin Notes
    BY RequestAssumption
  <2>3. IsOverlay(e) => Originals(target[e]) # {}
    BY <1>1, <2>1, <2>2 DEF BaselinedAt
  <2> QED
    BY <1>2, <1>3, <2>1, <2>3 DEF BaselinedAt, IsOverlay
<1>10. ASSUME NEW p \in Procs, p # e,
              \/ p \in Edits /\ (EditStep(p) \/ Fail(p))
              \/ RowStep(p)
       PROVE  pc'[e] = pc[e] /\ seen'[e] = seen[e]
  <2>1. /\ pc \in [Procs -> Steps] /\ seen \in [Edits -> Fields] /\ e \in Procs
    BY DEF TypeOK, Procs
  <2>2. CASE p \in Edits /\ (EditStep(p) \/ Fail(p))
    BY <1>10, <2>1, <2>2 DEF EditStep, Start, FindBaseline, FindNoRow, ReadForRow, VersionLock,
       VersionInsert,
       UpdateCitation, Answer, Fail, Forget
  <2>3. CASE RowStep(p)
    BY <1>10, <2>1, <2>3 DEF RowStep, ReadRow, WriteBlob
  <2> QED
    BY <1>10, <2>2, <2>3
<1>11. CASE FindNoRow(e) \/ ReadForRow(e) \/ VersionLock(e) \/ DeferredProjection \/ UNCHANGED vars
  BY <1>4, <1>11 DEF FindNoRow, ReadForRow, VersionLock, DeferredProjection, vars
<1>12. CASE Answer(e) \/ Fail(e)
  BY <1>5, <1>12 DEF Answer, Fail, TypeOK, Procs
<1> QED
  BY <1>4, <1>6, <1>7, <1>8, <1>9, <1>10, <1>11, <1>12
     DEF Next, EditStep, RowStep, Procs

LEMMA CleanStep ==
  ASSUME TypeOK, BaselineInv, [Next]_vars
  PROVE  BaselineClean'
<1>1. kind' = kind
  BY OriginalsStay
<1>2. CASE versions' = versions
  BY <1>1, <1>2 DEF BaselineInv, BaselineClean, Originals
<1>3. ASSUME NEW e \in Edits, VersionInsert(e) PROVE BaselineClean'
  <2> SUFFICES ASSUME NEW c \in Cites, NEW i \in Originals(c)'
               PROVE  \A f \in versions'[c][i].fields : kind[f] # "overlay"
    BY <1>1 DEF BaselineClean
  <2>1. i \in DOMAIN versions'[c] /\ versions'[c][i].source = "original"
    BY DEF Originals
  <2>2. CASE i \in DOMAIN versions[c]
    <3>1. versions'[c][i] = versions[c][i]
      BY <1>3, <2>2, Grows
    <3> QED
      BY <2>1, <2>2, <3>1 DEF BaselineInv, BaselineClean, Originals
  <2>3. CASE i \notin DOMAIN versions[c]
    <3>1. versions'[c][i] = VersionOf(e)
      BY <1>3, <2>1, <2>3, NewIndex
    <3>2. pc[e] = "vbase"
      BY <1>3, <2>1, <3>1 DEF VersionOf, Source, VersionInsert, Versioning
    <3> QED
      BY <3>1, <3>2 DEF VersionOf, BaselineInv, Baselined
  <2> QED
    BY <2>2, <2>3
<1> QED
  BY <1>2, <1>3
     DEF Next, EditStep, RowStep, Start, FindBaseline, FindNoRow, ReadForRow,
         VersionLock, UpdateCitation, Answer,
         Fail, ReadRow, WriteBlob, DeferredProjection, data, vars

\* What overlays are applied to, and what restoring goes back to, never holds
\* an earlier overlay (ensureOverlayBaselineFields).
THEOREM CleanBaselines == Spec => []BaselineClean
<1>1. TypeOK /\ BaselineInv /\ [Next]_vars => BaselineInv'
  BY AllCoveredStep, BaselinedStep, CleanStep DEF BaselineInv
<1>2. BaselineInv => BaselineClean
  BY DEF BaselineInv
<1> QED
  BY <1>1, <1>2, BaselineInit, Safe, PTL DEF Spec

-----------------------------------------------------------------------------
\* The projection.

\* No edit shows in the blob, and the rows the table has are as old.
Early == row.cite = NewRow.cite /\ \A c \in Cites : proj[c] \in {None, NewRow.cite[c]}

\* A version adds the row of its citation as the blob has it, or is torn.
LEMMA InsertProjects ==
  ASSUME TypeOK, ProjectionAgrees, NEW e \in Edits, VersionInsert(e), ~torn'
  PROVE  proj' = row'.cite \/ Early'
<1> DEFINE c == target[e]
           fields == snap[e].cite[c]
<1>1. /\ c \in Cites /\ proj \in [Cites -> Fields \cup {None}] /\ row' = row
      /\ row.cite \in [Cites -> Fields]
  BY DEF VersionInsert, TypeOK, Row
<1>2. ~torn /\ (ensure[e] = "read" => row.cite[c] = fields)
  <2>1. torn' = (torn \/ (ensure[e] = "read" /\ row.cite[c] # fields))
    BY DEF VersionInsert
  <2> QED
    BY <2>1
<1>3. proj' = IF ensure[e] = "read" THEN [proj EXCEPT ![c] = row.cite[c]] ELSE proj
  BY <1>2 DEF VersionInsert
<1>4. CASE proj = row.cite
  BY <1>1, <1>3, <1>4
<1>5. CASE Early
  <2>1. \A d \in Cites : proj'[d] \in {None, NewRow.cite[d]}
    BY <1>1, <1>3, <1>5 DEF Early
  <2> QED
    BY <1>1, <1>5, <2>1 DEF Early, NewRow
<1> QED
  BY <1>2, <1>4, <1>5 DEF ProjectionAgrees, Early

\* The citations table agrees with the blob until a writer of one of the two
\* alone puts back citations that have been edited since it read; only while
\* the blob is as the pipeline left it, rows may be missing (updateCitation,
\* syncProjectedCitations, ensureProjectedCitationExists).
THEOREM Projected == Spec => []ProjectionAgrees
<1>1. Init => ProjectionAgrees
  <2> SUFFICES ASSUME Init PROVE Early
    BY DEF ProjectionAgrees, Early
  <2>1. row = NewRow /\ proj = [c \in Cites |-> IF deferred THEN None ELSE NewRow.cite[c]]
    BY DEF Init
  <2> QED
    BY <2>1 DEF Early
<1>2. TypeOK /\ ProjectionAgrees /\ [Next]_vars => ProjectionAgrees'
  <2> SUFFICES ASSUME TypeOK, ProjectionAgrees, [Next]_vars, ~torn'
               PROVE  proj' = row'.cite \/ Early'
    BY DEF ProjectionAgrees, Early
  <2>1. ASSUME UNCHANGED <<proj, torn>>, row'.cite = row.cite
        PROVE  proj' = row'.cite \/ Early'
    BY <2>1 DEF ProjectionAgrees, Early, NewRow
  <2>2. ASSUME NEW e \in Edits, UpdateCitation(e) PROVE proj' = row'.cite
    BY <2>2, UpdateFacts
  <2>3. ASSUME NEW p \in Procs, WriteBlob(p) PROVE UNCHANGED <<proj, torn>> /\ row'.cite = row.cite
    <3>1. proj' = proj /\ torn' = (torn \/ row.cite # snap[p].cite) /\ row'.cite = snap[p].cite
      BY <2>3 DEF WriteBlob, TypeOK, Row
    <3>2. ~torn /\ row.cite = snap[p].cite
      BY <3>1
    <3>3. torn = FALSE /\ torn' = FALSE
      BY <3>2 DEF TypeOK
    <3> QED
      BY <3>1, <3>2, <3>3
  <2>4. CASE DeferredProjection
    <3>1. row' = row
      BY <2>4 DEF DeferredProjection
    <3>2. CASE UNCHANGED <<proj, torn>>
      BY <2>1, <3>1, <3>2
    <3>3. CASE proj' = NewRow.cite /\ torn' = (torn \/ row.cite # NewRow.cite)
      <4>1. row.cite = NewRow.cite
        BY <3>3
      <4> QED
        BY <3>1, <3>3, <4>1
    <3> QED
      BY <2>4, <3>2, <3>3 DEF DeferredProjection
  <2>5. ASSUME NEW e \in Edits, VersionInsert(e) PROVE proj' = row'.cite \/ Early'
    BY <2>5, InsertProjects
  <2>6. ASSUME NEW e \in Edits,
               \/ Start(e) \/ FindBaseline(e) \/ FindNoRow(e) \/ ReadForRow(e)
               \/ VersionLock(e) \/ Answer(e) \/ Fail(e)
        PROVE  UNCHANGED <<proj, torn, row>>
    BY <2>6 DEF Start, FindBaseline, FindNoRow, ReadForRow, VersionLock, Answer, Fail, data, ghosts
  <2>7. ASSUME NEW p \in Procs, ReadRow(p) PROVE UNCHANGED <<proj, torn, row>>
    BY <2>7 DEF ReadRow, data, ghosts
  <2>8. CASE UNCHANGED vars
    BY <2>1, <2>8 DEF vars
  <2> QED
    BY <2>1, <2>2, <2>3, <2>4, <2>5, <2>6, <2>7, <2>8 DEF Next, EditStep, RowStep
<1> QED
  BY <1>1, <1>2, Safe, PTL DEF Spec

-----------------------------------------------------------------------------
\* The history keeps answered edits.

RecordedAt(e) ==
  kind[e] \in Marking =>
    /\ pc[e] \in {"u2r", "u2w", "vafter"} => e \in got[e]
    /\ pc[e] \in {"er", "ew", "tail", "done"} => InHistory(e)

LEMMA HistoryStays ==
  ASSUME TypeOK, [Next]_vars, NEW e \in Edits, InHistory(e)
  PROVE  InHistory(e)'
<1>1. target' = target /\ target[e] \in Cites
  BY OriginalsStay DEF TypeOK
<1>2. PICK i \in DOMAIN versions[target[e]] : e \in versions[target[e]][i].fields
  BY DEF InHistory
<1>3. CASE versions' = versions
  BY <1>1, <1>2, <1>3 DEF InHistory
<1>4. ASSUME NEW f \in Edits, VersionInsert(f) PROVE InHistory(e)'
  BY <1>1, <1>2, <1>4, Grows DEF InHistory
<1> QED
  BY <1>3, <1>4
     DEF Next, EditStep, RowStep, Start, FindBaseline, FindNoRow, ReadForRow,
         VersionLock, UpdateCitation, Answer,
         Fail, ReadRow, WriteBlob, DeferredProjection, data, vars

LEMMA RecordedStep ==
  ASSUME TypeOK, Recorded, [Next]_vars
  PROVE  Recorded'
<1> SUFFICES ASSUME NEW e \in Edits, kind'[e] \in Marking PROVE RecordedAt(e)'
  BY DEF Recorded, RecordedAt
<1>1. kind' = kind /\ target' = target /\ target[e] \in Cites /\ kind[e] \in Marking
  BY OriginalsStay DEF TypeOK
<1>2. RecordedAt(e)
  BY DEF Recorded, RecordedAt
<1>3. CASE pc'[e] = pc[e] /\ got'[e] = got[e]
  BY <1>1, <1>2, <1>3, HistoryStays DEF RecordedAt
<1>4. CASE VersionInsert(e)
  <2>1. pc[e] \in Versioning /\ pc'[e] = AfterVersion(e)
    BY <1>4 DEF VersionInsert, TypeOK, Procs
  <2>2. pc'[e] \in {"vsnap", "u1r"}
        \/ (pc'[e] \in {"er", "tail"} /\ e \in VersionOf(e).fields)
    <3>1. CASE pc[e] = "vbase"
      BY <2>1, <3>1 DEF AfterVersion
    <3>2. CASE pc[e] = "vafter"
      BY <1>1, <1>2, <2>1, <3>2 DEF AfterVersion, VersionOf, RecordedAt
    <3>3. CASE pc[e] = "vsnap" /\ ~(IsOverlay(e) /\ OverlayFields(e) = seen[e])
      BY <2>1, <3>3 DEF AfterVersion
    <3>4. CASE pc[e] = "vsnap" /\ IsOverlay(e) /\ OverlayFields(e) = seen[e]
      <4>1. e \in OverlayFields(e)
        BY <1>1, <3>4 DEF Marking, IsOverlay, OverlayFields, Own
      <4> QED
        BY <2>1, <3>4, <4>1 DEF AfterVersion, VersionOf
    <3> QED
      BY <2>1, <3>1, <3>2, <3>3, <3>4 DEF Versioning
  <2>3. CASE e \in VersionOf(e).fields
    <3>1. VersionOf(e) \in Version
      BY <2>1, VersionType
    <3>2. /\ versions[target[e]] \in Seq(Version)
          /\ versions'[target[e]] = Append(versions[target[e]], VersionOf(e))
      BY <1>1, <1>4, InsertFacts
    <3>3. InHistory(e)'
      <4> DEFINE k == Len(versions[target[e]]) + 1
      <4>1. k \in DOMAIN versions'[target[e]] /\ versions'[target[e]][k] = VersionOf(e)
        BY <3>1, <3>2
      <4> QED
        BY <1>1, <2>3, <4>1 DEF InHistory
    <3>4. pc'[e] \notin {"u2r", "u2w", "vafter"}
      BY <2>2
    <3> QED
      BY <3>3, <3>4 DEF RecordedAt
  <2> QED
    BY <2>2, <2>3 DEF RecordedAt
<1>5. CASE UpdateCitation(e)
  <2>1. /\ pc[e] \in {"u1w", "u2w"} /\ pc'[e] \in {"u2r", "vafter"}
        /\ got'[e] = Updated(e, snap[e].cite[target[e]])
    <3>1. /\ got' = [got EXCEPT ![e] = NewCites(e)[target[e]]]
          /\ NewCites(e)[target[e]] = Updated(e, snap[e].cite[target[e]])
      BY <1>5, UpdateFacts
    <3> QED
      BY <1>5, <3>1 DEF UpdateCitation, TypeOK, Procs
  <2>2. e \in Updated(e, snap[e].cite[target[e]])
    <3>1. CASE pc[e] = "u2w"
      BY <1>1, <1>2, <3>1 DEF Updated, RecordedAt
    <3>2. CASE pc[e] = "u1w" /\ kind[e] = "overlay"
      BY <3>2 DEF Updated, IsOverlay, OverlayFields, Own
    <3>3. CASE pc[e] = "u1w" /\ kind[e] = "approve"
      BY <3>3 DEF Updated, IsOverlay
    <3> QED
      BY <1>1, <2>1, <3>1, <3>2, <3>3 DEF Marking
  <2> QED
    BY <2>1, <2>2 DEF RecordedAt
<1>6. CASE ReadRow(e) \/ WriteBlob(e) \/ Answer(e)
  <2>1. \/ pc[e] \in {"u1r", "er", "ew", "tail"} \/ (pc[e] = "u2r" /\ pc'[e] = "u2w" /\ got' = got)
    BY <1>6, RequestAssumption DEF ReadRow, WriteBlob, Answer, TypeOK, Procs
  <2>2. /\ pc[e] = "u1r" => pc'[e] = "u1w"
        /\ pc[e] \in {"er", "ew", "tail"} => pc'[e] \in {"ew", "tail", "done"}
    BY <1>6, RequestAssumption DEF ReadRow, WriteBlob, Answer, TypeOK, Procs
  <2>3. CASE pc[e] \in {"er", "ew", "tail"}
    BY <1>1, <1>2, <2>2, <2>3, HistoryStays DEF RecordedAt
  <2>4. CASE pc[e] = "u2r" /\ pc'[e] = "u2w" /\ got' = got
    BY <1>1, <1>2, <2>4 DEF RecordedAt
  <2> QED
    BY <2>1, <2>2, <2>3, <2>4 DEF RecordedAt
<1>7. CASE Start(e) \/ FindBaseline(e) \/ Fail(e)
  <2>1. pc'[e] \in {"base", "vsnap", "vbase", "failed"}
    BY <1>7 DEF Start, FindBaseline, Fail, TypeOK, Procs
  <2> QED
    BY <2>1 DEF RecordedAt
<1>8. ASSUME NEW p \in Procs, p # e,
             \/ p \in Edits /\ (EditStep(p) \/ Fail(p))
             \/ RowStep(p)
      PROVE  pc'[e] = pc[e] /\ got'[e] = got[e]
  <2>1. /\ pc \in [Procs -> Steps] /\ got \in [Edits -> Fields] /\ e \in Procs
    BY DEF TypeOK, Procs
  <2>2. CASE p \in Edits /\ (EditStep(p) \/ Fail(p))
    BY <1>8, <2>1, <2>2 DEF EditStep, Start, FindBaseline, FindNoRow, ReadForRow, VersionLock,
       VersionInsert,
       UpdateCitation, Answer, Fail, Forget
  <2>3. CASE RowStep(p)
    BY <1>8, <2>1, <2>3 DEF RowStep, ReadRow, WriteBlob
  <2> QED
    BY <1>8, <2>2, <2>3
<1>9. CASE FindNoRow(e) \/ ReadForRow(e) \/ VersionLock(e) \/ DeferredProjection \/ UNCHANGED vars
  BY <1>3, <1>9 DEF FindNoRow, ReadForRow, VersionLock, DeferredProjection, vars
<1> QED
  BY <1>3, <1>4, <1>5, <1>6, <1>7, <1>8, <1>9 DEF Next, EditStep, RowStep, Procs

\* An edit that was answered can be found in the version history with the
\* fields it produced (saveCitationVersionSnapshot, saveVersion).
THEOREM HistoryKept == Spec => []HistoryKeeps
<1>1. Init => Recorded
  BY DEF Init, Recorded, Procs
<1>2. TypeOK /\ Recorded /\ [Next]_vars => Recorded'
  BY RecordedStep
<1>3. Recorded => HistoryKeeps
  BY DEF Recorded, HistoryKeeps, Marking, InHistory
<1> QED
  BY <1>1, <1>2, <1>3, Safe, PTL DEF Spec
-----------------------------------------------------------------------------
\* Edits applied one after the other.

TurnState == [fields : Fields, origin : Fields \cup {None}]

\* The operators After and InTurn with the kinds of the edits as an argument:
\* lemmas about constants apply to a state and to the next one.
KindAfter(ks, s, e) ==
    CASE ks[e] \in {"overlay", "restore"} ->
            LET origin == IF s.origin = None THEN s.fields ELSE s.origin
            IN [fields |-> origin \cup (IF ks[e] = "restore" THEN {} ELSE {e}), origin |-> origin]
      [] ks[e] = "approve" -> [s EXCEPT !.fields = @ \cup {e}]
      [] ks[e] = "reprocess" -> [s EXCEPT !.fields = {f \in @ : ks[f] = "approve"}]
Turn(ks, edits) == FoldLeft(LAMBDA s, e : KindAfter(ks, s, e), Untouched, edits)

LEMMA AfterType ==
  ASSUME NEW ks \in [Edits -> Kinds], NEW s \in TurnState, NEW e \in Edits
  PROVE  KindAfter(ks, s, e) \in TurnState
<1>1. s.fields \in Fields /\ s.origin \in Fields \cup {None} /\ ks[e] \in Kinds
  BY DEF TurnState
<1>2. CASE ks[e] \in {"overlay", "restore"}
  <2> DEFINE origin == IF s.origin = None THEN s.fields ELSE s.origin
  <2>1. origin \in Fields /\ origin \cup (IF ks[e] = "restore" THEN {} ELSE {e}) \in Fields
    BY <1>1 DEF Fields
  <2>2. KindAfter(ks, s, e)
          = [fields |-> origin \cup (IF ks[e] = "restore" THEN {} ELSE {e}), origin |-> origin]
    BY <1>2 DEF KindAfter
  <2> HIDE DEF origin
  <2>3. QED BY <2>1, <2>2 DEF TurnState
<1>3. CASE ks[e] = "approve"
  <2>1. KindAfter(ks, s, e) = [s EXCEPT !.fields = @ \cup {e}] /\ s.fields \cup {e} \in Fields
    BY <1>1, <1>3 DEF KindAfter, Fields
  <2>2. QED BY <2>1 DEF TurnState
<1>4. CASE ks[e] = "reprocess"
  <2>1. KindAfter(ks, s, e) = [s EXCEPT !.fields = {f \in @ : ks[f] = "approve"}]
    BY <1>4 DEF KindAfter
  <2>2. {f \in s.fields : ks[f] = "approve"} \in Fields
    BY <1>1 DEF Fields
  <2>3. QED BY <2>1, <2>2 DEF TurnState
<1>5. QED BY <1>1, <1>2, <1>3, <1>4 DEF Kinds

\* f[k] is the state after the first k edits.
Traces(f, ks, edits) ==
  /\ f[0] = Untouched
  /\ \A k \in 1..Len(edits) : f[k] = KindAfter(ks, f[k - 1], edits[k])

LEMMA TracesType ==
  ASSUME NEW ks \in [Edits -> Kinds], NEW edits \in Seq(Edits), NEW f, Traces(f, ks, edits)
  PROVE  \A k \in 0..Len(edits) : f[k] \in TurnState
<1> DEFINE T == {k \in 0..Len(edits) : f[k] \in TurnState}
<1>0. Len(edits) \in Nat /\ \A k \in 1..Len(edits) : edits[k] \in Edits
  OBVIOUS
<1>1. 0 \in T
  BY <1>0 DEF Traces, Untouched, TurnState, Fields
<1>2. ASSUME NEW k \in 0..Len(edits) - 1, k \in T PROVE k + 1 \in T
  <2>1. k + 1 \in 1..Len(edits) /\ k + 1 - 1 = k /\ k + 1 \in 0..Len(edits)
    BY <1>0
  <2>2. f[k + 1] = KindAfter(ks, f[k], edits[k + 1])
    BY <2>1 DEF Traces
  <2>3. f[k] \in TurnState
    BY <1>2
  <2>4. f[k + 1] \in TurnState
    BY <1>0, <2>1, <2>2, <2>3, AfterType
  <2>5. QED BY <2>1, <2>4
<1> HIDE DEF T
<1>3. \A k \in 0..Len(edits) : k \in T
  BY <1>0, <1>1, <1>2, UpTo
<1>4. QED BY <1>3 DEF T

\* A state depends on the edits before it only.
LEMMA SameTrace ==
  ASSUME NEW ks \in [Edits -> Kinds], NEW edits \in Seq(Edits), NEW others \in Seq(Edits),
         Len(edits) <= Len(others), \A k \in 1..Len(edits) : others[k] = edits[k],
         NEW f, Traces(f, ks, edits), NEW g, Traces(g, ks, others)
  PROVE  f[Len(edits)] = g[Len(edits)]
<1> DEFINE T == {k \in 0..Len(edits) : f[k] = g[k]}
<1>0. Len(edits) \in Nat /\ Len(others) \in Nat
  OBVIOUS
<1>1. 0 \in T
  BY <1>0 DEF Traces
<1>2. ASSUME NEW k \in 0..Len(edits) - 1, k \in T PROVE k + 1 \in T
  <2>1. k + 1 \in 1..Len(edits) /\ k + 1 - 1 = k /\ k + 1 \in 0..Len(edits) /\ k + 1 \in 1..Len(others)
    BY <1>0
  <2>2. f[k + 1] = KindAfter(ks, f[k], edits[k + 1])
    BY <2>1 DEF Traces
  <2>3. g[k + 1] = KindAfter(ks, g[k], others[k + 1])
    BY <2>1 DEF Traces
  <2>4. f[k] = g[k] /\ others[k + 1] = edits[k + 1]
    BY <1>2, <2>1
  <2>5. QED BY <2>1, <2>2, <2>3, <2>4
<1> HIDE DEF T
<1>3. \A k \in 0..Len(edits) : k \in T
  BY <1>0, <1>1, <1>2, UpTo
<1>4. Len(edits) \in T
  BY <1>0, <1>3
<1>5. QED BY <1>4 DEF T

\* The fold is the end of such a trace.
LEMMA TurnTrace ==
  ASSUME NEW ks \in [Edits -> Kinds], NEW edits \in Seq(Edits)
  PROVE  \E f : Traces(f, ks, edits) /\ Turn(ks, edits) = f[Len(edits)]
<1> DEFINE n == Len(edits)
<1>0. n \in Nat /\ DOMAIN edits = 1..n /\ \A k \in 1..n : edits[k] \in Edits
  OBVIOUS
<1> HIDE DEF n
<1> DEFINE G == [i \in 1..n |-> [s \in TurnState |-> KindAfter(ks, s, edits[i])]]
<1>1. \E it \in [SUBSET (1..n) -> TurnState] : Iterates(it, n, Untouched, G)
  <2>1. Untouched \in TurnState
    BY DEF Untouched, TurnState, Fields
  <2>2. G \in [1..n -> [TurnState -> TurnState]]
    BY <1>0, AfterType
  <2> HIDE DEF G
  <2>3. QED BY <1>0, <2>1, <2>2, FoldIter
<1>2. \E it : it = [S \in SUBSET (1..n) |-> IF S = {} THEN Untouched
                                ELSE KindAfter(ks, it[S \ {Max(S)}], edits[Max(S)])]
  <2>1. PICK it \in [SUBSET (1..n) -> TurnState] : \A S \in SUBSET (1..n) :
             it[S] = IF S = {} THEN Untouched ELSE G[Max(S)][it[S \ {Max(S)}]]
    BY <1>1 DEF Iterates
  <2>2. ASSUME NEW S \in SUBSET (1..n), S # {}
        PROVE  it[S] = KindAfter(ks, it[S \ {Max(S)}], edits[Max(S)])
    <3>1. Max(S) \in 1..n
      BY <1>0, <2>2, MaxIs
    <3>2. S \ {Max(S)} \in SUBSET (1..n)
      OBVIOUS
    <3>3. it[S \ {Max(S)}] \in TurnState
      BY <2>1, <3>2
    <3>4. G[Max(S)][it[S \ {Max(S)}]] = KindAfter(ks, it[S \ {Max(S)}], edits[Max(S)])
      BY <3>1, <3>3
    <3>5. QED BY <2>1, <2>2, <3>4
  <2>3. it[{}] = Untouched
    BY <2>1
  <2>4. it = [S \in SUBSET (1..n) |-> IF S = {} THEN Untouched
                                ELSE KindAfter(ks, it[S \ {Max(S)}], edits[Max(S)])]
    BY <2>1, <2>2, <2>3
  <2>5. QED BY <2>4
<1> DEFINE it == CHOOSE it : it = [S \in SUBSET (1..n) |-> IF S = {} THEN Untouched
                                ELSE KindAfter(ks, it[S \ {Max(S)}], edits[Max(S)])]
<1>3. it = [S \in SUBSET (1..n) |-> IF S = {} THEN Untouched
                                ELSE KindAfter(ks, it[S \ {Max(S)}], edits[Max(S)])]
  BY <1>2, Zenon
<1>4. Turn(ks, edits) = it[1..n]
  BY <1>0, Zenon DEF Turn, FoldLeft, MapThenFoldSet
<1> HIDE DEF it
<1> DEFINE f == [k \in 0..n |-> it[1..k]]
<1>5. f[0] = Untouched
  <2>1. 1..0 = {} /\ 1..0 \in SUBSET (1..n) /\ 0 \in 0..n
    BY <1>0
  <2>2. it[1..0] = Untouched
    BY <1>3, <2>1
  <2>3. QED BY <2>1, <2>2
<1>6. ASSUME NEW k \in 1..n PROVE f[k] = KindAfter(ks, f[k - 1], edits[k])
  <2>1. 1..k \in SUBSET (1..n) /\ k \in 1..k /\ k \in Nat /\ 1..k \in SUBSET (1..k)
    BY <1>0
  <2>2. Max(1..k) \in 1..k /\ k <= Max(1..k)
    BY <2>1, MaxIs
  <2>3. Max(1..k) = k
    BY <2>1, <2>2
  <2>4. (1..k) \ {k} = 1..k - 1
    BY <2>1
  <2>5. it[1..k] = KindAfter(ks, it[1..k - 1], edits[k])
    BY <1>3, <2>1, <2>3, <2>4
  <2>6. k \in 0..n /\ k - 1 \in 0..n
    BY <1>0
  <2>7. QED BY <2>5, <2>6
<1>7. f[n] = it[1..n]
  BY <1>0
<1> HIDE DEF f
<1>8. Traces(f, ks, edits)
  BY <1>5, <1>6 DEF Traces, n
<1>9. QED BY <1>4, <1>7, <1>8 DEF n

LEMMA TurnEmpty ==
  ASSUME NEW ks \in [Edits -> Kinds]
  PROVE  Turn(ks, <<>>) = Untouched
<1>1. <<>> \in Seq(Edits) /\ Len(<<>>) = 0
  OBVIOUS
<1>2. QED BY <1>1, TurnTrace DEF Traces

LEMMA TurnType ==
  ASSUME NEW ks \in [Edits -> Kinds], NEW edits \in Seq(Edits)
  PROVE  Turn(ks, edits) \in TurnState
<1>1. Len(edits) \in 0..Len(edits)
  OBVIOUS
<1>2. QED BY <1>1, TurnTrace, TracesType

LEMMA TurnAppend ==
  ASSUME NEW ks \in [Edits -> Kinds], NEW edits \in Seq(Edits), NEW e \in Edits
  PROVE  Turn(ks, Append(edits, e)) = KindAfter(ks, Turn(ks, edits), e)
<1> DEFINE more == Append(edits, e)
<1>1. /\ more \in Seq(Edits) /\ Len(edits) \in Nat /\ Len(more) = Len(edits) + 1
      /\ more[Len(edits) + 1] = e /\ \A k \in 1..Len(edits) : more[k] = edits[k]
  OBVIOUS
<1> HIDE DEF more
<1>2. PICK f : Traces(f, ks, edits) /\ Turn(ks, edits) = f[Len(edits)]
  BY TurnTrace
<1>3. PICK g : Traces(g, ks, more) /\ Turn(ks, more) = g[Len(more)]
  BY <1>1, TurnTrace
<1>4. f[Len(edits)] = g[Len(edits)]
  BY <1>1, <1>2, <1>3, SameTrace
<1>5. Len(edits) + 1 \in 1..Len(more) /\ Len(edits) + 1 - 1 = Len(edits)
  BY <1>1
<1>6. g[Len(edits) + 1] = KindAfter(ks, g[Len(edits)], e)
  BY <1>1, <1>3, <1>5 DEF Traces
<1>7. QED BY <1>1, <1>2, <1>3, <1>4, <1>6 DEF more

\* The operators of the module are these with the kinds of the state.
LEMMA TurnIs ==
  /\ \A s, e : After(s, e) = KindAfter(kind, s, e)
  /\ \A edits : InTurn(edits) = Turn(kind, edits).fields
<1>1. \A s, e : After(s, e) = KindAfter(kind, s, e)
  BY Zenon DEF After, KindAfter, IsOverlay, Own, Confirmed
<1>2. \A edits : FoldLeft(After, Untouched, edits) = Turn(kind, edits)
  BY Zenon DEF After, KindAfter, IsOverlay, Own, Confirmed, Turn, FoldLeft, MapThenFoldSet
<1>3. QED BY <1>1, <1>2 DEF InTurn

-----------------------------------------------------------------------------
\* The citations of the row are those edits.

\* The citation has the original that the edits so far have left, if any.
Holds(c, s) ==
  /\ s.origin = None => Originals(c) = {}
  /\ s.origin # None => Originals(c) # {} /\ Baseline(c) = s.origin

\* The state after the edits of c that were answered.
So(c) == Turn(kind, history[c])

\* Where an edit under way stands between the state before and after it.
Between(e, s, t) ==
  LET c == target[e] IN
  /\ pc[e] \in {"base", "vbase", "vsnap", "u1r", "u1w"} => row.cite[c] = s.fields /\ seen[e] = s.fields
  /\ pc[e] \in {"base", "vbase"} => IsOverlay(e) /\ Holds(c, s)
  /\ pc[e] = "vbase" => base[e] = seen[e] /\ s.origin = None
  /\ pc[e] \notin {"base", "vbase"} => Holds(c, t)
  /\ pc[e] \in {"vsnap", "u1r", "u1w"} /\ IsOverlay(e) => base[e] = t.origin
  /\ pc[e] \in {"u2r", "u2w", "vafter", "er", "ew", "tail"} => row.cite[c] = t.fields
  /\ pc[e] \in {"u2r", "u2w"} => got[e] = t.fields

\* Nothing was put back, no edits of c met and none failed.
Steady(c) == ~lost /\ c \notin met /\ \A e \in Edits : target[e] = c => pc[e] # "failed"

ComposedAt(c) ==
  /\ \A e, f \in Busy(c) : e = f
  /\ Busy(c) = {} => row.cite[c] = So(c).fields /\ Holds(c, So(c))
  /\ \A e \in Busy(c) : Between(e, So(c), KindAfter(kind, So(c), e))

Composed == \A c \in Cites : Steady(c) => ComposedAt(c)

\* Steps that leave a citation alone: everything its part of the invariant is about.
LeftAlone(c) ==
  /\ row'.cite[c] = row.cite[c] /\ versions'[c] = versions[c] /\ history'[c] = history[c]
  /\ \A e \in Edits : target[e] = c =>
       pc'[e] = pc[e] /\ seen'[e] = seen[e] /\ base'[e] = base[e] /\ got'[e] = got[e]

LEMMA ComposedInit == Init => Composed
<1> SUFFICES ASSUME Init, NEW c \in Cites PROVE ComposedAt(c)
  BY DEF Composed
<1>1. Busy(c) = {}
  BY DEF Init, Busy, Ended, Procs
<1>2. So(c) = Untouched
  BY TurnEmpty DEF Init, So
<1>3. row.cite[c] = {} /\ Originals(c) = {}
  BY DEF Init, NewRow, Originals
<1>4. QED BY <1>1, <1>2, <1>3 DEF ComposedAt, Untouched, Holds

LEMMA AloneStays ==
  ASSUME TypeOK, NEW c \in Cites, ComposedAt(c), kind' = kind, target' = target, LeftAlone(c)
  PROVE  ComposedAt(c)'
<1>1. Busy(c)' = Busy(c)
  BY DEF Busy, LeftAlone
<1>2. So(c)' = So(c)
  BY DEF So, LeftAlone
<1>3. Originals(c)' = Originals(c) /\ Baseline(c)' = Baseline(c)
  BY DEF Originals, Baseline, LeftAlone
<1>4. \A s : Holds(c, s)' <=> Holds(c, s)
  BY <1>3 DEF Holds
<1>5. ASSUME NEW e \in Busy(c)
      PROVE  Between(e, So(c), KindAfter(kind, So(c), e))'
  <2>1. e \in Edits /\ target[e] = c
    BY DEF Busy
  <2>2. KindAfter(kind, So(c), e)' = KindAfter(kind, So(c), e)
    BY <1>2
  <2>3. IsOverlay(e)' <=> IsOverlay(e)
    BY DEF IsOverlay
  <2>4. Between(e, So(c), KindAfter(kind, So(c), e))
    BY DEF ComposedAt
  <2>5. QED BY <1>2, <1>3, <2>1, <2>2, <2>3, <2>4 DEF Between, LeftAlone, Holds
<1>6. QED BY <1>1, <1>2, <1>3, <1>5 DEF ComposedAt, LeftAlone, Holds

\* What an edit makes of the state before it.
LEMMA AfterFacts ==
  ASSUME TypeOK, NEW s \in TurnState, NEW e \in Edits, NEW t, t = KindAfter(kind, s, e)
  PROVE  /\ s.fields \in Fields /\ s.fields # None
         /\ IsOverlay(e) => /\ t.origin = (IF s.origin = None THEN s.fields ELSE s.origin)
                            /\ t.origin # None /\ t.fields = t.origin \cup Own(e)
         /\ ~IsOverlay(e) => t.origin = s.origin
         /\ kind[e] = "approve" => t.fields = s.fields \cup {e}
         /\ kind[e] = "reprocess" => t.fields = Confirmed(s.fields)
         /\ kind[e] \in Kinds
<1>1. kind[e] \in Kinds /\ s.fields \in Fields /\ s.fields # None
  BY RequestAssumption DEF TypeOK, TurnState, Fields
<1>2. CASE IsOverlay(e)
  <2>1. kind[e] \in {"overlay", "restore"} /\ kind[e] # "approve" /\ kind[e] # "reprocess"
    BY <1>2 DEF IsOverlay
  <2> DEFINE origin == IF s.origin = None THEN s.fields ELSE s.origin
  <2>2. t = [fields |-> origin \cup (IF kind[e] = "restore" THEN {} ELSE {e}), origin |-> origin]
    BY <2>1 DEF KindAfter
  <2>3. origin # None
    BY <1>1
  <2> HIDE DEF origin
  <2>4. t.origin = origin /\ t.fields = origin \cup Own(e)
    BY <2>2 DEF Own
  <2>5. QED BY <1>1, <1>2, <2>1, <2>3, <2>4 DEF origin
<1>3. CASE kind[e] = "approve"
  <2>1. t = [s EXCEPT !.fields = @ \cup {e}] /\ ~IsOverlay(e)
    BY <1>3 DEF KindAfter, IsOverlay
  <2>2. QED BY <1>1, <1>3, <2>1 DEF TurnState
<1>4. CASE kind[e] = "reprocess"
  <2>1. t = [s EXCEPT !.fields = {f \in @ : kind[f] = "approve"}] /\ ~IsOverlay(e)
    BY <1>4 DEF KindAfter, IsOverlay
  <2>2. QED BY <1>1, <1>4, <2>1 DEF TurnState, Confirmed
<1>5. QED BY <1>1, <1>2, <1>3, <1>4 DEF Kinds, IsOverlay

\* What ends a citation's claim to the property stays.
LEMMA SteadyBefore ==
  ASSUME TypeOK, [Next]_vars, NEW c \in Cites, Steady(c)'
  PROVE  Steady(c)
<1>1. target' = target
  BY OriginalsStay
<1>2. ~lost /\ c \notin met
  <2>1. ASSUME NEW e \in Edits, EditStep(e) \/ Fail(e) PROVE (lost => lost') /\ met \subseteq met'
    <3>1. CASE \/ Start(e) \/ FindBaseline(e) \/ FindNoRow(e) \/ ReadForRow(e)
               \/ VersionLock(e) \/ VersionInsert(e)
      BY <3>1 DEF Start, FindBaseline, FindNoRow, ReadForRow, VersionLock, VersionInsert, ghosts
    <3>2. CASE UpdateCitation(e) \/ Answer(e) \/ Fail(e)
      <4>1. met' = met
        BY <3>2 DEF UpdateCitation, Answer, Fail, ghosts
      <4>2. lost' = lost \/ lost' = (lost \/ row.cite # snap[e].cite)
        BY <3>2, Zenon DEF UpdateCitation, Answer, Fail, ghosts
      <4>3. lost => lost'
        BY <4>2, Zenon
      <4>4. QED BY <4>1, <4>3
    <3>3. QED BY <2>1, <3>1, <3>2 DEF EditStep
  <2>2. ASSUME NEW p \in Procs, RowStep(p) PROVE (lost => lost') /\ met \subseteq met'
    <3>1. met' = met
      BY <2>2 DEF RowStep, ReadRow, WriteBlob, ghosts
    <3>2. lost' = lost \/ lost' = (lost \/ row.cite # snap[p].cite)
      BY <2>2, Zenon DEF RowStep, ReadRow, WriteBlob, ghosts
    <3>3. lost => lost'
      BY <3>2, Zenon
    <3>4. QED BY <3>1, <3>3
  <2>3. (lost => lost') /\ met \subseteq met'
    BY <2>1, <2>2 DEF Next, DeferredProjection, vars
  <2>4. QED BY <2>3 DEF Steady
<1>3. ASSUME NEW e \in Edits, pc[e] = "failed" PROVE pc'[e] = "failed"
  <2>1. pc \in [Procs -> Steps] /\ e \in Procs /\ e \notin Notes
    BY RequestAssumption DEF TypeOK, Procs
  <2>2. ASSUME NEW f \in Edits, EditStep(f) \/ Fail(f) PROVE pc'[e] = "failed"
    BY <1>3, <2>1, <2>2 DEF EditStep, Start, FindBaseline, FindNoRow, ReadForRow, VersionLock,
       VersionInsert,
       UpdateCitation, Answer, Fail, Versioning
  <2>3. ASSUME NEW p \in Procs, RowStep(p) PROVE pc'[e] = "failed"
    BY <1>3, <2>1, <2>3 DEF RowStep, ReadRow, WriteBlob
  <2>4. QED BY <1>3, <2>2, <2>3 DEF Next, DeferredProjection, vars
<1>4. QED BY <1>1, <1>2, <1>3 DEF Steady

\* An edit under way goes on, and its citation with it.
LEMMA GoesOn ==
  ASSUME TypeOK, NEW e \in Edits, NEW c \in Cites, c = target[e],
         UNCHANGED <<kind, target, history>>, Busy(c) \subseteq {e},
         pc' = [pc EXCEPT ![e] = pc'[e]], pc'[e] \notin Ended,
         NEW s, s = So(c), NEW t, t = KindAfter(kind, s, e), Between(e, s, t)'
  PROVE  ComposedAt(c)'
<1>1. So(c)' = s
  BY DEF So
<1>2. KindAfter(kind, So(c), e)' = t
  BY <1>1
<1>3. e \in Busy(c)'
  BY DEF Busy
<1>4. ASSUME NEW f \in Busy(c)' PROVE f = e
  <2>1. f \in Edits /\ pc'[f] \notin Ended /\ target[f] = c
    BY DEF Busy
  <2>2. CASE f # e
    <3>1. pc'[f] = pc[f]
      BY <2>1, <2>2 DEF TypeOK, Procs
    <3>2. QED BY <2>1, <2>2, <3>1 DEF Busy
  <2>3. QED BY <2>2
<1>5. Between(e, So(c), KindAfter(kind, So(c), e))'
  BY <1>1, <1>2 DEF Between, Holds
<1>6. QED BY <1>1, <1>2, <1>3, <1>4, <1>5 DEF ComposedAt

LEMMA StartComposed ==
  ASSUME TypeOK, NEW e \in Edits, Start(e), NEW c \in Cites, c = target[e],
         Steady(c)', ComposedAt(c)
  PROVE  ComposedAt(c)'
<1>1. PICK s, t : s = So(c) /\ t = KindAfter(kind, s, e)
  OBVIOUS
<1>2. s \in TurnState
  BY <1>1, TurnType DEF So, TypeOK
<1>3. Busy(c) = {}
  BY DEF Start, Steady
<1>4. row.cite[c] = s.fields /\ Holds(c, s)
  BY <1>1, <1>3 DEF ComposedAt
<1>5. /\ pc' = [pc EXCEPT ![e] = pc'[e]] /\ pc'[e] = IF IsOverlay(e) THEN "base" ELSE "vsnap"
      /\ seen'[e] = row.cite[c] /\ row' = row /\ versions' = versions
      /\ UNCHANGED <<kind, target, history>>
  BY DEF Start, data, TypeOK, Procs
<1>6. Holds(c, s)' /\ row'.cite[c] = s.fields /\ seen'[e] = s.fields /\ target'[e] = c
  BY <1>4, <1>5 DEF Holds, Baseline, Originals
<1>7. CASE IsOverlay(e)
  <2>1. Between(e, s, t)'
    BY <1>5, <1>6, <1>7 DEF Between, IsOverlay
  <2>2. QED BY <1>1, <1>3, <1>5, <1>7, <2>1, GoesOn DEF Ended
<1>8. CASE ~IsOverlay(e)
  <2>1. Holds(c, t)'
    BY <1>1, <1>2, <1>6, <1>8, AfterFacts DEF Holds
  <2>2. Between(e, s, t)'
    BY <1>5, <1>6, <1>8, <2>1 DEF Between, IsOverlay
  <2>3. QED BY <1>1, <1>3, <1>5, <1>8, <2>2, GoesOn DEF Ended
<1>9. QED BY <1>7, <1>8

\* The state before and after an edit under way.
LEMMA UnderWay ==
  ASSUME TypeOK, NEW e \in Edits, pc[e] \notin Ended, NEW c \in Cites, c = target[e], ComposedAt(c)
  PROVE  /\ Busy(c) = {e} /\ So(c) \in TurnState
         /\ Between(e, So(c), KindAfter(kind, So(c), e))
<1>1. e \in Busy(c)
  BY DEF Busy
<1>2. So(c) \in TurnState
  BY TurnType DEF So, TypeOK
<1>3. QED BY <1>1, <1>2 DEF ComposedAt

LEMMA BaselineComposed ==
  ASSUME TypeOK, NEW e \in Edits, FindBaseline(e), NEW c \in Cites, c = target[e], ComposedAt(c)
  PROVE  ComposedAt(c)'
<1>1. PICK s, t : s = So(c) /\ t = KindAfter(kind, s, e)
  OBVIOUS
<1>2. pc[e] = "base"
  BY DEF FindBaseline
<1>3. Busy(c) = {e} /\ s \in TurnState /\ Between(e, s, t)
  BY <1>1, <1>2, UnderWay DEF Ended
<1>4. row.cite[c] = s.fields /\ seen[e] = s.fields /\ IsOverlay(e) /\ Holds(c, s)
  BY <1>2, <1>3 DEF Between
<1>5. /\ pc' = [pc EXCEPT ![e] = pc'[e]]
      /\ seen' = seen /\ row' = row /\ versions' = versions
      /\ UNCHANGED <<kind, target, history>>
  BY DEF FindBaseline, data, ghosts, TypeOK, Procs
<1>6. Holds(c, s)' /\ row'.cite[c] = s.fields /\ seen'[e] = s.fields /\ target'[e] = c /\ IsOverlay(e)'
  BY <1>4, <1>5 DEF Holds, Baseline, Originals, IsOverlay
<1>7. t.origin = IF s.origin = None THEN s.fields ELSE s.origin
  BY <1>1, <1>3, <1>4, AfterFacts
<1>8. CASE Originals(c) # {}
  <2>1. pc'[e] = "vsnap" /\ base'[e] = Baseline(c)
    BY <1>8 DEF FindBaseline, TypeOK, Procs
  <2>2. s.origin # None /\ Baseline(c) = s.origin /\ t.origin = s.origin
    BY <1>4, <1>7, <1>8 DEF Holds
  <2>3. Holds(c, t)'
    BY <1>6, <2>2 DEF Holds
  <2>4. Between(e, s, t)'
    BY <1>6, <2>1, <2>2, <2>3 DEF Between
  <2>5. QED BY <1>1, <1>3, <1>5, <2>1, <2>4, GoesOn DEF Ended
<1>9. CASE Originals(c) = {}
  <2>1. pc'[e] = "vbase" /\ base'[e] = seen[e]
    BY <1>9 DEF FindBaseline, TypeOK, Procs
  <2>2. s.origin = None
    BY <1>4, <1>9 DEF Holds
  <2>3. Between(e, s, t)'
    BY <1>4, <1>6, <2>1, <2>2 DEF Between
  <2>4. QED BY <1>1, <1>3, <1>5, <2>1, <2>3, GoesOn DEF Ended
<1>10. QED BY <1>8, <1>9

LEMMA InsertComposed ==
  ASSUME TypeOK, VersionsNumbered, TypeOK', VersionsNumbered', [Next]_vars,
         NEW e \in Edits, VersionInsert(e), NEW c \in Cites, c = target[e], ComposedAt(c)
  PROVE  ComposedAt(c)'
<1>1. PICK s, t : s = So(c) /\ t = KindAfter(kind, s, e)
  OBVIOUS
<1>2. pc[e] \in Versioning /\ pc'[e] = AfterVersion(e)
  BY DEF VersionInsert, TypeOK, Procs
<1>3. Busy(c) = {e} /\ s \in TurnState /\ Between(e, s, t)
  BY <1>1, <1>2, UnderWay DEF Ended, Versioning
<1>4. /\ pc' = [pc EXCEPT ![e] = pc'[e]]
      /\ seen' = seen /\ base' = base /\ got' = got /\ row' = row
      /\ UNCHANGED <<kind, target, history>>
  BY <1>2 DEF VersionInsert, ghosts
<1>5. pc'[e] \in {"vsnap", "tail", "u1r", "er"}
  BY <1>2 DEF AfterVersion, Versioning
<1>6. /\ versions[c] \in Seq(Version) /\ VersionOf(e) \in Version
      /\ versions'[c] = Append(versions[c], VersionOf(e))
  BY <1>2, InsertFacts, VersionType
<1>7. SUFFICES Between(e, s, t)'
  BY <1>1, <1>3, <1>4, <1>5, GoesOn DEF Ended
<1>8. CASE pc[e] = "vbase"
  <2>1. /\ row.cite[c] = s.fields /\ seen[e] = s.fields /\ base[e] = seen[e]
        /\ s.origin = None /\ IsOverlay(e) /\ Originals(c) = {}
    BY <1>3, <1>8 DEF Between, Holds
  <2>2. t.origin = s.fields /\ t.origin # None
    BY <1>1, <1>3, <2>1, AfterFacts
  <2>3. VersionOf(e).source = "original" /\ VersionOf(e).fields = s.fields
    BY <1>8, <2>1 DEF VersionOf, Source
  <2> DEFINE n == Len(versions[c]) + 1
  <2>4. Originals(c)' = {n}
    <3>1. ASSUME NEW i \in DOMAIN versions[c] PROVE versions'[c][i] = versions[c][i]
      BY <1>6
    <3>2. versions'[c][n] = VersionOf(e) /\ DOMAIN versions'[c] = DOMAIN versions[c] \cup {n}
      BY <1>6
    <3>3. QED BY <2>1, <2>3, <3>1, <3>2 DEF Originals
  <2>5. versions'[c][n].fields = s.fields
    BY <1>6, <2>3
  <2>6. Baseline(c)' = s.fields
    <3>1. PICK i \in Originals(c)' : Baseline(c)' = versions'[c][i].fields
      <4>1. (CHOOSE i \in {n} : \A j \in {n} : versions'[c][i].num <= versions'[c][j].num) \in {n}
        <5>1. versions'[c][n].num \in Nat
          BY <1>6 DEF Version
        <5>2. versions'[c][n].num <= versions'[c][n].num
          BY <5>1
        <5>3. QED BY <5>2
      <4>2. QED BY <2>4, <4>1 DEF Baseline
    <3>2. QED BY <2>4, <2>5, <3>1
  <2>7. Holds(c, t)'
    BY <2>2, <2>4, <2>6 DEF Holds
  <2>8. pc'[e] = "vsnap"
    BY <1>2, <1>8 DEF AfterVersion
  <2>9. QED BY <1>4, <2>1, <2>2, <2>7, <2>8 DEF Between, IsOverlay
<1>9. CASE pc[e] # "vbase"
  <2>1. pc[e] \in {"vsnap", "vafter"} /\ Holds(c, t)
    BY <1>2, <1>3, <1>9 DEF Between, Versioning
  <2>2. VersionOf(e).source # "original"
    BY <2>1 DEF VersionOf, Source
  <2>3. Originals(c)' = Originals(c)
    <3>1. ASSUME NEW i \in DOMAIN versions[c] PROVE versions'[c][i] = versions[c][i]
      BY <1>6
    <3>2. versions'[c][Len(versions[c]) + 1] = VersionOf(e)
          /\ DOMAIN versions'[c] = DOMAIN versions[c] \cup {Len(versions[c]) + 1}
      BY <1>6
    <3>3. QED BY <2>2, <3>1, <3>2 DEF Originals
  <2>4. Holds(c, t)'
    BY <2>1, <2>3, SticksStep DEF Holds
  <2>5. CASE pc[e] = "vafter"
    <3>1. row.cite[c] = t.fields /\ pc'[e] \in {"er", "tail"}
      BY <1>2, <1>3, <2>5 DEF Between, AfterVersion
    <3>2. QED BY <1>4, <2>4, <3>1 DEF Between
  <2>6. CASE pc[e] = "vsnap"
    <3>1. row.cite[c] = s.fields /\ seen[e] = s.fields /\ (IsOverlay(e) => base[e] = t.origin)
      BY <1>3, <2>6 DEF Between
    <3>2. CASE IsOverlay(e) /\ OverlayFields(e) = seen[e]
      <4>1. pc'[e] = "tail"
        BY <1>2, <2>6, <3>2 DEF AfterVersion
      <4>2. t.fields = t.origin \cup Own(e)
        BY <1>1, <1>3, <3>2, AfterFacts
      <4>3. row.cite[c] = t.fields
        BY <3>1, <3>2, <4>2 DEF OverlayFields
      <4>4. QED BY <1>4, <2>4, <4>1, <4>3 DEF Between
    <3>3. CASE ~(IsOverlay(e) /\ OverlayFields(e) = seen[e])
      <4>1. pc'[e] = "u1r"
        BY <1>2, <2>6, <3>3 DEF AfterVersion
      <4>2. QED BY <1>4, <2>4, <3>1, <4>1 DEF Between, IsOverlay
    <3>4. QED BY <3>2, <3>3
  <2>7. QED BY <2>1, <2>5, <2>6
<1>10. QED BY <1>8, <1>9

LEMMA UpdateComposed ==
  ASSUME TypeOK, NEW e \in Edits, UpdateCitation(e), NEW c \in Cites, Steady(c)', Steady(c), ComposedAt(c)
  PROVE  ComposedAt(c)'
<1>1. row.cite = snap[e].cite
  <2>1. lost' = (lost \/ row.cite # snap[e].cite)
    BY DEF UpdateCitation
  <2>2. ~lost'
    BY DEF Steady
  <2>3. QED BY <2>1, <2>2, Zenon
<1>2. /\ row'.cite[target[e]] = Updated(e, row.cite[target[e]])
      /\ got' = [got EXCEPT ![e] = Updated(e, row.cite[target[e]])]
      /\ \A k \in Cites \ {target[e]} : row'.cite[k] = row.cite[k]
  BY <1>1, UpdateFacts
<1>3. /\ UNCHANGED <<versions, kind, target, seen, base, history>>
      /\ pc' = [pc EXCEPT ![e] = pc'[e]] /\ pc[e] \in {"u1w", "u2w"}
      /\ pc'[e] = IF pc[e] = "u1w" /\ kind[e] # "reprocess" THEN "u2r" ELSE "vafter"
  BY DEF UpdateCitation, TypeOK, Procs
<1>4. CASE target[e] # c
  <2>1. LeftAlone(c)
    BY <1>2, <1>3, <1>4 DEF LeftAlone, TypeOK, Procs
  <2>2. QED BY <1>3, <2>1, AloneStays
<1>5. CASE target[e] = c
  <2>1. PICK s, t : s = So(c) /\ t = KindAfter(kind, s, e)
    OBVIOUS
  <2>2. Busy(c) = {e} /\ s \in TurnState /\ Between(e, s, t)
    BY <1>3, <1>5, <2>1, UnderWay DEF Ended
  <2>3. Holds(c, t)
    BY <1>3, <1>5, <2>2 DEF Between
  <2>4. Holds(c, t)'
    BY <1>3, <2>3 DEF Holds, Baseline, Originals
  <2>5. kind[e] \in Kinds
    BY DEF TypeOK
  <2>6. Updated(e, row.cite[c]) = t.fields
    <3>1. CASE pc[e] = "u2w"
      BY <2>2, <3>1 DEF Updated, Between
    <3>2. CASE pc[e] = "u1w" /\ IsOverlay(e)
      <4>1. base[e] = t.origin
        BY <1>5, <2>2, <3>2 DEF Between
      <4>2. t.fields = t.origin \cup Own(e)
        BY <2>1, <2>2, <3>2, AfterFacts
      <4>3. Updated(e, row.cite[c]) = OverlayFields(e)
        BY <3>2 DEF Updated, IsOverlay
      <4>4. QED BY <4>1, <4>2, <4>3 DEF OverlayFields
    <3>3. CASE pc[e] = "u1w" /\ kind[e] = "approve"
      <4>1. row.cite[c] = s.fields
        BY <1>5, <2>2, <3>3 DEF Between
      <4>2. Updated(e, row.cite[c]) = row.cite[c] \cup {e}
        BY <3>3 DEF Updated, IsOverlay
      <4>3. QED BY <2>1, <2>2, <3>3, <4>1, <4>2, AfterFacts
    <3>4. CASE pc[e] = "u1w" /\ kind[e] = "reprocess"
      <4>1. seen[e] = s.fields
        BY <1>5, <2>2, <3>4 DEF Between
      <4>2. Updated(e, row.cite[c]) = Confirmed(seen[e])
        BY <3>4 DEF Updated, IsOverlay
      <4>3. QED BY <2>1, <2>2, <3>4, <4>1, <4>2, AfterFacts
    <3>5. QED BY <1>3, <2>5, <3>1, <3>2, <3>3, <3>4 DEF Kinds, IsOverlay
  <2>7. row'.cite[c] = t.fields /\ got'[e] = t.fields
    BY <1>2, <1>5, <2>6 DEF TypeOK
  <2>8. pc'[e] \in {"u2r", "vafter"}
    BY <1>3
  <2>9. Between(e, s, t)'
    BY <1>3, <1>5, <2>4, <2>7, <2>8 DEF Between
  <2>10. QED BY <1>3, <1>5, <2>1, <2>2, <2>8, <2>9, GoesOn DEF Ended
<1>6. QED BY <1>4, <1>5

\* The steps of a handler that leave the fields and the versions alone.
LEMMA PlainComposed ==
  ASSUME TypeOK, NEW e \in Edits, NEW c \in Cites, c = target[e], ComposedAt(c),
         row'.cite[c] = row.cite[c], UNCHANGED <<versions, kind, target, seen, base, got, history>>,
         pc' = [pc EXCEPT ![e] = pc'[e]],
         \/ pc[e] = "u1r" /\ pc'[e] = "u1w"
         \/ pc[e] = "u2r" /\ pc'[e] = "u2w"
         \/ pc[e] = "er" /\ pc'[e] = "ew"
         \/ pc[e] = "ew" /\ pc'[e] = "tail"
  PROVE  ComposedAt(c)'
<1>1. PICK s, t : s = So(c) /\ t = KindAfter(kind, s, e)
  OBVIOUS
<1>2. Busy(c) = {e} /\ Between(e, s, t)
  BY <1>1, UnderWay DEF Ended
<1>3. Holds(c, t)'
  <2>1. Holds(c, t)
    BY <1>2 DEF Between
  <2>2. Originals(c)' = Originals(c)
    BY DEF Originals
  <2>3. Baseline(c)' = Baseline(c)
    BY <2>2 DEF Baseline
  <2>4. QED BY <2>1, <2>2, <2>3 DEF Holds
<1>4. Between(e, s, t)'
  BY <1>2, <1>3 DEF Between, IsOverlay
<1>5. QED BY <1>1, <1>2, <1>4, GoesOn DEF Ended

LEMMA RowComposed ==
  ASSUME TypeOK, NEW p \in Procs, RowStep(p), NEW c \in Cites, Steady(c)', ComposedAt(c)
  PROVE  ComposedAt(c)'
<1>1. row'.cite = row.cite
  <2>1. CASE ReadRow(p)
    BY <2>1 DEF ReadRow, data
  <2>2. CASE WriteBlob(p)
    <3>1. lost' = (lost \/ row.cite # snap[p].cite)
      BY <2>2 DEF WriteBlob
    <3>2. ~lost'
      BY DEF Steady
    <3>3. row.cite = snap[p].cite
      BY <3>1, <3>2, Zenon
    <3>4. row'.cite = snap[p].cite
      BY <2>2 DEF WriteBlob, TypeOK, Row
    <3>5. QED BY <3>3, <3>4
  <2>3. QED BY <2>1, <2>2 DEF RowStep
<1>2. /\ UNCHANGED <<versions, kind, target, seen, base, got, history>>
      /\ pc' = [pc EXCEPT ![p] = pc'[p]]
  BY DEF RowStep, ReadRow, WriteBlob, data, ghosts
<1>3. CASE p \in Edits /\ target[p] = c
  <2>1. \/ pc[p] = "u1r" /\ pc'[p] = "u1w"
        \/ pc[p] = "u2r" /\ pc'[p] = "u2w"
        \/ pc[p] = "er" /\ pc'[p] = "ew"
        \/ pc[p] = "ew" /\ pc'[p] = "tail"
    BY <1>3, RequestAssumption DEF RowStep, ReadRow, WriteBlob, TypeOK
  <2>2. QED BY <1>1, <1>2, <1>3, <2>1, PlainComposed
<1>4. CASE ~(p \in Edits /\ target[p] = c)
  <2>1. LeftAlone(c)
    BY <1>1, <1>2, <1>4 DEF LeftAlone, TypeOK, Procs
  <2>2. QED BY <1>2, <2>1, AloneStays
<1>5. QED BY <1>3, <1>4

LEMMA AnswerComposed ==
  ASSUME TypeOK, NEW e \in Edits, Answer(e), NEW c \in Cites, c = target[e], ComposedAt(c)
  PROVE  ComposedAt(c)'
<1>1. PICK s, t : s = So(c) /\ t = KindAfter(kind, s, e)
  OBVIOUS
<1>2. pc[e] = "tail" /\ pc' = [pc EXCEPT ![e] = "done"]
      /\ UNCHANGED <<row, versions, kind, target>>
      /\ history' = [history EXCEPT ![c] = Append(@, e)]
  BY DEF Answer, data
<1>3. Busy(c) = {e} /\ Between(e, s, t)
  BY <1>1, <1>2, UnderWay DEF Ended
<1>4. row.cite[c] = t.fields /\ Holds(c, t)
  BY <1>2, <1>3 DEF Between
<1>5. So(c)' = t
  <2>1. history[c] \in Seq(Edits) /\ history'[c] = Append(history[c], e) /\ kind \in [Edits -> Kinds]
    BY <1>2 DEF TypeOK
  <2>2. QED BY <1>1, <1>2, <2>1, TurnAppend DEF So
<1>6. Busy(c)' = {}
  <2>1. SUFFICES ASSUME NEW f \in Busy(c)' PROVE FALSE
    OBVIOUS
  <2>2. f \in Edits /\ pc'[f] \notin Ended /\ target[f] = c
    BY <1>2 DEF Busy
  <2>3. f # e /\ pc'[f] = pc[f]
    BY <1>2, <2>2 DEF Ended, TypeOK, Procs
  <2>4. f \in Busy(c)
    BY <2>2, <2>3 DEF Busy
  <2>5. QED BY <1>3, <2>3, <2>4
<1>7. row'.cite[c] = t.fields /\ Holds(c, t)'
  BY <1>2, <1>4 DEF Holds, Baseline, Originals
<1>8. Holds(c, So(c))'
  BY <1>5, <1>7 DEF Holds
<1>9. QED BY <1>5, <1>6, <1>7, <1>8 DEF ComposedAt

LEMMA ComposedStep ==
  ASSUME TypeOK, VersionsNumbered, TypeOK', VersionsNumbered', Composed, [Next]_vars
  PROVE  Composed'
<1> SUFFICES ASSUME NEW c \in Cites, Steady(c)' PROVE ComposedAt(c)'
  BY DEF Composed
<1>1. Steady(c) /\ ComposedAt(c) /\ kind' = kind /\ target' = target
  BY SteadyBefore, OriginalsStay DEF Composed
<1>2. ASSUME NEW e \in Edits, EditStep(e) \/ Fail(e), target[e] # c PROVE ComposedAt(c)'
  <2>1. CASE UpdateCitation(e)
    BY <1>1, <2>1, UpdateComposed
  <2>2. CASE Start(e) \/ FindBaseline(e) \/ FindNoRow(e) \/ ReadForRow(e) \/ VersionLock(e)
    <3>1. LeftAlone(c)
      BY <1>2, <2>2 DEF Start, FindBaseline, FindNoRow, ReadForRow, VersionLock, data, ghosts,
         LeftAlone, TypeOK, Procs
    <3>2. QED BY <1>1, <3>1, AloneStays
  <2>3. CASE VersionInsert(e) \/ Answer(e) \/ Fail(e)
    <3>1. /\ row' = row
          /\ \A d \in Cites : d # target[e] => versions'[d] = versions[d] /\ history'[d] = history[d]
      BY <2>3 DEF VersionInsert, Answer, Fail, data, ghosts, TypeOK
    <3>2. \A f \in Edits : f # e =>
            pc'[f] = pc[f] /\ seen'[f] = seen[f] /\ base'[f] = base[f] /\ got'[f] = got[f]
      BY <2>3 DEF VersionInsert, Answer, Fail, Forget, ghosts, TypeOK, Procs
    <3>3. LeftAlone(c)
      BY <1>2, <3>1, <3>2 DEF LeftAlone
    <3>4. QED BY <1>1, <3>3, AloneStays
  <2>4. QED BY <1>2, <2>1, <2>2, <2>3 DEF EditStep
<1>3. ASSUME NEW e \in Edits, EditStep(e) \/ Fail(e), target[e] = c PROVE ComposedAt(c)'
  <2>1. CASE Fail(e)
    <3>1. pc'[e] = "failed" /\ target'[e] = c
      BY <1>1, <1>3, <2>1 DEF Fail, TypeOK, Procs
    <3>2. QED BY <3>1 DEF Steady
  <2>2. CASE FindNoRow(e) \/ ReadForRow(e) \/ VersionLock(e)
    <3>1. LeftAlone(c)
      BY <2>2 DEF FindNoRow, ReadForRow, VersionLock, data, ghosts, LeftAlone
    <3>2. QED BY <1>1, <3>1, AloneStays
  <2>3. QED BY <1>1, <1>3, <2>1, <2>2, StartComposed, BaselineComposed, InsertComposed,
               UpdateComposed, AnswerComposed DEF EditStep
<1>4. CASE DeferredProjection \/ UNCHANGED vars
  <2>1. LeftAlone(c)
    BY <1>4 DEF DeferredProjection, vars, LeftAlone
  <2>2. QED BY <1>1, <2>1, AloneStays
<1>5. ASSUME NEW p \in Procs, RowStep(p) PROVE ComposedAt(c)'
  BY <1>1, <1>5, RowComposed
<1>6. QED BY <1>2, <1>3, <1>4, <1>5 DEF Next

\* While no write puts back an old row, a citation whose edits neither met nor
\* failed has the fields that its answered edits give in turn, whatever edits of
\* other citations and writers of the blob ran in between (applyOverlayToCitation,
\* approveCorrection, reprocessCitation through updateCitation).
THEOREM EditsAddUp == Spec => []EditsCompose
<1>1. Composed => EditsCompose
  <2> SUFFICES ASSUME Composed, NEW c \in Cites, ~lost, c \notin met,
                      \A e \in Edits : target[e] = c => pc[e] \in {"idle", "done"}
               PROVE  row.cite[c] = InTurn(history[c])
    BY DEF EditsCompose
  <2>1. Steady(c) /\ Busy(c) = {}
    BY DEF Steady, Busy, Ended
  <2>2. QED BY <2>1, TurnIs DEF Composed, ComposedAt, So
<1>2. TypeOK /\ VersionsNumbered /\ (TypeOK /\ VersionsNumbered)' /\ Composed /\ [Next]_vars => Composed'
  BY ComposedStep
<1>3. QED BY <1>1, <1>2, ComposedInit, Safe, PTL DEF Spec
=============================================================================
