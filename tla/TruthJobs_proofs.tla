--------------------------- MODULE TruthJobs_proofs ---------------------------
(***************************************************************************)
(* Theorems about TruthJobs, for every set of jobs and servers, every      *)
(* number of pages and every value of the bounds.                          *)
(***************************************************************************)
EXTENDS TruthJobs, InductionLemmas, FiniteSetTheorems, TLAPS

-----------------------------------------------------------------------------
(* The inductive invariant. *)

\* A worker's pageIndex fits its place in the loop.
PageInRange ==
  \A s \in Server, j \in Job :
    /\ pc[s][j] \in {"apply", "store", "storing"} => page[s][j] \in 0..Pages - 1
    /\ pc[s][j] \in {"finish", "finishing"} => page[s][j] = Pages

\* The pages before a worker's pageIndex, and its own from "store" on, were
\* applied; so were those that the copy it read counts.
WorkersBehind ==
  \A s \in Server, j \in Job :
    /\ pc[s][j] \in Working => 0..page[s][j] - 1 \subseteq applied[j]
    /\ pc[s][j] \in {"store", "storing"} => page[s][j] \in applied[j]
    /\ 0..seen[s][j].done - 1 \subseteq applied[j]

\* A prompt worker's row shows its lease, unless a failing worker or a prune
\* ended the job under it.
LeaseHeld ==
  Prompt => \A s \in Server, j \in Job : pc[s][j] \in Working =>
    /\ clock <= renewed[s][j] + Term
    /\ \/ row[j].status = "running" /\ row[j].expires = renewed[s][j] + Term
       \/ row[j].status \in Terminal \cup {"deleted"}

IInv ==
  /\ TypeOK
  /\ PageInRange
  /\ WorkersBehind
  /\ PagesApplied
  /\ LeaseHeld
  /\ OneWorker

LEMMA NoRowType == NoRow \in Row /\ NoRow.done = 0
  BY ConstantsAssumption DEF NoRow, Row, Status

\* What an UPDATE does to the rows.
LEMMA UpdateEffect ==
  ASSUME TypeOK, NEW s \in Server, NEW j \in Job, NEW new \in Row, Update(s, j, new)
  PROVE  /\ row' \in [Job -> Row] /\ seen' \in [Server -> [Job -> Row]]
         /\ \A k \in Job : k # j => row'[k] = row[k]
         /\ Exists(j) => row'[j] = new
         /\ ~Exists(j) => row'[j] = row[j]
         /\ \A t \in Server, k \in Job : seen'[t][k] \in {seen[t][k], NoRow}
         /\ UNCHANGED <<applied, ids, caught, world>>
  BY NoRowType DEF Update, TypeOK

\* The rows that the writes of a worker store.
LEMMA WrittenRows ==
  ASSUME TypeOK, NEW r \in Row
  PROVE  /\ \A end \in Terminal : /\ Closed(r, end) \in Row
                                  /\ Closed(r, end).status = end
                                  /\ Closed(r, end).done = r.done
         /\ \A n \in 0..Pages : /\ Stored(r, n) \in Row
                                /\ Stored(r, n).status = "running"
                                /\ Stored(r, n).expires = clock + Term
                                /\ Stored(r, n).done = n
<1>1. clock \in Nat /\ clock + Term \in Nat /\ Terminal \subseteq Status
  BY ConstantsAssumption DEF TypeOK, Terminal, Status
<1>2. r.counted + 1 \in Nat
  BY DEF Row
<1>3. ASSUME NEW end \in Terminal
      PROVE  Closed(r, end) \in Row /\ Closed(r, end).status = end /\ Closed(r, end).done = r.done
  BY <1>1 DEF Row, Closed
<1>4. ASSUME NEW n \in 0..Pages
      PROVE  /\ Stored(r, n) \in Row /\ Stored(r, n).status = "running"
             /\ Stored(r, n).expires = clock + Term /\ Stored(r, n).done = n
  BY <1>1, <1>2 DEF Row, Status, Stored
<1>5. QED BY <1>3, <1>4

\* The claim and the creation of a row.
LEMMA ClaimedRow ==
  ASSUME TypeOK, NEW j \in Job
  PROVE  LET r == [row EXCEPT ![j].status = "running", ![j].expires = clock + Term] IN
         /\ r \in [Job -> Row]
         /\ r[j].status = "running" /\ r[j].done = row[j].done /\ r[j].expires = clock + Term
         /\ \A k \in Job : k # j => r[k] = row[k]
<1> DEFINE r == [row EXCEPT ![j].status = "running", ![j].expires = clock + Term]
           q == [row[j] EXCEPT !.status = "running", !.expires = clock + Term]
<1>1. row \in [Job -> Row] /\ row[j] \in Row /\ clock + Term \in Nat
  BY ConstantsAssumption DEF TypeOK
<1>2. q \in Row /\ q.status = "running" /\ q.done = row[j].done /\ q.expires = clock + Term
  BY <1>1 DEF Row, Status
<1>3. r = [row EXCEPT ![j] = q]
  BY <1>1
<1>4. QED BY <1>1, <1>2, <1>3

LEMMA CreatedRow ==
  ASSUME TypeOK, NEW j \in Job, NEW s \in Server, Create(s, j)
  PROVE  /\ row' \in [Job -> Row]
         /\ row'[j].status = "pending" /\ row'[j].done = 0
         /\ \A k \in Job : k # j => row'[k] = row[k]
<1> DEFINE n == 1 + Cardinality({k \in Job : row[k] # NoRow})
           q == [NoRow EXCEPT !.status = "pending", !.born = n]
<1>1. IsFiniteSet({k \in Job : row[k] # NoRow})
  BY FS_Subset, ConstantsAssumption
<1>2. n \in Nat
  BY <1>1, FS_CardinalityType
<1>3. q \in Row /\ q.status = "pending" /\ q.done = 0
  <2> HIDE DEF n
  <2>1. QED BY <1>2, NoRowType DEF Row, Status
<1>4. row' = [row EXCEPT ![j] = q] /\ row \in [Job -> Row]
  BY DEF Create, TypeOK
<1>5. QED BY <1>3, <1>4

LEMMA PrunedRows ==
  ASSUME TypeOK, NEW s \in Server, NEW j \in Job, PruneDelete(s, j)
  PROVE  /\ row' \in [Job -> Row]
         /\ \A k \in Job : \/ row'[k] = row[k]
                          \/ /\ Exists(k) /\ row'[k].status = "deleted"
                             /\ row'[k].done = row[k].done
<1> DEFINE q(k) == [row[k] EXCEPT !.status = "deleted"]
<1>1. row' = [k \in Job |-> IF k \in ids[s][j] /\ Exists(k) THEN q(k) ELSE row[k]]
  BY DEF PruneDelete
<1>2. ASSUME NEW r \in Row
      PROVE  LET d == [r EXCEPT !.status = "deleted"] IN
             d \in Row /\ d.status = "deleted" /\ d.done = r.done
  BY DEF Row, Status
<1>3. ASSUME NEW k \in Job
      PROVE  row[k] \in Row /\ q(k) \in Row /\ q(k).status = "deleted" /\ q(k).done = row[k].done
  BY <1>2 DEF TypeOK
<1> HIDE DEF q
<1>4. QED BY <1>1, <1>3

-----------------------------------------------------------------------------
(* Type correctness. *)

LEMMA InvInit == Init => IInv
<1> SUFFICES ASSUME Init PROVE IInv
  OBVIOUS
<1>1. TypeOK
  BY NoRowType, ConstantsAssumption DEF Init, TypeOK, Everywhere, PC
<1>2. \A s \in Server, j \in Job : pc[s][j] = "idle" /\ seen[s][j] = NoRow
  BY DEF Init, Everywhere
<1>3. PageInRange /\ WorkersBehind /\ LeaseHeld /\ OneWorker
  BY <1>2, NoRowType DEF PageInRange, WorkersBehind, LeaseHeld, OneWorker, Working
<1>4. PagesApplied
  BY NoRowType DEF Init, PagesApplied, NoRow
<1>5. QED BY <1>1, <1>3, <1>4 DEF IInv

LEMMA WorkerType ==
  ASSUME TypeOK, PageInRange, NEW s \in Server, NEW j \in Job, WorkerStep(s, j)
  PROVE  TypeOK'
<1> USE NoRowType, ConstantsAssumption
<1>0. seen[s][j] \in Row
  BY DEF TypeOK
<1>1. CASE Claim(s, j)
  <2>1. row' \in [Job -> Row]
    BY <1>1, ClaimedRow DEF Claim
  <2>2. row[j].done \in 0..Pages
    BY DEF TypeOK, Row
  <2>3. QED BY <1>1, <2>1, <2>2 DEF Claim, Goto, NextPage, TypeOK, PC, world
<1>2. CASE ClaimRefused(s, j)
  BY <1>2 DEF ClaimRefused, Goto, TypeOK, PC, world
<1>3. CASE ApplyPage(s, j)
  BY <1>3 DEF ApplyPage, Goto, TypeOK, PC, world, PageInRange
<1>4. CASE StoreRead(s, j)
  BY <1>4 DEF StoreRead, Goto, Select, TypeOK, PC, world
<1>5. CASE StoreWrite(s, j)
  <2> DEFINE n == page[s][j] + 1
             new == Stored(seen[s][j], n)
  <2>1. pc[s][j] = "storing" /\ n \in 0..Pages
    BY <1>5 DEF StoreWrite, Goto, PageInRange
  <2>2. new \in Row /\ Update(s, j, new)
    BY <1>0, <1>5, <2>1, WrittenRows DEF StoreWrite
  <2>3. row' \in [Job -> Row] /\ seen' \in [Server -> [Job -> Row]]
        /\ UNCHANGED <<applied, ids, caught, world>>
    BY <2>2, UpdateEffect
  <2>4. QED BY <1>5, <2>1, <2>3 DEF StoreWrite, Goto, NextPage, TypeOK, PC, world
<1>6. CASE StoreMissed(s, j)
  <2>1. pc' \in [Server -> [Job -> PC]] /\ seen' \in [Server -> [Job -> Row]]
    <3>1. pc' = [pc EXCEPT ![s][j] = "idle"] /\ seen' = [seen EXCEPT ![s][j] = NoRow]
      BY <1>6 DEF StoreMissed, Goto
    <3>2. QED BY <3>1 DEF TypeOK, PC
  <2>2. QED BY <1>6, <2>1 DEF StoreMissed, Forget, TypeOK, world
<1>7. CASE FinishRead(s, j)
  BY <1>7 DEF FinishRead, Goto, Select, TypeOK, PC, world
<1>8. CASE FinishWrite(s, j)
  <2>1. row' \in [Job -> Row] /\ seen' \in [Server -> [Job -> Row]]
        /\ UNCHANGED <<applied, ids, caught, world>>
    BY <1>0, <1>8, WrittenRows, UpdateEffect DEF FinishWrite, Terminal
  <2>2. /\ pc' = [pc EXCEPT ![s][j] = "keep"]
        /\ page' = [page EXCEPT ![s][j] = 0] /\ renewed' = [renewed EXCEPT ![s][j] = 0]
    BY <1>8 DEF FinishWrite, Forget, Goto
  <2>3. QED BY <2>1, <2>2 DEF TypeOK, PC, world
<1>9. CASE FailRead(s, j)
  BY <1>9 DEF FailRead, Goto, Select, TypeOK, PC, world
<1>10. CASE FailWrite(s, j)
  <2>1. row' \in [Job -> Row] /\ seen' \in [Server -> [Job -> Row]]
        /\ UNCHANGED <<applied, ids, caught, world>>
    BY <1>0, <1>10, WrittenRows, UpdateEffect DEF FailWrite, Terminal
  <2>2. QED BY <1>10, <2>1 DEF FailWrite, Goto, TypeOK, PC, world
<1>11. CASE PruneKeep(s, j)
  BY <1>11 DEF PruneKeep, Retained, Goto, TypeOK, PC, world
<1>12. CASE PruneDoom(s, j)
  BY <1>12 DEF PruneDoom, Goto, TypeOK, PC, world
<1>13. CASE PruneDelete(s, j)
  BY <1>13, PrunedRows DEF PruneDelete, Goto, TypeOK, PC, world
<1>14. QED
  BY <1>1, <1>2, <1>3, <1>4, <1>5, <1>6, <1>7, <1>8, <1>9, <1>10, <1>11, <1>12, <1>13
  DEF WorkerStep

LEMMA TypeStep ==
  ASSUME TypeOK, PageInRange, [Next]_vars
  PROVE  TypeOK'
<1> USE NoRowType
<1>1. ASSUME NEW s \in Server, Start(s) PROVE TypeOK'
  BY <1>1 DEF Start, TypeOK, PC
<1>2. ASSUME NEW s \in Server, Halt(s), faults' \in Nat, crashes' \in Nat PROVE TypeOK'
  BY <1>2, ConstantsAssumption DEF Halt, TypeOK, PC
<1>3. ASSUME NEW s \in Server, Crash(s) PROVE TypeOK'
  BY <1>2, <1>3 DEF Crash, TypeOK
<1>4. ASSUME NEW s \in Server, NEW j \in Job, Create(s, j) PROVE TypeOK'
  <2>1. row' \in [Job -> Row]
    BY <1>4, CreatedRow
  <2>2. QED BY <1>4, <2>1 DEF Create, Goto, TypeOK, PC, world
<1>5. ASSUME NEW s \in Server, NEW j \in Job, Fault(s, j) PROVE TypeOK'
  <2>1. CASE caught[s][j]
    BY <1>2, <1>5, <2>1 DEF Fault, TypeOK
  <2>2. CASE ~caught[s][j]
    <3>1. /\ pc' = [pc EXCEPT ![s][j] = "fail"] /\ caught' = [caught EXCEPT ![s][j] = TRUE]
          /\ seen' = [seen EXCEPT ![s][j] = NoRow] /\ ids' = [ids EXCEPT ![s][j] = {}]
          /\ page' = [page EXCEPT ![s][j] = 0] /\ renewed' = [renewed EXCEPT ![s][j] = 0]
          /\ faults' = faults + 1
          /\ UNCHANGED <<row, applied, up, clock, crashes>>
      BY <1>5, <2>2 DEF Fault, Forget
    <3>2. QED BY <3>1, ConstantsAssumption DEF TypeOK, PC
  <2>3. QED BY <2>1, <2>2
<1>6. CASE Tick
  BY <1>6 DEF Tick, TypeOK, worker
<1>7. CASE UNCHANGED vars
  BY <1>7 DEF vars, worker, world, TypeOK
<1>8. QED
  BY <1>1, <1>3, <1>4, <1>5, <1>6, <1>7, WorkerType DEF Next, ServerStep, JobStep

-----------------------------------------------------------------------------
(* What a worker's step leaves alone. *)

\* The other workers, the clock, and what was applied.
LEMMA WorkerFrame ==
  ASSUME TypeOK, NEW s \in Server, NEW j \in Job, WorkerStep(s, j)
  PROVE  /\ \A t \in Server, k \in Job : t # s \/ k # j =>
              /\ pc'[t][k] = pc[t][k] /\ page'[t][k] = page[t][k]
              /\ seen'[t][k] = seen[t][k] /\ renewed'[t][k] = renewed[t][k]
         /\ \A k \in Job : applied[k] \subseteq applied'[k]
         /\ UNCHANGED world
<1>1. CASE Claim(s, j) \/ ClaimRefused(s, j)
  BY <1>1 DEF Claim, ClaimRefused, Goto, TypeOK
<1>2. CASE ApplyPage(s, j)
  BY <1>2 DEF ApplyPage, Goto, TypeOK
<1>3. CASE StoreRead(s, j) \/ FinishRead(s, j) \/ FailRead(s, j)
  BY <1>3 DEF StoreRead, FinishRead, FailRead, Select, Goto, TypeOK
<1>4. CASE StoreWrite(s, j)
  BY <1>4 DEF StoreWrite, Update, Goto, TypeOK
<1>5. CASE FinishWrite(s, j) \/ FailWrite(s, j)
  BY <1>5 DEF FinishWrite, FailWrite, Update, Forget, Goto, TypeOK
<1>6. CASE StoreMissed(s, j)
  <2>1. /\ pc' = [pc EXCEPT ![s][j] = "idle"] /\ seen' = [seen EXCEPT ![s][j] = NoRow]
        /\ page' = [page EXCEPT ![s][j] = 0] /\ renewed' = [renewed EXCEPT ![s][j] = 0]
        /\ UNCHANGED <<row, applied, world>>
    BY <1>6 DEF StoreMissed, Forget, Goto
  <2>2. QED BY <2>1 DEF TypeOK
<1>7. CASE PruneKeep(s, j) \/ PruneDoom(s, j) \/ PruneDelete(s, j)
  BY <1>7 DEF PruneKeep, PruneDoom, PruneDelete, Goto, TypeOK
<1>8. QED
  BY <1>1, <1>2, <1>3, <1>4, <1>5, <1>6, <1>7 DEF WorkerStep

\* What a worker's step does to its own place and to the rows.
LEMMA WorkerEffect ==
  ASSUME TypeOK, NEW s \in Server, NEW j \in Job, WorkerStep(s, j)
  PROVE  \/ /\ pc[s][j] = "queued" /\ Claimable(j)
            /\ pc'[s][j] = NextPage(row[j].done) /\ page'[s][j] = row[j].done
            /\ renewed'[s][j] = clock
            /\ row'[j].status = "running" /\ row'[j].expires = clock + Term
            /\ row'[j].done = row[j].done
            /\ \A k \in Job : k # j => row'[k] = row[k]
            /\ UNCHANGED <<applied, seen>>
         \/ /\ pc[s][j] = "apply" /\ pc'[s][j] = "store"
            /\ applied'[j] = applied[j] \cup {page[s][j]}
            /\ UNCHANGED <<row, page, seen, renewed>>
         \/ /\ \/ pc[s][j] = "store" /\ pc'[s][j] = "storing"
               \/ pc[s][j] = "finish" /\ pc'[s][j] = "finishing"
            /\ seen'[s][j] = row[j]
            /\ UNCHANGED <<row, applied, page, renewed>>
         \/ /\ pc[s][j] = "storing" /\ pc'[s][j] = NextPage(page[s][j] + 1)
            /\ page'[s][j] = page[s][j] + 1 /\ renewed'[s][j] = clock
            /\ page[s][j] + 1 \in 0..Pages
               => row'[j].status = "running" /\ row'[j].expires = clock + Term
                  /\ row'[j].done = page[s][j] + 1
            /\ \A k \in Job : k # j => row'[k] = row[k]
            /\ seen'[s][j] = NoRow
            /\ UNCHANGED applied
         \/ /\ pc'[s][j] \notin Working
            /\ seen'[s][j] \in {seen[s][j], row[j], NoRow}
            /\ UNCHANGED applied
            /\ \A k \in Job :
                 \/ row'[k] = row[k]
                 \/ /\ k = j /\ pc[s][j] = "finishing"
                    /\ row'[k].status = "completed" /\ row'[k].done = seen[s][j].done
                 \/ /\ k = j /\ row'[k].status = "failed" /\ row'[k].done = seen[s][j].done
                 \/ /\ Exists(k) /\ row'[k].status = "deleted" /\ row'[k].done = row[k].done
<1>0. seen[s][j] \in Row /\ {"completed", "failed"} \subseteq Terminal
  BY DEF TypeOK, Terminal
<1>1. CASE Claim(s, j)
  <2>1. /\ row'[j].status = "running" /\ row'[j].expires = clock + Term
        /\ row'[j].done = row[j].done
        /\ \A k \in Job : k # j => row'[k] = row[k]
    BY <1>1, ClaimedRow DEF Claim
  <2>2. /\ pc[s][j] = "queued" /\ Claimable(j)
        /\ pc'[s][j] = NextPage(row[j].done) /\ page'[s][j] = row[j].done
        /\ renewed'[s][j] = clock /\ UNCHANGED <<applied, seen>>
    BY <1>1 DEF Claim, Goto, TypeOK
  <2>3. QED BY <2>1, <2>2
<1>2. CASE ApplyPage(s, j)
  BY <1>2 DEF ApplyPage, Goto, TypeOK
<1>3. CASE StoreRead(s, j) \/ FinishRead(s, j)
  BY <1>3 DEF StoreRead, FinishRead, Select, Goto, TypeOK
<1>4. CASE FailRead(s, j) \/ ClaimRefused(s, j) \/ PruneKeep(s, j) \/ PruneDoom(s, j)
  BY <1>4 DEF FailRead, ClaimRefused, PruneKeep, PruneDoom, Select, Goto, TypeOK, Working
<1>5. CASE StoreWrite(s, j)
  <2>1. Exists(j) /\ Update(s, j, Stored(seen[s][j], page[s][j] + 1))
    BY <1>5 DEF StoreWrite
  <2>2. /\ row' = [row EXCEPT ![j] = Stored(seen[s][j], page[s][j] + 1)]
        /\ seen'[s][j] = NoRow /\ UNCHANGED applied
    BY <2>1 DEF Update, TypeOK
  <2>3. page[s][j] + 1 \in 0..Pages
        => row'[j].status = "running" /\ row'[j].expires = clock + Term
           /\ row'[j].done = page[s][j] + 1
    <3> DEFINE new == Stored(seen[s][j], page[s][j] + 1)
    <3>1. row'[j] = new
      BY <2>2 DEF TypeOK
    <3>2. ASSUME page[s][j] + 1 \in 0..Pages
          PROVE  new.status = "running" /\ new.expires = clock + Term /\ new.done = page[s][j] + 1
      BY <1>0, <3>2, WrittenRows
    <3>3. QED BY <3>1, <3>2
  <2>4. QED BY <1>5, <2>2, <2>3 DEF StoreWrite, Goto, TypeOK
<1>6. CASE FinishWrite(s, j)
  <2>1. /\ \A k \in Job : k # j => row'[k] = row[k]
        /\ row'[j] = row[j] \/ (row'[j].status = "completed" /\ row'[j].done = seen[s][j].done)
        /\ seen'[s][j] \in {seen[s][j], NoRow} /\ UNCHANGED applied
    BY <1>0, <1>6, WrittenRows, UpdateEffect DEF FinishWrite
  <2>2. pc[s][j] = "finishing" /\ pc'[s][j] = "keep"
    BY <1>6 DEF FinishWrite, Goto, TypeOK
  <2>3. QED BY <2>1, <2>2 DEF Working
<1>7. CASE FailWrite(s, j)
  <2>1. /\ \A k \in Job : k # j => row'[k] = row[k]
        /\ Exists(j) => row'[j].status = "failed" /\ row'[j].done = seen[s][j].done
        /\ ~Exists(j) => row'[j] = row[j]
        /\ seen'[s][j] \in {seen[s][j], NoRow} /\ UNCHANGED applied
    BY <1>0, <1>7, WrittenRows, UpdateEffect DEF FailWrite
  <2>2. pc'[s][j] = "keep"
    BY <1>7 DEF FailWrite, Goto, TypeOK
  <2>3. QED BY <2>1, <2>2 DEF Working
<1>8. CASE StoreMissed(s, j)
  <2>1. /\ pc' = [pc EXCEPT ![s][j] = "idle"] /\ seen' = [seen EXCEPT ![s][j] = NoRow]
        /\ UNCHANGED <<row, applied, world>>
    BY <1>8 DEF StoreMissed, Goto
  <2>2. QED BY <2>1 DEF TypeOK, Working
<1>9. CASE PruneDelete(s, j)
  <2>1. pc'[s][j] = "idle" /\ UNCHANGED <<applied, page, seen, renewed>>
    BY <1>9 DEF PruneDelete, Goto, TypeOK
  <2>2. QED BY <1>9, <2>1, PrunedRows DEF Working
<1>10. QED
  BY <1>1, <1>2, <1>3, <1>4, <1>5, <1>6, <1>7, <1>8, <1>9 DEF WorkerStep

-----------------------------------------------------------------------------
(* Every page that is counted was applied. *)

\* The own place of a worker, and every row, after its step.
LEMMA WorkerBehind ==
  ASSUME IInv, NEW s \in Server, NEW j \in Job, WorkerStep(s, j)
  PROVE  PageInRange' /\ WorkersBehind' /\ PagesApplied'
<1> USE ConstantsAssumption
<1>1. /\ TypeOK /\ PageInRange /\ WorkersBehind /\ PagesApplied
  BY DEF IInv
<1>2. /\ row[j].done \in 0..Pages /\ page[s][j] \in 0..Pages /\ applied[j] \subseteq 0..Pages - 1
  BY <1>1 DEF TypeOK, Row
<1>3. /\ pc'[s][j] \in {"apply", "store", "storing"} => page'[s][j] \in 0..Pages - 1
      /\ pc'[s][j] \in {"finish", "finishing"} => page'[s][j] = Pages
  BY <1>1, <1>2, WorkerEffect DEF PageInRange, NextPage, Working
<1>4. PageInRange'
  BY <1>1, <1>3, WorkerFrame DEF PageInRange
<1>5. /\ pc'[s][j] \in Working => 0..page'[s][j] - 1 \subseteq applied'[j]
      /\ pc'[s][j] \in {"store", "storing"} => page'[s][j] \in applied'[j]
  <2>1. CASE pc[s][j] = "queued" /\ pc'[s][j] = NextPage(row[j].done)
             /\ page'[s][j] = row[j].done /\ UNCHANGED applied
    BY <1>1, <2>1 DEF PagesApplied, NextPage
  <2>2. CASE pc[s][j] = "apply" /\ pc'[s][j] = "store"
             /\ applied'[j] = applied[j] \cup {page[s][j]} /\ UNCHANGED page
    BY <1>1, <2>2 DEF WorkersBehind, Working, TypeOK
  <2>3. CASE /\ \/ pc[s][j] = "store" /\ pc'[s][j] = "storing"
                \/ pc[s][j] = "finish" /\ pc'[s][j] = "finishing"
             /\ UNCHANGED <<applied, page>>
    BY <1>1, <2>3 DEF WorkersBehind, Working
  <2>4. CASE pc[s][j] = "storing" /\ pc'[s][j] = NextPage(page[s][j] + 1)
             /\ page'[s][j] = page[s][j] + 1 /\ UNCHANGED applied
    BY <1>1, <1>2, <2>4 DEF WorkersBehind, Working, NextPage
  <2>5. CASE pc'[s][j] \notin Working
    BY <2>5 DEF Working
  <2>6. QED BY <1>1, <2>1, <2>2, <2>3, <2>4, <2>5, WorkerEffect
<1>6. 0..seen'[s][j].done - 1 \subseteq applied'[j]
  <2>1. seen'[s][j] \in {seen[s][j], row[j], NoRow}
    BY <1>1, WorkerEffect
  <2>2. QED BY <1>1, <2>1, NoRowType, WorkerFrame DEF WorkersBehind, PagesApplied
<1>7. WorkersBehind'
  BY <1>1, <1>5, <1>6, WorkerFrame DEF WorkersBehind
<1>8. ASSUME NEW k \in Job
      PROVE  /\ 0..row'[k].done - 1 \subseteq applied'[k]
             /\ row'[k].status = "completed" => applied'[k] = 0..Pages - 1
  <2>1. /\ applied[k] \subseteq applied'[k] /\ applied'[k] \subseteq 0..Pages - 1
        /\ 0..row[k].done - 1 \subseteq applied[k]
        /\ row[k].status = "completed" => applied[k] = 0..Pages - 1
    BY <1>1, WorkerFrame, WorkerType DEF PagesApplied, TypeOK
  <2>2. CASE row'[k].done = row[k].done /\ (row'[k].status = "completed" => row[k].status = "completed")
    BY <2>1, <2>2
  <2>3. CASE pc[s][j] = "storing" /\ k = j /\ row'[k].status = "running" /\ row'[k].done = page[s][j] + 1
    BY <1>1, <1>2, <2>1, <2>3 DEF WorkersBehind, Working
  <2>4. CASE k = j /\ row'[k].done = seen[s][j].done
             /\ (row'[k].status = "completed" => pc[s][j] = "finishing")
    <3>1. 0..row'[k].done - 1 \subseteq applied'[k]
      BY <1>1, <2>1, <2>4 DEF WorkersBehind
    <3>2. CASE pc[s][j] = "finishing"
      BY <1>1, <2>1, <2>4, <3>1, <3>2 DEF WorkersBehind, PageInRange, Working
    <3>3. QED BY <2>4, <3>1, <3>2
  <2>5. pc[s][j] = "storing" => page[s][j] + 1 \in 0..Pages
    BY <1>1, <1>2 DEF PageInRange
  <2>6. QED BY <1>1, <2>2, <2>3, <2>4, <2>5, WorkerEffect
<1>9. QED BY <1>4, <1>7, <1>8 DEF PagesApplied

\* A worker that stops, or moves to its catch block, is behind nothing.
LEMMA BehindStep ==
  ASSUME IInv, [Next]_vars
  PROVE  PageInRange' /\ WorkersBehind' /\ PagesApplied'
<1> USE NoRowType
<1>1. TypeOK /\ PageInRange /\ WorkersBehind /\ PagesApplied
  BY DEF IInv
<1>2. ASSUME UNCHANGED <<row, applied>>,
             \A s \in Server, j \in Job :
               /\ \/ pc'[s][j] = pc[s][j] /\ page'[s][j] = page[s][j]
                  \/ pc'[s][j] \in {"idle", "queued", "fail"}
               /\ seen'[s][j] \in {seen[s][j], NoRow}
      PROVE  PageInRange' /\ WorkersBehind' /\ PagesApplied'
  <2>1. PageInRange'
    BY <1>1, <1>2 DEF PageInRange
  <2>2. WorkersBehind'
    BY <1>1, <1>2 DEF WorkersBehind, Working
  <2>3. PagesApplied'
    BY <1>1, <1>2 DEF PagesApplied
  <2>4. QED BY <2>1, <2>2, <2>3
<1>3. ASSUME NEW s \in Server, Start(s) PROVE PageInRange' /\ WorkersBehind' /\ PagesApplied'
  BY <1>1, <1>2, <1>3 DEF Start, TypeOK
<1>4. ASSUME NEW s \in Server, Halt(s) PROVE PageInRange' /\ WorkersBehind' /\ PagesApplied'
  BY <1>1, <1>2, <1>4 DEF Halt, TypeOK
<1>5. ASSUME NEW s \in Server, NEW j \in Job, Create(s, j)
      PROVE  PageInRange' /\ WorkersBehind' /\ PagesApplied'
  <2>1. /\ pc' = [pc EXCEPT ![s][j] = "queued"] /\ UNCHANGED <<applied, page, seen>>
    BY <1>5 DEF Create, Goto
  <2>2. PageInRange' /\ WorkersBehind'
    BY <1>1, <2>1 DEF PageInRange, WorkersBehind, Working, TypeOK
  <2>3. PagesApplied'
    BY <1>1, <1>5, <2>1, CreatedRow DEF PagesApplied
  <2>4. QED BY <2>2, <2>3
<1>6. ASSUME NEW s \in Server, NEW j \in Job, Fault(s, j), ~caught[s][j]
      PROVE  PageInRange' /\ WorkersBehind' /\ PagesApplied'
  <2>1. /\ pc' = [pc EXCEPT ![s][j] = "fail"] /\ seen' = [seen EXCEPT ![s][j] = NoRow]
        /\ page' = [page EXCEPT ![s][j] = 0]
        /\ UNCHANGED <<row, applied>>
    BY <1>6 DEF Fault, Forget
  <2>2. QED BY <1>1, <1>2, <2>1 DEF TypeOK
<1>7. CASE Tick
  BY <1>2, <1>7 DEF Tick, worker
<1>8. CASE UNCHANGED vars
  BY <1>2, <1>8 DEF vars, worker
<1>9. QED
  BY <1>3, <1>4, <1>5, <1>6, <1>7, <1>8, WorkerBehind DEF Next, ServerStep, JobStep, Crash, Fault

-----------------------------------------------------------------------------
(* One worker at a time, when every step is prompt. *)

\* A job that a prompt worker holds cannot be claimed.
LEMMA HeldIsNotClaimable ==
  ASSUME TypeOK, LeaseHeld, Prompt, NEW s \in Server, NEW j \in Job, pc[s][j] \in Working
  PROVE  ~Claimable(j) /\ row[j].status # "absent"
<1>1. /\ clock \in Nat \ {0} /\ renewed[s][j] \in Nat /\ Term \in Nat
      /\ clock <= renewed[s][j] + Term
      /\ \/ row[j].status = "running" /\ row[j].expires = renewed[s][j] + Term
         \/ row[j].status \in Terminal \cup {"deleted"}
  BY ConstantsAssumption DEF LeaseHeld, TypeOK
<1>2. CASE row[j].status = "running" /\ row[j].expires = renewed[s][j] + Term
  BY <1>1, <1>2 DEF Claimable
<1>3. CASE row[j].status \in Terminal \cup {"deleted"}
  BY <1>3 DEF Claimable, Terminal
<1>4. QED BY <1>1, <1>2, <1>3

LEMMA WorkerHolds ==
  ASSUME IInv, NEW s \in Server, NEW j \in Job, WorkerStep(s, j)
  PROVE  LeaseHeld' /\ OneWorker'
<1> SUFFICES ASSUME Prompt PROVE LeaseHeld' /\ OneWorker'
  BY DEF LeaseHeld, OneWorker
<1> USE ConstantsAssumption
<1>1. TypeOK /\ PageInRange /\ LeaseHeld /\ OneWorker
  BY DEF IInv
<1>2. UNCHANGED clock /\ clock \in Nat /\ Term \in Nat
  BY <1>1, WorkerFrame DEF world, TypeOK
<1>3. /\ \/ pc[s][j] \in Working
         \/ pc[s][j] = "queued" /\ Claimable(j)
         \/ pc'[s][j] \notin Working
      /\ pc[s][j] = "storing" => page[s][j] + 1 \in 0..Pages
  <2>1. pc[s][j] = "storing" => page[s][j] + 1 \in 0..Pages
    BY <1>1 DEF PageInRange
  <2>2. \/ pc[s][j] = "queued" /\ Claimable(j)
        \/ pc[s][j] \in {"apply", "store", "finish", "storing"}
        \/ pc'[s][j] \notin Working
    BY <1>1, WorkerEffect
  <2>3. QED BY <2>1, <2>2 DEF Working
<1>4. OneWorker'
  <2>1. ASSUME NEW t \in Server, NEW k \in Job, pc'[t][k] \in Working, t # s \/ k # j
        PROVE  pc[t][k] \in Working
    BY <1>1, <2>1, WorkerFrame
  <2>2. ASSUME NEW t \in Server, pc'[t][j] \in Working, pc'[s][j] \in Working
        PROVE  t = s
    BY <1>1, <1>3, <2>1, <2>2, HeldIsNotClaimable DEF OneWorker
  <2>3. QED BY <1>1, <2>1, <2>2 DEF OneWorker
<1>5. ASSUME NEW t \in Server, NEW k \in Job, pc'[t][k] \in Working
      PROVE  /\ clock <= renewed'[t][k] + Term
             /\ \/ row'[k].status = "running" /\ row'[k].expires = renewed'[t][k] + Term
                \/ row'[k].status \in Terminal \cup {"deleted"}
  <2>1. CASE t = s /\ k = j
    <3>1. CASE pc[s][j] \in Working /\ UNCHANGED <<row, renewed>>
      BY <1>1, <2>1, <3>1 DEF LeaseHeld
    <3>2. CASE /\ row'[j].status = "running" /\ row'[j].expires = clock + Term
               /\ renewed'[s][j] = clock
      BY <1>2, <2>1, <3>2
    <3>3. QED BY <1>1, <1>3, <1>5, <2>1, <3>1, <3>2, WorkerEffect DEF Working
  <2>2. CASE t # s \/ k # j
    <3>1. /\ pc[t][k] \in Working /\ renewed'[t][k] = renewed[t][k]
      BY <1>1, <1>5, <2>2, WorkerFrame
    <3>2. /\ clock <= renewed[t][k] + Term
          /\ \/ row[k].status = "running" /\ row[k].expires = renewed[t][k] + Term
             \/ row[k].status \in Terminal \cup {"deleted"}
      BY <1>1, <3>1 DEF LeaseHeld
    <3>3. k = j => ~Claimable(j) /\ pc[s][j] # "storing"
      BY <1>1, <2>2, <3>1, HeldIsNotClaimable DEF OneWorker, Working
    <3>4. row'[k] = row[k] \/ row'[k].status \in {"completed", "failed", "deleted"}
      BY <1>1, <3>3, WorkerEffect
    <3>5. QED BY <3>1, <3>2, <3>4 DEF Terminal
  <2>3. QED BY <2>1, <2>2
<1>6. QED BY <1>2, <1>4, <1>5 DEF LeaseHeld

LEMMA HoldStep ==
  ASSUME IInv, [Next]_vars
  PROVE  LeaseHeld' /\ OneWorker'
<1> SUFFICES ASSUME Prompt PROVE LeaseHeld' /\ OneWorker'
  BY DEF LeaseHeld, OneWorker
<1>1. TypeOK /\ LeaseHeld /\ OneWorker
  BY DEF IInv
<1>2. ASSUME UNCHANGED clock,
             \A s \in Server, j \in Job :
               \/ pc'[s][j] \in {"idle", "queued", "fail"}
               \/ pc'[s][j] = pc[s][j] /\ renewed'[s][j] = renewed[s][j],
             \A j \in Job : row'[j] = row[j] \/ row[j].status = "absent"
      PROVE  LeaseHeld' /\ OneWorker'
  <2>1. ASSUME NEW s \in Server, NEW j \in Job, pc'[s][j] \in Working
        PROVE  pc[s][j] \in Working /\ renewed'[s][j] = renewed[s][j] /\ row'[j] = row[j]
    BY <1>1, <1>2, <2>1, HeldIsNotClaimable DEF Working
  <2>2. LeaseHeld'
    BY <1>1, <1>2, <2>1 DEF LeaseHeld
  <2>3. OneWorker'
    BY <1>1, <2>1 DEF OneWorker
  <2>4. QED BY <2>2, <2>3
<1>3. ASSUME NEW s \in Server, Start(s) PROVE LeaseHeld' /\ OneWorker'
  BY <1>1, <1>2, <1>3 DEF Start, TypeOK
<1>4. ASSUME NEW s \in Server, Halt(s) PROVE LeaseHeld' /\ OneWorker'
  BY <1>1, <1>2, <1>4 DEF Halt, TypeOK
<1>5. ASSUME NEW s \in Server, NEW j \in Job, Create(s, j) PROVE LeaseHeld' /\ OneWorker'
  <2>1. /\ pc' = [pc EXCEPT ![s][j] = "queued"] /\ UNCHANGED <<renewed, clock>>
        /\ \A k \in Job : row'[k] = row[k] \/ row[k].status = "absent"
    BY <1>1, <1>5, CreatedRow DEF Create, Goto, world
  <2>2. QED BY <1>1, <1>2, <2>1 DEF TypeOK
<1>6. ASSUME NEW s \in Server, NEW j \in Job, Fault(s, j), ~caught[s][j]
      PROVE  LeaseHeld' /\ OneWorker'
  <2>1. /\ pc' = [pc EXCEPT ![s][j] = "fail"] /\ renewed' = [renewed EXCEPT ![s][j] = 0]
        /\ UNCHANGED <<row, clock>>
    BY <1>6 DEF Fault, Forget
  <2>2. QED BY <1>1, <1>2, <2>1 DEF TypeOK
<1>7. CASE Tick
  <2>1. UNCHANGED <<row, pc, renewed>> /\ clock' = clock + 1
        /\ \A s \in Server, j \in Job : pc[s][j] \in Working => clock < renewed[s][j] + Term
    BY <1>7 DEF Tick, worker
  <2>2. QED BY <1>1, <2>1, ConstantsAssumption DEF LeaseHeld, OneWorker, TypeOK
<1>8. CASE UNCHANGED vars
  BY <1>2, <1>8 DEF vars, worker, world
<1>9. QED
  BY <1>3, <1>4, <1>5, <1>6, <1>7, <1>8, WorkerHolds DEF Next, ServerStep, JobStep, Crash, Fault

-----------------------------------------------------------------------------
(* Every page is counted once, when every step is prompt and nothing throws. *)

\* No worker is in its catch block, and a worker's place agrees with its row:
\* the job runs, pageIndex is completedPages, and the copy that is about to be
\* written back still has the row's counts.  What a prune deletes has ended.
InStep ==
  /\ faults = 0
  /\ \A s \in Server, j \in Job :
       /\ pc[s][j] \notin {"fail", "failing"}
       /\ pc[s][j] \in Working => row[j].status = "running" /\ page[s][j] = row[j].done
       /\ pc[s][j] \in {"storing", "finishing"} =>
            seen[s][j].done = row[j].done /\ seen[s][j].counted = row[j].counted
       /\ pc[s][j] = "delete" => \A k \in ids[s][j] : row[k].status \in Terminal \cup {"deleted"}
  /\ CountsExact

QuietInv == Prompt /\ MaxFaults = 0 => InStep

\* What a step of a worker in its try block or its prune does to the counts.
LEMMA CountEffect ==
  ASSUME TypeOK, PageInRange, NEW s \in Server, NEW j \in Job, WorkerStep(s, j),
         pc[s][j] \notin {"fail", "failing"}
  PROVE  /\ pc'[s][j] \notin {"fail", "failing"}
         /\ \/ /\ pc[s][j] = "queued" /\ Claimable(j)
               /\ page'[s][j] = row[j].done
               /\ pc'[s][j] \notin {"storing", "finishing"}
               /\ row'[j].status = "running"
               /\ row'[j].done = row[j].done /\ row'[j].counted = row[j].counted
               /\ \A k \in Job : k # j => row'[k] = row[k]
            \/ /\ pc[s][j] \in Working /\ UNCHANGED <<row, page>>
               /\ pc'[s][j] \in {"storing", "finishing"} => seen'[s][j] = row[j]
            \/ /\ pc[s][j] = "storing" /\ page'[s][j] = page[s][j] + 1
               /\ pc'[s][j] \notin {"storing", "finishing"}
               /\ row'[j].status = "running" /\ row'[j].done = page[s][j] + 1
               /\ row'[j].counted = seen[s][j].counted + 1
               /\ \A k \in Job : k # j => row'[k] = row[k]
            \/ /\ pc[s][j] = "finishing" /\ pc'[s][j] = "keep"
               /\ row'[j] = row[j]
                  \/ /\ row'[j].status = "completed" /\ row'[j].done = seen[s][j].done
                     /\ row'[j].counted = seen[s][j].counted
               /\ \A k \in Job : k # j => row'[k] = row[k]
            \/ /\ pc'[s][j] \notin Working
               /\ \A k \in Job : \/ row'[k] = row[k]
                                 \/ /\ pc[s][j] = "delete" /\ k \in ids[s][j]
                                    /\ row'[k].status = "deleted"
                                    /\ row'[k].done = row[k].done
                                    /\ row'[k].counted = row[k].counted
<1> USE ConstantsAssumption
<1>0. seen[s][j] \in Row /\ row \in [Job -> Row]
  BY DEF TypeOK
<1>1. CASE Claim(s, j)
  <2> DEFINE q == [row[j] EXCEPT !.status = "running", !.expires = clock + Term]
  <2>1. row[j] \in Row
    BY <1>0
  <2>2. q.status = "running" /\ q.done = row[j].done /\ q.counted = row[j].counted
    BY <2>1 DEF Row
  <2>3. row' = [row EXCEPT ![j] = q]
    BY <1>0, <1>1 DEF Claim
  <2>4. row'[j] = q /\ \A k \in Job : k # j => row'[k] = row[k]
    BY <1>0, <2>3
  <2>5. /\ pc[s][j] = "queued" /\ Claimable(j) /\ page'[s][j] = row[j].done
        /\ pc'[s][j] \in {"apply", "finish"}
    BY <1>1 DEF Claim, Goto, NextPage, TypeOK
  <2> HIDE DEF q
  <2>6. QED BY <2>2, <2>4, <2>5
<1>2. CASE ClaimRefused(s, j) \/ PruneKeep(s, j) \/ PruneDoom(s, j)
  BY <1>2 DEF ClaimRefused, PruneKeep, PruneDoom, Goto, TypeOK, Working
<1>3. CASE ApplyPage(s, j)
  BY <1>3 DEF ApplyPage, Goto, TypeOK, Working
<1>4. CASE StoreRead(s, j) \/ FinishRead(s, j)
  BY <1>4 DEF StoreRead, FinishRead, Select, Goto, TypeOK, Working
<1>5. CASE StoreWrite(s, j)
  <2> DEFINE new == Stored(seen[s][j], page[s][j] + 1)
  <2>1. /\ pc[s][j] = "storing" /\ page'[s][j] = page[s][j] + 1
        /\ pc'[s][j] \in {"apply", "finish"}
        /\ Exists(j) /\ Update(s, j, new)
    BY <1>5 DEF StoreWrite, Goto, NextPage, TypeOK
  <2>2. row' = [row EXCEPT ![j] = new]
    BY <2>1 DEF Update
  <2>3. new.status = "running" /\ new.done = page[s][j] + 1 /\ new.counted = seen[s][j].counted + 1
    BY <1>0 DEF Stored, Row
  <2> HIDE DEF new
  <2>4. row'[j] = new /\ \A k \in Job : k # j => row'[k] = row[k]
    BY <1>0, <2>2
  <2>5. QED BY <2>1, <2>3, <2>4
<1>6. CASE FinishWrite(s, j)
  <2> DEFINE new == Closed(seen[s][j], "completed")
  <2>1. pc[s][j] = "finishing" /\ pc'[s][j] = "keep" /\ Update(s, j, new)
    BY <1>6 DEF FinishWrite, Goto, TypeOK
  <2>2. new.status = "completed" /\ new.done = seen[s][j].done /\ new.counted = seen[s][j].counted
    BY <1>0 DEF Closed, Row
  <2> HIDE DEF new
  <2>3. row'[j] \in {row[j], new} /\ \A k \in Job : k # j => row'[k] = row[k]
    BY <1>0, <2>1 DEF Update
  <2>4. QED BY <2>1, <2>2, <2>3
<1>7. CASE StoreMissed(s, j)
  <2>1. pc' = [pc EXCEPT ![s][j] = "idle"] /\ UNCHANGED row
    BY <1>7 DEF StoreMissed, Goto
  <2>2. QED BY <2>1 DEF TypeOK, Working
<1>8. CASE FailRead(s, j) \/ FailWrite(s, j)
  BY <1>8 DEF FailRead, FailWrite, Goto
<1>9. CASE PruneDelete(s, j)
  <2> DEFINE q(k) == [row[k] EXCEPT !.status = "deleted"]
  <2>1. row' = [k \in Job |-> IF k \in ids[s][j] /\ Exists(k) THEN q(k) ELSE row[k]]
    BY <1>9 DEF PruneDelete
  <2>2. \A k \in Job : q(k).status = "deleted" /\ q(k).done = row[k].done /\ q(k).counted = row[k].counted
    BY <1>0 DEF Row
  <2> HIDE DEF q
  <2>3. pc[s][j] = "delete" /\ pc'[s][j] = "idle"
    BY <1>9 DEF PruneDelete, Goto, TypeOK
  <2>4. QED BY <2>1, <2>2, <2>3 DEF Working
<1>10. QED
  BY <1>1, <1>2, <1>3, <1>4, <1>5, <1>6, <1>7, <1>8, <1>9 DEF WorkerStep

\* What a prune is about to delete was seen to have ended.
LEMMA DoomEffect ==
  ASSUME TypeOK, NEW s \in Server, NEW j \in Job, WorkerStep(s, j),
         NEW t \in Server, NEW k \in Job, pc'[t][k] = "delete"
  PROVE  \/ pc[t][k] = "delete" /\ ids'[t][k] = ids[t][k]
         \/ row' = row /\ \A i \in ids'[t][k] : Ended(i)
<1>1. CASE PruneDoom(s, j)
  BY <1>1 DEF PruneDoom, Goto, TypeOK
<1>2. ASSUME NEW at, at # "delete", pc' = [pc EXCEPT ![s][j] = at],
             NEW x \in SUBSET Job, ids' = ids \/ ids' = [ids EXCEPT ![s][j] = x]
      PROVE  pc[t][k] = "delete" /\ ids'[t][k] = ids[t][k]
  <2>1. t # s \/ k # j
    BY <1>2 DEF TypeOK
  <2>2. pc'[t][k] = pc[t][k] /\ ids'[t][k] = ids[t][k]
    BY <1>2, <2>1 DEF TypeOK
  <2>3. QED BY <2>2
<1>3. CASE PruneKeep(s, j)
  BY <1>2, <1>3 DEF PruneKeep, Retained, Goto
<1>4. CASE PruneDelete(s, j)
  <2>1. pc' = [pc EXCEPT ![s][j] = "idle"] /\ ids' = [ids EXCEPT ![s][j] = {}]
    BY <1>4 DEF PruneDelete, Goto
  <2>2. "idle" # "delete" /\ {} \in SUBSET Job
    OBVIOUS
  <2>3. QED BY <1>2, <2>1, <2>2, Zenon
<1>5. CASE Claim(s, j) \/ ClaimRefused(s, j) \/ ApplyPage(s, j)
  BY <1>2, <1>5 DEF Claim, ClaimRefused, ApplyPage, Goto, NextPage
<1>6. CASE StoreRead(s, j) \/ FinishRead(s, j) \/ FailRead(s, j)
  BY <1>2, <1>6 DEF StoreRead, FinishRead, FailRead, Select, Goto
<1>7. CASE StoreWrite(s, j) \/ FinishWrite(s, j) \/ FailWrite(s, j)
  BY <1>2, <1>7 DEF StoreWrite, FinishWrite, FailWrite, Update, Goto, NextPage
<1>8. CASE StoreMissed(s, j)
  BY <1>2, <1>8 DEF StoreMissed, Goto
<1>9. QED
  BY <1>1, <1>3, <1>4, <1>5, <1>6, <1>7, <1>8 DEF WorkerStep

\* The status of a row after such a step: an ended job stays so until it is
\* deleted, and only an ended job is deleted.
LEMMA StatusEffect ==
  ASSUME IInv, InStep, NEW s \in Server, NEW j \in Job, WorkerStep(s, j), NEW k \in Job
  PROVE  /\ Ended(k) => row'[k].status \in Terminal \cup {"deleted"}
         /\ row[k].status = "deleted" => row'[k].status = "deleted"
         /\ row'[k].status = "deleted" => row[k].status \in Terminal \cup {"deleted"}
<1>1. TypeOK /\ PageInRange
  BY DEF IInv
<1>2. /\ pc[s][j] \notin {"fail", "failing"}
      /\ pc[s][j] \in {"storing", "finishing"} => row[j].status = "running"
      /\ pc[s][j] = "delete" => \A i \in ids[s][j] : row[i].status \in Terminal \cup {"deleted"}
  BY DEF InStep, Working
<1>3. \/ row'[k] = row[k]
      \/ k = j /\ Claimable(j) /\ row'[k].status = "running"
      \/ k = j /\ row[k].status = "running" /\ row'[k].status \in {"running", "completed"}
      \/ row[k].status \in Terminal \cup {"deleted"} /\ row'[k].status = "deleted"
  BY <1>1, <1>2, CountEffect
<1>4. QED BY <1>3 DEF Ended, Terminal, Claimable

\* The lease keeps every other worker of the job away from the counts.
LEMMA WorkerInStep ==
  ASSUME IInv, Prompt, InStep, NEW s \in Server, NEW j \in Job, WorkerStep(s, j)
  PROVE  InStep'
<1> USE ConstantsAssumption
<1>1. TypeOK /\ PageInRange /\ LeaseHeld /\ OneWorker
  BY DEF IInv
<1>2. /\ faults = 0 /\ CountsExact
      /\ \A t \in Server, k \in Job :
           /\ pc[t][k] \notin {"fail", "failing"}
           /\ pc[t][k] \in Working => row[k].status = "running" /\ page[t][k] = row[k].done
           /\ pc[t][k] \in {"storing", "finishing"} =>
                seen[t][k].done = row[k].done /\ seen[t][k].counted = row[k].counted
           /\ pc[t][k] = "delete" => \A i \in ids[t][k] : row[i].status \in Terminal \cup {"deleted"}
  BY DEF InStep
<1>3. \A k \in Job : row[k].done \in 0..Pages /\ row[k].counted \in Nat
  BY <1>1 DEF TypeOK, Row
<1>4. faults' = 0
  BY <1>1, <1>2, WorkerFrame DEF world
<1>5. pc[s][j] \in Working \/ (pc[s][j] = "queued" /\ Claimable(j))
      => \A t \in Server : t # s => pc[t][j] \notin Working
  BY <1>1, HeldIsNotClaimable DEF OneWorker
<1>6. pc'[s][j] \notin {"fail", "failing"}
  BY <1>1, <1>2, CountEffect
<1>7. ASSUME NEW t \in Server, NEW k \in Job, t # s \/ k # j, pc'[t][k] \in Working
      PROVE  /\ row'[k].done = row[k].done /\ row'[k].counted = row[k].counted
             /\ row'[k].status = "running"
  <2>1. pc[t][k] \in Working /\ row[k].status = "running"
    BY <1>1, <1>2, <1>7, WorkerFrame
  <2>2. CASE k = j
    <3>1. t # s /\ pc[t][j] \in Working
      BY <1>7, <2>1, <2>2
    <3>2. pc[s][j] \notin Working /\ ~(pc[s][j] = "queued" /\ Claimable(j))
      BY <1>5, <3>1
    <3>3. row'[j] = row[j] \/ (pc[s][j] = "delete" /\ j \in ids[s][j])
      BY <1>1, <1>2, <3>2, CountEffect DEF Working
    <3>4. QED BY <1>2, <2>1, <2>2, <3>3 DEF Terminal
  <2>3. CASE k # j
    <3>1. row'[k] = row[k] \/ (pc[s][j] = "delete" /\ k \in ids[s][j])
      BY <1>1, <1>2, <2>3, CountEffect
    <3>2. QED BY <1>2, <2>1, <3>1 DEF Terminal
  <2>4. QED BY <2>2, <2>3
<1>8. ASSUME NEW t \in Server, NEW k \in Job
      PROVE  /\ pc'[t][k] \notin {"fail", "failing"}
             /\ pc'[t][k] \in Working => row'[k].status = "running" /\ page'[t][k] = row'[k].done
             /\ pc'[t][k] \in {"storing", "finishing"} =>
                  seen'[t][k].done = row'[k].done /\ seen'[t][k].counted = row'[k].counted
  <2>1. CASE t # s \/ k # j
    <3>1. /\ pc'[t][k] = pc[t][k] /\ page'[t][k] = page[t][k] /\ seen'[t][k] = seen[t][k]
      BY <1>1, <2>1, WorkerFrame
    <3>2. QED BY <1>2, <1>7, <2>1, <3>1 DEF Working
  <2>2. CASE t = s /\ k = j
    <3>1. pc'[s][j] \in Working => row'[j].status = "running" /\ page'[s][j] = row'[j].done
      BY <1>1, <1>2, CountEffect DEF Working
    <3>2. pc'[s][j] \in {"storing", "finishing"} =>
            seen'[s][j].done = row'[j].done /\ seen'[s][j].counted = row'[j].counted
      BY <1>1, <1>2, CountEffect DEF Working
    <3>3. QED BY <1>6, <2>2, <3>1, <3>2
  <2>3. QED BY <2>1, <2>2
<1>9. ASSUME NEW k \in Job
      PROVE  /\ row'[k].counted = row'[k].done
             /\ row'[k].status = "completed" => row'[k].done = Pages
  <2>1. row[k].counted = row[k].done /\ (row[k].status = "completed" => row[k].done = Pages)
    BY <1>2 DEF CountsExact
  <2>2. pc[s][j] = "storing" => seen[s][j].counted = row[j].done /\ page[s][j] = row[j].done
    BY <1>2 DEF CountsExact, Working
  <2>3. pc[s][j] = "finishing" => seen[s][j].counted = seen[s][j].done /\ seen[s][j].done = Pages
    BY <1>1, <1>2 DEF CountsExact, Working, PageInRange
  <2>4. QED BY <1>1, <1>2, <2>1, <2>2, <2>3, CountEffect
<1>10. ASSUME NEW t \in Server, NEW k \in Job, pc'[t][k] = "delete", NEW i \in ids'[t][k]
       PROVE  row'[i].status \in Terminal \cup {"deleted"}
  <2>1. i \in Job
    BY <1>1, WorkerType DEF TypeOK
  <2>2. \/ row[i].status \in Terminal \cup {"deleted"}
        \/ row' = row /\ Ended(i)
    BY <1>1, <1>2, <1>10, DoomEffect
  <2>3. QED BY <2>1, <2>2, StatusEffect DEF Ended
<1>11. QED BY <1>4, <1>8, <1>9, <1>10 DEF InStep, CountsExact

LEMMA QuietStep ==
  ASSUME IInv, QuietInv, [Next]_vars
  PROVE  QuietInv'
<1> SUFFICES ASSUME Prompt, MaxFaults = 0 PROVE InStep'
  BY DEF QuietInv
<1>1. /\ TypeOK /\ LeaseHeld /\ InStep
  BY DEF IInv, QuietInv
<1>2. ASSUME UNCHANGED faults,
             \A s \in Server, j \in Job :
               \/ pc'[s][j] \in {"idle", "queued"}
               \/ /\ pc'[s][j] = pc[s][j] /\ page'[s][j] = page[s][j]
                  /\ seen'[s][j] = seen[s][j] /\ ids'[s][j] = ids[s][j],
             \A j \in Job : \/ row'[j] = row[j]
                            \/ /\ row[j].status = "absent" /\ row'[j].status = "pending"
                               /\ row'[j].done = 0 /\ row'[j].counted = 0
      PROVE  InStep'
  <2>1. ASSUME NEW s \in Server, NEW j \in Job, pc'[s][j] \in Working
        PROVE  pc[s][j] \in Working /\ row'[j] = row[j]
    BY <1>1, <1>2, <2>1, HeldIsNotClaimable DEF Working
  <2>2. ASSUME NEW s \in Server, NEW j \in Job
        PROVE  /\ pc'[s][j] \notin {"fail", "failing"}
               /\ pc'[s][j] \in Working => row'[j].status = "running" /\ page'[s][j] = row'[j].done
               /\ pc'[s][j] \in {"storing", "finishing"} =>
                    seen'[s][j].done = row'[j].done /\ seen'[s][j].counted = row'[j].counted
    BY <1>1, <1>2, <2>1 DEF InStep, Working
  <2>3. CountsExact'
    BY <1>1, <1>2 DEF InStep, CountsExact
  <2>4. ASSUME NEW s \in Server, NEW j \in Job, pc'[s][j] = "delete", NEW k \in ids'[s][j]
        PROVE  row'[k].status \in Terminal \cup {"deleted"}
    <3>1. pc[s][j] = "delete" /\ ids'[s][j] = ids[s][j]
      BY <1>2, <2>4
    <3>2. k \in Job /\ row[k].status \in Terminal \cup {"deleted"}
      BY <1>1, <2>4, <3>1 DEF InStep, TypeOK
    <3>3. QED BY <1>2, <3>2 DEF Terminal
  <2>5. QED BY <1>1, <1>2, <2>2, <2>3, <2>4 DEF InStep
<1>3. ASSUME NEW s \in Server, Start(s) PROVE InStep'
  BY <1>1, <1>2, <1>3 DEF Start, TypeOK
<1>4. ASSUME NEW s \in Server, Crash(s) PROVE InStep'
  BY <1>1, <1>2, <1>4 DEF Crash, Halt, TypeOK
<1>5. ASSUME NEW s \in Server, NEW j \in Job, Create(s, j) PROVE InStep'
  <2> DEFINE n == 1 + Cardinality({k \in Job : row[k] # NoRow})
             q == [NoRow EXCEPT !.status = "pending", !.born = n]
  <2>1. q.status = "pending" /\ q.done = 0 /\ q.counted = 0
    <3> HIDE DEF n
    <3>1. QED BY DEF NoRow
  <2>2. /\ row' = [row EXCEPT ![j] = q] /\ row[j].status = "absent"
        /\ pc' = [pc EXCEPT ![s][j] = "queued"] /\ UNCHANGED <<page, seen, ids, faults>>
    BY <1>5 DEF Create, Goto, world
  <2> HIDE DEF q
  <2>3. QED BY <1>1, <1>2, <2>1, <2>2 DEF TypeOK
<1>6. ASSUME NEW s \in Server, NEW j \in Job, Fault(s, j) PROVE FALSE
  BY <1>1, <1>6 DEF Fault, InStep
<1>7. CASE Tick
  BY <1>2, <1>7 DEF Tick, worker
<1>8. CASE UNCHANGED vars
  BY <1>2, <1>8 DEF vars, worker, world
<1>9. QED
  BY <1>1, <1>3, <1>4, <1>5, <1>6, <1>7, <1>8, WorkerInStep DEF Next, ServerStep, JobStep

-----------------------------------------------------------------------------
LEMMA InvHolds == Spec => []IInv
<1>1. IInv /\ [Next]_vars => IInv'
  BY TypeStep, BehindStep, HoldStep DEF IInv
<1>2. QED BY <1>1, InvInit, PTL DEF Spec

LEMMA QuietHolds == Spec => []QuietInv
<1>1. Init => QuietInv
  <2>1. Init => InStep
    BY DEF Init, InStep, CountsExact, Everywhere, NoRow, Working
  <2>2. QED BY <2>1 DEF QuietInv
<1>2. IInv /\ QuietInv /\ [Next]_vars => QuietInv'
  BY QuietStep
<1>3. QED BY <1>1, <1>2, InvHolds, PTL DEF Spec

\* Every variable keeps its type, pageIndex staying below the number of pages.
THEOREM TypeCorrect == Spec => []TypeOK
<1>1. IInv => TypeOK
  BY DEF IInv
<1>2. QED BY <1>1, InvHolds, PTL

\* However workers overlap, crash, fail and overwrite each other's rows, the
\* page loop of processTruthBackgroundJob skips no page: a completed job has
\* applied every one.
THEOREM NoPageIsSkipped == Spec => []PagesApplied
<1>1. IInv => PagesApplied
  BY DEF IInv
<1>2. QED BY <1>1, InvHolds, PTL

\* The lease that the claim takes and every stored page renews keeps a second
\* worker out as long as each step of the first ends within it.
THEOREM LeaseExcludes == Spec => []OneWorker
<1>1. IInv => OneWorker
  BY DEF IInv
<1>2. QED BY <1>1, InvHolds, PTL

\* When every step ends within the lease and no database call throws, every
\* page is counted once, whatever crashes: a worker that takes over starts at
\* completedPages, and no other one holds a copy of the row it writes.
THEOREM CountsAreExact == Spec => [](Prompt /\ MaxFaults = 0 => CountsExact)
<1>1. QuietInv => (Prompt /\ MaxFaults = 0 => CountsExact)
  BY DEF QuietInv, InStep
<1>2. QED BY <1>1, QuietHolds, PTL

\* The rows change only in a worker's step, a creation apart.
LEMMA RowStep ==
  ASSUME IInv, InStep, [Next]_vars, MaxFaults = 0, NEW k \in Job
  PROVE  /\ Ended(k) => row'[k].status \in Terminal \cup {"deleted"}
         /\ row'[k].status = "deleted" => row[k].status \in Terminal \cup {"deleted"}
<1>1. TypeOK
  BY DEF IInv
<1>2. CASE row'[k] = row[k]
  BY <1>2 DEF Ended
<1>3. ASSUME NEW s \in Server, NEW j \in Job, Create(s, j)
      PROVE  row'[k] = row[k] \/ (row[k].status = "absent" /\ row'[k].status = "pending")
  BY <1>1, <1>3, CreatedRow DEF Create
<1>4. ASSUME NEW s \in Server, NEW j \in Job, Fault(s, j) PROVE FALSE
  BY <1>1, <1>4 DEF Fault, InStep
<1>5. row' = row \/ \E s \in Server, j \in Job : Create(s, j) \/ WorkerStep(s, j)
  BY <1>4 DEF Next, ServerStep, JobStep, Start, Crash, Halt, Tick, vars
<1>6. QED BY <1>2, <1>3, <1>5, StatusEffect DEF Ended, Terminal

\* Under the same conditions a job that ended stays so until it is deleted:
\* no worker that was overtaken writes running over it.
THEOREM JobsEndOnce == Prompt /\ MaxFaults = 0 => (Spec => EndsOnce)
<1> SUFFICES ASSUME Prompt, MaxFaults = 0 PROVE Spec => EndsOnce
  OBVIOUS
<1>1. QuietInv /\ IInv /\ [Next]_vars
      => [\A j \in Job : Ended(j) => row'[j].status \in Terminal \cup {"deleted"}]_vars
  BY RowStep DEF QuietInv
<1>2. QED BY <1>1, QuietHolds, InvHolds, PTL DEF Spec, EndsOnce

\* And a prune's DELETE, which does not look at the status, hits ended jobs
\* only: what its two SELECTs saw has not changed.
THEOREM LiveAreSpared == Prompt /\ MaxFaults = 0 => (Spec => PruneSparesLive)
<1> SUFFICES ASSUME Prompt, MaxFaults = 0 PROVE Spec => PruneSparesLive
  OBVIOUS
<1>1. QuietInv /\ IInv /\ [Next]_vars
      => [\A j \in Job : row'[j].status = "deleted" => row[j].status \in Terminal \cup {"deleted"}]_vars
  BY RowStep DEF QuietInv
<1>2. QED BY <1>1, QuietHolds, InvHolds, PTL DEF Spec, PruneSparesLive

-----------------------------------------------------------------------------
(***************************************************************************)
(* The bound on the history.  A job that ends leaves a worker that prunes; *)
(* what the last of them leaves is bounded, because the jobs that it did   *)
(* not see end have workers of their own that still have to prune.  Until  *)
(* then it rests on the order of the jobs, by finishedAt and then by       *)
(* createdAt: it is total, so a prune retains no more than Retention.      *)
(***************************************************************************)

\* The jobs that were ever created.
Made == {j \in Job : row[j] # NoRow}

\* createdAt tells the jobs apart.
RowsRanked ==
  /\ \A j \in Job : row[j].status = "absent" => row[j] = NoRow
  /\ \A j \in Made : row[j].born <= Cardinality(Made)
  /\ \A j, k \in Made : j # k => row[j].born # row[k].born

\* So it does in the copies that are written back.  A worker belongs to a server
\* that runs and to a job that was created.
WorkersRanked ==
  \A s \in Server, j \in Job :
    /\ pc[s][j] # "idle" => row[j].status # "absent"
    /\ s \notin up => pc[s][j] = "idle"
    /\ pc[s][j] \in {"storing", "finishing", "failing"} => seen[s][j].born = row[j].born

Ranked == RowsRanked /\ WorkersRanked

EndedJobs == {j \in Job : Ended(j)}

\* The worker of j on s has yet to prune, and what it will leave is bounded.
Pruning(s, j) ==
  \/ pc[s][j] \in {"fail", "failing", "keep", "doom"}
  \/ pc[s][j] = "delete" /\ Cardinality(EndedJobs \ ids[s][j]) <= Retention

HistoryInv ==
  /\ \A s \in Server, j \in Job : pc[s][j] = "doom" => Cardinality(ids[s][j]) <= Retention
  /\ faults = 0 => \A s \in Server, j \in Job : ~caught[s][j]
  /\ crashes = 0 /\ faults <= 1 =>
       \/ Cardinality(EndedJobs) <= Retention
       \/ \E s \in Server, j \in Job : Pruning(s, j)

\* Of any ended jobs one is the oldest: all the others are newer.
LEMMA Oldest ==
  ASSUME TypeOK, Ranked, NEW A, A \subseteq EndedJobs, A # {}
  PROVE  \E m \in A : \A k \in A : k # m => Newer(k, m)
<1>0. \A k \in A : /\ k \in Job /\ k \in Made /\ row[k].finished \in Nat /\ row[k].born \in Nat
  <2> TAKE k \in A
  <2>1. k \in Job /\ row[k].status \in {"completed", "failed"} /\ row[k] \in Row
    BY DEF EndedJobs, Ended, Terminal, TypeOK
  <2>2. NoRow.status = "absent"
    BY DEF NoRow
  <2>3. QED BY <2>1, <2>2 DEF Row, Made
<1>1. PICK f \in {row[k].finished : k \in A} : \A g \in {row[k].finished : k \in A} : f <= g
  <2> DEFINE T == {row[k].finished : k \in A}
  <2>1. T \subseteq Nat /\ T # {}
    BY <1>0
  <2> HIDE DEF T
  <2>2. \E f \in T : \A g \in T : f <= g
    BY <2>1, Least
  <2>3. QED BY <2>2 DEF T
<1> DEFINE B == {k \in A : row[k].finished = f}
<1>2. PICK b \in {row[k].born : k \in B} : \A g \in {row[k].born : k \in B} : b <= g
  <2> DEFINE T == {row[k].born : k \in B}
  <2>1. T \subseteq Nat /\ T # {}
    BY <1>0, <1>1
  <2> HIDE DEF T
  <2>2. \E b \in T : \A g \in T : b <= g
    BY <2>1, Least
  <2>3. QED BY <2>2 DEF T
<1>3. PICK m \in B : row[m].born = b
  BY <1>2
<1>4. ASSUME NEW k \in A, k # m PROVE Newer(k, m)
  <2>1. row[m].finished = f /\ f <= row[k].finished
    BY <1>1, <1>3
  <2>2. CASE row[k].finished = f
    <3>1. row[m].born <= row[k].born
      BY <1>2, <1>3, <2>2
    <3>2. row[m].born # row[k].born
      BY <1>0, <1>3, <1>4 DEF Ranked, RowsRanked
    <3>3. QED BY <1>0, <1>3, <2>1, <2>2, <3>1, <3>2 DEF Newer
  <2>3. CASE row[k].finished # f
    BY <1>0, <1>3, <2>1, <2>3 DEF Newer
  <2>4. QED BY <2>2, <2>3
<1>5. QED BY <1>3, <1>4

\* What the first SELECT of a prune returns.
LEMMA RetainedBound ==
  ASSUME TypeOK, Ranked
  PROVE  Cardinality(Retained) <= Retention
<1>1. Retained \subseteq EndedJobs /\ EndedJobs \subseteq Job /\ IsFiniteSet(Job) /\ Retention \in Nat
  BY ConstantsAssumption DEF Retained, EndedJobs
<1>2. IsFiniteSet(Retained)
  BY <1>1, FS_Subset
<1>3. CASE Retained = {}
  BY <1>1, <1>3, FS_EmptySet
<1>4. CASE Retained # {}
  <2>1. PICK m \in Retained : \A k \in Retained : k # m => Newer(k, m)
    BY <1>1, <1>4, Oldest
  <2> DEFINE N == {k \in Job : Ended(k) /\ Newer(k, m)}
  <2>2. Retained \ {m} \subseteq N
    BY <1>1, <2>1 DEF EndedJobs
  <2>3. IsFiniteSet(N) /\ Cardinality(N) \in Nat
    BY <1>1, FS_Subset, FS_CardinalityType
  <2>4. Cardinality(N) < Retention
    BY <2>1 DEF Retained
  <2> HIDE DEF N
  <2>5. Cardinality(Retained \ {m}) <= Cardinality(N)
    BY <2>2, <2>3, FS_Subset
  <2>6. Cardinality(Retained) \in Nat /\ Cardinality(Retained \ {m}) = Cardinality(Retained) - 1
    BY <1>2, FS_CardinalityType, FS_RemoveElement
  <2>7. QED BY <1>1, <2>3, <2>4, <2>5, <2>6
<1>5. QED BY <1>3, <1>4

\* Every row is as it was, or still that of the same job.
RowsKept ==
  \A k \in Job : \/ row'[k] = row[k]
                 \/ /\ row[k].status # "absent" /\ row'[k].status # "absent"
                    /\ row'[k].born = row[k].born

\* The writes keep createdAt.
LEMMA BornOperators ==
  ASSUME NEW r \in Row
  PROVE  /\ \A end : Closed(r, end).born = r.born /\ Closed(r, end).status = end
         /\ \A n : Stored(r, n).born = r.born /\ Stored(r, n).status = "running"
  BY DEF Row, Closed, Stored

LEMMA WorkerKeepsRows ==
  ASSUME TypeOK, Ranked, NEW s \in Server, NEW j \in Job, WorkerStep(s, j)
  PROVE  RowsKept
<1>0. seen[s][j] \in Row /\ row[j] \in Row
  BY DEF TypeOK
<1>1. CASE Claim(s, j)
  <2> DEFINE q == [row[j] EXCEPT !.status = "running", !.expires = clock + Term]
  <2>1. row' = [row EXCEPT ![j] = q] /\ row \in [Job -> Row]
    BY <1>1 DEF Claim, TypeOK
  <2>2. q.status = "running" /\ q.born = row[j].born
    BY <1>0 DEF Row
  <2>3. row[j].status # "absent"
    BY <1>1 DEF Claim, Claimable
  <2> HIDE DEF q
  <2>4. QED BY <2>1, <2>2, <2>3 DEF RowsKept
<1>2. CASE StoreWrite(s, j) \/ FinishWrite(s, j) \/ FailWrite(s, j)
  <2>1. pc[s][j] \in {"storing", "finishing", "failing"}
    BY <1>2 DEF StoreWrite, FinishWrite, FailWrite, Goto
  <2>2. seen[s][j].born = row[j].born
    BY <2>1 DEF Ranked, WorkersRanked
  <2>3. PICK r : Update(s, j, r) /\ r.born = row[j].born /\ r.status # "absent"
    BY <1>0, <1>2, <2>2, BornOperators DEF StoreWrite, FinishWrite, FailWrite
  <2>4. row' = row \/ (row[j].status # "absent" /\ row' = [row EXCEPT ![j] = r])
    BY <2>3 DEF Update, Exists
  <2>5. QED BY <2>3, <2>4 DEF RowsKept, TypeOK
<1>3. CASE PruneDelete(s, j)
  <2>1. ASSUME NEW k \in Job
        PROVE  \/ row'[k] = row[k]
               \/ Exists(k) /\ row'[k] = [row[k] EXCEPT !.status = "deleted"]
    BY <1>3 DEF PruneDelete
  <2>2. \A r \in Row : [r EXCEPT !.status = "deleted"].status = "deleted"
                      /\ [r EXCEPT !.status = "deleted"].born = r.born
    BY DEF Row
  <2>3. ASSUME NEW k \in Job, row'[k] # row[k]
        PROVE  row[k].status # "absent" /\ row'[k].status = "deleted" /\ row'[k].born = row[k].born
    <3>1. row[k] \in Row /\ Exists(k) /\ row'[k] = [row[k] EXCEPT !.status = "deleted"]
      BY <2>1, <2>3 DEF TypeOK
    <3>2. QED BY <2>2, <3>1 DEF Exists
  <2>4. QED BY <2>3 DEF RowsKept
<1>4. CASE \/ ClaimRefused(s, j) \/ ApplyPage(s, j) \/ StoreRead(s, j) \/ StoreMissed(s, j)
           \/ FinishRead(s, j) \/ FailRead(s, j) \/ PruneKeep(s, j) \/ PruneDoom(s, j)
  BY <1>4 DEF ClaimRefused, ApplyPage, StoreRead, StoreMissed, FinishRead, FailRead, PruneKeep,
              PruneDoom, Select, RowsKept
<1>5. QED BY <1>1, <1>2, <1>3, <1>4 DEF WorkerStep

\* A step of a worker's program, and the copy it takes.
LEMMA WorkerPlace ==
  ASSUME TypeOK, NEW s \in Server, NEW j \in Job, WorkerStep(s, j)
  PROVE  /\ pc[s][j] # "idle"
         /\ pc'[s][j] \in {"storing", "finishing", "failing"} => seen'[s][j] = row[j] /\ row' = row
<1> USE DEF TypeOK, Goto
<1>1. CASE StoreRead(s, j) \/ FinishRead(s, j) \/ FailRead(s, j)
  BY <1>1 DEF StoreRead, FinishRead, FailRead, Select
<1>2. CASE Claim(s, j) \/ ClaimRefused(s, j) \/ ApplyPage(s, j)
  BY <1>2 DEF Claim, ClaimRefused, ApplyPage, NextPage
<1>3. CASE StoreWrite(s, j) \/ FinishWrite(s, j) \/ FailWrite(s, j) \/ StoreMissed(s, j)
  BY <1>3 DEF StoreWrite, FinishWrite, FailWrite, StoreMissed, NextPage
<1>4. CASE PruneKeep(s, j) \/ PruneDoom(s, j) \/ PruneDelete(s, j)
  BY <1>4 DEF PruneKeep, PruneDoom, PruneDelete
<1>5. QED BY <1>1, <1>2, <1>3, <1>4 DEF WorkerStep

\* Such rows stay ranked.
LEMMA RowsKeptRanked ==
  ASSUME RowsRanked, RowsKept
  PROVE  RowsRanked'
<1>1. \A k \in Job : row'[k].status = "absent" => row'[k] = row[k]
  BY DEF RowsKept
<1>2. NoRow.status = "absent"
  BY DEF NoRow
<1>3. Made' = Made /\ \A k \in Made : row'[k].born = row[k].born
  BY <1>2 DEF Made, RowsKept, RowsRanked
<1>4. QED BY <1>1, <1>3, Zenon DEF RowsRanked, Made

\* A step that leaves every worker alone, or sends it to its catch block.
LEMMA WorkersKeptRanked ==
  ASSUME Ranked, RowsKept, up' = up,
         \A s \in Server, j \in Job :
           \/ pc'[s][j] = pc[s][j] /\ seen'[s][j] = seen[s][j]
           \/ pc'[s][j] = "fail" /\ pc[s][j] # "idle"
  PROVE  Ranked'
<1>1. RowsRanked'
  BY RowsKeptRanked DEF Ranked
<1>2. \A k \in Job : row[k].status # "absent"
        => row'[k].status # "absent" /\ row'[k].born = row[k].born
  BY DEF RowsKept
<1>3. ASSUME NEW s \in Server, NEW j \in Job
      PROVE  /\ pc'[s][j] # "idle" => row'[j].status # "absent"
             /\ s \notin up' => pc'[s][j] = "idle"
             /\ pc'[s][j] \in {"storing", "finishing", "failing"} => seen'[s][j].born = row'[j].born
  BY <1>2 DEF Ranked, WorkersRanked
<1>4. QED BY <1>1, <1>3 DEF Ranked, WorkersRanked

LEMMA WorkerRanked ==
  ASSUME TypeOK, Ranked, NEW s \in Server, NEW j \in Job, WorkerStep(s, j)
  PROVE  Ranked'
<1>0. RowsKept
  BY WorkerKeepsRows
<1>1. RowsRanked'
  BY <1>0, RowsKeptRanked DEF Ranked
<1>2. \A k \in Job : row[k].status # "absent"
        => row'[k].status # "absent" /\ row'[k].born = row[k].born
  BY <1>0 DEF RowsKept
<1>3. up' = up
  BY WorkerFrame DEF world
<1>4. ASSUME NEW t \in Server, NEW k \in Job
      PROVE  /\ pc'[t][k] # "idle" => row'[k].status # "absent"
             /\ t \notin up' => pc'[t][k] = "idle"
             /\ pc'[t][k] \in {"storing", "finishing", "failing"} => seen'[t][k].born = row'[k].born
  <2>1. CASE t = s /\ k = j
    <3>1. pc[s][j] # "idle" /\ row[j].status # "absent" /\ s \in up
      BY WorkerPlace DEF Ranked, WorkersRanked
    <3>2. QED BY <1>2, <1>3, <2>1, <3>1, WorkerPlace
  <2>2. CASE t # s \/ k # j
    BY <1>2, <1>3, <2>2, WorkerFrame DEF Ranked, WorkersRanked
  <2>3. QED BY <2>1, <2>2
<1>5. QED BY <1>1, <1>4 DEF Ranked, WorkersRanked

\* A new job is the youngest.
LEMMA CreateRanked ==
  ASSUME TypeOK, Ranked, NEW s \in Server, NEW j \in Job, Create(s, j)
  PROVE  Ranked'
<1> DEFINE n == 1 + Cardinality(Made)
           q == [NoRow EXCEPT !.status = "pending", !.born = n]
<1>1. IsFiniteSet(Made) /\ Cardinality(Made) \in Nat
  BY FS_Subset, FS_CardinalityType, ConstantsAssumption DEF Made
<1>2. row[j] = NoRow /\ s \in up /\ row' = [row EXCEPT ![j] = q]
  BY DEF Create, Ranked, RowsRanked, Made
<1> HIDE DEF n
<1>3. q.status = "pending" /\ q.born = n /\ q # NoRow
  BY DEF NoRow
<1> HIDE DEF q
<1>4. /\ row'[j] = q /\ \A k \in Job : k # j => row'[k] = row[k]
      /\ pc'[s][j] = "queued" /\ seen' = seen /\ up' = up
      /\ \A t \in Server, k \in Job : t # s \/ k # j => pc'[t][k] = pc[t][k]
  BY <1>2 DEF Create, Goto, TypeOK, world
<1>5. Made' = Made \cup {j} /\ j \notin Made
  BY <1>2, <1>3, <1>4 DEF Made
<1>6. Cardinality(Made') = n
  <2>1. Cardinality(Made \cup {j}) = Cardinality(Made) + 1
    BY <1>1, <1>5, FS_AddElement
  <2>2. QED BY <1>1, <1>5, <2>1 DEF n
<1>7. \A k \in Made : k \in Job /\ row[k].born <= Cardinality(Made) /\ row[k].born \in Nat
                     /\ row'[k] = row[k]
  BY <1>4, <1>5 DEF Ranked, RowsRanked, Made, TypeOK, Row
<1>8. \A k \in Made' : row'[k].born <= n /\ (k # j => row'[k].born < n)
  BY <1>1, <1>3, <1>4, <1>5, <1>7 DEF n
<1>9. \A k, l \in Made' : k # l => row'[k].born # row'[l].born
  <2> TAKE k, l \in Made'
  <2>1. CASE k \in Made /\ l \in Made
    BY <1>7, <2>1 DEF Ranked, RowsRanked
  <2>2. CASE k = j \/ l = j
    BY <1>1, <1>3, <1>4, <1>5, <1>7, <1>8, <2>2 DEF n
  <2>3. QED BY <1>5, <2>1, <2>2
<1>10. \A k \in Job : row'[k].status = "absent" => row'[k] = NoRow
  BY <1>3, <1>4 DEF Ranked, RowsRanked
<1>11. RowsRanked'
  BY <1>6, <1>8, <1>9, <1>10 DEF RowsRanked
<1>12. ASSUME NEW t \in Server, NEW k \in Job
       PROVE  /\ pc'[t][k] # "idle" => row'[k].status # "absent"
              /\ t \notin up' => pc'[t][k] = "idle"
              /\ pc'[t][k] \in {"storing", "finishing", "failing"} => seen'[t][k].born = row'[k].born
  <2>1. CASE t = s /\ k = j
    BY <1>2, <1>3, <1>4, <2>1
  <2>2. CASE t # s /\ k = j
    <3>1. pc[t][j] = "idle"
      BY <1>2, <2>2 DEF Ranked, WorkersRanked, NoRow
    <3>2. QED BY <1>3, <1>4, <2>2, <3>1
  <2>3. CASE k # j
    BY <1>4, <2>3 DEF Ranked, WorkersRanked
  <2>4. QED BY <2>1, <2>2, <2>3
<1>13. QED BY <1>11, <1>12 DEF Ranked, WorkersRanked

LEMMA RankedStep ==
  ASSUME TypeOK, Ranked, [Next]_vars
  PROVE  Ranked'
<1>1. row' = row => RowsKept
  BY DEF RowsKept
<1>2. row' = row => RowsRanked'
  BY <1>1, RowsKeptRanked DEF Ranked
<1>3. ASSUME NEW s \in Server, Start(s) PROVE Ranked'
  <2>1. /\ up' = up \cup {s} /\ UNCHANGED <<row, seen>>
        /\ \A t \in Server, j \in Job :
             pc'[t][j] = pc[t][j] \/ (t = s /\ pc'[t][j] = "idle")
             \/ (t = s /\ pc'[t][j] = "queued" /\ Claimable(j))
    BY <1>3 DEF Start, TypeOK, Resumable, Listed
  <2>2. WorkersRanked'
    <3> SUFFICES ASSUME NEW t \in Server, NEW j \in Job
        PROVE  /\ pc'[t][j] # "idle" => row'[j].status # "absent"
               /\ t \notin up' => pc'[t][j] = "idle"
               /\ pc'[t][j] \in {"storing", "finishing", "failing"} => seen'[t][j].born = row'[j].born
      BY DEF WorkersRanked
    <3>1. QED BY <2>1 DEF Ranked, WorkersRanked, Claimable
  <2>3. QED BY <1>2, <2>1, <2>2 DEF Ranked
<1>4. ASSUME NEW s \in Server, Halt(s) PROVE Ranked'
  <2>1. /\ up' = up \ {s} /\ row' = row
        /\ \A t \in Server, j \in Job :
             \/ t = s /\ pc'[t][j] = "idle"
             \/ t # s /\ pc'[t][j] = pc[t][j] /\ seen'[t][j] = seen[t][j]
    BY <1>4 DEF Halt, TypeOK
  <2>2. WorkersRanked'
    BY <2>1 DEF Ranked, WorkersRanked
  <2>3. QED BY <1>2, <2>1, <2>2 DEF Ranked
<1>5. ASSUME NEW s \in Server, NEW j \in Job, Fault(s, j), ~caught[s][j] PROVE Ranked'
  <2>1. /\ pc[s][j] # "idle" /\ pc' = [pc EXCEPT ![s][j] = "fail"]
        /\ seen' = [seen EXCEPT ![s][j] = NoRow] /\ UNCHANGED <<row, up>>
    BY <1>5 DEF Fault
  <2>2. QED BY <1>1, <2>1, WorkersKeptRanked DEF TypeOK
<1>6. CASE Tick \/ UNCHANGED vars
  <2>1. UNCHANGED <<row, pc, seen, up>>
    BY <1>6 DEF Tick, vars, worker, world
  <2>2. QED BY <1>1, <2>1, WorkersKeptRanked
<1>7. QED
  BY <1>3, <1>4, <1>5, <1>6, CreateRanked, WorkerRanked
  DEF Next, ServerStep, JobStep, Crash, Fault

\* What a worker's step does to the ended jobs and to a prune.
LEMMA PruneMoves ==
  ASSUME TypeOK, NEW s \in Server, NEW j \in Job, WorkerStep(s, j)
  PROVE  /\ \A t \in Server, k \in Job : t # s \/ k # j => ids'[t][k] = ids[t][k]
         /\ \A t \in Server, k \in Job : caught'[t][k] => caught[t][k]
         /\ \/ pc'[s][j] = "keep"
            \/ /\ EndedJobs' \subseteq EndedJobs
               /\ \/ /\ pc[s][j] \notin {"fail", "failing", "keep", "doom", "delete"}
                     /\ pc'[s][j] # "doom"
                  \/ pc[s][j] = "fail" /\ pc'[s][j] = "failing"
                  \/ pc[s][j] = "keep" /\ pc'[s][j] = "doom" /\ ids'[s][j] = Retained
                  \/ /\ pc[s][j] = "doom" /\ pc'[s][j] = "delete"
                     /\ EndedJobs' \ ids'[s][j] \subseteq ids[s][j]
                  \/ /\ pc[s][j] = "delete" /\ pc'[s][j] = "idle"
                     /\ EndedJobs' \subseteq EndedJobs \ ids[s][j]
<1> USE DEF TypeOK, Goto
<1>0. row' = row => EndedJobs' = EndedJobs
  BY DEF EndedJobs, Ended
<1>1. CASE FinishWrite(s, j) \/ FailWrite(s, j)
  BY <1>1 DEF FinishWrite, FailWrite, Update
<1>2. CASE Claim(s, j) \/ StoreWrite(s, j)
  <2>1. /\ pc[s][j] \in {"queued", "storing"} /\ pc'[s][j] \in {"apply", "finish"}
        /\ ids' = ids /\ caught' = caught
    BY <1>2 DEF Claim, StoreWrite, Update, NextPage
  <2>2. \A k \in Job : row'[k] = row[k] \/ row'[k].status = "running"
    <3>1. seen[s][j] \in Row
      OBVIOUS
    <3>2. CASE Claim(s, j)
      BY <3>2, ClaimedRow DEF Claim
    <3>3. CASE StoreWrite(s, j)
      <4> DEFINE r == Stored(seen[s][j], page[s][j] + 1)
      <4>1. r.status = "running"
        BY <3>1, BornOperators
      <4>2. row' = row \/ row' = [row EXCEPT ![j] = r]
        BY <3>3 DEF StoreWrite, Update
      <4> HIDE DEF r
      <4>3. QED BY <4>1, <4>2
    <3>4. QED BY <1>2, <3>2, <3>3
  <2>3. EndedJobs' \subseteq EndedJobs
    BY <2>2 DEF EndedJobs, Ended, Terminal
  <2>4. QED BY <2>1, <2>3
<1>3. CASE ClaimRefused(s, j) \/ ApplyPage(s, j)
  BY <1>0, <1>3 DEF ClaimRefused, ApplyPage
<1>4. CASE StoreRead(s, j) \/ FinishRead(s, j) \/ FailRead(s, j) \/ StoreMissed(s, j)
  BY <1>0, <1>4 DEF StoreRead, FinishRead, FailRead, StoreMissed, Select
<1>5. CASE PruneKeep(s, j)
  BY <1>0, <1>5 DEF PruneKeep
<1>6. CASE PruneDoom(s, j)
  <2>1. /\ pc[s][j] = "doom" /\ pc'[s][j] = "delete" /\ row' = row /\ caught' = caught
        /\ ids' = [ids EXCEPT ![s][j] = EndedJobs \ ids[s][j]]
    BY <1>6 DEF PruneDoom, EndedJobs
  <2>2. ids'[s][j] = EndedJobs \ ids[s][j]
    BY <2>1
  <2>3. QED BY <1>0, <2>1, <2>2
<1>7. CASE PruneDelete(s, j)
  <2>1. /\ pc[s][j] = "delete" /\ pc'[s][j] = "idle"
        /\ ids' = [ids EXCEPT ![s][j] = {}] /\ caught' = [caught EXCEPT ![s][j] = FALSE]
    BY <1>7 DEF PruneDelete
  <2>2. EndedJobs' \subseteq EndedJobs \ ids[s][j]
    <3> SUFFICES ASSUME NEW k \in Job, row'[k].status \in Terminal
                 PROVE  row[k].status \in Terminal /\ k \notin ids[s][j]
      BY DEF EndedJobs, Ended
    <3>1. row'[k] = IF k \in ids[s][j] /\ Exists(k) THEN [row[k] EXCEPT !.status = "deleted"] ELSE row[k]
      BY <1>7 DEF PruneDelete
    <3>2. [row[k] EXCEPT !.status = "deleted"].status = "deleted"
      BY DEF Row
    <3>3. QED BY <3>1, <3>2 DEF Exists, Terminal
  <2>3. QED BY <2>1, <2>2
<1>8. QED BY <1>1, <1>2, <1>3, <1>4, <1>5, <1>6, <1>7 DEF WorkerStep

\* Fewer ended jobs are as bounded.
LEMMA Fewer ==
  ASSUME NEW A, NEW B, A \subseteq B, B \subseteq Job
  PROVE  Cardinality(B) <= Retention => Cardinality(A) <= Retention
<1>1. IsFiniteSet(B)
  BY FS_Subset, ConstantsAssumption
<1>2. Cardinality(A) <= Cardinality(B) /\ Cardinality(A) \in Nat /\ Cardinality(B) \in Nat
  BY <1>1, FS_Subset, FS_CardinalityType
<1>3. QED BY <1>2, ConstantsAssumption

LEMMA WorkerHistory ==
  ASSUME TypeOK, Ranked, HistoryInv, NEW s \in Server, NEW j \in Job, WorkerStep(s, j)
  PROVE  HistoryInv'
<1>1. /\ crashes' = crashes /\ faults' = faults
      /\ \A t \in Server, k \in Job : t # s \/ k # j => pc'[t][k] = pc[t][k] /\ ids'[t][k] = ids[t][k]
  BY WorkerFrame, PruneMoves DEF world
<1>2. \A t \in Server, k \in Job : pc'[t][k] = "doom" => Cardinality(ids'[t][k]) <= Retention
  <2> TAKE t \in Server, k \in Job
  <2>1. CASE t = s /\ k = j
    BY <2>1, PruneMoves, RetainedBound
  <2>2. CASE t # s \/ k # j
    BY <1>1, <2>2 DEF HistoryInv
  <2>3. QED BY <2>1, <2>2
<1>3. faults' = 0 => \A t \in Server, k \in Job : ~caught'[t][k]
  BY <1>1, PruneMoves DEF HistoryInv
<1>4. ASSUME crashes = 0, faults <= 1
      PROVE  \/ Cardinality(EndedJobs') <= Retention
             \/ \E t \in Server, k \in Job : Pruning(t, k)'
  <2>1. CASE pc'[s][j] = "keep"
    BY <2>1 DEF Pruning
  <2>2. CASE EndedJobs' \subseteq EndedJobs
    <3>0. EndedJobs \subseteq Job
      BY DEF EndedJobs
    <3>1. CASE Cardinality(EndedJobs) <= Retention
      BY <2>2, <3>0, <3>1, Fewer
    <3>2. ASSUME NEW t \in Server, NEW k \in Job, Pruning(t, k), t # s \/ k # j
          PROVE  Pruning(t, k)'
      <4>1. EndedJobs' \ ids[t][k] \subseteq EndedJobs \ ids[t][k] /\ EndedJobs \ ids[t][k] \subseteq Job
        BY <2>2, <3>0
      <4>2. Cardinality(EndedJobs \ ids[t][k]) <= Retention
            => Cardinality(EndedJobs' \ ids[t][k]) <= Retention
        BY <4>1, Fewer
      <4>3. QED BY <1>1, <3>2, <4>2 DEF Pruning
    <3>3. CASE Pruning(s, j)
      <4>1. CASE pc'[s][j] \in {"failing", "doom"}
        BY <4>1 DEF Pruning
      <4>2. CASE pc[s][j] = "doom" /\ pc'[s][j] = "delete"
                 /\ EndedJobs' \ ids'[s][j] \subseteq ids[s][j]
        <5>1. Cardinality(ids[s][j]) <= Retention /\ ids[s][j] \subseteq Job
          BY <4>2 DEF HistoryInv, TypeOK
        <5>2. Cardinality(EndedJobs' \ ids'[s][j]) <= Retention
          BY <4>2, <5>1, Fewer
        <5>3. QED BY <4>2, <5>2 DEF Pruning
      <4>3. CASE pc[s][j] = "delete" /\ EndedJobs' \subseteq EndedJobs \ ids[s][j]
        <5>1. EndedJobs \ ids[s][j] \subseteq Job
          BY <3>0
        <5>2. Cardinality(EndedJobs \ ids[s][j]) <= Retention
          BY <3>3, <4>3 DEF Pruning
        <5>3. QED BY <4>3, <5>1, <5>2, Fewer
      <4>4. QED BY <2>1, <3>3, <4>1, <4>2, <4>3, PruneMoves DEF Pruning
    <3>4. QED BY <1>4, <3>1, <3>2, <3>3 DEF HistoryInv
  <2>3. QED BY <2>1, <2>2, PruneMoves
<1>5. QED BY <1>1, <1>2, <1>3, <1>4 DEF HistoryInv

LEMMA HistoryStep ==
  ASSUME TypeOK, Ranked, HistoryInv, [Next]_vars
  PROVE  HistoryInv'
<1> USE DEF TypeOK
<1>1. ASSUME EndedJobs' = EndedJobs, UNCHANGED <<ids, caught, crashes, faults>>,
             \A s \in Server, j \in Job : pc'[s][j] = pc[s][j] \/ (pc[s][j] = "idle" /\ pc'[s][j] # "doom")
      PROVE  HistoryInv'
  <2>1. ASSUME NEW s \in Server, NEW j \in Job, Pruning(s, j) PROVE Pruning(s, j)'
    BY <1>1, <2>1 DEF Pruning
  <2>2. QED BY <1>1, <2>1 DEF HistoryInv
<1>2. row' = row => EndedJobs' = EndedJobs
  BY DEF EndedJobs, Ended
<1>3. ASSUME NEW s \in Server, Start(s) PROVE HistoryInv'
  <2>1. /\ UNCHANGED <<row, ids, caught, crashes, faults>>
        /\ \A t \in Server, j \in Job :
             pc'[t][j] = pc[t][j] \/ (t = s /\ pc'[t][j] \in {"idle", "queued"})
    BY <1>3 DEF Start
  <2>2. \A j \in Job : pc[s][j] = "idle"
    BY <1>3 DEF Start, Ranked, WorkersRanked
  <2>3. \A t \in Server, j \in Job : pc'[t][j] = pc[t][j] \/ (pc[t][j] = "idle" /\ pc'[t][j] # "doom")
    BY <2>1, <2>2
  <2>4. QED BY <1>1, <1>2, <2>1, <2>3
<1>4. ASSUME NEW s \in Server, NEW j \in Job, Create(s, j) PROVE HistoryInv'
  <2>1. /\ pc[s][j] = "idle" /\ pc' = [pc EXCEPT ![s][j] = "queued"]
        /\ UNCHANGED <<ids, caught, crashes, faults>>
    BY <1>4 DEF Create, Goto, world
  <2>2. EndedJobs' = EndedJobs
    <3>1. row[j].status = "absent" /\ row'[j].status = "pending" /\ \A k \in Job : k # j => row'[k] = row[k]
      BY <1>4, CreatedRow DEF Create
    <3>2. QED BY <3>1 DEF EndedJobs, Ended, Terminal
  <2>3. \A t \in Server, k \in Job : pc'[t][k] = pc[t][k] \/ (pc[t][k] = "idle" /\ pc'[t][k] # "doom")
    BY <2>1
  <2>4. QED BY <1>1, <2>1, <2>2, <2>3
<1>5. ASSUME NEW s \in Server, Halt(s), crashes' # 0 \/ faults' > 1,
             faults = 0 \/ faults' # 0, faults' \in Nat
      PROVE  HistoryInv'
  <2>1. \A t \in Server, j \in Job :
          /\ pc'[t][j] = "doom" => pc[t][j] = "doom" /\ ids'[t][j] = ids[t][j]
          /\ caught'[t][j] => caught[t][j]
    BY <1>5 DEF Halt
  <2>2. ~(crashes' = 0 /\ faults' <= 1)
    BY <1>5
  <2>3. faults' = 0 => \A t \in Server, j \in Job : ~caught'[t][j]
    BY <1>5, <2>1 DEF HistoryInv
  <2>4. \A t \in Server, j \in Job : pc'[t][j] = "doom" => Cardinality(ids'[t][j]) <= Retention
    BY <2>1, Zenon DEF HistoryInv
  <2>5. QED BY <2>2, <2>3, <2>4 DEF HistoryInv
<1>6. ASSUME NEW s \in Server, Crash(s) PROVE HistoryInv'
  <2>1. crashes' # 0 /\ faults' = faults /\ faults \in Nat /\ Halt(s)
    BY <1>6 DEF Crash
  <2>2. QED BY <1>5, <2>1
<1>7. ASSUME NEW s \in Server, NEW j \in Job, Fault(s, j) PROVE HistoryInv'
  <2>1. faults' = faults + 1 /\ crashes' = crashes
    BY <1>7 DEF Fault
  <2>2. CASE caught[s][j]
    <3>1. faults' > 1 /\ Halt(s)
      BY <1>7, <2>1, <2>2 DEF Fault, HistoryInv
    <3>2. QED BY <1>5, <2>1, <3>1
  <2>3. CASE ~caught[s][j]
    <3>1. pc' = [pc EXCEPT ![s][j] = "fail"] /\ ids' = [ids EXCEPT ![s][j] = {}]
      BY <1>7, <2>3 DEF Fault
    <3>2. pc'[s][j] = "fail"
          /\ \A t \in Server, k \in Job : pc'[t][k] = "doom" => pc[t][k] = "doom" /\ ids'[t][k] = ids[t][k]
      BY <3>1
    <3>3. QED BY <2>1, <3>2 DEF HistoryInv, Pruning
  <2>4. QED BY <2>2, <2>3
<1>8. CASE Tick \/ UNCHANGED vars
  BY <1>1, <1>2, <1>8 DEF Tick, vars, worker, world
<1>9. QED
  BY <1>3, <1>4, <1>6, <1>7, <1>8, WorkerHistory DEF Next, ServerStep, JobStep

LEMMA HistoryInit == Init => Ranked /\ HistoryInv
<1> SUFFICES ASSUME Init PROVE Ranked /\ HistoryInv
  OBVIOUS
<1>1. Made = {} /\ EndedJobs = {}
  BY DEF Init, Made, EndedJobs, Ended, Terminal, NoRow
<1>2. \A s \in Server, j \in Job : pc[s][j] = "idle" /\ ~caught[s][j]
  BY DEF Init, Everywhere
<1>3. \A j \in Job : row[j] = NoRow
  BY DEF Init
<1>4. Ranked
  BY <1>1, <1>2, <1>3 DEF Ranked, RowsRanked, WorkersRanked
<1>5. Cardinality(EndedJobs) <= Retention
  BY <1>1, FS_EmptySet, ConstantsAssumption
<1>6. QED BY <1>2, <1>4, <1>5 DEF HistoryInv

\* However the prunes interleave, and whether or not the pages outlast the lease,
\* no more than Retention ended jobs are left when the workers are done, for
\* any retention and any number of jobs and servers.
THEOREM HistoryIsBounded == Spec => []HistoryBounded
<1>1. HistoryInv => HistoryBounded
  BY DEF HistoryInv, HistoryBounded, Pruning, EndedJobs
<1>2. IInv /\ Ranked /\ HistoryInv /\ [Next]_vars => Ranked' /\ HistoryInv'
  BY RankedStep, HistoryStep DEF IInv
<1>3. QED BY <1>1, <1>2, HistoryInit, InvHolds, PTL DEF Spec
=============================================================================
