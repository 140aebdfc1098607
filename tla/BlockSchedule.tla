--------------------------- MODULE BlockSchedule ---------------------------
(***************************************************************************)
(* How the blocks of one conversion are cut into batches and the batches   *)
(* are spread over worker threads.                                         *)
(*                                                                         *)
(* Source: server/src/pipeline/blockBatching.ts, workerScheduling.ts and   *)
(* createCoreFastWorkerAssignments of orchestrator.ts.                     *)
(*                                                                         *)
(* Data.  An input is the sequence of the semantic group keys of its       *)
(* blocks; a block without a key has one of its own.  A batch is the       *)
(* sequence of the positions of its blocks, an assignment a set of         *)
(* batches, because its batches are sorted by their number in the end.     *)
(***************************************************************************)
EXTENDS Naturals, SequencesExt

CONSTANTS
  Key,             \* the semantic groups
  BatchSize,       \* PIPELINE_BATCH_SIZE
  MaxConcurrency   \* PIPELINE_MAX_CONCURRENCY

ASSUME SizesAssumption == BatchSize \in Nat \ {0} /\ MaxConcurrency \in Nat \ {0}

-----------------------------------------------------------------------------
\* buildSemanticBlockBundles: the runs of neighbours with the same key.
Bundles(input) ==
  LET Add(bundles, i) ==
        IF i > 1 /\ input[i] = input[i - 1]
        THEN [bundles EXCEPT ![Len(bundles)] = Append(bundles[Len(bundles)], i)]
        ELSE Append(bundles, <<i>>)
  IN  FoldLeftDomain(Add, <<>>, input)

\* The current batch is closed, if there is anything in it.
Cut(acc) ==
  IF acc.current = <<>> THEN acc
  ELSE [batches |-> Append(acc.batches, acc.current), current |-> <<>>]

\* A bundle that does not fit starts a new batch and is never divided, also
\* when it is larger than a batch.
AddBundle(acc, bundle) ==
  LET open == IF Len(acc.current) + Len(bundle) > BatchSize THEN Cut(acc) ELSE acc
      more == [open EXCEPT !.current = open.current \o bundle]
  IN  IF Len(more.current) >= BatchSize THEN Cut(more) ELSE more

\* Mutant: a batch is filled up with the first blocks of the next bundle.
BatchesFilled(input) ==
  LET n == (Len(input) + BatchSize - 1) \div BatchSize
      last(k) == IF k * BatchSize > Len(input) THEN Len(input) ELSE k * BatchSize
  IN  [k \in 1..n |-> [i \in 1..(last(k) - (k - 1) * BatchSize) |-> (k - 1) * BatchSize + i]]

\* chunkBlocksPreservingSemanticGroups
Batches(input) ==
  Cut(FoldLeft(AddBundle, [batches |-> <<>>, current |-> <<>>], Bundles(input))).batches

-----------------------------------------------------------------------------
Load(batches, bucket) == MapThenSumSet(LAMBDA b : Len(batches[b]), bucket)

\* The heaviest batch first, of equal ones the earlier.
Before(batches, a, b) ==
  \/ Len(batches[a]) > Len(batches[b])
  \/ Len(batches[a]) = Len(batches[b]) /\ a < b

\* Mutant: the batches are dealt out in the order of the input.
LatestOf(batches, S) == Max(S)

\* The one of S that is dealt out last.
LastOf(batches, S) == CHOOSE b \in S : \A a \in S \ {b} : Before(batches, a, b)

\* The bucket with the least work, of equal ones the first.
Lightest(batches, buckets) ==
  CHOOSE k \in DOMAIN buckets : \A l \in DOMAIN buckets :
    \/ Load(batches, buckets[k]) < Load(batches, buckets[l])
    \/ Load(batches, buckets[k]) = Load(batches, buckets[l]) /\ k <= l

\* createWeightedWorkerAssignments for as many workers as
\* runBatchedCorePipelineInWorkers asks for.  The code drops empty buckets:
\* there is none, with no more workers than batches.
Assignments(input) ==
  LET batches == Batches(input)
      workers == IF Len(batches) < MaxConcurrency THEN Len(batches) ELSE MaxConcurrency
      Deal(b, buckets) ==
        LET k == Lightest(batches, buckets) IN [buckets EXCEPT ![k] = buckets[k] \union {b}]
  IN  MapThenFoldSet(Deal, [k \in 1..workers |-> {}],
                     LAMBDA b : b, LAMBDA S : LastOf(batches, S), DOMAIN batches)

-----------------------------------------------------------------------------
\* The batches are the blocks in their order; no semantic group is divided, and
\* a batch is larger than BatchSize only when it is one group.
Grouped(input) ==
  LET batches == Batches(input)
  IN  /\ FlattenSeq(batches) = [i \in DOMAIN input |-> i]
      /\ \A b \in DOMAIN batches :
           /\ batches[b] # <<>>
           /\ b > 1 => input[batches[b][1]] # input[batches[b][1] - 1]
           /\ Len(batches[b]) > BatchSize => \A i \in DOMAIN batches[b] :
                input[batches[b][i]] = input[batches[b][1]]

\* Every batch is in one assignment, no assignment is empty, and none has more
\* work than another and its own smallest batch together.
Balanced(input) ==
  LET batches == Batches(input)
      parts == Assignments(input)
  IN  /\ \A b \in DOMAIN batches : \E p \in DOMAIN parts :
           b \in parts[p] /\ \A q \in DOMAIN parts \ {p} : b \notin parts[q]
      /\ \A p, q \in DOMAIN parts :
           /\ parts[p] # {}
           /\ \A b \in parts[p] :
                Load(batches, parts[p]) <= Load(batches, parts[q]) + Len(batches[b])
=============================================================================
