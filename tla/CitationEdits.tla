---------------------------- MODULE CitationEdits ----------------------------
(***************************************************************************)
(* Edits of the citations of a finished job, with the database store.      *)
(*                                                                         *)
(* The citations of a job live twice: inside the JSON blob of the job row  *)
(* and, projected, in a table of their own.  Four handlers edit them: the  *)
(* Pro overlay (routes/proEnrich.ts), the approval of a correction and the *)
(* resolution of a report, which write alike, and the reprocessing of a    *)
(* citation (admin/workflows.ts).  Each is a chain of store calls, and     *)
(* each store call that rewrites the row reads it first without a lock.    *)
(* Others rewrite the blob and not the projection: appendJobEvent, and     *)
(* updateJob as the summary rebuild and the exports call it.  Two write    *)
(* the projection alone: the projection of a large job, which saveJob puts *)
(* off, and the saving of a version, which adds the row of its citation    *)
(* when the table lacks it.                                                *)
(*                                                                         *)
(* The fields of a citation are the set of the edits that show in them:    *)
(* edits touch different fields, and {} is what the engine extracted.      *)
(* Scores, rendering, the learning queue and the approved truth the same   *)
(* handlers write are not read back by any of them and are left out.       *)
(***************************************************************************)
EXTENDS Naturals, FiniteSets, SequencesExt

CONSTANTS
    Cites,      \* the citations of one job
    Edits,      \* edit requests (an apply request has one per overlay)
    Notes,      \* calls that rewrite the blob and leave the projection alone
    None        \* no holder, no baseline, no row

ASSUME RequestAssumption ==
    /\ None \notin Edits /\ \A S \in SUBSET Edits : S # None
    /\ Edits \cap Notes = {}

Procs == Edits \cup Notes
Fields == SUBSET Edits
Kinds == {"overlay", "restore", "approve", "reprocess"}
Versioning == {"vbase", "vsnap", "vafter"}
Steps == Versioning \cup {"idle", "base", "u1r", "u1w", "u2r", "u2w",
                          "er", "ew", "tail", "done", "failed"}
Row == [cite : [Cites -> Fields], events : SUBSET Procs]
Version == [num : Nat, source : {"original", "before", "after"}, fields : Fields]

VARIABLES
    row,        \* the blob of the job row
    proj,       \* the citations table, None for a citation without a row
    deferred,   \* saveJob has left the projection of a large job for later
    versions,   \* citation_versions, per citation in the order of commit
    lock,       \* the advisory lock of each citation's version numbers
    kind, target,   \* what each edit request asks for
    pc,         \* the next store call of each request
    seen,       \* the fields getCitation returned to it
    base,       \* the fields its overlay starts from
    snap,       \* the row its open transaction has read
    got,        \* the fields its last updateCitation returned
    ensure,     \* what its version does about the row of its citation
    num,        \* the version number it is about to insert, 0 if none
    lost,       \* a write put back citations that had changed since it read
    torn,       \* a write of one of the two copies alone put back old citations
    met,        \* citations two edits of which were under way at once
    history     \* the edits of each citation that were answered, in order

data == <<row, proj, deferred, versions, lock>>
ghosts == <<lost, torn, met, history>>
vars == <<row, proj, deferred, versions, lock, kind, target, pc, seen, base, snap, got,
          ensure, num, lost, torn, met, history>>

Ended == {"idle", "done", "failed"}
Busy(c) == {e \in Edits : pc[e] \notin Ended /\ target[e] = c}

-----------------------------------------------------------------------------
\* The marks a request leaves in the fields; restoring leaves none.
Own(e) == IF kind[e] = "restore" THEN {} ELSE {e}

IsOverlay(e) == kind[e] \in {"overlay", "restore"}
Confirmed(fields) == {e \in fields : kind[e] = "approve"}

Nums(c) == {versions[c][i].num : i \in DOMAIN versions[c]}
MaxNum(c) == IF versions[c] = <<>> THEN 0
             ELSE CHOOSE n \in Nums(c) : \A m \in Nums(c) : m <= n

Originals(c) == {i \in DOMAIN versions[c] : versions[c][i].source = "original"}

\* ensureOverlayBaselineFields: the original with the lowest version number.
Baseline(c) ==
    versions[c][CHOOSE i \in Originals(c) :
                  \A j \in Originals(c) : versions[c][i].num <= versions[c][j].num].fields

\* Mutant: the overlay is put on the fields as they are.
OverlayFieldsOnCurrent(e) == seen[e] \cup Own(e)

\* nextFields of applyOverlayToCitation.
OverlayFields(e) == base[e] \cup Own(e)

\* The row of a job as the pipeline left it; also an empty transaction.
NewRow == [cite |-> [c \in Cites |-> {}], events |-> {}]

Init ==
    /\ row = NewRow
    /\ deferred \in BOOLEAN
    /\ proj = [c \in Cites |-> IF deferred THEN None ELSE NewRow.cite[c]]
    /\ versions = [c \in Cites |-> <<>>]
    /\ lock = [c \in Cites |-> None]
    /\ kind \in [Edits -> Kinds]
    /\ target \in [Edits -> Cites]
    /\ pc = [p \in Procs |-> "idle"]
    /\ seen = [e \in Edits |-> {}]
    /\ base = [e \in Edits |-> {}]
    /\ snap = [p \in Procs |-> NewRow]
    /\ got = [e \in Edits |-> {}]
    /\ ensure = [e \in Edits |-> "none"] /\ num = [e \in Edits |-> 0]
    /\ lost = FALSE /\ torn = FALSE /\ met = {}
    /\ history = [c \in Cites |-> <<>>]

\* getCitation, the first call of each of the handlers.
Start(e) ==
    LET c == target[e] IN
    /\ pc[e] = "idle"
    /\ seen' = [seen EXCEPT ![e] = row.cite[c]]
    /\ pc' = [pc EXCEPT ![e] = IF IsOverlay(e) THEN "base" ELSE "vsnap"]
    /\ met' = IF Busy(c) # {} THEN met \cup {c} ELSE met
    /\ UNCHANGED <<data, kind, target, base, snap, got, ensure, num, lost, torn, history>>

\* ensureOverlayBaselineFields: use the saved original, or save one.
FindBaseline(e) ==
    LET c == target[e] IN
    /\ pc[e] = "base"
    /\ \/ /\ Originals(c) # {}
          /\ base' = [base EXCEPT ![e] = Baseline(c)]
          /\ pc' = [pc EXCEPT ![e] = "vsnap"]
       \/ /\ Originals(c) = {}
          /\ base' = [base EXCEPT ![e] = seen[e]]
          /\ pc' = [pc EXCEPT ![e] = "vbase"]
    /\ UNCHANGED <<data, kind, target, seen, snap, got, ensure, num, ghosts>>

\* ensureProjectedCitationExists, the first call of the transaction that saves
\* a version: the table has no row of the citation ...
FindNoRow(e) ==
    /\ pc[e] \in Versioning /\ num[e] = 0
    /\ ensure[e] = "none" /\ proj[target[e]] = None
    /\ ensure' = [ensure EXCEPT ![e] = "missing"]
    /\ UNCHANGED <<data, kind, target, pc, seen, base, snap, got, num, ghosts>>

\* ... so the citation is taken from the blob.
ReadForRow(e) ==
    /\ ensure[e] = "missing"
    /\ ensure' = [ensure EXCEPT ![e] = "read"]
    /\ snap' = [snap EXCEPT ![e] = row]
    /\ UNCHANGED <<data, kind, target, pc, seen, base, got, num, ghosts>>

\* The row of the citation is there, or what it is made of has been read.
RowEnsured(e) ==
    \/ ensure[e] = "none" /\ proj[target[e]] # None
    \/ ensure[e] = "read"

\* Mutant: no advisory lock.
VersionLockUnguarded(e) ==
    /\ pc[e] \in Versioning /\ num[e] = 0
    /\ RowEnsured(e)
    /\ num' = [num EXCEPT ![e] = MaxNum(target[e]) + 1]
    /\ UNCHANGED <<data, kind, target, pc, seen, base, snap, got, ensure, ghosts>>

\* appendCitationVersion: the upsert of the row, the advisory lock and the
\* largest number.  Nobody sees the row before the commit.
VersionLock(e) ==
    LET c == target[e] IN
    /\ pc[e] \in Versioning /\ num[e] = 0
    /\ RowEnsured(e)
    /\ lock[c] = None
    /\ lock' = [lock EXCEPT ![c] = e]
    /\ num' = [num EXCEPT ![e] = MaxNum(c) + 1]
    /\ UNCHANGED <<row, proj, deferred, versions, kind, target, pc, seen, base, snap, got,
                   ensure, ghosts>>

\* The row of a version under way: a projection that writes it too waits.
RowsFree == \A e \in Edits : num[e] # 0 => ensure[e] = "none"

Source(e) == CASE pc[e] = "vbase" -> "original"
               [] pc[e] = "vsnap" -> "before"
               [] pc[e] = "vafter" -> "after"

\* Mutant: the original is saved from the row as it is by then.
VersionOfCurrent(e) ==
    [num |-> num[e],
     source |-> Source(e),
     fields |-> IF pc[e] = "vafter" THEN got[e] ELSE row.cite[target[e]]]

\* Mutant: the version after an edit is taken from what the handler read first.
VersionOfSeen(e) == [num |-> num[e], source |-> Source(e), fields |-> seen[e]]

VersionOf(e) ==
    [num |-> num[e],
     source |-> Source(e),
     fields |-> IF pc[e] = "vafter" THEN got[e] ELSE seen[e]]

\* Where a handler goes on after a version.  An overlay that changes nothing
\* returns the citation it read.
AfterVersion(e) ==
    CASE pc[e] = "vbase" -> "vsnap"
      [] pc[e] = "vsnap" /\ IsOverlay(e) /\ OverlayFields(e) = seen[e] -> "tail"
      [] pc[e] = "vsnap" /\ ~(IsOverlay(e) /\ OverlayFields(e) = seen[e]) -> "u1r"
      [] pc[e] = "vafter" /\ IsOverlay(e) -> "er"
      [] pc[e] = "vafter" /\ ~IsOverlay(e) -> "tail"

\* appendCitationVersion, the insert and the commit, which frees the lock and
\* puts the row in the table, over one that has come there since the look.
VersionInsert(e) ==
    LET c == target[e] IN
    /\ pc[e] \in Versioning /\ num[e] # 0
    /\ versions' = [versions EXCEPT ![c] = Append(@, VersionOf(e))]
    /\ lock' = [lock EXCEPT ![c] = IF @ = e THEN None ELSE @]
    /\ num' = [num EXCEPT ![e] = 0]
    /\ pc' = [pc EXCEPT ![e] = AfterVersion(e)]
    /\ proj' = IF ensure[e] = "read" THEN [proj EXCEPT ![c] = snap[e].cite[c]] ELSE proj
    /\ torn' = (torn \/ (ensure[e] = "read" /\ row.cite[c] # snap[e].cite[c]))
    /\ ensure' = [ensure EXCEPT ![e] = "none"]
    /\ snap' = [snap EXCEPT ![e] = NewRow]
    /\ UNCHANGED <<row, deferred, kind, target, seen, base, got, lost, met, history>>

-----------------------------------------------------------------------------
\* A transaction of updateCitation or of a blob-only writer reads the row.
ReadRow(p) ==
    /\ \/ p \in Edits /\ pc[p] \in {"u1r", "u2r", "er"}
       \/ p \in Notes /\ pc[p] = "idle"
    /\ snap' = [snap EXCEPT ![p] = row]
    /\ pc' = [pc EXCEPT ![p] = CASE pc[p] = "u1r" -> "u1w"
                                 [] pc[p] = "u2r" -> "u2w"
                                 [] pc[p] \in {"er", "idle"} -> "ew"]
    /\ UNCHANGED <<data, kind, target, seen, base, got, ensure, num, ghosts>>

\* What the updater of an updateCitation makes of the fields it finds: the
\* second one writes the rescored carrier, built from what the first returned.
Updated(e, fields) ==
    CASE pc[e] = "u2w" -> got[e]
      [] pc[e] = "u1w" /\ IsOverlay(e) -> OverlayFields(e)
      [] pc[e] = "u1w" /\ kind[e] = "approve" -> fields \cup {e}
      [] pc[e] = "u1w" /\ kind[e] = "reprocess" -> Confirmed(seen[e])

\* Mutant: only the citation that was edited is projected.
UpdateCitationAlone(e) ==
    LET c == target[e]
        cites == [snap[e].cite EXCEPT ![c] = Updated(e, @)]
    IN
    /\ pc[e] \in {"u1w", "u2w"}
    /\ RowsFree
    /\ row' = [snap[e] EXCEPT !.cite = cites]
    /\ proj' = [proj EXCEPT ![c] = cites[c]]
    /\ got' = [got EXCEPT ![e] = cites[c]]
    /\ pc' = [pc EXCEPT ![e] = IF @ = "u1w" /\ kind[e] # "reprocess"
                               THEN "u2r" ELSE "vafter"]
    /\ snap' = [snap EXCEPT ![e] = NewRow]
    /\ lost' = (lost \/ row.cite # snap[e].cite)
    /\ UNCHANGED <<deferred, versions, lock, kind, target, seen, base, ensure, num, torn, met,
                   history>>

\* updateCitation writes the blob it has read, one citation changed, and
\* projects all citations of that blob, in one transaction.
UpdateCitation(e) ==
    LET c == target[e]
        cites == [snap[e].cite EXCEPT ![c] = Updated(e, @)]
    IN
    /\ pc[e] \in {"u1w", "u2w"}
    /\ RowsFree
    /\ row' = [snap[e] EXCEPT !.cite = cites]
    /\ proj' = cites
    /\ got' = [got EXCEPT ![e] = cites[c]]
    /\ pc' = [pc EXCEPT ![e] = IF @ = "u1w" /\ kind[e] # "reprocess"
                               THEN "u2r" ELSE "vafter"]
    /\ snap' = [snap EXCEPT ![e] = NewRow]
    /\ lost' = (lost \/ row.cite # snap[e].cite)
    /\ UNCHANGED <<deferred, versions, lock, kind, target, seen, base, ensure, num, torn, met,
                   history>>

\* appendJobEvent and updateJob write the blob they have read; the overlay
\* goes on to the learning queue and the approved truth.
WriteBlob(p) ==
    /\ pc[p] = "ew"
    /\ row' = [snap[p] EXCEPT !.events = @ \cup {p}]
    /\ pc' = [pc EXCEPT ![p] = IF p \in Edits THEN "tail" ELSE "done"]
    /\ snap' = [snap EXCEPT ![p] = NewRow]
    /\ lost' = (lost \/ row.cite # snap[p].cite)
    /\ torn' = (torn \/ row.cite # snap[p].cite)
    /\ UNCHANGED <<proj, deferred, versions, lock, kind, target, seen, base, got, ensure, num, met,
                   history>>

\* What a handler held is gone when it ends.
Forget(e) ==
    /\ seen' = [seen EXCEPT ![e] = {}]
    /\ base' = [base EXCEPT ![e] = {}]
    /\ got' = [got EXCEPT ![e] = {}]
    /\ ensure' = [ensure EXCEPT ![e] = "none"]
    /\ num' = [num EXCEPT ![e] = 0]
    /\ snap' = [snap EXCEPT ![e] = NewRow]

\* The answer, after the last call of the handler.
Answer(e) ==
    /\ pc[e] = "tail"
    /\ pc' = [pc EXCEPT ![e] = "done"]
    /\ history' = [history EXCEPT ![target[e]] = Append(@, e)]
    /\ Forget(e)
    /\ UNCHANGED <<data, kind, target, lost, torn, met>>

\* A store call fails, or the process stops: what was committed stays, an
\* open transaction is rolled back and its lock is free.
Fail(e) ==
    /\ pc[e] \notin Ended
    /\ pc' = [pc EXCEPT ![e] = "failed"]
    /\ lock' = [c \in Cites |-> IF lock[c] = e THEN None ELSE lock[c]]
    /\ Forget(e)
    /\ UNCHANGED <<row, proj, deferred, versions, kind, target, ghosts>>

\* syncProjectedCitationsForJob, which saveJob does not wait for, projects
\* the citations as the pipeline left them, or fails, which nobody is told.
DeferredProjection ==
    /\ deferred
    /\ deferred' = FALSE
    /\ \/ UNCHANGED <<proj, torn>>
       \/ /\ RowsFree
          /\ proj' = NewRow.cite
          /\ torn' = (torn \/ row.cite # NewRow.cite)
    /\ UNCHANGED <<row, versions, lock, kind, target, pc, seen, base, snap, got,
                   ensure, num, lost, met, history>>

EditStep(e) ==
    \/ Start(e) \/ FindBaseline(e)
    \/ FindNoRow(e) \/ ReadForRow(e) \/ VersionLock(e) \/ VersionInsert(e)
    \/ UpdateCitation(e) \/ Answer(e)

RowStep(p) == ReadRow(p) \/ WriteBlob(p)

Next ==
    \/ \E e \in Edits : EditStep(e) \/ Fail(e)
    \/ \E p \in Procs : RowStep(p)
    \/ DeferredProjection

Spec == Init /\ [][Next]_vars

-----------------------------------------------------------------------------
TypeOK ==
    /\ row \in Row
    /\ proj \in [Cites -> Fields \cup {None}] /\ deferred \in BOOLEAN
    /\ versions \in [Cites -> Seq(Version)]
    /\ lock \in [Cites -> Edits \cup {None}]
    /\ kind \in [Edits -> Kinds]
    /\ target \in [Edits -> Cites]
    /\ pc \in [Procs -> Steps]
    /\ seen \in [Edits -> Fields]
    /\ base \in [Edits -> Fields]
    /\ snap \in [Procs -> Row]
    /\ got \in [Edits -> Fields]
    /\ ensure \in [Edits -> {"none", "missing", "read"}] /\ num \in [Edits -> Nat]
    /\ lost \in BOOLEAN /\ torn \in BOOLEAN
    /\ met \in SUBSET Cites
    /\ history \in [Cites -> Seq(Edits)]

\* The versions of a citation are numbered 1, 2, 3, ... in the order in
\* which they were saved, however many handlers save versions at once:
\* listCitationVersions orders by that number (appendCitationVersion).
VersionsNumbered ==
    \A c \in Cites : \A i \in DOMAIN versions[c] : versions[c][i].num = i

\* What an overlay is applied to, and what restoring goes back to, never
\* holds an earlier overlay, also when two first overlays of a citation run
\* at once or fail half way (ensureOverlayBaselineFields).
BaselineClean ==
    \A c \in Cites : \A i \in Originals(c) :
        \A e \in versions[c][i].fields : kind[e] # "overlay"

\* Once a citation has an original, that stays the one all overlays use.
BaselineSticks ==
    [][\A c \in Cites : Originals(c) # {} => Baseline(c)' = Baseline(c)]_vars

\* The citations table agrees with the blob even when updateCitation calls
\* overwrite each other and versions add the rows they miss; while the blob is
\* as the pipeline left it, rows may be missing, and none is left out once an
\* edit shows in it.  Only a writer of one of the two alone, which puts back
\* citations that have been edited since it read, makes them differ.
ProjectionAgrees ==
    ~torn => \/ proj = row.cite
             \/ /\ row.cite = NewRow.cite
                /\ \A c \in Cites : proj[c] \in {None, NewRow.cite[c]}

\* An edit that was answered can be found in the version history with the
\* fields it produced, also when another write has undone it in the row.
HistoryKeeps ==
    \A e \in Edits :
        pc[e] = "done" /\ kind[e] \in {"overlay", "approve"} =>
            \E i \in DOMAIN versions[target[e]] :
                e \in versions[target[e]][i].fields

\* Reference: the fields after the edits of a citation, one after the other.
After(s, e) ==
    CASE IsOverlay(e) ->
            LET origin == IF s.origin = None THEN s.fields ELSE s.origin
            IN [fields |-> origin \cup Own(e), origin |-> origin]
      [] kind[e] = "approve" -> [s EXCEPT !.fields = @ \cup {e}]
      [] kind[e] = "reprocess" -> [s EXCEPT !.fields = Confirmed(@)]

Untouched == [fields |-> {}, origin |-> None]
InTurn(edits) == FoldLeft(After, Untouched, edits).fields

\* Answered edits compose: while no write put back an old row, the fields of
\* a citation none of whose edits met another or failed are what the answered
\* edits give when applied in turn - also when edits of other citations of
\* the job and writers of the blob ran in between.
EditsCompose ==
    \A c \in Cites :
        /\ ~lost
        /\ c \notin met
        /\ \A e \in Edits : target[e] = c => pc[e] \in {"idle", "done"}
        => row.cite[c] = InTurn(history[c])
=============================================================================
