----------------------------- MODULE TimedLease -----------------------------
(***************************************************************************)
(* What a time-limited claim on one unit of work promises, independently   *)
(* of how it is stored: a grant is given only after the previous one has   *)
(* run out, and nothing revokes a holder whose grant has run out, which is *)
(* why two can work at once.                                               *)
(*                                                                         *)
(* The row of a conversion job implements it (RuntimeJobs, ClaimIsLease).  *)
(***************************************************************************)
EXTENDS Naturals

CONSTANTS
  Holder,  \* the processes that compete for the work
  Term     \* how long a grant lasts, a natural number

VARIABLES
  holders,    \* the processes that act as if they held the lease
  grantedAt,  \* grantedAt[h]: when h was granted the lease it acts on
  expiresAt,  \* when the current grant runs out, 0 before the first
  now

lease == <<holders, grantedAt, expiresAt>>
vars == <<lease, now>>

Init ==
  /\ holders = {}
  /\ grantedAt = [h \in Holder |-> 0]
  /\ expiresAt = 0
  /\ now = 1

Grant(h) ==
  /\ h \notin holders
  /\ expiresAt < now
  /\ holders' = holders \cup {h}
  /\ grantedAt' = [grantedAt EXCEPT ![h] = now]
  /\ expiresAt' = now + Term
  /\ now' = now

\* A holder ends its work, or its process ends.
Release(h) ==
  /\ h \in holders
  /\ holders' = holders \ {h}
  /\ grantedAt' = [grantedAt EXCEPT ![h] = 0]
  /\ UNCHANGED <<expiresAt, now>>

Pass ==
  /\ now' = now + 1
  /\ UNCHANGED lease

Next ==
  \/ \E h \in Holder : Grant(h) \/ Release(h)
  \/ Pass

Spec == Init /\ [][Next]_vars
=============================================================================
