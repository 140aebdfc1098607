---------------------------- MODULE MCTruthJobs ----------------------------
(* Model-checking instances of TruthJobs. *)
EXTENDS TruthJobs, TLC
=============================================================================
