--------------------------- MODULE MCRuntimeJobs ---------------------------
(* Model-checking instances of RuntimeJobs. *)
EXTENDS RuntimeJobs, TLC

ServerSymmetry == Permutations(Server)
=============================================================================
