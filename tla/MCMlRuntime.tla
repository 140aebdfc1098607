---------------------------- MODULE MCMlRuntime ----------------------------
(* Model-checking instances of MlRuntime. *)
EXTENDS MlRuntime, TLC
=============================================================================
