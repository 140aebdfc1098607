--------------------------- MODULE MCCitationEdits ---------------------------
(* Model-checking instance of CitationEdits: citations and edits are
   interchangeable. *)
EXTENDS CitationEdits, TLC

Symmetry == Permutations(Cites) \cup Permutations(Edits)
=============================================================================
