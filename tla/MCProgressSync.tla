--------------------------- MODULE MCProgressSync ---------------------------
(* Constants for model checking ProgressSync. *)
EXTENDS ProgressSync, TLC

Symmetry == Permutations(Accounts) \cup Permutations(Questions)

=============================================================================
