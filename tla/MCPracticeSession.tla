-------------------------- MODULE MCPracticeSession --------------------------
(* Constants for model checking PracticeSession. *)
EXTENDS PracticeSession

Symmetry == Permutations(Questions)

=============================================================================
