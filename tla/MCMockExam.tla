----------------------------- MODULE MCMockExam -----------------------------
(* Constants for model checking MockExam. *)
EXTENDS MockExam

=============================================================================
