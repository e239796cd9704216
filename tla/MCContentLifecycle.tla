------------------------- MODULE MCContentLifecycle -------------------------
(* Constants for model checking ContentLifecycle.  The excerpts of t1 stay *)
(* on the page as it changes; t2 quotes a passage that it loses.           *)
EXTENDS ContentLifecycle, TLC

CONSTANTS v1, v2, t1, t2

HeldByFirst == (t1 :> {v1, v2}) @@ (t2 :> {v1})

=============================================================================
