--------------------------- MODULE MCReplenishment ---------------------------
(* Constants for model checking Replenishment.  Each page is listed by an  *)
(* index of its own; the excerpt of t1 stays on a page, that of t2 goes.   *)
EXTENDS Replenishment, TLC

CONSTANTS p1, p2, v1, v2, t1, t2

TwoIndices == (p1 :> 1) @@ (p2 :> 2)
HeldByFirst == (t1 :> {v1, v2}) @@ (t2 :> {v1})

(* No state tells the two indices apart. *)
Symmetry == Permutations(Questions) \cup Permutations(Sources) \cup Permutations(Pages)

=============================================================================
