------------------------------ MODULE MCVotes ------------------------------
(* One page follows three requests of its own, the other two. *)
EXTENDS Votes, TLC

CONSTANTS p1, p2

ThreeAndTwo == (p1 :> 3) @@ (p2 :> 2)
Symmetry == Permutations(Learners) \cup Permutations(Questions)

=============================================================================
