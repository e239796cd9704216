---------------------------- MODULE MCRateLimit ----------------------------
(* Constants for model checking RateLimit. *)
EXTENDS RateLimit, TLC

Symmetry == Permutations(Ips)

=============================================================================
