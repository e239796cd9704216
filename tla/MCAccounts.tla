----------------------------- MODULE MCAccounts -----------------------------
(* Three providers know the same address; a second GitHub account has its  *)
(* own.                                                                    *)
EXTENDS Accounts, TLC

CONSTANTS g1, g2, o, z

OneShared == [i \in Identities |-> IF i = g2 THEN "other" ELSE "shared"]
Symmetry == Permutations(Pods) \cup Permutations(Users) \cup Permutations(Logins)

=============================================================================
