---------------------------- MODULE AnswerHistory ----------------------------
(***************************************************************************)
(* What the learner is promised about an answer, wherever its copies are.  *)
(* It belongs to the owner who gave it; a guest's answer can be adopted by *)
(* one account; it can be forgotten, and a forgotten answer never comes    *)
(* back.  Nothing else happens to it: it is never another account's.       *)
(***************************************************************************)
EXTENDS Naturals

CONSTANTS Accounts, Guest

Owners == Accounts \cup {Guest}

VARIABLES
    given,     \* how many answers were given; an answer is its number
    history    \* owner -> the answers that are the owner's

vars == <<given, history>>

Init == given = 0 /\ history = [u \in Owners |-> {}]

(* A new answer of u's, on any device. *)
Give(u) ==
    /\ given' = given + 1
    /\ history' = [history EXCEPT ![u] = @ \cup {given + 1}]

(* u signs in and takes over what the guest answered. *)
Adopt(u) ==
    /\ given' = given
    /\ history' = [history EXCEPT ![u] = @ \cup history[Guest], ![Guest] = {}]

(* Copies disappear: a clear, a failed or abandoned upload. *)
Forget ==
    /\ given' = given
    /\ history' \in [Owners -> SUBSET UNION {history[u] : u \in Owners}]
    /\ \A u \in Owners : history'[u] \subseteq history[u]

Next == Forget \/ (\E u \in Owners : Give(u)) \/ \E u \in Accounts : Adopt(u)

Spec == Init /\ [][Next]_vars

(* Answers are numbered as they are given. *)
TypeOK == given \in Nat /\ history \in [Owners -> SUBSET (1..given)]

(* No two owners have an answer in common. *)
Isolated == \A u, v \in Owners : u # v => history[u] \cap history[v] = {}

=============================================================================
