----------------------------- MODULE Publication -----------------------------
(***************************************************************************)
(* What the content pipeline promises, without receipts, fingerprints,     *)
(* snapshots or files: an item reaches learners only as someone else than  *)
(* its author has approved it, and only while nothing it cites is suspect. *)
(* An item is a question together with all of its material.                *)
(***************************************************************************)
CONSTANTS Items, People, Sources

VARIABLES
    approvals,       \* <<question, material, person>> ever granted
    suspect,         \* sources that may no longer say what they said
    shipped

vars == <<approvals, suspect, shipped>>

author(i) == i[2].by
cites(i) == {ev.source : ev \in i[2].evidence}

approved(i) == \E p \in People : p # author(i) /\ <<i[1], i[2], p>> \in approvals
sound(i) == cites(i) \cap suspect = {}

Init == approvals = {} /\ suspect = {} /\ shipped = {}

(* People approve what they like; only what others approve will count. *)
Approve ==
    /\ approvals \subseteq approvals'
    /\ \A g \in approvals' : <<g[1], g[2]>> \in Items /\ g[3] \in People
    /\ UNCHANGED <<suspect, shipped>>

Review ==
    /\ suspect' \subseteq Sources
    /\ UNCHANGED <<approvals, shipped>>

Ship ==
    /\ shipped' \subseteq Items
    /\ \A i \in shipped' : approved(i) /\ sound(i)
    /\ UNCHANGED <<approvals, suspect>>

Next == Approve \/ Review \/ Ship

Spec == Init /\ [][Next]_vars

(* What is shipped was approved by another than its author. *)
ShippedIsApproved == \A i \in shipped : approved(i)

=============================================================================
