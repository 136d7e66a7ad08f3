---------------------------- MODULE SectionMutex ----------------------------
(***************************************************************************)
(* What a section's lock promises to everything that works in the section: *)
(* at most one operation is inside, and it leaves before the next enters.  *)
(* DomainLocks implements it.                                              *)
(***************************************************************************)
CONSTANT Ops            \* the operations that work in the section

VARIABLE inside         \* those inside the section

TypeOK == inside \in SUBSET Ops

Init == inside = {}

Enter(p) == inside = {} /\ inside' = {p}

Leave(p) == inside = {p} /\ inside' = {}

Next == \E p \in Ops : Enter(p) \/ Leave(p)

Spec == Init /\ [][Next]_inside
=============================================================================
