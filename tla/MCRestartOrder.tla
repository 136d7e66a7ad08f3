--------------------------- MODULE MCRestartOrder ---------------------------
(***************************************************************************)
(* Three containers beside the target: each joins nobody, the target or    *)
(* one other (a container joins one network namespace), and they depend on *)
(* each other in every way there is.                                       *)
(***************************************************************************)
EXTENDS RestartOrder

OneOwner ==
    {j \in [Deps -> SUBSET All] : \A i \in Deps : Cardinality(j[i]) <= 1 /\ i \notin j[i]}

AnyNeeds == {n \in [Deps -> SUBSET Deps] : \A i \in Deps : i \notin n[i]}
=============================================================================
