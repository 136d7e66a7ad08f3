-------------------------- MODULE MCZFSReplication --------------------------
(***************************************************************************)
(* A dataset with one child that is replicated and one that is excluded.   *)
(***************************************************************************)
EXTENDS ZFSReplication

CONSTANTS root, data, scratch_

MCMembers == {root, data, scratch_}
MCPlace == [m \in MCMembers |-> IF m = root THEN 0 ELSE IF m = scratch_ THEN 1 ELSE 2]

\* Streams break and runs are cancelled, the target goes away, or the source's
\* own commands fail.
Environments ==
    {{"stream", "cancel"}, {"stream", "target", "mark"},
     {"root", "source", "hold", "destroy"}}
Reliable == {{}}
=============================================================================
