-------------------------- MODULE MCContainerBackup --------------------------
(***************************************************************************)
(* Instances of ContainerBackup: a target, a database it depends on and a  *)
(* container that joins its network, with the calls that may fail.         *)
(***************************************************************************)
EXTENDS ContainerBackup

Live     == {FALSE}
Both     == BOOLEAN

\* Every Docker call may fail, and a container may exit as soon as it starts.
DockerFaults == {"stop", "lateStop", "start", "die", "create", "recreate",
                 "rejoin", "read", "take"}

\* The daemon also refuses a remove, after a live read.
LiveRefusals == {FALSE}

\* Whatever was stopped starts again; records, health checks and the looks of a
\* boot may fail.
RecordFaults == {"stop", "read", "take", "create", "mark", "clear", "health",
                 "list", "look"}

=============================================================================
