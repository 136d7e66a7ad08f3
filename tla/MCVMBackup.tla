----------------------------- MODULE MCVMBackup -----------------------------
(***************************************************************************)
(* Two VMs that keep their disks in one folder, where the overlays of the  *)
(* first disk of one and of the disk of the other go by the same name.     *)
(***************************************************************************)
EXTENDS VMBackup

CONSTANTS web, nas, webSys, webData, nasSys, sys, data

MCDisks == [v \in {web, nas} |-> IF v = web THEN {webSys, webData} ELSE {nasSys}]
MCOverlayPath == [d \in {webSys, webData, nasSys} |-> IF d = webData THEN data ELSE sys]

Environments == {{"restic", "cancel", "commit", "shutdown"}, {"start", "list", "clear"},
                 {"state", "mark", "snapshot"}, {"lost", "sources", "remove"}}
MCLiveSets == {{web}, {nas}}
=============================================================================
