---------------------------- MODULE MCZFSWindow ----------------------------
(***************************************************************************)
(* Two datasets: the first holds down an application and its database, the *)
(* second the VPN whose network the application shares.  One environment   *)
(* in which Docker starts what is stopped, one in which it does not and    *)
(* everything else works, and one in which every call may fail.            *)
(***************************************************************************)
EXTENDS ZFSWindow

CONSTANTS app, db, vpn, media, library

MCContainers == {app, db, vpn}
MCItems == {media, library}
MCStopList == [i \in MCItems |-> IF i = media THEN {app, db} ELSE {vpn}]
MCNeeds == [c \in MCContainers |-> IF c = app THEN {db} ELSE {}]
MCJoins == [c \in MCContainers |-> IF c = app THEN {vpn} ELSE {}]

Orderly == {"pre", "busy", "mark", "stop", "clear"}
Anything == Calls
StartsFail == {{"start"}}
Environments == {Orderly, Anything} \cup StartsFail
=============================================================================
