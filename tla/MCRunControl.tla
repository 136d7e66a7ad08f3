---------------------------- MODULE MCRunControl ----------------------------
(***************************************************************************)
(* Two backups in one section, of the same item or of two.                 *)
(***************************************************************************)
EXTENDS RunControl

CONSTANTS first, second, x, y

Same == [b \in {first, second} |-> x]
Apart == [b \in {first, second} |-> IF b = first THEN x ELSE y]

\* Folders and datasets, whose calls may overlap, and the others as long as
\* theirs do not.
OneAtATime ==
    [early : {FALSE}, overlap : {TRUE}, item : {Same, Apart}]
        \cup [early : {TRUE}, overlap : {FALSE}, item : {Same, Apart}]

\* Containers, VMs, flash and configuration as a schedule, a pass and a click
\* may call them.
AnyTime == [early : {TRUE}, overlap : {TRUE}, item : {Same}]
=============================================================================
