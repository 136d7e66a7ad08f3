---------------------------- MODULE MCBusyWaits ----------------------------
(***************************************************************************)
(* An instance of BusyWaits: two containers of one compose stack, b with a *)
(* schedule of its own; a gives up at the deadline, b backs up regardless. *)
(***************************************************************************)
EXTENDS BusyWaits, TLC

CONSTANTS a, b, stack

OneStack == a :> stack @@ b :> stack

\* Failures of the database; a click and a crash; a user and a crash.  A record
\* that cannot be deleted and a crash stay apart (see the README).
Around == {{"forget", "hours"}, {"stacks", "click", "crash"}, {"user", "crash"}}

=============================================================================
