----------------------------- MODULE RunControl -----------------------------
(***************************************************************************)
(* How a running backup is reached: by the user's cancel, by a cancel      *)
(* aimed at one run, by the stall guard, the hour cap and the shutdown.    *)
(* A backup is reached through the entries it makes under the key of its   *)
(* item, and these maps have one place per item.  A container, a VM, the   *)
(* flash drive and the configuration register before they wait for the     *)
(* section's lock, a folder and a dataset after they have it (early).      *)
(*                                                                         *)
(* A call of a backup writes one run, so runs go by the name of the call.  *)
(* Left out: deferred backups, the refusal to back up BombVault itself,    *)
(* panics, rows that cannot be written, and the failed restart of a VM,    *)
(* whose run keeps its own reason.                                         *)
(***************************************************************************)
EXTENDS Naturals

CONSTANTS
    Backups,    \* the calls of a backup, all of one section
    Items,
    None,       \* no entry, no run id
    Orders,     \* the environments: [early, overlap, item], that is when a call
                \* registers, whether calls for the same item may come at the
                \* same time, and the item each call is for
    MaxStops    \* bound: cancels, stalls and caps together

ASSUME CallsAssumption ==
    /\ None \notin Backups
    /\ Orders \subseteq [early : BOOLEAN, overlap : BOOLEAN, item : [Backups -> Items]]
    /\ MaxStops \in Nat

VARIABLES
    cancels,    \* backupCancels and backupCtxs: whose functions they are
    runs,       \* backupRuns
    cancelled,  \* cancelledBackups
    committed,  \* committedBackups
    section,    \* who holds the section's lock
    pc,         \* the place of each call in Backup
    ctx,        \* what ended its context, the first cause there is
    row,        \* its run
    answer,     \* what it returned, as IsBackupCancelled reads it
    fired,      \* cancel functions that are about to be called, with the cause
    leaving,    \* BeginShutdown: the step it is at
    order,      \* the environment
    stops,      \* cancels, stalls and caps so far
    \* history
    asked,      \* the backups a user wanted to end
    why,        \* what had ended a backup's context when it failed
    inFlight    \* the runs that were open when the shutdown looked

maps == <<cancels, runs, cancelled, committed>>
calls == <<section, pc, ctx, row, answer>>
history == <<asked, why, inFlight>>
vars == <<maps, calls, fired, leaving, order, stops, history>>

Causes == {"user", "shutdown", "stall", "cap"}
Alive == leaving # "gone"
ShuttingDown == leaving # "no"              \* IsShuttingDown
Item(b) == order.item[b]
UnderWay == {b \in Backups : pc[b] \notin {"new", "over"}}

-----------------------------------------------------------------------------
(* The maps.  Each of these is one hold of cancelMu.                       *)

Register(b) == cancels' = [cancels EXCEPT ![Item(b)] = b]

Unregister(b) ==
    LET i == Item(b) IN
    /\ cancels' = [cancels EXCEPT ![i] = None]
    /\ runs' = [runs EXCEPT ![i] = None]
    /\ cancelled' = cancelled \ {i}
    /\ committed' = committed \ {i}

MayCancelAny(i, aim) ==                         \* mutant: whatever runs there now
    /\ cancels[i] # None
    /\ i \notin committed
    /\ ctx[cancels[i]] # "stall"

\* CancelBackupRun up to its unlock; the function itself is called after it.
MayCancel(i, aim) ==
    /\ cancels[i] # None
    /\ aim # None => runs[i] = aim
    /\ i \notin committed
    /\ ctx[cancels[i]] # "stall"

MarkFirst(b) ==                                 \* mutant: the mark before the stall
    IF ShuttingDown THEN "shutdown"
    ELSE IF Item(b) \in cancelled THEN "cancelled"
    ELSE IF ctx[b] = "stall" THEN "stalled" ELSE "failed"

\* The status runsAdapter.Finish gives to a run that failed.
Verdict(b) ==
    IF ShuttingDown THEN "shutdown"
    ELSE IF ctx[b] = "stall" THEN "stalled"
    ELSE IF Item(b) \in cancelled THEN "cancelled" ELSE "failed"

-----------------------------------------------------------------------------
(* A call.                                                                 *)

Goes(b, from, to) ==
    /\ Alive
    /\ pc[b] \in from
    /\ pc' = [pc EXCEPT ![b] = to]
    /\ UNCHANGED <<leaving, order, stops>>

Unseen(b) ==                                    \* mutant: nobody registers early
    /\ Goes(b, {"new"}, "queued")
    /\ order.overlap \/ \A o \in UnderWay : Item(o) # Item(b)
    /\ UNCHANGED <<maps, section, ctx, row, answer, fired, history>>

\* Comes in, registers if it does so early, and waits for the lock.
Call(b) ==
    /\ Goes(b, {"new"}, "queued")
    /\ order.overlap \/ \A o \in UnderWay : Item(o) # Item(b)
    /\ IF order.early THEN Register(b) ELSE UNCHANGED cancels
    /\ UNCHANGED <<runs, cancelled, committed, section, ctx, row, answer, fired, history>>

Enter(b) ==
    /\ Goes(b, {"queued"}, IF order.early THEN "preflight" ELSE "entered")
    /\ section = None
    /\ section' = b
    /\ UNCHANGED <<maps, ctx, row, answer, fired, history>>

\* The settings or the item cannot be read.
LoadFails(b) ==
    /\ Goes(b, {"entered"}, "unregistered")
    /\ answer' = [answer EXCEPT ![b] = "failed"]
    /\ UNCHANGED <<maps, section, ctx, row, fired, history>>

RegisterLate(b) ==
    /\ Goes(b, {"entered"}, "preflight")
    /\ Register(b)
    /\ UNCHANGED <<runs, cancelled, committed, section, ctx, row, answer, fired, history>>

\* Ends before its run began: on record as failed, whatever the reason, or not
\* at all where there is nothing to report.
Refuse(b) ==
    /\ Goes(b, {"preflight"}, "ending")
    /\ row' \in {[row EXCEPT ![b] = s] : s \in {"none", "failed"}}
    /\ answer' = [answer EXCEPT ![b] = "failed"]
    /\ UNCHANGED <<maps, section, ctx, fired, history>>

StartRun(b) ==
    /\ Goes(b, {"preflight"}, "started")
    /\ row' = [row EXCEPT ![b] = "running"]
    /\ UNCHANGED <<maps, section, ctx, answer, fired, history>>

BindRun(b) ==
    /\ Goes(b, {"started"}, "reading")
    /\ runs' = [runs EXCEPT ![Item(b)] = b]
    /\ UNCHANGED <<cancels, cancelled, committed, section, ctx, row, answer, fired, history>>

\* commitBackup: only a container's backup does that.
Commit(b) ==
    /\ Goes(b, {"reading"}, "restarting")
    /\ order.early
    /\ committed' = committed \cup {Item(b)}
    /\ UNCHANGED <<cancels, runs, cancelled, section, ctx, row, answer, fired, history>>

Fail(b) ==
    /\ Goes(b, {"reading", "restarting"}, "failing")
    /\ answer' = [answer EXCEPT ![b] = "failed"]
    /\ why' = [why EXCEPT ![b] = ctx[b]]
    /\ UNCHANGED <<maps, section, ctx, row, fired, asked, inFlight>>

FinishFailed(b) ==
    /\ Goes(b, {"failing"}, "ending")
    /\ row' = [row EXCEPT ![b] = Verdict(b)]
    /\ UNCHANGED <<maps, section, ctx, answer, fired, history>>

\* Retention and the off-site copy follow, with everything still registered.
FinishWell(b) ==
    /\ Goes(b, {"reading", "restarting"}, "ending")
    /\ row' = [row EXCEPT ![b] = "success"]
    /\ UNCHANGED <<maps, section, ctx, answer, fired, history>>

\* The deferred calls run last in, first out: who registered first, unregisters
\* last.
Unlock(b) ==
    /\ Goes(b, IF order.early THEN {"ending"} ELSE {"unregistered"},
               IF order.early THEN "unlocked" ELSE "over")
    /\ section' = None
    /\ UNCHANGED <<maps, ctx, row, answer, fired, history>>

\* endBackupCancel.
EndCancel(b) ==
    /\ Goes(b, IF order.early THEN {"unlocked"} ELSE {"ending"},
               IF order.early THEN "over" ELSE "unregistered")
    /\ answer' = IF answer[b] = "failed" /\ Item(b) \in cancelled
                   THEN [answer EXCEPT ![b] = "cancelled"] ELSE answer
    /\ Unregister(b)
    /\ UNCHANGED <<section, ctx, row, fired, history>>

-----------------------------------------------------------------------------
(* Those who end a backup.                                                 *)

\* The button, a restore that gives up the backup before it, and an MCP caller,
\* who names the run it has seen.
Cancel(i, aim) ==
    /\ Alive /\ stops < MaxStops
    /\ aim # None => Item(aim) = i /\ row[aim] # "none"
    /\ MayCancel(i, aim)
    /\ stops' = stops + 1
    /\ cancelled' = cancelled \cup {i}
    /\ fired' = fired \cup {<<cancels[i], "user">>}
    /\ asked' = asked \cup IF aim = None THEN {b \in UnderWay : Item(b) = i} ELSE {aim}
    /\ UNCHANGED <<cancels, runs, committed, calls, leaving, order, why, inFlight>>

\* The guard measures while restic reads, and acts on what it has decided.
StallDecides(b) ==
    /\ Alive
    /\ pc[b] = "reading" /\ ctx[b] = "live"
    /\ stops < MaxStops /\ stops' = stops + 1
    /\ fired' = fired \cup {<<b, "stall">>}
    /\ UNCHANGED <<maps, calls, leaving, order, history>>

CapRunsOut(b) ==
    /\ Alive
    /\ b \in UnderWay /\ ctx[b] = "live"
    /\ stops < MaxStops /\ stops' = stops + 1
    /\ ctx' = [ctx EXCEPT ![b] = "cap"]
    /\ UNCHANGED <<maps, section, pc, row, answer, fired, leaving, order, history>>

\* A cancel function is called; the first cause stays.
Ends(b, cause) ==
    /\ Alive
    /\ <<b, cause>> \in fired
    /\ fired' = fired \ {<<b, cause>>}
    /\ ctx' = IF ctx[b] = "live" THEN [ctx EXCEPT ![b] = cause] ELSE ctx
    /\ UNCHANGED <<maps, section, pc, row, answer, leaving, order, stops, history>>

-----------------------------------------------------------------------------
(* BeginShutdown, and the end of the process.                              *)

Shutdown(from, to) ==
    /\ leaving = from
    /\ leaving' = to
    /\ UNCHANGED <<maps, section, pc, ctx, answer, order, stops, asked, why>>

Leave ==
    /\ Shutdown("no", "look")
    /\ UNCHANGED <<row, fired, inFlight>>

Registered == {cancels[i] : i \in Items} \ {None}

LookAround ==
    /\ Shutdown("look", IF Registered = {} THEN "clean" ELSE "waiting")
    /\ fired' = fired \cup {<<b, "shutdown">> : b \in Registered}
    /\ inFlight' = {b \in Backups : row[b] = "running"}
    /\ UNCHANGED row

CallsAllAndGoes ==                              \* mutant: it does not wait
    /\ Shutdown("waiting", "clean")
    /\ \A b \in Backups : <<b, "shutdown">> \notin fired
    /\ UNCHANGED <<row, fired, inFlight>>

AllUnwound ==
    /\ Shutdown("waiting", "clean")
    /\ \A b \in Backups : <<b, "shutdown">> \notin fired
    /\ Registered = {}
    /\ UNCHANGED <<row, fired, inFlight>>

GraceRunsOut ==
    /\ Shutdown("waiting", "late")
    /\ UNCHANGED <<row, fired, inFlight>>

\* The process goes; the next start reaps what is still open.
Exit ==
    /\ \E from \in {"clean", "late"} : Shutdown(from, "gone")
    /\ row' = [b \in Backups |-> IF row[b] = "running" THEN "interrupted" ELSE row[b]]
    /\ UNCHANGED <<fired, inFlight>>

-----------------------------------------------------------------------------
Init ==
    /\ cancels = [i \in Items |-> None]
    /\ runs = [i \in Items |-> None]
    /\ cancelled = {} /\ committed = {}
    /\ section = None
    /\ pc = [b \in Backups |-> "new"]
    /\ ctx = [b \in Backups |-> "live"]
    /\ row = [b \in Backups |-> "none"]
    /\ answer = [b \in Backups |-> "well"]
    /\ fired = {}
    /\ leaving = "no"
    /\ order \in Orders
    /\ stops = 0
    /\ asked = {} /\ inFlight = {}
    /\ why = [b \in Backups |-> "live"]

Step(b) ==
    \/ Call(b) \/ Enter(b) \/ LoadFails(b) \/ RegisterLate(b) \/ Refuse(b) \/ StartRun(b)
    \/ BindRun(b) \/ Commit(b) \/ Fail(b) \/ FinishFailed(b) \/ FinishWell(b) \/ Unlock(b) \/ EndCancel(b)
    \/ StallDecides(b) \/ CapRunsOut(b)

Next ==
    \/ \E b \in Backups : Step(b)
    \/ \E i \in Items, aim \in Backups \cup {None} : Cancel(i, aim)
    \/ \E b \in Backups, cause \in Causes : Ends(b, cause)
    \/ Leave \/ LookAround \/ AllUnwound \/ GraceRunsOut \/ Exit

Spec == Init /\ [][Next]_vars

-----------------------------------------------------------------------------
Places == {"new", "queued", "entered", "preflight", "started", "reading", "restarting",
           "failing", "ending", "unlocked", "unregistered", "over"}

\* The types.
TypeOK ==
    /\ cancels \in [Items -> Backups \cup {None}]
    /\ runs \in [Items -> Backups \cup {None}]
    /\ cancelled \subseteq Items /\ committed \subseteq Items
    /\ section \in Backups \cup {None}
    /\ pc \in [Backups -> Places]
    /\ ctx \in [Backups -> Causes \cup {"live"}]
    /\ row \in [Backups -> {"none", "running", "success", "failed", "stalled", "cancelled",
                            "shutdown", "interrupted"}]
    /\ answer \in [Backups -> {"well", "failed", "cancelled"}]
    /\ fired \subseteq Backups \X Causes
    /\ leaving \in {"no", "look", "waiting", "clean", "late", "gone"}
    /\ order \in Orders
    /\ stops \in 0 .. MaxStops
    /\ asked \subseteq Backups /\ inFlight \subseteq Backups
    /\ why \in [Backups -> Causes \cup {"live"}]

\* "Detached from the caller, reachable by shutdown" (service.go:7048): while a
\* run is open in a living process, its item's entry is that backup's, so the
\* button and the shutdown end it and not another one.
RunningIsReachable ==
    \A b \in Backups : row[b] = "running" => cancels[Item(b)] = b

\* A cancel that is aimed at a run cannot reach the next backup of the item
\* (shutdown.go:36-37), however late its function is called: what a user's
\* cancel ends is what a user wanted to end.
CancelHitsWhatWasAsked ==
    \A b \in Backups : ctx[b] = "user" \/ <<b, "user">> \in fired => b \in asked

\* The row says what ended a run (runsAdapter.Finish): one that failed after a
\* cancel or a stall is not recorded as a failure of its own, and none reads as
\* cancelled that nobody cancelled.  The round hears the same (endBackupCancel),
\* for the mark lasts until the call returns.
EndingNamesItsCause ==
    \A b \in Backups :
        /\ why[b] = "user" => row[b] # "failed" /\ row[b] # "stalled"
        /\ why[b] = "stall" => row[b] # "failed" /\ row[b] # "cancelled"
        /\ row[b] = "stalled" => ctx[b] = "stall"
        /\ row[b] = "cancelled" => b \in asked
        /\ row[b] = "cancelled" /\ pc[b] = "over" => answer[b] = "cancelled"

\* "An empty map means every row is in" (shutdown.go:224-225): after a shutdown
\* that ended before its grace, no run it found open is left to the reaper.
CleanLeavesNothingOpen ==
    leaving = "clean" => \A b \in inFlight : row[b] # "running"
=============================================================================
