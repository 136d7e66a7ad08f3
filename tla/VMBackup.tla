------------------------------ MODULE VMBackup ------------------------------
(***************************************************************************)
(* Backups of virtual machines.  A graceful one asks the guest to shut     *)
(* down, reads its disks and starts it again; a live one lets the guest    *)
(* write to an overlay, reads the disks below it and merges the overlay    *)
(* back.  A guest that shuts down after its backup gave up is started by   *)
(* a watch of its own, and what a dead process left off or on an overlay   *)
(* is put right by the next start and by the next backup.                  *)
(*                                                                         *)
(* Backups, late starts and the boot's sweep hold the lock of the VM       *)
(* section, so one pc stands for whichever has it.  Left out: disks that   *)
(* are zvols, changed-block backups, and a merge that libvirt reports done *)
(* without having done it.                                                 *)
(***************************************************************************)
EXTENDS Naturals, FiniteSets

CONSTANTS
    VMs,
    LiveSets,       \* which of them may be the ones backed up live
    Disks,          \* [VMs -> sets of disks]: the writable file disks
    OverlayPath,    \* the file an overlay of a disk is put in
    None,           \* no VM
    FaultSets,      \* the calls that may fail, one set per environment
    MaxRuns,        \* bound: backups
    MaxCrashes,     \* bound: how often the process may die
    MaxUserActs     \* bound: VMs started, shut down or undefined by hand

Calls == {"mark", "clear", "list", "state", "shutdown", "lost", "start",
          "snapshot", "restic", "commit", "sources", "remove", "cancel"}

AllDisks == UNION {Disks[v] : v \in VMs}
Paths == {OverlayPath[d] : d \in AllDisks}

ASSUME HostAssumption ==
    /\ LiveSets \subseteq SUBSET VMs
    /\ None \notin VMs
    /\ DOMAIN Disks = VMs
    /\ \A v, w \in VMs : v # w => Disks[v] \cap Disks[w] = {}
    /\ DOMAIN OverlayPath = AllDisks
    /\ \A v \in VMs : \A d, e \in Disks[v] : d # e => OverlayPath[d] # OverlayPath[e]
    /\ FaultSets \subseteq SUBSET Calls
    /\ {MaxRuns, MaxCrashes, MaxUserActs} \subseteq Nat

VARIABLES
    \* the host
    guest,      \* what virsh says of each VM
    asked,      \* who asked it to shut down
    onOverlay,  \* the disks a VM has on their overlay
    files,      \* the overlay files that are there
    \* the database
    record,     \* vm_restart_pending
    \* the process
    pc, vm,     \* the step of whoever holds the section's lock, and its VM
    was,        \* wasRunning
    shutting,   \* shuttingDown
    err,        \* what the backup failed with
    ctxDone,    \* its context has ended
    todo,       \* the devices a loop has yet to commit
    watching,   \* the watches that poll, each a VM and the run it came from
    starting,   \* those that saw the VM off and wait for the lock
    pending, still, going, done,   \* the boot's sweep
    \* what is chosen, and history
    live, faults,
    run, crashes, acts,
    told,       \* off, and a run or a message says it could not be started
    ranOn,      \* counted as running on and not recorded since, by the boot or by
                \* a watch, which may do so while a later backup has the VM down
    refused,    \* counted as up because the request failed, and not recorded since
    nextBoot,   \* not settled when the boot's rounds ended, and left on record
    touched     \* started by the user since the backup began

host    == <<guest, asked, onOverlay, files>>
sweep   == <<pending, still, going, done>>
watches == <<watching, starting>>
backup  == <<was, shutting, err, ctxDone, todo>>
bounds  == <<live, run, faults, crashes, acts>>
history == <<told, ranOn, refused, nextBoot, touched>>

vars == <<host, record, pc, vm, backup, watches, sweep, bounds, history>>

Steps == {"idle", "merge", "stray", "method", "check", "look", "waitOther", "mark",
          "shutdown", "wait", "read", "restart", "start", "clear", "finish",
          "snap", "readLive", "commit", "sweep",
          "late", "lateClear", "down", "boot", "bootClear"}

TypeOK ==
    /\ guest \in [VMs -> {"running", "in shutdown", "shut off", "undefined"}]
    /\ asked \in [VMs -> {"nobody", "user", "backup"}]
    /\ onOverlay \subseteq AllDisks
    /\ files \subseteq Paths
    /\ record \subseteq VMs
    /\ pc \in Steps
    /\ vm \in VMs \cup {None}
    /\ was \in BOOLEAN
    /\ shutting \in BOOLEAN
    /\ err \in {"none", "failed", "restart"}
    /\ ctxDone \in BOOLEAN
    /\ todo \subseteq AllDisks
    /\ watching \subseteq VMs \X (1 .. MaxRuns)
    /\ starting \subseteq VMs \X (1 .. MaxRuns)
    /\ pending \subseteq VMs
    /\ still \subseteq VMs
    /\ going \subseteq VMs
    /\ done \subseteq VMs
    /\ live \in LiveSets
    /\ run \in 0 .. MaxRuns
    /\ faults \in FaultSets
    /\ crashes \in 0 .. MaxCrashes
    /\ acts \in 0 .. MaxUserActs
    /\ told \subseteq VMs
    /\ ranOn \subseteq VMs
    /\ refused \subseteq VMs
    /\ nextBoot \subseteq VMs
    /\ touched \subseteq VMs

Init ==
    /\ guest \in [VMs -> {"running", "shut off"}]
    /\ asked = [v \in VMs |-> "nobody"]
    /\ onOverlay = {} /\ files = {} /\ record = {}
    /\ pc = "idle" /\ vm = None
    /\ was = FALSE /\ shutting = FALSE /\ err = "none" /\ ctxDone = FALSE /\ todo = {}
    /\ watching = {} /\ starting = {}
    /\ pending = {} /\ still = {} /\ going = {} /\ done = {}
    /\ run = 0 /\ live \in LiveSets /\ faults \in FaultSets /\ crashes = 0 /\ acts = 0
    /\ told = {} /\ ranOn = {} /\ refused = {} /\ nextBoot = {} /\ touched = {}

Fails(call) == call \in faults
\* A call under the backup's context.
Breaks(call) == ctxDone \/ Fails(call)

Goto(step) == pc' = step
\* The lock is let go.
LetGo == pc' = "idle" /\ vm' = None
Rests == was' = FALSE /\ shutting' = FALSE /\ err' = "none" /\ ctxDone' = FALSE /\ todo' = {}

\* virsh start: refused for a VM that is not off.
StartsUp(v) ==
    /\ guest[v] = "shut off"
    /\ guest' = [guest EXCEPT ![v] = "running"]
    /\ asked' = [asked EXCEPT ![v] = "nobody"]
    /\ told' = told \ {v}
    /\ nextBoot' = nextBoot \ {v}

StartRefused(v) == guest[v] # "shut off" \/ Fails("start")

\* A write to the record, or one that fails and is logged.
Forgets(vs) ==
    \/ record' = record \ vs
    \/ Fails("clear") /\ record' = record

----------------------------------------------------------------------------
(* BackupVM up to the run *)

Begin(v) ==
    /\ pc = "idle" /\ run < MaxRuns
    /\ guest[v] # "undefined"
    /\ Goto("merge") /\ vm' = v
    /\ todo' = onOverlay \cap Disks[v]
    /\ run' = run + 1
    /\ touched' = {}
    /\ UNCHANGED <<host, record, was, shutting, err, ctxDone, watches, sweep, live, faults,
                   crashes, acts, told, ranOn, refused,
                   nextBoot>>

Cancel ==
    /\ pc \notin {"idle", "late", "lateClear", "down", "boot", "bootClear"}
    /\ Fails("cancel") /\ ~ctxDone
    /\ ctxDone' = TRUE
    /\ UNCHANGED <<host, record, pc, vm, was, shutting, err, todo, watches, sweep, bounds,
                   history>>

\* Before the run is recorded a failure ends the backup with nothing touched.
GivesUp ==
    /\ \/ /\ pc = "merge" /\ todo # {}
          /\ guest[vm] # "running" \/ Breaks("commit")
       \/ /\ pc \in {"merge", "method"}
          /\ Breaks("state")
    /\ LetGo /\ Rests
    /\ UNCHANGED <<host, record, watches, sweep, bounds, history>>

\* blockcommit --active --pivot: the file of the overlay stays behind.
Pivots(d) ==
    /\ guest[vm] = "running"
    /\ onOverlay' = onOverlay \ {d}
    /\ todo' = todo \ {d}

\* recoverLeftoverOverlay: what a live backup left on an overlay is merged
\* first, and only a running VM can be.
Merge(d) ==
    /\ pc = "merge" /\ d \in todo /\ ~ctxDone
    /\ Pivots(d)
    /\ UNCHANGED <<guest, asked, files, record, pc, vm, was, shutting, err, ctxDone,
                   watches, sweep, bounds, history>>

Merged ==
    /\ pc = "merge" /\ todo = {}
    /\ Goto("stray")
    /\ UNCHANGED <<host, record, vm, backup, watches, sweep, bounds, history>>

AnyFile == {}                           \* mutant: nobody's disks are looked at

\* vmDiskSources, as far as overlays are concerned.
InUse == {OverlayPath[d] : d \in onOverlay}

\* removeStrayOverlays: unless the disks of some VM cannot be read, or the
\* file cannot be removed.
RemoveStray ==
    \/ files' = files \ ({OverlayPath[d] : d \in Disks[vm]} \ InUse)
    \/ /\ Breaks("sources") \/ Fails("remove")
       /\ files' = files

Stray ==
    /\ pc = "stray"
    /\ RemoveStray
    /\ Goto("method")
    /\ UNCHANGED <<guest, asked, onOverlay, record, vm, backup, watches, sweep, bounds,
                   history>>

\* Only a running VM can be backed up live; one that is off is read as it is.
Method ==
    /\ pc = "method" /\ ~ctxDone
    /\ Goto(IF vm \in live /\ guest[vm] = "running" THEN "snap" ELSE "check")
    /\ UNCHANGED <<host, record, vm, backup, watches, sweep, bounds, history>>

----------------------------------------------------------------------------
(* runVMGraceful *)

\* The run fails with nothing to undo.
Fail == err' = "failed" /\ Goto("finish")

Check ==
    /\ pc = "check"
    /\ \/ /\ ~ctxDone
          /\ was' = (guest[vm] = "running")
          /\ Goto(IF was' THEN "mark" ELSE "look")
          /\ err' = err
       \/ /\ Breaks("state")
          /\ Fail
          /\ was' = was
    /\ UNCHANGED <<host, record, vm, shutting, ctxDone, todo, watches, sweep, bounds,
                   history>>

\* A guest somebody else shuts down is waited for; a look that fails is not
\* repeated.
Look ==
    /\ pc = "look"
    /\ \/ /\ ~ctxDone
          /\ Goto(IF guest[vm] = "in shutdown" THEN "waitOther" ELSE "read")
       \/ /\ Breaks("state")
          /\ Goto("read")
    /\ UNCHANGED <<host, record, vm, backup, watches, sweep, bounds, history>>

\* waitShutOff: until it is off, or a timeout, a cancel or a failed poll.
WaitOther ==
    /\ pc = "waitOther"
    /\ \/ /\ guest[vm] = "shut off" /\ ~ctxDone
          /\ Goto("read")
          /\ err' = err
       \/ /\ guest[vm] # "shut off" \/ Breaks("state")
          /\ Fail
    /\ UNCHANGED <<host, record, vm, was, shutting, ctxDone, todo, watches, sweep, bounds,
                   history>>

Mark ==
    /\ pc = "mark"
    /\ \/ /\ record' = record \cup {vm}
          /\ ranOn' = ranOn \ {vm} /\ refused' = refused \ {vm}
       \/ /\ Fails("mark")
          /\ UNCHANGED <<record, ranOn, refused>>
    /\ Goto("shutdown")
    /\ UNCHANGED <<host, vm, backup, watches, sweep, bounds, told, nextBoot, touched>>

\* A guest on its way down may take a second request or refuse it.
TakesRequest == guest[vm] \in {"running", "in shutdown"}

\* The request goes out although the backup is cancelled.
Shutdown ==
    /\ pc = "shutdown" /\ TakesRequest
    /\ asked' = [asked EXCEPT ![vm] = IF @ = "user" THEN @ ELSE "backup"]
    /\ shutting' = TRUE
    /\ Goto("wait")
    /\ UNCHANGED <<guest, onOverlay, files, record, vm, was, err, ctxDone, todo, watches,
                   sweep, bounds, history>>

\* It is refused, or the guest has it and only the answer is lost.
ShutdownFails ==
    /\ pc = "shutdown"
    /\ \/ /\ guest[vm] # "running" \/ Fails("shutdown")
          /\ asked' = asked
       \/ /\ TakesRequest /\ Fails("lost")
          /\ asked' = [asked EXCEPT ![vm] = IF @ = "user" THEN @ ELSE "backup"]
    /\ Forgets({vm})
    /\ refused' = refused \cup {vm}
    /\ err' = "failed"
    /\ Goto("restart")
    /\ UNCHANGED <<guest, onOverlay, files, vm, was, shutting, ctxDone, todo, watches,
                   sweep, bounds, told, ranOn, nextBoot, touched>>

Wait ==
    /\ pc = "wait"
    /\ \/ /\ guest[vm] = "shut off" /\ ~ctxDone
          /\ shutting' = FALSE /\ err' = err
          /\ Goto("read")
       \/ /\ guest[vm] # "shut off" \/ Breaks("state")
          /\ shutting' = shutting /\ err' = "failed"
          /\ Goto("restart")
    /\ UNCHANGED <<host, record, vm, was, ctxDone, todo, watches, sweep, bounds, history>>

Read ==
    /\ pc = "read"
    /\ \/ ~ctxDone /\ err' = err
       \/ /\ Breaks("restic")
          /\ err' = "failed"
    /\ Goto(IF was THEN "restart" ELSE "finish")
    /\ UNCHANGED <<host, record, vm, was, shutting, ctxDone, todo, watches, sweep, bounds,
                   history>>

ThisRun == <<vm, run>>

NoWatch ==                              \* mutant: nobody waits for a late guest
    /\ pc = "restart"
    /\ Goto(IF shutting /\ guest[vm] # "shut off" THEN "finish" ELSE "start")
    /\ UNCHANGED <<host, record, vm, backup, watches, sweep, bounds, history>>

\* The deferred start leaves a guest that is still going to LateShutdown.
Restart ==
    /\ pc = "restart"
    /\ \/ /\ shutting
          /\ guest[vm] # "shut off" \/ Fails("state")
          /\ watching' = watching \cup {ThisRun}
          /\ Goto("finish")
       \/ /\ ~shutting \/ guest[vm] = "shut off"
          /\ watching' = watching
          /\ Goto("start")
    /\ UNCHANGED <<host, record, vm, backup, starting, sweep, bounds, history>>

Start ==
    /\ pc = "start"
    /\ StartsUp(vm)
    /\ Goto("clear")
    /\ UNCHANGED <<onOverlay, files, record, vm, backup, watches, sweep, bounds, ranOn,
                   refused, touched>>

StartFails ==
    /\ pc = "start" /\ StartRefused(vm)
    /\ err' = "restart"
    /\ Goto("finish")
    /\ UNCHANGED <<host, record, vm, was, shutting, ctxDone, todo, watches, sweep, bounds,
                   history>>

\* clearVMDown.
Clear ==
    /\ pc = "clear"
    /\ Forgets({vm})
    /\ Goto("finish")
    /\ UNCHANGED <<host, vm, backup, watches, sweep, bounds, history>>

QuietFinish ==                          \* mutant: the run keeps to itself what is off
    /\ pc = "finish"
    /\ LetGo /\ Rests
    /\ UNCHANGED <<host, record, watches, sweep, bounds, history>>

\* finishVMRun: the run row says what went wrong.
Finish ==
    /\ pc = "finish"
    /\ told' = IF err = "restart" THEN told \cup {vm} ELSE told
    /\ LetGo /\ Rests
    /\ UNCHANGED <<host, record, watches, sweep, bounds, ranOn, refused, nextBoot, touched>>

----------------------------------------------------------------------------
(* runVMLive *)

\* Atomic: every disk is put on an overlay, or none is.
Snapshot ==
    /\ pc = "snap" /\ ~ctxDone
    /\ LET overlays == {OverlayPath[d] : d \in Disks[vm]} IN
        /\ overlays \cap files = {}
        /\ files' = files \cup overlays
    /\ onOverlay' = onOverlay \cup Disks[vm]
    /\ Goto("readLive")
    /\ UNCHANGED <<guest, asked, record, vm, backup, watches, sweep, bounds, history>>

\* Also when an overlay file of an earlier backup is still there.
SnapshotFails ==
    /\ pc = "snap"
    /\ Breaks("snapshot") \/ \E d \in Disks[vm] : OverlayPath[d] \in files
    /\ Fail
    /\ UNCHANGED <<host, record, vm, was, shutting, ctxDone, todo, watches, sweep, bounds,
                   history>>

ReadLive ==
    /\ pc = "readLive"
    /\ \/ ~ctxDone /\ err' = err
       \/ /\ Breaks("restic")
          /\ err' = "failed"
    /\ todo' = Disks[vm]
    /\ Goto("commit")
    /\ UNCHANGED <<host, record, vm, was, shutting, ctxDone, watches, sweep, bounds, history>>

\* Every device is tried, cancelled or not; the first failure is the run's.
Commit(d) ==
    /\ pc = "commit" /\ d \in todo
    /\ \/ Pivots(d) /\ err' = err
       \/ /\ guest[vm] # "running" \/ Fails("commit")
          /\ onOverlay' = onOverlay /\ todo' = todo \ {d} /\ err' = "failed"
    /\ UNCHANGED <<guest, asked, files, record, pc, vm, was, shutting, ctxDone, watches,
                   sweep, bounds, history>>

Committed ==
    /\ pc = "commit" /\ todo = {}
    /\ Goto(IF err = "none" THEN "sweep" ELSE "finish")
    /\ UNCHANGED <<host, record, vm, backup, watches, sweep, bounds, history>>

\* The run is recorded, and the merged overlays are orphans.
Sweep ==
    /\ pc = "sweep"
    /\ RemoveStray
    /\ LetGo /\ Rests
    /\ UNCHANGED <<guest, asked, onOverlay, record, watches, sweep, bounds, history>>

----------------------------------------------------------------------------
(* awaitLateShutdown, a goroutine per late guest *)

Drop(w) == watching' = watching \ {w}

\* A later backup that brought the VM back has dropped the record.
WatchEnds(w) ==
    /\ w \in watching /\ w[1] \notin record
    /\ Drop(w)
    /\ UNCHANGED <<host, record, pc, vm, backup, starting, sweep, bounds, history>>

\* A record that cannot be listed counts as there.
WatchSeesOff(w) ==
    /\ w \in watching
    /\ w[1] \in record \/ Fails("list")
    /\ guest[w[1]] = "shut off"
    /\ Drop(w)
    /\ starting' = starting \cup {w}
    /\ UNCHANGED <<host, record, pc, vm, backup, sweep, bounds, history>>

\* After an hour the guest counts as running on.
WatchExpires(w) ==
    /\ w \in watching
    /\ Drop(w)
    /\ Forgets({w[1]})
    /\ ranOn' = ranOn \cup {w[1]}
    /\ UNCHANGED <<host, pc, vm, backup, starting, sweep, bounds, told, refused, nextBoot,
                   touched>>

LateUnlocked(w) ==                      \* mutant: the start does not take the lock
    /\ w \in starting /\ pc # "down"
    /\ starting' = starting \ {w}
    /\ StartsUp(w[1])
    /\ UNCHANGED <<onOverlay, files, record, pc, vm, backup, watching, sweep, bounds,
                   ranOn, refused, touched>>

\* startLateVM waits for the section's lock.
LateLock(w) ==
    /\ w \in starting /\ pc = "idle"
    /\ starting' = starting \ {w}
    /\ Goto("late") /\ vm' = w[1]
    /\ UNCHANGED <<host, record, backup, watching, sweep, bounds, history>>

\* The backup it waited for may have settled the matter.
LateMoot ==
    /\ pc = "late"
    /\ vm \notin record \/ guest[vm] # "shut off" \/ Fails("state")
    /\ LetGo
    /\ UNCHANGED <<host, record, backup, watches, sweep, bounds, history>>

LateStart ==
    /\ pc = "late"
    /\ vm \in record \/ Fails("list")
    /\ StartsUp(vm)
    /\ Goto("lateClear")
    /\ UNCHANGED <<onOverlay, files, record, vm, backup, watches, sweep, bounds, ranOn,
                   refused, touched>>

\* The failure goes to the run's row and into a message.
LateFails ==
    /\ pc = "late"
    /\ vm \in record \/ Fails("list")
    /\ guest[vm] = "shut off" /\ Fails("start")
    /\ told' = told \cup {vm}
    /\ LetGo
    /\ UNCHANGED <<host, record, backup, watches, sweep, bounds, ranOn, refused, nextBoot, touched>>

LateClear ==
    /\ pc = "lateClear"
    /\ Forgets({vm})
    /\ LetGo
    /\ UNCHANGED <<host, backup, watches, sweep, bounds, history>>

----------------------------------------------------------------------------
(* RecoverVMRestarts *)

\* The process dies; a watch dies with it.
Crash ==
    /\ pc # "down" /\ crashes < MaxCrashes
    /\ Goto("down") /\ vm' = None /\ Rests
    /\ watching' = {} /\ starting' = {}
    /\ pending' = {} /\ still' = {} /\ going' = {} /\ done' = {}
    /\ crashes' = crashes + 1
    /\ UNCHANGED <<host, record, live, run, faults, acts, history>>

\* A record that cannot be read is left for the next boot.
Boot ==
    /\ pc = "down"
    /\ \/ /\ record # {}
          /\ pending' = record
          /\ Goto("boot")
       \/ /\ record = {} \/ Fails("list")
          /\ pending' = {}
          /\ Goto("idle")
    /\ UNCHANGED <<host, record, vm, backup, watches, still, going, done, bounds, history>>

\* One VM of a round: started, or gone, or still there for the next round.
BootStarts(v) ==
    /\ pc = "boot" /\ v \in pending
    /\ pending' = pending \ {v}
    /\ \/ StartsUp(v)
       \/ guest[v] = "undefined" /\ UNCHANGED <<guest, asked, told, nextBoot>>
    /\ done' = done \cup {v}
    /\ UNCHANGED <<onOverlay, files, record, pc, vm, backup, watches, still, going, bounds,
                   ranOn, refused, touched>>

BootCannot(v) ==
    /\ pc = "boot" /\ v \in pending
    /\ Fails("state") \/ (guest[v] = "shut off" /\ Fails("start"))
    /\ pending' = pending \ {v}
    /\ UNCHANGED <<host, record, pc, vm, backup, watches, still, going, done, bounds, history>>

BootLeaves(v) ==
    /\ pc = "boot" /\ v \in pending
    /\ guest[v] \in {"running", "in shutdown"}
    /\ pending' = pending \ {v}
    /\ still' = still \cup {v}
    /\ going' = IF guest[v] = "in shutdown" THEN going \cup {v} ELSE going \ {v}
    /\ UNCHANGED <<host, record, pc, vm, backup, watches, done, bounds, history>>

BootAgain ==
    /\ pc = "boot" /\ pending = {} /\ still # {}
    /\ pending' = still /\ still' = {}
    /\ UNCHANGED <<host, record, pc, vm, backup, watches, going, done, bounds, history>>

\* Whoever still runs after the last round was never left off.
RunsOn == still \ going

BootForgets(vs) ==
    /\ done' = done \cup vs
    /\ ranOn' = ranOn \cup {v \in vs : asked[v] = "backup"}
    /\ nextBoot' = nextBoot \cup ((pending \cup still) \ vs)

\* The last round, or the end of the time for all of them, also in the middle
\* of a round: whom it has not come to it can no longer look at.
BootEnds ==
    /\ pc = "boot"
    /\ \/ pending = {} /\ BootForgets(RunsOn)
       \/ BootForgets({})
    /\ pending' = {} /\ still' = {} /\ going' = {}
    /\ Goto("bootClear")
    /\ UNCHANGED <<host, record, vm, backup, watches, bounds, told, refused, touched>>

BootClear ==
    /\ pc = "bootClear"
    /\ Forgets(done)
    /\ done' = {}
    /\ LetGo
    /\ UNCHANGED <<host, backup, watches, pending, still, going, bounds, history>>

----------------------------------------------------------------------------
(* The guests and the user *)

\* A guest obeys in its own time, or never.
GuestMoves(v) ==
    /\ asked[v] # "nobody"
    /\ \/ /\ guest[v] = "running"
          /\ guest' = [guest EXCEPT ![v] = "in shutdown"]
       \/ /\ guest[v] = "in shutdown"
          /\ guest' = [guest EXCEPT ![v] = "shut off"]
    /\ UNCHANGED <<asked, onOverlay, files, record, pc, vm, backup, watches, sweep, bounds,
                   history>>

UserStarts(v) ==
    /\ acts < MaxUserActs
    /\ StartsUp(v)
    /\ touched' = touched \cup {v}
    /\ acts' = acts + 1
    /\ UNCHANGED <<onOverlay, files, record, pc, vm, backup, watches, sweep, live, run,
                   faults, crashes, ranOn, refused>>

UserStops(v) ==
    /\ acts < MaxUserActs
    /\ guest[v] = "running" /\ asked[v] = "nobody"
    /\ asked' = [asked EXCEPT ![v] = "user"]
    /\ acts' = acts + 1
    /\ UNCHANGED <<guest, onOverlay, files, record, pc, vm, backup, watches, sweep, live, run,
                   faults, crashes, history>>

UserUndefines(v) ==
    /\ acts < MaxUserActs
    /\ guest[v] = "shut off"
    /\ guest' = [guest EXCEPT ![v] = "undefined"]
    /\ asked' = [asked EXCEPT ![v] = "nobody"]
    /\ onOverlay' = onOverlay \ Disks[v]
    /\ acts' = acts + 1
    /\ UNCHANGED <<files, record, pc, vm, backup, watches, sweep, live, run, faults, crashes,
                   history>>

----------------------------------------------------------------------------
Backup ==
    \/ GivesUp \/ Merged \/ Stray \/ Method
    \/ Check \/ Look \/ WaitOther \/ Mark \/ Shutdown \/ ShutdownFails \/ Wait \/ Read
    \/ Restart \/ Start \/ StartFails \/ Clear \/ Finish
    \/ Snapshot \/ SnapshotFails \/ ReadLive \/ Committed \/ Sweep
    \/ \E d \in AllDisks : Merge(d) \/ Commit(d)

Watch(w) == WatchEnds(w) \/ WatchSeesOff(w) \/ WatchExpires(w)
Late == LateMoot \/ LateStart \/ LateFails \/ LateClear

Recovery ==
    \/ Boot \/ BootAgain \/ BootEnds \/ BootClear
    \/ \E v \in VMs : BootStarts(v) \/ BootCannot(v) \/ BootLeaves(v)

Watchers == VMs \X (1 .. MaxRuns)

User == \E v \in VMs : UserStarts(v) \/ UserStops(v) \/ UserUndefines(v)

Next ==
    \/ \E v \in VMs : Begin(v) \/ GuestMoves(v)
    \/ Backup \/ Cancel \/ Late \/ Recovery \/ Crash \/ User
    \/ \E w \in Watchers : Watch(w) \/ LateLock(w)

Spec == Init /\ [][Next]_vars

\* A backup, a watch and a sweep go on by themselves, the lock is handed to who
\* waits for it, the polls of the sweep are counted, and the container runtime
\* starts a process that died.
FairSpec ==
    /\ Spec
    /\ WF_vars(Backup \/ Late \/ Recovery)
    /\ SF_vars(BootEnds)
    /\ WF_vars(\E w \in Watchers : Watch(w))
    /\ SF_vars(\E w \in Watchers : LateLock(w))

----------------------------------------------------------------------------
(* Properties *)

\* No disk is read while a guest writes to it, nor one that only holds part of
\* the data: a graceful backup reads the base disks of a VM that is off, unless
\* the user starts it meanwhile or the look at it fails, and a live one reads
\* below the overlays of a VM that is still there (runVMGraceful, runVMLive,
\* recoverLeftoverOverlay).
ReadIsStill ==
    /\ pc = "read" =>
        /\ Disks[vm] \cap onOverlay = {}
        /\ \/ guest[vm] \in {"shut off", "undefined"}
           \/ vm \in touched
           \/ "state" \in faults \/ ctxDone
    /\ pc = "readLive" => Disks[vm] \subseteq onOverlay \/ guest[vm] = "undefined"

\* A VM never has a disk on an overlay whose file is gone, whichever backups of
\* VMs in one folder were interrupted before (removeStrayOverlays).
OverlayIsThere == \A d \in onOverlay : OverlayPath[d] \in files

InHand(v) == vm = v /\ pc \in {"shutdown", "restart", "start", "finish"}

OffByBackup(v) == guest[v] = "shut off" /\ asked[v] = "backup"

\* A VM a backup shut down is started by somebody or on record for it, or a run
\* or a message says it could not be started: after timeouts, cancels, failed
\* starts and a crash at any point.  Left out are a guest that outlasts the hour
\* or the boot's rounds, a record that could not be written, and a crash on top
\* of a lost answer (runVMGraceful, awaitLateShutdown, restartLeftVMs).
OffIsKnown ==
    \A v \in VMs :
        OffByBackup(v) /\ v \notin ranOn /\ "mark" \notin faults
            /\ (v \in refused => crashes = 0)
        => v \in record \cup told \/ InHand(v)

Smooth == faults \subseteq {"shutdown", "restic", "snapshot", "commit", "cancel"}

\* What the program was wrong about, has said, or leaves to its next start.
Excused(v) == v \in ranOn \cup refused \cup told \cup nextBoot

\* With a host that answers, a database that works and starts that succeed, such
\* a VM is started again, through timeouts, cancels and a crash at any point
\* (the deferred start, startLateVM, RecoverVMRestarts).
OffComesBack ==
    \A v \in VMs : (Smooth /\ OffByBackup(v)) ~> (~OffByBackup(v) \/ Excused(v))

=============================================================================
