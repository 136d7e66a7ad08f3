# Verification of BombVault

TLA+ models of the parts of BombVault that stop, lock and start other people's
software, the TLC runs that check them on small instances, and TLAPS proofs of
what matters most for every instance. Paths without a directory are in
`src/internal/api`, and `orchestrator.go` is `src/internal/backup/orchestrator.go`.

BombVault is one Go process that backs up containers, VMs, ZFS datasets,
folders, the flash drive and itself with restic. To read data that does not
change under it, it takes the software that writes the data down, and it owes
everybody to bring it up again: on an error, after a cancel, after the death
of the process, and also when Docker or the database does not cooperate. That
debt is what this project is about.

    Module            models                                checked  proved
    ContainerBackup   a container backup and its boot       2 runs   6 theorems
    DomainLocks       the lock of one section               1 run    7 theorems
    SectionMutex      what that lock promises               (refined by DomainLocks)
    ZFSWindow         a dataset's consistency window        2 runs   6 theorems
    RestartOrder      in which order things come up         1 run    5 theorems
    ZFSReplication    the replication of a dataset tree     2 runs   5 theorems
    VMBackup          graceful and live VM backups          1 run    4 theorems
    BusyWaits         scheduled backups of busy apps        1 run    3 theorems
    RunControl        cancel, stall, cap and shutdown       2 runs   5 theorems

## 1. Inventory

### The parts, their state and their operations

**Container backup** (`orchestrator.go`, `container_snapshot.go`,
`restore_removals.go`, `service.go:7404-7615`). State: which containers run
(Docker), the restart records `container_restart_pending`, the row
`restore_removals` an update writes, the run row, and the locals of
`BackupContainer`. Operations: the preflight (busy app, pre-hook, dump), the
stops, the read (live, or from a ZFS snapshot with everything up again), the
restart in two deferred functions, the update of the target to a newer image,
the report of what did not come back, and at boot `ReapInterruptedRuns`,
`RecoverInterruptedRestores` and `RecoverContainerRestarts`. Hard: every call
can fail, a container may exit right after its start, the process may die
between any two calls, a cancel or time limit ends the context anywhere, a
user works on the same Docker daemon. Correct when: nothing is read while it
runs; nothing that was taken down stays down unless somebody is told; whatever
is down while the process might die is on a record; what the user turned off,
outside the stretch in which a backup has it in hand, stays off.

**Section locks** (`service.go:701-971`, `destination_removal.go:266-290`,
`item_probe.go:236-254`, `zfs_consistency.go:42-90`). State, all in memory: a
mutex per section, the label that says who holds it, the count of those who
wait, the registered follow-up. Operations: five ways of taking a section, each
with its own rule about waiting. Hard: the four pieces of state are accessed in
separate critical sections, and a wait with a deadline is a goroutine that may
get the mutex after everybody forgot it. Correct when: the section is a mutex,
the label is true, the count returns to zero, follow-ups give way, and a
blocked backup gets its turn.

**ZFS consistency window** (`zfs_consistency.go`, `shared_namespace.go`,
`src/internal/backup/zfs_orchestrator.go`). State: Docker's running containers,
`restart_pending` on the row of each dataset, the window's lists, whether the
pre command has run. Operations: Freeze (look, record, stop level by level in
parallel), the snapshot, thaw, the post command, `RecoverZFSRestarts`. Hard:
stops that fail although the container went down, rows that are replaced as a
whole, several datasets with common containers, shared network namespaces.
Correct when: the snapshot is quiet, nothing that is down is forgotten,
dependents stop before what they need, no container keeps a dead network, and
the post command follows the pre command.

**Restart order** (`src/internal/compose/compose.go`, `shared_namespace.go`,
`splitAroundTarget` and `StopLevels`). Pure: from depends_on labels, links,
database rules and shared namespaces to an order of starts around the target
and to levels of stops. Hard: cycles, chains of namespaces, rules that
contradict each other. Correct when: everything is started once, an owner of a
namespace before those who join it, a dependency before its dependents.

**ZFS replication** (`src/internal/zfsrepl`). State: of each dataset of the tree
the snapshots, bookmarks and holds on the source, the snapshots and the partial
receive on the target; of a run the names and points it has read. Operations: a
run (one recursive snapshot, then for every member look, resume, stream, land,
bookmark, hold, clear, prune, drop) and `Clean`, which a switched off replica
gets. Hard: two machines and no transaction, streams that break off, a cancel
between any two calls, snapshots that are destroyed by hand, several runs that
each did a part. Correct when: the newest copy has its base on the source, a
partial receive keeps the snapshot it leads to, an undisturbed run brings
everything up to date, and snapshots do not pile up.

**VM backup** (`src/internal/backup/vm_orchestrator.go`, `vm_restarts.go`,
`service.go:14055-14580`). State: the guests, the disks that are on an overlay and
the overlay files, `vm_restart_pending`, the watches of guests that were asked
to shut down and did not. Operations: the graceful backup (record, shutdown,
wait, read, restart), the live one (overlay, read, commit), the clearing of an
overlay an earlier one left, the watch, the recovery at boot. Hard: a guest
shuts down when it likes, also after the backup gave up and during a later one;
a lost answer is not a refusal; files of two VMs in one folder. Correct when: no
disk is read while it is written, no VM loses the overlay it runs on, a VM that
a backup turned off is known and comes back.

**Waits** (`idle_wait.go`, `deferral.go`). State: the groups of `idle_wait_groups`
and their twins in memory with a watch each, `deferred_backups`, what a fire of
the schedule has looked at, what `tryDeferrals` has listed. Operations:
`HoldForIdle`, the watch and its end, the resume at start, a deferral, its tries,
drop and deadline. Hard: three loops and a click go over the same apps from
lists that are stale when used, and each has its own guard. Correct when: what a
fire asked for is under way, waiting or on record; an app waits once; every wait
and every deferral ends.

**Run control** (`shutdown.go`, `stall_guard.go`, `runsAdapter` in `service.go`).
State: four maps from an item's progress key to the cancel function, the run,
the commit mark and the cancel mark of the backup that runs under it, and the flag
that says the process leaves. Operations: register, bind, commit, unregister, the
user's cancel, the verdict of the stall guard, the cap, `BeginShutdown`. Hard: the
maps have one place per item while calls queue for a lock; a cancel function is
called after the lock that chose it is gone; the status of a run is decided from
marks others set. Correct when: a running backup can be reached, a cancel ends what
it was aimed at, the row says what ended a run, a clean shutdown leaves no open row.

**Container restore** (`RestoreContainer`, `beside.go`): stops, sets aside,
restores, creates again and rejoins the sharers, with a record for a crash.
**Retention, off-site copies and anomaly holds**, the
**schedule**, the **store** (SQLite), the **drivers** of restic, Docker, libvirt
and ZFS, the **HTTP interface** with its web and Android clients, **relay and
groups**, **notifications**, **keys**: `PROJECT.json` lists each with its files and
why it is or is not modelled.

### How they interact

Every backup takes its section first (`DomainLocks`) and registers with run
control. A container backup asks restart order for the sides of the target and
for the order of its restarts, and Docker for everything else. A dataset backup
takes the sections "zfs" and, for its window, "containers" with a deadline, and
uses the same restart order for its levels. A VM backup, the late start of a VM
and the boot's sweep share the section "vms". The replication of an item
excludes its own cleaning and takes no section. A fire of the schedule goes
through the waits before it becomes container backups, and a container backup
that finds its app busy becomes a deferral. Boot runs the recoveries before the
schedule and the waits start: first the rows of interrupted updates and
restores, then the records of containers that are down, then the rows of
windows and the records of VMs. The only state the parts share is Docker, the database and the locks.

## 2. The modules

### ContainerBackup

One container (`Target`) is backed up again and again; `Deps` are the other
containers of its stop list, `Before` those that start before it, `Sharers`
those that live in its network namespace and can only run while it does, on the
container ID they were created with.

| variable | in the code |
|---|---|
| `up`, `present`, `stale`, `bound` | Docker: running containers, whether the target exists, who is bound to a removed ID |
| `marks`, `removal`, `run` | `container_restart_pending`, the row of `restore_removals`, the run row's status |
| `pc` | the place in `BackupContainer`, `recreateForUpdate` or the boot |
| `snap`, `upd`, `was` | `d.Snapshot`, `d.UpdateAfterBackup`, the `WasRunning` flags |
| `held`, `todo`, `stopped` | `goingDown`, the rest of the current loop, `stoppedDeps` |
| `notBack`, `cutOff`, `err`, `ctxDone`, `taken` | the locals of those names; `ctx.Err() != nil`; a snapshot is there |
| `down`, `owed`, `userOff`, `touched` | history, for the properties |

Actions follow the function from top to bottom: `Begin`, `Defer`,
`PreflightFails`, `PreflightPasses`, `MarkDown`, `StopTarget`, `StopDep` with
their failures, `StopsDone`, `Read` or `Take`, the unwinding `StartDep` and
`StartTarget`, `ClearDown`, `ReadSnapshot`, `Commit`, `Finish`. A live read
unwinds after the read, a snapshot read before it. The update is `NewImage`
and the `Upd...` and `Roll...` actions, one per Docker call, ending in
`UpdRejoin`. A snapshot read takes the dependents down a second time for it
(`round = 2`). `Crash` may come between any two actions; `Boot`, the `Rec...`
actions and `Begin` follow. `Cancel` is any end of the context. A user starts
and stops containers at any moment, each container once per backup. `userOff` is
history: what a user turned off while it was theirs to say (`Decides`) and no backup
has taken that back since (`Overrules`, in `PreflightPasses` and `NewImage`).

`Faults` names the calls that may fail: `stop` (nothing happened), `lateStop`
(the call fails and the daemon has carried it out all the same), `start`, `die` (the
container exits at once), `create`, `recreate`, `rejoin`, `remove`, `read`, `take`, and of the
database `mark`, `clear`, `list`, then `health`, and `look`, by which the boot inspects
what a record names. `lapsed` is history: one of the last five has failed, which is
when the program no longer promises to tell. `Rejoin` names the sharers it tried and
could not move; those it never saw, because Docker did not list or show them, it does not.

### DomainLocks and SectionMutex

One section. The five kinds of operations are five sets of processes; `pc[p]`
is the place of an operation in its function, and each access to the mutex, the
label, the count or the registered follow-up is one step, because each is its
own critical section. `Brief` are the operations a removal waits for. A window
(`lockWithin`) waits through a goroutine; after its deadline that goroutine
(`gaveUp`) still takes the mutex and lets it go. `SectionMutex` is the abstract
specification, in which operations enter and leave one at a time. `DomainLocks`
implements it under `inside <- {p : pc[p] \in Inside}`, which excludes the
abandoned goroutines: they hold the mutex and do nothing.

### ZFSWindow

`Items` are the configured datasets, each with a `StopList`; `Needs` and `Joins`
are the dependencies and shared namespaces of the containers. A run is the pre
command, `Looks` (which of the list run, and who shares a namespace with one of
them), `Marks`, a parallel `StopWorks`/`StopFails`/`LooksAgain` per container of
a level, `LevelDone`, `Snaps`, the starts, `ThawEnds`, `Posts`. The boot goes
over the rows with the same starts. Runs follow each other, since both sections
are held. `marker` is `restart_pending`; it is only ever replaced as a whole,
and `over` remembers what such a replacement dropped.

### RestartOrder

The inputs (who joins whom, who needs whom, what the target needs) are chosen
at the start and enumerated completely. `SettleAfter` and `SettleBefore` are the
two loops of `settleAroundTarget`, `Emit`, `NewPass` and `AppendRest` one pass
of `StartOrder` (Kahn's algorithm in list order, the rest of a cycle in list
order), `FirstStarted`, `TargetStarted` and `SecondStarted` what
`splitAroundTarget` makes of it, and `SetLevel` is `StopLevels`.

### ZFSReplication

A snapshot is the number of the run that took it, which is its name, its guid
and its place in time at once; a run takes the next one for the whole tree.

| variable | in the code |
|---|---|
| `snaps`, `marks`, `held` | the replica snapshots, bookmarks and holds of a member on the source |
| `copy`, `partial` | its snapshots on the target; what `receive_resume_token` stands for |
| `snap`, `pc`, `left`, `member` | the run, its step, the members to do, the one it is doing |
| `own`, `src`, `tgt`, `pruned`, `streamed` | what the run has read and done: stale by the next step |

One action per call to a machine, so that a crash, a cancel or a user can come
between any two: `Look`, `Resume`, `View`, `Stream`, `Bookmark`, `Hold`, `Clear`,
`Prune`, `PruneBookmarks`, `KeepOrDrop`, each with what it does when the call fails.
`IsNext` keeps the order of the listing (parents first), `SweepExcluded` is the
end of a run. `Clean` is one step, since it holds the replica's lock and makes
local calls only; the model has no crash inside it.

### VMBackup

`guest` is what virsh says, `asked` whose shutdown request a guest is working on:
the program does not know, the properties do. `pc` is the step of whoever holds
the lock of the section: a backup, the late start of a watch (`late`,
`lateClear`) or, before the server runs, the boot. The graceful backup is `Check`,
`Look`, `WaitOther`, `Mark`, `Shutdown`, `Wait`, `Read`, `Restart`, `Start`, `Clear`,
`Finish`; the live one `Snapshot`, `ReadLive`, `Commit`, `Sweep`; both begin with
`Merge` and `RemoveStray`, which clear what an earlier one left. A watch is a VM
and the run it came from, so that a watch of an earlier backup can be told from
the own one. `told`, `ranOn`, `refused`, `nextBoot` and `touched` are history: each
names a way in which the program lets go of a VM with or without a word.

### BusyWaits

`Look` and `Hold` are the two halves of `HoldForIdle`, before and under the mutex of
the waits; `fires` is what the first found and the second uses. `groups` and
`stored` are a wait in memory and on record, by its key: the stack's, or the
app's own when Docker did not list the stacks. `watch` is its goroutine:
`resumed` between `ResumeIdleWaits` and `StartIdleWaits`, `poll`, and `end` once a
look found a reason to end it and before `endWait` locks. A run is a job in one
of the `Slots`: of a fire, of a held group, a try of a deferral or its last, or a
click; `Free` is the section they share. `listed` is the list `tryDeferrals` goes
over, with the verdict of its beginning, so every step of it may be stale.
`owed` are the apps a fire asked a backup of and has no answer for.

Time is `over`, the deferrals past their deadline; when an app is idle or a wait
has lasted its hours is left open. How an app is found busy, the policies and
the messages are left out.

### RunControl

| variable | in the code |
|---|---|
| `cancels`, `runs`, `cancelled`, `committed` | `backupCancels` with `backupCtxs`, `backupRuns`, `cancelledBackups`, `committedBackups` |
| `section` | the mutex of the section, all calls are of one |
| `pc`, `ctx`, `row`, `answer` | the place of a call, what ended its context, its run's status, what it returns |
| `fired` | cancel functions that were picked under `cancelMu` and are yet to be called |
| `leaving` | `no`, then the steps of `BeginShutdown`; `gone` is the end of the process |
| `asked`, `why`, `inFlight` | history |

A call is `Call`, `Enter`, `StartRun`, `BindRun`, `Commit`, `FinishWell` or `Fail` and
`FinishFailed`, and the deferred `Unlock` and `EndCancel`. Containers, VMs, flash and
configuration register in `Call`, before they wait (`early`), and unregister after
the lock is free; folders and datasets register in `RegisterLate`, once they have it
and have read their item, and unregister under it. `Cancel`, `StallDecides` and
`LookAround` pick what they end, `Ends` does it, later and in any order, and the first
cause of a context stays, as with Go's. The environment `order` also says whether calls
that register early may overlap for an item. How the guard measures is left open.

## 3. The runs

| run | instance | states | checks |
|---|---|---|---|
| `cb_faults` | both reads, update or not; every Docker call fails; 2 crashes, a user | 1 416 000 | `DownIsRecorded`, `ReadIsQuiet`, `NotBackIsTold`, `UserOffStaysOff` |
| `cb_orderly` | what was stopped starts; database, health checks and the boot's looks fail; 2 crashes; fair | 537 000 | `EverythingIsBack`, `DownIsResolved` |
| `dl_section` | 2 backups, 1 ask, 1 removal, 1 probe, 1 window; fair | 53 000 | `LabelNamesHolder`, `WantedCountsWaiters`, `PolledIsTold`, `OneInside`, `RunGetsIn`, `AskIsAnswered` |
| `zw_window` | 2 datasets, 3 containers; a benign, a start-refusing and a hostile environment; 2 crashes, 1 user act; fair | 255 000 | `NothingForgotten`, `SnapshotIsQuiet`, `AllIsBack`, `DependentsFirst`, `NobodyIsCutOff`, `HookIsUndone` |
| `ro_order` | every graph over 3 containers and the target | 635 000 | `TypeOK`, `EachOnce`, `OwnersFirst`, `NeedsFirstPerSide`, `LevelsDependentsFirst` |
| `zr_runs` | a root, a child, an excluded child; 3 runs in 3 environments; 1 crash, 1 clean, 1 user act | 4 550 000 | `BaseKept`, `UndisturbedRunLands`, `NothingPilesUp`, `ResumableKept` |
| `vm_backup` | 2 VMs with 3 disks in one folder; 2 backups in 4 environments; 1 crash, 1 user act; fair | 310 000 | `ReadIsStill`, `OverlayIsThere`, `OffIsKnown`, `OffComesBack` |
| `bw_waits` | 2 apps of one stack, 2 fires in 3 environments; 1 click, 1 crash, 1 user act; fair | 89 000 | `TypeOK`, `NothingIsLost`, `OneWaitEach`, `EveryFireEnds`, `DeferralEnds` |
| `rc_control` | 2 backups of one item or two, both ways to register; 2 cancels, stalls or caps, a shutdown | 2 959 000 | `RunningIsReachable`, `CancelHitsWhatWasAsked`, `EndingNamesItsCause`, `CleanLeavesNothingOpen` |
| three violation runs | see Findings | | one property each |

The type invariants are theorems; only those of RestartOrder and BusyWaits are also
checked by a run. `OwnerHolds` and `RegisteredHolds` of the lock are theorems without one.

What the properties say, in the order of their weight:

- `DownIsRecorded`: what the program holds down and still has to try to start is
  on a record that survives the process. With `DownIsResolved` it is the promise
  of crash safety: a record is there, and what is recorded comes back or is
  reported.
- `NotBackIsTold`: when a backup ends, a container it found running and that is
  not is named in the run or notification, whatever failed.
- `EverythingIsBack`: with a Docker that starts what was stopped, all of them
  run again at the end, after every failure of a stop, read, snapshot or
  create, and after a cancel at any point. This is where the order of the
  restarts, the rejoin after an update and the two deferred functions meet.
- `DownIsResolved`: where Docker starts what was stopped, what a backup took down
  comes up again or somebody is told, through both crashes. It excuses `lapsed`
  histories, in which a record could not be written, read or deleted, or a
  health check or a boot's look failed; `EverythingIsBack` does not. The exception `LostTwice` is
  real: one crash leaves a sharer bound to a removed target, so that it cannot
  start, and a second one loses its name.
- `ReadIsQuiet`, `SnapshotIsQuiet`: what is read is down.
- `UserOffStaysOff`: the program does not start a container that the user turned off
  between backups, while the process was dead or booting and no record named it, in a
  preflight (busy probe, pre-hook, dump) that defers, fails or dies, or while a
  snapshot is read or kept. The backup goes by the `WasRunning` of its inspect, so it
  undoes two decisions, and the property says so (`Overrules`): a stop in a preflight
  that passes, and one of the target or of a later dependent during the snapshot read
  when a new image follows. A stop between the first record and the last start does not
  count either way: there the backup itself stops and starts. Section 5 lists the
  counterexamples without the exceptions.
- `OneInside` is the refinement of `SectionMutex`. `LabelNamesHolder`,
  `WantedCountsWaiters` and the proved `RegisteredHolds` relate each of the other
  three pieces of lock state to the mutex; `PolledIsTold` says that an ask never
  waits for a probe that was not told to stop.
- `NothingForgotten`: the row of a dataset names what its windows took down, or
  a later window wrote over it. `AllIsBack` is its counterpart at rest.
- `NobodyIsCutOff`: Docker gives a restarted container a new network namespace.
  Nothing is stopped under a container that shares its namespace and runs on,
  whether or not that one is on the list; only a user's start is excepted.
- `DependentsFirst`, `HookIsUndone`, and the ordering properties of
  `RestartOrder`.
- `BaseKept`: the newest snapshot a target has of a member is still a snapshot or
  a bookmark on the source. Lost, it costs a full copy, and the code destroys
  snapshots and bookmarks in six places. `ResumableKept` is the same debt to a
  partial receive. `UndisturbedRunLands`: after any history of broken, cancelled
  and killed runs, one run without a failure puts everything right.
  `NothingPilesUp` bounds what such a run leaves on the source of the snapshots it
  knows for the item's own; those it does not know may pile up (section 5).
- `ReadIsStill`, `OverlayIsThere`: restic reads a disk nobody writes, and no clearing
  takes the overlay of a running guest, whatever was interrupted before.
- `OffIsKnown`, `OffComesBack`: a VM that is off because a backup asked for it is on
  record, reported or in a backup's hands, and, with a host that answers, comes
  back. What is excused is named by the history variables.
- `NothingIsLost`, `OneWaitEach`: what a fire asked for is under way, in a wait or
  deferred, on record when the process is dead; and fires that overlap with
  each other, with watches that end and with unknown stacks do not put an app
  into two waits. `EveryFireEnds`, `DeferralEnds`: no mix of waits, tries, clicks,
  busy apps and a crash keeps a backup pending for ever.
- `RunningIsReachable`: while a run is open, button and shutdown find that backup and
  not another. `CancelHitsWhatWasAsked`: however late a cancel's function is called, it
  ends a backup a user wanted to end. `EndingNamesItsCause`: between a cancel, a stall
  and a failure the row and the returned error name the right one.
  `CleanLeavesNothingOpen`: "all backups unwound cleanly" is true.

### Bounds

- *Three containers in ContainerBackup*: one target, one dependency that starts
  before it, one sharer that starts after it. The loops treat the containers of
  one side independently of each other, so a second of a kind repeats the
  first. What depends on how many there are is RestartOrder's.
- *Two crashes per behaviour* (`MaxCrashes`): the state of a dead process is
  gone and the next boot starts from Docker and the database. A boot only
  follows a crash, so the second crash is the one that can hit a recovery that
  has something to do, and the boot after it is the same program again. The
  runs of a finding need one crash or none; the theorems have no such bound.
- *One user act per container and backup* (by `touched`), one in `ZFSWindow`
  (`MaxUserActs`): a user who undoes an act adds a state that was there before.
- *One section*: sections share nothing but the small maps, whose entries are
  per section.
- *One probe* in `DomainLocks`: probes run on one worker goroutine
  (`item_probe.go`). The theorem `PolledIsToldAlways` states that assumption.
- *Two datasets and three containers* in `ZFSWindow`: a dependency and a shared
  namespace within one list and across two, which is what replaced rows and
  sharers need.
- *Three runs, one crash, one clean, one user act* in `ZFSReplication`: a base is
  made by one run, endangered by a second and used by a third. Three
  environments instead of one, because faults of all kinds at once hide each
  other. A parent and a child are what the order of the listing needs, the
  excluded child is swept by another loop. The theorems have none of these bounds but
  the one clean.
- *Two VMs, one backed up live and one gracefully, two backups* in `VMBackup`: a
  backup and the later one a watch or an overlay of the first runs into, of the
  same VM or of its neighbour in the folder. The theorems have no bound.
- *Two apps of a stack and two fires* in `BusyWaits`: a wait and what joins, misses
  or overtakes it. `b` has a schedule of its own and `a` is in the domain's, so
  fires overlap; `a` gives up at the deadline and `b` backs up. The third trigger,
  the Backup Everything pass, differs in what drops it; it multiplies the states
  tenfold and is left out of the instance. Two `Slots`: a run and one beside it.
  `forget` and `crash` are in different environments, because a record that
  could not be deleted and a crash do put an app into two waits (below).
- *Two calls and two cancels, stalls or caps* in `RunControl`: what goes wrong is between
  a backup and the next one under its key, or a second cause and the first. The entries
  of two keys meet only in the shutdown, which the environment of two items covers. The
  theorems have no bound.
- *Three containers, each joining at most one other* in `RestartOrder`: chains of
  two namespaces, cycles of two and three, a cycle with a tail. Docker allows a
  container one network owner.

### Fairness

- `ContainerBackup`, `ZFSWindow`: `WF_vars(Program)`. A backup is a goroutine and
  each of its calls is bounded by a timeout or a context, and the container
  runtime starts a dead process again (`restart: unless-stopped` in the compose
  files of `src/deploy`). Nothing makes a new backup, a crash, a cancel or a
  user fair.
- `DomainLocks`: weak fairness of every step of an operation that has begun and
  has somewhere to go. Taking the mutex is strongly fair for a blocked `Lock`,
  because Go's mutex hands itself to a waiter of more than a millisecond before
  it lets anybody pass; a polling `TryLock` gets none.
- `VMBackup`: weak fairness of whoever holds the lock and of the watches, which
  poll by a ticker. Strong fairness of a watch that waits for the lock, for the
  mutex's sake, and of the end of the boot's rounds, which are counted. Guests
  and users are not fair: a guest may ignore a request for ever.
- `BusyWaits`: weak fairness of the goroutines (fires, watches, backups, the loop of
  the deferrals) and of the restart. A watch's fairness contains that an app gets
  idle or the wait has lasted its hours. Strong fairness of the section's mutex
  and of two consequences of time: a deferral's deadline is a point in time, also
  when the deferral is settled and made again meanwhile, and the tries of other
  deferrals are minutes apart (`schedule.NextRetry`), so that a look finds the
  guard `batchActive` free again and again. Fires, clicks and users are not fair.

Deadlock is checked in `dl_*` and `zw_*`. It is off in `cb_*`, because a target
that an update removed and could not create again leaves nothing to back up, in
`ro_*`, because the function returns, in `rc_*`, because the process exits, and in
`zr_*`, `vm_*` and `bw_*`, because the runs, crashes and acts of an instance are used up.

## 4. What is proved

All for any sets of containers, operations and datasets, any failing calls and any
number of crashes and user acts, but for the assumptions named below.

**ContainerBackup_proofs.** `TypeCorrect`. `ReadIsQuietAlways`: `ReadIsQuiet` speaks
of the moment of the read only; `QuietInv` says the same from the stop of the
target on, and that the second round of an update reads nothing.
`DownIsRecordedAlways`, from the assumption `RecordsHold` (records can be
written, and a refused remove only meets live reads, see the counterexamples):
`RecordInv` adds that what is owed is down, that a stop comes after its record
(`StopsAreRecorded`), and that in a live read the records of everything held
stay until `clearDown` (`LiveIsRecorded`), which is why the target's record
covers a refused remove during its update.
The other three rest on `PathInv`, which says which steps belong to which kind of
read and round and who is in memory there. `NotBackIsAlwaysTold`, for health checks
that are answered (`clearDown` names only what it was told is down): `ToldInv` says
that after the first round only the second and the update take anything down, and who
answers for it. `EverythingComesBack` assumes `StartsWork`: Docker starts, removes,
creates and rejoins what it is asked to, and users stay away. All else may fail, crash
or be cancelled; `DownNow` says at each step who may be down. `UserOffStays` (an action
property) needs records that can be deleted and listed: one that outlives its backup
makes a later boot start what a user has turned off since (section 5). It states the
exceptions of `UserOffStaysOff` with it. `OffInv` keeps users' containers off the records
and, from the first record to the last start, out of what the round holds and of a target
that may be created again.

**DomainLocks_proofs.** `OwnerHolds` is inductive with the types: the mutex is
owned exactly by whoever is at a step of its hold. From it follow
`SectionIsMutex` (each step enters, leaves or stutters in `SectionMutex`), the
label (`LabelInv`: it is up at exactly five steps), the registered follow-up
(`RegisterInv`), and, for finitely many operations, `WantedCountsWaitersAlways`
by the cardinality of the set of waiters. `PolledIsToldAlways` needs that count:
while somebody polls it is not zero, so no new probe begins, and what was told
stays told.

**ZFSWindow_proofs.** `TypeCorrect` and `NothingForgottenAlways`. A row is replaced
as a whole, so the proof is about what each replacement leaves out: `WindowInv`
says that what the row names and the program took down is in `stopped`, `asked`
or `unseen`, the lists the next replacement is made from; `FreshInv` and
`LevelInv` carry that through the beginning of a window and its levels.
The three properties of the order of stops hold for any dependencies without a
cycle. `QuietInv` says that what the snapshot needs down, and everything of
the row, is in a level still to come or in the hands of the current one, so
that nothing is skipped when a stop fails and the level is read again;
`ShareInv` that a window holds everybody who shares a namespace with one it
holds, which `SharersAreClosed` gives it. A container that goes down is in
`Tops(rest)` (`StopsAtTheTop`), and those three together are
`SnapshotIsQuietAlways`, `DependentsGoFirst` and `NobodyIsEverCutOff`.
`AllAreBack` is about the way back. `TakenInv` says that whoever is down is yet to be
started, by the window, the thaw or the boot (`Pending`), or that Docker refuses
him (`Left`). While no user acts nobody may be refused for a namespace the window broke
itself, and a chain of namespaces would ask for an induction; instead `Doomed` speaks of
a set of containers that are down, each with an owner in the set, or down before the
program ran. `ClosedInv` (a row that names an owner names those that share its
namespace) gives that such a set is never made by a window.

**RestartOrder_proofs.** `TypeCorrect` and the four properties of `ro_order`, with no
assumption on the graph. What waits for itself is a set each of whose members needs
another one of it (`Waits`), so that cycles need no induction over paths. `SettleInv` is
the split around the target, `SortInv` says that what was emitted comes after what it
needs or waits for itself, and that a pass that emits nothing leaves only the latter;
`StartInv` puts the two sorts and the target together. `LevelInv` counts the levels of a
stop from the end of the order. The container a pass picks is the least of a set of
numbers, which exists because `<` is well-founded (`LeastExists`).

**ZFSReplication_proofs.** `TypeCorrect`, `ResumableIsKept`, and `BaseIsKept` for any tree, faults,
crashes, users and runs, as long as the replica is cleaned at most once (the
finding shows that a second cleaning may lose the base). The invariant is about
what each of the six places that destroy something may assume: `Progressed`
ties the step of a run to what it has read and done, `Arrived` says that holds
and, until the first cleaning, bookmarks are of snapshots the target has, and
`Based` is the conclusion for one member. `Known` bounds all numbers by the
current run's. `ResumableIsKept` needs no bound on the cleanings: `Resumable` says
that what a partial receive leads to is no older than what is held, and that a
run which streams to a member has resumed or dropped what an earlier one left.
`UndisturbedLands` and `ItsOwnDoesNotPileUp` stand on `BaseIsKept` and its assumption:
`Followed` says that what a run has read of a member still covers what is on the
source, so the base it picks is the target's newest and no stream is refused, and
`Undisturbed` that every member it is past is done. The count is `SpareIsFew`: what may
stay is at or after its oldest, which has few enough after it.

**VMBackup_proofs.** `TypeCorrect`. `OverlaysStay` is inductive with the types.
`ReadsAreStill` needs `Still`: from the moment a VM was seen off until it is
started, only the user or a later answer of a failed look changes that. `OffStaysKnown`
needs `Answered`, which says at every step of a backup who answers for the VM it
has in hand, and `Swept`, which says the same of the boot's four lists.

**BusyWaits_proofs.** `TypeCorrect`, and `NothingIsEverLost` and `OneWaitForEach` from the
assumption `Apart`: a record that cannot be deleted and a crash do not come together (if
they do, the next start resumes a wait beside the one the app has joined since, section
5). `RecordInv` says that the records are the groups themselves, and stay disjoint,
so that those who wait together before a crash do so after it.

**RunControl_proofs.** `TypeCorrect`, and the four properties of `rc_control` for any
calls, items, cancels and stalls, from the assumption `OneCallEach`: calls that register
early do not overlap for an item (without it all four have counterexamples, see the
findings). `RegInv` is the heart: it says at which places of a call the entry of
its item is its own, so that an empty map means that no call is between its
registration and its end. `AskInv` adds that the run beside an entry is that entry's, so
that an aimed cancel that passes the check has found its backup. `RowInv` and `EndInv`
are about the open rows and about what ended a run.

Only model-checked: the liveness properties `DownIsResolved`, `HookIsUndone`,
`OffComesBack`, `EveryFireEnds`, `DeferralEnds`, `RunGetsIn` and `AskIsAnswered`, because
the prover has no ENABLED and so no fairness. Every other property of a passing run
is a theorem. An assumption a theorem makes beyond those of its module is named above;
each leaves out an environment in which the property is not promised or is known to fail.

## 5. Findings

Each is a run TLC finds violated by what the code does.

- `zw_marker_replaced`: a container that did not come up after one window is
  dropped from the row by the next window (`zfs_consistency.go:132`).
- `zr_clean_twice`: cleaning bookmarks every snapshot after the newest bookmark,
  arrived or not (`src/internal/zfsrepl/clean.go:80`); a second cleaning takes
  one of those for the newest base and destroys the one the target shares.
- `rc_overlap`: a backup of a container, a VM, the flash drive or the configuration
  registers before it waits for the section (`service.go:7053`). A second call for the
  item, from a schedule, a Backup Everything pass or a click, replaces the entry of the
  first that is running, while `backupRuns` still names the first's run. A cancel aimed at
  that run ends the second call (`shutdown.go:36` says it cannot).

Counterexamples that contradict a comment, seen while modelling, without a run of
their own:

- The target needs A and A needs B: A starts before the target and B after it
  (`orchestrator.go:460`, against 322).
- A watch that ends by time clears the record of its VM, although a later backup is
  holding that VM down (`vm_restarts.go:49`, against `vm_orchestrator.go:178`).
- With overlapping calls (`rc_overlap`) the end of the first call also deletes the
  second's entries, which then runs out of reach of button and shutdown, and
  `BeginShutdown` logs a clean end beside it (`shutdown.go:224`). The mark of a cancel
  that was meant for one call turns a failure of the other into a cancellation.
- A backup that is cancelled before its run starts is recorded as failed
  (`recordPreflightFailure` writes the row past `runsAdapter`), although the mark is to
  have it recorded "as cancelled rather than failed" (`shutdown.go:127`).
- `RecoverContainerRestarts` forgets every container it tried
  (`container_snapshot.go:538`); its own comment (503) says that one that does not
  start stays recorded, the one at 532 says why it does not.
- A dependency whose stop call returns an error is not started again
  (`orchestrator.go:884`), although the daemon may still stop it (857). The fault
  `lateStop` of `ContainerBackup` with `EverythingIsBack` shows it.
- A follow-up that has the mutex but has not registered its stop function cannot
  be told (`service.go:914`, against 903); a backup that arrives then blocks until
  the follow-up has read everything.
- A snapshot that arrives in a stream which reports a failure is kept without a
  bookmark. When its name goes from the root, `clear` takes it for another entry's
  (`src/internal/zfsrepl/run.go:481`), and no later run removes it: a child that keeps
  failing piles them up, against the comment at 414. A cancel just after a resume does
  the same. `NothingPilesUp` with all of `snaps[m]` for `Recognised(m)`, four runs and
  the fault `stream` alone show it; with three runs it holds.
- `vm_orchestrator.go`: the method is chosen by a look in `service.go:14489` and the
  graceful backup looks again, so a VM started in between is shut down, which 525
  says never happens silently; after a refused shutdown the deferred start of a
  running VM is refused too and reported as a VM that did not come back (196); 377
  speaks of a Destroy after the timeout, which the code does not do.
- A refused shutdown drops the record (`vm_orchestrator.go:460`); when the answer was
  lost and not a refusal, a crash loses the VM (`refused`). A boot whose rounds end
  while the guest is still running forgets it (`vm_restarts.go:126`, `ranOn`).
- `endWait` deletes the stored wait before the held backup starts
  (`idle_wait.go:324`); `src/internal/store/traffic.go:169` says a group is forgotten
  once its backup ran. A crash in between loses the backup; `BusyWaits` counts it as
  cut off.
- A wait belongs to the trigger of the fire that began it. A container with a
  schedule of its own that joined a wait of the domain run is dropped with the
  domain's schedule, against the comment at `idle_wait.go:203`.

Counterexamples no text contradicts:

- A folder or dataset backup that waits for its section is not registered: a shutdown
  does not cancel it, and it may start while the process leaves.
- A cancel that was accepted just before the commit ends the context after it: the
  restore point is kept and the copy that follows is cut short.
- A stop the daemon finishes only after `clearDown` has looked
  (`orchestrator.go:857`, 884) leaves a container down and unnamed. The fault
  `lateStop` takes it down at the failing call, so no run reaches this.
- The boot forgets a container that a record names when its inspect fails
  (`container_snapshot.go:517`), and only logs it. `lapsed` excuses it.
- A crash between `clearDown` and the end of the run loses the names of what did
  not come back (`DownIsResolved` with `start` failing).
- A crash between the update's `forgetRestoreRemoval` and `rejoinAfterUpdate`
  leaves sharers bound to the removed container. `EverythingIsBack` excuses them
  as `stale`.
- A refused remove in the update of a snapshot read forgets the row before the
  target is started again; a crash in between leaves it down and unrecorded.
  `Refusals` keeps it to live reads in `cb_faults`, and `RecordsHold` excludes it.
- A record that outlives its backup, because it could not be deleted or the boot
  could not list it, names a container that the user may turn off later. The
  next boot that can list it starts that container. `UserOffStaysOff` is checked
  without faults of `clear` and `list`.
- A container that a user turns off during the preflight, a long dump say, is recorded,
  "stopped" and started again when the preflight passes: `goingDown`, the stops and the
  starts go by the inspect at the beginning (`orchestrator.go:505`, 865-891). Without
  `Overrules` in `PreflightPasses`, `UserOffStaysOff` has a counterexample of seven states.
- The second round of stops before the update of a snapshot read uses the first
  round's list, and starts a dependent that a user stopped in the meantime; the target
  is created from the new image and started all the same (`orchestrator.go:1103`).
  Without `Overrules` in `NewImage`, `UserOffStaysOff` has a counterexample.
- Waits stay on record and are not resumed when the groups, the settings or the targets
  cannot be read at a start (`idle_wait.go:220`), and a held backup is dropped with a log
  line when the targets cannot be listed at the end of its wait
  (`src/internal/schedule/schedule.go:1911`). `BusyWaits` has no such failing read, so
  neither `NothingIsLost` nor `EveryFireEnds` speaks of it.
- `ranOn`, which a watch sets that ends by time, excuses its VM also from a later backup
  that has it down at that moment: `OffIsKnown` and `OffComesBack` say nothing there.
- A look that fails at `vm_orchestrator.go:406` lets the backup read a guest that is
  still shutting down. `ReadIsStill` excuses it.
- The loop of the deferrals works from a list: it gives up a deferral a click has
  just settled, and the postponement of one writes a settled deferral back.
  `DeferralEnds` holds all the same.
- A member that joins between the last look at a wait and `endWait` is backed up
  busy. A record of a wait that could not be deleted and a crash put an app into
  two waits.

## 6. Not modelled

Calls of libraries and hosts are outcomes: they work, fail, or fail after the
effect. restic, ZFS, Docker, libvirt and SQLite have no state beyond what the
properties need. `ContainerBackup` leaves out the progress stream, hooks and
database dumps beyond their success, which containers a stop list names (an
input), the rejoin's own crash points, and a stop the daemon finishes after the backup has
looked. `DomainLocks` leaves out `relabelDomain` (`service.go:988-997`), by which a holder
renames the hold it has. `ZFSWindow` leaves out BombVault's own container among the
sharers, which is reported and not stopped (`shared_namespace.go:84-87`). `ZFSReplication`
leaves out parents above the item and mounting on the target, the direct transfer between
two hosts and the restore from a replica; `Clear` destroys all of its snapshots or none,
where `run.go` goes on after one that fails, and a hold is always released. `VMBackup`
leaves out zvols, changed-block reads over NBD, image formats and the restore. `BusyWaits`
leaves out how an app is found busy, the policies, targets that are removed, writes of a
record that fail (a delete may), and the failing reads named in section 5. `RunControl`
leaves out the stop context of detached work, the progress stream, deferred backups, failed
writes of a row and restores, which no cancel reaches by design; `EndCancel` is one step,
where `endBackupCancel` (`shutdown.go:73-78`) reads the mark and unregisters in two holds
of `cancelMu`, and a cancel accepted in between is lost.

Most of the repository's lines are translations, typed clients and pages of the
web and Android interfaces, and SQL and JSON plumbing: they keep no state whose
order or loss a model could speak of. The components in `PROJECT.json` marked
`not_modelled` each say why; those below are next.

## 7. Plan

1. `ContainerRestore`: `RestoreContainer` with its set-aside folders, the recreate,
   the crash records and `RecoverInterruptedRestores` for restores; shares Rejoin
   with ContainerBackup, and makes that call's own crash points visible.
   Properties: data are never lost between set-aside and restore; a container
   that was removed exists again or is on record; a cancel is not a failure.
2. Compositions: ZFSWindow beside ContainerBackup under DomainLocks' two sections;
   the clone of a dataset backup beside ZFSReplication's holds; retention with
   the anomaly hold.

Runs: at most a dozen are kept, one per question. A finding's run stays as long
as the code has it; when a new module needs room, the findings move to the list
without runs above.

Proofs: with the modules of this plan; of those that exist, what the provers reach is
proved. `SpareIsFew`, `LeastExists` and the lemmas about what an action leaves alone are
what their proofs will need again.
