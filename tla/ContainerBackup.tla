--------------------------- MODULE ContainerBackup ---------------------------
(***************************************************************************)
(* One container backup after another, as BackupContainer                  *)
(* (internal/backup/orchestrator.go) drives it: the target and the         *)
(* containers that have to be down with it are recorded, stopped, read,    *)
(* optionally updated, started again and reported.  The process may die    *)
(* between any two calls; the next boot repairs what the records name.     *)
(***************************************************************************)
EXTENDS Naturals, FiniteSets

CONSTANTS
  Target,      \* the container that is backed up
  Deps,        \* the other containers of its stop list (d.StopContainers)
  Before,      \* those with BeforeTarget set: they start before the target
  Sharers,     \* those joining the target's network namespace
  Snapshots,   \* {FALSE}: live reads, {TRUE}: reads from a ZFS snapshot
  Updates,     \* the possible values of "update after backup"
  Faults,      \* the calls that may fail
  Refusals,    \* after which reads, of a snapshot or not, a remove may fail
  MaxCrashes,  \* bound: how often the process dies
  UserActs     \* whether a user starts and stops containers meanwhile

Containers == Deps \cup {Target}

\* settleAroundTarget: what joins the target starts after it.
ASSUME DepsAssumption ==
  /\ Target \notin Deps
  /\ Before \subseteq Deps
  /\ Sharers \subseteq Deps \ Before
ASSUME ChoicesAssumption ==
  /\ Snapshots \subseteq BOOLEAN
  /\ Updates \subseteq BOOLEAN
  /\ Refusals \subseteq BOOLEAN
  /\ MaxCrashes \in Nat
  /\ UserActs \in BOOLEAN

VARIABLES
  \* Docker
  up,        \* the running containers
  present,   \* whether the target exists (an update removes it for a moment)
  stale,     \* the sharers bound to the ID of a removed target
  bound,     \* the sharers bound to the ID the latest update removes (OldID)
  \* the database
  marks,     \* container_restart_pending
  removal,   \* the target's restore_removals row, written by an update
  run,       \* the status of the latest run row
  \* the process
  pc,
  snap,      \* d.Snapshot is set and the target was running
  upd,       \* d.UpdateAfterBackup is set
  was,       \* the containers that ran when the backup inspected them
  round,     \* 1, and 2 once the containers go down again for the update
  held,      \* what this round records and takes down (goingDown)
  todo,      \* what the loop at pc still has to visit
  stopped,   \* stoppedDeps; at boot, the containers the recovery starts
  notBack,
  cutOff,
  err,       \* backupErr is set
  ctxDone,   \* the backup's context has ended (cancel, time limit, shutdown)
  taken,     \* a ZFS snapshot is there to be read
  \* history
  down,      \* taken down by the program, not started or reported since
  owed,      \* those of down the program still has to try to start
  userOff,   \* turned off by a user, whose decision stands (Decides, Overrules)
  touched,   \* started or stopped by the user since the backup began
  lapsed,    \* a call to the database, a health check or a boot's look has failed
  crashes

ids     == <<stale, bound>>
docker  == <<up, present, ids>>
disk    == <<marks, removal, run>>
config  == <<snap, upd, was>>
results == <<notBack, cutOff, err>>
signals == <<ctxDone, taken>>
user    == <<userOff, touched>>
bounds  == <<crashes, lapsed>>
history == <<down, owed, userOff, touched, bounds>>
memory  == <<config, round, held, todo, stopped, results, signals>>
vars    == <<docker, disk, pc, memory, history>>

Steps == {"idle", "preflight", "mark", "stopTarget", "stopDeps", "read",
          "take", "readSnap", "commit", "startBefore", "startAfter",
          "checkUpdate", "updMark", "updStop", "updRemove", "updStartAgain",
          "updCreate", "rollRemove", "rollCreate", "updForget", "rejoin",
          "updWait", "finish", "down", "recRemoval", "recRejoin", "recList",
          "recStart"}

TypeOK ==
  /\ up \subseteq Containers
  /\ present \in BOOLEAN
  /\ stale \subseteq Sharers
  /\ bound \subseteq Sharers
  /\ marks \subseteq Containers
  /\ removal \in BOOLEAN
  /\ run \in {"none", "running", "success", "failed", "deferred", "interrupted"}
  /\ pc \in Steps
  /\ snap \in BOOLEAN /\ upd \in BOOLEAN
  /\ was \subseteq Containers
  /\ round \in {1, 2}
  /\ held \subseteq Containers
  /\ todo \subseteq Containers
  /\ stopped \subseteq Containers
  /\ notBack \subseteq Containers
  /\ cutOff \subseteq Containers
  /\ err \in BOOLEAN /\ ctxDone \in BOOLEAN /\ taken \in BOOLEAN
  /\ down \subseteq Containers
  /\ owed \subseteq Containers
  /\ userOff \subseteq Containers
  /\ touched \subseteq Containers
  /\ lapsed \in BOOLEAN
  /\ crashes \in 0 .. MaxCrashes

\* What the process keeps in memory when it starts.
FreshMemory ==
  /\ snap' = FALSE /\ upd' = FALSE /\ was' = {}
  /\ round' = 1 /\ held' = {} /\ todo' = {} /\ stopped' = {}
  /\ notBack' = {} /\ cutOff' = {} /\ err' = FALSE
  /\ ctxDone' = FALSE /\ taken' = FALSE

Init ==
  /\ up \in SUBSET Containers
  /\ present = TRUE /\ stale = {} /\ bound = {}
  /\ marks = {} /\ removal = FALSE /\ run = "none"
  /\ pc = "idle"
  /\ snap = FALSE /\ upd = FALSE /\ was = {}
  /\ round = 1 /\ held = {} /\ todo = {} /\ stopped = {}
  /\ notBack = {} /\ cutOff = {} /\ err = FALSE
  /\ ctxDone = FALSE /\ taken = FALSE
  /\ down = {} /\ owed = {}
  /\ userOff = Containers \ up /\ touched = {}
  /\ lapsed = FALSE /\ crashes = 0

-----------------------------------------------------------------------------
(* Docker and the database *)

\* A call that fails, if failed; the failure is only logged.
MayFail(call, failed) ==
  /\ failed => call \in Faults
  /\ lapsed' = (lapsed \/ failed)

\* The program's calls leave exactly the containers of new running.
NowUp(new) ==
  /\ up' = new
  /\ down' = (down \cup (up \ new)) \ new
  /\ owed' = (owed \cup (up \ new)) \ new

\* Docker refuses to start a container that is gone, or one that joins a
\* namespace whose owner is not running.
CanStart(c) ==
  /\ c = Target => present
  /\ c \in Sharers => Target \in up /\ c \notin stale

\* The outcomes of a start: it runs, it exits at once, it is refused.
StartRuns(c)    == c \in up \/ CanStart(c)
StartExits(c)   == "die" \in Faults /\ c \notin up /\ CanStart(c)
StartRefused(c) == c \notin up /\ (~CanStart(c) \/ "start" \in Faults)

\* A stop that fails, leaving c running or finished by the daemon later on.
StopFails(c) ==
  \/ "stop" \in Faults /\ NowUp(up)
  \/ "lateStop" \in Faults /\ NowUp(up \ {c})

\* RejoinNamespace: the sharers bound to the old ID are created again on the
\* new target, running when they ran and the target runs.  Those left on the old
\* ID failed and are named, or were never seen: no list of containers, or one
\* that cannot be inspected.  The attempt to bring back tried ends with it.
Rejoin(left, named, tried) ==
  /\ named \subseteq left /\ left \subseteq bound
  /\ left # {} => "rejoin" \in Faults
  /\ stale' = stale \ (bound \ left)
  /\ \E lost \in SUBSET named :
       LET new == IF Target \in up THEN up \ lost
                                  ELSE up \ (bound \ (left \ lost))
       IN  /\ up' = new
           /\ down' = (down \cup (up \ new)) \ new
           /\ owed' = owed \ (new \cup tried)
  /\ UNCHANGED <<present, bound>>

-----------------------------------------------------------------------------
(* BackupContainer up to the stop *)

\* The WasRunning of each container.  withSharers only adds the sharers when
\* the target runs and will go down.
EveryContainer == Containers                    \* mutant: WasRunning not looked at
RunningNow == IF Target \in up THEN up ELSE up \ Sharers

\* Backup inspects the containers and BackupContainer records the run.
Begin(s, u) ==
  /\ pc = "idle" /\ present
  /\ snap' = (s /\ Target \in up)
  /\ upd' = (u /\ Target \in up)
  /\ was' = RunningNow
  /\ pc' = "preflight" /\ run' = "running"
  /\ touched' = {}
  /\ UNCHANGED <<docker, marks, removal, round, held, todo, stopped, results,
                 signals, down, owed, userOff, bounds>>

\* The app is busy, by its probe or by the pre-hook's exit code.
Defer ==
  /\ pc = "preflight" /\ Target \in was
  /\ run' = "deferred" /\ pc' = "idle"
  /\ FreshMemory
  /\ UNCHANGED <<docker, marks, removal, history>>

\* The pre-hook fails, or the context ended during the database dump.
PreflightFails ==
  /\ pc = "preflight" /\ Target \in was
  /\ run' = "failed" /\ pc' = "idle"
  /\ FreshMemory
  /\ UNCHANGED <<docker, marks, removal, history>>

DepsAlone == was \ {Target}                     \* mutant: the target is left out
GoingDown == was

\* The backup does not look again: what a user turned off since it began, it
\* will record, "stop" and start all the same when it is one of names.
Overrules(names) == userOff' = userOff \ (touched \cap names)

PreflightPasses ==
  /\ pc = "preflight"
  /\ held' = GoingDown
  /\ Overrules(held')
  /\ pc' = "mark"
  /\ UNCHANGED <<docker, disk, config, round, todo, stopped, results, signals,
                 down, owed, touched, bounds>>

\* Only the first round stops the target here.
NeverTheTarget == "stopDeps"                    \* mutant: the target keeps running
FirstStop ==
  IF round = 1 /\ Target \in was THEN "stopTarget" ELSE "stopDeps"

\* markDown: names go in one by one, and a failed record is only logged.
MarkDown ==
  /\ pc = "mark"
  /\ \E named \in SUBSET held :
       /\ MayFail("mark", named # held)
       /\ marks' = marks \cup named
  /\ todo' = held \ {Target} /\ stopped' = {}
  /\ pc' = FirstStop
  /\ UNCHANGED <<docker, removal, run, config, round, held, results, signals,
                 down, owed, user, crashes>>

-----------------------------------------------------------------------------
(* Stopping and reading *)

\* splitAroundTarget.
RecordedBefore(deps) == deps \cap Before \cap marks \* mutant: only what was recorded
StartsBefore(deps)   == deps \cap Before
StartsAfter(deps)    == deps \ Before

\* The deferred restart takes over: first what the target depends on.
Unwind ==
  /\ pc' = "startBefore"
  /\ todo' = StartsBefore(stopped')

StopTarget ==
  /\ pc = "stopTarget"
  /\ NowUp(up \ {Target})
  /\ stopped' = stopped
  /\ IF ~snap /\ ctxDone
       THEN err' = TRUE /\ Unwind
       ELSE err' = err /\ pc' = "stopDeps" /\ todo' = todo
  /\ UNCHANGED <<present, ids, disk, config, round, held, notBack, cutOff,
                 signals, user, bounds>>

StopTargetFails ==
  /\ pc = "stopTarget" /\ StopFails(Target)
  /\ err' = TRUE
  /\ stopped' = stopped /\ Unwind
  /\ UNCHANGED <<present, ids, disk, config, round, held, notBack, cutOff,
                 signals, user, bounds>>

\* A live read looks at the context after each stop, a snapshot read once.
StopDep(d) ==
  /\ pc = "stopDeps" /\ d \in todo
  /\ NowUp(up \ {d})
  /\ stopped' = stopped \cup {d}
  /\ IF ~snap /\ ctxDone
       THEN err' = TRUE /\ Unwind
       ELSE err' = err /\ pc' = pc /\ todo' = todo \ {d}
  /\ UNCHANGED <<present, ids, disk, config, round, held, notBack, cutOff,
                 signals, user, bounds>>

\* Logged; the dependency is left out of the restart set.
StopDepFails(d) ==
  /\ pc = "stopDeps" /\ d \in todo /\ StopFails(d)
  /\ todo' = todo \ {d}
  /\ cutOff' = IF round = 1 THEN cutOff \cup ({d} \cap Sharers) ELSE cutOff
  /\ UNCHANGED <<present, ids, disk, pc, config, round, held, stopped,
                 notBack, err, signals, user, bounds>>

StopsDone ==
  /\ pc = "stopDeps" /\ todo = {}
  /\ stopped' = stopped
  /\ IF round = 1 /\ snap /\ ctxDone
       THEN err' = TRUE /\ Unwind
       ELSE /\ err' = err /\ todo' = todo
            /\ pc' = IF round = 2 THEN "updMark"
                     ELSE IF snap THEN "take" ELSE "read"
  /\ UNCHANGED <<docker, disk, config, round, held, notBack, cutOff, signals,
                 history>>

\* restic reads the live data, or has no folder to read; then the template.
Read ==
  /\ pc = "read"
  /\ pc' = "commit"
  /\ UNCHANGED <<docker, disk, memory, history>>

ReadFails ==
  /\ pc = "read" /\ (ctxDone \/ "read" \in Faults)
  /\ err' = TRUE
  /\ stopped' = stopped /\ Unwind
  /\ UNCHANGED <<docker, disk, config, round, held, notBack, cutOff, signals,
                 history>>

\* The ZFS snapshot is taken while everything is down.
Take ==
  /\ pc = "take"
  /\ taken' = TRUE
  /\ stopped' = stopped /\ Unwind
  /\ UNCHANGED <<docker, disk, config, round, held, results, ctxDone, history>>

TakeFails ==
  /\ pc = "take" /\ (ctxDone \/ "take" \in Faults)
  /\ err' = TRUE
  /\ stopped' = stopped /\ Unwind
  /\ UNCHANGED <<docker, disk, config, round, held, notBack, cutOff, signals,
                 history>>

-----------------------------------------------------------------------------
(* Starting everything again *)

\* RestartInOrder: one that does not start is noted and the loop goes on.
StartDep(d) ==
  /\ pc \in {"startBefore", "startAfter"} /\ d \in todo
  /\ todo' = todo \ {d}
  /\ \/ StartRuns(d) /\ NowUp(up \cup {d}) /\ notBack' = notBack
     \/ StartExits(d) /\ NowUp(up) /\ notBack' = notBack
     \/ StartRefused(d) /\ NowUp(up) /\ notBack' = notBack \cup {d}
  /\ UNCHANGED <<present, ids, disk, pc, config, round, held, stopped, cutOff,
                 err, signals, user, bounds>>

\* Start and WaitRunning.  A live read that worked looks for an update next,
\* with the dependents still down.
StartTarget ==
  /\ pc = "startBefore" /\ todo = {}
  /\ \/ Target \notin was /\ NowUp(up) /\ err' = err
     \/ Target \in was /\ StartRuns(Target)
        /\ NowUp(up \cup {Target}) /\ err' = err
     \/ Target \in was /\ (StartExits(Target) \/ StartRefused(Target))
        /\ NowUp(up) /\ err' = TRUE
  /\ IF ~snap /\ ~err' /\ upd
       THEN pc' = "checkUpdate" /\ todo' = {}
       ELSE pc' = "startAfter" /\ todo' = StartsAfter(stopped)
  /\ UNCHANGED <<present, ids, disk, config, round, held, stopped, notBack,
                 cutOff, signals, user, bounds>>

NobodyAsked == {}                               \* mutant: no health check
NotRunning  == held \ up

\* clearDown: what does not run is named, and the records go either way.  A
\* health check that fails names nothing.
ClearDown ==
  /\ pc = "startAfter" /\ todo = {}
  /\ \E unseen \in SUBSET NotRunning, kept \in SUBSET (held \cap marks) :
       /\ unseen # {} => "health" \in Faults
       /\ kept # {} => "clear" \in Faults
       /\ lapsed' = (lapsed \/ unseen # {} \/ kept # {})
       /\ notBack' = notBack \cup (NotRunning \ unseen)
       /\ marks' = (marks \ held) \cup kept
  /\ owed' = owed \ held
  /\ pc' = IF round = 1 /\ taken THEN "readSnap" ELSE "finish"
  /\ UNCHANGED <<docker, removal, run, config, round, held, todo, stopped,
                 cutOff, err, signals, down, user, crashes>>

-----------------------------------------------------------------------------
(* Keeping the result *)

\* restic reads the snapshot with the containers running; then the template.
ReadSnapshot ==
  /\ pc = "readSnap"
  /\ pc' = "commit"
  /\ UNCHANGED <<docker, disk, memory, history>>

ReadSnapshotFails ==
  /\ pc = "readSnap" /\ (ctxDone \/ "read" \in Faults)
  /\ err' = TRUE /\ taken' = FALSE
  /\ pc' = "finish"
  /\ UNCHANGED <<docker, disk, config, round, held, todo, stopped, notBack,
                 cutOff, ctxDone, history>>

\* The backup is kept, and its snapshot is released.
Commit ==
  /\ pc = "commit"
  /\ taken' = FALSE
  /\ IF snap
       THEN /\ pc' = IF upd /\ ~err THEN "checkUpdate" ELSE "finish"
            /\ todo' = todo
       ELSE pc' = "startBefore" /\ todo' = StartsBefore(stopped)
  /\ UNCHANGED <<docker, disk, config, round, held, stopped, results, ctxDone,
                 history>>

\* The run row and OnNotBack tell what is down.
Finish ==
  /\ pc = "finish"
  /\ run' = IF err THEN "failed" ELSE "success"
  /\ down' = down \ (notBack \cup cutOff)
  /\ pc' = "idle"
  /\ FreshMemory
  /\ UNCHANGED <<docker, marks, removal, owed, user, bounds>>

-----------------------------------------------------------------------------
(* The update after the backup: the target is created from a newer image *)

\* What follows the update step: a live read still has its dependents to
\* start, and so has a snapshot read whose dependents went down once more.
AfterUpdate ==
  IF snap /\ round = 1
    THEN pc' = "finish" /\ todo' = {}
    ELSE pc' = "startAfter" /\ todo' = StartsAfter(stopped)

NoNewImage ==
  /\ pc = "checkUpdate"
  /\ AfterUpdate
  /\ UNCHANGED <<docker, disk, config, round, held, stopped, results, signals,
                 history>>

\* updateAfterSnapshot takes the dependents down a second time, those of the
\* first list.  The new target runs whether or not the old one did.
NewImage ==
  /\ pc = "checkUpdate"
  /\ IF snap
       THEN round' = 2 /\ held' = StartsAfter(stopped) /\ pc' = "mark"
       ELSE round' = round /\ held' = held /\ pc' = "updMark"
  /\ Overrules(held' \cup {Target})
  /\ UNCHANGED <<docker, disk, config, todo, stopped, results, signals, down,
                 owed, touched, bounds>>

\* Docker binds a sharer to the ID of the container it joins.
BoundToTarget == Sharers \ stale

\* markUpdateRemoval, whose failure is only logged.
UpdMark ==
  /\ pc = "updMark"
  /\ \/ removal' = TRUE /\ UNCHANGED lapsed
     \/ MayFail("mark", TRUE) /\ removal' = removal
  /\ bound' = BoundToTarget
  /\ pc' = "updStop"
  /\ UNCHANGED <<up, present, stale, marks, run, memory, down, owed, user,
                 crashes>>

\* A stop that fails is ignored: a real problem shows at the remove.
UpdStop ==
  /\ pc = "updStop"
  /\ \/ NowUp(up \ {Target})
     \/ StopFails(Target)
  /\ pc' = "updRemove"
  /\ UNCHANGED <<present, ids, disk, memory, user, bounds>>

UpdRemove ==
  /\ pc = "updRemove" /\ Target \notin up
  /\ present' = FALSE /\ stale' = Sharers
  /\ pc' = "updCreate"
  /\ UNCHANGED <<up, bound, disk, memory, history>>

\* forgetRestoreRemoval, whose failure is only logged.
Forgets ==
  \/ removal' = FALSE /\ UNCHANGED lapsed
  \/ MayFail("clear", TRUE) /\ removal' = removal

\* Docker refuses to remove a running container, or the remove fails.  The
\* record goes before the container is started again.
UpdRemoveFails ==
  /\ pc = "updRemove" /\ (Target \in up \/ snap \in Refusals)
  /\ Forgets
  /\ pc' = "updStartAgain"
  /\ UNCHANGED <<docker, marks, run, memory, down, owed, user, crashes>>

UpdStartAgain ==
  /\ pc = "updStartAgain"
  /\ \/ StartRuns(Target) /\ NowUp(up \cup {Target}) /\ notBack' = notBack
     \/ StartExits(Target) /\ NowUp(up) /\ notBack' = notBack
     \/ /\ StartRefused(Target) /\ NowUp(up)
        /\ notBack' = notBack \cup {Target}
  /\ pc' = "updWait"
  /\ UNCHANGED <<present, ids, disk, config, round, held, todo, stopped,
                 cutOff, err, signals, user, bounds>>

\* CreateAndStart, failing with fault: created and running, created and exited at once,
\* created and refused to start, or not created.
Created(fault, onSuccess, onFailure) ==
  \/ present' = TRUE /\ NowUp(up \cup {Target}) /\ onSuccess
  \/ "die" \in Faults /\ present' = TRUE /\ NowUp(up) /\ onSuccess
  \/ /\ fault \in Faults /\ present' \in BOOLEAN /\ up' = up
     /\ onFailure

UpdCreate ==
  /\ pc = "updCreate"
  /\ Created("create",
             pc' = "updForget",
             pc' = "rollRemove" /\ UNCHANGED <<down, owed>>)
  /\ UNCHANGED <<ids, disk, memory, user, bounds>>

\* rollBackUpdate: the container it could not start goes first.
RollRemove ==
  /\ pc = "rollRemove"
  /\ \/ /\ Target \notin up /\ present' = FALSE /\ pc' = "rollCreate"
        /\ UNCHANGED <<removal, notBack, owed, lapsed>>
     \/ /\ present /\ (Target \in up \/ snap \in Refusals)
        /\ Forgets /\ notBack' = notBack \cup {Target}
        /\ owed' = owed \ {Target}
        /\ pc' = "updWait" /\ UNCHANGED present
  /\ UNCHANGED <<up, ids, marks, run, config, round, held, todo, stopped,
                 cutOff, err, signals, down, user, crashes>>

\* The old image again.  While the container is gone its record stays.
RollCreate ==
  /\ pc = "rollCreate"
  /\ Created("recreate",
             /\ pc' = "updForget"
             /\ UNCHANGED <<removal, notBack, lapsed>>,
             /\ pc' = "updWait"
             /\ notBack' = notBack \cup {Target}
             /\ IF present' THEN Forgets ELSE UNCHANGED <<removal, lapsed>>
             /\ owed' = owed \ (IF removal' THEN {} ELSE {Target})
             /\ down' = down)
  /\ UNCHANGED <<ids, marks, run, config, round, held, todo, stopped, cutOff,
                 err, signals, user, crashes>>

UpdForget ==
  /\ pc = "updForget"
  /\ Forgets
  /\ owed' = owed \ {Target}
  /\ pc' = "rejoin"
  /\ UNCHANGED <<docker, marks, run, memory, down, user, crashes>>

UpdRejoin ==
  /\ pc = "rejoin"
  /\ \E left, named \in SUBSET Sharers :
       Rejoin(left, named, {}) /\ notBack' = notBack \cup named
  /\ pc' = "updWait"
  /\ UNCHANGED <<disk, config, round, held, todo, stopped, cutOff, err, signals,
                 user, bounds>>

\* waitAfterUpdate names the target when it does not come up.
UpdWait ==
  /\ pc = "updWait"
  /\ notBack' = notBack \cup ({Target} \ up)
  /\ AfterUpdate
  /\ UNCHANGED <<docker, disk, config, round, held, stopped, cutOff, err,
                 signals, history>>

-----------------------------------------------------------------------------
(* The process dies, and the next one repairs *)

InBackup == pc \notin {"idle", "down", "recRemoval", "recRejoin", "recList",
                       "recStart"}

Crash ==
  /\ pc # "down" /\ crashes < MaxCrashes
  /\ crashes' = crashes + 1
  /\ pc' = "down"
  /\ FreshMemory
  /\ UNCHANGED <<docker, disk, down, owed, user, lapsed>>

\* ReapInterruptedRuns closes the run rows of the dead process.
Boot ==
  /\ pc = "down"
  /\ run' = IF run = "running" THEN "interrupted" ELSE run
  /\ pc' = "recRemoval"
  /\ UNCHANGED <<docker, marks, removal, memory, history>>

\* RecoverInterruptedRestores on the row of an update: a container that exists
\* is started, one that is gone is created and started.  Nothing happens when
\* the rows cannot be read.  One that exists and cannot be looked up is taken
\* for gone; its name is in use, so the create fails and it is reported.
RecRemoval ==
  /\ pc = "recRemoval"
  /\ \/ /\ \/ ~removal /\ UNCHANGED lapsed
           \/ MayFail("list", TRUE)
        /\ NowUp(up) /\ pc' = "recList" /\ UNCHANGED <<present, removal>>
     \/ /\ removal /\ present /\ pc' = "recRejoin"
        /\ \/ StartRuns(Target) /\ NowUp(up \cup {Target})
           \/ (StartExits(Target) \/ StartRefused(Target)) /\ NowUp(up)
        /\ UNCHANGED <<present, removal, lapsed>>
     \/ /\ removal /\ present /\ MayFail("look", TRUE) /\ pc' = "recList"
        /\ removal' = FALSE \/ ("clear" \in Faults /\ removal' = removal)
        /\ down' = down \ {Target} /\ owed' = owed \ {Target}
        /\ UNCHANGED <<up, present>>
     \/ /\ removal /\ ~present
        /\ Created("recreate",
                   pc' = "recRejoin" /\ UNCHANGED <<removal, lapsed>>,
                   /\ pc' = "recList" /\ Forgets
                   /\ down' = down \ {Target} /\ owed' = owed \ {Target})
  /\ UNCHANGED <<ids, marks, run, memory, user, crashes>>

\* The sharers move over, and the one attempt is forgotten.
RecRejoin ==
  /\ pc = "recRejoin"
  /\ \E left, named \in SUBSET Sharers : Rejoin(left, named, {Target})
  /\ Forgets
  /\ pc' = "recList"
  /\ UNCHANGED <<marks, run, memory, user, crashes>>

TheRunningOnes == marks \cap up                 \* mutant: the test is inverted
LeftStopped == {c \in marks \ up : c = Target => present}

\* RecoverContainerRestarts lists the records; one that cannot be inspected or
\* runs already is only forgotten.
RecList ==
  /\ pc = "recList"
  /\ held' = marks
  /\ \E unseen \in SUBSET LeftStopped :
       MayFail("look", unseen # {}) /\ stopped' = LeftStopped \ unseen
  /\ todo' = stopped'
  /\ pc' = "recStart"
  /\ UNCHANGED <<docker, disk, config, round, results, signals, down, owed, user,
                 crashes>>

RecListFails ==
  /\ pc = "recList" /\ MayFail("list", TRUE)
  /\ pc' = "idle"
  /\ FreshMemory
  /\ UNCHANGED <<docker, disk, down, owed, user, crashes>>

\* RestartInOrder: a sharer after the target it joins.
RecStart(d) ==
  /\ pc = "recStart" /\ d \in todo
  /\ d \in Sharers => Target \notin todo
  /\ todo' = todo \ {d}
  /\ \/ StartRuns(d) /\ NowUp(up \cup {d})
     \/ (StartExits(d) \/ StartRefused(d)) /\ NowUp(up)
  /\ UNCHANGED <<present, ids, disk, pc, config, round, held, stopped, results,
                 signals, user, bounds>>

\* Everything listed is forgotten, and what did not start is reported.
RecClear ==
  /\ pc = "recStart" /\ todo = {}
  /\ \E kept \in SUBSET (held \cap marks) :
       /\ MayFail("clear", kept # {})
       /\ marks' = (marks \ held) \cup kept
  /\ down' = down \ (stopped \ up)
  /\ owed' = owed \ held
  /\ pc' = "idle"
  /\ FreshMemory
  /\ UNCHANGED <<docker, removal, run, user, crashes>>

-----------------------------------------------------------------------------
(* The rest of the world *)

\* A user's cancel, BACKUP_MAX_HOURS or a shutdown.
Cancel ==
  /\ InBackup /\ ~ctxDone
  /\ ctxDone' = TRUE
  /\ UNCHANGED <<docker, disk, pc, config, round, held, todo, stopped, results,
                 taken, history>>

\* Once per container and backup.
UserMayAct(c) == UserActs /\ (InBackup => c \notin touched)

UserStarts(c) ==
  /\ UserMayAct(c) /\ c \notin up /\ CanStart(c)
  /\ up' = up \cup {c}
  /\ down' = down \ {c} /\ owed' = owed \ {c}
  /\ userOff' = userOff \ {c} /\ touched' = touched \cup {c}
  /\ UNCHANGED <<present, ids, disk, pc, memory, bounds>>

Recorded == marks \cup (IF removal THEN {Target} ELSE {})

\* When it is the user who decides that c is off: no backup runs; one still looks
\* (busy probe, pre-hook, dump) or is done; its containers are back and it reads
\* or keeps a snapshot; the process is dead or boots and no record names c.
\* Between the first record and the last start a backup decides.
Decides(c) ==
  \/ pc \in {"idle", "preflight", "finish"}
  \/ snap /\ pc \in {"readSnap", "commit", "checkUpdate"}
  \/ ~InBackup /\ c \notin Recorded

UserStops(c) ==
  /\ UserMayAct(c) /\ c \in up
  /\ up' = up \ {c}
  /\ userOff' = IF Decides(c) THEN userOff \cup {c} ELSE userOff
  /\ touched' = touched \cup {c}
  /\ UNCHANGED <<present, ids, disk, pc, memory, down, owed, bounds>>

-----------------------------------------------------------------------------
Update ==
  \/ NoNewImage \/ NewImage \/ UpdMark \/ UpdStop \/ UpdRemove
  \/ UpdRemoveFails \/ UpdStartAgain \/ UpdCreate \/ RollRemove \/ RollCreate
  \/ UpdForget \/ UpdRejoin \/ UpdWait

Recover ==
  \/ Boot \/ RecRemoval \/ RecRejoin \/ RecList \/ RecListFails \/ RecClear
  \/ \E d \in Containers : RecStart(d)

Backup ==
  \/ Defer \/ PreflightFails \/ PreflightPasses \/ MarkDown
  \/ StopTarget \/ StopTargetFails
  \/ \E d \in Deps : StopDep(d) \/ StopDepFails(d) \/ StartDep(d)
  \/ StopsDone \/ Read \/ ReadFails \/ Take \/ TakeFails
  \/ StartTarget \/ ClearDown
  \/ ReadSnapshot \/ ReadSnapshotFails \/ Commit \/ Finish

Environment ==
  \/ Cancel \/ Crash
  \/ \E c \in Containers : UserStarts(c) \/ UserStops(c)

Program == Backup \/ Update \/ Recover

Next ==
  \/ \E s \in Snapshots, u \in Updates : Begin(s, u)
  \/ Program
  \/ Environment

Spec == Init /\ [][Next]_vars

\* A started backup goes on by itself, and a dead process is started again.
FairSpec == Spec /\ WF_vars(Program)

-----------------------------------------------------------------------------
(* Properties *)

\* Whatever the program took down and has yet to try to start is named by a
\* record that outlives the process (markDown before the stops, clearDown after
\* the starts, markUpdateRemoval around the recreate).
DownIsRecorded == owed \subseteq Recorded

\* restic and the ZFS snapshot only see data of containers that are down: the
\* target when it ran and every dependency whose stop worked.
ReadIsQuiet ==
  pc \in {"read", "take"} =>
    (({Target} \cap was) \cup stopped) \cap up \subseteq touched

\* The backup does not end with a container it found running down and unnamed,
\* on any path: the failed stops, the refused starts, the update.
NotBackIsTold ==
  pc = "finish" => was \ up \subseteq notBack \cup cutOff \cup touched

\* With a Docker that refuses no start, everything that ran before the backup
\* runs after it: the order target, then sharers, on the current ID, works.
\* Excused is a sharer that an earlier crash left bound to a removed target.
EverythingIsBack == pc = "finish" => was \ up \subseteq touched \cup stale

\* Two crashes may add up: the first leaves a sharer bound to a removed target,
\* the second loses the name of the sharer that did not start.
LostTwice == IF crashes > 1 THEN stale ELSE {}

\* A container the user turned off is not started by the program, neither by the
\* backup under way, nor by a later one, nor by a boot: not one turned off when
\* no backup runs or the process is dead, not one turned off during a preflight
\* that defers, fails or dies, not one turned off while a snapshot is read.  It
\* goes by the WasRunning of the inspect, so two decisions are undone (Overrules):
\* one made during a preflight that passes, and one on the target or a dependent
\* made while a snapshot is read when a new image follows.
UserOffStaysOff ==
  [][\A c \in userOff \cap userOff' : c \in up' => c \in up]_vars

\* What the program took down comes back or is reported, on every path and
\* through every crash, unless a call to the database or a health check failed.
DownIsResolved ==
  \A c \in Containers : c \in down ~> c \notin down \/ c \in LostTwice \/ lapsed

=============================================================================
