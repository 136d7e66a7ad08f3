----------------------------- MODULE ZFSWindow -----------------------------
(***************************************************************************)
(* A dataset backup that holds containers down for its snapshot: the pre   *)
(* command, the consistency window (Freeze, the stops level by level, the  *)
(* snapshot, thaw), the post command, and what a start after a crash does  *)
(* about the containers a window left down.                                *)
(*                                                                         *)
(* The row of each item remembers which containers its window takes down   *)
(* (restart_pending).  The window works under the sections "zfs" and       *)
(* "containers" (DomainLocks), so windows follow one another.  The members *)
(* are read from the snapshot after the window and change nothing here.    *)
(***************************************************************************)
EXTENDS Naturals, FiniteSets

CONSTANTS
    Containers,
    Items,          \* the configured datasets
    NoItem,         \* no window and no boot step
    StopList,       \* the containers each item holds down
    Needs,          \* depends_on among the containers
    Joins,          \* whose network, PID or IPC namespace each shares
    FaultSets,      \* the calls that may fail, one set per environment
    MaxCrashes,     \* bound: how often the process may die
    MaxUserActs     \* bound: how often a user starts or stops a container

Calls == {"pre", "busy", "inspect", "mark", "stop", "start", "clear", "list"}

ASSUME ItemsAssumption ==
    /\ StopList \in [Items -> SUBSET Containers]
    /\ Needs \in [Containers -> SUBSET Containers]
    /\ Joins \in [Containers -> SUBSET Containers]
    /\ FaultSets \subseteq SUBSET Calls
    /\ MaxCrashes \in Nat /\ MaxUserActs \in Nat
    /\ NoItem \notin Items

\* Both kinds of edges order the stops and the starts (composeIdentity).
Edges(c) == Needs[c] \cup Joins[c]

\* What StartOrder makes of a cycle is RestartOrder's.
ASSUME NoCycleAssumption ==
    \A S \in (SUBSET Containers) \ {{}} : \E c \in S : Edges(c) \cap S = {}

VARIABLES
    up,         \* the containers that run
    marker,     \* restart_pending of each item, in the database
    pc,         \* where the process is
    item,       \* the item of the window or of the boot step
    rest,       \* the containers of the window not in a finished level
    level,      \* those of the current level whose stop was not called yet
    asked,      \* those whose stop call failed, to be looked at
    stopped,    \* c.stopped: what thaw or the boot has to start again
    unseen,     \* what the boot could not inspect
    failed,     \* those whose stop failed
    todo,       \* those still to start
    queue,      \* the items the boot has yet to look at
    hook,       \* the pre command ran and the post command has not yet
    faults,     \* the calls that may fail here
    took,       \* history: down, and it was the program that stopped them
    over,       \* history: down, and a later window wrote over their entry
    touched,    \* history: started or stopped by a user since the window began
    crashes, acts

disk    == <<marker>>
memory  == <<item, rest, level, asked, stopped, unseen, failed, todo, queue>>
history == <<took, over>>
bounds  == <<faults, crashes, acts>>

vars == <<up, disk, pc, memory, hook, history, touched, bounds>>

Steps == {"idle", "pre", "freeze", "mark", "stop", "snap", "thaw", "post",
          "down", "boot", "bootStart"}

TypeOK ==
    /\ up \in SUBSET Containers
    /\ marker \in [Items -> SUBSET Containers]
    /\ pc \in Steps
    /\ item \in Items \cup {NoItem}
    /\ {rest, level, asked, stopped, unseen, failed, todo} \subseteq SUBSET Containers
    /\ queue \in SUBSET Items
    /\ hook \in BOOLEAN
    /\ faults \in FaultSets
    /\ {took, over, touched} \subseteq SUBSET Containers
    /\ crashes \in 0 .. MaxCrashes
    /\ acts \in 0 .. MaxUserActs

ForgetsAll ==
    /\ item' = NoItem
    /\ rest' = {} /\ level' = {} /\ asked' = {} /\ stopped' = {}
    /\ unseen' = {} /\ failed' = {} /\ todo' = {} /\ queue' = {}

\* Some containers were off before the program ever ran.
Init ==
    /\ up \in SUBSET Containers
    /\ marker = [i \in Items |-> {}]
    /\ pc = "idle"
    /\ item = NoItem
    /\ rest = {} /\ level = {} /\ asked = {} /\ stopped = {}
    /\ unseen = {} /\ failed = {} /\ todo = {} /\ queue = {}
    /\ hook = FALSE
    /\ faults \in FaultSets
    /\ took = {} /\ over = {} /\ touched = {}
    /\ crashes = 0 /\ acts = 0

\* c runs: whatever had it down no longer matters.
Runs(c) ==
    /\ up' = up \cup {c}
    /\ took' = took \ {c}
    /\ over' = over \ {c}

\* c stops because the program asked for it.
Stops(c) ==
    /\ up' = up \ {c}
    /\ took' = IF c \in up THEN took \cup {c} ELSE took
    /\ over' = over

Quiet == UNCHANGED <<up, history>>

----------------------------------------------------------------------------
(* The run up to the window *)

Begin(i) ==
    /\ pc = "idle"
    /\ pc' = "pre"
    /\ item' = i
    /\ touched' = {}
    /\ UNCHANGED <<up, disk, rest, level, asked, stopped, unseen, failed, todo,
                   queue, hook, history, bounds>>

\* Hooks.Pre: a command that fails ends the run with nothing stopped.
PreFails ==
    /\ pc = "pre" /\ "pre" \in faults
    /\ pc' = "idle"
    /\ ForgetsAll
    /\ UNCHANGED <<up, disk, hook, history, touched, bounds>>

PreRuns ==
    /\ pc = "pre"
    /\ pc' = "freeze"
    /\ hook' = TRUE
    /\ UNCHANGED <<up, disk, memory, history, touched, bounds>>

RefusesSilently ==              \* mutant: returns before the post command
    /\ pc = "freeze" /\ faults \cap {"busy", "inspect"} # {}
    /\ pc' = "idle"
    /\ ForgetsAll
    /\ UNCHANGED <<up, disk, hook, history, touched, bounds>>

\* Freeze refuses: the containers section stayed busy, or a container of the
\* list is BombVault itself or cannot be inspected.  The post command runs.
FreezeRefuses ==
    /\ pc = "freeze" /\ faults \cap {"busy", "inspect"} # {}
    /\ pc' = "post"
    /\ UNCHANGED <<up, disk, memory, hook, history, touched, bounds>>

ItsListAlone(cs) == {cs}        \* mutant: those that share a namespace run on

\* The running containers that share a namespace of one in cs, directly or
\* through others.
Sharers(cs) ==
    {c \in up : \A S \in SUBSET up :
        cs \subseteq S /\ (\A d \in up : Joins[d] \cap S # {} => d \in S) => c \in S}

\* withSharers adds them, as far as Docker lists and inspects them.
WithSharers(cs) ==
    {all \in SUBSET Sharers(cs) :
        cs \subseteq all /\ (all # Sharers(cs) => "inspect" \in faults)}

\* running: a container the user stopped stays out of the window, and with
\* nothing to stop there is none.
Looks ==
    /\ pc = "freeze"
    /\ rest' \in WithSharers(StopList[item] \cap up)
    /\ pc' = IF rest' = {} THEN "snap" ELSE "mark"
    /\ UNCHANGED <<up, disk, item, level, asked, stopped, unseen, failed, todo,
                   queue, hook, history, touched, bounds>>

----------------------------------------------------------------------------
(* The window *)

Dependents(c, among) == {d \in among : c \in Edges(d)}

AllAtOnce(among) == among       \* mutant: a dependency goes with its dependents

\* StopLevels: the next level is what nothing left in the set depends on.
Tops(among) == {c \in among : Dependents(c, among \ {c}) = {}}

\* SetZFSRestartPending replaces the item's list, before the first stop.
Marks ==
    /\ pc = "mark"
    /\ marker' = [marker EXCEPT ![item] = rest]
    /\ over' = over \cup ((marker[item] \ rest) \cap took)
    /\ level' = Tops(rest)
    /\ pc' = "stop"
    /\ UNCHANGED <<up, item, rest, asked, stopped, unseen, failed, todo, queue,
                   hook, took, touched, bounds>>

MarkFails ==
    /\ pc = "mark" /\ "mark" \in faults
    /\ pc' = "post"
    /\ UNCHANGED <<up, disk, memory, hook, history, touched, bounds>>

\* stopOne, one goroutine per container of the level: the call works ...
StopWorks(c) ==
    /\ pc = "stop" /\ c \in level
    /\ Stops(c)
    /\ level' = level \ {c}
    /\ stopped' = stopped \cup {c}
    /\ UNCHANGED <<disk, pc, item, rest, asked, unseen, failed, todo, queue,
                   hook, touched, bounds>>

\* ... or fails, and the daemon may have stopped the container all the same.
StopFails(c) ==
    /\ pc = "stop" /\ c \in level /\ "stop" \in faults
    /\ Stops(c) \/ Quiet
    /\ level' = level \ {c}
    /\ asked' = asked \cup {c}
    /\ UNCHANGED <<disk, pc, item, rest, stopped, unseen, failed, todo, queue,
                   hook, touched, bounds>>

BelievesTheCall(c) ==           \* mutant: a failed stop is never looked at
    /\ pc = "stop" /\ c \in asked
    /\ failed' = failed \cup {c}
    /\ asked' = asked \ {c}
    /\ UNCHANGED <<up, disk, pc, item, rest, level, stopped, unseen, todo, queue,
                   hook, history, touched, bounds>>

\* A failed call is checked against the container: down counts as stopped,
\* and one that cannot be inspected as both.
LooksAgain(c) ==
    /\ pc = "stop" /\ c \in asked
    /\ asked' = asked \ {c}
    /\ \/ c \notin up /\ stopped' = stopped \cup {c} /\ UNCHANGED failed
       \/ c \in up /\ failed' = failed \cup {c} /\ UNCHANGED stopped
       \/ /\ "inspect" \in faults
          /\ stopped' = stopped \cup {c} /\ failed' = failed \cup {c}
    /\ UNCHANGED <<up, disk, pc, item, rest, level, unseen, todo, queue, hook,
                   history, touched, bounds>>

IgnoresFailures ==              \* mutant: the snapshot is taken regardless
    /\ pc = "stop" /\ level = {} /\ asked = {}
    /\ rest' = rest \ Tops(rest)
    /\ level' = Tops(rest')
    /\ pc' = IF rest' # {} THEN "stop" ELSE "snap"
    /\ UNCHANGED <<up, disk, item, asked, stopped, unseen, failed, todo, queue,
                   hook, history, touched, bounds>>

\* wg.Wait: a failure anywhere in the level thaws, else the next level follows.
LevelDone ==
    /\ pc = "stop" /\ level = {} /\ asked = {}
    /\ IF failed # {}
       THEN pc' = "thaw" /\ todo' = stopped /\ UNCHANGED <<rest, level>>
       ELSE /\ rest' = rest \ Tops(rest)
            /\ level' = Tops(rest')
            /\ pc' = IF rest' # {} THEN "stop" ELSE "snap"
            /\ UNCHANGED todo
    /\ UNCHANGED <<up, disk, item, asked, stopped, unseen, failed, queue, hook,
                   history, touched, bounds>>

\* SnapshotRecursive, whether it works or not.  thaw only follows a window.
Snaps ==
    /\ pc = "snap"
    /\ pc' = IF stopped # {} THEN "thaw" ELSE "post"
    /\ todo' = stopped
    /\ UNCHANGED <<up, disk, item, rest, level, asked, stopped, unseen, failed,
                   queue, hook, history, touched, bounds>>

----------------------------------------------------------------------------
(* Starting again: thaw, and the boot for what a crash left down *)

\* Docker refuses to start a container whose namespace owner is down.
CanStart(c) == Joins[c] \subseteq up

\* RestartInOrder: a dependency is tried before its dependents.
Tries(c) == pc \in {"thaw", "bootStart"} /\ c \in todo /\ Edges(c) \cap todo = {}

StartWorks(c) ==
    /\ Tries(c)
    /\ c \in up \/ CanStart(c)
    /\ Runs(c)
    /\ todo' = todo \ {c}
    /\ UNCHANGED <<disk, pc, item, rest, level, asked, stopped, unseen, failed,
                   queue, hook, touched, bounds>>

\* Docker refuses the start, or the container exits at once.  A start of a
\* container that runs never fails.
StartFails(c) ==
    /\ Tries(c)
    /\ c \notin up
    /\ "start" \in faults \/ ~CanStart(c)
    /\ Quiet
    /\ todo' = todo \ {c}
    /\ UNCHANGED <<disk, pc, item, rest, level, asked, stopped, unseen, failed,
                   queue, hook, touched, bounds>>

NothingDown(cs) == {{}}         \* mutant: whatever was started counts as back

\* The look after the starts: not running, or not to be inspected.
StillDown(cs) ==
    {down \in SUBSET cs : cs \ up \subseteq down
                          /\ (down # cs \ up => "inspect" \in faults)}

\* What is still down replaces the item's list; the write may fail.
Records(down) ==
    \/ marker' = [marker EXCEPT ![item] = down]
    \/ "clear" \in faults /\ UNCHANGED marker

ThawEnds ==
    /\ pc = "thaw" /\ todo = {}
    /\ \E down \in StillDown(stopped) : Records(down)
    /\ pc' = "post"
    /\ UNCHANGED <<up, memory, hook, history, touched, bounds>>

\* Hooks.Post runs on a context nothing cancels; its failure is only told.
Posts ==
    /\ pc = "post"
    /\ pc' = "idle"
    /\ hook' = FALSE
    /\ ForgetsAll
    /\ UNCHANGED <<up, disk, history, touched, bounds>>

\* RecoverZFSRestarts: the items with an entry, one after the other.  When
\* the list cannot be read nothing happens.
Boots ==
    /\ pc = "down"
    /\ pc' = "boot"
    /\ \/ queue' = {i \in Items : marker[i] # {}}
       \/ "list" \in faults /\ queue' = {}
    /\ UNCHANGED <<up, disk, item, rest, level, asked, stopped, unseen, failed,
                   todo, hook, history, touched, bounds>>

\* recoverItemRestarts: what cannot be inspected is not started and stays.
BootTakes(i) ==
    /\ pc = "boot" /\ i \in queue
    /\ \E cs \in SUBSET marker[i] :
         /\ cs # {} => "inspect" \in faults
         /\ unseen' = cs
         /\ stopped' = marker[i] \ cs
    /\ todo' = stopped'
    /\ item' = i
    /\ queue' = queue \ {i}
    /\ pc' = "bootStart"
    /\ UNCHANGED <<up, disk, rest, level, asked, failed, hook, history, touched, bounds>>

BootRecords ==
    /\ pc = "bootStart" /\ todo = {}
    /\ \E down \in StillDown(stopped) : Records(unseen \cup down)
    /\ pc' = "boot"
    /\ UNCHANGED <<up, memory, hook, history, touched, bounds>>

BootEnds ==
    /\ pc = "boot" /\ queue = {}
    /\ pc' = "idle"
    /\ ForgetsAll
    /\ UNCHANGED <<up, disk, hook, history, touched, bounds>>

----------------------------------------------------------------------------
(* The rest of the world *)

\* The process dies; its containers, its database and the hook's effect stay.
Crash ==
    /\ pc # "down" /\ crashes < MaxCrashes
    /\ crashes' = crashes + 1
    /\ pc' = "down"
    /\ ForgetsAll
    /\ UNCHANGED <<up, disk, hook, history, touched, faults, acts>>

UserStarts(c) ==
    /\ acts < MaxUserActs /\ c \notin up /\ CanStart(c)
    /\ Runs(c)
    /\ acts' = acts + 1 /\ touched' = touched \cup {c}
    /\ UNCHANGED <<disk, pc, memory, hook, faults, crashes>>

UserStops(c) ==
    /\ acts < MaxUserActs /\ c \in up
    /\ up' = up \ {c} /\ UNCHANGED history
    /\ acts' = acts + 1 /\ touched' = touched \cup {c}
    /\ UNCHANGED <<disk, pc, memory, hook, faults, crashes>>

Window ==
    \/ PreFails \/ PreRuns \/ FreezeRefuses \/ Looks
    \/ Marks \/ MarkFails \/ LevelDone \/ Snaps \/ ThawEnds \/ Posts
    \/ \E c \in Containers : StopWorks(c) \/ StopFails(c) \/ LooksAgain(c)

Starts == \E c \in Containers : StartWorks(c) \/ StartFails(c)

Recovery == Boots \/ BootRecords \/ BootEnds \/ \E i \in Items : BootTakes(i)

Program == Window \/ Starts \/ Recovery

Next ==
    \/ \E i \in Items : Begin(i)
    \/ Program
    \/ Crash
    \/ \E c \in Containers : UserStarts(c) \/ UserStops(c)

Spec == Init /\ [][Next]_vars

\* A run that has begun is one goroutine that goes on by itself, and the
\* container runtime starts a process that died.
FairSpec == Spec /\ WF_vars(Program)

----------------------------------------------------------------------------
(* Properties *)

Marked == UNION {marker[i] : i \in Items}

\* Whatever the program stopped and nobody has started since is on the row of
\* an item, through crashes, failed stops, failed starts and failed writes,
\* unless a later window of that item wrote over its entry (Freeze, thaw,
\* recoverItemRestarts).
NothingForgotten == took \subseteq Marked \cup over

\* The snapshot is taken while every container of the item's list is down,
\* however the stops failed, unless a user started it meanwhile (Freeze, stop).
SnapshotIsQuiet == pc = "snap" => StopList[item] \cap up \subseteq touched

\* While a window takes containers down, no container of it loses one it needs
\* before it is down itself (StopLevels, the wait after each level).
DependentsFirst ==
    [][pc = "stop" => \A c \in took' \ took :
         Dependents(c, marker[item] \cap up') \subseteq touched' \cup {c}]_vars

\* With a Docker that starts what was stopped and a database that can be
\* listed, nothing is down between the runs but what users stopped, and what
\* Docker refuses because users had the owner of its namespace down: the failed
\* stops and looks, a refused window and a crash at any point included (thaw,
\* RecoverZFSRestarts).
AllIsBack ==
    pc = "idle" /\ faults \cap {"start", "list", "inspect"} = {} =>
        \A c \in took : Joins[c] # {} /\ (CanStart(c) => acts > 0)

\* Docker gives a restarted container a new namespace and leaves those that
\* share the old one with a loopback: nothing is stopped under a container that
\* shares its namespace, on the item's list or not, and keeps running, but what
\* a user starts meanwhile (withSharers, StopLevels).
NobodyIsCutOff ==
    [][Program => \A c \in took' \ took :
         "inspect" \in faults
         \/ {d \in up' : c \in Joins[d]} \subseteq touched]_vars

\* A pre command that ran is followed by its post command on every path that
\* does not lose the process (BackupZFSItem's Freeze error, thaw, post).
HookIsUndone == hook ~> ~hook \/ crashes > 0

\* What recoverItemRestarts says (zfs_consistency.go:370): a container that
\* does not come up stays on the marker.
NothingIsWrittenOver == over = {}

=============================================================================
