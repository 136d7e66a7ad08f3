------------------------------ MODULE BusyWaits ------------------------------
(***************************************************************************)
(* Scheduled container backups that wait for busy apps.  A fire of the     *)
(* schedule holds the busy ones back (internal/api/idle_wait.go), a whole  *)
(* compose stack as one wait; a watch per wait backs them up once they are *)
(* idle or the wait is over.  A backup that finds its app busy all the     *)
(* same is deferred (internal/api/deferral.go) and tried again until it    *)
(* goes through or its deadline comes.  Both are on record, so that a      *)
(* restart carries on with them.                                           *)
(***************************************************************************)
EXTENDS Naturals, FiniteSets

CONSTANTS
    Apps,        \* the containers
    StackOf,     \* the key of the stack of each, itself when it is in none
    Triggers,    \* what fires: "domain", "item" (an own schedule), "everything"
    Own,         \* the apps with a schedule of their own
    GivesUp,     \* the apps whose policy gives up at the deadline
    Environments,\* what may happen around the waits, a set of events each
    Slots,       \* bound: the runs that are under way at once
    MaxFires, MaxHands, MaxActs, MaxCrashes     \* bounds

Keys == Apps \cup {StackOf[a] : a \in Apps}
\* Hours or stacks cannot be read, a record cannot be deleted, somebody clicks on
\* Back up now or changes a setting, the process dies.
Events == {"hours", "stacks", "forget", "click", "user", "crash"}

ASSUME AppsAssumption == IsFiniteSet(Apps) /\ DOMAIN StackOf = Apps
ASSUME ChoicesAssumption ==
    /\ Triggers \subseteq {"domain", "item", "everything"}
    /\ GivesUp \subseteq Apps /\ Own \subseteq Apps
    /\ Environments \subseteq SUBSET Events
    /\ Slots \subseteq Nat
    /\ {MaxFires, MaxHands, MaxActs, MaxCrashes} \subseteq Nat

VARIABLES
    \* the settings
    enabled,     \* ContainersEnabled
    domainOn,    \* the containers schedule is on
    scheduled,   \* the apps with IncludeInSchedule
    \* the database
    stored,      \* idle_wait_groups, by key
    deferred,    \* deferred_backups
    \* the clock
    over,        \* the apps whose latest deferral has passed its RetryDeadline
    \* the process
    life,        \* "down", "boot" (until StartDeferrals) or "up"
    groups,      \* idleWaits.groups, by key
    watch,       \* what waits for the group of a key
    fires,       \* the fires of HoldForIdle that have looked at their apps
    jobs,        \* the runs: their kind, what they still back up, and now
    listed,      \* tryDeferrals: what it still goes over, and why
    \* history
    owed,        \* the apps a fire asked a backup of, without an answer yet
    faults, fired, handed, acts, crashes

settings == <<enabled, domainOn, scheduled>>
database == <<stored, deferred>>
waits    == <<groups, watch>>
bounds   == <<faults, fired, handed, acts, crashes>>
vars == <<settings, database, over, life, waits, fires, jobs, listed, owed,
          bounds>>

None  == [members |-> {}, trigger |-> "none"]
Group == [members : (SUBSET Apps) \ {{}}, trigger : Triggers] \cup {None}
NoJob == [kind |-> "none", apps |-> {}, now |-> {}]
Kinds == {"fire", "held", "retry", "last", "hand"}
\* An app that is being backed up is the only one of now.
Job   == [kind : Kinds, apps : (SUBSET Apps) \ {{}}, now : SUBSET Apps] \cup {NoJob}
NoFire == [apps |-> {}, busy |-> {}, stacks |-> FALSE]
Fire  == [apps : SUBSET Apps, busy : SUBSET Apps, stacks : BOOLEAN]

TypeOK ==
    /\ enabled \in BOOLEAN /\ domainOn \in BOOLEAN /\ scheduled \subseteq Apps
    /\ stored \in [Keys -> Group] /\ deferred \subseteq Apps
    /\ over \subseteq Apps
    /\ life \in {"down", "boot", "up"}
    /\ groups \in [Keys -> Group]
    /\ watch \in [Keys -> {"none", "resumed", "poll", "end"}]
    /\ fires \in [Triggers -> Fire]
    /\ jobs \in [Slots -> Job] /\ \A j \in Slots : jobs[j].now \subseteq jobs[j].apps
    /\ listed \in [Apps -> {"none", "drop", "over", "try"}]
    /\ owed \subseteq Apps
    /\ faults \in Environments
    /\ fired \in 0 .. MaxFires /\ handed \in 0 .. MaxHands
    /\ acts \in 0 .. MaxActs /\ crashes \in 0 .. MaxCrashes

NoGroups  == [k \in Keys |-> None]
NoWatches == [k \in Keys |-> "none"]
NoFires   == [f \in Triggers |-> NoFire]
NoJobs    == [j \in Slots |-> NoJob]
NoList    == [a \in Apps |-> "none"]

Init ==
    /\ enabled = TRUE /\ domainOn = TRUE /\ scheduled = Apps
    /\ stored = NoGroups /\ deferred = {}
    /\ over = {}
    /\ life = "up" /\ groups = NoGroups /\ watch = NoWatches /\ fires = NoFires
    /\ jobs = NoJobs /\ listed = NoList
    /\ owed = {}
    /\ faults \in Environments /\ fired = 0 /\ handed = 0 /\ acts = 0 /\ crashes = 0

Up == life # "down"

\* A run gets a slot of its own and goes through its apps.
Begins(kind, apps) ==
    \E j \in Slots :
        /\ jobs[j] = NoJob /\ \A i \in Slots : i < j => jobs[i] # NoJob
        /\ jobs' = [jobs EXCEPT ![j] = [kind |-> kind, apps |-> apps, now |-> {}]]

-----------------------------------------------------------------------------
(* HoldForIdle *)

\* What a fire is for: one app, those without a schedule of their own, or all.
Due(f) ==
    CASE f = "item"       -> {{a} : a \in scheduled \cap Own}
      [] f = "domain"     -> {scheduled \ Own}
      [] f = "everything" -> {scheduled}

\* A fire looks at its apps and at the stacks before it locks the waits.
Look(f) ==
    /\ Up /\ fires[f] = NoFire /\ fired < MaxFires
    /\ enabled
    /\ f = "domain" => domainOn
    /\ \E S \in Due(f) \ {{}} : \E B \in SUBSET S, known \in BOOLEAN :
        /\ ~known => "stacks" \in faults
        /\ fires' = [fires EXCEPT ![f] = [apps |-> S, busy |-> B, stacks |-> known]]
        /\ owed' = owed \cup S
    /\ fired' = fired + 1
    /\ UNCHANGED <<settings, database, over, life, waits, jobs, listed, faults,
                   handed, acts, crashes>>

Waits(a)     == \E k \in Keys : a \in groups[k].members
NoneWaits(S) == {}                              \* mutant: groupOf is not asked
\* mutant: asks for the wait of the stack
ItsStackDoes(S) == {a \in S : groups[StackOf[a]] # None}
Absorbed(S)  == {a \in S : Waits(a)}

KeyOf(f, a) == IF fires[f].stacks THEN StackOf[a] ELSE a

\* The busy apps that do not wait yet, and the rest of a stack that waits.
Joins(f, k) ==
    LET free == {a \in fires[f].apps \ Absorbed(fires[f].apps) : KeyOf(f, a) = k}
        busy == free \cap fires[f].busy
    IN  IF k \notin Apps /\ (groups[k] # None \/ busy # {}) THEN free ELSE busy

\* The held apps join the wait of their key, or a new one that is watched; the
\* others go on as the run of the fire.
Hold(f) ==
    LET S    == fires[f].apps
        new  == {k \in Keys : groups[k] = None /\ Joins(f, k) # {}}
        rest == S \ (Absorbed(S) \cup UNION {Joins(f, k) : k \in Keys})
    IN  /\ fires[f] # NoFire
        /\ groups' = [k \in Keys |->
               IF Joins(f, k) = {} THEN groups[k]
               ELSE [members |-> groups[k].members \cup Joins(f, k),
                     trigger |-> IF k \in new THEN f ELSE groups[k].trigger]]
        /\ stored' = [k \in Keys |-> IF Joins(f, k) = {} THEN stored[k] ELSE groups'[k]]
        /\ watch' = [k \in Keys |-> IF k \in new THEN "poll" ELSE watch[k]]
        /\ IF rest = {} THEN jobs' = jobs ELSE Begins("fire", rest)
        /\ fires' = [fires EXCEPT ![f] = NoFire]
        /\ UNCHANGED <<settings, deferred, over, life, listed, owed,
                   bounds>>

\* The hours cannot be read: nothing is held.
HoldsNothing(f) ==
    /\ fires[f] # NoFire /\ "hours" \in faults
    /\ Begins("fire", fires[f].apps)
    /\ fires' = [fires EXCEPT ![f] = NoFire]
    /\ UNCHANGED <<settings, database, over, life, waits, listed, owed,
                   bounds>>

-----------------------------------------------------------------------------
(* The watch of a wait: waitForIdle *)

Forgets(k) ==
    \/ stored' = [stored EXCEPT ![k] = None]
    \/ "forget" \in faults /\ UNCHANGED stored

\* waitDropped: the run a wait belongs to was switched off.
Dropped(trigger) == ~enabled \/ (trigger = "domain" /\ ~domainOn)

WatchDrops(k) ==
    /\ watch[k] = "poll" /\ Dropped(groups[k].trigger)
    /\ groups' = [groups EXCEPT ![k] = None]
    /\ Forgets(k)
    /\ watch' = [watch EXCEPT ![k] = "none"]
    /\ owed' = owed \ groups[k].members
    /\ UNCHANGED <<settings, deferred, over, life, fires, jobs, listed, bounds>>

\* A look finds the apps idle, the wait switched off, or the wait is over.
LooksDone(k) ==
    /\ watch[k] = "poll" /\ ~Dropped(groups[k].trigger)
    /\ watch' = [watch EXCEPT ![k] = "end"]
    /\ UNCHANGED <<settings, database, over, life, groups, fires, jobs, listed,
                   owed, bounds>>

\* endWait takes the wait off the list and the record with all its members, also
\* those that came since the look; RunContainersNow skips what left the schedule.
EndWait(k) ==
    LET members == groups[k].members
    IN  /\ watch[k] = "end"
        /\ groups' = [groups EXCEPT ![k] = None]
        /\ Forgets(k)
        /\ watch' = [watch EXCEPT ![k] = "none"]
        /\ owed' = owed \ (members \ scheduled)
        /\ IF members \cap scheduled = {} THEN jobs' = jobs
           ELSE Begins("held", members \cap scheduled)
        /\ UNCHANGED <<settings, deferred, over, life, fires, listed, bounds>>

-----------------------------------------------------------------------------
(* The jobs, one backup at a time *)

Free == \A j \in Slots : jobs[j].now = {}

\* Backup takes the section of the containers.
Enter(j, a) ==
    /\ Free /\ a \in jobs[j].apps
    /\ jobs' = [jobs EXCEPT ![j].now = {a}]
    /\ UNCHANGED <<settings, database, over, life, waits, fires, listed,
                   owed, bounds>>

Leaves(j) ==
    LET rest == jobs[j].apps \ jobs[j].now
    IN  /\ jobs' = [jobs EXCEPT ![j] =
               IF rest = {} THEN NoJob ELSE [@ EXCEPT !.apps = rest, !.now = {}]]
        /\ UNCHANGED <<settings, stored, life, waits, fires, listed, bounds>>

\* settleDeferral: the backup went through or failed for a reason of its own.
BackedUp(j) ==
    /\ jobs[j].now # {} /\ Leaves(j)
    /\ owed' = owed \ jobs[j].now
    /\ \/ deferred' = deferred \ jobs[j].now
       \/ "forget" \in faults /\ UNCHANGED deferred
    /\ UNCHANGED over

\* BackupContainer finds the app busy, and deferBackup records the wait, which
\* keeps its Since if it has one.
MayWait == {"fire", "held", "retry"}
Everyone == MayWait \cup {"last"}               \* mutant: the last try waits too
Deferrable == MayWait
Defers(j) ==
    /\ jobs[j].now # {} /\ jobs[j].kind \in Deferrable /\ Leaves(j)
    /\ deferred' = deferred \cup jobs[j].now
    /\ over' = over \ (jobs[j].now \ deferred)
    /\ UNCHANGED owed

\* batchActive: a retry or a click is under way.
Batch == \E j \in Slots : jobs[j].kind \in {"retry", "last", "hand"}

\* StartBackup: a click.
Hand(a) ==
    /\ "click" \in faults /\ Up /\ handed < MaxHands /\ ~Batch /\ Free
    /\ Begins("hand", {a})
    /\ handed' = handed + 1
    /\ UNCHANGED <<settings, database, over, life, waits, fires, listed, owed,
                   faults, fired, acts, crashes>>

-----------------------------------------------------------------------------
(* The deferrals: tryDeferrals *)

\* What the records, the settings and the clock make of a deferral that is due.
Verdict(a) ==
    IF ~enabled \/ a \notin scheduled THEN "drop"
    ELSE IF a \in over THEN "over" ELSE "try"

\* A deferral is due between its tries at times of its own, and at its deadline.
List ==
    /\ life = "up" /\ listed = NoList
    /\ \E due \in (SUBSET deferred) \ {{}} :
        /\ over \cap deferred \subseteq due
        /\ listed' = [a \in Apps |-> IF a \in due THEN Verdict(a) ELSE "none"]
    /\ UNCHANGED <<settings, database, over, life, waits, fires, jobs, owed,
                   bounds>>

Trying(a) ==
    \E j \in Slots : jobs[j].kind \in {"retry", "last"} /\ a \in jobs[j].apps

\* dropDeferral or giveUpDeferral: the end is recorded as a run and told.
EndsDeferral(a) ==
    /\ ~Trying(a)
    /\ listed[a] = "drop" \/ (listed[a] = "over" /\ a \in GivesUp)
    /\ listed' = [listed EXCEPT ![a] = "none"]
    /\ \/ deferred' = deferred \ {a}
       \/ "forget" \in faults /\ UNCHANGED deferred
    /\ owed' = owed \ {a}
    /\ UNCHANGED <<settings, stored, over, life, waits, fires, jobs, bounds>>

\* Outside the window of its policy the next try moves to the window's start;
\* what SaveDeferral writes is the deferral as it was listed.
Postpones(a) ==
    /\ ~Trying(a) /\ listed[a] = "try"
    /\ listed' = [listed EXCEPT ![a] = "none"]
    /\ deferred' = deferred \cup {a}
    /\ UNCHANGED <<settings, stored, over, life, waits, fires, jobs, owed,
                   bounds>>

\* containersBusy: a run is under way.
Busy == \E j \in Slots : jobs[j] # NoJob

\* retryDeferred takes the guard that a click takes.
Retry(kind, a) ==
    /\ ~Trying(a) /\ ~Batch /\ Begins(kind, {a})
    /\ listed' = [listed EXCEPT ![a] = "none"]
    /\ UNCHANGED <<settings, database, over, life, waits, fires, owed, bounds>>

Retries(a) == listed[a] = "try" /\ ~Busy /\ Retry("retry", a)

\* At the deadline the backup goes ahead, whatever the app or other runs do.
LastTry(a) == listed[a] = "over" /\ a \notin GivesUp /\ Retry("last", a)

\* Left for the next look.
Skips(a) ==
    /\ \/ listed[a] # "none" /\ Trying(a)
       \/ listed[a] = "try" /\ Busy
       \/ listed[a] = "over" /\ a \notin GivesUp /\ Batch
    /\ listed' = [listed EXCEPT ![a] = "none"]
    /\ UNCHANGED <<settings, database, over, life, waits, fires, jobs, owed,
                   bounds>>

-----------------------------------------------------------------------------
(* A crash and the next start *)

InRun(a) ==
    \/ \E j \in Slots : a \in jobs[j].apps
    \/ \E f \in Triggers : a \in fires[f].apps

OnRecord(a) == a \in deferred \/ \E k \in Keys : a \in stored[k].members

\* What was in a run is cut off, unless a record of it is left.
Crash ==
    /\ "crash" \in faults /\ Up /\ crashes < MaxCrashes
    /\ life' = "down" /\ crashes' = crashes + 1
    /\ groups' = NoGroups /\ watch' = NoWatches /\ fires' = NoFires
    /\ jobs' = NoJobs /\ listed' = NoList
    /\ LET lost == {a \in owed : InRun(a) /\ ~Waits(a) /\ a \notin deferred}
       IN  owed' = owed \ lost
    /\ UNCHANGED <<settings, database, over, faults, fired, handed, acts>>

\* ResumeIdleWaits: what was switched off is dropped, and who left the schedule.
Whole(k) ==                                     \* mutant: empty waits are kept
    IF Dropped(stored[k].trigger) THEN None
    ELSE [stored[k] EXCEPT !.members = @ \cap scheduled]
Kept(k) ==
    LET members == stored[k].members \cap scheduled
    IN  IF members = {} \/ Dropped(stored[k].trigger) THEN None
        ELSE [stored[k] EXCEPT !.members = members]

Resume ==
    /\ life = "down" /\ life' = "boot"
    /\ groups' = [k \in Keys |-> Kept(k)]
    /\ \/ stored' = groups'
       \/ /\ "forget" \in faults
          /\ stored' = [k \in Keys |-> IF Kept(k) = None THEN stored[k] ELSE Kept(k)]
    /\ watch' = [k \in Keys |-> IF Kept(k) = None THEN "none" ELSE "resumed"]
    /\ owed' = owed \ UNION {stored[k].members \ Kept(k).members : k \in Keys}
    /\ UNCHANGED <<settings, deferred, over, fires, jobs, listed, bounds>>

Unwatched(k) ==                                 \* mutant: no watch for what waited
    /\ watch[k] = "resumed"
    /\ watch' = [watch EXCEPT ![k] = "none"]
    /\ UNCHANGED <<settings, database, over, life, groups, fires, jobs, listed,
                   owed, bounds>>

\* StartIdleWaits: a wait that is over ends without a look.
StartWait(k) ==
    /\ watch[k] = "resumed"
    /\ \E to \in {"poll", "end"} : watch' = [watch EXCEPT ![k] = to]
    /\ UNCHANGED <<settings, database, over, life, groups, fires, jobs, listed,
                   owed, bounds>>

StartDeferrals ==
    /\ life = "boot" /\ \A k \in Keys : watch[k] # "resumed"
    /\ life' = "up"
    /\ UNCHANGED <<settings, database, over, waits, fires, jobs, listed, owed,
                   bounds>>

-----------------------------------------------------------------------------
(* The clock and the user *)

DeadlineComes(a) ==
    /\ a \in deferred \ over
    /\ over' = over \cup {a}
    /\ UNCHANGED <<settings, database, life, waits, fires, jobs, listed,
                   owed, bounds>>

Acts ==
    /\ "user" \in faults /\ acts < MaxActs /\ acts' = acts + 1
    /\ UNCHANGED <<database, over, life, waits, fires, jobs, listed, owed,
                   faults, fired, handed, crashes>>

SwitchesOff == Acts /\ enabled' = FALSE /\ UNCHANGED <<domainOn, scheduled>>
DomainOff   == Acts /\ domainOn' = FALSE /\ UNCHANGED <<enabled, scheduled>>
Unschedules(a) ==
    Acts /\ scheduled' = scheduled \ {a} /\ UNCHANGED <<enabled, domainOn>>

-----------------------------------------------------------------------------
Fired   == \E f \in Triggers : Hold(f) \/ HoldsNothing(f)
Watched == \E k \in Keys :
    WatchDrops(k) \/ LooksDone(k) \/ EndWait(k) \/ StartWait(k)
Backup  == \E j \in Slots : BackedUp(j) \/ Defers(j)
Goes    == \E a \in Apps :
    EndsDeferral(a) \/ Postpones(a) \/ Retries(a) \/ LastTry(a) \/ Skips(a)
Deferrals == List \/ Goes

Next ==
    \/ \E f \in Triggers : Look(f)
    \/ Fired \/ Watched \/ Backup \/ Deferrals
    \/ \E j \in Slots, a \in Apps : Enter(j, a)
    \/ Crash \/ Resume \/ StartDeferrals
    \/ \E a \in Apps : Hand(a) \/ DeadlineComes(a) \/ Unschedules(a)
    \/ SwitchesOff \/ DomainOff

Spec == Init /\ [][Next]_vars

\* The goroutines go on, an app gets idle or its wait is over, and a dead process
\* is started again.  Go's mutex is handed to who waits for it.  The deadline of a
\* deferral is a point in time, and as the tries of others are spaced, some look
\* finds the guard free.
FairSpec ==
    /\ Spec
    /\ WF_vars(Fired) /\ WF_vars(Watched) /\ WF_vars(Backup) /\ WF_vars(Deferrals)
    /\ WF_vars(Resume \/ StartDeferrals)
    /\ \A j \in Slots : SF_vars(\E a \in Apps : Enter(j, a))
    /\ \A a \in Apps : SF_vars(DeadlineComes(a)) /\ SF_vars(LastTry(a))

-----------------------------------------------------------------------------
(* Properties *)

\* A backup a fire asked for is under way, waits in a group, or is deferred; and
\* what is not under way is on record (HoldForIdle, endWait, deferBackup).
NothingIsLost ==
    \A a \in owed : IF Up THEN InRun(a) \/ Waits(a) \/ a \in deferred ELSE OnRecord(a)

\* However fires overlap and stacks are known or not, an app waits in one group
\* (groupOf), so that it is backed up once when its wait ends.
OneWaitEach ==
    \A k, l \in Keys : groups[k].members \cap groups[l].members # {} => k = l

\* A fire's backup is made, dropped or given up, through waits, deferrals,
\* busy apps and a crash.
EveryFireEnds == \A a \in Apps : a \in owed ~> a \notin owed

\* A deferral ends with its deadline, also while other runs keep its tries off.
DeferralEnds ==
    \A a \in Apps : a \in deferred ~> a \notin deferred \/ "forget" \in faults

=============================================================================
