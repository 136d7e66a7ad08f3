---------------------------- MODULE RestartOrder ----------------------------
(***************************************************************************)
(* In which order the containers a backup stopped come up again.           *)
(* withSharers settles who starts before and who after the target;         *)
(* splitAroundTarget parts them; each part is brought up in the order of   *)
(* compose.StartOrder (Kahn's algorithm, a cycle in list order), with the  *)
(* target in between.  The same order, walked backwards, gives the levels  *)
(* in which a dataset's window stops its containers (backup.StopLevels).   *)
(*                                                                         *)
(* A container is its position in the list.  Service names are resolved:   *)
(* needs[i] is what DepGraph finds in the whole list for i's depends_on.   *)
(* Starting and waiting for health are ContainerBackup's and ZFSWindow's.  *)
(***************************************************************************)
EXTENDS Integers, Sequences, FiniteSets

CONSTANTS N,            \* how many containers a backup stops beside the target
          Joins,        \* the ways the containers may join namespaces
          NeedSets      \* the ways they may depend on each other

Deps   == 1 .. N
Target == 0
All    == Deps \cup {Target}

ASSUME InputsAssumption ==
    /\ N \in Nat
    /\ Joins \subseteq [Deps -> SUBSET All]
    /\ NeedSets \subseteq [Deps -> SUBSET Deps]

VARIABLES
    joins,      \* whose namespaces each container joins
    needs,      \* depends_on, among the containers of the list
    asked,      \* those the target depends on, a link or a database: startsBefore
    before,     \* BeforeTarget
    after,      \* those known to join the target, directly or through another
    pc,
    part,       \* the containers being ordered
    order,      \* order of compose.StartOrder so far
    cursor,     \* how far the current pass over the list is
    progressed, \* the pass has emitted a container
    started,    \* every container started so far, the target included
    level       \* StopLevels: the level of each container

vars == <<joins, needs, asked, before, after, pc, part, order, cursor,
          progressed, started, level>>

input == <<joins, needs, asked>>

Steps == {"settleAfter", "settleBefore", "first", "target", "second",
          "levels", "done"}

Elements(s) == {s[k] : k \in DOMAIN s}

TypeOK ==
    /\ joins \in Joins /\ needs \in NeedSets
    /\ asked \in SUBSET Deps /\ before \in SUBSET Deps
    /\ after \in SUBSET All
    /\ pc \in Steps
    /\ part \in SUBSET Deps
    /\ order \in Seq(Deps)
    /\ cursor \in 1 .. N + 1
    /\ progressed \in BOOLEAN
    /\ started \in Seq(All)
    /\ level \in [Deps -> 0 .. N]

\* No container joins or needs itself.
Init ==
    /\ joins \in Joins /\ needs \in NeedSets /\ asked \in SUBSET Deps
    /\ before = asked
    /\ after = {Target}
    /\ pc = "settleAfter"
    /\ part = {} /\ order = <<>> /\ cursor = 1 /\ progressed = FALSE
    /\ started = <<>>
    /\ level = [i \in Deps |-> 0]

----------------------------------------------------------------------------
(* settleAroundTarget *)

\* Those not yet known to join the target that join one who is.
NewJoiners == {i \in Deps \ after : joins[i] \cap after # {}}

\* A joiner of the target starts after it, whatever else says otherwise.
SettleAfter(i) ==
    /\ pc = "settleAfter" /\ i \in NewJoiners
    /\ after' = after \cup {i}
    /\ before' = before \ {i}
    /\ UNCHANGED <<input, pc, part, order, cursor, progressed, started, level>>

AfterSettled ==
    /\ pc = "settleAfter" /\ NewJoiners = {}
    /\ pc' = "settleBefore"
    /\ UNCHANGED <<input, before, after, part, order, cursor, progressed, started, level>>

NoOwner == {}                   \* mutant: who a starter joins is not moved up

\* Those that start too late for a joiner that starts before the target.
LateOwners == {j \in Deps \ before : \E i \in before : j \in joins[i]}

SettleBefore(j) ==
    /\ pc = "settleBefore" /\ j \in LateOwners
    /\ before' = before \cup {j}
    /\ UNCHANGED <<input, after, pc, part, order, cursor, progressed, started, level>>

FromZero(cs) ==                 \* mutant: a pass that starts before the list
    /\ part' = cs
    /\ order' = <<>> /\ cursor' = 0 /\ progressed' = FALSE

\* Hands a part to compose.StartOrder.
Orders(cs) ==
    /\ part' = cs
    /\ order' = <<>> /\ cursor' = 1 /\ progressed' = FALSE

BeforeSettled ==
    /\ pc = "settleBefore" /\ LateOwners = {}
    /\ \/ pc' = "first" /\ Orders(before)
       \/ pc' = "levels" /\ Orders(Deps)
    /\ UNCHANGED <<input, before, after, started, level>>

----------------------------------------------------------------------------
(* compose.StartOrder over compose.DepGraph *)

\* composeIdentity: a namespace owner in the part counts as a dependency.
Graph(i) == (needs[i] \cup joins[i]) \cap part

AnyReady(i) ==                  \* mutant: one dependency up is enough
    /\ i \in part \ Elements(order)
    /\ Graph(i) = {} \/ Graph(i) \cap Elements(order) # {}

\* indeg is zero: everything it needs has been emitted.
Ready(i) == i \in part \ Elements(order) /\ Graph(i) \subseteq Elements(order)

\* The rest of the pass over the list.
Ahead == {i \in cursor .. N : Ready(i)}

Ordering == pc \in {"first", "second", "levels"} /\ Elements(order) # part

\* The next container of the pass, lowest position first.
Emit ==
    /\ Ordering /\ Ahead # {}
    /\ LET i == CHOOSE i \in Ahead : \A j \in Ahead : i <= j IN
         /\ order' = Append(order, i)
         /\ cursor' = i + 1
    /\ progressed' = TRUE
    /\ UNCHANGED <<input, before, after, pc, part, started, level>>

NewPass ==
    /\ Ordering /\ Ahead = {} /\ progressed
    /\ cursor' = 1 /\ progressed' = FALSE
    /\ UNCHANGED <<input, before, after, pc, part, order, started, level>>

GivesUp ==                      \* mutant: what is left in a cycle is dropped
    /\ Ordering /\ Ahead = {} /\ ~progressed
    /\ part' = Elements(order)
    /\ UNCHANGED <<input, before, after, pc, order, cursor, progressed, started, level>>

\* A pass that emitted nothing leaves a cycle: its containers and those that
\* wait for them follow in list order.
AppendRest ==
    /\ Ordering /\ Ahead = {} /\ ~progressed
    /\ LET i == CHOOSE i \in part \ Elements(order) :
                  \A j \in part \ Elements(order) : i <= j
       IN order' = Append(order, i)
    /\ cursor' = N + 1
    /\ UNCHANGED <<input, before, after, pc, part, progressed, started, level>>

----------------------------------------------------------------------------
(* Around the target *)

\* The first part is up: the target, unless another one comes, is next.
FirstStarted ==
    /\ pc = "first" /\ Elements(order) = part
    /\ started' = order
    /\ pc' = "target"
    /\ UNCHANGED <<input, before, after, part, order, cursor, progressed, level>>

TargetStarted ==
    /\ pc = "target"
    /\ started' = Append(started, Target)
    /\ pc' = "second"
    /\ Orders(Deps \ before)
    /\ UNCHANGED <<input, before, after, level>>

SecondStarted ==
    /\ pc = "second" /\ Elements(order) = part
    /\ started' = started \o order
    /\ pc' = "done"
    /\ UNCHANGED <<input, before, after, part, order, cursor, progressed, level>>

----------------------------------------------------------------------------
(* StopLevels: the order backwards, each below all that depend on it *)

Highest(S) == CHOOSE m \in S : \A n \in S : n <= m

SameLevel(i) ==                 \* mutant: a dependency goes with its dependents
    Highest({0} \cup {level[j] : j \in {k \in Deps : i \in Graph(k)}})

Below(i) == Highest({0} \cup {level[j] + 1 : j \in {k \in Deps : i \in Graph(k)}})

\* One step per container, from the last of the order to the first.
SetLevel ==
    /\ pc = "levels" /\ Elements(order) = part
    /\ IF order = <<>>
       THEN pc' = "done" /\ UNCHANGED <<part, order, level>>
       ELSE LET i == order[Len(order)] IN
            /\ level' = [level EXCEPT ![i] = Below(i)]
            /\ order' = SubSeq(order, 1, Len(order) - 1)
            /\ part' = part \ {i}
            /\ UNCHANGED pc
    /\ UNCHANGED <<input, before, after, cursor, progressed, started>>

Settle ==
    \/ AfterSettled \/ BeforeSettled
    \/ \E i \in Deps : SettleAfter(i) \/ SettleBefore(i)

Sort == Emit \/ NewPass \/ AppendRest

Bring == FirstStarted \/ TargetStarted \/ SecondStarted \/ SetLevel

Next == Settle \/ Sort \/ Bring

Spec == Init /\ [][Next]_vars

----------------------------------------------------------------------------
(* Properties *)

\* f comes before g in what was started.
StartsEarlier(f, g) ==
    \E k, m \in DOMAIN started : k < m /\ started[k] = f /\ started[m] = g

Restarted == pc = "done" /\ started # <<>>

\* No group of containers waits for itself.
Acyclic(edges) ==
    \A S \in (SUBSET Deps) \ {{}} : \E i \in S : edges[i] \cap S = {}

BothEdges == [i \in Deps |-> needs[i] \cup (joins[i] \ {Target})]

\* Every container a backup stopped is tried, once, and so is the target,
\* whatever the labels say: cycles, cross references, chains of namespaces
\* (settleAroundTarget, splitAroundTarget, StartOrder).
EachOnce ==
    Restarted => /\ Elements(started) = All
                 /\ Len(started) = N + 1

\* Docker refuses the start of a container whose namespace owner is down, so
\* each comes after everything it joins, the target among them, if nothing
\* waits for itself (settleAroundTarget's two loops, composeIdentity).
OwnersFirst ==
    Restarted /\ Acyclic(BothEdges) =>
        \A i \in Deps : \A o \in joins[i] : StartsEarlier(o, i)

\* On either side of the target depends_on is respected, and a cycle elsewhere
\* in the list does not disturb those that do not wait for it (StartOrder).
NeedsFirstPerSide ==
    Restarted =>
        \A i \in Deps : \A j \in needs[i] :
            \/ StartsEarlier(j, i)
            \/ (i \in before) # (j \in before)
            \/ \E S \in SUBSET Deps :
                   /\ \A k \in S : BothEdges[k] \cap S # {}
                   /\ i \in S

\* A stop in levels takes a container down only after all that need it, if
\* nothing waits for itself (StopLevels).
LevelsDependentsFirst ==
    pc = "done" /\ started = <<>> /\ Acyclic(BothEdges) =>
        \A i \in Deps : \A j \in BothEdges[i] : level[i] < level[j]

=============================================================================
