------------------------- MODULE DomainLocks_proofs -------------------------
(***************************************************************************)
(* The lock of a section for any number of operations of every kind.       *)
(* OwnerHolds is inductive together with the types.  From it follow, in    *)
(* turn, that the section implements SectionMutex, that its label is true, *)
(* that a registered follow-up holds it, and, when there are finitely many *)
(* operations, that the waiting are counted.                               *)
(***************************************************************************)
EXTENDS DomainLocks, FiniteSetTheorems, TLAPS

\* The types are inductive.
LEMMA TypeStep == TypeOK /\ [Next]_vars => TypeOK'
<1> SUFFICES ASSUME TypeOK, [Next]_vars PROVE TypeOK'
  OBVIOUS
<1> USE DEF TypeOK, Go, TakesMutex, Steps, Holds, Inside, Waiting
<1>1. ASSUME NEW r \in Runs, Run(r) PROVE TypeOK'
  BY <1>1 DEF Run, RunTries, RunWants, RunStopsFollowUp, RunLocks, RunUncounts,
              TryLock, Counts, Uncounts, StopsFollowUp, Procs
<1>2. ASSUME NEW a \in Askers, Ask(a) PROVE TypeOK'
  <2>1. a \in Procs
    BY DEF Askers, Procs
  <2> QED
    BY <1>2, <2>1 DEF Ask, AskTries, AskWants, AskStopsFollowUp, AskPolls, AskTimesOut,
              AskLeaves, TryLock, Counts, Uncounts, StopsFollowUp
<1>3. ASSUME NEW d \in Removals, Removal(d) PROVE TypeOK'
  BY <1>3 DEF Removal, RemovalWants, RemovalPolls, RemovalLooks, RemovalRefused,
              TryLock, Counts, Uncounts, Procs
<1>4. ASSUME NEW f \in FollowUps, FollowUp(f) PROVE TypeOK'
  BY <1>4 DEF FollowUp, FollowUpChecks, FollowUpTries, FollowUpRegisters,
              FollowUpUnregisters, TryLock, Procs
<1>5. ASSUME NEW w \in Windows, Window(w) PROVE TypeOK'
  BY <1>5 DEF Window, WindowQueues, WindowLocks, WindowEnters, WindowTimesOut,
              GhostLocks, Label, Procs
<1>6. ASSUME NEW p \in Procs, Hold(p) PROVE TypeOK'
  BY <1>6 DEF Hold, Labels, Label, Finishes, ClearsLabel, Unlocks
<1>7. CASE UNCHANGED vars
  BY <1>7 DEF vars
<1> QED
  BY <1>1, <1>2, <1>3, <1>4, <1>5, <1>6, <1>7 DEF Next

LEMMA TypeInit == Init => TypeOK
BY DEF Init, TypeOK, Steps

\* The types of the lock's four variables and of the control state hold for
\* any number of operations (NewService, lockDomainFor and its siblings).
THEOREM TypeCorrect == Spec => []TypeOK
BY TypeInit, TypeStep, PTL DEF Spec

----------------------------------------------------------------------------
(* The mutex *)

\* Taking the mutex needs it free, and every other step keeps its operation
\* on its side of Holds.
LEMMA OwnerStep == TypeOK /\ OwnerHolds /\ [Next]_vars => OwnerHolds'
<1> SUFFICES ASSUME TypeOK, OwnerHolds, [Next]_vars PROVE OwnerHolds'
  OBVIOUS
<1> USE ProcsAssumption DEF TypeOK, OwnerHolds, Go, TakesMutex, Holds, Inside
<1>1. ASSUME NEW r \in Runs, Run(r) PROVE OwnerHolds'
  <2>1. r \in Procs
    BY DEF Askers, Procs
  <2> QED
    BY <1>1, <2>1 DEF Run, RunTries, RunWants, RunStopsFollowUp, RunLocks, RunUncounts,
              TryLock, Counts, Uncounts, StopsFollowUp
<1>2. ASSUME NEW a \in Askers, Ask(a) PROVE OwnerHolds'
  <2>1. a \in Procs
    BY DEF Askers, Procs
  <2> QED
    BY <1>2, <2>1 DEF Ask, AskTries, AskWants, AskStopsFollowUp, AskPolls, AskTimesOut,
              AskLeaves, TryLock, Counts, Uncounts, StopsFollowUp
<1>3. ASSUME NEW d \in Removals, Removal(d) PROVE OwnerHolds'
  <2>1. d \in Procs
    BY DEF Askers, Procs
  <2> QED
    BY <1>3, <2>1 DEF Removal, RemovalWants, RemovalPolls, RemovalLooks, RemovalRefused,
              TryLock, Counts, Uncounts
<1>4. ASSUME NEW f \in FollowUps, FollowUp(f) PROVE OwnerHolds'
  <2>1. f \in Procs
    BY DEF Askers, Procs
  <2> QED
    BY <1>4, <2>1 DEF FollowUp, FollowUpChecks, FollowUpTries, FollowUpRegisters,
              FollowUpUnregisters, TryLock
<1>5. ASSUME NEW w \in Windows, Window(w) PROVE OwnerHolds'
  <2>1. w \in Procs
    BY DEF Askers, Procs
  <2> QED
    BY <1>5, <2>1 DEF Window, WindowQueues, WindowLocks, WindowEnters, WindowTimesOut,
              GhostLocks, Label
<1>6. ASSUME NEW p \in Procs, Hold(p) PROVE OwnerHolds'
  BY <1>6 DEF Hold, Labels, Label, Finishes, ClearsLabel, Unlocks
<1>7. CASE UNCHANGED vars
  BY <1>7 DEF vars
<1> QED
  BY <1>1, <1>2, <1>3, <1>4, <1>5, <1>6, <1>7 DEF Next

\* The holder of the mutex, and nobody else, is at a step of a hold: no path
\* of lockDomainFor, tryLockDomainFor, lockForRemoval, tryLockFollowUp or
\* lockWithin keeps it, drops another's or works without it.
THEOREM OwnerHoldsAlways == Spec => []OwnerHolds
<1>1. Init => OwnerHolds
  BY ProcsAssumption DEF Init, OwnerHolds, Holds, Inside
<1> QED
  BY <1>1, OwnerStep, TypeCorrect, PTL DEF Spec

----------------------------------------------------------------------------
(* The section *)

\* Those inside the section.
InSection == {p \in Procs : pc[p] \in Inside}

\* What a step of one operation may do to the section.
EntersOrLeaves(p) ==
    \/ InSection = {} /\ InSection' = {p}
    \/ InSection = {p} /\ InSection' = {}
    \/ UNCHANGED InSection

\* Every step of the lock is a step of the section or leaves it alone.
LEMMA SectionStep ==
    TypeOK /\ OwnerHolds /\ [Next]_vars =>
        UNCHANGED InSection \/ \E p \in Procs : EntersOrLeaves(p)
<1> SUFFICES ASSUME TypeOK, OwnerHolds, [Next]_vars
             PROVE  UNCHANGED InSection \/ \E p \in Procs : EntersOrLeaves(p)
  OBVIOUS
<1> USE ProcsAssumption DEF TypeOK, OwnerHolds, Go, TakesMutex, Holds, Inside, InSection, EntersOrLeaves
<1>1. ASSUME NEW r \in Runs, Run(r) PROVE EntersOrLeaves(r)
  <2>1. r \in Procs
    BY DEF Askers, Procs
  <2> QED
    BY <1>1, <2>1 DEF Run, RunTries, RunWants, RunStopsFollowUp, RunLocks, RunUncounts,
              TryLock, Counts, Uncounts, StopsFollowUp
<1>2. ASSUME NEW a \in Askers, Ask(a) PROVE EntersOrLeaves(a)
  <2>1. a \in Procs
    BY DEF Askers, Procs
  <2> QED
    BY <1>2, <2>1 DEF Ask, AskTries, AskWants, AskStopsFollowUp, AskPolls, AskTimesOut,
              AskLeaves, TryLock, Counts, Uncounts, StopsFollowUp
<1>3. ASSUME NEW d \in Removals, Removal(d) PROVE EntersOrLeaves(d)
  <2>1. d \in Procs
    BY DEF Askers, Procs
  <2> QED
    BY <1>3, <2>1 DEF Removal, RemovalWants, RemovalPolls, RemovalLooks, RemovalRefused,
              TryLock, Counts, Uncounts
<1>4. ASSUME NEW f \in FollowUps, FollowUp(f) PROVE EntersOrLeaves(f)
  <2>1. f \in Procs
    BY DEF Askers, Procs
  <2> QED
    BY <1>4, <2>1 DEF FollowUp, FollowUpChecks, FollowUpTries, FollowUpRegisters,
              FollowUpUnregisters, TryLock
<1>5. ASSUME NEW w \in Windows, Window(w) PROVE EntersOrLeaves(w)
  <2>1. w \in Procs
    BY DEF Askers, Procs
  <2> QED
    BY <1>5, <2>1 DEF Window, WindowQueues, WindowLocks, WindowEnters, WindowTimesOut,
              GhostLocks, Label
<1>6. ASSUME NEW p \in Procs, Hold(p) PROVE EntersOrLeaves(p)
  BY <1>6 DEF Hold, Labels, Label, Finishes, ClearsLabel, Unlocks
<1>8. Runs \subseteq Procs /\ Askers \subseteq Procs /\ Removals \subseteq Procs
      /\ FollowUps \subseteq Procs /\ Windows \subseteq Procs
  BY DEF Askers, Procs
<1>7. CASE UNCHANGED vars
  BY <1>7 DEF vars
<1> QED
  BY <1>1, <1>2, <1>3, <1>4, <1>5, <1>6, <1>7, <1>8 DEF Next

\* For any operations, the lock implements the section's mutex: they are
\* inside one at a time, and a window that gave up never is (lockWithin).
THEOREM SectionIsMutex == Spec => OneInside
<1>1. Init => Section!Init
  BY DEF Init, Section!Init, Inside
<1>2. TypeOK /\ OwnerHolds /\ [Next]_vars => [Section!Next]_InSection
  BY SectionStep DEF Section!Next, Section!Enter, Section!Leave, InSection, EntersOrLeaves
<1> QED
  BY <1>1, <1>2, TypeCorrect, OwnerHoldsAlways, PTL DEF Spec, OneInside, Section!Spec, InSection

----------------------------------------------------------------------------
(* The label *)

\* The steps at which the label is up.
Labelled == {"uncountPolled", "register", "work", "unregister", "clear"}

\* LabelNamesHolder, made inductive: the label is up exactly at these steps.
LabelInv ==
    /\ \A p \in Procs : pc[p] \in Labelled => activity = p
    /\ activity # NoOne => pc[activity] \in Labelled

LEMMA LabelStep == TypeOK /\ OwnerHolds /\ LabelInv /\ [Next]_vars => LabelInv'
<1> SUFFICES ASSUME TypeOK, OwnerHolds, LabelInv, [Next]_vars PROVE LabelInv'
  OBVIOUS
<1> USE ProcsAssumption DEF TypeOK, OwnerHolds, LabelInv, Labelled, Go, TakesMutex, Holds, Inside
<1>1. ASSUME NEW r \in Runs, Run(r) PROVE LabelInv'
  <2>1. r \in Procs
    BY DEF Askers, Procs
  <2> QED
    BY <1>1, <2>1 DEF Run, RunTries, RunWants, RunStopsFollowUp, RunLocks, RunUncounts,
              TryLock, Counts, Uncounts, StopsFollowUp
<1>2. ASSUME NEW a \in Askers, Ask(a) PROVE LabelInv'
  <2>1. a \in Procs
    BY DEF Askers, Procs
  <2> QED
    BY <1>2, <2>1 DEF Ask, AskTries, AskWants, AskStopsFollowUp, AskPolls, AskTimesOut,
              AskLeaves, TryLock, Counts, Uncounts, StopsFollowUp
<1>3. ASSUME NEW d \in Removals, Removal(d) PROVE LabelInv'
  <2>1. d \in Procs
    BY DEF Askers, Procs
  <2> QED
    BY <1>3, <2>1 DEF Removal, RemovalWants, RemovalPolls, RemovalLooks, RemovalRefused,
              TryLock, Counts, Uncounts
<1>4. ASSUME NEW f \in FollowUps, FollowUp(f) PROVE LabelInv'
  <2>1. f \in Procs
    BY DEF Askers, Procs
  <2> QED
    BY <1>4, <2>1 DEF FollowUp, FollowUpChecks, FollowUpTries, FollowUpRegisters,
              FollowUpUnregisters, TryLock
<1>5. ASSUME NEW w \in Windows, Window(w) PROVE LabelInv'
  <2>1. w \in Procs
    BY DEF Askers, Procs
  <2> QED
    BY <1>5, <2>1 DEF Window, WindowQueues, WindowLocks, WindowEnters, WindowTimesOut,
              GhostLocks, Label
<1>6. ASSUME NEW p \in Procs, Hold(p) PROVE LabelInv'
  BY <1>6 DEF Hold, Labels, Label, Finishes, ClearsLabel, Unlocks
<1>7. CASE UNCHANGED vars
  BY <1>7 DEF vars
<1> QED
  BY <1>1, <1>2, <1>3, <1>4, <1>5, <1>6, <1>7 DEF Next

LEMMA LabelAlways == Spec => []LabelInv
<1>1. Init => LabelInv
  BY DEF Init, LabelInv, Labelled
<1> QED
  BY <1>1, LabelStep, TypeCorrect, OwnerHoldsAlways, PTL DEF Spec

\* What domainBusy reports is the operation inside the section: the label is
\* set after the mutex is taken and cleared before it is let go.
THEOREM LabelNamesHolderAlways == Spec => []LabelNamesHolder
<1>1. TypeOK /\ OwnerHolds /\ LabelInv => LabelNamesHolder
  BY DEF TypeOK, OwnerHolds, LabelInv, Labelled, LabelNamesHolder, Holds, Inside
<1> QED
  BY <1>1, TypeCorrect, OwnerHoldsAlways, LabelAlways, PTL

----------------------------------------------------------------------------
(* The follow-up *)

\* RegisteredHolds, made inductive: it works or is about to unregister.
RegisterInv == followUp # NoOne => pc[followUp] \in {"work", "unregister"}

LEMMA RegisterStep ==
    TypeOK /\ OwnerHolds /\ RegisterInv /\ [Next]_vars => RegisterInv'
<1> SUFFICES ASSUME TypeOK, OwnerHolds, RegisterInv, [Next]_vars PROVE RegisterInv'
  OBVIOUS
<1>0. FollowUps \subseteq Procs
  BY DEF Procs
<1> USE <1>0, ProcsAssumption DEF TypeOK, OwnerHolds, RegisterInv, Go, TakesMutex, Holds, Inside
<1>1. ASSUME NEW r \in Runs, Run(r) PROVE RegisterInv'
  <2>1. r \in Procs
    BY DEF Askers, Procs
  <2> QED
    BY <1>1, <2>1 DEF Run, RunTries, RunWants, RunStopsFollowUp, RunLocks, RunUncounts,
              TryLock, Counts, Uncounts, StopsFollowUp
<1>2. ASSUME NEW a \in Askers, Ask(a) PROVE RegisterInv'
  <2>1. a \in Procs
    BY DEF Askers, Procs
  <2> QED
    BY <1>2, <2>1 DEF Ask, AskTries, AskWants, AskStopsFollowUp, AskPolls, AskTimesOut,
              AskLeaves, TryLock, Counts, Uncounts, StopsFollowUp
<1>3. ASSUME NEW d \in Removals, Removal(d) PROVE RegisterInv'
  <2>1. d \in Procs
    BY DEF Askers, Procs
  <2> QED
    BY <1>3, <2>1 DEF Removal, RemovalWants, RemovalPolls, RemovalLooks, RemovalRefused,
              TryLock, Counts, Uncounts
<1>4. ASSUME NEW f \in FollowUps, FollowUp(f) PROVE RegisterInv'
  <2>1. f \in Procs
    BY DEF Askers, Procs
  <2> QED
    BY <1>4, <2>1 DEF FollowUp, FollowUpChecks, FollowUpTries, FollowUpRegisters,
              FollowUpUnregisters, TryLock
<1>5. ASSUME NEW w \in Windows, Window(w) PROVE RegisterInv'
  <2>1. w \in Procs
    BY DEF Askers, Procs
  <2> QED
    BY <1>5, <2>1 DEF Window, WindowQueues, WindowLocks, WindowEnters, WindowTimesOut,
              GhostLocks, Label
<1>6. ASSUME NEW p \in Procs, Hold(p) PROVE RegisterInv'
  BY <1>6 DEF Hold, Labels, Label, Finishes, ClearsLabel, Unlocks
<1>7. CASE UNCHANGED vars
  BY <1>7 DEF vars
<1> QED
  BY <1>1, <1>2, <1>3, <1>4, <1>5, <1>6, <1>7 DEF Next

\* Whoever finds a stop function registered finds its follow-up holding the
\* section under its own label (heldByFollowUp, busyForUser).
THEOREM RegisteredHoldsAlways == Spec => []RegisteredHolds
<1>1. Init => RegisterInv
  BY DEF Init, RegisterInv
<1>2. TypeOK /\ OwnerHolds /\ LabelInv /\ RegisterInv => RegisteredHolds
  BY DEF TypeOK, OwnerHolds, LabelInv, RegisterInv, RegisteredHolds, Labelled,
         Holds, Inside, Procs
<1> QED
  BY <1>1, <1>2, RegisterStep, TypeCorrect, OwnerHoldsAlways, LabelAlways, PTL DEF Spec

----------------------------------------------------------------------------
(* The count of the waiting *)

Waiters == {p \in Procs : pc[p] \in Waiting}

\* Counting in an operation that was not, and counting out one that was.
LEMMA CountsStep ==
    ASSUME IsFiniteSet(Procs), TypeOK, WantedCountsWaiters, NEW p \in Procs,
           NEW from, NEW to, from \notin Waiting, to \in Waiting, Counts(p, from, to)
    PROVE  WantedCountsWaiters'
<1>1. Waiters' = Waiters \cup {p} /\ p \notin Waiters
  BY DEF TypeOK, Waiters, Counts, Go
<1>2. IsFiniteSet(Waiters)
  BY FS_Subset DEF Waiters
<1>3. Cardinality(Waiters') = Cardinality(Waiters) + 1
  BY <1>1, <1>2, FS_AddElement
<1> QED
  BY <1>3 DEF WantedCountsWaiters, Waiters, Counts

LEMMA UncountsStep ==
    ASSUME IsFiniteSet(Procs), TypeOK, WantedCountsWaiters, NEW p \in Procs,
           NEW from, NEW to, from \in Waiting, to \notin Waiting, Uncounts(p, from, to)
    PROVE  WantedCountsWaiters'
<1>1. Waiters' = Waiters \ {p} /\ p \in Waiters
  BY DEF TypeOK, Waiters, Uncounts, Go
<1>2. IsFiniteSet(Waiters)
  BY FS_Subset DEF Waiters
<1>3. Cardinality(Waiters') = Cardinality(Waiters) - 1
  BY <1>1, <1>2, FS_RemoveElement
<1> QED
  BY <1>3 DEF WantedCountsWaiters, Waiters, Uncounts

\* Any other step leaves the count and who is counted alone.
LEMMA SameWaiters ==
    ASSUME TypeOK, WantedCountsWaiters, NEW p \in Procs, NEW from, NEW to,
           Go(p, from, to), from \in Waiting <=> to \in Waiting, wanted' = wanted
    PROVE  WantedCountsWaiters'
<1>1. Waiters' = Waiters
  BY DEF TypeOK, Waiters, Go
<1> QED
  BY <1>1 DEF WantedCountsWaiters, Waiters

LEMMA CountStep ==
    ASSUME IsFiniteSet(Procs)
    PROVE  TypeOK /\ WantedCountsWaiters /\ [Next]_vars => WantedCountsWaiters'
<1> SUFFICES ASSUME TypeOK, WantedCountsWaiters, [Next]_vars PROVE WantedCountsWaiters'
  OBVIOUS
<1>0. Askers \subseteq Procs /\ Runs \subseteq Procs /\ Removals \subseteq Procs
      /\ FollowUps \subseteq Procs /\ Windows \subseteq Procs
  BY DEF Askers, Procs
<1>1. ASSUME NEW r \in Runs, Run(r) PROVE WantedCountsWaiters'
  <2>0. r \in Procs
    BY <1>0
  <2>1. CASE RunTries(r)
    BY <2>0, <2>1, SameWaiters DEF RunTries, TryLock, Waiting
  <2>2. CASE RunWants(r)
    BY <2>0, <2>2, CountsStep DEF RunWants, Waiting
  <2>3. CASE RunStopsFollowUp(r)
    BY <2>0, <2>3, SameWaiters DEF RunStopsFollowUp, Waiting
  <2>4. CASE RunLocks(r)
    BY <2>0, <2>4, SameWaiters DEF RunLocks, Waiting
  <2>5. CASE RunUncounts(r)
    BY <2>0, <2>5, UncountsStep DEF RunUncounts, Waiting
  <2> QED
    BY <1>1, <2>1, <2>2, <2>3, <2>4, <2>5 DEF Run
<1>2. ASSUME NEW a \in Askers, Ask(a) PROVE WantedCountsWaiters'
  <2>0. a \in Procs
    BY <1>0
  <2>1. CASE AskTries(a)
    BY <2>0, <2>1, SameWaiters DEF AskTries, TryLock, Waiting
  <2>2. CASE AskWants(a)
    BY <2>0, <2>2, CountsStep DEF AskWants, Waiting
  <2>3. CASE AskStopsFollowUp(a)
    BY <2>0, <2>3, SameWaiters DEF AskStopsFollowUp, Waiting
  <2>4. CASE AskPolls(a)
    BY <2>0, <2>4, SameWaiters DEF AskPolls, Waiting
  <2>5. CASE AskTimesOut(a)
    BY <2>0, <2>5, SameWaiters DEF AskTimesOut, Waiting
  <2>6. CASE AskLeaves(a)
    BY <2>0, <2>6, UncountsStep DEF AskLeaves, Waiting
  <2> QED
    BY <1>2, <2>1, <2>2, <2>3, <2>4, <2>5, <2>6 DEF Ask
<1>3. ASSUME NEW d \in Removals, Removal(d) PROVE WantedCountsWaiters'
  <2>0. d \in Procs
    BY <1>0
  <2>1. CASE RemovalWants(d)
    BY <2>0, <2>1, CountsStep DEF RemovalWants, Waiting
  <2>2. CASE RemovalPolls(d)
    BY <2>0, <2>2, SameWaiters DEF RemovalPolls, TryLock, Waiting
  <2>3. CASE RemovalLooks(d)
    BY <2>0, <2>3, SameWaiters DEF RemovalLooks, Waiting
  <2>4. CASE RemovalRefused(d)
    BY <2>0, <2>4, UncountsStep DEF RemovalRefused, Waiting
  <2> QED
    BY <1>3, <2>1, <2>2, <2>3, <2>4 DEF Removal
<1>4. ASSUME NEW f \in FollowUps, FollowUp(f) PROVE WantedCountsWaiters'
  <2>0. f \in Procs
    BY <1>0
  <2>1. CASE FollowUpChecks(f)
    BY <2>0, <2>1, SameWaiters DEF FollowUpChecks, Waiting
  <2>2. CASE FollowUpTries(f)
    BY <2>0, <2>2, SameWaiters DEF FollowUpTries, TryLock, Waiting
  <2>3. CASE FollowUpRegisters(f)
    BY <2>0, <2>3, SameWaiters DEF FollowUpRegisters, Waiting
  <2>4. CASE FollowUpUnregisters(f)
    BY <2>0, <2>4, SameWaiters DEF FollowUpUnregisters, Waiting
  <2> QED
    BY <1>4, <2>1, <2>2, <2>3, <2>4 DEF FollowUp
<1>5. ASSUME NEW w \in Windows, Window(w) PROVE WantedCountsWaiters'
  <2>0. w \in Procs
    BY <1>0
  <2>1. CASE WindowQueues(w)
    BY <2>0, <2>1, SameWaiters DEF WindowQueues, Waiting
  <2>2. CASE WindowLocks(w)
    BY <2>0, <2>2, SameWaiters DEF WindowLocks, Waiting
  <2>3. CASE WindowEnters(w)
    BY <2>0, <2>3, SameWaiters DEF WindowEnters, Label, Waiting
  <2>4. CASE WindowTimesOut(w)
    BY <2>0, <2>4, SameWaiters DEF WindowTimesOut, Waiting
  <2>5. CASE GhostLocks(w)
    BY <2>0, <2>5, SameWaiters DEF GhostLocks, Waiting
  <2> QED
    BY <1>5, <2>1, <2>2, <2>3, <2>4, <2>5 DEF Window
<1>6. ASSUME NEW p \in Procs, Hold(p) PROVE WantedCountsWaiters'
  <2>1. CASE Labels(p)
    BY <2>1, SameWaiters DEF Labels, Label, Waiting
  <2>2. CASE Finishes(p)
    BY <2>2, SameWaiters DEF Finishes, Waiting
  <2>3. CASE ClearsLabel(p)
    BY <2>3, SameWaiters DEF ClearsLabel, Waiting
  <2>4. CASE Unlocks(p)
    BY <2>4, SameWaiters DEF Unlocks, Waiting
  <2> QED
    BY <1>6, <2>1, <2>2, <2>3, <2>4 DEF Hold
<1>7. CASE UNCHANGED vars
  BY <1>7 DEF vars, WantedCountsWaiters
<1> QED
  BY <1>1, <1>2, <1>3, <1>4, <1>5, <1>6, <1>7 DEF Next

\* With finitely many operations, domainWanted is the number of those waiting:
\* every wantDomain is undone on every way out (its deferred function).
THEOREM WantedCountsWaitersAlways ==
    ASSUME IsFiniteSet(Procs) PROVE Spec => []WantedCountsWaiters
<1>1. Init => WantedCountsWaiters
  <2> SUFFICES ASSUME Init PROVE WantedCountsWaiters
    OBVIOUS
  <2>1. {p \in Procs : pc[p] \in Waiting} = {}
    BY DEF Init, Waiting
  <2> QED
    BY <2>1, FS_EmptySet DEF Init, WantedCountsWaiters
<1>2. TypeOK /\ WantedCountsWaiters /\ [Next]_vars => WantedCountsWaiters'
  BY CountStep
<1> QED
  BY <1>1, <1>2, TypeCorrect, PTL DEF Spec

----------------------------------------------------------------------------
(* A polling ask *)

\* PolledIsTold, made inductive: told stays true while somebody polls, since
\* only a new attempt resets it and none begins while somebody waits.
PolledInv == \A a \in Askers, f \in FollowUps : pc[a] = "poll" => f \in told

\* Whoever polls is counted, so the section is wanted.
LEMMA PolledIsWanted ==
    ASSUME IsFiniteSet(Procs), TypeOK, WantedCountsWaiters,
           NEW a \in Askers, pc[a] = "poll"
    PROVE  wanted # 0
<1>1. a \in {p \in Procs : pc[p] \in Waiting}
  BY DEF Askers, Procs, Waiting
<1>2. IsFiniteSet({p \in Procs : pc[p] \in Waiting})
  BY FS_Subset
<1> QED
  BY <1>1, <1>2, FS_EmptySet DEF WantedCountsWaiters

LEMMA PolledStep ==
    ASSUME IsFiniteSet(Procs), \A f, g \in FollowUps : f = g
    PROVE  TypeOK /\ WantedCountsWaiters /\ PolledInv /\ [Next]_vars => PolledInv'
<1> SUFFICES ASSUME TypeOK, WantedCountsWaiters, PolledInv, [Next]_vars PROVE PolledInv'
  OBVIOUS
<1>0. Askers \subseteq Procs /\ FollowUps \subseteq Procs
  BY DEF Askers, Procs
<1>w. \A a \in Askers : pc[a] = "poll" => wanted # 0
  BY PolledIsWanted
<1> USE <1>0, ProcsAssumption DEF TypeOK, PolledInv, Go, TakesMutex
<1>1. ASSUME NEW r \in Runs, Run(r) PROVE PolledInv'
  <2>1. r \in Procs
    BY DEF Askers, Procs
  <2> QED
    BY <1>1, <2>1, <1>w DEF Run, RunTries, RunWants, RunStopsFollowUp, RunLocks, RunUncounts,
              TryLock, Counts, Uncounts, StopsFollowUp
<1>2. ASSUME NEW a \in Askers, Ask(a) PROVE PolledInv'
  <2>1. a \in Procs
    BY DEF Askers, Procs
  <2> QED
    BY <1>2, <2>1, <1>w DEF Ask, AskTries, AskWants, AskStopsFollowUp, AskPolls, AskTimesOut,
              AskLeaves, TryLock, Counts, Uncounts, StopsFollowUp
<1>3. ASSUME NEW d \in Removals, Removal(d) PROVE PolledInv'
  <2>1. d \in Procs
    BY DEF Askers, Procs
  <2> QED
    BY <1>3, <2>1, <1>w DEF Removal, RemovalWants, RemovalPolls, RemovalLooks, RemovalRefused,
              TryLock, Counts, Uncounts
<1>4. ASSUME NEW f \in FollowUps, FollowUp(f) PROVE PolledInv'
  <2>1. f \in Procs
    BY DEF Askers, Procs
  <2> QED
    BY <1>4, <2>1, <1>w DEF FollowUp, FollowUpChecks, FollowUpTries, FollowUpRegisters,
              FollowUpUnregisters, TryLock
<1>5. ASSUME NEW w \in Windows, Window(w) PROVE PolledInv'
  <2>1. w \in Procs
    BY DEF Askers, Procs
  <2> QED
    BY <1>5, <2>1, <1>w DEF Window, WindowQueues, WindowLocks, WindowEnters, WindowTimesOut,
              GhostLocks, Label
<1>6. ASSUME NEW p \in Procs, Hold(p) PROVE PolledInv'
  BY <1>6, <1>w DEF Hold, Labels, Label, Finishes, ClearsLabel, Unlocks
<1>7. CASE UNCHANGED vars
  BY <1>7 DEF vars
<1> QED
  BY <1>1, <1>2, <1>3, <1>4, <1>5, <1>6, <1>7 DEF Next

\* With the one worker that runs the probes, an ask that polls for a follow-up
\* waits for one it stopped, and no other comes up behind it
\* (tryLockDomainFor, tryLockFollowUp).
THEOREM PolledIsToldAlways ==
    ASSUME IsFiniteSet(Procs), \A f, g \in FollowUps : f = g
    PROVE  Spec => []PolledIsTold
<1>1. Init => PolledInv
  BY DEF Init, PolledInv, Askers, Procs
<1>2. TypeOK /\ WantedCountsWaiters /\ PolledInv /\ [Next]_vars => PolledInv'
  BY PolledStep
<1>3. TypeOK /\ PolledInv => PolledIsTold
  BY DEF TypeOK, PolledInv, PolledIsTold
<1>4. Spec => []WantedCountsWaiters
  BY WantedCountsWaitersAlways
<1> QED
  BY <1>1, <1>2, <1>3, <1>4, TypeCorrect, PTL DEF Spec
=============================================================================
