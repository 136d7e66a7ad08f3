----------------------- MODULE ZFSReplication_proofs -----------------------
(***************************************************************************)
(* The newest snapshot a target has of a member is a point the source      *)
(* still has, for any tree, any faults, crashes and users, and as long as  *)
(* the replica is cleaned away at most once.                               *)
(*                                                                         *)
(* Snapshots leave the source in six places.  What keeps the base is not   *)
(* the same in each: a run that has not streamed yet drops a snapshot no   *)
(* copy has, one that arrived is bookmarked before anything older goes,    *)
(* a user is stopped by a hold that only arrived snapshots carry, and the  *)
(* cleaning goes by bookmarks, which are of arrived snapshots too until it *)
(* writes some itself.                                                     *)
(*                                                                         *)
(* No run destroys what a partial receive leads to either, and that holds  *)
(* however often the replica is cleaned away.                              *)
(*                                                                         *)
(* The last part is about a run nothing disturbs: it brings every member   *)
(* up to its snapshot, since its streams always have a base (Undisturbed), *)
(* and it leaves few of its own behind, since what it has read of a member *)
(* still covers what is there when it clears (Followed).                   *)
(***************************************************************************)
EXTENDS ZFSReplication, TLAPS, FiniteSetTheorems, WellFoundedInduction

\* A run past the listing of the tree has a member that is sent, and does not
\* come back to it.
AtWork ==
    /\ pc # "idle" => snap \in Snaps
    /\ pc \notin {"idle", "next"} => member \in Sent \ left

\* No number is used before its run.
Known == \A m \in Members :
    /\ snaps[m] \cup marks[m] \cup held[m] \cup copy[m] \subseteq 1 .. snap
    /\ partial[m] # None => partial[m].to \in 1 .. snap

\* The run has brought the target nothing of a member yet.
Untouched(m) == snap \notin copy[m] /\ (partial[m] # None => partial[m].to # snap)

\* How far the run is with the member it is doing.
Progressed ==
    /\ pc # "idle" => \A m \in left : Untouched(m)
    /\ pc \in {"look", "resume"} => Untouched(member)
    /\ pc = "resume" => partial[member] # None
    /\ pc \in {"view", "send"} => snap \notin copy[member]
    /\ pc = "drop" /\ ~streamed => snap \notin copy[member]
    /\ pc \in {"resume", "view", "send", "landed", "mark"} => snap \in snaps[member]
    /\ pc \in {"landed", "mark", "hold"} => streamed
    /\ pc \in {"landed", "mark", "hold", "clear", "prune", "unmark"} => snap \in copy[member]
    /\ pc \in {"hold", "clear", "prune", "unmark"} => snap \in marks[member]

\* The copy of a member has s or something newer.
Reaches(m, s) == \E c \in copy[m] : s <= c

\* Holds are put on arrived snapshots, and so are bookmarks until a cleaning
\* writes some for snapshots that may not have arrived.
Arrived ==
    \A m \in Sent :
        /\ \A s \in held[m] : Reaches(m, s)
        /\ cleans = 0 => \A s \in marks[m] : Reaches(m, s)

\* The newest of the copy is on the source.
Based(m) == copy[m] # {} =>
    \E b \in copy[m] \cap (snaps[m] \cup marks[m]) : \A c \in copy[m] : c <= b

TypeInv == TypeOK /\ AtWork
IInv == Known /\ Progressed /\ Arrived /\ \A m \in Sent : Based(m)

----------------------------------------------------------------------------
(* Types *)

LEMMA BoundsAreNumbers ==
  /\ MaxRuns \in Nat /\ MaxCrashes \in Nat /\ MaxCleans \in Nat /\ MaxUserActs \in Nat
  /\ KeepOnSource \in Nat
  BY ItemAssumption

LEMMA NoPointsType ==
  NoPoints \in Points
  BY DEF NoPoints, Points

LEMMA NewestAmong ==
  ASSUME NEW S
  PROVE  Newest(S) \subseteq S
  BY DEF Newest

\* A stream starts from points of the source.
LEMMA BaseIsSnaps ==
  ASSUME TypeOK
  PROVE  Base \subseteq Snaps
<1>1. Base \subseteq Shared(src, copy[member])
  BY NewestAmong DEF Base
<1> QED
  BY <1>1 DEF Shared, TypeOK, Points

\* A removal, done or failed, leaves sets of snapshots.
LEMMA DestroysType ==
  ASSUME TypeOK, NEW m, NEW gone, Destroys(m, gone)
  PROVE  /\ snaps' \in [Members -> SUBSET Snaps]
         /\ smooth' \in BOOLEAN
  BY DEF TypeOK, Destroys

\* A broken stream leaves the target nothing but the run's snapshot, or a part
\* of it.
LEMMA InterruptedType ==
  ASSUME TypeOK, snap \in Snaps, Interrupted
  PROVE  /\ copy' \in [Members -> SUBSET Snaps]
         /\ partial' \in [Members -> Partials \cup {None}]
<1>1. [to |-> snap, from |-> Base] \in Partials
  BY BaseIsSnaps DEF Partials
<1>2. CASE UNCHANGED target
  BY <1>2 DEF TypeOK, target
<1>3. CASE /\ partial' = [partial EXCEPT ![member] = [to |-> snap, from |-> Base]]
           /\ copy' = copy
  BY <1>1, <1>3 DEF TypeOK
<1>4. CASE /\ copy' = [copy EXCEPT ![member] = @ \cup {snap}]
           /\ partial' = partial
  BY <1>4 DEF TypeOK
<1> QED
  BY <1>2, <1>3, <1>4 DEF Interrupted

\* So does the rest of a stream that is resumed.
LEMMA CompletedType ==
  ASSUME TypeOK, pc = "resume", TokenHolds(member), Completed(member)
  PROVE  copy' \in [Members -> SUBSET Snaps] /\ partial' \in [Members -> Partials \cup {None}]
<1>1. snaps \in [Members -> SUBSET Snaps] /\ copy \in [Members -> SUBSET Snaps]
      /\ partial \in [Members -> Partials \cup {None}]
  BY DEF TypeOK
<1>2. copy' = [copy EXCEPT ![member] = @ \cup {partial[member].to}]
      /\ partial' = [partial EXCEPT ![member] = None]
  BY DEF Completed
<1>3. ASSUME member \in Members PROVE partial[member].to \in Snaps
  BY <1>1, <1>3 DEF TokenHolds
<1> QED
  BY <1>1, <1>2, <1>3

\* No step leaves the types: not the runs, the cleaning, a user or a crash.
LEMMA TypePreserved ==
  ASSUME TypeInv, [Next]_vars
  PROVE  TypeInv'
<1> USE ItemAssumption, BoundsAreNumbers, NoPointsType DEF TypeInv, TypeOK, AtWork, Steps, Snaps, Sent
<1>1. CASE Start
  <2>1. snap' \in 1 .. MaxRuns
    BY <1>1 DEF Start
  <2>2. snaps' = [m \in Members |-> snaps[m] \cup {snap'}]
    BY <1>1 DEF Start
  <2>3. snaps' \in [Members -> SUBSET Snaps]
    BY <2>1, <2>2
  <2>4. own' \in SUBSET Snaps /\ smooth' \in BOOLEAN
    BY <1>1, <2>1, <2>3 DEF Start
  <2>5. snap' \in 0 .. MaxRuns
    BY <2>1
  <2>7. /\ left' \in SUBSET Members /\ cancelled' \in BOOLEAN
        /\ pc' \in Steps /\ pc' = "next"
    BY <1>1 DEF Start
  <2>6. UNCHANGED <<marks, held, target, member, src, tgt, pruned, streamed, bounds>>
    BY <1>1 DEF Start
  <2> QED
    BY <2>1, <2>3, <2>4, <2>5, <2>6, <2>7 DEF target, bounds
<1>2. CASE Cancel
  BY <1>2 DEF Cancel, source, target, scratch, bounds
<1>3. CASE End
  BY <1>3 DEF End, source, target, scratch, bounds
<1>4. ASSUME NEW m \in Members, SweepExcluded(m) PROVE TypeInv'
  <2>1. Destroys(m, (snaps[m] \cap own) \ held[m])
    BY <1>4 DEF SweepExcluded
  <2> QED
    BY <1>4, <2>1, DestroysType DEF SweepExcluded, target, scratch, bounds
<1>5. ASSUME NEW m \in Members, NotReached(m) PROVE TypeInv'
  <2>1. Destroys(m, {snap})
    BY <1>5 DEF NotReached
  <2> QED
    BY <1>5, <2>1, DestroysType DEF NotReached, target, scratch, bounds
<1>6. ASSUME NEW m \in Members, Begin(m) PROVE TypeInv'
  BY <1>6 DEF Begin, IsNext, source, target, scratch, bounds
<1>7. CASE Look
  <2>1. src' \in Points
    BY <1>7 DEF Look, Points
  <2> QED
    BY <1>7, <2>1 DEF Look, source, target, bounds
<1>8. CASE LookFails
  BY <1>8 DEF LookFails, Fails, Breaks, source, target, scratch, bounds
<1>9. CASE Resume
  <2>1. copy' \in [Members -> SUBSET Snaps] /\ partial' \in [Members -> Partials \cup {None}]
    BY <1>9, CompletedType DEF Resume
  <2> QED
    BY <1>9, <2>1 DEF Resume, source, scratch, bounds
<1>10. CASE ResumeBreaks
  <2>1. copy' \in [Members -> SUBSET Snaps] /\ partial' \in [Members -> Partials \cup {None}]
    BY <1>10, CompletedType DEF ResumeBreaks, target
  <2> QED
    BY <1>10, <2>1 DEF ResumeBreaks, Fails, source, scratch, bounds
<1>11. CASE AbortReceive
  BY <1>11 DEF AbortReceive, Works, source, target, scratch, bounds
<1>12. CASE View
  <2>1. marks' \in [Members -> SUBSET Snaps]
    BY <1>12 DEF View
  <2> QED
    BY <1>12, <2>1 DEF View, target, scratch, bounds
<1>13. CASE ViewFails
  BY <1>13 DEF ViewFails, Fails, Breaks, source, target, scratch, bounds
<1>14. CASE Stream
  BY <1>14 DEF Stream, Works, source, target, scratch, bounds
<1>15. CASE Refuse
  <2>1. streamed' \in BOOLEAN
    BY <1>15 DEF Refuse, HasBase
  <2> QED
    BY <1>15, <2>1 DEF Refuse, source, target, bounds
<1>16. CASE StreamBreaks
  <2>1. /\ copy' \in [Members -> SUBSET Snaps]
        /\ partial' \in [Members -> Partials \cup {None}]
    BY <1>16, InterruptedType DEF StreamBreaks
  <2> QED
    BY <1>16, <2>1 DEF StreamBreaks, Fails, source, bounds
<1>17. CASE Landed
  BY <1>17 DEF Landed, Works, source, target, scratch, bounds
<1>18. CASE Bookmark
  BY <1>18 DEF Bookmark, Works, source, target, scratch, bounds
<1>19. CASE Hold
  BY <1>19 DEF Hold, Works, source, target, scratch, bounds
<1>20. CASE AnchorFails
  BY <1>20 DEF AnchorFails, Fails, source, target, scratch, bounds
<1>21. CASE KeepOrDrop
  <2>1. /\ snaps' \in [Members -> SUBSET Snaps]
        /\ smooth' \in BOOLEAN
    <3>1. CASE Destroys(member, {snap} \cap snaps[member])
      BY <3>1, DestroysType
    <3>2. CASE snaps' = snaps /\ smooth' = FALSE
      BY <3>2
    <3>3. CASE UNCHANGED <<snaps, smooth>>
      BY <3>3
    <3> QED
      BY <1>21, <3>1, <3>2, <3>3 DEF KeepOrDrop
  <2> QED
    BY <1>21, <2>1 DEF KeepOrDrop, target, bounds
<1>22. CASE Clear
  <2>1. \E gone : Destroys(member, gone)
    BY <1>22 DEF Clear
  <2>2. held' \in [Members -> SUBSET Snaps]
    BY <1>22 DEF Clear
  <2> QED
    BY <1>22, <2>1, <2>2, DestroysType DEF Clear, target, scratch, bounds
<1>23. CASE Prune
  BY <1>23 DEF Prune, source, target, scratch, bounds
<1>24. CASE PruneBookmarks
  <2>1. marks' \in [Members -> SUBSET Snaps] /\ smooth' \in BOOLEAN
    <3>1. [marks EXCEPT ![member] = @ \ Unpaired(tgt \ pruned)] \in [Members -> SUBSET Snaps]
      OBVIOUS
    <3> QED
      BY <1>24, <3>1 DEF PruneBookmarks
  <2> QED
    BY <1>24, <2>1 DEF PruneBookmarks, target, bounds
<1>25. CASE Clean
  <2>1. \A m \in Members : KeptMark(m) \cup NewMarks(m) \subseteq Snaps
    BY NewestAmong DEF KeptMark, NewMarks
  <2>2. /\ snaps' \in [Members -> SUBSET Snaps]
        /\ marks' \in [Members -> SUBSET Snaps]
        /\ held' \in [Members -> SUBSET Snaps]
    BY <1>25, <2>1 DEF Clean
  <2>5. cleans < MaxCleans /\ cleans' = cleans + 1 /\ smooth' = FALSE
    BY <1>25 DEF Clean
  <2>6. cleans' \in 0 .. MaxCleans
    <3>1. cleans \in Nat
      OBVIOUS
    <3> QED
      BY <2>5, <3>1, BoundsAreNumbers
  <2>3. cleans' \in 0 .. MaxCleans /\ smooth' \in BOOLEAN
    BY <2>5, <2>6
  <2>4. UNCHANGED <<target, snap, pc, left, member, scratch, cancelled, faults,
                    crashes, acts>>
    BY <1>25 DEF Clean
  <2> QED
    BY <2>2, <2>3, <2>4 DEF target, scratch
<1>26. ASSUME NEW m \in Members, UserDestroys(m) PROVE TypeInv'
  BY <1>26 DEF UserDestroys, source, target, scratch, bounds
<1>27. CASE Crash
  <2>1. /\ copy' \in [Members -> SUBSET Snaps]
        /\ partial' \in [Members -> Partials \cup {None}]
    BY <1>27, InterruptedType, CompletedType DEF Crash, target
  <2>2. /\ crashes' \in 0 .. MaxCrashes /\ pc' = "idle" /\ pc' \in Steps
        /\ left' \in SUBSET Members /\ member' \in Members \cup {None}
    BY <1>27 DEF Crash
  <2>3. /\ own' \in SUBSET Snaps /\ src' \in Points /\ tgt' \in SUBSET Snaps
        /\ pruned' \in SUBSET Snaps /\ streamed' \in BOOLEAN /\ cancelled' \in BOOLEAN
        /\ smooth' \in BOOLEAN
    BY <1>27 DEF Crash, Forgets
  <2>4. UNCHANGED <<source, snap, faults, cleans, acts>>
    BY <1>27 DEF Crash
  <2> QED
    BY <2>1, <2>2, <2>3, <2>4 DEF source
<1>28. CASE UNCHANGED vars
  BY <1>28 DEF vars, source, target, scratch, bounds
<1> QED
  BY <1>1, <1>2, <1>3, <1>4, <1>5, <1>6, <1>7, <1>8, <1>9, <1>10, <1>11, <1>12, <1>13,
     <1>14, <1>15, <1>16, <1>17, <1>18, <1>19, <1>20, <1>21, <1>22, <1>23, <1>24, <1>25,
     <1>26, <1>27, <1>28
  DEF Next, Progress

LEMMA InitTyped ==
  ASSUME Init
  PROVE  TypeInv
<1> USE DEF Init
<1>1. /\ snaps \in [Members -> SUBSET Snaps] /\ marks \in [Members -> SUBSET Snaps]
      /\ held \in [Members -> SUBSET Snaps] /\ copy \in [Members -> SUBSET Snaps]
      /\ partial \in [Members -> Partials \cup {None}]
  OBVIOUS
<1>2. /\ snap \in 0 .. MaxRuns /\ crashes \in 0 .. MaxCrashes
      /\ cleans \in 0 .. MaxCleans /\ acts \in 0 .. MaxUserActs
  BY BoundsAreNumbers
<1>3. /\ pc \in Steps /\ left \in SUBSET Members /\ member \in Members \cup {None}
      /\ own \in SUBSET Snaps /\ src \in Points
      /\ tgt \in SUBSET Snaps /\ pruned \in SUBSET Snaps
  BY NoPointsType DEF Steps
<1>4. /\ streamed \in BOOLEAN /\ cancelled \in BOOLEAN /\ faults \in FaultSets
      /\ smooth \in BOOLEAN
  OBVIOUS
<1> QED
  BY <1>1, <1>2, <1>3, <1>4 DEF TypeInv, TypeOK, AtWork

\* The variables of a replication keep their types, whatever breaks.
THEOREM TypeCorrect == Spec => []TypeOK
<1>1. Init => TypeInv
  BY InitTyped
<1>2. TypeInv /\ [Next]_vars => TypeInv'
  BY TypePreserved
<1>3. TypeInv => TypeOK
  BY DEF TypeInv
<1> QED
  BY <1>1, <1>2, <1>3, PTL DEF Spec

----------------------------------------------------------------------------
(* What the runs know of source and target *)

\* A step that leaves the points of both sides alone.
Quiet == UNCHANGED <<source, target, snap, cleans>>

\* The target has the rest of a resumed stream.
Arrives == pc = "resume" /\ TokenHolds(member) /\ Completed(member) /\ UNCHANGED <<source, snap, cleans>>

\* The steps that touch source or target, and the others.
LEMMA StepCases ==
  ASSUME [Next]_vars
  PROVE  \/ Quiet \/ Start \/ Arrives \/ AbortReceive \/ View \/ Stream \/ StreamBreaks
         \/ Bookmark \/ Hold \/ KeepOrDrop \/ Clear \/ Prune \/ PruneBookmarks \/ Clean \/ Crash
         \/ \E m \in Members : SweepExcluded(m) \/ NotReached(m) \/ UserDestroys(m)
<1> USE DEF Quiet, source, target, bounds
<1>1. Cancel \/ End \/ Look \/ LookFails \/ ViewFails => Quiet
  BY DEF Cancel, End, Look, LookFails, ViewFails
<1>2. Refuse \/ Landed \/ AnchorFails \/ (UNCHANGED vars) => Quiet
  BY DEF Refuse, Landed, AnchorFails, vars
<1>3. ASSUME NEW m \in Members, Begin(m) PROVE Quiet
  BY <1>3 DEF Begin
<1>4. Resume \/ ResumeBreaks => Quiet \/ Arrives
  BY DEF Resume, ResumeBreaks, Arrives
<1> QED
  BY <1>1, <1>2, <1>3, <1>4 DEF Next, Progress

LEMMA Tables ==
  ASSUME TypeInv
  PROVE  /\ snaps \in [Members -> SUBSET Nat] /\ marks \in [Members -> SUBSET Nat]
         /\ held \in [Members -> SUBSET Nat] /\ copy \in [Members -> SUBSET Nat]
         /\ partial \in [Members -> Partials \cup {None}]
         /\ snap \in Nat /\ cleans \in Nat
         /\ left \subseteq Members
         /\ pc # "idle" => snap \in Nat \ {0}
         /\ pc \notin {"idle", "next"} => member \in Members /\ member \in Sent /\ member \notin left
<1>1. Snaps \subseteq Nat
  BY BoundsAreNumbers DEF Snaps
<1>2. snap \in Nat /\ cleans \in Nat
  BY BoundsAreNumbers DEF TypeInv, TypeOK
<1>3. /\ snaps \in [Members -> SUBSET Nat] /\ marks \in [Members -> SUBSET Nat]
      /\ held \in [Members -> SUBSET Nat] /\ copy \in [Members -> SUBSET Nat]
      /\ partial \in [Members -> Partials \cup {None}]
      /\ left \subseteq Members
  BY <1>1 DEF TypeInv, TypeOK
<1>4. pc # "idle" => snap \in Nat \ {0}
  BY BoundsAreNumbers DEF TypeInv, AtWork, Snaps
<1>5. pc \notin {"idle", "next"} => member \in Members /\ member \in Sent /\ member \notin left
  BY DEF TypeInv, AtWork, Sent
<1> QED
  BY <1>2, <1>3, <1>4, <1>5

\* A removal takes what it names off the one member, or nothing.
LEMMA DestroysOnly ==
  ASSUME TypeInv, NEW m \in Members, NEW gone, Destroys(m, gone)
  PROVE  \A n \in Members : /\ snaps'[n] \subseteq snaps[n]
                            /\ n # m => snaps'[n] = snaps[n]
                            /\ snaps[n] \ gone \subseteq snaps'[n]
  BY Tables DEF Destroys

\* What a broken stream, or a crash, may leave on the target.
LEMMA InterruptedAdds ==
  ASSUME TypeInv, pc = "send", Interrupted
  PROVE  /\ \A n \in Members : n # member => copy'[n] = copy[n] /\ partial'[n] = partial[n]
         /\ \/ copy' = copy
            \/ copy'[member] = copy[member] \cup {snap}
         /\ \/ partial' = partial
            \/ partial'[member].to = snap
<1>1. CASE UNCHANGED target
  BY <1>1 DEF target
<1>2. CASE /\ partial' = [partial EXCEPT ![member] = [to |-> snap, from |-> Base]]
           /\ copy' = copy
  BY <1>2, Tables
<1>3. CASE /\ copy' = [copy EXCEPT ![member] = @ \cup {snap}]
           /\ partial' = partial
  BY <1>3, Tables
<1> QED
  BY <1>1, <1>2, <1>3 DEF Interrupted

LEMMA CrashAdds ==
  ASSUME TypeInv, Crash
  PROVE  \/ UNCHANGED target
         \/ pc = "send" /\ Interrupted
         \/ Arrives
  BY DEF Crash, Arrives, source, bounds

\* A number comes into use with its run: what a step adds is the run's own
\* snapshot, or known already.
LEMMA KnownPreserved ==
  ASSUME TypeInv, Known, [Next]_vars
  PROVE  Known'
<1> USE Tables
<1>1. CASE Quiet
  BY <1>1 DEF Quiet, Known, source, target
<1>2. CASE Start
  <2>1. snap' = snap + 1 /\ snaps' = [m \in Members |-> snaps[m] \cup {snap'}]
    BY <1>2 DEF Start
  <2>2. UNCHANGED <<marks, held, copy, partial>>
    BY <1>2 DEF Start, target
  <2>3. 1 .. snap \subseteq 1 .. snap' /\ snap' \in 1 .. snap'
    BY <2>1
  <2> QED
    BY <2>1, <2>2, <2>3 DEF Known
<1>3. CASE Arrives
  <2>1. copy' = [copy EXCEPT ![member] = @ \cup {partial[member].to}]
    BY <1>3 DEF Arrives, Completed
  <2>2. partial' = [partial EXCEPT ![member] = None] /\ UNCHANGED <<snaps, marks, held, snap>>
    BY <1>3 DEF Arrives, Completed, source
  <2>3. partial[member].to \in 1 .. snap
    BY <1>3 DEF Arrives, TokenHolds, Known
  <2> QED
    BY <2>1, <2>2, <2>3 DEF Known
<1>4. CASE AbortReceive
  BY <1>4 DEF AbortReceive, Known, source
<1>5. CASE View
  <2>1. \A m \in Members : marks'[m] \subseteq marks[m] \cup copy[m]
    BY <1>5, NewestAmong DEF View
  <2>2. UNCHANGED <<snaps, held, copy, partial, snap>>
    BY <1>5 DEF View, target
  <2> QED
    BY <2>1, <2>2 DEF Known
<1>6. CASE Stream
  BY <1>6 DEF Stream, Known, source
<1>7. CASE StreamBreaks
  <2>1. Interrupted /\ pc = "send" /\ UNCHANGED <<snaps, marks, held, snap>>
    BY <1>7 DEF StreamBreaks, source
  <2> QED
    BY <2>1, InterruptedAdds DEF Known
<1>8. CASE Bookmark
  BY <1>8 DEF Bookmark, Known, target
<1>9. CASE Hold
  BY <1>9 DEF Hold, Known, target
<1>10. CASE KeepOrDrop
  <2>1. \A m \in Members : snaps'[m] \subseteq snaps[m]
    BY <1>10, DestroysOnly DEF KeepOrDrop
  <2> QED
    BY <1>10, <2>1 DEF KeepOrDrop, Known, target
<1>11. CASE Clear
  <2>1. \E gone : Destroys(member, gone)
    BY <1>11 DEF Clear
  <2>2. \A m \in Members : snaps'[m] \subseteq snaps[m]
    BY <1>11, <2>1, DestroysOnly DEF Clear
  <2>3. \A m \in Members : held'[m] \subseteq held[m]
    BY <1>11 DEF Clear
  <2>4. UNCHANGED <<marks, copy, partial, snap>>
    BY <1>11 DEF Clear, target
  <2> QED
    BY <2>2, <2>3, <2>4 DEF Known
<1>12. CASE Prune
  <2>1. \A m \in Members : copy'[m] \subseteq copy[m]
    BY <1>12 DEF Prune
  <2> QED
    BY <1>12, <2>1 DEF Prune, Known, source
<1>13. CASE PruneBookmarks
  <2>1. \A m \in Members : marks'[m] \subseteq marks[m]
    BY <1>13 DEF PruneBookmarks
  <2> QED
    BY <1>13, <2>1 DEF PruneBookmarks, Known, target
<1>14. CASE Clean
  <2>1. \A m \in Members : KeptMark(m) \subseteq marks[m] /\ NewMarks(m) \subseteq snaps[m]
    BY NewestAmong DEF KeptMark, NewMarks
  <2>2. \A m \in Members : marks'[m] = (marks[m] \ Ours(m)) \cup KeptMark(m) \cup NewMarks(m)
    BY <1>14 DEF Clean
  <2>3. \A m \in Members : snaps'[m] \subseteq snaps[m] /\ held'[m] \subseteq held[m]
    BY <1>14 DEF Clean
  <2>4. \A m \in Members : marks'[m] \subseteq marks[m] \cup snaps[m]
    BY <2>1, <2>2
  <2>5. UNCHANGED <<copy, partial, snap>>
    BY <1>14 DEF Clean, target
  <2> QED
    BY <2>3, <2>4, <2>5 DEF Known
<1>15. CASE Crash
  <2>1. UNCHANGED <<snaps, marks, held, snap>>
    BY <1>15 DEF Crash, source
  <2>2. CASE UNCHANGED target
    BY <2>1, <2>2 DEF Known, target
  <2>3. CASE pc = "send" /\ Interrupted
    BY <2>1, <2>3, InterruptedAdds DEF Known
  <2> QED
    BY <1>3, <1>15, <2>2, <2>3, CrashAdds
<1>16. ASSUME NEW m \in Members, SweepExcluded(m) \/ NotReached(m) PROVE Known'
  <2>1. \E gone : Destroys(m, gone)
    BY <1>16 DEF SweepExcluded, NotReached
  <2>2. \A n \in Members : snaps'[n] \subseteq snaps[n]
    BY <2>1, DestroysOnly
  <2>3. UNCHANGED <<marks, held, copy, partial, snap>>
    BY <1>16 DEF SweepExcluded, NotReached, target
  <2> QED
    BY <2>2, <2>3 DEF Known
<1>17. ASSUME NEW m \in Members, UserDestroys(m) PROVE Known'
  <2>1. \A n \in Members : snaps'[n] \subseteq snaps[n]
    BY <1>17 DEF UserDestroys
  <2> QED
    BY <1>17, <2>1 DEF UserDestroys, Known, target
<1> QED
  BY <1>1, <1>2, <1>3, <1>4, <1>5, <1>6, <1>7, <1>8, <1>9, <1>10, <1>11, <1>12, <1>13,
     <1>14, <1>15, <1>16, <1>17, StepCases

\* A member the run is past or at has what the place of the run says: a copy
\* not yet, the snapshot still, the bookmark already.
LEMMA ProgressPreserved ==
  ASSUME TypeInv, Known, Progressed, [Next]_vars
  PROVE  Progressed'
<1> USE Tables DEF Progressed, Untouched
<1>1. CASE Start
  <2>1. snap' = snap + 1 /\ pc' = "next" /\ UNCHANGED <<copy, partial>> /\ left' = Members
    BY <1>1 DEF Start, target
  <2>2. \A m \in Members : snap' \notin copy[m] /\ (partial[m] # None => partial[m].to # snap')
    BY <2>1 DEF Known
  <2> QED
    BY <2>1, <2>2
<1>2. CASE Cancel
  BY <1>2 DEF Cancel, source, target, scratch
<1>3. CASE End
  BY <1>3 DEF End, source, target
<1>4. ASSUME NEW m \in Members, SweepExcluded(m) PROVE Progressed'
  BY <1>4 DEF SweepExcluded, target, scratch
<1>5. ASSUME NEW m \in Members, NotReached(m) PROVE Progressed'
  BY <1>5 DEF NotReached, target, scratch
<1>6. ASSUME NEW m \in Members, Begin(m) PROVE Progressed'
  BY <1>6 DEF Begin, IsNext, source, target, scratch
<1>7. CASE Look
  BY <1>7 DEF Look, source, target
<1>8. CASE LookFails
  BY <1>8 DEF LookFails, Fails, source, target, scratch
<1>9. CASE Resume
  <2>1. copy' = [copy EXCEPT ![member] = @ \cup {partial[member].to}]
    BY <1>9 DEF Resume, Completed
  <2>2. /\ partial' = [partial EXCEPT ![member] = None] /\ pc = "resume" /\ pc' = "view"
        /\ UNCHANGED <<snaps, marks, snap, left, member, streamed>>
    BY <1>9 DEF Resume, Completed, source, scratch
  <2>3. partial[member].to # snap /\ snap \notin copy[member] /\ snap \in snaps[member]
    BY <2>2
  <2>4. \A m \in left' : Untouched(m)'
    BY <2>1, <2>2
  <2> QED
    BY <2>1, <2>2, <2>3, <2>4
<1>10. CASE ResumeBreaks
  <2>1. /\ pc = "resume" /\ pc' = "drop"
        /\ UNCHANGED <<snaps, marks, snap, left, member, streamed>>
    BY <1>10 DEF ResumeBreaks, Fails, source, scratch
  <2>2. CASE UNCHANGED target
    BY <2>1, <2>2 DEF target
  <2>3. CASE Completed(member)
    <3>1. /\ copy' = [copy EXCEPT ![member] = @ \cup {partial[member].to}]
          /\ partial' = [partial EXCEPT ![member] = None]
      BY <2>3 DEF Completed
    <3>2. snap \in snaps[member]
      BY <2>1
    <3>3. \A m \in left' : Untouched(m)'
      BY <2>1, <3>1
    <3> QED
      BY <2>1, <3>1, <3>2, <3>3
  <2> QED
    BY <1>10, <2>2, <2>3 DEF ResumeBreaks
<1>11. CASE AbortReceive
  BY <1>11 DEF AbortReceive, source, scratch
<1>12. CASE View
  BY <1>12 DEF View, target, scratch
<1>13. CASE ViewFails
  BY <1>13 DEF ViewFails, Fails, source, target, scratch
<1>14. CASE Stream
  BY <1>14 DEF Stream, source
<1>15. CASE Refuse
  BY <1>15 DEF Refuse, source, target
<1>16. CASE StreamBreaks
  <2>1. /\ Interrupted /\ pc = "send" /\ pc' = "drop" /\ streamed'
        /\ UNCHANGED <<snaps, marks, snap, left, member>>
    BY <1>16 DEF StreamBreaks, Fails, source
  <2>2. \A m \in left' : Untouched(m)'
    BY <2>1, InterruptedAdds
  <2> QED
    BY <2>1, <2>2
<1>17. CASE Landed
  BY <1>17 DEF Landed, source, target
<1>18. CASE Bookmark
  BY <1>18 DEF Bookmark, target, scratch
<1>19. CASE Hold
  BY <1>19 DEF Hold, target, scratch
<1>20. CASE AnchorFails
  BY <1>20 DEF AnchorFails, Fails, source, target, scratch
<1>21. CASE KeepOrDrop
  BY <1>21 DEF KeepOrDrop, target
<1>22. CASE Clear
  BY <1>22 DEF Clear, target, scratch
<1>23. CASE Prune
  <2>1. \A m \in Members : copy'[m] \subseteq copy[m]
    BY <1>23 DEF Prune
  <2>2. snap \in copy[member] /\ snap \in copy'[member]
    BY <1>23 DEF Prune
  <2> QED
    BY <1>23, <2>1, <2>2 DEF Prune, source
<1>24. CASE PruneBookmarks
  BY <1>24 DEF PruneBookmarks, target
<1>25. CASE Clean
  BY <1>25 DEF Clean, target, scratch
<1>26. ASSUME NEW m \in Members, UserDestroys(m) PROVE Progressed'
  <2>1. PICK s \in snaps[m] \ held[m] :
          (\E t \in held[m] : s < t) /\ snaps' = [snaps EXCEPT ![m] = @ \ {s}]
    BY <1>26 DEF UserDestroys
  <2>2. s # snap
    BY <2>1 DEF Known
  <2>3. UNCHANGED <<marks, copy, partial, snap, pc, left, member, streamed>>
    BY <1>26 DEF UserDestroys, target, scratch
  <2> QED
    BY <2>1, <2>2, <2>3
<1>27. CASE Crash
  BY <1>27 DEF Crash, source
<1>28. CASE UNCHANGED vars
  BY <1>28 DEF vars, source, target, scratch
<1> QED
  BY <1>1, <1>2, <1>3, <1>4, <1>5, <1>6, <1>7, <1>8, <1>9, <1>10, <1>11, <1>12, <1>13,
     <1>14, <1>15, <1>16, <1>17, <1>18, <1>19, <1>20, <1>21, <1>22, <1>23, <1>24, <1>25,
     <1>26, <1>27, <1>28
  DEF Next, Progress

\* Only what has arrived is held, or bookmarked before a cleaning.
LEMMA ArrivedPreserved ==
  ASSUME TypeInv, Known, Progressed, Arrived, [Next]_vars
  PROVE  Arrived'
<1> USE Tables DEF Sent
<1> DEFINE CopyGrows == \A m \in Members : copy[m] \subseteq copy'[m]
<1>1. ASSUME CopyGrows, cleans' = cleans,
             \A m \in Sent : /\ \A s \in held'[m] \ held[m] : Reaches(m, s)'
                             /\ \A s \in marks'[m] \ marks[m] : Reaches(m, s)'
      PROVE  Arrived'
  BY <1>1 DEF Arrived, Reaches
<1>2. ASSUME UNCHANGED <<marks, held, cleans>>, CopyGrows
      PROVE  Arrived'
  BY <1>1, <1>2
<1>3. CASE Quiet
  BY <1>2, <1>3 DEF Quiet, source, target
<1>4. CASE Start \/ AbortReceive \/ KeepOrDrop
  BY <1>2, <1>4 DEF Start, AbortReceive, KeepOrDrop, source, target, bounds
<1>5. CASE Arrives \/ Stream
  BY <1>2, <1>5 DEF Arrives, Completed, Stream, source, bounds
<1>6. CASE StreamBreaks \/ Crash
  <2>1. UNCHANGED <<marks, held, cleans>>
    BY <1>6 DEF StreamBreaks, Crash, source, bounds
  <2>2. (UNCHANGED target) \/ (pc = "send" /\ Interrupted) \/ Arrives
    BY <1>6, CrashAdds DEF StreamBreaks
  <2>3. CopyGrows
    BY <2>2, InterruptedAdds DEF target, Arrives, Completed
  <2> QED
    BY <1>2, <2>1, <2>3
<1>7. CASE View
  <2>1. \A m \in Members : marks'[m] \subseteq marks[m] \cup copy[m]
    BY <1>7, NewestAmong DEF View
  <2>2. UNCHANGED <<held, copy, cleans>>
    BY <1>7 DEF View, target, bounds
  <2>3. \A m \in Members : copy[m] \subseteq Nat
    OBVIOUS
  <2> QED
    BY <1>1, <2>1, <2>2, <2>3 DEF Reaches
<1>8. CASE Bookmark
  <2>1. /\ snap \in copy[member] /\ marks' = [marks EXCEPT ![member] = @ \cup {snap}]
        /\ UNCHANGED <<held, copy, cleans>>
    BY <1>8 DEF Bookmark, Progressed, target, bounds
  <2> QED
    BY <1>1, <2>1 DEF Reaches
<1>9. CASE Hold
  <2>1. /\ snap \in copy[member] /\ held' = [held EXCEPT ![member] = @ \cup {snap}]
        /\ UNCHANGED <<marks, copy, cleans>>
    BY <1>9 DEF Hold, Progressed, target, bounds
  <2> QED
    BY <1>1, <2>1 DEF Reaches
<1>10. CASE Clear
  <2>1. \A m \in Members : held'[m] \subseteq held[m]
    BY <1>10 DEF Clear
  <2>2. UNCHANGED <<marks, copy, cleans>>
    BY <1>10 DEF Clear, target, bounds
  <2> QED
    BY <1>1, <2>1, <2>2
<1>11. CASE Prune
  <2>1. UNCHANGED <<marks, held, snap, member, cleans>>
    BY <1>11 DEF Prune, source, bounds
  <2>2. snap \in copy'[member] /\ \A m \in Members : m # member => copy'[m] = copy[m]
    BY <1>11 DEF Prune, Progressed
  <2>3. \A s \in held[member] \cup marks[member] : s <= snap
    BY <1>11 DEF Known, Prune
  <2> QED
    BY <2>1, <2>2, <2>3 DEF Arrived, Reaches
<1>12. CASE PruneBookmarks
  <2>1. \A m \in Members : marks'[m] \subseteq marks[m]
    BY <1>12 DEF PruneBookmarks
  <2>2. UNCHANGED <<held, copy, cleans>>
    BY <1>12 DEF PruneBookmarks, target, bounds
  <2> QED
    BY <1>1, <2>1, <2>2
<1>13. CASE Clean
  <2>1. cleans' # 0 /\ UNCHANGED copy
    BY <1>13 DEF Clean, target
  <2>2. \A m \in Members : held'[m] \subseteq held[m]
    BY <1>13 DEF Clean
  <2> QED
    BY <2>1, <2>2 DEF Arrived, Reaches
<1>14. ASSUME NEW m \in Members, SweepExcluded(m) \/ NotReached(m) \/ UserDestroys(m)
       PROVE  Arrived'
  BY <1>2, <1>14 DEF SweepExcluded, NotReached, UserDestroys, target, bounds
<1> QED
  BY <1>3, <1>4, <1>5, <1>6, <1>7, <1>8, <1>9, <1>10, <1>11, <1>12, <1>13, <1>14, StepCases

----------------------------------------------------------------------------
(* The base of the next increment *)

\* A step that leaves the copy of a member alone and its newest where it is.
LEMMA BaseStays ==
  ASSUME NEW m, Based(m), copy'[m] = copy[m],
         \A b \in copy[m] \cap (snaps[m] \cup marks[m]) :
             (\A c \in copy[m] : c <= b) => b \in snaps'[m] \cup marks'[m]
  PROVE  Based(m)'
  BY DEF Based

\* The run's snapshot is the newest there is: a copy that has it has its base
\* as long as the source has it.
LEMMA RunIsBase ==
  ASSUME TypeInv, Known, NEW m \in Members, snap \in Nat,
         snap \in copy'[m], copy'[m] \subseteq copy[m] \cup {snap},
         snap \in snaps'[m] \cup marks'[m]
  PROVE  Based(m)'
<1>1. \A c \in copy'[m] : c <= snap
  BY Tables DEF Known
<1> QED
  BY <1>1 DEF Based

\* A cleaning: while bookmarks stand for arrived snapshots only, what is newer
\* than all of them gets one of its own.
LEMMA CleanKeeps ==
  ASSUME TypeInv, Arrived, NEW m \in Sent, Based(m), MaxCleans <= 1, Clean
  PROVE  Based(m)'
<1> USE Tables DEF Sent
<1>1. UNCHANGED copy /\ cleans = 0
  BY BoundsAreNumbers DEF Clean, target
<1>2. /\ snaps'[m] = snaps[m] \ Ours(m)
      /\ marks'[m] = (marks[m] \ Ours(m)) \cup KeptMark(m) \cup NewMarks(m)
  BY DEF Clean
<1>3. ASSUME NEW b \in copy[m], b \in snaps[m] \cup marks[m], \A c \in copy[m] : c <= b
      PROVE  b \in snaps'[m] \cup marks'[m]
  <2>1. CASE b \notin Ours(m)
    BY <1>2, <1>3, <2>1
  <2>2. CASE b \in Ours(m)
    <3>1. \A k \in marks[m] : k <= b
      BY <1>1, <1>3 DEF Arrived, Reaches
    <3>2. CASE b \in marks[m]
      <4>1. b \in KeptMark(m)
        BY <2>2, <3>1, <3>2 DEF KeptMark, Newest
      <4> QED
        BY <1>2, <4>1
    <3>3. CASE b \notin marks[m]
      <4>1. KeptMark(m) \subseteq marks[m]
        BY DEF KeptMark, Newest
      <4>2. \A k \in KeptMark(m) : k <= b /\ k # b /\ k \in Nat /\ b \in Nat
        BY <3>1, <3>3, <4>1
      <4>3. b \in NewMarks(m)
        BY <1>3, <2>2, <3>3, <4>2 DEF NewMarks
      <4> QED
        BY <1>2, <4>3
    <3> QED
      BY <3>2, <3>3
  <2> QED
    BY <2>1, <2>2
<1> QED
  BY <1>1, <1>3, BaseStays

\* Every member's base survives every step.
LEMMA BasePreserved ==
  ASSUME TypeInv, IInv, MaxCleans <= 1, [Next]_vars, NEW m \in Sent
  PROVE  Based(m)'
<1> USE Tables DEF Sent
<1>1. Based(m) /\ Known /\ Progressed /\ Arrived
  BY DEF IInv
<1>2. ASSUME copy'[m] = copy[m], snaps[m] \subseteq snaps'[m], marks[m] \subseteq marks'[m]
      PROVE  Based(m)'
  BY <1>1, <1>2, BaseStays
<1>3. CASE Quiet
  BY <1>2, <1>3 DEF Quiet, source, target
<1>4. CASE Start
  BY <1>2, <1>4 DEF Start, target
<1>5. CASE Arrives
  <2>1. /\ copy' = [copy EXCEPT ![member] = @ \cup {partial[member].to}]
        /\ UNCHANGED <<snaps, marks>>
        /\ partial[member].to \in snaps[member]
    BY <1>5 DEF Arrives, Completed, TokenHolds, source
  <2>2. CASE m # member
    BY <1>2, <2>1, <2>2
  <2>3. CASE m = member
    <3> DEFINE to == partial[member].to
    <3>1. to \in Nat /\ copy'[m] = copy[m] \cup {to} /\ to \in snaps'[m]
      BY <2>1, <2>3
    <3>2. CASE \A c \in copy[m] : c <= to
      BY <3>1, <3>2 DEF Based
    <3>3. CASE \E c \in copy[m] : ~(c <= to)
      <4>1. PICK b \in copy[m] \cap (snaps[m] \cup marks[m]) : \A c \in copy[m] : c <= b
        BY <1>1, <3>3 DEF Based
      <4>2. to <= b /\ b \in copy'[m] \cap (snaps'[m] \cup marks'[m])
        BY <2>1, <3>1, <3>3, <4>1
      <4> HIDE DEF to
      <4> QED
        BY <3>1, <4>1, <4>2 DEF Based
    <3> QED
      BY <3>2, <3>3
  <2> QED
    BY <2>2, <2>3
<1>6. CASE AbortReceive \/ View \/ Bookmark \/ Hold
  <2>1. copy' = copy /\ snaps' = snaps
    BY <1>6 DEF AbortReceive, View, Bookmark, Hold, source, target
  <2>2. marks[m] \subseteq marks'[m]
    BY <1>6 DEF AbortReceive, View, Bookmark, Hold, source
  <2> QED
    BY <1>2, <2>1, <2>2
<1>7. CASE (Stream \/ StreamBreaks \/ Crash) /\ ~Arrives
  <2>1. UNCHANGED <<snaps, marks>>
    BY <1>7 DEF Stream, StreamBreaks, Crash, source
  <2>2. \/ copy' = copy
        \/ /\ pc = "send" /\ copy'[member] = copy[member] \cup {snap}
           /\ \A n \in Members : n # member => copy'[n] = copy[n]
    <3>1. CASE Stream
      BY <3>1 DEF Stream
    <3>2. CASE StreamBreaks \/ Crash
      BY <1>7, <3>2, CrashAdds, InterruptedAdds DEF StreamBreaks, target
    <3> QED
      BY <1>7, <3>1, <3>2
  <2>3. CASE copy'[m] = copy[m]
    BY <1>2, <2>1, <2>3
  <2>4. CASE m = member /\ pc = "send" /\ copy'[member] = copy[member] \cup {snap}
    <3>1. snap \in snaps'[m]
      BY <1>1, <2>1, <2>4 DEF Progressed
    <3> QED
      BY <1>1, <2>4, <3>1, RunIsBase
  <2> QED
    BY <2>2, <2>3, <2>4
<1>8. CASE KeepOrDrop
  <2>1. UNCHANGED <<marks, copy>> /\ member \in Sent
    BY <1>8 DEF KeepOrDrop, target
  <2>2. CASE Destroys(member, {snap} \cap snaps[member]) /\ snap \notin copy[member]
    <3>1. \A b \in copy[m] : b \in snaps[m] => b \in snaps'[m]
      BY <2>1, <2>2, DestroysOnly
    <3> QED
      BY <1>1, <2>1, <3>1, BaseStays
  <2>3. CASE snaps' = snaps
    BY <1>2, <2>1, <2>3
  <2>4. \/ snaps' = snaps
        \/ Destroys(member, {snap} \cap snaps[member]) /\ snap \notin copy[member]
    BY <1>1, <1>8 DEF KeepOrDrop, Progressed
  <2> QED
    BY <2>2, <2>3, <2>4
<1>9. CASE Clear
  <2>1. UNCHANGED <<marks, copy>>
    BY <1>9 DEF Clear, target
  <2>2. PICK gone : Destroys(member, gone)
    BY <1>9 DEF Clear
  <2>3. CASE m # member
    <3>1. snaps'[m] = snaps[m]
      BY <1>9, <2>2, <2>3, DestroysOnly DEF Clear
    <3> QED
      BY <1>2, <2>1, <3>1
  <2>4. CASE m = member
    <3>1. snap \in copy[m] /\ snap \in marks[m]
      BY <1>1, <1>9, <2>4 DEF Progressed, Clear
    <3> QED
      BY <1>1, <2>1, <3>1, RunIsBase
  <2> QED
    BY <2>3, <2>4
<1>10. CASE Prune \/ PruneBookmarks
  <2>1. CASE m # member
    BY <1>2, <1>10, <2>1 DEF Prune, PruneBookmarks, source, target
  <2>2. CASE m = member
    <3>1. snap \in copy[m] /\ snap \in marks[m]
      BY <1>1, <1>10, <2>2 DEF Progressed, Prune, PruneBookmarks
    <3>2. snap \in copy'[m] /\ copy'[m] \subseteq copy[m]
      BY <1>10, <2>2, <3>1 DEF Prune, PruneBookmarks, target
    <3>3. snap \in marks'[m]
      BY <1>10, <2>2, <3>1 DEF Prune, PruneBookmarks, source, Unpaired
    <3> QED
      BY <1>1, <3>2, <3>3, RunIsBase
  <2> QED
    BY <2>1, <2>2
<1>11. CASE Clean
  BY <1>1, <1>11, CleanKeeps
<1>12. ASSUME NEW n \in Members, SweepExcluded(n) PROVE Based(m)'
  <2>1. snaps'[m] = snaps[m] /\ UNCHANGED <<marks, copy>>
    BY <1>12, DestroysOnly DEF SweepExcluded, target
  <2> QED
    BY <1>2, <2>1
<1>13. ASSUME NEW n \in Members, NotReached(n) PROVE Based(m)'
  <2>1. UNCHANGED <<marks, copy>> /\ Destroys(n, {snap}) /\ snap \notin copy[n]
    BY <1>1, <1>13 DEF NotReached, IsNext, Progressed, Untouched, target
  <2>2. \A b \in copy[m] : b \in snaps[m] => b \in snaps'[m]
    BY <2>1, DestroysOnly
  <2> QED
    BY <1>1, <2>1, <2>2, BaseStays
<1>14. ASSUME NEW n \in Members, UserDestroys(n) PROVE Based(m)'
  <2>1. UNCHANGED <<marks, copy>>
    BY <1>14 DEF UserDestroys, target
  <2>2. PICK s \in snaps[n] \ held[n] :
          (\E t \in held[n] : s < t) /\ snaps' = [snaps EXCEPT ![n] = @ \ {s}]
    BY <1>14 DEF UserDestroys
  <2>3. CASE n # m
    BY <1>2, <2>1, <2>2, <2>3
  <2>4. CASE n = m
    <3>1. PICK c \in copy[m] : s < c
      BY <1>1, <2>2, <2>4 DEF Arrived, Reaches
    <3>2. \A b \in copy[m] : (\A d \in copy[m] : d <= b) => b # s
      BY <2>2, <2>4, <3>1
    <3> QED
      BY <1>1, <2>1, <2>2, <2>4, <3>2, BaseStays
  <2> QED
    BY <2>3, <2>4
<1> QED
  BY <1>3, <1>4, <1>5, <1>6, <1>7, <1>8, <1>9, <1>10, <1>11, <1>12, <1>13, <1>14, StepCases

LEMMA IInvStarts ==
  Init => TypeInv /\ IInv
<1>1. Init => IInv
  BY DEF Init, IInv, Known, Progressed, Arrived, Based, Untouched, Sent
<1> QED
  BY <1>1, InitTyped

LEMMA IInvStays ==
  ASSUME MaxCleans <= 1, TypeInv, IInv, [Next]_vars
  PROVE  TypeInv' /\ IInv'
<1>1. TypeInv'
  BY TypePreserved
<1>2. Known' /\ Progressed' /\ Arrived'
  BY KnownPreserved, ProgressPreserved, ArrivedPreserved DEF IInv
<1>3. \A m \in Sent : Based(m)'
  BY BasePreserved
<1> QED
  BY <1>1, <1>2, <1>3 DEF IInv

\* Whatever breaks, is cancelled, crashes or is destroyed by hand, the newest
\* copy of every member is a point the source still has, as long as the replica
\* is switched off at most once (clean.go: a second cleaning may lose it).
THEOREM BaseIsKept ==
  ASSUME MaxCleans <= 1
  PROVE  Spec => []BaseKept
<1>1. Init => TypeInv /\ IInv
  BY IInvStarts
<1>2. TypeInv /\ IInv /\ [Next]_vars => TypeInv' /\ IInv'
  BY IInvStays
<1>3. TypeInv /\ IInv => BaseKept
  <2> SUFFICES ASSUME IInv, NEW m \in Sent, copy[m] # {}
               PROVE  Newest(copy[m]) \cap (snaps[m] \cup marks[m]) # {}
    BY DEF BaseKept
  <2>1. PICK b \in copy[m] \cap (snaps[m] \cup marks[m]) : \A c \in copy[m] : c <= b
    BY DEF IInv, Based
  <2> QED
    BY <2>1 DEF Newest
<1> QED
  BY <1>1, <1>2, <1>3, PTL DEF Spec

----------------------------------------------------------------------------
(* What a partial receive leads to *)

\* A run that streams to a member has dealt with an earlier run's partial
\* receive; one that failed before it streamed has not made one; and what a
\* partial receive leads to is no older than what is held.
Resumable ==
    /\ pc \in {"view", "send", "landed", "mark", "hold", "clear", "prune", "unmark"}
         => partial[member] = None
    /\ pc = "drop" /\ ~streamed => (partial[member] # None => partial[member].to # snap)
    /\ \A m \in Members : partial[m] # None =>
         m \in Sent /\ \A t \in held[m] : t <= partial[m].to

\* Steps that make no partial receive and put no hold.
LEMMA NothingNew ==
  ASSUME TypeInv, Resumable,
         \A m \in Members : partial'[m] \in {partial[m], None} /\ held'[m] \subseteq held[m]
  PROVE  \A m \in Members : partial'[m] # None =>
           m \in Sent /\ \A t \in held'[m] : t <= partial'[m].to
  BY DEF Resumable

\* No step, a broken stream and a new hold included, disturbs that.
LEMMA ResumablePreserved ==
  ASSUME TypeInv, Known, Progressed, Resumable, [Next]_vars
  PROVE  Resumable'
<1> USE Tables
<1> DEFINE Same == UNCHANGED <<partial, held>>
<1>1. CASE Start \/ End \/ Clean
  <2>1. pc' \in {"next", "idle"}
    BY <1>1 DEF Start, End, Clean
  <2>2. \A m \in Members : partial'[m] = partial[m] /\ held'[m] \subseteq held[m]
    BY <1>1 DEF Start, End, Clean, source, target
  <2> QED
    BY <2>1, <2>2, NothingNew DEF Resumable
<1>2. ASSUME Same, UNCHANGED <<pc, member, streamed, snap>> PROVE Resumable'
  BY <1>2 DEF Resumable
<1>3. CASE Cancel
  BY <1>2, <1>3 DEF Cancel, source, target, scratch
<1>4. ASSUME NEW m \in Members, SweepExcluded(m) \/ NotReached(m) \/ UserDestroys(m)
      PROVE  Resumable'
  BY <1>2, <1>4 DEF SweepExcluded, NotReached, UserDestroys, target, scratch
<1>5. ASSUME NEW m \in Members, Begin(m) PROVE Resumable'
  BY <1>5 DEF Begin, Resumable, source, target
<1>6. CASE Look
  BY <1>6 DEF Look, Resumable, source, target
<1>7. CASE LookFails
  BY <1>7 DEF LookFails, Fails, Resumable, Progressed, Untouched, source, target, scratch
<1>8. CASE Resume
  <2>1. /\ pc' = "view" /\ member' = member /\ held' = held /\ member \in Members
        /\ partial' = [partial EXCEPT ![member] = None]
    BY <1>8 DEF Resume, Completed, source
  <2>2. partial'[member] = None
    BY <2>1
  <2>3. \A m \in Members : partial'[m] \in {partial[m], None} /\ held'[m] \subseteq held[m]
    BY <2>1
  <2> QED
    BY <2>1, <2>2, <2>3, NothingNew DEF Resumable
<1>9. CASE ResumeBreaks
  <2>1. /\ pc = "resume" /\ pc' = "drop" /\ member' = member /\ held' = held /\ snap' = snap
        /\ streamed' = streamed /\ member \in Members
    BY <1>9 DEF ResumeBreaks, Fails, source, scratch
  <2>2. partial' = partial \/ partial' = [partial EXCEPT ![member] = None]
    BY <1>9 DEF ResumeBreaks, Completed, target
  <2>3. \A m \in Members : partial'[m] \in {partial[m], None} /\ held'[m] \subseteq held[m]
    BY <2>1, <2>2
  <2>4. partial[member].to # snap
    BY <2>1 DEF Progressed, Untouched
  <2>5. partial'[member] # None => partial'[member].to # snap
    BY <2>1, <2>2, <2>4
  <2> QED
    BY <2>1, <2>3, <2>5, NothingNew DEF Resumable
<1>10. CASE AbortReceive
  <2>1. /\ pc' = "view" /\ member' = member /\ held' = held /\ member \in Members
        /\ partial' = [partial EXCEPT ![member] = None]
    BY <1>10 DEF AbortReceive, source
  <2>2. \A m \in Members : partial'[m] \in {partial[m], None} /\ held'[m] \subseteq held[m]
    BY <2>1
  <2> QED
    BY <2>1, <2>2, NothingNew DEF Resumable
<1>11. CASE View \/ ViewFails \/ Stream \/ Refuse \/ Landed \/ Bookmark
  <2>1. Same /\ member' = member /\ partial[member] = None /\ pc' # "idle"
    BY <1>11 DEF View, ViewFails, Stream, Refuse, Landed, Bookmark, Fails, Resumable,
                 source, target
  <2> QED
    BY <2>1 DEF Resumable
<1>12. CASE AnchorFails
  <2>1. Same /\ member' = member /\ partial[member] = None
    BY <1>12 DEF AnchorFails, Resumable, source, target
  <2> QED
    BY <2>1 DEF Resumable
<1>13. CASE StreamBreaks
  <2>1. /\ pc = "send" /\ pc' = "drop" /\ streamed' /\ Interrupted
        /\ held' = held
    BY <1>13 DEF StreamBreaks, Fails, source
  <2>2. \A m \in Members : partial'[m] # None =>
          m \in Sent /\ \A t \in held'[m] : t <= partial'[m].to
    BY <2>1, InterruptedAdds DEF Resumable, Known
  <2> QED
    BY <2>1, <2>2 DEF Resumable
<1>14. CASE Hold
  <2>1. /\ pc = "hold" /\ pc' = "clear" /\ UNCHANGED <<partial, member>>
        /\ held' = [held EXCEPT ![member] = @ \cup {snap}]
    BY <1>14 DEF Hold, target
  <2>2. partial[member] = None
    BY <2>1 DEF Resumable
  <2> QED
    BY <2>1, <2>2 DEF Resumable
<1>15. CASE KeepOrDrop \/ PruneBookmarks
  BY <1>15 DEF KeepOrDrop, PruneBookmarks, target, Resumable
<1>16. CASE Clear
  <2>1. /\ pc = "clear" /\ pc' = "prune" /\ UNCHANGED <<partial, member>>
        /\ \A m \in Members : held'[m] \subseteq held[m]
    BY <1>16 DEF Clear, target
  <2> QED
    BY <2>1, NothingNew DEF Resumable
<1>17. CASE Prune
  BY <1>17 DEF Prune, source, Resumable
<1>18. CASE Crash
  <2>1. pc' = "idle" /\ held' = held
    BY <1>18 DEF Crash, source
  <2>2. \A m \in Members : partial'[m] # None =>
          m \in Sent /\ \A t \in held'[m] : t <= partial'[m].to
    <3>1. CASE UNCHANGED target
      BY <2>1, <3>1 DEF target, Resumable
    <3>2. CASE pc = "send" /\ Interrupted
      BY <2>1, <3>2, InterruptedAdds DEF Resumable, Known
    <3>3. CASE Arrives
      <4>1. \A m \in Members : partial'[m] \in {partial[m], None}
        BY <3>3 DEF Arrives, Completed
      <4> QED
        BY <2>1, <4>1 DEF Resumable
    <3> QED
      BY <1>18, <3>1, <3>2, <3>3, CrashAdds
  <2> QED
    BY <2>1, <2>2 DEF Resumable
<1>19. CASE UNCHANGED vars
  BY <1>2, <1>19 DEF vars, source, target, scratch
<1> QED
  BY <1>1, <1>3, <1>4, <1>5, <1>6, <1>7, <1>8, <1>9, <1>10, <1>11, <1>12, <1>13, <1>14,
     <1>15, <1>16, <1>17, <1>18, <1>19
  DEF Next, Progress

\* Each of the five removals leaves the snapshot a partial receive leads to.
LEMMA StepKeepsResumable ==
  ASSUME TypeInv, Known, Progressed, Resumable, [Next]_vars, cleans' = cleans,
         NEW m \in Members, partial'[m] # None, partial'[m].to \in snaps[m]
  PROVE  partial'[m].to \in snaps'[m]
<1> USE Tables
<1>1. CASE snaps[m] \subseteq snaps'[m]
  BY <1>1
<1>2. ASSUME NEW n \in Members, SweepExcluded(n) PROVE snaps[m] \subseteq snaps'[m]
  <2>1. partial' = partial /\ n \in Excluded
    BY <1>2 DEF SweepExcluded, target
  <2>2. n # m
    BY <2>1 DEF Resumable, Sent
  <2> QED
    BY <1>2, <2>2, DestroysOnly DEF SweepExcluded
<1>3. ASSUME NEW n \in Members, NotReached(n) PROVE partial'[m].to \in snaps'[m]
  <2>1. partial' = partial /\ Destroys(n, {snap}) /\ n \in left /\ pc = "next"
    BY <1>3 DEF NotReached, IsNext, target
  <2>2. CASE n # m
    BY <1>1, <2>1, <2>2, DestroysOnly
  <2>3. CASE n = m
    <3>1. partial[m].to # snap
      BY <2>1, <2>3 DEF Progressed, Untouched
    <3> QED
      BY <2>1, <2>3, <3>1, DestroysOnly
  <2> QED
    BY <2>2, <2>3
<1>4. CASE KeepOrDrop
  <2>1. partial' = partial /\ pc = "drop" /\ member \in Members
    BY <1>4 DEF KeepOrDrop, target
  <2>2. CASE snaps' = snaps
    BY <1>1, <2>2
  <2>3. CASE /\ Destroys(member, {snap} \cap snaps[member])
             /\ partial[member] # None => partial[member].to # snap
    BY <2>1, <2>3, DestroysOnly
  <2> QED
    BY <1>4, <2>1, <2>2, <2>3 DEF KeepOrDrop, Resumable
<1>5. CASE Clear
  <2>1. partial' = partial /\ pc = "clear"
    BY <1>5 DEF Clear, target
  <2>2. m # member
    BY <2>1 DEF Resumable
  <2>3. \E gone : Destroys(member, gone)
    BY <1>5 DEF Clear
  <2> QED
    BY <1>1, <2>1, <2>2, <2>3, DestroysOnly
<1>6. ASSUME NEW n \in Members, UserDestroys(n) PROVE partial'[m].to \in snaps'[m]
  <2>1. partial' = partial
    BY <1>6 DEF UserDestroys, target
  <2>2. PICK s \in snaps[n] \ held[n] :
          (\E t \in held[n] : s < t) /\ snaps' = [snaps EXCEPT ![n] = @ \ {s}]
    BY <1>6 DEF UserDestroys
  <2>3. CASE n # m
    BY <1>1, <2>2, <2>3
  <2>4. CASE n = m
    <3>1. s # partial[m].to
      BY <2>1, <2>2, <2>4 DEF Resumable
    <3> QED
      BY <2>1, <2>2, <2>4, <3>1
  <2> QED
    BY <2>3, <2>4
<1>7. ~Clean
  BY DEF Clean
<1>8. CASE \/ Quiet \/ Start \/ Arrives \/ AbortReceive \/ View \/ Stream \/ StreamBreaks
           \/ Bookmark \/ Hold \/ Prune \/ PruneBookmarks \/ Crash
  BY <1>1, <1>8 DEF Quiet, Start, Arrives, AbortReceive, View, Stream, StreamBreaks, Bookmark,
                    Hold, Prune, PruneBookmarks, Crash, source
<1> QED
  BY <1>1, <1>2, <1>3, <1>4, <1>5, <1>6, <1>7, <1>8, StepCases

\* No run destroys the snapshot a partial receive leads to, however many runs,
\* crashes, cleanings and users there were before (keepOrDrop, clear).
THEOREM ResumableIsKept == Spec => ResumableKept
<1> DEFINE I == TypeInv /\ Known /\ Progressed /\ Resumable
<1>1. Init => I
  <2>1. Init => Known /\ Progressed /\ Resumable
    BY DEF Init, Known, Progressed, Resumable, Untouched
  <2> QED
    BY <2>1, InitTyped
<1>2. I /\ [Next]_vars => I'
  BY TypePreserved, KnownPreserved, ProgressPreserved, ResumablePreserved
<1>3. I /\ [Next]_vars => [cleans' = cleans => \A m \in Members :
        (partial'[m] # None /\ partial'[m].to \in snaps[m]) => partial'[m].to \in snaps'[m]]_vars
  BY StepKeepsResumable
<1> QED
  BY <1>1, <1>2, <1>3, PTL DEF Spec, ResumableKept

----------------------------------------------------------------------------
(* A run nothing disturbs *)

\* The run has brought the member up to its snapshot and anchored it.
Anchored(m) == snap \in copy[m] \cap snaps[m] \cap marks[m] \cap held[m]

\* Beside the run's snapshot and one more, fewer than are kept.
Few(S) ==
    \E A \in SUBSET Snaps, r \in Snaps :
        /\ S \subseteq A \cup {r, snap}
        /\ Cardinality(A) < AtLeastOne(KeepOnSource)

Done(m) == Anchored(m) /\ Few(Recognised(m))

\* Such a run is done with every member it is past, and with all at its end.
\* It has the root behind it before another member's stream needs the parent.
Undisturbed ==
    /\ smooth /\ pc = "idle" /\ snap > 0 => \A m \in Sent : Done(m)
    /\ smooth /\ pc # "idle" =>
        /\ ~cancelled /\ pc # "drop"
        /\ snaps[Root] \subseteq own
        /\ \A m \in Sent \ left : (pc = "next" \/ m # member) => Done(m)
        /\ pc # "next" /\ member # Root => Root \notin left

\* What it has read of the member it is doing still covers what is there, but
\* for the bookmark of a resumed snapshot and its own.
Followed ==
    smooth =>
        /\ pc \in {"resume", "view"} => marks[member] \subseteq src.marks
        /\ pc = "send" => marks[member] \subseteq src.snaps \cup src.marks
        /\ pc \in {"resume", "view", "send", "landed", "mark", "hold", "clear"} =>
            /\ snaps[member] \subseteq src.snaps
            /\ \E r \in Snaps : marks[member] \subseteq src.marks \cup {r, snap}
        /\ pc \in {"hold", "clear", "prune", "unmark"} => snap \in snaps[member]
        /\ pc \in {"clear", "prune", "unmark"} => snap \in held[member]
        /\ pc \in {"prune", "unmark"} => Few(Recognised(member))

\* A set of numbers that is not empty has a least one.
LEMMA LeastOfSome ==
  ASSUME NEW T \in SUBSET Nat, T # {}
  PROVE  \E m \in T : \A n \in T : m <= n
<1> DEFINE R == OpToRel(<, Nat)
<1>1. IsWellFoundedOn(R, Nat)
  BY NatLessThanWellFounded
<1>2. \A i, j \in Nat : i < j => <<i, j>> \in R
  BY DEF OpToRel
<1> HIDE DEF R
<1>3. PICK m \in T : \A n \in T : <<n, m>> \notin R
  BY <1>1, WFMin
<1>4. \A n \in T : ~(n < m)
  BY <1>2, <1>3
<1>5. \A n \in T : n \in Nat /\ m \in Nat
  OBVIOUS
<1> QED
  BY <1>4, <1>5

LEMMA SnapsAreFinite ==
  ASSUME NEW S \in SUBSET Snaps
  PROVE  IsFiniteSet(S) /\ Cardinality(S) \in Nat /\ S \subseteq Nat
<1>1. IsFiniteSet(Snaps)
  <2>1. 1 \in Int /\ MaxRuns \in Int
    BY BoundsAreNumbers
  <2> QED
    BY <2>1, FS_Interval DEF Snaps
<1>2. IsFiniteSet(S)
  BY <1>1, FS_Subset
<1> QED
  BY <1>2, FS_CardinalityType, BoundsAreNumbers DEF Snaps

\* What may stay is less than what is kept: it is all at or after the oldest
\* of it, and that one has few enough after it.
LEMMA SpareIsFew ==
  ASSUME NEW older \in SUBSET Snaps
  PROVE  /\ Spare(older) \in SUBSET Snaps
         /\ Cardinality(Spare(older)) < AtLeastOne(KeepOnSource)
<1> DEFINE Sp == Spare(older)
<1>1. Sp \subseteq older /\ Sp \in SUBSET Snaps
  BY DEF Spare
<1>2. KeepOnSource \in Nat
  BY BoundsAreNumbers
<1>3. CASE Sp = {}
  BY <1>1, <1>2, <1>3, FS_EmptySet DEF AtLeastOne
<1>4. CASE Sp # {}
  <2>1. Sp \in SUBSET Nat
    BY <1>1, SnapsAreFinite
  <2>2. PICK m \in Sp : \A n \in Sp : m <= n
    BY <1>4, <2>1, LeastOfSome
  <2> DEFINE After == {t \in older : t >= m}
  <2>3. Cardinality(After) < KeepOnSource
    BY <2>2 DEF Spare
  <2>4. After \in SUBSET Snaps
    OBVIOUS
  <2>5. Sp \in SUBSET After
    <3>1. \A n \in Sp : n \in older /\ n >= m
      BY <1>1, <2>1, <2>2
    <3> QED
      BY <3>1
  <2>6. /\ IsFiniteSet(After) /\ Cardinality(After) \in Nat
        /\ IsFiniteSet(Sp) /\ Cardinality(Sp) \in Nat
    BY <1>1, <2>4, SnapsAreFinite
  <2> HIDE DEF After, Sp
  <2>7. Cardinality(Sp) <= Cardinality(After)
    BY <2>5, <2>6, FS_Subset
  <2>8. Cardinality(Sp) < KeepOnSource
    BY <1>2, <2>3, <2>6, <2>7
  <2> QED
    BY <1>1, <1>2, <2>6, <2>8 DEF AtLeastOne, Sp
<1> QED
  BY <1>3, <1>4

LEMMA OneMoreElement ==
  ASSUME NEW S, NEW x, IsFiniteSet(S)
  PROVE  /\ IsFiniteSet(S \cup {x}) /\ Cardinality(S \cup {x}) \in Nat
         /\ Cardinality(S \cup {x}) <= Cardinality(S) + 1
<1>1. IsFiniteSet(S \cup {x})
      /\ Cardinality(S \cup {x}) = IF x \in S THEN Cardinality(S) ELSE Cardinality(S) + 1
  BY FS_AddElement
<1>2. Cardinality(S) \in Nat
  BY FS_CardinalityType
<1> QED
  BY <1>1, <1>2

\* Few is at most one more than is kept.
LEMMA FewAreCounted ==
  ASSUME NEW S, Few(S), snap \in Snaps
  PROVE  Cardinality(S) <= AtLeastOne(KeepOnSource) + 1
<1>1. PICK A \in SUBSET Snaps, r \in Snaps :
        S \subseteq A \cup {r, snap} /\ Cardinality(A) < AtLeastOne(KeepOnSource)
  BY DEF Few
<1>2. IsFiniteSet(A) /\ Cardinality(A) \in Nat
  BY SnapsAreFinite
<1> DEFINE B == A \cup {r}
           C == B \cup {snap}
<1>3. IsFiniteSet(B) /\ Cardinality(B) <= Cardinality(A) + 1 /\ Cardinality(B) \in Nat
  BY <1>2, OneMoreElement
<1> HIDE DEF B
<1>4. IsFiniteSet(C) /\ Cardinality(C) <= Cardinality(B) + 1 /\ Cardinality(C) \in Nat
  BY <1>3, OneMoreElement
<1>5. S \in SUBSET C
  BY <1>1 DEF B
<1> HIDE DEF C
<1>6. Cardinality(S) <= Cardinality(C) /\ Cardinality(S) \in Nat
  BY <1>4, <1>5, FS_Subset, FS_CardinalityType
<1>7. AtLeastOne(KeepOnSource) \in Nat
  BY BoundsAreNumbers DEF AtLeastOne
<1> QED
  BY <1>1, <1>2, <1>3, <1>4, <1>6, <1>7

LEMMA RootIsSent ==
  Root \in Sent /\ Root \in Members /\ Sent \subseteq Members /\ Sent \cap Excluded = {}
  BY ItemAssumption DEF Sent

\* A user destroys what a later snapshot has replaced: not the run's.
LEMMA UserSparesTheNew ==
  ASSUME TypeInv, Known, NEW n \in Members, UserDestroys(n)
  PROVE  \A m \in Members : /\ snaps'[m] \subseteq snaps[m]
                            /\ snap \in snaps[m] => snap \in snaps'[m]
<1> USE Tables
<1>1. PICK s \in snaps[n] \ held[n] :
        (\E t \in held[n] : s < t) /\ snaps' = [snaps EXCEPT ![n] = @ \ {s}]
  BY DEF UserDestroys
<1>2. s # snap
  BY <1>1 DEF Known
<1> QED
  BY <1>1, <1>2

\* A member that is done stays done while the run works on others.
LEMMA DoneShrinks ==
  ASSUME TypeInv, NEW m \in Members, Done(m), snap' = snap,
         snap \in copy'[m] \cap snaps'[m] \cap marks'[m] \cap held'[m],
         snaps'[m] \subseteq snaps[m], marks'[m] \subseteq marks[m],
         snaps'[Root] \subseteq snaps[Root]
  PROVE  Done(m)'
<1>1. Recognised(m)' \subseteq Recognised(m)
  BY DEF Recognised
<1>2. Few(Recognised(m))'
  BY <1>1 DEF Few, Done
<1> QED
  BY <1>2 DEF Done, Anchored

\* A stream of such a run always starts and is taken: the parent is there, and
\* the base is the target's newest, which the source still has.
LEMMA NothingIsRefused ==
  ASSUME TypeInv, IInv, Undisturbed, Followed, smooth, pc = "send"
  PROVE  HasBase /\ Receivable
<1> USE Tables
<1>1. /\ member \in Sent /\ member \in Members /\ copy[member] \subseteq Nat
      /\ snap \notin copy[member]
  BY DEF IInv, Progressed
<1>2. CASE copy[member] = {}
  <2>1. member # Root => snap \in copy[Root]
    BY <1>1, RootIsSent DEF Undisturbed, Done, Anchored
  <2> QED
    BY <1>2, <2>1 DEF HasBase, Receivable
<1>3. CASE copy[member] # {}
  <2>1. PICK b \in copy[member] \cap (snaps[member] \cup marks[member]) :
          \A c \in copy[member] : c <= b
    BY <1>1, <1>3 DEF IInv, Based
  <2>2. b \in src.snaps \cup src.marks
    BY <2>1 DEF Followed
  <2>3. b \in Shared(src, copy[member]) /\ Shared(src, copy[member]) \subseteq copy[member]
    BY <1>1, <2>1, <2>2 DEF Shared
  <2>4. Base = {b}
    BY <1>1, <2>1, <2>3 DEF Base, Newest
  <2>5. b \in Newest(copy[member])
    BY <2>1 DEF Newest
  <2> QED
    BY <1>3, <2>1, <2>4, <2>5 DEF HasBase, Receivable
<1> QED
  BY <1>2, <1>3

\* All a run that stays undisturbed does is go on.
LEMMA SmoothSteps ==
  ASSUME TypeInv, IInv, Undisturbed, Followed, [Next]_vars, smooth'
  PROVE  \/ Start
         \/ /\ smooth
            /\ \/ UNCHANGED vars
               \/ End \/ Look \/ Resume \/ AbortReceive \/ View \/ Stream \/ Landed
               \/ Bookmark \/ Hold \/ Clear \/ Prune \/ PruneBookmarks
               \/ \E m \in Members : SweepExcluded(m) \/ Begin(m) \/ UserDestroys(m)
<1>1. ~Cancel /\ ~LookFails /\ ~ResumeBreaks /\ ~ViewFails
  BY DEF Cancel, LookFails, ResumeBreaks, ViewFails, Fails
<1>2. ~StreamBreaks /\ ~AnchorFails /\ ~Clean /\ ~Crash
  BY DEF StreamBreaks, AnchorFails, Fails, Clean, Crash
<1>3. ASSUME NEW m \in Members, NotReached(m) PROVE FALSE
  <2>1. pc = "next" /\ cancelled /\ smooth
    BY <1>3 DEF NotReached, Destroys
  <2> QED
    BY <2>1 DEF Undisturbed
<1>4. ~Refuse
  <2>1. Refuse => smooth /\ pc = "send"
    BY DEF Refuse
  <2> QED
    BY <2>1, NothingIsRefused DEF Refuse
<1>5. ~KeepOrDrop
  <2>1. KeepOrDrop => smooth /\ pc = "drop"
    BY DEF KeepOrDrop, Destroys
  <2> QED
    BY <2>1 DEF Undisturbed
<1>6. End \/ Look \/ Resume \/ AbortReceive \/ Stream \/ Landed => smooth
  BY DEF End, Look, Resume, AbortReceive, Stream, Landed
<1>7. View \/ Bookmark \/ Hold \/ Clear \/ Prune \/ PruneBookmarks => smooth
  BY DEF View, Bookmark, Hold, Clear, Destroys, Prune, PruneBookmarks
<1>8. ASSUME NEW m \in Members, SweepExcluded(m) \/ Begin(m) \/ UserDestroys(m) PROVE smooth
  BY <1>8 DEF SweepExcluded, Destroys, Begin, UserDestroys
<1>9. UNCHANGED vars => smooth
  BY DEF vars
<1> QED
  BY <1>1, <1>2, <1>3, <1>4, <1>5, <1>6, <1>7, <1>8, <1>9 DEF Next, Progress

\* Snapshots only leave the source while it runs, and the run's own does not.
LEMMA SmoothKeeps ==
  ASSUME TypeInv, IInv, Undisturbed, Followed, [Next]_vars, smooth', ~Start, NEW m \in Sent
  PROVE  /\ snap' = snap
         /\ snaps'[m] \subseteq snaps[m]
         /\ snap \in snaps[m] => snap \in snaps'[m]
         /\ snap \in copy[m] => snap \in copy'[m]
         /\ snap \in marks[m] => snap \in marks'[m]
         /\ snap \in held[m] => snap \in held'[m]
         /\ pc \notin {"view", "mark"} \/ m # member => marks'[m] \subseteq marks[m]
<1> USE Tables, RootIsSent
<1>1. CASE UNCHANGED vars \/ End \/ Look \/ Landed
  BY <1>1 DEF vars, source, target, End, Look, Landed
<1>2. CASE Resume \/ AbortReceive \/ Stream
  BY <1>2 DEF Resume, Completed, AbortReceive, Stream, source
<1>3. CASE View
  <2>1. marks' = [marks EXCEPT ![member] = @ \cup
                   ((copy[member] \cap (src.snaps \ src.marks)) \cap Newest(copy[member]))]
    BY <1>3 DEF View
  <2> QED
    BY <1>3, <2>1 DEF View, target
<1>4. CASE Bookmark \/ Hold
  BY <1>4 DEF Bookmark, Hold, target
<1>5. CASE Clear
  <2> DEFINE older == (src.snaps \cap (own \cup src.marks)) \ {snap}
  <2>1. /\ held' = [held EXCEPT ![member] = @ \ older]
        /\ Destroys(member, (older \ Spare(older)) \cap snaps[member])
        /\ UNCHANGED <<marks, copy, snap>>
    BY <1>5 DEF Clear, target
  <2>2. snap \notin older
    OBVIOUS
  <2> HIDE DEF older
  <2> QED
    BY <1>5, <2>1, <2>2, DestroysOnly DEF Clear
<1>6. CASE Prune
  BY <1>6 DEF Prune, source
<1>7. CASE PruneBookmarks
  BY <1>7 DEF PruneBookmarks, Unpaired, target
<1>8. ASSUME NEW n \in Members, SweepExcluded(n) PROVE snaps'[m] = snaps[m] /\ UNCHANGED <<copy, marks, held, snap>>
  BY <1>8, DestroysOnly DEF SweepExcluded, target
<1>9. ASSUME NEW n \in Members, Begin(n) PROVE UNCHANGED <<source, target, snap>>
  BY <1>9 DEF Begin
<1>10. ASSUME NEW n \in Members, UserDestroys(n)
       PROVE  /\ snaps'[m] \subseteq snaps[m]
              /\ snap \in snaps[m] => snap \in snaps'[m]
              /\ UNCHANGED <<marks, held, copy, snap>>
  BY <1>10, UserSparesTheNew DEF UserDestroys, target, IInv
<1> QED
  BY <1>1, <1>2, <1>3, <1>4, <1>5, <1>6, <1>7, <1>8, <1>9, <1>10, SmoothSteps
  DEF source, target

\* So a member that is done stays done.
LEMMA DoneStays ==
  ASSUME TypeInv, IInv, Undisturbed, Followed, [Next]_vars, smooth', ~Start,
         NEW m \in Sent, Done(m), pc \in {"idle", "next"} \/ m # member
  PROVE  Done(m)'
<1>1. /\ snap' = snap
      /\ snaps'[m] \subseteq snaps[m] /\ marks'[m] \subseteq marks[m]
      /\ snap \in copy'[m] \cap snaps'[m] \cap marks'[m] \cap held'[m]
  BY SmoothKeeps DEF Done, Anchored
<1>2. snaps'[Root] \subseteq snaps[Root]
  BY SmoothKeeps, RootIsSent
<1> QED
  BY <1>1, <1>2, DoneShrinks, RootIsSent

\* With the clearing, what is left of a member's own snapshots is few.
LEMMA ClearLeavesFew ==
  ASSUME TypeInv, IInv, Undisturbed, Followed, Clear, smooth'
  PROVE  Few(Recognised(member))'
<1> USE Tables
<1> DEFINE older == (src.snaps \cap (own \cup src.marks)) \ {snap}
<1>1. /\ Destroys(member, (older \ Spare(older)) \cap snaps[member])
      /\ pc = "clear" /\ UNCHANGED <<marks, snap, member, smooth>>
  BY DEF Clear, Destroys
<1>2. member \in Members /\ member \in Sent /\ Root \in Members /\ snap \in Snaps
  BY <1>1, RootIsSent DEF TypeInv, AtWork
<1>3. snaps' = [snaps EXCEPT ![member] = @ \ ((older \ Spare(older)) \cap snaps[member])]
  BY <1>1 DEF Destroys
<1>4. snaps[member] \subseteq src.snaps /\ snaps[Root] \subseteq own
  BY <1>1 DEF Followed, Undisturbed
<1>5. PICK r \in Snaps : marks[member] \subseteq src.marks \cup {r, snap}
  BY <1>1 DEF Followed
<1>6. older \in SUBSET Snaps
  <2>1. src.snaps \subseteq Snaps
    BY DEF TypeInv, TypeOK, Points
  <2> QED
    BY <2>1
<1>7. Spare(older) \in SUBSET Snaps /\ Cardinality(Spare(older)) < AtLeastOne(KeepOnSource)
  BY <1>6, SpareIsFew
<1>8. snaps'[Root] \subseteq own
  BY <1>2, <1>3, <1>4
<1>9. Recognised(member)' \subseteq Spare(older) \cup {r, snap}
  <2> SUFFICES ASSUME NEW s \in Recognised(member)', s # r, s # snap
               PROVE  s \in Spare(older)
    OBVIOUS
  <2>1. s \in snaps'[member] /\ (s \in marks[member] \/ s \in snaps'[Root])
    BY <1>1 DEF Recognised
  <2>2. s \in snaps[member]
    BY <1>2, <1>3, <2>1
  <2>3. s \in older
    BY <1>4, <1>5, <1>8, <2>1, <2>2
  <2> HIDE DEF older
  <2> QED
    BY <1>2, <1>3, <2>1, <2>2, <2>3
<1> HIDE DEF older
<1> QED
  BY <1>1, <1>5, <1>7, <1>9 DEF Few

\* Between steps on one member, and as members begin and end, the run goes on.
LEMMA UndisturbedPreserved ==
  ASSUME TypeInv, IInv, Undisturbed, Followed, [Next]_vars
  PROVE  Undisturbed'
<1> SUFFICES ASSUME smooth'
             PROVE  Undisturbed'
  BY DEF Undisturbed
<1> USE Tables, RootIsSent
<1>1. CASE Start
  BY <1>1 DEF Start, Undisturbed
<1>2. CASE ~Start
  <2>1. smooth
    BY <1>2, SmoothSteps
  <2>2. snap' = snap /\ snaps'[Root] \subseteq snaps[Root]
    BY <1>2, SmoothKeeps
  <2>3. \A m \in Sent : Done(m) /\ (pc \in {"idle", "next"} \/ m # member) => Done(m)'
    BY <1>2, DoneStays
  <2>4. ASSUME pc' = pc, UNCHANGED <<member, left, own, cancelled>>
        PROVE  Undisturbed'
    BY <2>1, <2>2, <2>3, <2>4 DEF Undisturbed
  <2>5. ASSUME pc \notin {"idle", "next", "drop"}, pc' \notin {"idle", "next", "drop"},
               UNCHANGED <<member, left, own, cancelled>>
        PROVE  Undisturbed'
    BY <2>1, <2>2, <2>3, <2>5 DEF Undisturbed
  <2>6. CASE UNCHANGED vars
    BY <2>4, <2>6 DEF vars, scratch
  <2>7. CASE End
    <3>1. \A m \in Sent : Done(m)'
      BY <2>1, <2>3, <2>7 DEF End, Undisturbed
    <3> QED
      BY <2>7, <3>1 DEF End, Undisturbed
  <2>8. CASE Look \/ Resume \/ AbortReceive \/ View
    BY <2>5, <2>8 DEF Look, Resume, AbortReceive, View, scratch
  <2>9. CASE Stream \/ Landed \/ Bookmark
    BY <2>5, <2>9 DEF Stream, Landed, Bookmark, scratch
  <2>10. CASE Hold \/ Clear \/ Prune
    BY <2>5, <2>10 DEF Hold, Clear, Prune, scratch
  <2>11. CASE PruneBookmarks
    <3>1. pc = "unmark" /\ pc' = "next" /\ UNCHANGED <<left, own, cancelled, snaps, held, copy>>
      BY <2>11 DEF PruneBookmarks, target
    <3>2. ASSUME NEW k \in Sent, k = member PROVE Done(k)'
      <4>1. /\ snap \in copy[k] /\ snap \in marks[k]
            /\ snap \in snaps[k] /\ snap \in held[k] /\ Few(Recognised(k))
        BY <2>1, <3>1, <3>2 DEF IInv, Progressed, Followed
      <4>2. snap \in marks'[k] /\ marks'[k] \subseteq marks[k]
        BY <2>11, <3>2, <4>1 DEF PruneBookmarks, Unpaired
      <4>3. k \in Members /\ Done(k)
        BY <4>1 DEF Done, Anchored
      <4> QED
        BY <2>2, <3>1, <4>1, <4>2, <4>3, DoneShrinks
    <3>3. \A m \in Sent \ left : m # member => Done(m)'
      BY <2>1, <2>3, <3>1 DEF Undisturbed
    <3>4. \A m \in Sent \ left' : Done(m)'
      BY <3>1, <3>2, <3>3
    <3> QED
      BY <2>1, <2>2, <3>1, <3>4 DEF Undisturbed
  <2>12. ASSUME NEW m \in Members, SweepExcluded(m) PROVE Undisturbed'
    <3>1. /\ pc = "next" /\ pc' = "next" /\ left' = left \ {m} /\ m \notin Sent
          /\ UNCHANGED <<own, cancelled>>
      BY <2>12 DEF SweepExcluded, scratch
    <3>2. \A n \in Sent \ left' : Done(n)'
      BY <2>1, <2>3, <3>1 DEF Undisturbed
    <3> QED
      BY <2>1, <2>2, <3>1, <3>2 DEF Undisturbed
  <2>13. ASSUME NEW m \in Members, Begin(m) PROVE Undisturbed'
    <3>1. /\ pc = "next" /\ pc' = "look" /\ left' = left \ {m} /\ member' = m
          /\ UNCHANGED <<own, cancelled>>
      BY <2>13 DEF Begin, scratch
    <3>2. \A n \in Sent \ left' : n # m => Done(n)'
      BY <2>1, <2>3, <3>1 DEF Undisturbed
    <3>3. m # Root => Root \notin left
      <4>1. \A n \in left : Place[m] <= Place[n]
        BY <2>13 DEF Begin, IsNext
      <4>2. m # Root => Place[Root] < Place[m] /\ Place[Root] \in Nat /\ Place[m] \in Nat
        BY ItemAssumption
      <4> QED
        BY <4>1, <4>2
    <3> QED
      BY <2>1, <2>2, <3>1, <3>2, <3>3 DEF Undisturbed
  <2>14. ASSUME NEW m \in Members, UserDestroys(m) PROVE Undisturbed'
    BY <2>4, <2>14 DEF UserDestroys, scratch
  <2> QED
    BY <1>2, <2>6, <2>7, <2>8, <2>9, <2>10, <2>11, <2>12, <2>13, <2>14, SmoothSteps
<1> QED
  BY <1>1, <1>2

\* What it has read covers what is there: on the source things only go, but
\* for the bookmarks it makes itself.
LEMMA FollowedPreserved ==
  ASSUME TypeInv, IInv, Undisturbed, Followed, [Next]_vars
  PROVE  Followed'
<1> SUFFICES ASSUME smooth'
             PROVE  Followed'
  BY DEF Followed
<1> USE Tables, RootIsSent
<1>1. CASE pc' \in {"idle", "next", "look"}
  BY <1>1 DEF Followed
<1>2. CASE pc' \notin {"idle", "next", "look"}
  <2>1. ~Start /\ ~End /\ ~PruneBookmarks /\ \A m \in Members : ~SweepExcluded(m) /\ ~Begin(m)
    BY <1>2 DEF Start, End, PruneBookmarks, SweepExcluded, Begin
  <2>2. smooth /\ snap' = snap
    BY <2>1, SmoothSteps, SmoothKeeps
  <2>3. CASE Look
    <3>1. /\ src' = [snaps |-> snaps[member], marks |-> marks[member]]
          /\ pc' \in {"send", "resume"} /\ UNCHANGED <<source, member, snap>>
          /\ member \in Members
      BY <2>3 DEF Look
    <3>2. src'.snaps = snaps[member] /\ src'.marks = marks[member]
      BY <3>1
    <3>3. snap \in Snaps
      BY <2>3 DEF Look, TypeInv, AtWork
    <3> QED
      BY <3>1, <3>2, <3>3 DEF Followed, source
  <2>4. CASE Resume \/ AbortReceive
    BY <2>2, <2>4 DEF Resume, AbortReceive, Followed, source, scratch
  <2>5. CASE View
    <3> DEFINE new == (copy[member] \cap (src.snaps \ src.marks)) \cap Newest(copy[member])
    <3>1. /\ marks' = [marks EXCEPT ![member] = @ \cup new]
          /\ pc = "view" /\ pc' = "send" /\ UNCHANGED <<snaps, held, member, snap, src>>
          /\ member \in Members
      BY <2>5 DEF View, scratch
    <3>2. marks[member] \subseteq src.marks /\ snaps[member] \subseteq src.snaps
      BY <2>2, <3>1 DEF Followed
    <3>3. copy[member] \in SUBSET Nat /\ src.snaps \in SUBSET Snaps /\ snap \in Snaps
      BY <3>1 DEF TypeInv, TypeOK, Points, AtWork
    <3>4. \A a, b \in new : a = b
      BY <3>3 DEF Newest
    <3>5. new \subseteq src.snaps
      OBVIOUS
    <3> HIDE DEF new
    <3>6. \E r \in Snaps : new \subseteq {r}
      BY <3>3, <3>4, <3>5
    <3>7. marks'[member] = marks[member] \cup new
      BY <3>1
    <3>8. marks'[member] \subseteq src.snaps \cup src.marks
      BY <3>2, <3>5, <3>7
    <3>9. \E r \in Snaps : marks'[member] \subseteq src.marks \cup {r, snap}
      BY <3>2, <3>6, <3>7
    <3> QED
      BY <3>1, <3>2, <3>8, <3>9 DEF Followed
  <2>6. CASE Stream \/ Landed
    BY <2>2, <2>6 DEF Stream, Landed, Followed, source
  <2>7. CASE Bookmark
    BY <2>2, <2>7 DEF Bookmark, Followed, scratch
  <2>8. CASE Hold
    BY <2>2, <2>8 DEF Hold, Followed, scratch
  <2>9. CASE Clear
    <3>1. Few(Recognised(member))'
      BY <2>9, ClearLeavesFew
    <3>2. /\ pc = "clear" /\ pc' = "prune" /\ member' = member /\ member \in Sent
      BY <2>9 DEF Clear
    <3>3. snap \in snaps[member] /\ snap \in held[member]
      BY <2>2, <3>2 DEF Followed
    <3>4. snap \in snaps'[member] /\ snap \in held'[member]
      BY <2>1, <3>2, <3>3, SmoothKeeps
    <3> QED
      BY <2>2, <3>1, <3>2, <3>4 DEF Followed
  <2>10. CASE Prune
    BY <2>2, <2>10 DEF Prune, Followed, source, Few, Recognised
  <2>11. ASSUME NEW n \in Members, UserDestroys(n) PROVE Followed'
    <3>1. UNCHANGED <<marks, held, copy, snap, pc, member, src>>
      BY <2>11 DEF UserDestroys, target, scratch
    <3>2. \A m \in Members : /\ snaps'[m] \subseteq snaps[m]
                             /\ snap \in snaps[m] => snap \in snaps'[m]
      BY <2>11, UserSparesTheNew DEF IInv
    <3>3. member \in Members
      BY <1>2, <3>1
    <3>4. Recognised(member)' \subseteq Recognised(member)
      BY <3>1, <3>2, <3>3 DEF Recognised
    <3>5. Few(Recognised(member)) => Few(Recognised(member))'
      BY <3>1, <3>4 DEF Few
    <3> QED
      BY <2>2, <3>1, <3>2, <3>3, <3>5 DEF Followed
  <2>12. CASE UNCHANGED vars
    BY <2>2, <2>12 DEF vars, source, target, scratch, Followed, Few, Recognised
  <2> QED
    BY <2>1, <2>3, <2>4, <2>5, <2>6, <2>7, <2>8, <2>9, <2>10, <2>11, <2>12, SmoothSteps
<1> QED
  BY <1>1, <1>2

\* All of it holds in every state, as long as the replica is switched off at
\* most once: a second time may take the base a run needs.
LEMMA UndisturbedAlways ==
  ASSUME MaxCleans <= 1
  PROVE  Spec => [](TypeInv /\ IInv /\ Undisturbed /\ Followed)
<1>1. Init => TypeInv /\ IInv /\ Undisturbed /\ Followed
  <2>1. Init => Undisturbed /\ Followed
    BY DEF Init, Undisturbed, Followed
  <2> QED
    BY <2>1, IInvStarts
<1>2. /\ TypeInv /\ IInv /\ Undisturbed /\ Followed
      /\ [Next]_vars
      => TypeInv' /\ IInv' /\ Undisturbed' /\ Followed'
  BY IInvStays, UndisturbedPreserved, FollowedPreserved
<1> QED
  BY <1>1, <1>2, PTL DEF Spec

\* After any history of broken, cancelled and killed runs, a run nothing
\* disturbs brings every member up to its snapshot and anchors it: its stream
\* always has a base the target has as its newest.
THEOREM UndisturbedLands ==
  ASSUME MaxCleans <= 1
  PROVE  Spec => []UndisturbedRunLands
<1>1. Undisturbed => UndisturbedRunLands
  BY DEF Undisturbed, Done, Anchored, UndisturbedRunLands
<1> QED
  BY <1>1, UndisturbedAlways, PTL

\* And it leaves no more of its own on the source than what is to be kept and
\* the snapshot it resumed, however many runs failed before it.
THEOREM ItsOwnDoesNotPileUp ==
  ASSUME MaxCleans <= 1
  PROVE  Spec => []NothingPilesUp
<1>1. TypeInv /\ IInv /\ Undisturbed => NothingPilesUp
  <2> SUFFICES ASSUME TypeInv, IInv, Undisturbed, pc = "idle", smooth, NEW m \in Sent
               PROVE  Cardinality(Recognised(m)) <= AtLeastOne(KeepOnSource) + 1
    BY DEF NothingPilesUp
  <2>1. CASE snap > 0
    <3>1. Few(Recognised(m)) /\ snap \in Snaps
      BY <2>1, BoundsAreNumbers DEF Undisturbed, Done, TypeInv, TypeOK, Snaps
    <3> QED
      BY <3>1, FewAreCounted
  <2>2. CASE snap = 0
    <3>1. snaps[m] = {}
      BY <2>2, RootIsSent DEF IInv, Known
    <3>2. Recognised(m) = {}
      BY <3>1 DEF Recognised
    <3> QED
      BY <3>2, FS_EmptySet, BoundsAreNumbers DEF AtLeastOne
  <2> QED
    BY <2>1, <2>2, Tables
<1> QED
  BY <1>1, UndisturbedAlways, PTL
=============================================================================
