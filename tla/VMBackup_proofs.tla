--------------------------- MODULE VMBackup_proofs ---------------------------
(***************************************************************************)
(* For any VMs, disks and folders, any calls that fail, and any number of  *)
(* backups, crashes and acts of users: no overlay in use loses its file,   *)
(* no disk is read while a guest writes to it, and a VM a backup shut down *)
(* is known to somebody.                                                   *)
(*                                                                         *)
(* The first is inductive as it stands.  The second needs what the steps   *)
(* before the read found, which only a user undoes: the lock keeps the     *)
(* late starts out.  The third must say of the guests on their way down    *)
(* what it says of those that are off, and, of one whose request failed,   *)
(* where the backup is that answers for it.                                *)
(***************************************************************************)
EXTENDS VMBackup, TLAPS

AtVM == pc \notin {"idle", "down", "boot", "bootClear"}
AtRun == AtVM /\ pc \notin {"late", "lateClear"}

\* The types, in two parts: what is counted, and the rest.
Numbers ==
    /\ run \in 0 .. MaxRuns
    /\ crashes \in 0 .. MaxCrashes
    /\ acts \in 0 .. MaxUserActs
    /\ watching \subseteq Watchers
    /\ starting \subseteq Watchers
    /\ AtRun => run \in 1 .. MaxRuns

Names ==
    /\ guest \in [VMs -> {"running", "in shutdown", "shut off", "undefined"}]
    /\ asked \in [VMs -> {"nobody", "user", "backup"}]
    /\ onOverlay \subseteq AllDisks
    /\ files \subseteq Paths
    /\ record \subseteq VMs
    /\ pending \subseteq VMs /\ still \subseteq VMs /\ going \subseteq VMs /\ done \subseteq VMs
    /\ told \subseteq VMs /\ ranOn \subseteq VMs /\ refused \subseteq VMs
    /\ nextBoot \subseteq VMs /\ touched \subseteq VMs
    /\ pc \in Steps
    /\ vm \in VMs \cup {None}
    /\ was \in BOOLEAN /\ shutting \in BOOLEAN /\ ctxDone \in BOOLEAN
    /\ err \in {"none", "failed", "restart"}
    /\ todo \subseteq AllDisks
    /\ live \in LiveSets
    /\ faults \in FaultSets
    /\ AtVM => vm \in VMs

TypeInv == Numbers /\ Names

LEMMA TypesAreParts ==
  ASSUME TypeInv
  PROVE  TypeOK
  BY DEF TypeInv, Numbers, Names, TypeOK, Watchers

LEMMA BoundsAreNumbers ==
  MaxRuns \in Nat /\ MaxCrashes \in Nat /\ MaxUserActs \in Nat
  BY HostAssumption

LEMMA DisksAreSome ==
  ASSUME NEW v \in VMs
  PROVE  Disks[v] \subseteq AllDisks /\ \A d \in AllDisks : OverlayPath[d] \in Paths
  BY DEF AllDisks, Paths

LEMMA Counts ==
  ASSUME NEW Bound \in Nat, NEW n \in 0 .. Bound, n < Bound
  PROVE  n + 1 \in 0 .. Bound /\ n + 1 \in 1 .. Bound
  OBVIOUS

LEMMA InitTyped ==
  ASSUME Init
  PROVE  TypeInv
<1>1. /\ guest \in [VMs -> {"running", "in shutdown", "shut off", "undefined"}]
      /\ asked \in [VMs -> {"nobody", "user", "backup"}]
  BY DEF Init
<1>2. run = 0 /\ crashes = 0 /\ acts = 0
  BY DEF Init
<1>3. run \in 0 .. MaxRuns /\ crashes \in 0 .. MaxCrashes /\ acts \in 0 .. MaxUserActs
  BY <1>2, BoundsAreNumbers
<1> QED
  BY <1>1, <1>3 DEF Init, TypeInv, Numbers, Names, Steps, AtVM, AtRun


\* Runs, crashes and acts are bounded, and a watch goes on a run there was.
LEMMA NumbersPreserved ==
  ASSUME Numbers, Names, [Next]_vars
  PROVE  Numbers'
<1>1. AtVM => vm \in VMs
  BY DEF Names
<1> USE DEF Numbers, AtVM, AtRun, watches, bounds, Goto, LetGo
<1>2. CASE Merged \/ Stray \/ Method \/ GivesUp \/ Check \/ Look \/ WaitOther \/ Mark \/ Shutdown \/ ShutdownFails \/ Wait \/ Read \/ Start \/ StartFails \/ Clear \/ Finish \/ Snapshot \/ SnapshotFails \/ ReadLive \/ Committed \/ Sweep \/ Cancel
  BY <1>2 DEF Merged, Stray, Method, GivesUp, Check, Look, WaitOther, Mark, Shutdown, ShutdownFails, Wait, Read, Start, StartFails, Clear, Finish, Snapshot, SnapshotFails, ReadLive, Committed, Sweep, Cancel
<1>3. CASE LateMoot \/ LateStart \/ LateFails \/ LateClear \/ Boot \/ BootAgain \/ BootEnds \/ BootClear
  BY <1>3 DEF LateMoot, LateStart, LateFails, LateClear, Boot, BootAgain, BootEnds, BootClear
<1>4. CASE Restart
  <2>1. ThisRun \in Watchers
    BY <1>4, <1>1 DEF Restart, ThisRun, Watchers
  <2> QED
    BY <1>4, <2>1 DEF Restart
<1>5. ASSUME NEW d \in AllDisks, Merge(d) PROVE Numbers'
  BY <1>5 DEF Merge
<1>6. ASSUME NEW d \in AllDisks, Commit(d) PROVE Numbers'
  BY <1>6 DEF Commit
<1>7. ASSUME NEW v \in VMs, BootStarts(v) PROVE Numbers'
  BY <1>7 DEF BootStarts
<1>8. ASSUME NEW v \in VMs, BootCannot(v) PROVE Numbers'
  BY <1>8 DEF BootCannot
<1>9. ASSUME NEW v \in VMs, BootLeaves(v) PROVE Numbers'
  BY <1>9 DEF BootLeaves
<1>10. CASE Crash
  <2>1. crashes' \in 0 .. MaxCrashes
    BY <1>10, Counts, BoundsAreNumbers DEF Crash
  <2> QED
    BY <1>10, <2>1 DEF Crash
<1>11. ASSUME NEW v \in VMs, Begin(v) PROVE Numbers'
  <2>1. run' \in 0 .. MaxRuns /\ run' \in 1 .. MaxRuns
    BY <1>11, Counts, BoundsAreNumbers DEF Begin
  <2> QED
    BY <1>11, <2>1 DEF Begin
<1>12. ASSUME NEW v \in VMs, GuestMoves(v) PROVE Numbers'
  BY <1>12 DEF GuestMoves
<1>13. ASSUME NEW v \in VMs, UserStarts(v) PROVE Numbers'
  <2>1. acts' \in 0 .. MaxUserActs
    BY <1>13, Counts, BoundsAreNumbers DEF UserStarts
  <2> QED
    BY <1>13, <2>1 DEF UserStarts
<1>14. ASSUME NEW v \in VMs, UserStops(v) PROVE Numbers'
  <2>1. acts' \in 0 .. MaxUserActs
    BY <1>14, Counts, BoundsAreNumbers DEF UserStops
  <2> QED
    BY <1>14, <2>1 DEF UserStops
<1>15. ASSUME NEW v \in VMs, UserUndefines(v) PROVE Numbers'
  <2>1. acts' \in 0 .. MaxUserActs
    BY <1>15, Counts, BoundsAreNumbers DEF UserUndefines
  <2> QED
    BY <1>15, <2>1 DEF UserUndefines
<1>16. ASSUME NEW w \in Watchers, WatchEnds(w) PROVE Numbers'
  BY <1>16 DEF WatchEnds, Drop
<1>17. ASSUME NEW w \in Watchers, WatchSeesOff(w) PROVE Numbers'
  BY <1>17 DEF WatchSeesOff, Drop
<1>18. ASSUME NEW w \in Watchers, WatchExpires(w) PROVE Numbers'
  BY <1>18 DEF WatchExpires, Drop
<1>19. ASSUME NEW w \in Watchers, LateLock(w) PROVE Numbers'
  BY <1>19 DEF LateLock
<1>20. CASE UNCHANGED vars
  BY <1>20 DEF vars
<1> QED
  BY <1>2, <1>3, <1>4, <1>5, <1>6, <1>7, <1>8, <1>9, <1>10, <1>11, <1>12, <1>13,
     <1>14, <1>15, <1>16, <1>17, <1>18, <1>19, <1>20
  DEF Next, Backup, Late, Recovery, User, Watch

\* The other variables keep their types.
LEMMA NamesPreserved ==
  ASSUME Names, [Next]_vars
  PROVE  Names'
<1> USE DEF Names, Steps, AtVM, host, sweep, backup, history, bounds, Goto, LetGo,
            Rests, Forgets, Fail
<1>1. CASE Merged
  BY <1>1 DEF Merged
<1>2. CASE Stray
  BY <1>2 DEF Stray, RemoveStray
<1>3. CASE Method
  BY <1>3 DEF Method
<1>4. CASE GivesUp
  BY <1>4 DEF GivesUp
<1>5. CASE Check
  BY <1>5 DEF Check
<1>6. CASE Look
  BY <1>6 DEF Look
<1>7. CASE WaitOther
  BY <1>7 DEF WaitOther
<1>8. CASE Mark
  BY <1>8 DEF Mark
<1>9. CASE Shutdown
  BY <1>9 DEF Shutdown
<1>10. CASE ShutdownFails
  BY <1>10 DEF ShutdownFails
<1>11. CASE Wait
  BY <1>11 DEF Wait
<1>12. CASE Read
  BY <1>12 DEF Read
<1>13. CASE Restart
  BY <1>13 DEF Restart
<1>14. CASE Start
  BY <1>14 DEF Start, StartsUp
<1>15. CASE StartFails
  BY <1>15 DEF StartFails
<1>16. CASE Clear
  BY <1>16 DEF Clear
<1>17. CASE Finish
  BY <1>17 DEF Finish
<1>18. CASE Snapshot
  <2>1. files' \subseteq Paths /\ onOverlay' \subseteq AllDisks
    BY <1>18, DisksAreSome DEF Snapshot
  <2> QED
    BY <1>18, <2>1 DEF Snapshot
<1>19. CASE SnapshotFails
  BY <1>19 DEF SnapshotFails
<1>20. CASE ReadLive
  BY <1>20, DisksAreSome DEF ReadLive
<1>21. CASE Committed
  BY <1>21 DEF Committed
<1>22. CASE Sweep
  BY <1>22 DEF Sweep, RemoveStray
<1>23. ASSUME NEW d \in AllDisks, Merge(d) PROVE Names'
  BY <1>23 DEF Merge, Pivots
<1>24. ASSUME NEW d \in AllDisks, Commit(d) PROVE Names'
  BY <1>24 DEF Commit, Pivots
<1>25. CASE Cancel
  BY <1>25 DEF Cancel
<1>26. CASE LateMoot
  BY <1>26 DEF LateMoot
<1>27. CASE LateStart
  BY <1>27 DEF LateStart, StartsUp
<1>28. CASE LateFails
  BY <1>28 DEF LateFails
<1>29. CASE LateClear
  BY <1>29 DEF LateClear
<1>30. CASE Boot
  BY <1>30 DEF Boot
<1>31. CASE BootAgain
  BY <1>31 DEF BootAgain
<1>32. CASE BootEnds
  BY <1>32 DEF BootEnds, BootForgets, RunsOn
<1>33. CASE BootClear
  BY <1>33 DEF BootClear
<1>34. ASSUME NEW v \in VMs, BootStarts(v) PROVE Names'
  BY <1>34 DEF BootStarts, StartsUp
<1>35. ASSUME NEW v \in VMs, BootCannot(v) PROVE Names'
  BY <1>35 DEF BootCannot
<1>36. ASSUME NEW v \in VMs, BootLeaves(v) PROVE Names'
  BY <1>36 DEF BootLeaves
<1>37. CASE Crash
  BY <1>37 DEF Crash
<1>38. ASSUME NEW v \in VMs, Begin(v) PROVE Names'
  BY <1>38, DisksAreSome DEF Begin
<1>39. ASSUME NEW v \in VMs, GuestMoves(v) PROVE Names'
  <2>1. guest' \in [VMs -> {"running", "in shutdown", "shut off", "undefined"}]
    BY <1>39 DEF GuestMoves
  <2>2. UNCHANGED <<asked, onOverlay, files, record, pc, vm, backup, sweep, bounds, history>>
    BY <1>39 DEF GuestMoves
  <2> QED
    BY <2>1, <2>2
<1>40. ASSUME NEW v \in VMs, UserStarts(v) PROVE Names'
  BY <1>40 DEF UserStarts, StartsUp
<1>41. ASSUME NEW v \in VMs, UserStops(v) PROVE Names'
  BY <1>41 DEF UserStops
<1>42. ASSUME NEW v \in VMs, UserUndefines(v) PROVE Names'
  BY <1>42 DEF UserUndefines
<1>43. ASSUME NEW w \in Watchers, WatchEnds(w) PROVE Names'
  BY <1>43 DEF WatchEnds
<1>44. ASSUME NEW w \in Watchers, WatchSeesOff(w) PROVE Names'
  BY <1>44 DEF WatchSeesOff
<1>45. ASSUME NEW w \in Watchers, WatchExpires(w) PROVE Names'
  <2>1. w[1] \in VMs
    BY DEF Watchers
  <2>2. record' \subseteq VMs /\ ranOn' \subseteq VMs
    BY <1>45, <2>1 DEF WatchExpires
  <2>3. UNCHANGED <<host, pc, vm, backup, sweep, bounds, told, refused, nextBoot, touched>>
    BY <1>45 DEF WatchExpires
  <2> QED
    BY <2>2, <2>3
<1>46. ASSUME NEW w \in Watchers, LateLock(w) PROVE Names'
  <2>1. w[1] \in VMs
    BY DEF Watchers
  <2> QED
    BY <1>46, <2>1 DEF LateLock
<1>47. CASE UNCHANGED vars
  BY <1>47 DEF vars
<1> QED
  BY <1>1, <1>2, <1>3, <1>4, <1>5, <1>6, <1>7, <1>8, <1>9, <1>10, <1>11, <1>12,
     <1>13, <1>14, <1>15, <1>16, <1>17, <1>18, <1>19, <1>20, <1>21, <1>22, <1>23,
     <1>24, <1>25, <1>26, <1>27, <1>28, <1>29, <1>30, <1>31, <1>32, <1>33, <1>34,
     <1>35, <1>36, <1>37, <1>38, <1>39, <1>40, <1>41, <1>42, <1>43, <1>44, <1>45,
     <1>46, <1>47
  DEF Next, Backup, Late, Recovery, User, Watch

LEMMA TypePreserved ==
  ASSUME TypeInv, [Next]_vars
  PROVE  TypeInv'
  BY NumbersPreserved, NamesPreserved DEF TypeInv

\* The variables of the backups keep their types.
THEOREM TypeCorrect == Spec => []TypeOK
<1>1. Init => TypeInv
  BY InitTyped
<1>2. TypeInv /\ [Next]_vars => TypeInv'
  BY TypePreserved
<1>3. TypeInv => TypeOK
  BY TypesAreParts
<1> QED
  BY <1>1, <1>2, <1>3, PTL DEF Spec

----------------------------------------------------------------------------
(* Overlays *)

\* A disk leaves its overlay before the file goes, in every step.
LEMMA OverlayPreserved ==
  ASSUME TypeInv, OverlayIsThere, [Next]_vars
  PROVE  OverlayIsThere'
<1> USE DEF OverlayIsThere, host
<1>1. CASE GivesUp \/ Merged \/ Method \/ Check \/ Look \/ WaitOther \/ Mark \/ Shutdown \/ ShutdownFails \/ Wait \/ Read \/ Restart \/ Start \/ StartFails \/ Clear \/ Finish \/ SnapshotFails \/ ReadLive \/ Committed
  BY <1>1 DEF GivesUp, Merged, Method, Check, Look, WaitOther, Mark, Shutdown, ShutdownFails, Wait, Read, Restart, Start, StartFails, Clear, Finish, SnapshotFails, ReadLive, Committed
<1>2. CASE Cancel \/ LateMoot \/ LateStart \/ LateFails \/ LateClear \/ Boot \/ BootAgain \/ BootEnds \/ BootClear \/ Crash
  BY <1>2 DEF Cancel, LateMoot, LateStart, LateFails, LateClear, Boot, BootAgain, BootEnds, BootClear, Crash
<1>3. CASE Stray
  BY <1>3 DEF Stray, RemoveStray, InUse
<1>4. CASE Snapshot
  BY <1>4 DEF Snapshot
<1>5. CASE Sweep
  BY <1>5 DEF Sweep, RemoveStray, InUse
<1>6. ASSUME NEW d \in AllDisks, Merge(d) PROVE OverlayIsThere'
  BY <1>6 DEF Merge, Pivots
<1>7. ASSUME NEW d \in AllDisks, Commit(d) PROVE OverlayIsThere'
  BY <1>7 DEF Commit, Pivots
<1>8. ASSUME NEW v \in VMs, BootStarts(v) PROVE OverlayIsThere'
  BY <1>8 DEF BootStarts
<1>9. ASSUME NEW v \in VMs, BootCannot(v) PROVE OverlayIsThere'
  BY <1>9 DEF BootCannot
<1>10. ASSUME NEW v \in VMs, BootLeaves(v) PROVE OverlayIsThere'
  BY <1>10 DEF BootLeaves
<1>11. ASSUME NEW v \in VMs, Begin(v) PROVE OverlayIsThere'
  BY <1>11 DEF Begin
<1>12. ASSUME NEW v \in VMs, GuestMoves(v) PROVE OverlayIsThere'
  BY <1>12 DEF GuestMoves
<1>13. ASSUME NEW v \in VMs, UserStarts(v) PROVE OverlayIsThere'
  BY <1>13 DEF UserStarts
<1>14. ASSUME NEW v \in VMs, UserStops(v) PROVE OverlayIsThere'
  BY <1>14 DEF UserStops
<1>15. ASSUME NEW v \in VMs, UserUndefines(v) PROVE OverlayIsThere'
  BY <1>15 DEF UserUndefines
<1>16. ASSUME NEW w \in Watchers, WatchEnds(w) PROVE OverlayIsThere'
  BY <1>16 DEF WatchEnds
<1>17. ASSUME NEW w \in Watchers, WatchSeesOff(w) PROVE OverlayIsThere'
  BY <1>17 DEF WatchSeesOff
<1>18. ASSUME NEW w \in Watchers, WatchExpires(w) PROVE OverlayIsThere'
  BY <1>18 DEF WatchExpires
<1>19. ASSUME NEW w \in Watchers, LateLock(w) PROVE OverlayIsThere'
  BY <1>19 DEF LateLock
<1>20. CASE UNCHANGED vars
  BY <1>20 DEF vars
<1> QED
  BY <1>1, <1>2, <1>3, <1>4, <1>5, <1>6, <1>7, <1>8, <1>9, <1>10, <1>11, <1>12,
     <1>13, <1>14, <1>15, <1>16, <1>17, <1>18, <1>19, <1>20
  DEF Next, Backup, Late, Recovery, User, Watch

\* No disk in use on an overlay ever loses the file: not to the sweep after a
\* backup, nor to the sweep before the backup of another VM in its folder.
THEOREM OverlaysStay == Spec => []OverlayIsThere
<1>1. Init => TypeInv /\ OverlayIsThere
  BY InitTyped DEF Init, OverlayIsThere
<1>2. TypeInv /\ OverlayIsThere /\ [Next]_vars => TypeInv' /\ OverlayIsThere'
  BY TypePreserved, OverlayPreserved
<1> QED
  BY <1>1, <1>2, PTL DEF Spec

----------------------------------------------------------------------------
(* What is read is still *)

\* What is on an overlay when a backup begins is merged or the backup ends; the
\* guest found off, or on its way there, is not started but by the user.
Still ==
    /\ pc = "merge" => Disks[vm] \cap onOverlay \subseteq todo
    /\ pc \in {"stray", "method", "check", "look", "waitOther", "mark", "shutdown", "wait",
               "read"} => Disks[vm] \cap onOverlay = {}
    /\ pc = "look" => guest[vm] # "running" \/ vm \in touched
    /\ pc = "read" => \/ guest[vm] \in {"shut off", "undefined"}
                      \/ vm \in touched
                      \/ "state" \in faults \/ ctxDone
    /\ pc = "readLive" => Disks[vm] \subseteq onOverlay \/ guest[vm] = "undefined"

LEMMA StillPreserved ==
  ASSUME TypeInv, Still, [Next]_vars
  PROVE  Still'
<1>1. /\ guest \in [VMs -> {"running", "in shutdown", "shut off", "undefined"}]
      /\ AtVM => vm \in VMs
  BY DEF TypeInv, Numbers, Names
<1> USE <1>1 DEF Still, AtVM, host, backup, bounds, history, Goto, LetGo, Rests
<1>2. CASE Merged
  BY <1>2 DEF Merged
<1>3. CASE Stray
  BY <1>3 DEF Stray
<1>4. CASE Method
  BY <1>4 DEF Method
<1>5. CASE GivesUp
  BY <1>5 DEF GivesUp
<1>6. CASE Check
  BY <1>6 DEF Check, Fail
<1>7. CASE Look
  BY <1>7 DEF Look, Breaks, Fails
<1>8. CASE WaitOther
  BY <1>8 DEF WaitOther, Fail
<1>9. CASE Mark
  BY <1>9 DEF Mark
<1>10. CASE Shutdown
  BY <1>10 DEF Shutdown
<1>11. CASE ShutdownFails
  BY <1>11 DEF ShutdownFails
<1>12. CASE Wait
  BY <1>12 DEF Wait
<1>13. CASE Read
  BY <1>13 DEF Read
<1>14. CASE Restart
  BY <1>14 DEF Restart
<1>15. CASE Start
  BY <1>15 DEF Start, StartsUp
<1>16. CASE StartFails
  BY <1>16 DEF StartFails
<1>17. CASE Clear
  BY <1>17 DEF Clear
<1>18. CASE Finish
  BY <1>18 DEF Finish
<1>19. CASE Snapshot
  BY <1>19 DEF Snapshot
<1>20. CASE SnapshotFails
  BY <1>20 DEF SnapshotFails, Fail
<1>21. CASE ReadLive
  BY <1>21 DEF ReadLive
<1>22. CASE Committed
  BY <1>22 DEF Committed
<1>23. CASE Sweep
  BY <1>23 DEF Sweep
<1>24. ASSUME NEW d \in AllDisks, Merge(d) PROVE Still'
  BY <1>24 DEF Merge, Pivots
<1>25. ASSUME NEW d \in AllDisks, Commit(d) PROVE Still'
  BY <1>25 DEF Commit, Pivots
<1>26. CASE Cancel
  BY <1>26 DEF Cancel
<1>27. CASE LateMoot
  BY <1>27 DEF LateMoot
<1>28. CASE LateStart
  BY <1>28 DEF LateStart, StartsUp
<1>29. CASE LateFails
  BY <1>29 DEF LateFails
<1>30. CASE LateClear
  BY <1>30 DEF LateClear
<1>31. CASE Boot
  BY <1>31 DEF Boot
<1>32. CASE BootAgain
  BY <1>32 DEF BootAgain
<1>33. CASE BootEnds
  BY <1>33 DEF BootEnds
<1>34. CASE BootClear
  BY <1>34 DEF BootClear
<1>35. ASSUME NEW v \in VMs, BootStarts(v) PROVE Still'
  BY <1>35 DEF BootStarts, StartsUp
<1>36. ASSUME NEW v \in VMs, BootCannot(v) PROVE Still'
  BY <1>36 DEF BootCannot
<1>37. ASSUME NEW v \in VMs, BootLeaves(v) PROVE Still'
  BY <1>37 DEF BootLeaves
<1>38. CASE Crash
  BY <1>38 DEF Crash
<1>39. ASSUME NEW v \in VMs, Begin(v) PROVE Still'
  BY <1>39 DEF Begin
<1>40. ASSUME NEW v \in VMs, GuestMoves(v) PROVE Still'
  BY <1>40 DEF GuestMoves
<1>41. ASSUME NEW v \in VMs, UserStarts(v) PROVE Still'
  BY <1>41 DEF UserStarts, StartsUp
<1>42. ASSUME NEW v \in VMs, UserStops(v) PROVE Still'
  BY <1>42 DEF UserStops
<1>43. ASSUME NEW v \in VMs, UserUndefines(v) PROVE Still'
  <2>1. v # vm /\ AtVM => Disks[vm] \cap Disks[v] = {}
    BY HostAssumption
  <2> QED
    BY <1>43, <2>1 DEF UserUndefines
<1>44. ASSUME NEW w \in Watchers, WatchEnds(w) PROVE Still'
  BY <1>44 DEF WatchEnds
<1>45. ASSUME NEW w \in Watchers, WatchSeesOff(w) PROVE Still'
  BY <1>45 DEF WatchSeesOff
<1>46. ASSUME NEW w \in Watchers, WatchExpires(w) PROVE Still'
  BY <1>46 DEF WatchExpires
<1>47. ASSUME NEW w \in Watchers, LateLock(w) PROVE Still'
  BY <1>47 DEF LateLock
<1>48. CASE UNCHANGED vars
  BY <1>48 DEF vars
<1> QED
  BY <1>2, <1>3, <1>4, <1>5, <1>6, <1>7, <1>8, <1>9, <1>10, <1>11, <1>12, <1>13,
     <1>14, <1>15, <1>16, <1>17, <1>18, <1>19, <1>20, <1>21, <1>22, <1>23, <1>24,
     <1>25, <1>26, <1>27, <1>28, <1>29, <1>30, <1>31, <1>32, <1>33, <1>34, <1>35,
     <1>36, <1>37, <1>38, <1>39, <1>40, <1>41, <1>42, <1>43, <1>44, <1>45, <1>46,
     <1>47, <1>48
  DEF Next, Backup, Late, Recovery, User, Watch

\* A graceful backup reads disks that have all of the VM's data and no writer but
\* a guest the user has started; a live one reads below every overlay.
THEOREM ReadsAreStill == Spec => []ReadIsStill
<1>1. Init => TypeInv /\ Still
  BY InitTyped DEF Init, Still
<1>2. TypeInv /\ Still /\ [Next]_vars => TypeInv' /\ Still'
  BY TypePreserved, StillPreserved
<1>3. Still => ReadIsStill
  BY DEF Still, ReadIsStill
<1> QED
  BY <1>1, <1>2, <1>3, PTL DEF Spec

----------------------------------------------------------------------------
(* What is off is known *)

\* Where a late answer cannot mislead it, the program has not counted v as up.
Counted(v) == v \in ranOn \/ (v \in refused /\ crashes > 0)

OnRecord(v) == asked[v] = "backup" /\ ~Counted(v) => v \in record \cup told

\* A VM a backup has asked to shut down is on record or told of from the request
\* on.  If the request failed, its own backup still has it in hand.
Answered ==
    /\ \A v \in VMs : OnRecord(v) \/ (v \in refused /\ InHand(v))
    /\ pc = "shutdown" => vm \in record \cup ranOn
    /\ pc \in {"shutdown", "wait"} => vm \notin refused
    /\ pc = "restart" /\ shutting => vm \notin refused
    /\ shutting => pc \in {"wait", "restart", "start", "clear", "finish"}
    /\ err = "restart" => pc = "finish"
    /\ pc = "finish" /\ err # "restart" => OnRecord(vm)
    /\ pc \in {"clear", "lateClear"} => asked[vm] # "backup"

\* The sweep drops records of VMs it has started, or counts as running on.
Swept ==
    /\ done # {} => pc \in {"boot", "bootClear"}
    /\ \A v \in done : asked[v] = "backup" => v \in ranOn
    /\ \A v \in VMs : guest[v] = "undefined" => asked[v] = "nobody"

LEMMA CrashCounts ==
  ASSUME TypeInv
  PROVE  crashes \in Nat /\ crashes + 1 > 0 /\ (crashes > 0 \/ crashes = 0)
<1>1. crashes \in 0 .. MaxCrashes
  BY DEF TypeInv, Numbers, Names
<1> QED
  BY <1>1, BoundsAreNumbers

LEMMA AnsweredPreserved ==
  ASSUME TypeInv, "mark" \notin faults, Answered, Swept, [Next]_vars
  PROVE  Answered' /\ Swept'
<1>1. /\ guest \in [VMs -> {"running", "in shutdown", "shut off", "undefined"}]
      /\ asked \in [VMs -> {"nobody", "user", "backup"}]
      /\ AtVM => vm \in VMs
      /\ done \subseteq VMs
  BY DEF TypeInv, Numbers, Names
<1> USE <1>1 DEF Answered, Swept, OnRecord, Counted, InHand, AtVM, host, backup, sweep, bounds,
                 history, Goto, LetGo, Rests, Forgets, Fails, Fail
<1>2. CASE Merged
  BY <1>2 DEF Merged
<1>3. CASE Stray
  BY <1>3 DEF Stray
<1>4. CASE Method
  BY <1>4 DEF Method
<1>5. CASE GivesUp
  BY <1>5 DEF GivesUp
<1>6. CASE Check
  BY <1>6 DEF Check
<1>7. CASE Look
  BY <1>7 DEF Look
<1>8. CASE WaitOther
  BY <1>8 DEF WaitOther
<1>9. CASE Mark
  BY <1>9 DEF Mark
<1>10. CASE Shutdown
  BY <1>10 DEF Shutdown, TakesRequest
<1>11. CASE ShutdownFails
  BY <1>11 DEF ShutdownFails, TakesRequest
<1>12. CASE Wait
  BY <1>12 DEF Wait
<1>13. CASE Read
  BY <1>13 DEF Read
<1>14. CASE Restart
  BY <1>14 DEF Restart
<1>15. CASE Start
  BY <1>15 DEF Start, StartsUp
<1>16. CASE StartFails
  BY <1>16 DEF StartFails
<1>17. CASE Clear
  BY <1>17 DEF Clear
<1>18. CASE Finish
  BY <1>18 DEF Finish
<1>19. CASE Snapshot
  BY <1>19 DEF Snapshot
<1>20. CASE SnapshotFails
  BY <1>20 DEF SnapshotFails
<1>21. CASE ReadLive
  BY <1>21 DEF ReadLive
<1>22. CASE Committed
  BY <1>22 DEF Committed
<1>23. CASE Sweep
  BY <1>23 DEF Sweep
<1>24. ASSUME NEW d \in AllDisks, Merge(d) PROVE Answered' /\ Swept'
  BY <1>24 DEF Merge, Pivots
<1>25. ASSUME NEW d \in AllDisks, Commit(d) PROVE Answered' /\ Swept'
  BY <1>25 DEF Commit, Pivots
<1>26. CASE Cancel
  BY <1>26 DEF Cancel
<1>27. CASE LateMoot
  BY <1>27 DEF LateMoot
<1>28. CASE LateStart
  BY <1>28 DEF LateStart, StartsUp
<1>29. CASE LateFails
  BY <1>29 DEF LateFails
<1>30. CASE LateClear
  BY <1>30 DEF LateClear
<1>31. CASE Boot
  BY <1>31 DEF Boot
<1>32. CASE BootAgain
  BY <1>32 DEF BootAgain
<1>33. CASE BootEnds
  BY <1>33 DEF BootEnds, BootForgets, RunsOn
<1>34. CASE BootClear
  BY <1>34 DEF BootClear
<1>35. ASSUME NEW v \in VMs, BootStarts(v) PROVE Answered' /\ Swept'
  BY <1>35 DEF BootStarts, StartsUp
<1>36. ASSUME NEW v \in VMs, BootCannot(v) PROVE Answered' /\ Swept'
  BY <1>36 DEF BootCannot
<1>37. ASSUME NEW v \in VMs, BootLeaves(v) PROVE Answered' /\ Swept'
  BY <1>37 DEF BootLeaves
<1>38. CASE Crash
  <2>1. crashes' > 0
    BY <1>38, CrashCounts DEF Crash
  <2> QED
    BY <1>38, <2>1 DEF Crash
<1>39. ASSUME NEW v \in VMs, Begin(v) PROVE Answered' /\ Swept'
  BY <1>39 DEF Begin
<1>40. ASSUME NEW v \in VMs, GuestMoves(v) PROVE Answered' /\ Swept'
  BY <1>40 DEF GuestMoves
<1>41. ASSUME NEW v \in VMs, UserStarts(v) PROVE Answered' /\ Swept'
  BY <1>41 DEF UserStarts, StartsUp
<1>42. ASSUME NEW v \in VMs, UserStops(v) PROVE Answered' /\ Swept'
  BY <1>42 DEF UserStops
<1>43. ASSUME NEW v \in VMs, UserUndefines(v) PROVE Answered' /\ Swept'
  BY <1>43 DEF UserUndefines
<1>44. ASSUME NEW w \in Watchers, WatchEnds(w) PROVE Answered' /\ Swept'
  BY <1>44 DEF WatchEnds
<1>45. ASSUME NEW w \in Watchers, WatchSeesOff(w) PROVE Answered' /\ Swept'
  BY <1>45 DEF WatchSeesOff
<1>46. ASSUME NEW w \in Watchers, WatchExpires(w) PROVE Answered' /\ Swept'
  BY <1>46 DEF WatchExpires
<1>47. ASSUME NEW w \in Watchers, LateLock(w) PROVE Answered' /\ Swept'
  BY <1>47 DEF LateLock
<1>48. CASE UNCHANGED vars
  BY <1>48 DEF vars
<1> QED
  BY <1>2, <1>3, <1>4, <1>5, <1>6, <1>7, <1>8, <1>9, <1>10, <1>11, <1>12, <1>13,
     <1>14, <1>15, <1>16, <1>17, <1>18, <1>19, <1>20, <1>21, <1>22, <1>23, <1>24,
     <1>25, <1>26, <1>27, <1>28, <1>29, <1>30, <1>31, <1>32, <1>33, <1>34, <1>35,
     <1>36, <1>37, <1>38, <1>39, <1>40, <1>41, <1>42, <1>43, <1>44, <1>45, <1>46,
     <1>47, <1>48
  DEF Next, Backup, Late, Recovery, User, Watch

\* What the environment is never changes.
LEMMA FaultsStay ==
  ASSUME [Next]_vars
  PROVE  faults' = faults
<1> USE DEF bounds
<1>1. CASE Merged
  BY <1>1 DEF Merged
<1>2. CASE Stray
  BY <1>2 DEF Stray
<1>3. CASE Method
  BY <1>3 DEF Method
<1>4. CASE GivesUp
  BY <1>4 DEF GivesUp
<1>5. CASE Check
  BY <1>5 DEF Check
<1>6. CASE Look
  BY <1>6 DEF Look
<1>7. CASE WaitOther
  BY <1>7 DEF WaitOther
<1>8. CASE Mark
  BY <1>8 DEF Mark
<1>9. CASE Shutdown
  BY <1>9 DEF Shutdown
<1>10. CASE ShutdownFails
  BY <1>10 DEF ShutdownFails
<1>11. CASE Wait
  BY <1>11 DEF Wait
<1>12. CASE Read
  BY <1>12 DEF Read
<1>13. CASE Restart
  BY <1>13 DEF Restart
<1>14. CASE Start
  BY <1>14 DEF Start
<1>15. CASE StartFails
  BY <1>15 DEF StartFails
<1>16. CASE Clear
  BY <1>16 DEF Clear
<1>17. CASE Finish
  BY <1>17 DEF Finish
<1>18. CASE Snapshot
  BY <1>18 DEF Snapshot
<1>19. CASE SnapshotFails
  BY <1>19 DEF SnapshotFails
<1>20. CASE ReadLive
  BY <1>20 DEF ReadLive
<1>21. CASE Committed
  BY <1>21 DEF Committed
<1>22. CASE Sweep
  BY <1>22 DEF Sweep
<1>23. ASSUME NEW d \in AllDisks, Merge(d) PROVE faults' = faults
  BY <1>23 DEF Merge
<1>24. ASSUME NEW d \in AllDisks, Commit(d) PROVE faults' = faults
  BY <1>24 DEF Commit
<1>25. CASE Cancel
  BY <1>25 DEF Cancel
<1>26. CASE LateMoot
  BY <1>26 DEF LateMoot
<1>27. CASE LateStart
  BY <1>27 DEF LateStart
<1>28. CASE LateFails
  BY <1>28 DEF LateFails
<1>29. CASE LateClear
  BY <1>29 DEF LateClear
<1>30. CASE Boot
  BY <1>30 DEF Boot
<1>31. CASE BootAgain
  BY <1>31 DEF BootAgain
<1>32. CASE BootEnds
  BY <1>32 DEF BootEnds
<1>33. CASE BootClear
  BY <1>33 DEF BootClear
<1>34. ASSUME NEW v \in VMs, BootStarts(v) PROVE faults' = faults
  BY <1>34 DEF BootStarts
<1>35. ASSUME NEW v \in VMs, BootCannot(v) PROVE faults' = faults
  BY <1>35 DEF BootCannot
<1>36. ASSUME NEW v \in VMs, BootLeaves(v) PROVE faults' = faults
  BY <1>36 DEF BootLeaves
<1>37. CASE Crash
  BY <1>37 DEF Crash
<1>38. ASSUME NEW v \in VMs, Begin(v) PROVE faults' = faults
  BY <1>38 DEF Begin
<1>39. ASSUME NEW v \in VMs, GuestMoves(v) PROVE faults' = faults
  BY <1>39 DEF GuestMoves
<1>40. ASSUME NEW v \in VMs, UserStarts(v) PROVE faults' = faults
  BY <1>40 DEF UserStarts
<1>41. ASSUME NEW v \in VMs, UserStops(v) PROVE faults' = faults
  BY <1>41 DEF UserStops
<1>42. ASSUME NEW v \in VMs, UserUndefines(v) PROVE faults' = faults
  BY <1>42 DEF UserUndefines
<1>43. ASSUME NEW w \in Watchers, WatchEnds(w) PROVE faults' = faults
  BY <1>43 DEF WatchEnds
<1>44. ASSUME NEW w \in Watchers, WatchSeesOff(w) PROVE faults' = faults
  BY <1>44 DEF WatchSeesOff
<1>45. ASSUME NEW w \in Watchers, WatchExpires(w) PROVE faults' = faults
  BY <1>45 DEF WatchExpires
<1>46. ASSUME NEW w \in Watchers, LateLock(w) PROVE faults' = faults
  BY <1>46 DEF LateLock
<1>47. CASE UNCHANGED vars
  BY <1>47 DEF vars
<1> QED
  BY <1>1, <1>2, <1>3, <1>4, <1>5, <1>6, <1>7, <1>8, <1>9, <1>10, <1>11, <1>12,
     <1>13, <1>14, <1>15, <1>16, <1>17, <1>18, <1>19, <1>20, <1>21, <1>22, <1>23,
     <1>24, <1>25, <1>26, <1>27, <1>28, <1>29, <1>30, <1>31, <1>32, <1>33, <1>34,
     <1>35, <1>36, <1>37, <1>38, <1>39, <1>40, <1>41, <1>42, <1>43, <1>44, <1>45,
     <1>46, <1>47
  DEF Next, Backup, Late, Recovery, User, Watch

\* Through timeouts, cancels, failed starts, lost answers and crashes, a VM a
\* backup shut down is on record, told of, or in the hands of a backup.
THEOREM OffStaysKnown == Spec => []OffIsKnown
<1> DEFINE Inv == TypeInv /\ ("mark" \notin faults => Answered /\ Swept)
<1>1. Init => Inv
  BY InitTyped DEF Init, Answered, Swept, OnRecord
<1>2. Inv /\ [Next]_vars => Inv'
  BY TypePreserved, AnsweredPreserved, FaultsStay
<1>3. Inv => OffIsKnown
  <2> SUFFICES ASSUME Inv, NEW v \in VMs, OffByBackup(v), v \notin ranOn, "mark" \notin faults,
                      v \in refused => crashes = 0
               PROVE  v \in record \cup told \/ InHand(v)
    BY DEF OffIsKnown
  <2>1. OnRecord(v) \/ InHand(v)
    BY DEF Answered
  <2>2. ~Counted(v)
    BY CrashCounts DEF Counted
  <2> QED
    BY <2>1, <2>2 DEF OnRecord, OffByBackup
<1> QED
  BY <1>1, <1>2, <1>3, PTL DEF Spec
=============================================================================
