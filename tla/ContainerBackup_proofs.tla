----------------------- MODULE ContainerBackup_proofs -----------------------
(***************************************************************************)
(* Proofs about ContainerBackup, for every set of containers, every choice *)
(* of failing calls and every number of crashes: the variables keep their  *)
(* types, what is read is down, what the program holds down is on record,  *)
(* what does not come back is told, and what Docker starts comes back.     *)
(***************************************************************************)
EXTENDS ContainerBackup, TLAPS

-----------------------------------------------------------------------------
(* Types *)

\* The values at the start have their types.
LEMMA TypeInit == Init => TypeOK
<1> SUFFICES ASSUME Init
             PROVE  TypeOK
  OBVIOUS
<1>1. crashes \in 0 .. MaxCrashes
  BY ChoicesAssumption DEF Init
<1>2. pc \in Steps
  BY DEF Init, Steps
<1>3. QED
  BY <1>1, <1>2 DEF Init, TypeOK

\* Every step, of the program, of Docker and of the user, keeps the types.
LEMMA TypeStep == TypeOK /\ [Next]_vars => TypeOK'
<1> USE DepsAssumption, ChoicesAssumption
    DEF Steps, Containers, vars, docker, ids, disk, config, results, signals,
     user, bounds, history, memory
<1> SUFFICES ASSUME TypeOK, [Next]_vars
             PROVE  TypeOK'
  OBVIOUS
<1>1. ASSUME NEW s \in Snapshots, NEW u \in Updates, Begin(s, u)
      PROVE  TypeOK'
  BY <1>1 DEF Begin, TypeOK, RunningNow
<1>2. CASE Defer
  BY <1>2 DEF Defer, TypeOK, FreshMemory
<1>3. CASE PreflightFails
  BY <1>3 DEF PreflightFails, TypeOK, FreshMemory
<1>4. CASE PreflightPasses
  BY <1>4 DEF PreflightPasses, Overrules, TypeOK, GoingDown
<1>5. CASE MarkDown
  BY <1>5 DEF MarkDown, MayFail, TypeOK, FirstStop
<1>6. CASE StopTarget
  <2>1. /\ up' \subseteq Containers
       /\ down' \subseteq Containers
       /\ owed' \subseteq Containers
    BY <1>6 DEF StopTarget, NowUp, TypeOK
  <2>2. /\ pc' \in Steps
       /\ todo' \subseteq Containers
       /\ err' \in BOOLEAN
    BY <1>6 DEF StopTarget, Unwind, StartsBefore, TypeOK
  <2>3. QED
    BY <1>6, <2>1, <2>2 DEF StopTarget, TypeOK
<1>7. CASE StopTargetFails
  BY <1>7 DEF StopTargetFails, TypeOK, NowUp, StartsBefore, StopFails, Unwind
<1>8. ASSUME NEW d \in Deps, StopDep(d)
      PROVE  TypeOK'
  <2>1. /\ up' \subseteq Containers
       /\ down' \subseteq Containers
       /\ owed' \subseteq Containers
    BY <1>8 DEF StopDep, NowUp, TypeOK
  <2>2. /\ pc' \in Steps
       /\ todo' \subseteq Containers
       /\ err' \in BOOLEAN
    BY <1>8 DEF StopDep, Unwind, StartsBefore, TypeOK
  <2>3. QED
    BY <1>8, <2>1, <2>2 DEF StopDep, TypeOK
<1>9. ASSUME NEW d \in Deps, StopDepFails(d)
      PROVE  TypeOK'
  BY <1>9 DEF StopDepFails, TypeOK, NowUp, StopFails
<1>10. CASE StopsDone
  <2>1. /\ pc' \in Steps
       /\ todo' \subseteq Containers
       /\ err' \in BOOLEAN
    BY <1>10 DEF StopsDone, Unwind, StartsBefore, TypeOK
  <2>2. QED
    BY <1>10, <2>1 DEF StopsDone, TypeOK
<1>11. CASE Read
  BY <1>11 DEF Read, TypeOK
<1>12. CASE ReadFails
  BY <1>12 DEF ReadFails, TypeOK, StartsBefore, Unwind
<1>13. CASE Take
  BY <1>13 DEF Take, TypeOK, StartsBefore, Unwind
<1>14. CASE TakeFails
  BY <1>14 DEF TakeFails, TypeOK, StartsBefore, Unwind
<1>15. ASSUME NEW d \in Deps, StartDep(d)
      PROVE  TypeOK'
  BY <1>15 DEF StartDep, TypeOK, NowUp
<1>16. CASE StartTarget
  <2>1. /\ up' \subseteq Containers
       /\ down' \subseteq Containers
       /\ owed' \subseteq Containers
       /\ err' \in BOOLEAN
    BY <1>16 DEF StartTarget, NowUp, TypeOK
  <2>2. /\ pc' \in Steps
       /\ todo' \subseteq Containers
    BY <1>16 DEF StartTarget, StartsAfter, TypeOK
  <2>3. QED
    BY <1>16, <2>1, <2>2 DEF StartTarget, TypeOK
<1>17. CASE ClearDown
  BY <1>17 DEF ClearDown, MayFail, TypeOK, NotRunning
<1>18. CASE ReadSnapshot
  BY <1>18 DEF ReadSnapshot, TypeOK
<1>19. CASE ReadSnapshotFails
  BY <1>19 DEF ReadSnapshotFails, TypeOK
<1>20. CASE Commit
  <2>1. /\ pc' \in Steps
        /\ todo' \subseteq Containers
        /\ taken' \in BOOLEAN
    BY <1>20 DEF Commit, StartsBefore, TypeOK
  <2>2. UNCHANGED <<docker, disk, config, round, held, stopped, results,
                    ctxDone, history>>
    BY <1>20 DEF Commit
  <2>3. QED
    BY <2>1, <2>2 DEF TypeOK
<1>21. CASE Finish
  BY <1>21 DEF Finish, TypeOK, FreshMemory
<1>22. CASE NoNewImage
  BY <1>22 DEF NoNewImage, TypeOK, AfterUpdate, StartsAfter
<1>23. CASE NewImage
  BY <1>23 DEF NewImage, Overrules, TypeOK, StartsAfter
<1>24. CASE UpdMark
  <2>1. /\ removal' \in BOOLEAN
        /\ lapsed' \in BOOLEAN
        /\ bound' \subseteq Sharers
        /\ pc' \in Steps
    BY <1>24 DEF UpdMark, MayFail, BoundToTarget, TypeOK
  <2>2. UNCHANGED <<up, present, stale, marks, run, memory, down, owed, user,
                 crashes>>
    BY <1>24 DEF UpdMark
  <2>3. QED
    BY <2>1, <2>2 DEF TypeOK
<1>25. CASE UpdStop
  BY <1>25 DEF UpdStop, TypeOK, NowUp, StopFails
<1>26. CASE UpdRemove
  <2>1. /\ present' \in BOOLEAN
        /\ stale' \subseteq Sharers
        /\ pc' \in Steps
    BY <1>26 DEF UpdRemove
  <2>2. UNCHANGED <<up, bound, disk, memory, history>>
    BY <1>26 DEF UpdRemove
  <2>3. QED
    BY <2>1, <2>2 DEF TypeOK
<1>27. CASE UpdRemoveFails
  <2>1. removal' \in BOOLEAN /\ lapsed' \in BOOLEAN /\ pc' \in Steps
    BY <1>27 DEF UpdRemoveFails, Forgets, MayFail, TypeOK
  <2>2. UNCHANGED <<docker, marks, run, memory, down, owed, user, crashes>>
    BY <1>27 DEF UpdRemoveFails
  <2>3. QED
    BY <2>1, <2>2 DEF TypeOK
<1>28. CASE UpdStartAgain
  BY <1>28 DEF UpdStartAgain, TypeOK, NowUp
<1>29. CASE UpdCreate
  <2>1. /\ up' \subseteq Containers
       /\ down' \subseteq Containers
       /\ owed' \subseteq Containers
       /\ present' \in BOOLEAN
    BY <1>29 DEF UpdCreate, Created, NowUp, TypeOK
  <2>2. pc' \in Steps
    BY <1>29 DEF UpdCreate, Created
  <2>3. QED
    BY <1>29, <2>1, <2>2 DEF UpdCreate, TypeOK
<1>30. CASE RollRemove
  <2>1. removal' \in BOOLEAN /\ lapsed' \in BOOLEAN
    BY <1>30 DEF RollRemove, Forgets, MayFail, TypeOK
  <2>2. /\ pc' \in Steps
       /\ present' \in BOOLEAN
       /\ notBack' \subseteq Containers
       /\ owed' \subseteq Containers
    BY <1>30 DEF RollRemove, TypeOK
  <2>3. QED
    BY <1>30, <2>1, <2>2 DEF RollRemove, TypeOK
<1>31. CASE RollCreate
  <2>1. /\ up' \subseteq Containers
       /\ down' \subseteq Containers
       /\ owed' \subseteq Containers
       /\ present' \in BOOLEAN
    BY <1>31 DEF RollCreate, Created, NowUp, TypeOK
  <2>2. /\ pc' \in Steps
       /\ notBack' \subseteq Containers
       /\ removal' \in BOOLEAN
       /\ lapsed' \in BOOLEAN
    BY <1>31 DEF RollCreate, Created, Forgets, MayFail, TypeOK
  <2>3. QED
    BY <1>31, <2>1, <2>2 DEF RollCreate, TypeOK
<1>32. CASE UpdForget
  <2>1. /\ removal' \in BOOLEAN
        /\ lapsed' \in BOOLEAN
        /\ owed' \subseteq Containers
        /\ pc' \in Steps
    BY <1>32 DEF UpdForget, Forgets, MayFail, TypeOK
  <2>2. UNCHANGED <<docker, marks, run, memory, down, user, crashes>>
    BY <1>32 DEF UpdForget
  <2>3. QED
    BY <2>1, <2>2 DEF TypeOK
<1>33. CASE UpdRejoin
  BY <1>33 DEF UpdRejoin, TypeOK, Rejoin
<1>34. CASE UpdWait
  BY <1>34 DEF UpdWait, TypeOK, AfterUpdate, StartsAfter
<1>35. CASE Crash
  <2>1. crashes' \in 0 .. MaxCrashes
    BY <1>35 DEF Crash, TypeOK
  <2>2. QED
    BY <1>35, <2>1 DEF Crash, TypeOK, FreshMemory
<1>36. CASE Boot
  BY <1>36 DEF Boot, TypeOK
<1>37. CASE RecRemoval
  <2>1. /\ up' \subseteq Containers
       /\ down' \subseteq Containers
       /\ owed' \subseteq Containers
       /\ present' \in BOOLEAN
    BY <1>37 DEF RecRemoval, Created, NowUp, TypeOK
  <2>2. /\ pc' \in Steps
       /\ removal' \in BOOLEAN
       /\ lapsed' \in BOOLEAN
    BY <1>37 DEF RecRemoval, Created, Forgets, MayFail, NowUp, TypeOK
  <2>3. QED
    BY <1>37, <2>1, <2>2 DEF RecRemoval, TypeOK
<1>38. CASE RecRejoin
  <2>1. /\ stale' \subseteq Sharers
        /\ up' \subseteq Containers
        /\ down' \subseteq Containers
        /\ owed' \subseteq Containers
    BY <1>38 DEF RecRejoin, Rejoin, TypeOK
  <2>2. removal' \in BOOLEAN /\ lapsed' \in BOOLEAN /\ pc' \in Steps
    BY <1>38 DEF RecRejoin, Forgets, MayFail, TypeOK
  <2>3. UNCHANGED <<present, bound, marks, run, memory, user, crashes>>
    BY <1>38 DEF RecRejoin, Rejoin
  <2>4. QED
    BY <2>1, <2>2, <2>3 DEF TypeOK
<1>39. CASE RecList
  BY <1>39 DEF RecList, MayFail, TypeOK, LeftStopped
<1>40. ASSUME NEW c \in Containers, RecStart(c)
      PROVE  TypeOK'
  BY <1>40 DEF RecStart, TypeOK, NowUp
<1>41. CASE RecClear
  BY <1>41 DEF RecClear, MayFail, TypeOK, FreshMemory
<1>42. CASE Cancel
  BY <1>42 DEF Cancel, TypeOK
<1>43. ASSUME NEW c \in Containers, UserStarts(c)
      PROVE  TypeOK'
  BY <1>43 DEF UserStarts, TypeOK
<1>44. ASSUME NEW c \in Containers, UserStops(c)
      PROVE  TypeOK'
  BY <1>44 DEF UserStops, TypeOK
<1>45. CASE UNCHANGED vars
  BY <1>45 DEF TypeOK
<1>46. CASE RecListFails
  BY <1>46 DEF RecListFails, MayFail, FreshMemory, TypeOK
<1>47. QED
  BY <1>1, <1>2, <1>3, <1>4, <1>5, <1>6, <1>7, <1>8, <1>9, <1>10, <1>11,
     <1>12, <1>13, <1>14, <1>15, <1>16, <1>17, <1>18, <1>19, <1>20, <1>21,
     <1>22, <1>23, <1>24, <1>25, <1>26, <1>27, <1>28, <1>29, <1>30, <1>31,
     <1>32, <1>33, <1>34, <1>35, <1>36, <1>37, <1>38, <1>39, <1>40, <1>41,
     <1>42, <1>43, <1>44, <1>45, <1>46
  DEF Next, Program, Backup, Update, Recover, Environment

\* Type correctness of BackupContainer, of the update step and of the boot.
THEOREM TypeCorrect == Spec => []TypeOK
<1>1. Init => TypeOK
  BY TypeInit
<1>2. TypeOK /\ [Next]_vars => TypeOK'
  BY TypeStep
<1>3. QED
  BY <1>1, <1>2, PTL DEF Spec

-----------------------------------------------------------------------------
(* What is read is down *)

\* ReadIsQuiet along the stops: from the stop of the target on, what has been
\* stopped only runs again by the user's hand.  The second round, before an
\* update, reads nothing.
QuietInv ==
  /\ pc \in {"read", "take"} => round = 1
  /\ pc = "stopTarget" => stopped = {}
  /\ pc \in {"stopDeps", "read", "take"} /\ round = 1 =>
       (({Target} \cap was) \cup stopped) \cap up \subseteq touched

LEMMA QuietStep == TypeOK /\ QuietInv /\ [Next]_vars => QuietInv'
<1> USE DEF vars, docker, ids, disk, config, results, signals, user, bounds,
     history, memory
<1> SUFFICES ASSUME TypeOK, QuietInv, [Next]_vars
             PROVE  QuietInv'
  OBVIOUS
<1>1. ASSUME NEW s \in Snapshots, NEW u \in Updates, Begin(s, u)
      PROVE  QuietInv'
  BY <1>1 DEF Begin, QuietInv, RunningNow
<1>2. CASE Defer
  BY <1>2 DEF Defer, QuietInv, FreshMemory
<1>3. CASE PreflightFails
  BY <1>3 DEF PreflightFails, QuietInv, FreshMemory
<1>4. CASE PreflightPasses
  BY <1>4 DEF PreflightPasses, QuietInv, GoingDown
<1>5. CASE MarkDown
  BY <1>5 DEF MarkDown, MayFail, QuietInv, FirstStop
<1>6. CASE StopTarget
  BY <1>6 DEF StopTarget, QuietInv, NowUp, StartsBefore, Unwind
<1>7. CASE StopTargetFails
  BY <1>7 DEF StopTargetFails, QuietInv, NowUp, StartsBefore, StopFails, Unwind
<1>8. ASSUME NEW d \in Deps, StopDep(d)
      PROVE  QuietInv'
  BY <1>8 DEF StopDep, QuietInv, NowUp, StartsBefore, Unwind
<1>9. ASSUME NEW d \in Deps, StopDepFails(d)
      PROVE  QuietInv'
  BY <1>9 DEF StopDepFails, QuietInv, NowUp, StopFails
<1>10. CASE StopsDone
  BY <1>10 DEF StopsDone, QuietInv, TypeOK, StartsBefore, Unwind
<1>11. CASE Read
  BY <1>11 DEF Read, QuietInv
<1>12. CASE ReadFails
  BY <1>12 DEF ReadFails, QuietInv, StartsBefore, Unwind
<1>13. CASE Take
  BY <1>13 DEF Take, QuietInv, StartsBefore, Unwind
<1>14. CASE TakeFails
  BY <1>14 DEF TakeFails, QuietInv, StartsBefore, Unwind
<1>15. ASSUME NEW d \in Deps, StartDep(d)
      PROVE  QuietInv'
  BY <1>15 DEF StartDep, QuietInv, NowUp
<1>16. CASE StartTarget
  BY <1>16 DEF StartTarget, QuietInv, NowUp, StartsAfter
<1>17. CASE ClearDown
  BY <1>17 DEF ClearDown, MayFail, QuietInv, NotRunning
<1>18. CASE ReadSnapshot
  BY <1>18 DEF ReadSnapshot, QuietInv
<1>19. CASE ReadSnapshotFails
  BY <1>19 DEF ReadSnapshotFails, QuietInv
<1>20. CASE Commit
  BY <1>20 DEF Commit, QuietInv, StartsBefore
<1>21. CASE Finish
  BY <1>21 DEF Finish, QuietInv, FreshMemory
<1>22. CASE NoNewImage
  BY <1>22 DEF NoNewImage, QuietInv, AfterUpdate, StartsAfter
<1>23. CASE NewImage
  BY <1>23 DEF NewImage, QuietInv, StartsAfter
<1>24. CASE UpdMark
  BY <1>24 DEF UpdMark, QuietInv, BoundToTarget
<1>25. CASE UpdStop
  BY <1>25 DEF UpdStop, QuietInv, NowUp, StopFails
<1>26. CASE UpdRemove
  BY <1>26 DEF UpdRemove, QuietInv
<1>27. CASE UpdRemoveFails
  BY <1>27 DEF UpdRemoveFails, QuietInv
<1>28. CASE UpdStartAgain
  BY <1>28 DEF UpdStartAgain, QuietInv, NowUp
<1>29. CASE UpdCreate
  BY <1>29 DEF UpdCreate, QuietInv, Created, NowUp
<1>30. CASE RollRemove
  BY <1>30 DEF RollRemove, QuietInv
<1>31. CASE RollCreate
  BY <1>31 DEF RollCreate, QuietInv, Created, NowUp
<1>32. CASE UpdForget
  BY <1>32 DEF UpdForget, QuietInv
<1>33. CASE UpdRejoin
  BY <1>33 DEF UpdRejoin, QuietInv, Rejoin
<1>34. CASE UpdWait
  BY <1>34 DEF UpdWait, QuietInv, AfterUpdate, StartsAfter
<1>35. CASE Crash
  BY <1>35 DEF Crash, QuietInv, FreshMemory
<1>36. CASE Boot
  BY <1>36 DEF Boot, QuietInv
<1>37. CASE RecRemoval
  BY <1>37 DEF RecRemoval, QuietInv, Created, NowUp
<1>38. CASE RecRejoin
  BY <1>38 DEF RecRejoin, QuietInv, Rejoin
<1>39. CASE RecList
  BY <1>39 DEF RecList, QuietInv, LeftStopped
<1>40. ASSUME NEW c \in Containers, RecStart(c)
      PROVE  QuietInv'
  BY <1>40 DEF RecStart, QuietInv, NowUp
<1>41. CASE RecClear
  BY <1>41 DEF RecClear, MayFail, QuietInv, FreshMemory
<1>42. CASE Cancel
  BY <1>42 DEF Cancel, QuietInv
<1>43. ASSUME NEW c \in Containers, UserStarts(c)
      PROVE  QuietInv'
  BY <1>43 DEF UserStarts, QuietInv
<1>44. ASSUME NEW c \in Containers, UserStops(c)
      PROVE  QuietInv'
  BY <1>44 DEF UserStops, QuietInv
<1>45. CASE UNCHANGED vars
  BY <1>45 DEF QuietInv
<1>46. CASE RecListFails
  BY <1>46 DEF RecListFails, MayFail, FreshMemory, QuietInv
<1>47. QED
  BY <1>1, <1>2, <1>3, <1>4, <1>5, <1>6, <1>7, <1>8, <1>9, <1>10, <1>11,
     <1>12, <1>13, <1>14, <1>15, <1>16, <1>17, <1>18, <1>19, <1>20, <1>21,
     <1>22, <1>23, <1>24, <1>25, <1>26, <1>27, <1>28, <1>29, <1>30, <1>31,
     <1>32, <1>33, <1>34, <1>35, <1>36, <1>37, <1>38, <1>39, <1>40, <1>41,
     <1>42, <1>43, <1>44, <1>45, <1>46
  DEF Next, Program, Backup, Update, Recover, Environment

\* readLive and backupFromSnapshot read while the target and every container
\* whose stop worked are down, whatever fails, dies or is cancelled.
THEOREM ReadIsQuietAlways == Spec => []ReadIsQuiet
<1>1. Init => QuietInv
  BY DEF Init, QuietInv
<1>2. TypeOK /\ QuietInv /\ [Next]_vars => QuietInv'
  BY QuietStep
<1>3. QuietInv => ReadIsQuiet
  BY DEF QuietInv, ReadIsQuiet
<1>4. QED
  BY <1>1, <1>2, <1>3, TypeCorrect, PTL DEF Spec

-----------------------------------------------------------------------------
(* What is down is on record *)

\* Records are written, and a refused remove only happens in live reads: in the
\* update after a snapshot read, the record goes before the target is started.
RecordsHold ==
  /\ "mark" \notin Faults
  /\ TRUE \notin Refusals

OwedIsDown == owed \cap up = {}

\* Nothing is stopped before its record: markDown precedes the stops and
\* markUpdateRemoval the stop of an update.
StopsAreRecorded ==
  /\ pc = "mark" /\ round = 1 => held = was
  /\ pc \in {"stopTarget", "stopDeps"} => todo \subseteq marks
  /\ pc = "stopTarget" => Target \in marks
  /\ pc = "updStop" => removal

\* In a live read the records of everything held down stay until clearDown, so
\* the target's covers a refused remove of its update.
LiveIsRecorded ==
  /\ snap => TRUE \in Snapshots
  /\ ~snap => round = 1
  /\ upd => Target \in was
  /\ ~snap /\ InBackup /\ pc # "preflight" => held = was
  /\ ~snap /\ InBackup /\ pc \notin {"preflight", "mark", "finish"} =>
       was \subseteq marks
  /\ ~snap /\ pc \in {"checkUpdate", "updMark", "updStop", "updRemove"} => upd
  /\ taken \/ pc = "take" => snap
  /\ pc \in {"idle", "preflight"} => round = 1 /\ ~taken

RecordInv == DownIsRecorded /\ OwedIsDown /\ StopsAreRecorded /\ LiveIsRecorded

\* After the stops a live read goes on to read, a snapshot read to take.
LEMMA StopsDoneKeepsLive ==
  ASSUME RecordInv, StopsDone
  PROVE  LiveIsRecorded'
<1> USE DEF vars, docker, ids, disk, config, results, signals, user, bounds,
     history, memory, InBackup
<1>1. CASE round = 1 /\ snap /\ ctxDone
  BY <1>1 DEF StopsDone, RecordInv, LiveIsRecorded, Unwind
<1>2. CASE ~(round = 1 /\ snap /\ ctxDone)
  <2>1. pc' = IF round = 2 THEN "updMark" ELSE IF snap THEN "take" ELSE "read"
    BY <1>2 DEF StopsDone
  <2>2. ~snap => pc' = "read"
    BY <2>1 DEF RecordInv, LiveIsRecorded
  <2>3. pc' = "take" => snap
    BY <2>1
  <2>4. /\ pc = "stopDeps" /\ pc' \in {"updMark", "take", "read"}
        /\ UNCHANGED <<snap, round, upd, was, marks, held, taken>>
    BY <1>2, <2>1 DEF StopsDone
  <2>5. QED
    BY <2>2, <2>3, <2>4 DEF RecordInv, LiveIsRecorded
<1>3. QED
  BY <1>1, <1>2

LEMMA RecordStep ==
  ASSUME RecordsHold
  PROVE  RecordInv /\ [Next]_vars => RecordInv'
<1> USE DepsAssumption, ChoicesAssumption, RecordsHold
    DEF RecordsHold, vars, docker, ids, disk, config, results, signals, user, bounds,
     history, memory, InBackup, Recorded
<1> SUFFICES ASSUME RecordInv, [Next]_vars
             PROVE  RecordInv'
  OBVIOUS
<1>1. ASSUME NEW s \in Snapshots, NEW u \in Updates, Begin(s, u)
      PROVE  RecordInv'
  BY <1>1 DEF Begin, RecordInv, DownIsRecorded, OwedIsDown, StopsAreRecorded,
     LiveIsRecorded, RunningNow
<1>2. CASE Defer
  BY <1>2 DEF Defer, RecordInv, DownIsRecorded, OwedIsDown, StopsAreRecorded,
     LiveIsRecorded, FreshMemory
<1>3. CASE PreflightFails
  BY <1>3 DEF PreflightFails, RecordInv, DownIsRecorded, OwedIsDown,
     StopsAreRecorded, LiveIsRecorded, FreshMemory
<1>4. CASE PreflightPasses
  BY <1>4 DEF PreflightPasses, RecordInv, DownIsRecorded, OwedIsDown,
     StopsAreRecorded, LiveIsRecorded, GoingDown
<1>5. CASE MarkDown
  BY <1>5 DEF MarkDown, MayFail, RecordInv, DownIsRecorded, OwedIsDown,
     StopsAreRecorded, LiveIsRecorded, FirstStop
<1>6. CASE StopTarget
  BY <1>6 DEF StopTarget, RecordInv, DownIsRecorded, OwedIsDown,
     StopsAreRecorded, LiveIsRecorded, NowUp, StartsBefore, Unwind
<1>7. CASE StopTargetFails
  BY <1>7 DEF StopTargetFails, RecordInv, DownIsRecorded, OwedIsDown,
     StopsAreRecorded, LiveIsRecorded, NowUp, StartsBefore, StopFails, Unwind
<1>8. ASSUME NEW d \in Deps, StopDep(d)
      PROVE  RecordInv'
  BY <1>8 DEF StopDep, RecordInv, DownIsRecorded, OwedIsDown,
     StopsAreRecorded, LiveIsRecorded, NowUp, StartsBefore, Unwind
<1>9. ASSUME NEW d \in Deps, StopDepFails(d)
      PROVE  RecordInv'
  BY <1>9 DEF StopDepFails, RecordInv, DownIsRecorded, OwedIsDown,
     StopsAreRecorded, LiveIsRecorded, NowUp, StopFails
<1>10. CASE StopsDone
  <2>1. DownIsRecorded'
    BY <1>10 DEF StopsDone, RecordInv, DownIsRecorded, StartsBefore, Unwind
  <2>2. OwedIsDown'
    BY <1>10 DEF StopsDone, RecordInv, OwedIsDown, StartsBefore, Unwind
  <2>3. StopsAreRecorded'
    BY <1>10 DEF StopsDone, RecordInv, StopsAreRecorded, LiveIsRecorded,
     StartsBefore, Unwind
  <2>4. LiveIsRecorded'
    BY <1>10, StopsDoneKeepsLive
  <2>5. QED
    BY <2>1, <2>2, <2>3, <2>4 DEF RecordInv
<1>11. CASE Read
  BY <1>11 DEF Read, RecordInv, DownIsRecorded, OwedIsDown, StopsAreRecorded,
     LiveIsRecorded
<1>12. CASE ReadFails
  BY <1>12 DEF ReadFails, RecordInv, DownIsRecorded, OwedIsDown,
     StopsAreRecorded, LiveIsRecorded, StartsBefore, Unwind
<1>13. CASE Take
  BY <1>13 DEF Take, RecordInv, DownIsRecorded, OwedIsDown, StopsAreRecorded,
     LiveIsRecorded, StartsBefore, Unwind
<1>14. CASE TakeFails
  BY <1>14 DEF TakeFails, RecordInv, DownIsRecorded, OwedIsDown,
     StopsAreRecorded, LiveIsRecorded, StartsBefore, Unwind
<1>15. ASSUME NEW d \in Deps, StartDep(d)
      PROVE  RecordInv'
  BY <1>15 DEF StartDep, RecordInv, DownIsRecorded, OwedIsDown,
     StopsAreRecorded, LiveIsRecorded, NowUp
<1>16. CASE StartTarget
  <2>1. DownIsRecorded'
    BY <1>16 DEF StartTarget, RecordInv, DownIsRecorded, NowUp, StartsAfter
  <2>2. OwedIsDown'
    BY <1>16 DEF StartTarget, RecordInv, OwedIsDown, NowUp, StartsAfter
  <2>3. StopsAreRecorded'
    BY <1>16 DEF StartTarget, RecordInv, StopsAreRecorded, LiveIsRecorded,
     NowUp, StartsAfter
  <2>4. LiveIsRecorded'
    BY <1>16 DEF StartTarget, RecordInv, LiveIsRecorded, NowUp, StartsAfter
  <2>5. QED
    BY <2>1, <2>2, <2>3, <2>4 DEF RecordInv
<1>17. CASE ClearDown
  <2>1. DownIsRecorded'
    BY <1>17 DEF ClearDown, MayFail, RecordInv, DownIsRecorded, NotRunning
  <2>2. OwedIsDown'
    BY <1>17 DEF ClearDown, MayFail, RecordInv, OwedIsDown, NotRunning
  <2>3. StopsAreRecorded'
    BY <1>17 DEF ClearDown, MayFail, RecordInv, StopsAreRecorded, LiveIsRecorded,
     NotRunning
  <2>4. LiveIsRecorded'
    BY <1>17 DEF ClearDown, MayFail, RecordInv, LiveIsRecorded, NotRunning
  <2>5. QED
    BY <2>1, <2>2, <2>3, <2>4 DEF RecordInv
<1>18. CASE ReadSnapshot
  BY <1>18 DEF ReadSnapshot, RecordInv, DownIsRecorded, OwedIsDown,
     StopsAreRecorded, LiveIsRecorded
<1>19. CASE ReadSnapshotFails
  BY <1>19 DEF ReadSnapshotFails, RecordInv, DownIsRecorded, OwedIsDown,
     StopsAreRecorded, LiveIsRecorded
<1>20. CASE Commit
  BY <1>20 DEF Commit, RecordInv, DownIsRecorded, OwedIsDown,
     StopsAreRecorded, LiveIsRecorded, StartsBefore
<1>21. CASE Finish
  <2>1. DownIsRecorded'
    BY <1>21 DEF Finish, RecordInv, DownIsRecorded, FreshMemory
  <2>2. OwedIsDown'
    BY <1>21 DEF Finish, RecordInv, OwedIsDown, FreshMemory
  <2>3. StopsAreRecorded'
    BY <1>21 DEF Finish, RecordInv, StopsAreRecorded, LiveIsRecorded,
     FreshMemory
  <2>4. LiveIsRecorded'
    BY <1>21 DEF Finish, RecordInv, LiveIsRecorded, FreshMemory
  <2>5. QED
    BY <2>1, <2>2, <2>3, <2>4 DEF RecordInv
<1>22. CASE NoNewImage
  <2>1. DownIsRecorded'
    BY <1>22 DEF NoNewImage, RecordInv, DownIsRecorded, AfterUpdate,
     StartsAfter
  <2>2. OwedIsDown'
    BY <1>22 DEF NoNewImage, RecordInv, OwedIsDown, AfterUpdate, StartsAfter
  <2>3. StopsAreRecorded'
    BY <1>22 DEF NoNewImage, RecordInv, StopsAreRecorded, LiveIsRecorded,
     AfterUpdate, StartsAfter
  <2>4. LiveIsRecorded'
    BY <1>22 DEF NoNewImage, RecordInv, LiveIsRecorded, AfterUpdate,
     StartsAfter
  <2>5. QED
    BY <2>1, <2>2, <2>3, <2>4 DEF RecordInv
<1>23. CASE NewImage
  <2>1. DownIsRecorded'
    BY <1>23 DEF NewImage, RecordInv, DownIsRecorded, StartsAfter
  <2>2. OwedIsDown'
    BY <1>23 DEF NewImage, RecordInv, OwedIsDown, StartsAfter
  <2>3. StopsAreRecorded'
    BY <1>23 DEF NewImage, RecordInv, StopsAreRecorded, LiveIsRecorded,
     StartsAfter
  <2>4. LiveIsRecorded'
    BY <1>23 DEF NewImage, RecordInv, LiveIsRecorded, StartsAfter
  <2>5. QED
    BY <2>1, <2>2, <2>3, <2>4 DEF RecordInv
<1>24. CASE UpdMark
  BY <1>24 DEF UpdMark, MayFail, RecordInv, DownIsRecorded, OwedIsDown,
     StopsAreRecorded, LiveIsRecorded, BoundToTarget
<1>25. CASE UpdStop
  BY <1>25 DEF UpdStop, RecordInv, DownIsRecorded, OwedIsDown,
     StopsAreRecorded, LiveIsRecorded, NowUp, StopFails
<1>26. CASE UpdRemove
  BY <1>26 DEF UpdRemove, RecordInv, DownIsRecorded, OwedIsDown,
     StopsAreRecorded, LiveIsRecorded
<1>27. CASE UpdRemoveFails
  BY <1>27 DEF UpdRemoveFails, RecordInv, DownIsRecorded, OwedIsDown,
     StopsAreRecorded, LiveIsRecorded
<1>28. CASE UpdStartAgain
  BY <1>28 DEF UpdStartAgain, RecordInv, DownIsRecorded, OwedIsDown,
     StopsAreRecorded, LiveIsRecorded, NowUp
<1>29. CASE UpdCreate
  BY <1>29 DEF UpdCreate, RecordInv, DownIsRecorded, OwedIsDown,
     StopsAreRecorded, LiveIsRecorded, Created, NowUp
<1>30. CASE RollRemove
  BY <1>30 DEF RollRemove, RecordInv, DownIsRecorded, OwedIsDown,
     StopsAreRecorded, LiveIsRecorded
<1>31. CASE RollCreate
  BY <1>31 DEF RollCreate, RecordInv, DownIsRecorded, OwedIsDown,
     StopsAreRecorded, LiveIsRecorded, Created, NowUp
<1>32. CASE UpdForget
  BY <1>32 DEF UpdForget, RecordInv, DownIsRecorded, OwedIsDown,
     StopsAreRecorded, LiveIsRecorded
<1>33. CASE UpdRejoin
  BY <1>33 DEF UpdRejoin, RecordInv, DownIsRecorded, OwedIsDown,
     StopsAreRecorded, LiveIsRecorded, Rejoin
<1>34. CASE UpdWait
  <2>1. DownIsRecorded'
    BY <1>34 DEF UpdWait, RecordInv, DownIsRecorded, AfterUpdate, StartsAfter
  <2>2. OwedIsDown'
    BY <1>34 DEF UpdWait, RecordInv, OwedIsDown, AfterUpdate, StartsAfter
  <2>3. StopsAreRecorded'
    BY <1>34 DEF UpdWait, RecordInv, StopsAreRecorded, LiveIsRecorded,
     AfterUpdate, StartsAfter
  <2>4. LiveIsRecorded'
    BY <1>34 DEF UpdWait, RecordInv, LiveIsRecorded, AfterUpdate, StartsAfter
  <2>5. QED
    BY <2>1, <2>2, <2>3, <2>4 DEF RecordInv
<1>35. CASE Crash
  BY <1>35 DEF Crash, RecordInv, DownIsRecorded, OwedIsDown, StopsAreRecorded,
     LiveIsRecorded, FreshMemory
<1>36. CASE Boot
  BY <1>36 DEF Boot, RecordInv, DownIsRecorded, OwedIsDown, StopsAreRecorded,
     LiveIsRecorded
<1>37. CASE RecRemoval
  BY <1>37 DEF RecRemoval, RecordInv, DownIsRecorded, OwedIsDown,
     StopsAreRecorded, LiveIsRecorded, Created, NowUp
<1>38. CASE RecRejoin
  BY <1>38 DEF RecRejoin, RecordInv, DownIsRecorded, OwedIsDown,
     StopsAreRecorded, LiveIsRecorded, Rejoin
<1>39. CASE RecList
  BY <1>39 DEF RecList, RecordInv, DownIsRecorded, OwedIsDown,
     StopsAreRecorded, LiveIsRecorded, LeftStopped
<1>40. ASSUME NEW c \in Containers, RecStart(c)
      PROVE  RecordInv'
  BY <1>40 DEF RecStart, RecordInv, DownIsRecorded, OwedIsDown,
     StopsAreRecorded, LiveIsRecorded, NowUp
<1>41. CASE RecClear
  BY <1>41 DEF RecClear, MayFail, RecordInv, DownIsRecorded, OwedIsDown,
     StopsAreRecorded, LiveIsRecorded, FreshMemory
<1>42. CASE Cancel
  BY <1>42 DEF Cancel, RecordInv, DownIsRecorded, OwedIsDown,
     StopsAreRecorded, LiveIsRecorded
<1>43. ASSUME NEW c \in Containers, UserStarts(c)
      PROVE  RecordInv'
  BY <1>43 DEF UserStarts, RecordInv, DownIsRecorded, OwedIsDown,
     StopsAreRecorded, LiveIsRecorded
<1>44. ASSUME NEW c \in Containers, UserStops(c)
      PROVE  RecordInv'
  BY <1>44 DEF UserStops, RecordInv, DownIsRecorded, OwedIsDown,
     StopsAreRecorded, LiveIsRecorded
<1>45. CASE UNCHANGED vars
  BY <1>45 DEF RecordInv, DownIsRecorded, OwedIsDown, StopsAreRecorded,
     LiveIsRecorded
<1>46. CASE RecListFails
  BY <1>46 DEF RecListFails, MayFail, FreshMemory, RecordInv, DownIsRecorded,
     OwedIsDown,
     StopsAreRecorded, LiveIsRecorded
<1>47. QED
  BY <1>1, <1>2, <1>3, <1>4, <1>5, <1>6, <1>7, <1>8, <1>9, <1>10, <1>11,
     <1>12, <1>13, <1>14, <1>15, <1>16, <1>17, <1>18, <1>19, <1>20, <1>21,
     <1>22, <1>23, <1>24, <1>25, <1>26, <1>27, <1>28, <1>29, <1>30, <1>31,
     <1>32, <1>33, <1>34, <1>35, <1>36, <1>37, <1>38, <1>39, <1>40, <1>41,
     <1>42, <1>43, <1>44, <1>45, <1>46
  DEF Next, Program, Backup, Update, Recover, Environment

\* Whatever the program took down and has yet to try to start is named by a
\* record the next boot reads: the restart record while a backup holds it down,
\* the removal record while an update replaces it.
THEOREM DownIsRecordedAlways ==
  ASSUME RecordsHold
  PROVE  Spec => []DownIsRecorded
<1>1. Init => RecordInv
  BY DEF Init, RecordInv, DownIsRecorded, Recorded, OwedIsDown,
     StopsAreRecorded, LiveIsRecorded, InBackup
<1>2. RecordInv /\ [Next]_vars => RecordInv'
  BY RecordStep
<1>3. RecordInv => DownIsRecorded
  BY DEF RecordInv
<1>4. QED
  BY <1>1, <1>2, <1>3, PTL DEF Spec

-----------------------------------------------------------------------------
(* The path of a backup *)

Updating == {"updMark", "updStop", "updRemove", "updStartAgain", "updCreate",
             "rollRemove", "rollCreate", "updForget", "rejoin", "updWait"}

\* Which steps belong to a live read, to a snapshot read and to the second
\* round of one, and who is in memory on them.
PathInv ==
  /\ upd => Target \in was
  /\ Sharers \cap was # {} => Target \in was
  /\ pc \in Updating \cup {"checkUpdate"} => upd
  /\ round = 2 =>
       snap /\ upd /\ pc \in Updating \cup {"mark", "stopDeps", "startAfter", "finish"}
  /\ snap /\ pc \in Updating => round = 2
  /\ pc = "take" => snap
  /\ taken => snap /\ round = 1 /\ pc \in {"startBefore", "startAfter", "readSnap", "commit"}
  /\ pc = "read" => ~snap
  /\ pc = "readSnap" \/ (pc = "commit" /\ snap) => taken
  /\ ~InBackup \/ pc = "preflight" => round = 1
  /\ pc \in {"idle", "preflight"} => stopped = {}
  /\ InBackup /\ pc # "preflight" => held \cup stopped \subseteq was
  /\ InBackup /\ pc # "preflight" /\ round = 1 => held = was
  /\ round = 2 => held \cap Before = {} /\ (pc # "mark" => stopped \subseteq held)
  /\ pc \in {"stopTarget", "stopDeps", "startBefore", "startAfter"} => todo \subseteq held

\* Every step stays on the path.
LEMMA PathStep == TypeOK /\ PathInv /\ [Next]_vars => PathInv'
<1> USE DEF vars, docker, ids, disk, config, results, signals, user, bounds,
     history, memory
<1> USE DEF InBackup, PathInv, Updating
<1> SUFFICES ASSUME TypeOK, PathInv, [Next]_vars
             PROVE  PathInv'
  OBVIOUS
<1>0. round \in {1, 2}
  BY DEF TypeOK
<1> USE <1>0
<1>1. ASSUME NEW s \in Snapshots, NEW u \in Updates, Begin(s, u)
      PROVE  PathInv'
  BY <1>1 DEF Begin, RunningNow
<1>2. CASE Defer
  BY <1>2 DEF Defer, FreshMemory
<1>3. CASE PreflightFails
  BY <1>3 DEF PreflightFails, FreshMemory
<1>4. CASE PreflightPasses
  BY <1>4 DEF PreflightPasses, GoingDown
<1>5. CASE MarkDown
  BY <1>5 DEF MarkDown, MayFail, FirstStop
<1>6. CASE StopTarget
  BY <1>6 DEF StopTarget, NowUp, StartsBefore, Unwind
<1>7. CASE StopTargetFails
  BY <1>7 DEF StopTargetFails, NowUp, StartsBefore, StopFails, Unwind
<1>8. ASSUME NEW d \in Deps, StopDep(d) PROVE PathInv'
  BY <1>8 DEF StopDep, NowUp, StartsBefore, Unwind
<1>9. ASSUME NEW d \in Deps, StopDepFails(d) PROVE PathInv'
  BY <1>9 DEF StopDepFails, NowUp, StopFails
<1>10. CASE StopsDone
  <2>1. CASE round = 1 /\ snap /\ ctxDone
    BY <1>10, <2>1 DEF StopsDone, StartsBefore, Unwind
  <2>2. CASE ~(round = 1 /\ snap /\ ctxDone)
    <3>1. /\ pc' \in {"updMark", "take", "read"} /\ pc = "stopDeps"
          /\ pc' = "updMark" <=> round = 2
          /\ pc' = "take" => snap
          /\ pc' = "read" => ~snap
      BY <1>10, <2>2 DEF StopsDone
    <3> QED
      BY <1>10, <2>2, <3>1 DEF StopsDone
  <2> QED
    BY <2>1, <2>2
<1>11. CASE Read
  BY <1>11 DEF Read
<1>12. CASE ReadFails
  BY <1>12 DEF ReadFails, StartsBefore, Unwind
<1>13. CASE Take
  BY <1>13 DEF Take, StartsBefore, Unwind
<1>14. CASE TakeFails
  BY <1>14 DEF TakeFails, StartsBefore, Unwind
<1>15. ASSUME NEW d \in Deps, StartDep(d) PROVE PathInv'
  BY <1>15 DEF StartDep, NowUp
<1>16. CASE StartTarget
  BY <1>16 DEF StartTarget, NowUp, StartsAfter
<1>17. CASE ClearDown
  BY <1>17 DEF ClearDown, MayFail, NotRunning
<1>18. CASE ReadSnapshot
  BY <1>18 DEF ReadSnapshot
<1>19. CASE ReadSnapshotFails
  BY <1>19 DEF ReadSnapshotFails
<1>20. CASE Commit
  BY <1>20 DEF Commit, StartsBefore
<1>21. CASE Finish
  BY <1>21 DEF Finish, FreshMemory
<1>22. CASE NoNewImage
  BY <1>22 DEF NoNewImage, AfterUpdate, StartsAfter
<1>23. CASE NewImage
  BY <1>23 DEF NewImage, StartsAfter
<1>24. CASE UpdMark
  BY <1>24 DEF UpdMark, BoundToTarget
<1>25. CASE UpdStop
  BY <1>25 DEF UpdStop, NowUp, StopFails
<1>26. CASE UpdRemove
  BY <1>26 DEF UpdRemove
<1>27. CASE UpdRemoveFails
  BY <1>27 DEF UpdRemoveFails
<1>28. CASE UpdStartAgain
  BY <1>28 DEF UpdStartAgain, NowUp
<1>29. CASE UpdCreate
  BY <1>29 DEF UpdCreate, Created, NowUp
<1>30. CASE RollRemove
  BY <1>30 DEF RollRemove
<1>31. CASE RollCreate
  BY <1>31 DEF RollCreate, Created, NowUp
<1>32. CASE UpdForget
  BY <1>32 DEF UpdForget
<1>33. CASE UpdRejoin
  BY <1>33 DEF UpdRejoin, Rejoin
<1>34. CASE UpdWait
  BY <1>34 DEF UpdWait, AfterUpdate, StartsAfter
<1>35. CASE Crash
  BY <1>35 DEF Crash, FreshMemory
<1>36. CASE Boot
  BY <1>36 DEF Boot
<1>37. CASE RecRemoval
  BY <1>37 DEF RecRemoval, Created, NowUp
<1>38. CASE RecRejoin
  BY <1>38 DEF RecRejoin, Rejoin
<1>39. CASE RecList
  BY <1>39 DEF RecList, LeftStopped, TypeOK
<1>40. CASE RecListFails
  BY <1>40 DEF RecListFails, MayFail, FreshMemory
<1>41. ASSUME NEW c \in Containers, RecStart(c) PROVE PathInv'
  BY <1>41 DEF RecStart, NowUp
<1>42. CASE RecClear
  BY <1>42 DEF RecClear, MayFail, FreshMemory
<1>43. CASE Cancel
  BY <1>43 DEF Cancel
<1>44. ASSUME NEW c \in Containers, UserStarts(c) PROVE PathInv'
  BY <1>44 DEF UserStarts
<1>45. ASSUME NEW c \in Containers, UserStops(c) PROVE PathInv'
  BY <1>45 DEF UserStops
<1>46. CASE UNCHANGED vars
  BY <1>46
<1>47. QED
    BY <1>1, <1>2, <1>3, <1>4, <1>5, <1>6, <1>7, <1>8, <1>9, <1>10, <1>11,
     <1>12, <1>13, <1>14, <1>15, <1>16, <1>17, <1>18, <1>19, <1>20, <1>21,
     <1>22, <1>23, <1>24, <1>25, <1>26, <1>27, <1>28, <1>29, <1>30, <1>31,
     <1>32, <1>33, <1>34, <1>35, <1>36, <1>37, <1>38, <1>39, <1>40, <1>41,
     <1>42, <1>43, <1>44, <1>45, <1>46
  DEF Next, Program, Backup, Update, Recover, Environment

-----------------------------------------------------------------------------
(* What is not back is told *)

Told == was \ up \subseteq notBack \cup cutOff \cup touched

\* Once the first round is over, only the second and the update take anything
\* down: what the second holds, the target, and a sharer whose stop failed.
ToldInv ==
  /\ pc \in {"stopTarget", "stopDeps"} /\ round = 1 =>
       Sharers \cap was \subseteq todo \cup stopped \cup cutOff
  /\ pc = "take" \/ taken \/ (snap /\ pc = "checkUpdate") =>
       Sharers \cap was \subseteq stopped \cup cutOff
  /\ round = 2 =>
       /\ Sharers \cap was \subseteq held \cup cutOff
       /\ was \ up \subseteq held \cup {Target} \cup notBack \cup cutOff \cup touched
       /\ pc = "startAfter" => was \ up \subseteq held \cup notBack \cup cutOff \cup touched
  /\ pc \in {"readSnap", "finish"} \/ (snap /\ pc \in {"commit", "checkUpdate"}) => Told

\* What a step takes down is held, and ClearDown names what it does not find.
LEMMA ToldStep ==
  ASSUME "health" \notin Faults
  PROVE  TypeOK /\ PathInv /\ ToldInv /\ [Next]_vars => ToldInv'
<1> USE DEF vars, docker, ids, disk, config, results, signals, user, bounds,
     history, memory
<1> USE DepsAssumption DEF InBackup, PathInv, Updating, ToldInv, Told
<1> SUFFICES ASSUME TypeOK, PathInv, ToldInv, [Next]_vars
             PROVE  ToldInv'
  OBVIOUS
<1>0. round \in {1, 2} /\ bound \subseteq Sharers
  BY DEF TypeOK
<1> USE <1>0
<1>1. ASSUME NEW s \in Snapshots, NEW u \in Updates, Begin(s, u)
      PROVE  ToldInv'
  BY <1>1 DEF Begin, RunningNow
<1>2. CASE Defer
  BY <1>2 DEF Defer, FreshMemory
<1>3. CASE PreflightFails
  BY <1>3 DEF PreflightFails, FreshMemory
<1>4. CASE PreflightPasses
  BY <1>4 DEF PreflightPasses, GoingDown
<1>5. CASE MarkDown
  <2>1. /\ pc = "mark" /\ pc' \in {"stopTarget", "stopDeps"}
        /\ todo' = held \ {Target}
        /\ UNCHANGED <<up, snap, was, round, held, notBack, cutOff, taken, touched>>
    BY <1>5 DEF MarkDown, FirstStop
  <2>2. round = 1 => Sharers \cap was \subseteq todo'
    BY <2>1
  <2> QED
    BY <2>1, <2>2
<1>6. CASE StopTarget
  BY <1>6 DEF StopTarget, NowUp, StartsBefore, Unwind
<1>7. CASE StopTargetFails
  BY <1>7 DEF StopTargetFails, NowUp, StartsBefore, StopFails, Unwind
<1>8. ASSUME NEW d \in Deps, StopDep(d) PROVE ToldInv'
  BY <1>8 DEF StopDep, NowUp, StartsBefore, Unwind
<1>9. ASSUME NEW d \in Deps, StopDepFails(d) PROVE ToldInv'
  BY <1>9 DEF StopDepFails, NowUp, StopFails
<1>10. CASE StopsDone
  BY <1>10 DEF StopsDone, StartsBefore, Unwind
<1>11. CASE Read
  BY <1>11 DEF Read
<1>12. CASE ReadFails
  BY <1>12 DEF ReadFails, StartsBefore, Unwind
<1>13. CASE Take
  BY <1>13 DEF Take, StartsBefore, Unwind
<1>14. CASE TakeFails
  BY <1>14 DEF TakeFails, StartsBefore, Unwind
<1>15. ASSUME NEW d \in Deps, StartDep(d) PROVE ToldInv'
  BY <1>15 DEF StartDep, NowUp
<1>16. CASE StartTarget
  BY <1>16 DEF StartTarget, NowUp, StartsAfter
<1>17. CASE ClearDown
  BY <1>17 DEF ClearDown, MayFail, NotRunning
<1>18. CASE ReadSnapshot
  BY <1>18 DEF ReadSnapshot
<1>19. CASE ReadSnapshotFails
  BY <1>19 DEF ReadSnapshotFails
<1>20. CASE Commit
  BY <1>20 DEF Commit, StartsBefore
<1>21. CASE Finish
  BY <1>21 DEF Finish, FreshMemory
<1>22. CASE NoNewImage
  BY <1>22 DEF NoNewImage, AfterUpdate, StartsAfter
<1>23. CASE NewImage
  BY <1>23 DEF NewImage, StartsAfter
<1>24. CASE UpdMark
  BY <1>24 DEF UpdMark, BoundToTarget
<1>25. CASE UpdStop
  BY <1>25 DEF UpdStop, NowUp, StopFails
<1>26. CASE UpdRemove
  BY <1>26 DEF UpdRemove
<1>27. CASE UpdRemoveFails
  BY <1>27 DEF UpdRemoveFails
<1>28. CASE UpdStartAgain
  BY <1>28 DEF UpdStartAgain, NowUp
<1>29. CASE UpdCreate
  BY <1>29 DEF UpdCreate, Created, NowUp
<1>30. CASE RollRemove
  BY <1>30 DEF RollRemove
<1>31. CASE RollCreate
  BY <1>31 DEF RollCreate, Created, NowUp
<1>32. CASE UpdForget
  BY <1>32 DEF UpdForget
<1>33. CASE UpdRejoin
  BY <1>33 DEF UpdRejoin, Rejoin
<1>34. CASE UpdWait
  BY <1>34 DEF UpdWait, AfterUpdate, StartsAfter
<1>35. CASE Crash
  BY <1>35 DEF Crash, FreshMemory
<1>36. CASE Boot
  BY <1>36 DEF Boot
<1>37. CASE RecRemoval
  BY <1>37 DEF RecRemoval, Created, NowUp
<1>38. CASE RecRejoin
  BY <1>38 DEF RecRejoin, Rejoin
<1>39. CASE RecList
  BY <1>39 DEF RecList, LeftStopped
<1>40. CASE RecListFails
  BY <1>40 DEF RecListFails, MayFail, FreshMemory
<1>41. ASSUME NEW c \in Containers, RecStart(c) PROVE ToldInv'
  BY <1>41 DEF RecStart, NowUp
<1>42. CASE RecClear
  BY <1>42 DEF RecClear, MayFail, FreshMemory
<1>43. CASE Cancel
  BY <1>43 DEF Cancel
<1>44. ASSUME NEW c \in Containers, UserStarts(c) PROVE ToldInv'
  BY <1>44 DEF UserStarts
<1>45. ASSUME NEW c \in Containers, UserStops(c) PROVE ToldInv'
  BY <1>45 DEF UserStops
<1>46. CASE UNCHANGED vars
  BY <1>46
<1>47. QED
    BY <1>1, <1>2, <1>3, <1>4, <1>5, <1>6, <1>7, <1>8, <1>9, <1>10, <1>11,
     <1>12, <1>13, <1>14, <1>15, <1>16, <1>17, <1>18, <1>19, <1>20, <1>21,
     <1>22, <1>23, <1>24, <1>25, <1>26, <1>27, <1>28, <1>29, <1>30, <1>31,
     <1>32, <1>33, <1>34, <1>35, <1>36, <1>37, <1>38, <1>39, <1>40, <1>41,
     <1>42, <1>43, <1>44, <1>45, <1>46
  DEF Next, Program, Backup, Update, Recover, Environment

\* BackupContainer never ends with a container it found running down and
\* unnamed, whatever fails, dies, is cancelled or is done by users, as long as
\* the health checks of clearDown are answered.
THEOREM NotBackIsAlwaysTold ==
  ASSUME "health" \notin Faults
  PROVE  Spec => []NotBackIsTold
<1>1. Init => TypeOK /\ PathInv /\ ToldInv
  BY TypeInit DEF Init, PathInv, ToldInv, InBackup, Updating
<1>2. TypeOK /\ PathInv /\ ToldInv /\ [Next]_vars => (TypeOK /\ PathInv /\ ToldInv)'
  BY TypeStep, PathStep, ToldStep
<1>3. ToldInv => NotBackIsTold
  BY DEF ToldInv, Told, NotBackIsTold
<1>4. QED
  BY <1>1, <1>2, <1>3, PTL DEF Spec

-----------------------------------------------------------------------------
(* Everything is back *)

\* The target is gone between the remove and the create of an update only.
TargetInv ==
  /\ InBackup /\ pc \notin {"updCreate", "rollRemove", "rollCreate"} => present
  /\ pc \in {"updCreate", "rollRemove", "rollCreate"} => Target \notin up
  /\ pc \in {"updForget", "rejoin", "updWait"} => Target \in up
  /\ pc \in {"startAfter", "readSnap", "checkUpdate"} \/ (pc = "commit" /\ snap) =>
       {Target} \cap was \subseteq up
  /\ pc \in Updating \ {"updMark"} => Sharers \ bound \subseteq stale

\* Who of the containers that ran is down at each step.
DownNow ==
  /\ pc = "mark" => was \ up \subseteq stale
  /\ pc \in {"preflight", "stopTarget"} \/ (pc = "mark" /\ round = 1) => was \subseteq up
  /\ pc = "stopTarget" => stopped = {}
  /\ pc = "stopDeps" =>
       was \ up \subseteq stopped \cup (IF round = 1 THEN {Target} ELSE stale)
  /\ pc \in {"read", "take"} => was \ up \subseteq stopped \cup {Target}
  /\ pc = "commit" /\ ~snap => was \ up \subseteq stopped \cup {Target}
  /\ pc = "startBefore" =>
       /\ todo \subseteq Before
       /\ was \ up \subseteq todo \cup StartsAfter(stopped) \cup {Target}
  /\ pc \in {"checkUpdate", "updMark"} =>
       was \ up \subseteq StartsAfter(stopped) \cup {Target} \cup stale
  /\ pc \in Updating \ {"updMark"} =>
       was \ up \subseteq StartsAfter(stopped) \cup {Target} \cup (Sharers \ bound)
  /\ pc = "startAfter" => was \ up \subseteq todo \cup stale
  /\ pc \in {"readSnap", "finish"} \/ (snap /\ pc \in {"commit", "checkUpdate"}) =>
       was \ up \subseteq stale

\* Docker starts what was stopped and removes what is down, and users stay away.
StartsWork ==
  /\ Faults \cap {"lateStop", "start", "die", "recreate", "rejoin"} = {}
  /\ Refusals = {}
  /\ ~UserActs

\* The target is there, and runs once it was started.
LEMMA TargetStep ==
  ASSUME StartsWork
  PROVE  TypeOK /\ PathInv /\ TargetInv /\ [Next]_vars => TargetInv'
<1> USE DEF vars, docker, ids, disk, config, results, signals, user, bounds,
     history, memory
<1> USE DepsAssumption, StartsWork DEF StartsWork, InBackup, PathInv, Updating, TargetInv
<1> SUFFICES ASSUME TypeOK, PathInv, TargetInv, [Next]_vars
             PROVE  TargetInv'
  OBVIOUS
<1>0. round \in {1, 2} /\ bound \subseteq Sharers /\ stale \subseteq Sharers
  BY DEF TypeOK
<1> USE <1>0
<1>1. ASSUME NEW s \in Snapshots, NEW u \in Updates, Begin(s, u)
      PROVE  TargetInv'
  BY <1>1 DEF Begin, RunningNow
<1>2. CASE Defer
  BY <1>2 DEF Defer, FreshMemory
<1>3. CASE PreflightFails
  BY <1>3 DEF PreflightFails, FreshMemory
<1>4. CASE PreflightPasses
  BY <1>4 DEF PreflightPasses, GoingDown
<1>5. CASE MarkDown
  BY <1>5 DEF MarkDown, MayFail, FirstStop
<1>6. CASE StopTarget
  BY <1>6 DEF StopTarget, NowUp, StartsBefore, Unwind
<1>7. CASE StopTargetFails
  BY <1>7 DEF StopTargetFails, NowUp, StartsBefore, StopFails, Unwind
<1>8. ASSUME NEW d \in Deps, StopDep(d) PROVE TargetInv'
  BY <1>8 DEF StopDep, NowUp, StartsBefore, Unwind
<1>9. ASSUME NEW d \in Deps, StopDepFails(d) PROVE TargetInv'
  BY <1>9 DEF StopDepFails, NowUp, StopFails
<1>10. CASE StopsDone
  BY <1>10 DEF StopsDone, StartsBefore, Unwind
<1>11. CASE Read
  BY <1>11 DEF Read
<1>12. CASE ReadFails
  BY <1>12 DEF ReadFails, StartsBefore, Unwind
<1>13. CASE Take
  BY <1>13 DEF Take, StartsBefore, Unwind
<1>14. CASE TakeFails
  BY <1>14 DEF TakeFails, StartsBefore, Unwind
<1>15. ASSUME NEW d \in Deps, StartDep(d) PROVE TargetInv'
  BY <1>15 DEF StartDep, NowUp, StartRuns, StartExits, StartRefused, CanStart
<1>16. CASE StartTarget
    BY <1>16 DEF StartTarget, NowUp, StartsAfter, StartRuns, StartExits,
     StartRefused, CanStart
<1>17. CASE ClearDown
  BY <1>17 DEF ClearDown, MayFail, NotRunning
<1>18. CASE ReadSnapshot
  BY <1>18 DEF ReadSnapshot
<1>19. CASE ReadSnapshotFails
  BY <1>19 DEF ReadSnapshotFails
<1>20. CASE Commit
  BY <1>20 DEF Commit, StartsBefore
<1>21. CASE Finish
  BY <1>21 DEF Finish, FreshMemory
<1>22. CASE NoNewImage
  BY <1>22 DEF NoNewImage, AfterUpdate, StartsAfter
<1>23. CASE NewImage
  BY <1>23 DEF NewImage, StartsAfter
<1>24. CASE UpdMark
  BY <1>24 DEF UpdMark, BoundToTarget
<1>25. CASE UpdStop
  BY <1>25 DEF UpdStop, NowUp, StopFails
<1>26. CASE UpdRemove
  BY <1>26 DEF UpdRemove
<1>27. CASE UpdRemoveFails
  BY <1>27 DEF UpdRemoveFails
<1>28. CASE UpdStartAgain
    BY <1>28 DEF UpdStartAgain, NowUp, StartRuns, StartExits, StartRefused,
     CanStart
<1>29. CASE UpdCreate
  BY <1>29 DEF UpdCreate, Created, NowUp
<1>30. CASE RollRemove
  BY <1>30 DEF RollRemove
<1>31. CASE RollCreate
  BY <1>31 DEF RollCreate, Created, NowUp
<1>32. CASE UpdForget
  BY <1>32 DEF UpdForget
<1>33. CASE UpdRejoin
  BY <1>33 DEF UpdRejoin, Rejoin
<1>34. CASE UpdWait
  BY <1>34 DEF UpdWait, AfterUpdate, StartsAfter
<1>35. CASE Crash
  BY <1>35 DEF Crash, FreshMemory
<1>36. CASE Boot
  BY <1>36 DEF Boot
<1>37. CASE RecRemoval
    BY <1>37 DEF RecRemoval, Created, NowUp, StartRuns, StartExits,
     StartRefused, CanStart
<1>38. CASE RecRejoin
  BY <1>38 DEF RecRejoin, Rejoin
<1>39. CASE RecList
  BY <1>39 DEF RecList, LeftStopped
<1>40. CASE RecListFails
  BY <1>40 DEF RecListFails, MayFail, FreshMemory
<1>41. ASSUME NEW c \in Containers, RecStart(c) PROVE TargetInv'
  BY <1>41 DEF RecStart, NowUp, StartRuns, StartExits, StartRefused, CanStart
<1>42. CASE RecClear
  BY <1>42 DEF RecClear, MayFail, FreshMemory
<1>43. CASE Cancel
  BY <1>43 DEF Cancel
<1>44. ASSUME NEW c \in Containers, UserStarts(c) PROVE TargetInv'
  BY <1>44 DEF UserStarts, UserMayAct
<1>45. ASSUME NEW c \in Containers, UserStops(c) PROVE TargetInv'
  BY <1>45 DEF UserStops, UserMayAct
<1>46. CASE UNCHANGED vars
  BY <1>46
<1>47. QED
    BY <1>1, <1>2, <1>3, <1>4, <1>5, <1>6, <1>7, <1>8, <1>9, <1>10, <1>11,
     <1>12, <1>13, <1>14, <1>15, <1>16, <1>17, <1>18, <1>19, <1>20, <1>21,
     <1>22, <1>23, <1>24, <1>25, <1>26, <1>27, <1>28, <1>29, <1>30, <1>31,
     <1>32, <1>33, <1>34, <1>35, <1>36, <1>37, <1>38, <1>39, <1>40, <1>41,
     <1>42, <1>43, <1>44, <1>45, <1>46
  DEF Next, Program, Backup, Update, Recover, Environment

\* Each step passes on what is still down.
LEMMA DownStep ==
  ASSUME StartsWork
  PROVE  TypeOK /\ PathInv /\ TargetInv /\ DownNow /\ [Next]_vars => DownNow'
<1> USE DEF vars, docker, ids, disk, config, results, signals, user, bounds,
     history, memory
<1> USE DepsAssumption, StartsWork
    DEF StartsWork, InBackup, PathInv, Updating, TargetInv, DownNow, StartsAfter
<1> SUFFICES ASSUME TypeOK, PathInv, TargetInv, DownNow, [Next]_vars
             PROVE  DownNow'
  OBVIOUS
<1>0. round \in {1, 2} /\ bound \subseteq Sharers /\ stale \subseteq Sharers
  BY DEF TypeOK
<1> USE <1>0
<1>1. ASSUME NEW s \in Snapshots, NEW u \in Updates, Begin(s, u)
      PROVE  DownNow'
  BY <1>1 DEF Begin, RunningNow
<1>2. CASE Defer
  BY <1>2 DEF Defer, FreshMemory
<1>3. CASE PreflightFails
  BY <1>3 DEF PreflightFails, FreshMemory
<1>4. CASE PreflightPasses
  BY <1>4 DEF PreflightPasses, GoingDown
<1>5. CASE MarkDown
  BY <1>5 DEF MarkDown, MayFail, FirstStop
<1>6. CASE StopTarget
  BY <1>6 DEF StopTarget, NowUp, StartsBefore, Unwind
<1>7. CASE StopTargetFails
  BY <1>7 DEF StopTargetFails, NowUp, StartsBefore, StopFails, Unwind
<1>8. ASSUME NEW d \in Deps, StopDep(d) PROVE DownNow'
  BY <1>8 DEF StopDep, NowUp, StartsBefore, Unwind
<1>9. ASSUME NEW d \in Deps, StopDepFails(d) PROVE DownNow'
  BY <1>9 DEF StopDepFails, NowUp, StopFails
<1>10. CASE StopsDone
  BY <1>10 DEF StopsDone, StartsBefore, Unwind
<1>11. CASE Read
  BY <1>11 DEF Read
<1>12. CASE ReadFails
  BY <1>12 DEF ReadFails, StartsBefore, Unwind
<1>13. CASE Take
  BY <1>13 DEF Take, StartsBefore, Unwind
<1>14. CASE TakeFails
  BY <1>14 DEF TakeFails, StartsBefore, Unwind
<1>15. ASSUME NEW d \in Deps, StartDep(d) PROVE DownNow'
  <2>1. /\ d \in todo /\ todo' = todo \ {d} /\ pc' = pc
        /\ pc \in {"startBefore", "startAfter"}
        /\ UNCHANGED <<snap, upd, was, round, stopped, stale, bound>>
    BY <1>15 DEF StartDep
  <2>2. up' = up \cup {d} \/ (up' = up /\ ~CanStart(d))
    BY <1>15 DEF StartDep, NowUp, StartRuns, StartExits, StartRefused
  <2>3. ASSUME ~CanStart(d), d \in was PROVE d \in Sharers /\ (Target \in up => d \in stale)
    BY <1>15, <2>3 DEF CanStart
  <2>4. CASE pc = "startBefore"
    <3>1. d \in Before
      BY <2>1, <2>4
    <3> QED
      BY <2>1, <2>2, <2>3, <2>4, <3>1
  <2>5. CASE pc = "startAfter"
    BY <2>1, <2>2, <2>3, <2>5
  <2> QED
    BY <2>1, <2>4, <2>5
<1>16. CASE StartTarget
    BY <1>16 DEF StartTarget, NowUp, StartsAfter, StartRuns, StartExits,
     StartRefused, CanStart
<1>17. CASE ClearDown
  BY <1>17 DEF ClearDown, MayFail, NotRunning
<1>18. CASE ReadSnapshot
  BY <1>18 DEF ReadSnapshot
<1>19. CASE ReadSnapshotFails
  BY <1>19 DEF ReadSnapshotFails
<1>20. CASE Commit
  BY <1>20 DEF Commit, StartsBefore
<1>21. CASE Finish
  BY <1>21 DEF Finish, FreshMemory
<1>22. CASE NoNewImage
  BY <1>22 DEF NoNewImage, AfterUpdate, StartsAfter
<1>23. CASE NewImage
  BY <1>23 DEF NewImage, StartsAfter
<1>24. CASE UpdMark
  BY <1>24 DEF UpdMark, BoundToTarget
<1>25. CASE UpdStop
  BY <1>25 DEF UpdStop, NowUp, StopFails
<1>26. CASE UpdRemove
  BY <1>26 DEF UpdRemove
<1>27. CASE UpdRemoveFails
  BY <1>27 DEF UpdRemoveFails
<1>28. CASE UpdStartAgain
    BY <1>28 DEF UpdStartAgain, NowUp, StartRuns, StartExits, StartRefused,
     CanStart
<1>29. CASE UpdCreate
  BY <1>29 DEF UpdCreate, Created, NowUp
<1>30. CASE RollRemove
  BY <1>30 DEF RollRemove
<1>31. CASE RollCreate
  BY <1>31 DEF RollCreate, Created, NowUp
<1>32. CASE UpdForget
  BY <1>32 DEF UpdForget
<1>33. CASE UpdRejoin
  BY <1>33 DEF UpdRejoin, Rejoin
<1>34. CASE UpdWait
  BY <1>34 DEF UpdWait, AfterUpdate, StartsAfter
<1>35. CASE Crash
  BY <1>35 DEF Crash, FreshMemory
<1>36. CASE Boot
  BY <1>36 DEF Boot
<1>37. CASE RecRemoval
    BY <1>37 DEF RecRemoval, Created, NowUp, StartRuns, StartExits,
     StartRefused, CanStart
<1>38. CASE RecRejoin
  BY <1>38 DEF RecRejoin, Rejoin
<1>39. CASE RecList
  BY <1>39 DEF RecList, LeftStopped
<1>40. CASE RecListFails
  BY <1>40 DEF RecListFails, MayFail, FreshMemory
<1>41. ASSUME NEW c \in Containers, RecStart(c) PROVE DownNow'
  BY <1>41 DEF RecStart, NowUp, StartRuns, StartExits, StartRefused, CanStart
<1>42. CASE RecClear
  BY <1>42 DEF RecClear, MayFail, FreshMemory
<1>43. CASE Cancel
  BY <1>43 DEF Cancel
<1>44. ASSUME NEW c \in Containers, UserStarts(c) PROVE DownNow'
  BY <1>44 DEF UserStarts, UserMayAct
<1>45. ASSUME NEW c \in Containers, UserStops(c) PROVE DownNow'
  BY <1>45 DEF UserStops, UserMayAct
<1>46. CASE UNCHANGED vars
  BY <1>46
<1>47. QED
    BY <1>1, <1>2, <1>3, <1>4, <1>5, <1>6, <1>7, <1>8, <1>9, <1>10, <1>11,
     <1>12, <1>13, <1>14, <1>15, <1>16, <1>17, <1>18, <1>19, <1>20, <1>21,
     <1>22, <1>23, <1>24, <1>25, <1>26, <1>27, <1>28, <1>29, <1>30, <1>31,
     <1>32, <1>33, <1>34, <1>35, <1>36, <1>37, <1>38, <1>39, <1>40, <1>41,
     <1>42, <1>43, <1>44, <1>45, <1>46
  DEF Next, Program, Backup, Update, Recover, Environment

\* A backup leaves everything running that ran before it: the order target,
\* then sharers, on the current ID, works through failed stops and reads, the
\* second stop round, the update and its roll back, cancels and crashes.
THEOREM EverythingComesBack ==
  ASSUME StartsWork
  PROVE  Spec => []EverythingIsBack
<1> DEFINE Inv == TypeOK /\ PathInv /\ TargetInv /\ DownNow
<1>1. Init => Inv
  BY TypeInit DEF Init, PathInv, TargetInv, DownNow, InBackup, Updating
<1>2. Inv /\ [Next]_vars => Inv'
  BY TypeStep, PathStep, TargetStep, DownStep
<1>3. Inv => EverythingIsBack
  BY DEF DownNow, EverythingIsBack
<1>4. QED
  BY <1>1, <1>2, <1>3, PTL DEF Spec

-----------------------------------------------------------------------------
(* What a user turned off stays off *)

\* On the way from one removal record to the end of it.
Removing == {"updStop", "updRemove", "updCreate", "rollRemove", "rollCreate", "updForget",
             "down", "recRemoval", "recRejoin"}

\* Inside a backup a user's decision is one of this backup, or on a container
\* it does not touch; what goes down or is replaced is nobody's decision.
OffInv ==
  /\ userOff \cap up = {}
  /\ userOff \cap Recorded = {}
  /\ InBackup => userOff \cap was \subseteq touched
  /\ InBackup /\ pc \notin {"preflight", "finish"}
       /\ ~(snap /\ pc \in {"readSnap", "commit", "checkUpdate"}) =>
       userOff \cap (held \cup ({Target} \cap was)) = {}
  /\ pc \in {"idle", "preflight", "readSnap", "finish"} \/ (pc = "commit" /\ snap) => marks = {}
  /\ pc = "checkUpdate" /\ snap => marks = {}
  /\ InBackup => marks \subseteq held
  /\ pc = "recStart" => todo \subseteq held /\ held = marks
  /\ ~present => Target \notin up
  /\ pc \in {"updCreate", "rollCreate"} => ~present
  /\ pc \notin Removing /\ removal => ~present

\* The program starts what it found running, or what a record names.
LEMMA OffStep ==
  ASSUME Faults \cap {"clear", "list"} = {}
  PROVE  TypeOK /\ PathInv /\ OffInv /\ [Next]_vars => OffInv'
<1> USE DEF vars, docker, ids, disk, config, results, signals, user, bounds,
     history, memory
<1> USE DepsAssumption DEF InBackup, PathInv, Updating, OffInv, Removing,
     Recorded
<1> SUFFICES ASSUME Faults \cap {"clear", "list"} = {}, TypeOK, PathInv, OffInv, [Next]_vars
             PROVE  OffInv'
  OBVIOUS
<1>0. round \in {1, 2} /\ bound \subseteq Sharers /\ stale \subseteq Sharers
  BY DEF TypeOK
<1> USE <1>0
<1>1. ASSUME NEW s \in Snapshots, NEW u \in Updates, Begin(s, u)
      PROVE  OffInv'
  BY <1>1 DEF Begin, RunningNow
<1>2. CASE Defer
  BY <1>2 DEF Defer, FreshMemory
<1>3. CASE PreflightFails
  BY <1>3 DEF PreflightFails, FreshMemory
<1>4. CASE PreflightPasses
  BY <1>4 DEF PreflightPasses, Overrules, GoingDown
<1>5. CASE MarkDown
  BY <1>5 DEF MarkDown, MayFail, FirstStop
<1>6. CASE StopTarget
  BY <1>6 DEF StopTarget, NowUp, StartsBefore, Unwind
<1>7. CASE StopTargetFails
  BY <1>7 DEF StopTargetFails, NowUp, StartsBefore, StopFails, Unwind
<1>8. ASSUME NEW d \in Deps, StopDep(d) PROVE OffInv'
  BY <1>8 DEF StopDep, NowUp, StartsBefore, Unwind
<1>9. ASSUME NEW d \in Deps, StopDepFails(d) PROVE OffInv'
  BY <1>9 DEF StopDepFails, NowUp, StopFails
<1>10. CASE StopsDone
  BY <1>10 DEF StopsDone, StartsBefore, Unwind
<1>11. CASE Read
  BY <1>11 DEF Read
<1>12. CASE ReadFails
  BY <1>12 DEF ReadFails, StartsBefore, Unwind
<1>13. CASE Take
  BY <1>13 DEF Take, StartsBefore, Unwind
<1>14. CASE TakeFails
  BY <1>14 DEF TakeFails, StartsBefore, Unwind
<1>15. ASSUME NEW d \in Deps, StartDep(d) PROVE OffInv'
  BY <1>15 DEF StartDep, NowUp, StartRuns, StartExits, StartRefused, CanStart
<1>16. CASE StartTarget
    BY <1>16 DEF StartTarget, NowUp, StartsAfter, StartRuns, StartExits,
     StartRefused, CanStart
<1>17. CASE ClearDown
  BY <1>17 DEF ClearDown, MayFail, NotRunning
<1>18. CASE ReadSnapshot
  BY <1>18 DEF ReadSnapshot
<1>19. CASE ReadSnapshotFails
  BY <1>19 DEF ReadSnapshotFails
<1>20. CASE Commit
  BY <1>20 DEF Commit, StartsBefore
<1>21. CASE Finish
  BY <1>21 DEF Finish, FreshMemory
<1>22. CASE NoNewImage
  BY <1>22 DEF NoNewImage, AfterUpdate, StartsAfter
<1>23. CASE NewImage
  BY <1>23 DEF NewImage, Overrules, StartsAfter
<1>24. CASE UpdMark
  BY <1>24 DEF UpdMark, BoundToTarget, MayFail
<1>25. CASE UpdStop
  BY <1>25 DEF UpdStop, NowUp, StopFails
<1>26. CASE UpdRemove
  BY <1>26 DEF UpdRemove
<1>27. CASE UpdRemoveFails
  BY <1>27 DEF UpdRemoveFails, Forgets, MayFail
<1>28. CASE UpdStartAgain
    BY <1>28 DEF UpdStartAgain, NowUp, StartRuns, StartExits, StartRefused,
     CanStart
<1>29. CASE UpdCreate
  BY <1>29 DEF UpdCreate, Created, NowUp
<1>30. CASE RollRemove
  BY <1>30 DEF RollRemove, Forgets, MayFail
<1>31. CASE RollCreate
  BY <1>31 DEF RollCreate, Created, NowUp, Forgets, MayFail
<1>32. CASE UpdForget
  BY <1>32 DEF UpdForget, Forgets, MayFail
<1>33. CASE UpdRejoin
  BY <1>33 DEF UpdRejoin, Rejoin
<1>34. CASE UpdWait
  BY <1>34 DEF UpdWait, AfterUpdate, StartsAfter
<1>35. CASE Crash
  BY <1>35 DEF Crash, FreshMemory
<1>36. CASE Boot
  BY <1>36 DEF Boot
<1>37. CASE RecRemoval
    BY <1>37 DEF RecRemoval, Created, NowUp, Forgets, MayFail, StartRuns,
     StartExits, StartRefused, CanStart
<1>38. CASE RecRejoin
  BY <1>38 DEF RecRejoin, Rejoin, Forgets, MayFail
<1>39. CASE RecList
  BY <1>39 DEF RecList, MayFail, LeftStopped
<1>40. CASE RecListFails
  BY <1>40 DEF RecListFails, MayFail, FreshMemory
<1>41. ASSUME NEW c \in Containers, RecStart(c) PROVE OffInv'
  BY <1>41 DEF RecStart, NowUp, StartRuns, StartExits, StartRefused, CanStart
<1>42. CASE RecClear
  BY <1>42 DEF RecClear, MayFail, FreshMemory
<1>43. CASE Cancel
  BY <1>43 DEF Cancel
<1>44. ASSUME NEW c \in Containers, UserStarts(c) PROVE OffInv'
  BY <1>44 DEF UserStarts, UserMayAct, CanStart
<1>45. ASSUME NEW c \in Containers, UserStops(c) PROVE OffInv'
  BY <1>45 DEF UserStops, UserMayAct, Decides
<1>46. CASE UNCHANGED vars
  BY <1>46
<1>47. QED
    BY <1>1, <1>2, <1>3, <1>4, <1>5, <1>6, <1>7, <1>8, <1>9, <1>10, <1>11,
     <1>12, <1>13, <1>14, <1>15, <1>16, <1>17, <1>18, <1>19, <1>20, <1>21,
     <1>22, <1>23, <1>24, <1>25, <1>26, <1>27, <1>28, <1>29, <1>30, <1>31,
     <1>32, <1>33, <1>34, <1>35, <1>36, <1>37, <1>38, <1>39, <1>40, <1>41,
     <1>42, <1>43, <1>44, <1>45, <1>46
  DEF Next, Program, Backup, Update, Recover, Environment

\* What a user turned off while it was the user's to decide (Decides) is not
\* started by a restart, an update or a boot, unless the list of an earlier
\* inspect takes it back: in a preflight that passes, and when a new image
\* follows the read of a snapshot (Overrules).
THEOREM UserOffStays ==
  ASSUME Faults \cap {"clear", "list"} = {}
  PROVE  Spec => UserOffStaysOff
<1>1. Init => TypeOK /\ PathInv /\ OffInv
  BY TypeInit DEF Init, PathInv, OffInv, InBackup, Updating, Removing, Recorded
<1>2. TypeOK /\ PathInv /\ OffInv /\ [Next]_vars => (TypeOK /\ PathInv /\ OffInv)'
  BY TypeStep, PathStep, OffStep
<1>3. OffInv' => [\A c \in userOff \cap userOff' : c \in up' => c \in up]_vars
  BY DEF OffInv
<1>4. QED
  BY <1>1, <1>2, <1>3, PTL DEF Spec, UserOffStaysOff

=============================================================================
