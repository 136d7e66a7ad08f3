-------------------------- MODULE ZFSWindow_proofs --------------------------
(***************************************************************************)
(* Whatever a dataset's window took down is on a row the next boot reads,  *)
(* for any datasets, containers, dependencies and faults, and any number   *)
(* of crashes and user actions.                                            *)
(*                                                                         *)
(* A row is only ever replaced as a whole, so the proof is about what each *)
(* replacement leaves out: WindowInv says that the containers the program  *)
(* holds down and the row names are in the memory of whoever replaces it.  *)
(*                                                                         *)
(* The second part is about the order of the stops: what the snapshot      *)
(* needs down is down, dependents and sharers before what they run on.     *)
(*                                                                         *)
(* The third is about the way back: with a Docker that starts what it is   *)
(* asked to, whatever is down is yet to be started or cannot be (TakenInv).*)
(* While no user acts, who cannot be is Doomed: a set of containers that   *)
(* are down, each with an owner in the set, or down before the program ran.*)
(***************************************************************************)
EXTENDS ZFSWindow, TLAPS

\* Whoever holds a window or a boot step holds it for an item of the list.
ItemInv == pc \notin {"idle", "down", "boot"} => item \in Items

\* Before the stops nothing is remembered as stopped.
FreshInv == pc \in {"idle", "pre", "freeze", "mark"} => stopped = {} /\ asked = {}

\* A level is part of what the row names.
LevelInv == pc = "stop" => level \subseteq rest /\ rest \subseteq marker[item]

\* What the program took down is not running.
DownInv == took \cap up = {}

\* What the row names and the program took down is in memory.
WindowInv ==
    /\ pc = "mark" => rest \cap took = {}
    /\ pc = "stop" => marker[item] \cap took \subseteq stopped \cup asked
    /\ pc = "thaw" \/ (pc = "snap" /\ stopped # {}) =>
           marker[item] \cap took \subseteq stopped
    /\ pc = "bootStart" => marker[item] \subseteq stopped \cup unseen

IInv == TypeOK /\ ItemInv /\ FreshInv /\ LevelInv /\ DownInv /\ WindowInv /\ NothingForgotten

----------------------------------------------------------------------------
(* Types *)

\* No step leaves the types: not the windows, the starts, the boot, a crash
\* or a user.
LEMMA TypePreserved ==
  ASSUME TypeOK, ItemInv, [Next]_vars
  PROVE  TypeOK'
<1> USE ItemsAssumption DEF TypeOK, ItemInv, Steps
<1>1. CASE PreFails
  BY <1>1 DEF PreFails, ForgetsAll, disk, history, bounds
<1>2. CASE PreRuns
  BY <1>2 DEF PreRuns, disk, memory, history, bounds
<1>3. CASE FreezeRefuses
  BY <1>3 DEF FreezeRefuses, disk, memory, history, bounds
<1>4. CASE Looks
  BY <1>4 DEF Looks, WithSharers, Sharers, disk, history, bounds
<1>5. CASE Marks
  BY <1>5 DEF Marks, Tops, bounds
<1>6. CASE MarkFails
  BY <1>6 DEF MarkFails, disk, memory, history, bounds
<1>7. CASE LevelDone
  <2>1. CASE failed # {}
    BY <1>7, <2>1 DEF LevelDone, memory, disk, history, bounds
  <2>2. CASE failed = {}
    <3>1. rest' \in SUBSET Containers /\ level' \in SUBSET Containers
      BY <1>7, <2>2 DEF LevelDone, Tops
    <3>2. pc' \in {"stop", "snap"}
      BY <1>7, <2>2 DEF LevelDone
    <3> QED
      BY <1>7, <2>2, <3>1, <3>2 DEF LevelDone, disk, history, bounds
  <2> QED
    BY <2>1, <2>2
<1>8. CASE Snaps
  BY <1>8 DEF Snaps, disk, history, bounds
<1>9. CASE ThawEnds
  BY <1>9 DEF ThawEnds, Records, StillDown, memory, history, bounds
<1>10. CASE Posts
  BY <1>10 DEF Posts, ForgetsAll, disk, history, bounds
<1>11. CASE Boots
  BY <1>11 DEF Boots, disk, history, bounds
<1>12. CASE BootRecords
  BY <1>12 DEF BootRecords, Records, StillDown, memory, history, bounds
<1>13. CASE BootEnds
  BY <1>13 DEF BootEnds, ForgetsAll, disk, history, bounds
<1>14. CASE Crash
  BY <1>14 DEF Crash, ForgetsAll, disk, history
<1>15. ASSUME NEW c \in Containers, StopWorks(c) PROVE TypeOK'
  BY <1>15 DEF StopWorks, Stops, disk, bounds
<1>16. ASSUME NEW c \in Containers, StopFails(c) PROVE TypeOK'
  BY <1>16 DEF StopFails, Stops, Quiet, disk, bounds, history
<1>17. ASSUME NEW c \in Containers, LooksAgain(c) PROVE TypeOK'
  BY <1>17 DEF LooksAgain, disk, history, bounds
<1>18. ASSUME NEW c \in Containers, StartWorks(c) PROVE TypeOK'
  BY <1>18 DEF StartWorks, Runs, Tries, disk, bounds
<1>19. ASSUME NEW c \in Containers, StartFails(c) PROVE TypeOK'
  BY <1>19 DEF StartFails, Quiet, Tries, disk, bounds, history
<1>20. ASSUME NEW c \in Containers, UserStarts(c) PROVE TypeOK'
  BY <1>20 DEF UserStarts, Runs, disk, memory
<1>21. ASSUME NEW c \in Containers, UserStops(c) PROVE TypeOK'
  BY <1>21 DEF UserStops, disk, memory, history
<1>22. ASSUME NEW i \in Items, Begin(i) PROVE TypeOK'
  BY <1>22 DEF Begin, disk, history, bounds
<1>23. ASSUME NEW i \in Items, BootTakes(i) PROVE TypeOK'
  BY <1>23 DEF BootTakes, disk, history, bounds
<1>24. CASE UNCHANGED vars
  BY <1>24 DEF vars, disk, memory, history, bounds
<1> QED
  BY <1>1, <1>2, <1>3, <1>4, <1>5, <1>6, <1>7, <1>8, <1>9, <1>10, <1>11, <1>12, <1>13, <1>14, <1>15, <1>16, <1>17, <1>18, <1>19, <1>20, <1>21, <1>22, <1>23, <1>24
  DEF Next, Program, Window, Starts, Recovery

\* A window and a boot step keep their item until they end.
LEMMA ItemPreserved ==
  ASSUME TypeOK, ItemInv, [Next]_vars
  PROVE  ItemInv'
<1> USE ItemsAssumption DEF TypeOK, ItemInv, Steps
<1>1. CASE PreFails
  BY <1>1 DEF PreFails, ForgetsAll, disk, history, bounds
<1>2. CASE PreRuns
  BY <1>2 DEF PreRuns, disk, memory, history, bounds
<1>3. CASE FreezeRefuses
  BY <1>3 DEF FreezeRefuses, disk, memory, history, bounds
<1>4. CASE Looks
  BY <1>4 DEF Looks, WithSharers, Sharers, disk, history, bounds
<1>5. CASE Marks
  BY <1>5 DEF Marks, Tops, bounds
<1>6. CASE MarkFails
  BY <1>6 DEF MarkFails, disk, memory, history, bounds
<1>7. CASE LevelDone
  BY <1>7 DEF LevelDone, Tops, disk, history, bounds
<1>8. CASE Snaps
  BY <1>8 DEF Snaps, disk, history, bounds
<1>9. CASE ThawEnds
  BY <1>9 DEF ThawEnds, Records, StillDown, memory, history, bounds
<1>10. CASE Posts
  BY <1>10 DEF Posts, ForgetsAll, disk, history, bounds
<1>11. CASE Boots
  BY <1>11 DEF Boots, disk, history, bounds
<1>12. CASE BootRecords
  BY <1>12 DEF BootRecords, Records, StillDown, memory, history, bounds
<1>13. CASE BootEnds
  BY <1>13 DEF BootEnds, ForgetsAll, disk, history, bounds
<1>14. CASE Crash
  BY <1>14 DEF Crash, ForgetsAll, disk, history
<1>15. ASSUME NEW c \in Containers, StopWorks(c) PROVE ItemInv'
  BY <1>15 DEF StopWorks, Stops, disk, bounds
<1>16. ASSUME NEW c \in Containers, StopFails(c) PROVE ItemInv'
  BY <1>16 DEF StopFails, Stops, Quiet, disk, bounds, history
<1>17. ASSUME NEW c \in Containers, LooksAgain(c) PROVE ItemInv'
  BY <1>17 DEF LooksAgain, disk, history, bounds
<1>18. ASSUME NEW c \in Containers, StartWorks(c) PROVE ItemInv'
  BY <1>18 DEF StartWorks, Runs, Tries, disk, bounds
<1>19. ASSUME NEW c \in Containers, StartFails(c) PROVE ItemInv'
  BY <1>19 DEF StartFails, Quiet, Tries, disk, bounds, history
<1>20. ASSUME NEW c \in Containers, UserStarts(c) PROVE ItemInv'
  BY <1>20 DEF UserStarts, Runs, disk, memory
<1>21. ASSUME NEW c \in Containers, UserStops(c) PROVE ItemInv'
  BY <1>21 DEF UserStops, disk, memory, history
<1>22. ASSUME NEW i \in Items, Begin(i) PROVE ItemInv'
  BY <1>22 DEF Begin, disk, history, bounds
<1>23. ASSUME NEW i \in Items, BootTakes(i) PROVE ItemInv'
  BY <1>23 DEF BootTakes, disk, history, bounds
<1>24. CASE UNCHANGED vars
  BY <1>24 DEF vars, disk, memory, history, bounds
<1> QED
  BY <1>1, <1>2, <1>3, <1>4, <1>5, <1>6, <1>7, <1>8, <1>9, <1>10, <1>11, <1>12, <1>13, <1>14, <1>15, <1>16, <1>17, <1>18, <1>19, <1>20, <1>21, <1>22, <1>23, <1>24
  DEF Next, Program, Window, Starts, Recovery

\* The types of the first state: some containers up, no row, no window.
LEMMA InitTypes == Init => TypeOK /\ ItemInv
<1> SUFFICES ASSUME Init PROVE TypeOK /\ ItemInv
  OBVIOUS
<1>1. marker \in [Items -> SUBSET Containers]
  BY DEF Init
<1>2. {rest, level, asked, stopped, unseen, failed, todo} \subseteq SUBSET Containers
  BY DEF Init
<1>3. queue \in SUBSET Items /\ {took, over, touched} \subseteq SUBSET Containers
  BY DEF Init
<1>4. crashes \in 0 .. MaxCrashes /\ acts \in 0 .. MaxUserActs
  BY ItemsAssumption DEF Init
<1> QED
  BY <1>1, <1>2, <1>3, <1>4 DEF Init, TypeOK, ItemInv, Steps

\* Every variable keeps its type, for any datasets, containers, dependencies,
\* faults and bounds (the window, thaw, the boot, crashes and users).
THEOREM TypeCorrect == Spec => []TypeOK
<1>1. Init => TypeOK /\ ItemInv
  BY InitTypes
<1>2. TypeOK /\ ItemInv /\ [Next]_vars => (TypeOK /\ ItemInv)'
  BY TypePreserved, ItemPreserved
<1> QED
  BY <1>1, <1>2, PTL DEF Spec

----------------------------------------------------------------------------
(* What memory and the rows know *)

\* Memory is empty until the stops begin: every path back to idle forgets.
LEMMA FreshPreserved ==
  ASSUME TypeOK, FreshInv, [Next]_vars
  PROVE  FreshInv'
<1> USE DEF TypeOK, FreshInv, Steps
<1>1. CASE PreFails
  BY <1>1 DEF PreFails, ForgetsAll, disk, history, bounds
<1>2. CASE PreRuns
  BY <1>2 DEF PreRuns, disk, memory, history, bounds
<1>3. CASE FreezeRefuses
  BY <1>3 DEF FreezeRefuses, disk, memory, history, bounds
<1>4. CASE Looks
  BY <1>4 DEF Looks, WithSharers, Sharers, disk, history, bounds
<1>5. CASE Marks
  BY <1>5 DEF Marks, Tops, bounds
<1>6. CASE MarkFails
  BY <1>6 DEF MarkFails, disk, memory, history, bounds
<1>7. CASE LevelDone
  BY <1>7 DEF LevelDone, Tops, disk, history, bounds
<1>8. CASE Snaps
  BY <1>8 DEF Snaps, disk, history, bounds
<1>9. CASE ThawEnds
  BY <1>9 DEF ThawEnds, Records, StillDown, memory, history, bounds
<1>10. CASE Posts
  BY <1>10 DEF Posts, ForgetsAll, disk, history, bounds
<1>11. CASE Boots
  BY <1>11 DEF Boots, disk, history, bounds
<1>12. CASE BootRecords
  BY <1>12 DEF BootRecords, Records, StillDown, memory, history, bounds
<1>13. CASE BootEnds
  BY <1>13 DEF BootEnds, ForgetsAll, disk, history, bounds
<1>14. CASE Crash
  BY <1>14 DEF Crash, ForgetsAll, disk, history
<1>15. ASSUME NEW c \in Containers, StopWorks(c) PROVE FreshInv'
  BY <1>15 DEF StopWorks, Stops, disk, bounds
<1>16. ASSUME NEW c \in Containers, StopFails(c) PROVE FreshInv'
  BY <1>16 DEF StopFails, Stops, Quiet, disk, bounds, history
<1>17. ASSUME NEW c \in Containers, LooksAgain(c) PROVE FreshInv'
  BY <1>17 DEF LooksAgain, disk, history, bounds
<1>18. ASSUME NEW c \in Containers, StartWorks(c) PROVE FreshInv'
  BY <1>18 DEF StartWorks, Runs, Tries, disk, bounds
<1>19. ASSUME NEW c \in Containers, StartFails(c) PROVE FreshInv'
  BY <1>19 DEF StartFails, Quiet, Tries, disk, bounds, history
<1>20. ASSUME NEW c \in Containers, UserStarts(c) PROVE FreshInv'
  BY <1>20 DEF UserStarts, Runs, disk, memory
<1>21. ASSUME NEW c \in Containers, UserStops(c) PROVE FreshInv'
  BY <1>21 DEF UserStops, disk, memory, history
<1>22. ASSUME NEW i \in Items, Begin(i) PROVE FreshInv'
  BY <1>22 DEF Begin, disk, history, bounds
<1>23. ASSUME NEW i \in Items, BootTakes(i) PROVE FreshInv'
  BY <1>23 DEF BootTakes, disk, history, bounds
<1>24. CASE UNCHANGED vars
  BY <1>24 DEF vars, disk, memory, history, bounds
<1> QED
  BY <1>1, <1>2, <1>3, <1>4, <1>5, <1>6, <1>7, <1>8, <1>9, <1>10, <1>11, <1>12, <1>13, <1>14, <1>15, <1>16, <1>17, <1>18, <1>19, <1>20, <1>21, <1>22, <1>23, <1>24
  DEF Next, Program, Window, Starts, Recovery

\* Only the containers the row names are asked to stop (Freeze writes it first).
LEMMA LevelPreserved ==
  ASSUME TypeOK, ItemInv, LevelInv, [Next]_vars
  PROVE  LevelInv'
<1> USE DEF TypeOK, ItemInv, LevelInv, Steps
<1>1. CASE PreFails
  BY <1>1 DEF PreFails, ForgetsAll, disk, history, bounds
<1>2. CASE PreRuns
  BY <1>2 DEF PreRuns, disk, memory, history, bounds
<1>3. CASE FreezeRefuses
  BY <1>3 DEF FreezeRefuses, disk, memory, history, bounds
<1>4. CASE Looks
  BY <1>4 DEF Looks, WithSharers, Sharers, disk, history, bounds
<1>5. CASE Marks
  BY <1>5 DEF Marks, Tops, bounds
<1>6. CASE MarkFails
  BY <1>6 DEF MarkFails, disk, memory, history, bounds
<1>7. CASE LevelDone
  BY <1>7 DEF LevelDone, Tops, disk, history, bounds
<1>8. CASE Snaps
  BY <1>8 DEF Snaps, disk, history, bounds
<1>9. CASE ThawEnds
  BY <1>9 DEF ThawEnds, Records, StillDown, memory, history, bounds
<1>10. CASE Posts
  BY <1>10 DEF Posts, ForgetsAll, disk, history, bounds
<1>11. CASE Boots
  BY <1>11 DEF Boots, disk, history, bounds
<1>12. CASE BootRecords
  BY <1>12 DEF BootRecords, Records, StillDown, memory, history, bounds
<1>13. CASE BootEnds
  BY <1>13 DEF BootEnds, ForgetsAll, disk, history, bounds
<1>14. CASE Crash
  BY <1>14 DEF Crash, ForgetsAll, disk, history
<1>15. ASSUME NEW c \in Containers, StopWorks(c) PROVE LevelInv'
  BY <1>15 DEF StopWorks, Stops, disk, bounds
<1>16. ASSUME NEW c \in Containers, StopFails(c) PROVE LevelInv'
  BY <1>16 DEF StopFails, Stops, Quiet, disk, bounds, history
<1>17. ASSUME NEW c \in Containers, LooksAgain(c) PROVE LevelInv'
  BY <1>17 DEF LooksAgain, disk, history, bounds
<1>18. ASSUME NEW c \in Containers, StartWorks(c) PROVE LevelInv'
  BY <1>18 DEF StartWorks, Runs, Tries, disk, bounds
<1>19. ASSUME NEW c \in Containers, StartFails(c) PROVE LevelInv'
  BY <1>19 DEF StartFails, Quiet, Tries, disk, bounds, history
<1>20. ASSUME NEW c \in Containers, UserStarts(c) PROVE LevelInv'
  BY <1>20 DEF UserStarts, Runs, disk, memory
<1>21. ASSUME NEW c \in Containers, UserStops(c) PROVE LevelInv'
  BY <1>21 DEF UserStops, disk, memory, history
<1>22. ASSUME NEW i \in Items, Begin(i) PROVE LevelInv'
  BY <1>22 DEF Begin, disk, history, bounds
<1>23. ASSUME NEW i \in Items, BootTakes(i) PROVE LevelInv'
  BY <1>23 DEF BootTakes, disk, history, bounds
<1>24. CASE UNCHANGED vars
  BY <1>24 DEF vars, disk, memory, history, bounds
<1> QED
  BY <1>1, <1>2, <1>3, <1>4, <1>5, <1>6, <1>7, <1>8, <1>9, <1>10, <1>11, <1>12, <1>13, <1>14, <1>15, <1>16, <1>17, <1>18, <1>19, <1>20, <1>21, <1>22, <1>23, <1>24
  DEF Next, Program, Window, Starts, Recovery

\* A container that comes up by whoever's hand is no longer held down.
LEMMA DownPreserved ==
  ASSUME TypeOK, DownInv, [Next]_vars
  PROVE  DownInv'
<1> USE DEF TypeOK, DownInv
<1>1. CASE PreFails
  BY <1>1 DEF PreFails, ForgetsAll, disk, history, bounds
<1>2. CASE PreRuns
  BY <1>2 DEF PreRuns, disk, memory, history, bounds
<1>3. CASE FreezeRefuses
  BY <1>3 DEF FreezeRefuses, disk, memory, history, bounds
<1>4. CASE Looks
  BY <1>4 DEF Looks, WithSharers, Sharers, disk, history, bounds
<1>5. CASE Marks
  BY <1>5 DEF Marks, Tops, bounds
<1>6. CASE MarkFails
  BY <1>6 DEF MarkFails, disk, memory, history, bounds
<1>7. CASE LevelDone
  BY <1>7 DEF LevelDone, Tops, disk, history, bounds
<1>8. CASE Snaps
  BY <1>8 DEF Snaps, disk, history, bounds
<1>9. CASE ThawEnds
  BY <1>9 DEF ThawEnds, Records, StillDown, memory, history, bounds
<1>10. CASE Posts
  BY <1>10 DEF Posts, ForgetsAll, disk, history, bounds
<1>11. CASE Boots
  BY <1>11 DEF Boots, disk, history, bounds
<1>12. CASE BootRecords
  BY <1>12 DEF BootRecords, Records, StillDown, memory, history, bounds
<1>13. CASE BootEnds
  BY <1>13 DEF BootEnds, ForgetsAll, disk, history, bounds
<1>14. CASE Crash
  BY <1>14 DEF Crash, ForgetsAll, disk, history
<1>15. ASSUME NEW c \in Containers, StopWorks(c) PROVE DownInv'
  BY <1>15 DEF StopWorks, Stops, disk, bounds
<1>16. ASSUME NEW c \in Containers, StopFails(c) PROVE DownInv'
  BY <1>16 DEF StopFails, Stops, Quiet, disk, bounds, history
<1>17. ASSUME NEW c \in Containers, LooksAgain(c) PROVE DownInv'
  BY <1>17 DEF LooksAgain, disk, history, bounds
<1>18. ASSUME NEW c \in Containers, StartWorks(c) PROVE DownInv'
  BY <1>18 DEF StartWorks, Runs, Tries, disk, bounds
<1>19. ASSUME NEW c \in Containers, StartFails(c) PROVE DownInv'
  BY <1>19 DEF StartFails, Quiet, Tries, disk, bounds, history
<1>20. ASSUME NEW c \in Containers, UserStarts(c) PROVE DownInv'
  BY <1>20 DEF UserStarts, Runs, disk, memory
<1>21. ASSUME NEW c \in Containers, UserStops(c) PROVE DownInv'
  BY <1>21 DEF UserStops, disk, memory, history
<1>22. ASSUME NEW i \in Items, Begin(i) PROVE DownInv'
  BY <1>22 DEF Begin, disk, history, bounds
<1>23. ASSUME NEW i \in Items, BootTakes(i) PROVE DownInv'
  BY <1>23 DEF BootTakes, disk, history, bounds
<1>24. CASE UNCHANGED vars
  BY <1>24 DEF vars, disk, memory, history, bounds
<1> QED
  BY <1>1, <1>2, <1>3, <1>4, <1>5, <1>6, <1>7, <1>8, <1>9, <1>10, <1>11, <1>12, <1>13, <1>14, <1>15, <1>16, <1>17, <1>18, <1>19, <1>20, <1>21, <1>22, <1>23, <1>24
  DEF Next, Program, Window, Starts, Recovery

\* Each stop moves a container into memory as it goes down, however the call
\* ended, and the boot splits the whole row into tried and unseen.
LEMMA WindowPreserved ==
  ASSUME TypeOK, ItemInv, FreshInv, LevelInv, DownInv, WindowInv, [Next]_vars
  PROVE  WindowInv'
<1> USE DEF TypeOK, ItemInv, FreshInv, LevelInv, DownInv, WindowInv, Steps
<1>1. CASE PreFails
  BY <1>1 DEF PreFails, ForgetsAll, disk, history, bounds
<1>2. CASE PreRuns
  BY <1>2 DEF PreRuns, disk, memory, history, bounds
<1>3. CASE FreezeRefuses
  BY <1>3 DEF FreezeRefuses, disk, memory, history, bounds
<1>4. CASE Looks
  BY <1>4 DEF Looks, WithSharers, Sharers, disk, history, bounds
<1>5. CASE Marks
  BY <1>5 DEF Marks, Tops, bounds
<1>6. CASE MarkFails
  BY <1>6 DEF MarkFails, disk, memory, history, bounds
<1>7. CASE LevelDone
  BY <1>7 DEF LevelDone, Tops, disk, history, bounds
<1>8. CASE Snaps
  BY <1>8 DEF Snaps, disk, history, bounds
<1>9. CASE ThawEnds
  BY <1>9 DEF ThawEnds, Records, StillDown, memory, history, bounds
<1>10. CASE Posts
  BY <1>10 DEF Posts, ForgetsAll, disk, history, bounds
<1>11. CASE Boots
  BY <1>11 DEF Boots, disk, history, bounds
<1>12. CASE BootRecords
  BY <1>12 DEF BootRecords, Records, StillDown, memory, history, bounds
<1>13. CASE BootEnds
  BY <1>13 DEF BootEnds, ForgetsAll, disk, history, bounds
<1>14. CASE Crash
  BY <1>14 DEF Crash, ForgetsAll, disk, history
<1>15. ASSUME NEW c \in Containers, StopWorks(c) PROVE WindowInv'
  BY <1>15 DEF StopWorks, Stops, disk, bounds
<1>16. ASSUME NEW c \in Containers, StopFails(c) PROVE WindowInv'
  BY <1>16 DEF StopFails, Stops, Quiet, disk, bounds, history
<1>17. ASSUME NEW c \in Containers, LooksAgain(c) PROVE WindowInv'
  BY <1>17 DEF LooksAgain, disk, history, bounds
<1>18. ASSUME NEW c \in Containers, StartWorks(c) PROVE WindowInv'
  BY <1>18 DEF StartWorks, Runs, Tries, disk, bounds
<1>19. ASSUME NEW c \in Containers, StartFails(c) PROVE WindowInv'
  BY <1>19 DEF StartFails, Quiet, Tries, disk, bounds, history
<1>20. ASSUME NEW c \in Containers, UserStarts(c) PROVE WindowInv'
  BY <1>20 DEF UserStarts, Runs, disk, memory
<1>21. ASSUME NEW c \in Containers, UserStops(c) PROVE WindowInv'
  BY <1>21 DEF UserStops, disk, memory, history
<1>22. ASSUME NEW i \in Items, Begin(i) PROVE WindowInv'
  BY <1>22 DEF Begin, disk, history, bounds
<1>23. ASSUME NEW i \in Items, BootTakes(i) PROVE WindowInv'
  BY <1>23 DEF BootTakes, disk, history, bounds
<1>24. CASE UNCHANGED vars
  BY <1>24 DEF vars, disk, memory, history, bounds
<1> QED
  BY <1>1, <1>2, <1>3, <1>4, <1>5, <1>6, <1>7, <1>8, <1>9, <1>10, <1>11, <1>12, <1>13, <1>14, <1>15, <1>16, <1>17, <1>18, <1>19, <1>20, <1>21, <1>22, <1>23, <1>24
  DEF Next, Program, Window, Starts, Recovery

\* A row that is replaced loses only what runs again or what a window wrote
\* over; a row that is not keeps what was on it.
LEMMA ForgottenPreserved ==
  ASSUME IInv, [Next]_vars
  PROVE  NothingForgotten'
<1> USE DEF IInv, TypeOK, ItemInv, LevelInv, DownInv, WindowInv, NothingForgotten, Marked, Steps
<1>1. CASE PreFails
  BY <1>1 DEF PreFails, ForgetsAll, disk, history, bounds
<1>2. CASE PreRuns
  BY <1>2 DEF PreRuns, disk, memory, history, bounds
<1>3. CASE FreezeRefuses
  BY <1>3 DEF FreezeRefuses, disk, memory, history, bounds
<1>4. CASE Looks
  BY <1>4 DEF Looks, WithSharers, Sharers, disk, history, bounds
<1>5. CASE Marks
  BY <1>5 DEF Marks, Tops, bounds
<1>6. CASE MarkFails
  BY <1>6 DEF MarkFails, disk, memory, history, bounds
<1>7. CASE LevelDone
  BY <1>7 DEF LevelDone, Tops, disk, history, bounds
<1>8. CASE Snaps
  BY <1>8 DEF Snaps, disk, history, bounds
<1>9. CASE ThawEnds
  <2>1. PICK down \in StillDown(stopped) : Records(down)
    BY <1>9 DEF ThawEnds
  <2>2. CASE UNCHANGED marker
    BY <1>9, <2>2 DEF ThawEnds, memory, history, bounds
  <2>3. CASE marker' = [marker EXCEPT ![item] = down]
    <3>1. pc = "thaw" /\ item \in Items /\ UNCHANGED <<up, took, over>>
      BY <1>9 DEF ThawEnds, history
    <3>2. stopped \ up \subseteq down
      BY <2>1 DEF StillDown
    <3>3. marker[item] \cap took \subseteq down
      BY <3>1, <3>2
    <3> QED
      BY <2>3, <3>1, <3>3
  <2> QED
    BY <2>1, <2>2, <2>3 DEF Records
<1>10. CASE Posts
  BY <1>10 DEF Posts, ForgetsAll, disk, history, bounds
<1>11. CASE Boots
  BY <1>11 DEF Boots, disk, history, bounds
<1>12. CASE BootRecords
  BY <1>12 DEF BootRecords, Records, StillDown, memory, history, bounds
<1>13. CASE BootEnds
  BY <1>13 DEF BootEnds, ForgetsAll, disk, history, bounds
<1>14. CASE Crash
  BY <1>14 DEF Crash, ForgetsAll, disk, history
<1>15. ASSUME NEW c \in Containers, StopWorks(c) PROVE NothingForgotten'
  BY <1>15 DEF StopWorks, Stops, disk, bounds
<1>16. ASSUME NEW c \in Containers, StopFails(c) PROVE NothingForgotten'
  BY <1>16 DEF StopFails, Stops, Quiet, disk, bounds, history
<1>17. ASSUME NEW c \in Containers, LooksAgain(c) PROVE NothingForgotten'
  BY <1>17 DEF LooksAgain, disk, history, bounds
<1>18. ASSUME NEW c \in Containers, StartWorks(c) PROVE NothingForgotten'
  BY <1>18 DEF StartWorks, Runs, Tries, disk, bounds
<1>19. ASSUME NEW c \in Containers, StartFails(c) PROVE NothingForgotten'
  BY <1>19 DEF StartFails, Quiet, Tries, disk, bounds, history
<1>20. ASSUME NEW c \in Containers, UserStarts(c) PROVE NothingForgotten'
  BY <1>20 DEF UserStarts, Runs, disk, memory
<1>21. ASSUME NEW c \in Containers, UserStops(c) PROVE NothingForgotten'
  BY <1>21 DEF UserStops, disk, memory, history
<1>22. ASSUME NEW i \in Items, Begin(i) PROVE NothingForgotten'
  BY <1>22 DEF Begin, disk, history, bounds
<1>23. ASSUME NEW i \in Items, BootTakes(i) PROVE NothingForgotten'
  BY <1>23 DEF BootTakes, disk, history, bounds
<1>24. CASE UNCHANGED vars
  BY <1>24 DEF vars, disk, memory, history, bounds
<1> QED
  BY <1>1, <1>2, <1>3, <1>4, <1>5, <1>6, <1>7, <1>8, <1>9, <1>10, <1>11, <1>12, <1>13, <1>14, <1>15, <1>16, <1>17, <1>18, <1>19, <1>20, <1>21, <1>22, <1>23, <1>24
  DEF Next, Program, Window, Starts, Recovery

LEMMA IInvStarts == Init => IInv
  BY InitTypes DEF Init, IInv, FreshInv, LevelInv, DownInv, WindowInv, NothingForgotten

LEMMA IInvStays ==
  ASSUME IInv, [Next]_vars
  PROVE  IInv'
  BY TypePreserved, ItemPreserved, FreshPreserved, LevelPreserved,
     DownPreserved, WindowPreserved, ForgottenPreserved DEF IInv

\* What a window took down and nobody has started since is on the row of an
\* item, or a later window wrote over it: for every environment, through any
\* number of crashes and user actions (Freeze, thaw, recoverItemRestarts).
THEOREM NothingForgottenAlways == Spec => []NothingForgotten
<1>1. IInv => NothingForgotten
  BY DEF IInv
<1> QED
  BY <1>1, IInvStarts, IInvStays, PTL DEF Spec

----------------------------------------------------------------------------
(* The order of the stops *)

\* What the snapshot needs down is in a level still to come, in the hands of
\* the current one, or a user's doing.  What is in no level has no dependents
\* left in the row that run.
QuietInv ==
    /\ pc = "mark" => StopList[item] \cap up \subseteq rest \cup touched
    /\ pc = "stop" =>
         /\ (StopList[item] \cup marker[item]) \cap up \subseteq rest \cup touched
         /\ level \subseteq Tops(rest)
         /\ Tops(rest) \cap up \subseteq level \cup asked \cup failed \cup touched
    /\ pc = "snap" => StopList[item] \cap up \subseteq touched

Sharing(cs) == {d \in up : Joins[d] \cap cs # {}}

\* A window holds everybody who shares a namespace with one it holds.
ShareInv ==
    "inspect" \notin faults =>
        /\ pc = "mark" => Sharing(rest) \subseteq rest \cup touched
        /\ pc = "stop" => Sharing(marker[item]) \subseteq marker[item] \cup touched

\* withSharers leaves nobody out when everything can be inspected.
LEMMA SharersAreClosed ==
  ASSUME TypeOK, NEW cs \in SUBSET up, NEW all \in WithSharers(cs)
  PROVE  /\ cs \subseteq all
         /\ "inspect" \notin faults => Sharing(all) \subseteq all
<1>1. cs \subseteq all
  BY DEF WithSharers
<1>2. ASSUME "inspect" \notin faults, NEW d \in Sharing(all) PROVE d \in all
  <2>1. all = Sharers(cs)
    BY <1>2 DEF WithSharers
  <2>2. PICK c \in Sharers(cs) : c \in Joins[d]
    BY <2>1 DEF Sharing
  <2>3. d \in up
    BY DEF Sharing
  <2>4. ASSUME NEW S \in SUBSET up, cs \subseteq S,
               \A e \in up : Joins[e] \cap S # {} => e \in S
        PROVE  d \in S
    <3>1. c \in S
      BY <2>2, <2>4 DEF Sharers
    <3> QED
      BY <2>2, <2>3, <2>4, <3>1
  <2>5. d \in Sharers(cs)
    BY <2>3, <2>4 DEF Sharers
  <2> QED
    BY <2>1, <2>5
<1> QED
  BY <1>1, <1>2

\* The levels, failed stops and users included, keep that.
LEMMA QuietPreserved ==
  ASSUME TypeOK, ItemInv, LevelInv, QuietInv, [Next]_vars
  PROVE  QuietInv'
<1> USE ItemsAssumption DEF TypeOK, ItemInv, LevelInv, QuietInv
<1>1. CASE PreFails
  BY <1>1 DEF PreFails, ForgetsAll, disk, history, bounds
<1>2. CASE PreRuns
  BY <1>2 DEF PreRuns, disk, memory, history, bounds
<1>3. CASE FreezeRefuses
  BY <1>3 DEF FreezeRefuses, disk, memory, history, bounds
<1>4. CASE Looks
  <2>1. /\ rest' \in WithSharers(StopList[item] \cap up)
        /\ pc' \in {"snap", "mark"}
        /\ pc' = "snap" => rest' = {}
    BY <1>4 DEF Looks
  <2>2. StopList[item] \cap up \subseteq rest'
    <3> DEFINE cs == StopList[item] \cap up
    <3>1. cs \in SUBSET up /\ rest' \in WithSharers(cs)
      BY <2>1
    <3> HIDE DEF cs
    <3>2. cs \subseteq rest'
      BY <3>1, SharersAreClosed
    <3> QED
      BY <3>2 DEF cs
  <2> QED
    BY <1>4, <2>1, <2>2 DEF Looks, disk, history, bounds
<1>5. CASE Marks
  <2>1. /\ pc = "mark" /\ pc' = "stop" /\ level' = Tops(rest) /\ marker'[item] = rest
        /\ UNCHANGED <<up, item, rest, touched>>
    BY <1>5 DEF Marks
  <2> QED
    BY <2>1 DEF Tops, Dependents
<1>6. CASE MarkFails
  BY <1>6 DEF MarkFails, disk, memory, history, bounds
<1>7. CASE LevelDone
  <2>1. CASE failed # {}
    BY <1>7, <2>1 DEF LevelDone
  <2>2. CASE failed = {}
    <3>1. /\ pc = "stop" /\ rest' = rest \ Tops(rest) /\ level' = Tops(rest')
          /\ level = {} /\ asked = {}
          /\ pc' = IF rest' # {} THEN "stop" ELSE "snap"
          /\ UNCHANGED <<up, item, marker, touched>>
      BY <1>7, <2>2 DEF LevelDone, disk
    <3>2. Tops(rest) \cap up \subseteq touched
      BY <2>2, <3>1
    <3>3. (StopList[item] \cup marker[item]) \cap up \subseteq rest' \cup touched
      BY <3>1, <3>2
    <3>4. Tops(rest)' = Tops(rest')
      BY DEF Tops, Dependents
    <3> QED
      BY <3>1, <3>3, <3>4
  <2> QED
    BY <2>1, <2>2
<1>8. CASE Snaps
  BY <1>8 DEF Snaps, disk, history, bounds
<1>9. CASE ThawEnds
  BY <1>9 DEF ThawEnds, memory, history, bounds
<1>10. CASE Posts
  BY <1>10 DEF Posts, ForgetsAll, disk, history, bounds
<1>11. CASE Boots
  BY <1>11 DEF Boots, disk, history, bounds
<1>12. CASE BootRecords
  BY <1>12 DEF BootRecords, memory, history, bounds
<1>13. CASE BootEnds
  BY <1>13 DEF BootEnds, ForgetsAll, disk, history, bounds
<1>14. CASE Crash
  BY <1>14 DEF Crash, ForgetsAll, disk, history
<1>15. ASSUME NEW c \in Containers, StopWorks(c) PROVE QuietInv'
  BY <1>15 DEF StopWorks, Stops, disk, bounds, Tops, Dependents
<1>16. ASSUME NEW c \in Containers, StopFails(c) PROVE QuietInv'
  BY <1>16 DEF StopFails, Stops, Quiet, disk, bounds, history, Tops, Dependents
<1>17. ASSUME NEW c \in Containers, LooksAgain(c) PROVE QuietInv'
  BY <1>17 DEF LooksAgain, disk, history, bounds, Tops, Dependents
<1>18. ASSUME NEW c \in Containers, StartWorks(c) PROVE QuietInv'
  BY <1>18 DEF StartWorks, Runs, Tries, disk, bounds
<1>19. ASSUME NEW c \in Containers, StartFails(c) PROVE QuietInv'
  BY <1>19 DEF StartFails, Quiet, Tries, disk, bounds, history
<1>20. ASSUME NEW c \in Containers, UserStarts(c) PROVE QuietInv'
  BY <1>20 DEF UserStarts, Runs, disk, memory, Tops, Dependents
<1>21. ASSUME NEW c \in Containers, UserStops(c) PROVE QuietInv'
  BY <1>21 DEF UserStops, disk, memory, history, Tops, Dependents
<1>22. ASSUME NEW i \in Items, Begin(i) PROVE QuietInv'
  BY <1>22 DEF Begin, disk, history, bounds
<1>23. ASSUME NEW i \in Items, BootTakes(i) PROVE QuietInv'
  BY <1>23 DEF BootTakes, disk, history, bounds
<1>24. CASE UNCHANGED vars
  BY <1>24 DEF vars, disk, memory, history, bounds, Tops, Dependents
<1> QED
  BY <1>1, <1>2, <1>3, <1>4, <1>5, <1>6, <1>7, <1>8, <1>9, <1>10, <1>11, <1>12, <1>13, <1>14, <1>15, <1>16, <1>17, <1>18, <1>19, <1>20, <1>21, <1>22, <1>23, <1>24
  DEF Next, Program, Window, Starts, Recovery

\* The row of a window is closed under sharing while containers run.
LEMMA SharePreserved ==
  ASSUME TypeOK, ItemInv, ShareInv, [Next]_vars
  PROVE  ShareInv'
<1> USE ItemsAssumption DEF TypeOK, ItemInv, ShareInv, Sharing
<1>1. CASE Looks
  <2>1. /\ rest' \in WithSharers(StopList[item] \cap up) /\ pc' \in {"snap", "mark"}
        /\ UNCHANGED <<up, faults>>
    BY <1>1 DEF Looks, bounds
  <2>2. "inspect" \notin faults => Sharing(rest') \subseteq rest'
    BY <2>1, SharersAreClosed
  <2> QED
    BY <2>1, <2>2
<1>2. CASE Marks
  BY <1>2 DEF Marks, bounds
<1>3. ASSUME NEW c \in Containers, StopWorks(c) \/ StopFails(c) \/ LooksAgain(c)
      PROVE  ShareInv'
  <2>1. /\ UNCHANGED <<pc, item, rest, marker, touched, faults>>
        /\ up' \subseteq up
    BY <1>3 DEF StopWorks, StopFails, LooksAgain, Stops, Quiet, disk, bounds
  <2> QED
    BY <2>1
<1>4. CASE LevelDone
  BY <1>4 DEF LevelDone, disk, bounds
<1>5. ASSUME NEW c \in Containers, UserStarts(c) PROVE ShareInv'
  BY <1>5 DEF UserStarts, Runs, disk, memory
<1>6. ASSUME NEW c \in Containers, UserStops(c) PROVE ShareInv'
  BY <1>6 DEF UserStops, disk, memory
<1>7. CASE UNCHANGED vars
  BY <1>7 DEF vars, disk, memory, bounds
<1>8. CASE pc' \notin {"mark", "stop"}
  BY <1>8
<1>9. ASSUME PreFails \/ PreRuns \/ FreezeRefuses \/ MarkFails \/ Snaps \/ ThawEnds
             \/ Posts \/ Starts \/ Recovery \/ Crash \/ \E i \in Items : Begin(i)
      PROVE  pc' \notin {"mark", "stop"}
  BY <1>9 DEF PreFails, PreRuns, FreezeRefuses, MarkFails, Snaps, ThawEnds, Posts, Starts,
     Recovery, Crash, Begin, StartWorks, StartFails, Tries, Boots, BootRecords, BootEnds, BootTakes
<1> QED
  BY <1>1, <1>2, <1>3, <1>4, <1>5, <1>6, <1>7, <1>8, <1>9 DEF Next, Program, Window

\* Who is stopped is at the top of what the row still has to take down.
LEMMA StopsAtTheTop ==
  ASSUME TypeOK, ItemInv, QuietInv, [Next]_vars, NEW c \in took' \ took
  PROVE  /\ pc = "stop" /\ c \in Tops(rest)
         /\ UNCHANGED <<marker, touched>> /\ up' = up \ {c}
         /\ marker[item] \cap up \subseteq rest \cup touched
<1>1. ASSUME NEW e \in Containers, StopWorks(e) \/ StopFails(e)
      PROVE  /\ pc = "stop" /\ e \in level /\ c = e
             /\ UNCHANGED <<marker, touched>> /\ up' = up \ {c}
  BY <1>1 DEF StopWorks, StopFails, Stops, Quiet, history, disk
<1>2. CASE \E e \in Containers : StopWorks(e) \/ StopFails(e)
  BY <1>1, <1>2 DEF QuietInv
<1>3. took' \subseteq took \/ \E e \in Containers : StopWorks(e) \/ StopFails(e)
  BY DEF Next, Program, Window, Starts, Recovery, PreFails, PreRuns, FreezeRefuses, Looks, Marks,
     MarkFails, LevelDone, Snaps, ThawEnds, Posts, LooksAgain, StartWorks, StartFails, Boots,
     BootRecords, BootEnds, BootTakes, Begin, Crash, UserStarts, UserStops, Runs, Quiet, history,
     vars
<1> QED
  BY <1>2, <1>3

OrderInv == TypeOK /\ ItemInv /\ FreshInv /\ LevelInv /\ QuietInv /\ ShareInv

LEMMA OrderInvStarts == Init => OrderInv
  BY InitTypes DEF Init, OrderInv, ItemInv, FreshInv, LevelInv, QuietInv, ShareInv

LEMMA OrderInvStays ==
  ASSUME OrderInv, [Next]_vars
  PROVE  OrderInv'
  BY TypePreserved, ItemPreserved, FreshPreserved, LevelPreserved, QuietPreserved,
     SharePreserved DEF OrderInv

LEMMA OrderInvHolds == Spec => []OrderInv
  BY OrderInvStarts, OrderInvStays, PTL DEF Spec

\* The snapshot is taken while every container of the list is down, unless a
\* user started it, however the stops failed (Freeze, LevelDone).
THEOREM SnapshotIsQuietAlways == Spec => []SnapshotIsQuiet
<1>1. OrderInv => SnapshotIsQuiet
  BY DEF OrderInv, QuietInv, SnapshotIsQuiet
<1> QED
  BY <1>1, OrderInvHolds, PTL

\* No container is stopped while one of the window that needs it runs.
THEOREM DependentsGoFirst == Spec => DependentsFirst
<1>1. ASSUME OrderInv, [Next]_vars, NEW c \in took' \ took
      PROVE  Dependents(c, marker[item] \cap up') \subseteq touched' \cup {c}
  <2>1. /\ c \in Tops(rest) /\ UNCHANGED touched /\ up' = up \ {c}
        /\ marker[item] \cap up \subseteq rest \cup touched
    BY <1>1, StopsAtTheTop DEF OrderInv
  <2> QED
    BY <2>1 DEF Tops, Dependents
<1>2. OrderInv /\ [Next]_vars =>
        [pc = "stop" => \A c \in took' \ took :
           Dependents(c, marker[item] \cap up') \subseteq touched' \cup {c}]_vars
  BY <1>1
<1> QED
  BY <1>2, OrderInvHolds, PTL DEF Spec, DependentsFirst

\* The step of NobodyIsCutOff.
LEMMA NobodyRunsOn ==
  ASSUME OrderInv, [Next]_vars, NEW c \in took' \ took, "inspect" \notin faults,
         NEW d \in up', c \in Joins[d]
  PROVE  d \in touched
<1>1. /\ pc = "stop" /\ c \in Tops(rest) /\ up' = up \ {c}
      /\ marker[item] \cap up \subseteq rest \cup touched
  BY StopsAtTheTop DEF OrderInv
<1>2. c \in marker[item]
  BY <1>1 DEF OrderInv, LevelInv, Tops
<1>3. d \in marker[item] \cup touched
  BY <1>1, <1>2 DEF OrderInv, ShareInv, Sharing
<1>4. d \in rest \cup touched
  BY <1>1, <1>3
<1> QED
  BY <1>1, <1>4 DEF Tops, Dependents, Edges

\* Nothing is stopped under a container that shares its namespace and runs on.
THEOREM NobodyIsEverCutOff == Spec => NobodyIsCutOff
<1>1. OrderInv /\ [Next]_vars =>
        [Program => \A c \in took' \ took :
           "inspect" \in faults \/ {d \in up' : c \in Joins[d]} \subseteq touched]_vars
  BY NobodyRunsOn
<1> QED
  BY <1>1, OrderInvHolds, PTL DEF Spec, NobodyIsCutOff

----------------------------------------------------------------------------
(* Who comes back *)

\* Docker starts what was stopped, and the database can be listed.
Orderly == faults \cap {"start", "list", "inspect"} = {}

\* What the program is yet to start.
Pending ==
    CASE pc = "stop" -> stopped \cup asked
      [] pc = "snap" -> stopped
      [] pc = "thaw" -> todo
      [] pc = "down" -> Marked
      [] pc = "boot" -> UNION {marker[i] : i \in queue}
      [] pc = "bootStart" -> todo \cup UNION {marker[i] : i \in queue}
      [] OTHER -> {}

\* c is down for as long as no user acts: the owner of its namespace was off
\* before the program ran, or is in this position itself.
Doomed(c) ==
    \E S \in SUBSET (Containers \ up) :
        c \in S /\ \A d \in S \cap took : Joins[d] \cap S # {}

Left(c) == Joins[c] # {} /\ (acts = 0 => Doomed(c))

\* Whoever is down is yet to be started, or Docker refuses to.
TakenInv == \A c \in took : c \in Pending \/ Left(c)

\* What a window wrote over was refused before.
OverInv == over \subseteq took /\ \A c \in over : Left(c)

\* The boot looks at an item once, and at everybody on its row.
TurnInv == pc = "bootStart" => item \notin queue /\ unseen = {} /\ stopped = marker[item]

\* While no user has acted, the program knows only what ran once, ...
MemoryInv ==
    /\ rest \cup level \cup asked \cup stopped \cup unseen \cup todo \subseteq up \cup took
    /\ Marked \subseteq up \cup took
    /\ touched = {}

\* ... nobody runs without the owner of its namespace that ran once, ...
SharerInv == \A c \in up : Joins[c] \cap took = {}

\* ... and a row that names an owner names those that share its namespace.
ClosedInv ==
    \A i \in Items : \A c \in up \cup took :
        Joins[c] \cap marker[i] # {} => c \in marker[i] \/ Doomed(c)

UndisturbedInv == acts = 0 => MemoryInv /\ SharerInv /\ ClosedInv

BackInv == Orderly => TakenInv /\ OverInv /\ TurnInv /\ UndisturbedInv

\* Docker refuses to start what is doomed.
LEMMA DoomedIsRefused ==
  ASSUME TypeOK, NEW c \in Containers, Doomed(c)
  PROVE  c \notin up /\ (c \in took => Joins[c] # {} /\ ~CanStart(c))
<1>1. PICK S \in SUBSET (Containers \ up) :
        c \in S /\ \A d \in S \cap took : Joins[d] \cap S # {}
  BY DEF Doomed
<1> QED
  BY <1>1 DEF CanStart

\* A container is doomed with the owner of its namespace.
LEMMA DoomedByOwner ==
  ASSUME TypeOK, DownInv, NEW c \in took, NEW o \in Joins[c], o \notin up,
         o \notin took \/ Doomed(o)
  PROVE  Doomed(c)
<1>1. c \in Containers /\ o \in Containers /\ c \notin up
  BY ItemsAssumption DEF TypeOK, DownInv
<1>2. CASE o \notin took
  <2> DEFINE S == {c, o}
  <2>1. S \in SUBSET (Containers \ up) /\ c \in S /\ \A d \in S \cap took : Joins[d] \cap S # {}
    BY <1>1, <1>2
  <2> QED
    BY <2>1 DEF Doomed
<1>3. CASE Doomed(o)
  <2>1. PICK T \in SUBSET (Containers \ up) :
          o \in T /\ \A d \in T \cap took : Joins[d] \cap T # {}
    BY <1>3 DEF Doomed
  <2> DEFINE S == T \cup {c}
  <2>2. S \in SUBSET (Containers \ up) /\ c \in S /\ \A d \in S \cap took : Joins[d] \cap S # {}
    BY <1>1, <2>1
  <2> QED
    BY <2>2 DEF Doomed
<1> QED
  BY <1>2, <1>3

\* Containers go down and come up by a stop, a start or a user.
LEMMA Moves ==
  ASSUME TypeOK, [Next]_vars
  PROVE  \/ UNCHANGED <<up, took>> /\ acts' = acts
         \/ \E c \in Containers : /\ StopWorks(c) \/ StopFails(c)
                                  /\ c \in up /\ up' = up \ {c} /\ took' = took \cup {c}
         \/ \E c \in Containers : StartWorks(c)
         \/ acts' = acts + 1 /\ took' \subseteq took
<1>1. ASSUME NEW c \in Containers, StopWorks(c) \/ StopFails(c)
      PROVE  \/ UNCHANGED <<up, took>> /\ acts' = acts
             \/ c \in up /\ up' = up \ {c} /\ took' = took \cup {c}
  BY <1>1 DEF StopWorks, StopFails, Stops, Quiet, history, bounds, TypeOK
<1>2. CASE \E c \in Containers : UserStarts(c) \/ UserStops(c)
  BY <1>2 DEF UserStarts, UserStops, Runs, history
<1>3. CASE \E i \in Items : Begin(i)
  BY <1>3 DEF Begin, history, bounds
<1>4. CASE Crash
  BY <1>4 DEF Crash, history
<1>5. CASE Recovery
  BY <1>5 DEF Recovery, Boots, BootRecords, BootEnds, BootTakes, history, bounds
<1>6. CASE \E c \in Containers : StartFails(c)
  BY <1>6 DEF StartFails, Quiet, history, bounds
<1>7. CASE PreFails \/ PreRuns \/ FreezeRefuses \/ Looks \/ Marks \/ MarkFails \/ LevelDone
           \/ Snaps \/ ThawEnds \/ Posts \/ \E c \in Containers : LooksAgain(c)
  BY <1>7 DEF PreFails, PreRuns, FreezeRefuses, Looks, Marks, MarkFails, LevelDone, Snaps,
     ThawEnds, Posts, LooksAgain, history, bounds
<1>8. CASE UNCHANGED vars
  BY <1>8 DEF vars, history, bounds
<1> QED
  BY <1>1, <1>2, <1>3, <1>4, <1>5, <1>6, <1>7, <1>8 DEF Next, Program, Window, Starts

LEMMA NobodyActed ==
  ASSUME TypeOK, [Next]_vars, acts' = 0
  PROVE  acts = 0
<1>1. ASSUME NEW d \in Containers, StopWorks(d) \/ StopFails(d) \/ StartWorks(d)
      PROVE  acts' = acts
  BY <1>1 DEF StopWorks, StopFails, StartWorks, bounds
<1> QED
  BY <1>1, Moves DEF TypeOK

\* No step of the program, and no crash, saves a doomed container.
LEMMA DoomedStays ==
  ASSUME TypeOK, [Next]_vars, acts = 0 => MemoryInv, acts' = 0,
         NEW c \in Containers, Doomed(c)
  PROVE  acts = 0 /\ Doomed(c)'
<1>1. PICK S \in SUBSET (Containers \ up) :
        c \in S /\ \A d \in S \cap took : Joins[d] \cap S # {}
  BY DEF Doomed
<1>2. acts + 1 # 0
  BY DEF TypeOK
<1>3. acts = 0
  BY NobodyActed
<1>4. ASSUME S \in SUBSET (Containers \ up'), \A d \in S \cap took' : Joins[d] \cap S # {}
      PROVE  Doomed(c)'
  BY <1>1, <1>4 DEF Doomed
<1>5. ASSUME UNCHANGED <<up, took>> PROVE Doomed(c)'
  BY <1>1, <1>4, <1>5
<1>6. ASSUME NEW d \in Containers, d \in up, up' = up \ {d}, took' = took \cup {d}
      PROVE  Doomed(c)'
  BY <1>1, <1>4, <1>6
<1>7. ASSUME NEW d \in Containers, StartWorks(d)
      PROVE  Doomed(c)'
  <2>1. /\ d \in todo
        /\ d \in up \/ Joins[d] \subseteq up
        /\ up' = up \cup {d} /\ took' = took \ {d}
    BY <1>7 DEF StartWorks, Tries, Runs, CanStart
  <2>2. d \in up \cup took
    BY <1>3, <2>1 DEF MemoryInv
  <2>3. d \notin S
    BY <1>1, <2>1, <2>2
  <2> QED
    BY <1>1, <1>4, <2>1, <2>3
<1>8. CASE acts' = acts + 1
  BY <1>2, <1>3, <1>8
<1> QED
  BY <1>3, <1>5, <1>6, <1>7, <1>8, Moves

\* So what Docker refused stays refused while it is down.
LEMMA LeftStays ==
  ASSUME TypeOK, [Next]_vars, acts = 0 => MemoryInv, NEW c \in Containers, Left(c)
  PROVE  Left(c)'
  BY NobodyActed, DoomedStays DEF Left

\* While no user acts, what ran once ran or was taken down.
LEMMA MemoryPreserved ==
  ASSUME TypeOK, acts = 0 => MemoryInv, [Next]_vars, acts' = 0
  PROVE  MemoryInv'
<1> USE ItemsAssumption DEF TypeOK, MemoryInv, Marked
<1>0. acts = 0
  BY NobodyActed
<1> USE <1>0
<1>1. CASE PreFails
  BY <1>1 DEF PreFails, ForgetsAll, disk, history, bounds
<1>2. CASE PreRuns
  BY <1>2 DEF PreRuns, disk, memory, history, bounds
<1>3. CASE FreezeRefuses
  BY <1>3 DEF FreezeRefuses, disk, memory, history, bounds
<1>4. CASE Looks
  BY <1>4 DEF Looks, WithSharers, Sharers, disk, history, bounds
<1>5. CASE Marks
  BY <1>5 DEF Marks, Tops, bounds
<1>6. CASE MarkFails
  BY <1>6 DEF MarkFails, disk, memory, history, bounds
<1>7. CASE LevelDone
  <2>1. (level' \subseteq rest' /\ rest' \subseteq rest) \/ UNCHANGED <<rest, level>>
    BY <1>7 DEF LevelDone, Tops
  <2>2. todo' \in {todo, stopped}
    BY <1>7 DEF LevelDone
  <2> QED
    BY <1>7, <2>1, <2>2 DEF LevelDone, disk, history, bounds
<1>8. CASE Snaps
  BY <1>8 DEF Snaps, disk, history, bounds
<1>9. CASE ThawEnds
  BY <1>9 DEF ThawEnds, Records, StillDown, memory, history, bounds
<1>10. CASE Posts
  BY <1>10 DEF Posts, ForgetsAll, disk, history, bounds
<1>11. CASE Boots
  BY <1>11 DEF Boots, disk, history, bounds
<1>12. CASE BootRecords
  <2>1. PICK down \in StillDown(stopped) : Records(unseen \cup down)
    BY <1>12 DEF BootRecords
  <2>2. CASE UNCHANGED marker
    BY <1>12, <2>2 DEF BootRecords, memory, history, bounds
  <2>3. CASE marker' = [marker EXCEPT ![item] = unseen \cup down]
    <3>1. unseen \cup down \subseteq up \cup took
      BY <1>12, <2>1 DEF BootRecords, StillDown
    <3> QED
      BY <1>12, <2>3, <3>1 DEF BootRecords, memory, history, bounds
  <2> QED
    BY <2>1, <2>2, <2>3 DEF Records
<1>13. CASE BootEnds
  BY <1>13 DEF BootEnds, ForgetsAll, disk, history, bounds
<1>14. CASE Crash
  BY <1>14 DEF Crash, ForgetsAll, disk, history
<1>15. ASSUME NEW c \in Containers, StopWorks(c) PROVE MemoryInv'
  BY <1>15 DEF StopWorks, Stops, disk, bounds
<1>16. ASSUME NEW c \in Containers, StopFails(c) PROVE MemoryInv'
  BY <1>16 DEF StopFails, Stops, Quiet, disk, bounds, history
<1>17. ASSUME NEW c \in Containers, LooksAgain(c) PROVE MemoryInv'
  BY <1>17 DEF LooksAgain, disk, history, bounds
<1>18. ASSUME NEW c \in Containers, StartWorks(c) PROVE MemoryInv'
  BY <1>18 DEF StartWorks, Runs, Tries, disk, bounds
<1>19. ASSUME NEW c \in Containers, StartFails(c) PROVE MemoryInv'
  BY <1>19 DEF StartFails, Quiet, Tries, disk, bounds, history
<1>20. ASSUME NEW c \in Containers, UserStarts(c) PROVE FALSE
  BY <1>20 DEF UserStarts
<1>21. ASSUME NEW c \in Containers, UserStops(c) PROVE FALSE
  BY <1>21 DEF UserStops
<1>22. ASSUME NEW i \in Items, Begin(i) PROVE MemoryInv'
  BY <1>22 DEF Begin, disk, history, bounds
<1>23. ASSUME NEW i \in Items, BootTakes(i) PROVE MemoryInv'
  BY <1>23 DEF BootTakes, disk, history, bounds
<1>24. CASE UNCHANGED vars
  BY <1>24 DEF vars, disk, memory, history, bounds
<1> QED
  BY <1>1, <1>2, <1>3, <1>4, <1>5, <1>6, <1>7, <1>8, <1>9, <1>10, <1>11, <1>12, <1>13, <1>14, <1>15, <1>16, <1>17, <1>18, <1>19, <1>20, <1>21, <1>22, <1>23, <1>24
  DEF Next, Program, Window, Starts, Recovery

LEMMA TurnPreserved ==
  ASSUME TypeOK, Orderly, TurnInv, [Next]_vars
  PROVE  TurnInv'
<1> USE DEF TypeOK, TurnInv
<1>1. ASSUME NEW i \in Items, BootTakes(i) PROVE TurnInv'
  BY <1>1 DEF BootTakes, Orderly, disk
<1>2. ASSUME NEW c \in Containers, StartWorks(c) \/ StartFails(c) PROVE TurnInv'
  BY <1>2 DEF StartWorks, StartFails, disk
<1>3. ASSUME NEW c \in Containers, UserStarts(c) \/ UserStops(c) PROVE TurnInv'
  BY <1>3 DEF UserStarts, UserStops, memory, disk
<1>4. CASE UNCHANGED vars
  BY <1>4 DEF vars, memory, disk
<1>5. CASE Window \/ Boots \/ BootRecords \/ BootEnds \/ Crash \/ \E i \in Items : Begin(i)
  <2>1. pc' # "bootStart"
    BY <1>5 DEF Window, PreFails, PreRuns, FreezeRefuses, Looks, Marks, MarkFails, LevelDone,
       Snaps, ThawEnds, Posts, StopWorks, StopFails, LooksAgain, Boots, BootRecords, BootEnds,
       Crash, Begin
  <2> QED
    BY <2>1
<1> QED
  BY <1>1, <1>2, <1>3, <1>4, <1>5 DEF Next, Program, Starts, Recovery

\* The containers of a window go down before the owners of their namespaces.
LEMMA SharerPreserved ==
  ASSUME OrderInv, DownInv, Orderly, acts = 0 => MemoryInv /\ SharerInv, [Next]_vars, acts' = 0
  PROVE  SharerInv'
<1>0. acts = 0 /\ MemoryInv /\ SharerInv /\ TypeOK /\ "inspect" \notin faults
  BY NobodyActed DEF OrderInv, Orderly
<1> USE <1>0 DEF SharerInv, TypeOK
<1>1. CASE UNCHANGED <<up, took>>
  BY <1>1
<1>2. ASSUME NEW c \in Containers, c \in up, up' = up \ {c}, took' = took \cup {c}
      PROVE  SharerInv'
  <2>1. ASSUME NEW d \in up', c \in Joins[d] PROVE FALSE
    <3>1. c \in took' \ took
      BY <1>2 DEF DownInv
    <3>2. d \in touched
      BY <2>1, <3>1, NobodyRunsOn
    <3> QED
      BY <3>2 DEF MemoryInv
  <2> QED
    BY <1>2, <2>1
<1>3. ASSUME NEW c \in Containers, StartWorks(c) PROVE SharerInv'
  <2>1. /\ c \in up \/ Joins[c] \subseteq up
        /\ up' = up \cup {c} /\ took' = took \ {c}
    BY <1>3 DEF StartWorks, Runs, CanStart
  <2> QED
    BY <2>1 DEF DownInv
<1>4. acts' # acts + 1
  OBVIOUS
<1> QED
  BY <1>1, <1>2, <1>3, <1>4, Moves

\* A row that is replaced names the sharers of what it names, or they are doomed.
LEMMA ClosedPreserved ==
  ASSUME TypeOK, ItemInv, DownInv, ShareInv, Orderly, TakenInv, TurnInv, UndisturbedInv,
         [Next]_vars, acts' = 0
  PROVE  ClosedInv'
<1>0. acts = 0 /\ MemoryInv /\ SharerInv /\ ClosedInv
  BY NobodyActed DEF UndisturbedInv
<1>a. ASSUME NEW c \in Containers, Doomed(c) PROVE Doomed(c)'
  BY <1>0, <1>a, DoomedStays
<1>1. CASE UNCHANGED marker
  <2>1. up' \cup took' \subseteq up \cup took
    <3>1. ASSUME NEW c \in Containers, StartWorks(c) PROVE up' \cup took' \subseteq up \cup took
      BY <1>0, <3>1 DEF StartWorks, Tries, Runs, MemoryInv
    <3> QED
      BY <1>0, <3>1, Moves
  <2> QED
    BY <1>0, <1>a, <1>1, <2>1 DEF ClosedInv, TypeOK
<1>2. ASSUME NEW row \in SUBSET Containers, item \in Items,
             marker' = [marker EXCEPT ![item] = row], UNCHANGED <<up, took>>,
             \A c \in up \cup took : Joins[c] \cap row # {} => c \in row \/ Doomed(c)
      PROVE  ClosedInv'
  BY <1>0, <1>a, <1>2 DEF ClosedInv, TypeOK
<1>3. CASE Marks
  <2>1. /\ pc = "mark" /\ marker' = [marker EXCEPT ![item] = rest] /\ UNCHANGED <<up, took>>
    BY <1>3 DEF Marks
  <2>2. ASSUME NEW c \in up, Joins[c] \cap rest # {} PROVE c \in rest
    BY <1>0, <2>1, <2>2 DEF ShareInv, Sharing, Orderly, MemoryInv
  <2>3. ASSUME NEW c \in took PROVE Doomed(c)
    BY <1>0, <2>1 DEF TakenInv, Pending, Left
  <2> QED
    BY <1>2, <2>1, <2>2, <2>3 DEF TypeOK, ItemInv
<1>4. ASSUME ThawEnds \/ BootRecords, ~UNCHANGED marker PROVE ClosedInv'
  <2> DEFINE row == stopped \ up
  <2>1. /\ pc \in {"thaw", "bootStart"} /\ todo = {} /\ UNCHANGED <<up, took>>
        /\ item \in Items
    BY <1>4 DEF ThawEnds, BootRecords, history, ItemInv
  <2>2. marker' = [marker EXCEPT ![item] = row]
    <3>1. ASSUME NEW down \in StillDown(stopped) PROVE down = row
      BY DEF StillDown, Orderly
    <3>2. CASE ThawEnds
      BY <1>4, <3>1, <3>2 DEF ThawEnds, Records
    <3>3. CASE BootRecords
      <4>1. unseen = {}
        BY <3>3 DEF BootRecords, TurnInv
      <4>2. PICK down \in StillDown(stopped) : Records(unseen \cup down)
        BY <3>3 DEF BootRecords
      <4> QED
        BY <1>4, <3>1, <4>1, <4>2 DEF Records
    <3> QED
      BY <1>4, <3>2, <3>3
  <2>3. row \subseteq took
    BY <1>0 DEF MemoryInv
  <2>4. ASSUME NEW c \in up, Joins[c] \cap row # {} PROVE FALSE
    BY <1>0, <2>3, <2>4 DEF SharerInv
  <2>5. ASSUME NEW c \in took, NEW o \in Joins[c], o \in row PROVE c \in row \/ Doomed(c)
    <3>1. CASE pc = "thaw"
      BY <1>0, <2>1, <3>1 DEF TakenInv, Pending, Left
    <3>2. CASE pc = "bootStart"
      <4>1. c \in marker[item] \/ Doomed(c)
        BY <1>0, <2>1, <2>5, <3>2 DEF TurnInv, ClosedInv
      <4> QED
        BY <3>2, <4>1 DEF TurnInv, DownInv
    <3> QED
      BY <2>1, <3>1, <3>2
  <2>6. row \in SUBSET Containers
    BY DEF TypeOK
  <2> HIDE DEF row
  <2>7. \A c \in up \cup took : Joins[c] \cap row # {} => c \in row \/ Doomed(c)
    BY <2>4, <2>5
  <2> QED
    BY <1>2, <2>1, <2>2, <2>6, <2>7
<1>5. UNCHANGED marker \/ Marks \/ ThawEnds \/ BootRecords
  BY DEF Next, Program, Window, Starts, Recovery, PreFails, PreRuns, FreezeRefuses, Looks,
     MarkFails, LevelDone, Snaps, Posts, StopWorks, StopFails, LooksAgain, StartWorks, StartFails,
     Boots, BootEnds, BootTakes, Begin, Crash, UserStarts, UserStops, disk, vars
<1> QED
  BY <1>1, <1>3, <1>4, <1>5

\* What a window writes over is what Docker refused to start before.
LEMMA OverPreserved ==
  ASSUME TypeOK, DownInv, Orderly, TakenInv, OverInv, UndisturbedInv, [Next]_vars
  PROVE  OverInv'
<1>0. acts = 0 => MemoryInv
  BY DEF UndisturbedInv
<1>1. ASSUME NEW c \in Containers, Left(c) PROVE Left(c)'
  BY <1>0, <1>1, LeftStays
<1>2. CASE Marks
  <2>1. /\ pc = "mark" /\ UNCHANGED took
        /\ over' \subseteq over \cup took
    BY <1>2 DEF Marks
  <2>2. \A c \in took : Left(c)
    BY <2>1 DEF TakenInv, Pending
  <2> QED
    BY <1>1, <2>1, <2>2 DEF OverInv, TypeOK
<1>3. CASE over' \subseteq over /\ over' \subseteq took'
  BY <1>1, <1>3 DEF OverInv, TypeOK
<1>4. ASSUME NEW c \in Containers, StartWorks(c) \/ UserStarts(c)
      PROVE  over' \subseteq over /\ over' \subseteq took'
  BY <1>4 DEF StartWorks, UserStarts, Runs, OverInv
<1>5. ASSUME NEW c \in Containers, StopWorks(c) \/ StopFails(c)
      PROVE  over' \subseteq over /\ over' \subseteq took'
  BY <1>5 DEF StopWorks, StopFails, Stops, Quiet, history, OverInv
<1>6. Marks \/ (UNCHANGED <<took, over>>)
      \/ (\E c \in Containers : StartWorks(c) \/ UserStarts(c) \/ StopWorks(c) \/ StopFails(c))
  BY DEF Next, Program, Window, Starts, Recovery, PreFails, PreRuns, FreezeRefuses, Looks,
     MarkFails, LevelDone, Snaps, ThawEnds, Posts, LooksAgain, StartFails, Quiet, Boots,
     BootRecords, BootEnds, BootTakes, Begin, Crash, UserStops, history, vars
<1> QED
  BY <1>2, <1>3, <1>4, <1>5, <1>6 DEF OverInv

\* The heart: whoever leaves the program's hands runs, or is refused by Docker
\* for an owner that is refused, never ran or a user stopped.
LEMMA RefusedIsLeft ==
  ASSUME TypeOK, DownInv, Orderly, TakenInv, TurnInv, UndisturbedInv,
         NEW c \in took, StartFails(c)
  PROVE  Left(c) \/ (pc = "bootStart" /\ \E i \in queue : c \in marker[i])
<1>1. /\ c \in todo /\ Edges(c) \cap todo = {} /\ ~CanStart(c)
      /\ pc \in {"thaw", "bootStart"}
  BY DEF StartFails, Tries, Orderly
<1>2. PICK o \in Joins[c] : o \notin up
  BY <1>1 DEF CanStart
<1>3. c \in Containers /\ o \in Containers /\ o \notin todo
  BY <1>1, ItemsAssumption DEF TypeOK, Edges
<1>4. CASE acts # 0
  BY <1>2, <1>4 DEF Left
<1>5. CASE acts = 0 /\ (o \notin took \/ Doomed(o))
  BY <1>2, <1>5, DoomedByOwner DEF Left
<1>6. CASE acts = 0 /\ o \in took /\ ~Doomed(o)
  <2>1. o \in Pending
    BY <1>6 DEF TakenInv, Left
  <2>2. pc = "bootStart" /\ \E i \in queue : o \in marker[i]
    BY <1>1, <1>3, <2>1 DEF Pending
  <2>3. PICK i \in queue : o \in marker[i]
    BY <2>2
  <2>4. c \in marker[i] \/ Doomed(c)
    BY <1>2, <1>6, <2>3 DEF UndisturbedInv, ClosedInv, TypeOK
  <2> QED
    BY <1>2, <2>2, <2>4 DEF Left
<1> QED
  BY <1>4, <1>5, <1>6

\* Whoever is pending stays so, comes up, or is refused.
LEMMA PendingGoesOn ==
  ASSUME IInv, OverInv, Orderly, TakenInv, TurnInv, UndisturbedInv, [Next]_vars,
         NEW c \in took, c \in took', c \in Pending
  PROVE  c \in Pending' \/ Left(c)
<1> USE DEF IInv, TypeOK, ItemInv, FreshInv, LevelInv, DownInv, TurnInv, Pending, Marked
<1>1. CASE PreFails
  BY <1>1 DEF PreFails
<1>2. CASE PreRuns
  BY <1>2 DEF PreRuns
<1>3. CASE FreezeRefuses
  BY <1>3 DEF FreezeRefuses
<1>4. CASE Looks
  BY <1>4 DEF Looks
<1>5. CASE Marks
  BY <1>5 DEF Marks
<1>6. CASE MarkFails
  BY <1>6 DEF MarkFails
<1>7. CASE LevelDone
  <2>1. c \in stopped /\ stopped' = stopped
    BY <1>7 DEF LevelDone
  <2>2. (pc' = "thaw" /\ todo' = stopped) \/ pc' = "stop" \/ pc' = "snap"
    BY <1>7 DEF LevelDone
  <2> QED
    BY <2>1, <2>2
<1>8. CASE Snaps
  BY <1>8 DEF Snaps
<1>9. CASE ThawEnds
  BY <1>9 DEF ThawEnds
<1>10. CASE Posts
  BY <1>10 DEF Posts
<1>11. CASE Boots
  <2>1. pc = "down" /\ pc' = "boot" /\ queue' = {i \in Items : marker[i] # {}} /\ UNCHANGED marker
    BY <1>11 DEF Boots, Orderly, disk
  <2> QED
    BY <2>1
<1>12. CASE BootRecords
  <2>1. /\ pc = "bootStart" /\ todo = {} /\ pc' = "boot" /\ queue' = queue
        /\ item \notin queue
        /\ \A i \in queue : marker'[i] = marker[i]
    BY <1>12 DEF BootRecords, Records, memory
  <2> QED
    BY <2>1
<1>13. CASE BootEnds
  BY <1>13 DEF BootEnds
<1>14. CASE Crash
  <2>1. pc' = "down" /\ marker' = marker
    BY <1>14 DEF Crash, disk
  <2>2. c \in Marked \/ Left(c)
    BY DEF NothingForgotten, OverInv
  <2> QED
    BY <2>1, <2>2
<1>15. ASSUME NEW d \in Containers, StopWorks(d) PROVE c \in Pending'
  BY <1>15 DEF StopWorks
<1>16. ASSUME NEW d \in Containers, StopFails(d) PROVE c \in Pending'
  BY <1>16 DEF StopFails
<1>17. ASSUME NEW d \in Containers, LooksAgain(d) PROVE c \in Pending'
  BY <1>17 DEF LooksAgain, Orderly
<1>18. ASSUME NEW d \in Containers, StartWorks(d) PROVE c \in Pending'
  BY <1>18 DEF StartWorks, Runs, Tries, disk
<1>19. ASSUME NEW d \in Containers, StartFails(d) PROVE c \in Pending' \/ Left(c)
  <2>1. /\ pc' = pc /\ todo' = todo \ {d} /\ queue' = queue /\ marker' = marker
        /\ pc \in {"thaw", "bootStart"}
    BY <1>19 DEF StartFails, Tries, disk
  <2>2. CASE c = d
    <3>1. Left(c) \/ (pc = "bootStart" /\ \E i \in queue : c \in marker[i])
      BY <1>19, <2>2, RefusedIsLeft
    <3> QED
      BY <2>1, <3>1
  <2> QED
    BY <2>1, <2>2
<1>20. ASSUME NEW d \in Containers, UserStarts(d) PROVE c \in Pending'
  BY <1>20 DEF UserStarts, disk, memory
<1>21. ASSUME NEW d \in Containers, UserStops(d) PROVE c \in Pending'
  BY <1>21 DEF UserStops, disk, memory
<1>22. ASSUME NEW i \in Items, Begin(i) PROVE c \in Pending'
  BY <1>22 DEF Begin
<1>23. ASSUME NEW i \in Items, BootTakes(i) PROVE c \in Pending'
  <2>1. /\ pc = "boot" /\ pc' = "bootStart" /\ queue' = queue \ {i} /\ marker' = marker
        /\ todo' = marker[i]
    BY <1>23 DEF BootTakes, disk, Orderly
  <2> QED
    BY <2>1
<1>24. CASE UNCHANGED vars
  BY <1>24 DEF vars, disk, memory
<1> QED
  BY <1>1, <1>2, <1>3, <1>4, <1>5, <1>6, <1>7, <1>8, <1>9, <1>10, <1>11, <1>12, <1>13, <1>14, <1>15, <1>16, <1>17, <1>18, <1>19, <1>20, <1>21, <1>22, <1>23, <1>24
  DEF Next, Program, Window, Starts, Recovery

LEMMA TakenPreserved ==
  ASSUME IInv, OverInv, Orderly, TakenInv, TurnInv, UndisturbedInv, [Next]_vars
  PROVE  TakenInv'
<1>1. SUFFICES ASSUME NEW c \in took' PROVE c \in Pending' \/ Left(c)'
  BY DEF TakenInv
<1>2. CASE c \notin took
  <2>1. PICK d \in Containers : StopWorks(d) \/ StopFails(d)
    BY <1>2, Moves DEF IInv, StartWorks, Runs
  <2>2. c \in stopped' \cup asked' /\ pc' = "stop"
    BY <1>2, <2>1 DEF StopWorks, StopFails, Stops, Quiet, history
  <2> QED
    BY <2>2 DEF Pending
<1>3. CASE c \in took
  <2>1. c \in Pending' \/ Left(c)
    BY <1>3, PendingGoesOn DEF TakenInv
  <2>2. c \in Containers /\ (acts = 0 => MemoryInv) /\ TypeOK
    BY <1>3 DEF IInv, TypeOK, UndisturbedInv
  <2> QED
    BY <2>1, <2>2, LeftStays
<1> QED
  BY <1>2, <1>3

\* With a Docker that starts what was stopped and a database that can be
\* listed, nothing is down between the runs but what users stopped and what
\* Docker refuses for a namespace users broke: through failed stops, refused
\* windows, failed writes and any number of crashes (thaw, RecoverZFSRestarts).
THEOREM AllAreBack == Spec => []AllIsBack
<1> DEFINE Inv == IInv /\ OrderInv /\ BackInv
<1>1. Init => Inv
  <2>1. Init => BackInv
    BY DEF Init, BackInv, TakenInv, OverInv, TurnInv, UndisturbedInv, MemoryInv, Marked,
       SharerInv, ClosedInv
  <2> QED
    BY <2>1, IInvStarts, OrderInvStarts
<1>2. Inv /\ [Next]_vars => Inv'
  <2> SUFFICES ASSUME Inv, [Next]_vars PROVE Inv'
    OBVIOUS
  <2>1. IInv' /\ OrderInv'
    BY IInvStays, OrderInvStays
  <2>2. ASSUME Orderly PROVE (TakenInv /\ OverInv /\ TurnInv /\ UndisturbedInv)'
    <3>1. IInv /\ OrderInv /\ TakenInv /\ OverInv /\ TurnInv /\ UndisturbedInv
      BY <2>2 DEF BackInv
    <3>2. TakenInv' /\ OverInv' /\ TurnInv'
      BY <2>2, <3>1, TakenPreserved, OverPreserved, TurnPreserved DEF IInv
    <3>3. ASSUME acts' = 0 PROVE MemoryInv' /\ SharerInv' /\ ClosedInv'
      BY <2>2, <3>1, <3>3, MemoryPreserved, SharerPreserved, ClosedPreserved
      DEF IInv, OrderInv, UndisturbedInv
    <3> QED
      BY <3>2, <3>3 DEF UndisturbedInv
  <2>3. Orderly' => Orderly
    BY DEF Orderly, Next, Program, Window, Starts, Recovery, PreFails, PreRuns, FreezeRefuses,
       Looks, Marks, MarkFails, LevelDone, Snaps, ThawEnds, Posts, StopWorks, StopFails,
       LooksAgain, StartWorks, StartFails, Boots, BootRecords, BootEnds, BootTakes, Begin, Crash,
       UserStarts, UserStops, bounds, vars
  <2> QED
    BY <2>1, <2>2, <2>3 DEF BackInv
<1>3. Inv => AllIsBack
  <2> SUFFICES ASSUME Inv, pc = "idle", Orderly, NEW c \in took
               PROVE  Joins[c] # {} /\ (CanStart(c) => acts > 0)
    BY DEF AllIsBack, Orderly
  <2>1. Left(c)
    BY DEF BackInv, TakenInv, Pending
  <2>2. c \in Containers /\ TypeOK
    BY DEF IInv, TypeOK
  <2>3. acts # 0 => acts > 0
    BY <2>2 DEF TypeOK
  <2> QED
    BY <2>1, <2>2, <2>3, DoomedIsRefused DEF Left
<1> QED
  BY <1>1, <1>2, <1>3, PTL DEF Spec

=============================================================================
