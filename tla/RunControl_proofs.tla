-------------------------- MODULE RunControl_proofs --------------------------
(***************************************************************************)
(* For any items and calls of backups, any number of cancels, stalls and   *)
(* caps, and a shutdown at any moment: as long as backups that register    *)
(* before they have the lock do not overlap with another call for their    *)
(* item, an open run is reachable, a cancel ends what it was aimed at, the *)
(* row names what ended a run, and a clean shutdown leaves no run open.    *)
(*                                                                         *)
(* All rests on RegInv: an item's entry is that of the one call that is    *)
(* between its registration and its end.  There is one at most, for those  *)
(* who register early by the assumption, for the others by the lock.       *)
(***************************************************************************)
EXTENDS RunControl, TLAPS

\* Calls that register early do not overlap with another one for their item.
OneCallEach == \A o \in Orders : o.early => ~o.overlap

Bound(b) ==
    IF order.early THEN pc[b] \notin {"new", "over"}
    ELSE pc[b] \in {"preflight", "started", "reading", "restarting", "failing", "ending"}

Inside(b) ==
    pc[b] \in {"entered", "preflight", "started", "reading", "restarting", "failing", "ending",
               "unregistered"}

RegInv ==
    /\ \A b \in Backups : Bound(b) => cancels[Item(b)] = b
    /\ \A i \in Items : cancels[i] # None => Bound(cancels[i]) /\ Item(cancels[i]) = i
    /\ \A b \in Backups : Inside(b) => section = b
    /\ \A b \in Backups : order.early => pc[b] \notin {"entered", "unregistered"}
    /\ \A b \in Backups : ~order.early => pc[b] # "unlocked"

\* An open run is at a step of the backup's own, and the other way round.
RunSteps == {"started", "reading", "restarting", "failing"}
RowInv ==
    /\ \A b \in Backups : row[b] = "running" => pc[b] \in RunSteps
    /\ Alive => \A b \in Backups : pc[b] \in RunSteps => row[b] = "running"
    /\ \A b \in inFlight : pc[b] \in RunSteps \cup {"ending", "unlocked", "unregistered", "over"}
    /\ leaving = "clean" => \A b \in inFlight : row[b] # "running"

\* Whoever is to be ended was meant, and is marked as long as it is registered.
AskInv ==
    /\ \A i \in Items : runs[i] # None => runs[i] = cancels[i]
    /\ \A i \in cancelled : cancels[i] # None /\ cancels[i] \in asked
    /\ \A b \in Backups :
         ctx[b] = "user" \/ <<b, "user">> \in fired =>
             /\ b \in asked
             /\ Bound(b) => Item(b) \in cancelled
             /\ pc[b] # "new" /\ (order.early \/ pc[b] \notin {"queued", "entered"})

\* What ended a run stays what it was, and the mark outlives the verdict.
EndInv ==
    /\ \A b \in Backups : why[b] # "live" =>
         ctx[b] = why[b] /\ pc[b] \in {"failing", "ending", "unlocked", "unregistered", "over"}
    /\ \A b \in Backups : pc[b] = "failing" => answer[b] = "failed"
    /\ \A b \in Backups : row[b] = "cancelled" =>
         /\ b \in asked
         /\ pc[b] \in {"ending", "unlocked", "unregistered", "over"}
         /\ IF Bound(b) THEN Item(b) \in cancelled /\ answer[b] = "failed"
                        ELSE answer[b] = "cancelled"
    /\ \A b \in Backups : why[b] = "user" => row[b] # "failed" /\ row[b] # "stalled"
    /\ \A b \in Backups : why[b] = "stall" => row[b] # "failed" /\ row[b] # "cancelled"
    /\ \A b \in Backups : row[b] = "stalled" =>
         ctx[b] = "stall" /\ pc[b] \in {"ending", "unlocked", "unregistered", "over"}

Inv == TypeOK /\ RegInv /\ RowInv /\ AskInv /\ EndInv

LEMMA OrderIsOne ==
  ASSUME TypeOK
  PROVE  /\ order.early \in BOOLEAN
         /\ \A b \in Backups : Item(b) \in Items
  BY CallsAssumption DEF TypeOK, Item

LEMMA InitHolds ==
  ASSUME Init
  PROVE  Inv
<1>1. TypeOK
  BY CallsAssumption DEF Init, TypeOK, Places, Causes
<1> QED
  BY <1>1 DEF Init, Inv, RegInv, RowInv, AskInv, EndInv, Bound, Inside, RunSteps, Alive

\* The types are kept by every step.
LEMMA TypeStep ==
  ASSUME TypeOK, [Next]_vars
  PROVE  TypeOK'
<1> USE CallsAssumption, OrderIsOne DEF TypeOK, Places, Causes, maps, calls, history
<1>1. ASSUME NEW b \in Backups, Step(b)
      PROVE  TypeOK'
  <2> USE DEF Goes
  <2>1. CASE Call(b)
    BY <2>1 DEF Call, Register
  <2>2. CASE Enter(b)
    BY <2>2 DEF Enter
  <2>3. CASE LoadFails(b)
    BY <2>3 DEF LoadFails
  <2>4. CASE RegisterLate(b)
    BY <2>4 DEF RegisterLate, Register
  <2>5. CASE Refuse(b)
    BY <2>5 DEF Refuse
  <2>6. CASE StartRun(b)
    BY <2>6 DEF StartRun
  <2>7. CASE BindRun(b)
    BY <2>7 DEF BindRun
  <2>8. CASE Commit(b)
    BY <2>8 DEF Commit
  <2>9. CASE Fail(b)
    BY <2>9 DEF Fail
  <2>10. CASE FinishFailed(b)
    BY <2>10 DEF FinishFailed, Verdict
  <2>11. CASE FinishWell(b)
    BY <2>11 DEF FinishWell
  <2>12. CASE Unlock(b)
    BY <2>12 DEF Unlock
  <2>13. CASE EndCancel(b)
    BY <2>13 DEF EndCancel, Unregister
  <2>14. CASE StallDecides(b)
    BY <2>14 DEF StallDecides
  <2>15. CASE CapRunsOut(b)
    BY <2>15 DEF CapRunsOut
  <2> QED
    BY <1>1, <2>1, <2>2, <2>3, <2>4, <2>5, <2>6, <2>7, <2>8, <2>9, <2>10, <2>11, <2>12, <2>13,
       <2>14, <2>15 DEF Step
<1>2. ASSUME NEW i \in Items, NEW aim \in Backups \cup {None}, Cancel(i, aim)
      PROVE  TypeOK'
  BY <1>2 DEF Cancel, MayCancel, UnderWay
<1>3. ASSUME NEW b \in Backups, NEW cause \in Causes, Ends(b, cause)
      PROVE  TypeOK'
  BY <1>3 DEF Ends
<1>4. CASE Leave
  BY <1>4 DEF Leave, Shutdown
<1>5. CASE LookAround
  BY <1>5 DEF LookAround, Shutdown, Registered
<1>6. CASE AllUnwound
  BY <1>6 DEF AllUnwound, Shutdown
<1>7. CASE GraceRunsOut
  BY <1>7 DEF GraceRunsOut, Shutdown
<1>8. CASE Exit
  BY <1>8 DEF Exit, Shutdown
<1>9. CASE UNCHANGED vars
  BY <1>9 DEF vars
<1> QED
  BY <1>1, <1>2, <1>3, <1>4, <1>5, <1>6, <1>7, <1>8, <1>9 DEF Next

\* The entry of an item: the assumption and the lock keep a second call out.
LEMMA RegStep ==
  ASSUME Inv, TypeOK', OneCallEach, [Next]_vars
  PROVE  RegInv'
<1> USE OrderIsOne DEF Inv, TypeOK, Places, Causes, maps, calls, history, Item, Alive, RegInv, Bound, Inside
<1>1. ASSUME NEW b \in Backups, Step(b)
      PROVE  RegInv'
  <2> USE DEF Goes
  <2>1. CASE Call(b)
    BY <2>1, CallsAssumption DEF Call, Register, UnderWay, OneCallEach
  <2>2. CASE Enter(b)
    BY <2>2, CallsAssumption DEF Enter
  <2>3. CASE LoadFails(b)
    BY <2>3 DEF LoadFails
  <2>4. CASE RegisterLate(b)
    BY <2>4, CallsAssumption DEF RegisterLate, Register
  <2>5. CASE Refuse(b)
    BY <2>5 DEF Refuse
  <2>6. CASE StartRun(b)
    BY <2>6 DEF StartRun
  <2>7. CASE BindRun(b)
    BY <2>7 DEF BindRun
  <2>8. CASE Commit(b)
    BY <2>8 DEF Commit
  <2>9. CASE Fail(b)
    BY <2>9 DEF Fail
  <2>10. CASE FinishFailed(b)
    BY <2>10 DEF FinishFailed
  <2>11. CASE FinishWell(b)
    BY <2>11 DEF FinishWell
  <2>12. CASE Unlock(b)
    BY <2>12 DEF Unlock
  <2>13. CASE EndCancel(b)
    BY <2>13 DEF EndCancel, Unregister
  <2>14. CASE StallDecides(b)
    BY <2>14 DEF StallDecides
  <2>15. CASE CapRunsOut(b)
    BY <2>15 DEF CapRunsOut
  <2> QED
    BY <1>1, <2>1, <2>2, <2>3, <2>4, <2>5, <2>6, <2>7, <2>8, <2>9, <2>10, <2>11, <2>12, <2>13,
       <2>14, <2>15 DEF Step
<1>2. ASSUME NEW i \in Items, NEW aim \in Backups \cup {None}, Cancel(i, aim)
      PROVE  RegInv'
  BY <1>2 DEF Cancel, MayCancel, UnderWay
<1>3. ASSUME NEW b \in Backups, NEW cause \in Causes, Ends(b, cause)
      PROVE  RegInv'
  BY <1>3 DEF Ends
<1>4. CASE Leave
  BY <1>4 DEF Leave, Shutdown
<1>5. CASE LookAround
  BY <1>5 DEF LookAround, Shutdown, Registered
<1>6. CASE AllUnwound
  BY <1>6 DEF AllUnwound, Shutdown, Registered
<1>7. CASE GraceRunsOut
  BY <1>7 DEF GraceRunsOut, Shutdown
<1>8. CASE Exit
  BY <1>8 DEF Exit, Shutdown
<1>9. CASE UNCHANGED vars
  BY <1>9 DEF vars
<1> QED
  BY <1>1, <1>2, <1>3, <1>4, <1>5, <1>6, <1>7, <1>8, <1>9 DEF Next

\* Whatever is open is among those the shutdown finds.
LEMMA OpenIsRegistered ==
  ASSUME TypeOK, RegInv, RowInv, NEW b \in Backups, row[b] = "running"
  PROVE  b \in Registered /\ cancels[Item(b)] = b
<1>1. Bound(b)
  BY DEF RowInv, RunSteps, Bound
<1>2. cancels[Item(b)] = b /\ Item(b) \in Items
  BY <1>1, OrderIsOne DEF RegInv
<1> QED
  BY <1>2, CallsAssumption DEF Registered

\* The rows: what is found open is ended by its own backup.
LEMMA RowStep ==
  ASSUME Inv, TypeOK', OneCallEach, [Next]_vars
  PROVE  RowInv'
<1> USE OrderIsOne DEF Inv, TypeOK, Places, Causes, maps, calls, history, Item, Alive, RowInv, RegInv, RunSteps, Bound
<1>1. ASSUME NEW b \in Backups, Step(b)
      PROVE  RowInv'
  <2> USE DEF Goes
  <2>1. CASE Call(b)
    BY <2>1 DEF Call, Register
  <2>2. CASE Enter(b)
    BY <2>2 DEF Enter
  <2>3. CASE LoadFails(b)
    BY <2>3 DEF LoadFails
  <2>4. CASE RegisterLate(b)
    BY <2>4 DEF RegisterLate, Register
  <2>5. CASE Refuse(b)
    BY <2>5 DEF Refuse
  <2>6. CASE StartRun(b)
    BY <2>6 DEF StartRun
  <2>7. CASE BindRun(b)
    BY <2>7 DEF BindRun
  <2>8. CASE Commit(b)
    BY <2>8 DEF Commit
  <2>9. CASE Fail(b)
    BY <2>9 DEF Fail
  <2>10. CASE FinishFailed(b)
    BY <2>10 DEF FinishFailed, Verdict
  <2>11. CASE FinishWell(b)
    BY <2>11 DEF FinishWell
  <2>12. CASE Unlock(b)
    BY <2>12 DEF Unlock
  <2>13. CASE EndCancel(b)
    BY <2>13 DEF EndCancel, Unregister
  <2>14. CASE StallDecides(b)
    BY <2>14 DEF StallDecides
  <2>15. CASE CapRunsOut(b)
    BY <2>15 DEF CapRunsOut
  <2> QED
    BY <1>1, <2>1, <2>2, <2>3, <2>4, <2>5, <2>6, <2>7, <2>8, <2>9, <2>10, <2>11, <2>12, <2>13,
       <2>14, <2>15 DEF Step
<1>2. ASSUME NEW i \in Items, NEW aim \in Backups \cup {None}, Cancel(i, aim)
      PROVE  RowInv'
  BY <1>2 DEF Cancel, MayCancel, UnderWay
<1>3. ASSUME NEW b \in Backups, NEW cause \in Causes, Ends(b, cause)
      PROVE  RowInv'
  BY <1>3 DEF Ends
<1>4. CASE Leave
  BY <1>4 DEF Leave, Shutdown
<1>5. CASE LookAround
  BY <1>5, OpenIsRegistered DEF LookAround, Shutdown
<1>6. CASE AllUnwound
  BY <1>6, OpenIsRegistered DEF AllUnwound, Shutdown
<1>7. CASE GraceRunsOut
  BY <1>7 DEF GraceRunsOut, Shutdown
<1>8. CASE Exit
  BY <1>8 DEF Exit, Shutdown
<1>9. CASE UNCHANGED vars
  BY <1>9 DEF vars
<1> QED
  BY <1>1, <1>2, <1>3, <1>4, <1>5, <1>6, <1>7, <1>8, <1>9 DEF Next

\* The cancels: both maps are of the same call, or the run is not known yet.
LEMMA AskStep ==
  ASSUME Inv, TypeOK', OneCallEach, [Next]_vars
  PROVE  AskInv'
<1> USE OrderIsOne DEF Inv, TypeOK, Places, Causes, maps, calls, history, Item, Alive, AskInv, RegInv, Bound, Inside
<1>1. ASSUME NEW b \in Backups, Step(b)
      PROVE  AskInv'
  <2> USE DEF Goes
  <2>1. CASE Call(b)
    BY <2>1, CallsAssumption DEF Call, Register, UnderWay, OneCallEach
  <2>2. CASE Enter(b)
    BY <2>2 DEF Enter
  <2>3. CASE LoadFails(b)
    BY <2>3 DEF LoadFails
  <2>4. CASE RegisterLate(b)
    <3>1. /\ cancels' = [cancels EXCEPT ![Item(b)] = b]
          /\ pc' = [pc EXCEPT ![b] = "preflight"]
          /\ pc[b] = "entered" /\ ~order.early
          /\ UNCHANGED <<runs, cancelled, ctx, fired, order, asked>>
      BY <2>4 DEF RegisterLate, Register
    <3>2. \A o \in Backups : ~Bound(o)
      BY <3>1
    <3>3. cancels[Item(b)] = None
      BY <3>2
    <3>4. runs[Item(b)] = None /\ Item(b) \notin cancelled
      BY <3>3
    <3>5. ctx[b] # "user" /\ <<b, "user">> \notin fired
      BY <3>1
    <3>6. \A o \in Backups \ {b} : ~Bound(o)'
      BY <3>1, <3>2
    <3> QED
      BY <3>1, <3>4, <3>5, <3>6
  <2>5. CASE Refuse(b)
    BY <2>5 DEF Refuse
  <2>6. CASE StartRun(b)
    BY <2>6 DEF StartRun
  <2>7. CASE BindRun(b)
    BY <2>7 DEF BindRun
  <2>8. CASE Commit(b)
    BY <2>8 DEF Commit
  <2>9. CASE Fail(b)
    BY <2>9 DEF Fail
  <2>10. CASE FinishFailed(b)
    BY <2>10 DEF FinishFailed, Verdict
  <2>11. CASE FinishWell(b)
    BY <2>11 DEF FinishWell
  <2>12. CASE Unlock(b)
    BY <2>12 DEF Unlock
  <2>13. CASE EndCancel(b)
    BY <2>13 DEF EndCancel, Unregister
  <2>14. CASE StallDecides(b)
    BY <2>14 DEF StallDecides
  <2>15. CASE CapRunsOut(b)
    BY <2>15 DEF CapRunsOut
  <2> QED
    BY <1>1, <2>1, <2>2, <2>3, <2>4, <2>5, <2>6, <2>7, <2>8, <2>9, <2>10, <2>11, <2>12, <2>13,
       <2>14, <2>15 DEF Step
<1>2. ASSUME NEW i \in Items, NEW aim \in Backups \cup {None}, Cancel(i, aim)
      PROVE  AskInv'
  BY <1>2 DEF Cancel, MayCancel, UnderWay
<1>3. ASSUME NEW b \in Backups, NEW cause \in Causes, Ends(b, cause)
      PROVE  AskInv'
  BY <1>3 DEF Ends
<1>4. CASE Leave
  BY <1>4 DEF Leave, Shutdown
<1>5. CASE LookAround
  BY <1>5 DEF LookAround, Shutdown, Registered
<1>6. CASE AllUnwound
  BY <1>6 DEF AllUnwound, Shutdown, Registered
<1>7. CASE GraceRunsOut
  BY <1>7 DEF GraceRunsOut, Shutdown
<1>8. CASE Exit
  BY <1>8 DEF Exit, Shutdown
<1>9. CASE UNCHANGED vars
  BY <1>9 DEF vars
<1> QED
  BY <1>1, <1>2, <1>3, <1>4, <1>5, <1>6, <1>7, <1>8, <1>9 DEF Next

\* The endings: the verdict is made while the mark and the cause are there.
LEMMA EndStep ==
  ASSUME Inv, TypeOK', OneCallEach, [Next]_vars
  PROVE  EndInv'
<1> USE OrderIsOne DEF Inv, TypeOK, Places, Causes, maps, calls, history, Item, Alive, EndInv, AskInv, RowInv, RegInv, RunSteps, Bound, ShuttingDown
<1>1. ASSUME NEW b \in Backups, Step(b)
      PROVE  EndInv'
  <2> USE DEF Goes
  <2>1. CASE Call(b)
    BY <2>1 DEF Call, Register, UnderWay, OneCallEach
  <2>2. CASE Enter(b)
    BY <2>2 DEF Enter
  <2>3. CASE LoadFails(b)
    BY <2>3 DEF LoadFails
  <2>4. CASE RegisterLate(b)
    BY <2>4 DEF RegisterLate, Register
  <2>5. CASE Refuse(b)
    BY <2>5 DEF Refuse
  <2>6. CASE StartRun(b)
    BY <2>6 DEF StartRun
  <2>7. CASE BindRun(b)
    BY <2>7 DEF BindRun
  <2>8. CASE Commit(b)
    BY <2>8 DEF Commit
  <2>9. CASE Fail(b)
    BY <2>9 DEF Fail
  <2>10. CASE FinishFailed(b)
    <3>1. /\ row' = [row EXCEPT ![b] = Verdict(b)]
          /\ pc' = [pc EXCEPT ![b] = "ending"]
          /\ pc[b] = "failing"
          /\ UNCHANGED <<cancels, cancelled, ctx, answer, order, asked, why>>
      BY <2>10 DEF FinishFailed
    <3>2. Bound(b) /\ cancels[Item(b)] = b /\ Item(b) \in Items
      BY <3>1
    <3>3. Verdict(b) = "cancelled" => Item(b) \in cancelled /\ ctx[b] # "stall" /\ b \in asked
      BY <3>2 DEF Verdict
    <3>4. Verdict(b) = "stalled" => ctx[b] = "stall"
      BY DEF Verdict
    <3>5. ctx[b] = "user" => Verdict(b) # "failed" /\ Verdict(b) # "stalled"
      BY <3>2 DEF Verdict
    <3>6. ctx[b] = "stall" => Verdict(b) # "failed" /\ Verdict(b) # "cancelled"
      BY DEF Verdict
    <3>7. \A o \in Backups : Bound(o)' <=> Bound(o)
      BY <3>1
    <3> QED
      BY <3>1, <3>2, <3>3, <3>4, <3>5, <3>6, <3>7
  <2>11. CASE FinishWell(b)
    BY <2>11 DEF FinishWell
  <2>12. CASE Unlock(b)
    BY <2>12 DEF Unlock
  <2>13. CASE EndCancel(b)
    BY <2>13 DEF EndCancel, Unregister
  <2>14. CASE StallDecides(b)
    BY <2>14 DEF StallDecides
  <2>15. CASE CapRunsOut(b)
    BY <2>15 DEF CapRunsOut
  <2> QED
    BY <1>1, <2>1, <2>2, <2>3, <2>4, <2>5, <2>6, <2>7, <2>8, <2>9, <2>10, <2>11, <2>12, <2>13,
       <2>14, <2>15 DEF Step
<1>2. ASSUME NEW i \in Items, NEW aim \in Backups \cup {None}, Cancel(i, aim)
      PROVE  EndInv'
  BY <1>2 DEF Cancel, MayCancel, UnderWay
<1>3. ASSUME NEW b \in Backups, NEW cause \in Causes, Ends(b, cause)
      PROVE  EndInv'
  BY <1>3 DEF Ends
<1>4. CASE Leave
  BY <1>4 DEF Leave, Shutdown
<1>5. CASE LookAround
  BY <1>5 DEF LookAround, Shutdown, Registered
<1>6. CASE AllUnwound
  BY <1>6 DEF AllUnwound, Shutdown, Registered
<1>7. CASE GraceRunsOut
  BY <1>7 DEF GraceRunsOut, Shutdown
<1>8. CASE Exit
  BY <1>8 DEF Exit, Shutdown
<1>9. CASE UNCHANGED vars
  BY <1>9 DEF vars
<1> QED
  BY <1>1, <1>2, <1>3, <1>4, <1>5, <1>6, <1>7, <1>8, <1>9 DEF Next

LEMMA InvIsKept ==
  ASSUME OneCallEach
  PROVE  Spec => []Inv
<1>1. Inv /\ [Next]_vars => Inv'
  <2> SUFFICES ASSUME Inv, [Next]_vars PROVE Inv'
    OBVIOUS
  <2>1. TypeOK'
    BY TypeStep DEF Inv
  <2> QED
    BY <2>1, RegStep, RowStep, AskStep, EndStep DEF Inv
<1> QED
  BY <1>1, InitHolds, PTL DEF Spec

\* The types, whatever calls overlap.
THEOREM TypeCorrect == Spec => []TypeOK
<1>1. Init => TypeOK
  BY InitHolds DEF Inv
<1> QED
  BY <1>1, TypeStep, PTL DEF Spec

\* Calls that do not overlap: the button and the shutdown find every open run
\* (registerBackupCancel, unregisterBackupCancel).
THEOREM RunningIsReachableAlways ==
  ASSUME OneCallEach
  PROVE  Spec => []RunningIsReachable
<1>1. Inv => RunningIsReachable
  BY OpenIsRegistered DEF Inv, RunningIsReachable
<1> QED
  BY <1>1, InvIsKept, PTL

\* And a cancel never ends a backup it was not aimed at, however many calls,
\* items and cancels there are (CancelBackupRun).
THEOREM CancelHitsAlways ==
  ASSUME OneCallEach
  PROVE  Spec => []CancelHitsWhatWasAsked
<1>1. Inv => CancelHitsWhatWasAsked
  BY DEF Inv, AskInv, CancelHitsWhatWasAsked
<1> QED
  BY <1>1, InvIsKept, PTL

\* And the row and the round name what ended a backup (runsAdapter.Finish,
\* endBackupCancel).
THEOREM EndingNamesItsCauseAlways ==
  ASSUME OneCallEach
  PROVE  Spec => []EndingNamesItsCause
<1>1. Inv => EndingNamesItsCause
  BY DEF Inv, EndInv, Bound, EndingNamesItsCause
<1> QED
  BY <1>1, InvIsKept, PTL

\* And a shutdown that ends before its grace has seen every run it found open
\* written (BeginShutdown).
THEOREM CleanLeavesNothingOpenAlways ==
  ASSUME OneCallEach
  PROVE  Spec => []CleanLeavesNothingOpen
<1>1. Inv => CleanLeavesNothingOpen
  BY DEF Inv, RowInv, CleanLeavesNothingOpen
<1> QED
  BY <1>1, InvIsKept, PTL
=============================================================================
