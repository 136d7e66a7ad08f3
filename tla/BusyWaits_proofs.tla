-------------------------- MODULE BusyWaits_proofs --------------------------
(***************************************************************************)
(* For any containers, stacks, schedules and slots: a backup a fire asked  *)
(* for is under way, waits in exactly one group, or is deferred, and what  *)
(* a restart finds on record is enough to carry on with it, as long as a   *)
(* record that cannot be deleted and a crash do not come together.         *)
(*                                                                         *)
(* All rests on RecordInv: the records are the groups themselves, so that  *)
(* those who wait together before a crash do so after it.                  *)
(***************************************************************************)
EXTENDS BusyWaits, TLAPS

\* A stale record would be resumed beside the wait its app has joined since.
Apart == \A F \in Environments : ~({"forget", "crash"} \subseteq F)

\* A fire is for somebody.
FireInv == \A f \in Triggers : fires[f] = NoFire \/ fires[f].apps # {}

\* A dead process has nothing in memory, and only a crash ends one.
DownInv ==
    /\ ~Up => /\ fires = NoFires /\ jobs = NoJobs /\ listed = NoList
              /\ groups = NoGroups /\ watch = NoWatches
    /\ life # "up" => "crash" \in faults

Disjoint(table) ==
    \A k, l \in Keys : table[k].members \cap table[l].members # {} => k = l

\* The records are the groups, and after a crash what the groups were.
RecordInv ==
    "forget" \notin faults => (Up => stored = groups) /\ Disjoint(stored)

IInv == TypeOK /\ FireInv /\ DownInv /\ RecordInv /\ OneWaitEach /\ NothingIsLost

----------------------------------------------------------------------------
(* Groups and runs *)

Members == (SUBSET Apps) \ {{}}

LEMMA GroupFacts ==
  ASSUME NEW g \in Group
  PROVE  /\ g.members \in SUBSET Apps
         /\ g # None => g.members \in Members /\ g.trigger \in Triggers
  BY DEF Group, None, Members

\* A run that begins goes on with all its apps, and no other one changes.
LEMMA BeginsFacts ==
  ASSUME TypeOK, NEW kind \in Kinds, NEW S \in Members, Begins(kind, S)
  PROVE  /\ jobs' \in [Slots -> Job]
         /\ \A i \in Slots : jobs'[i].now \subseteq jobs'[i].apps
         /\ \A i \in Slots : jobs[i].apps \subseteq jobs'[i].apps
         /\ \E i \in Slots : jobs'[i].apps = S
<1>1. PICK j \in Slots :
        jobs[j] = NoJob /\ jobs' = [jobs EXCEPT ![j] = [kind |-> kind, apps |-> S, now |-> {}]]
  BY DEF Begins
<1>2. [kind |-> kind, apps |-> S, now |-> {}] \in Job
  BY DEF Job, Members
<1> QED
  BY <1>1, <1>2 DEF TypeOK, NoJob

\* A run that is done with an app goes on with the others.
LEMMA LeavesFacts ==
  ASSUME TypeOK, NEW j \in Slots, Leaves(j), jobs[j].now # {}
  PROVE  /\ jobs' \in [Slots -> Job]
         /\ \A i \in Slots : jobs'[i].now \subseteq jobs'[i].apps
         /\ jobs[j].now \subseteq Apps
         /\ \A i \in Slots : jobs[i].apps \subseteq jobs'[i].apps \cup jobs[j].now
<1> DEFINE rest == jobs[j].apps \ jobs[j].now
           new == IF rest = {} THEN NoJob ELSE [jobs[j] EXCEPT !.apps = rest, !.now = {}]
<1>1. jobs[j] \in [kind : Kinds, apps : Members, now : SUBSET Apps]
  BY DEF TypeOK, Job, NoJob, Members
<1>2. jobs' = [jobs EXCEPT ![j] = new]
  BY DEF Leaves
<1>3. new \in Job /\ new.apps = rest /\ new.now = {}
  BY <1>1 DEF Job, NoJob, Members
<1> HIDE DEF new
<1>4. jobs[j].now \subseteq Apps
  BY <1>1
<1> QED
  BY <1>2, <1>3, <1>4 DEF TypeOK

\* What a fire holds back joins groups, which lose nobody.
LEMMA HoldFacts ==
  ASSUME TypeOK, NEW f \in Triggers, Hold(f)
  PROVE  /\ groups' \in [Keys -> Group] /\ stored' \in [Keys -> Group]
         /\ \A k \in Keys : groups'[k].members = groups[k].members \cup Joins(f, k)
         /\ \A k \in Keys : Joins(f, k) = {} => groups'[k] = groups[k]
         /\ \A k \in Keys :
              stored'[k] = IF Joins(f, k) = {} THEN stored[k] ELSE groups'[k]
         /\ \A k \in Keys : Joins(f, k) \subseteq
              {a \in fires[f].apps \ Absorbed(fires[f].apps) : KeyOf(f, a) = k}
         /\ jobs' \in [Slots -> Job]
         /\ \A i \in Slots : jobs'[i].now \subseteq jobs'[i].apps
         /\ \A i \in Slots : jobs[i].apps \subseteq jobs'[i].apps
         /\ \A a \in fires[f].apps :
              \/ a \in Absorbed(fires[f].apps)
              \/ \E k \in Keys : a \in Joins(f, k)
              \/ \E i \in Slots : a \in jobs'[i].apps
<1> DEFINE S == fires[f].apps
           new == {k \in Keys : groups[k] = None /\ Joins(f, k) # {}}
           rest == S \ (Absorbed(S) \cup UNION {Joins(f, k) : k \in Keys})
<1>1. S \in SUBSET Apps /\ fires[f].busy \in SUBSET Apps
  BY DEF TypeOK, Fire
<1>2. \A k \in Keys : Joins(f, k) \subseteq {a \in S \ Absorbed(S) : KeyOf(f, a) = k}
  BY DEF Joins
<1> DEFINE table(k) == IF Joins(f, k) = {} THEN groups[k]
                       ELSE [members |-> groups[k].members \cup Joins(f, k),
                             trigger |-> IF k \in new THEN f ELSE groups[k].trigger]
<1>3. \A k \in Keys : table(k) \in Group
  <2> TAKE k \in Keys
  <2>1. groups[k] \in Group
    BY DEF TypeOK
  <2>2. CASE Joins(f, k) # {}
    <3>1. groups[k].members \cup Joins(f, k) \in Members
      BY <1>1, <1>2, <2>1, <2>2, GroupFacts DEF Members
    <3>2. (IF k \in new THEN f ELSE groups[k].trigger) \in Triggers
      BY <2>1, <2>2, GroupFacts
    <3> QED
      BY <2>2, <3>1, <3>2 DEF Group, Members
  <2> QED
    BY <2>1, <2>2
<1>4. groups' = [k \in Keys |-> table(k)]
  BY DEF Hold
<1>5. stored' = [k \in Keys |-> IF Joins(f, k) = {} THEN stored[k] ELSE groups'[k]]
  BY DEF Hold
<1>6. \A k \in Keys : table(k).members = groups[k].members \cup Joins(f, k)
                      /\ (Joins(f, k) = {} => table(k) = groups[k])
  OBVIOUS
<1> HIDE DEF table
<1>7. /\ groups' \in [Keys -> Group] /\ stored' \in [Keys -> Group]
      /\ \A k \in Keys : groups'[k].members = groups[k].members \cup Joins(f, k)
      /\ \A k \in Keys : Joins(f, k) = {} => groups'[k] = groups[k]
  BY <1>3, <1>4, <1>5, <1>6 DEF TypeOK
<1>8. /\ jobs' \in [Slots -> Job]
      /\ \A i \in Slots : jobs'[i].now \subseteq jobs'[i].apps
      /\ \A i \in Slots : jobs[i].apps \subseteq jobs'[i].apps
      /\ \A a \in rest : \E i \in Slots : a \in jobs'[i].apps
  <2>1. CASE rest = {}
    <3>1. jobs' = jobs
      BY <2>1 DEF Hold
    <3> QED
      BY <2>1, <3>1 DEF TypeOK
  <2>2. CASE rest # {}
    <3>1. Begins("fire", rest) /\ rest \in Members /\ "fire" \in Kinds
      BY <1>1, <2>2 DEF Hold, Members, Kinds
    <3> HIDE DEF rest
    <3> QED
      BY <3>1, BeginsFacts
  <2> QED
    BY <2>1, <2>2
<1>9. \A a \in S : \/ a \in Absorbed(S) \/ a \in rest
                   \/ \E k \in Keys : a \in Joins(f, k)
  OBVIOUS
<1> QED
  BY <1>2, <1>5, <1>7, <1>8, <1>9

LEMMA ResumeFacts ==
  ASSUME TypeOK, Resume
  PROVE  /\ groups' \in [Keys -> Group] /\ stored' \in [Keys -> Group]
         /\ \A k \in Keys : groups'[k] = Kept(k)
                            /\ Kept(k).members \subseteq stored[k].members
         /\ "forget" \notin faults => stored' = groups'
<1>1. \A k \in Keys : Kept(k) \in Group /\ Kept(k).members \subseteq stored[k].members
  <2> TAKE k \in Keys
  <2> DEFINE members == stored[k].members \cap scheduled
  <2>1. stored[k] \in Group
    BY DEF TypeOK
  <2>2. CASE Kept(k) # None
    <3>1. Kept(k) = [stored[k] EXCEPT !.members = members] /\ members # {}
      BY <2>2 DEF Kept
    <3>2. stored[k] \in [members : Members, trigger : Triggers]
      BY <2>1, <3>1 DEF Group, None, Members
    <3>3. Kept(k) \in [members : Members, trigger : Triggers] /\ Kept(k).members = members
      BY <3>1, <3>2 DEF Members
    <3> QED
      BY <3>3 DEF Group, Members
  <2> QED
    BY <2>2 DEF Group, None
<1>2. groups' = [k \in Keys |-> Kept(k)]
  BY DEF Resume
<1>3. groups' \in [Keys -> Group] /\ \A k \in Keys : groups'[k] = Kept(k)
  BY <1>1, <1>2
<1>4. stored' \in [Keys -> Group]
  <2>1. [k \in Keys |-> IF Kept(k) = None THEN stored[k] ELSE Kept(k)] \in [Keys -> Group]
    BY <1>1 DEF TypeOK
  <2> QED
    BY <1>3, <2>1 DEF Resume
<1> QED
  BY <1>1, <1>3, <1>4 DEF Resume

----------------------------------------------------------------------------
(* Each part of the invariant is kept *)

LEMMA TypePreserved ==
  ASSUME TypeOK, FireInv, [Next]_vars
  PROVE  TypeOK'
<1>1. ASSUME NEW f \in Triggers, Look(f) PROVE TypeOK'
  <2>1. PICK S \in Due(f) \ {{}} : \E B \in SUBSET S, known \in BOOLEAN :
          /\ fires' = [fires EXCEPT ![f] = [apps |-> S, busy |-> B, stacks |-> known]]
          /\ owed' = owed \cup S
    BY <1>1 DEF Look
  <2>2. S \in SUBSET Apps
    BY ChoicesAssumption DEF Due, TypeOK
  <2>3. fires' \in [Triggers -> Fire] /\ owed' \subseteq Apps
    BY <2>1, <2>2 DEF TypeOK, Fire
  <2>4. fired' \in 0 .. MaxFires
    BY <1>1, ChoicesAssumption DEF Look, TypeOK
  <2> QED
    BY <1>1, <2>3, <2>4 DEF Look, TypeOK, settings, database, waits
<1>2. ASSUME NEW f \in Triggers, Hold(f) PROVE TypeOK'
  <2>1. fires' \in [Triggers -> Fire] /\ watch' \in [Keys -> {"none", "resumed", "poll",
     "end"}]
    BY <1>2 DEF Hold, TypeOK, NoFire, Fire
  <2> QED
    BY <1>2, <2>1, HoldFacts DEF Hold, TypeOK, settings, bounds
<1>3. ASSUME NEW f \in Triggers, HoldsNothing(f) PROVE TypeOK'
  <2>1. fires' \in [Triggers -> Fire]
    BY <1>3 DEF HoldsNothing, TypeOK, NoFire, Fire
  <2>2. jobs' \in [Slots -> Job] /\ \A i \in Slots : jobs'[i].now \subseteq jobs'[i].apps
    <3>1. Begins("fire", fires[f].apps) /\ "fire" \in Kinds
      BY <1>3 DEF HoldsNothing, Kinds
    <3>2. fires[f].apps \in Members
      BY <1>3 DEF HoldsNothing, FireInv, TypeOK, Fire, Members
    <3> QED
      BY <3>1, <3>2, BeginsFacts
  <2> QED
    BY <1>3, <2>1, <2>2 DEF HoldsNothing, TypeOK, settings, database, waits, bounds
<1>4. ASSUME NEW k \in Keys, WatchDrops(k) PROVE TypeOK'
  <2>1. groups' \in [Keys -> Group] /\ stored' \in [Keys -> Group]
    BY <1>4 DEF WatchDrops, Forgets, TypeOK, Group
  <2> QED
    BY <1>4, <2>1 DEF WatchDrops, TypeOK, settings, bounds
<1>5. ASSUME NEW k \in Keys, LooksDone(k) PROVE TypeOK'
  BY <1>5 DEF LooksDone, TypeOK, settings, database, waits, bounds
<1>6. ASSUME NEW k \in Keys, EndWait(k) PROVE TypeOK'
  <2>1. groups' \in [Keys -> Group] /\ stored' \in [Keys -> Group]
    BY <1>6 DEF EndWait, Forgets, TypeOK, Group
  <2>2. jobs' \in [Slots -> Job] /\ \A i \in Slots : jobs'[i].now \subseteq jobs'[i].apps
    <3> DEFINE S == groups[k].members \cap scheduled
    <3>1. CASE S = {}
      BY <1>6, <3>1 DEF EndWait, TypeOK
    <3>2. CASE S # {}
      <4>1. S \in Members /\ Begins("held", S) /\ "held" \in Kinds
        BY <1>6, <3>2 DEF EndWait, TypeOK, Members, Kinds
      <4> HIDE DEF S
      <4> QED
        BY <4>1, BeginsFacts
    <3> QED
      BY <3>1, <3>2
  <2> QED
    BY <1>6, <2>1, <2>2 DEF EndWait, TypeOK, settings, bounds
<1>7. ASSUME NEW k \in Keys, StartWait(k) PROVE TypeOK'
  BY <1>7 DEF StartWait, TypeOK, settings, database, waits, bounds
<1>8. ASSUME NEW j \in Slots, BackedUp(j) PROVE TypeOK'
  BY <1>8, LeavesFacts DEF BackedUp, Leaves, TypeOK, settings, waits, bounds
<1>9. ASSUME NEW j \in Slots, Defers(j) PROVE TypeOK'
  BY <1>9, LeavesFacts DEF Defers, Leaves, TypeOK, settings, waits, bounds
<1>10. CASE List
  BY <1>10 DEF List, Verdict, TypeOK, settings, database, waits, bounds
<1>11. ASSUME NEW a \in Apps, EndsDeferral(a) PROVE TypeOK'
  BY <1>11 DEF EndsDeferral, TypeOK, settings, database, waits, bounds
<1>12. ASSUME NEW a \in Apps, Postpones(a) PROVE TypeOK'
  BY <1>12 DEF Postpones, TypeOK, settings, database, waits, bounds
<1>13. ASSUME NEW a \in Apps, Retries(a) PROVE TypeOK'
  <2>1. {a} \in Members /\ "retry" \in Kinds
    BY DEF Members, Kinds
  <2> QED
    BY <1>13, <2>1, BeginsFacts
    DEF Retries, Retry, TypeOK, settings, database, waits, bounds
<1>14. ASSUME NEW a \in Apps, LastTry(a) PROVE TypeOK'
  <2>1. {a} \in Members /\ "last" \in Kinds
    BY DEF Members, Kinds
  <2> QED
    BY <1>14, <2>1, BeginsFacts
    DEF LastTry, Retry, TypeOK, settings, database, waits, bounds
<1>15. ASSUME NEW a \in Apps, Skips(a) PROVE TypeOK'
  BY <1>15 DEF Skips, TypeOK, settings, database, waits, bounds
<1>16. ASSUME NEW j \in Slots, NEW a \in Apps, Enter(j, a) PROVE TypeOK'
  <2>1. jobs[j] # NoJob /\ jobs[j] \in [kind : Kinds, apps : Members, now : SUBSET Apps]
    BY <1>16 DEF Enter, TypeOK, Job, NoJob, Members
  <2>2. [jobs[j] EXCEPT !.now = {a}] \in Job /\ [jobs[j] EXCEPT !.now = {a}].apps =
     jobs[j].apps
    BY <2>1 DEF Job, Members
  <2>3. jobs' = [jobs EXCEPT ![j] = [jobs[j] EXCEPT !.now = {a}]]
    BY <1>16 DEF Enter
  <2>4. jobs' \in [Slots -> Job] /\ \A i \in Slots : jobs'[i].now \subseteq jobs'[i].apps
    BY <1>16, <2>1, <2>2, <2>3 DEF Enter, TypeOK
  <2> QED
    BY <1>16, <2>4 DEF Enter, TypeOK, settings, database, waits, bounds
<1>17. CASE Crash
  <2>1. groups' \in [Keys -> Group] /\ fires' \in [Triggers -> Fire]
    BY <1>17 DEF Crash, NoGroups, NoFires, NoFire, Fire, Group
  <2>2. jobs' \in [Slots -> Job] /\ \A i \in Slots : jobs'[i].now \subseteq jobs'[i].apps
    BY <1>17 DEF Crash, NoJobs, NoJob, Job
  <2>3. crashes' \in 0 .. MaxCrashes
    BY <1>17, ChoicesAssumption DEF Crash, TypeOK
  <2> QED
    BY <1>17, <2>1, <2>2, <2>3 DEF Crash, NoWatches, NoList, TypeOK, settings, database
<1>18. CASE Resume
  BY <1>18, ResumeFacts DEF Resume, TypeOK, settings, bounds
<1>19. CASE StartDeferrals
  BY <1>19 DEF StartDeferrals, TypeOK, settings, database, waits, bounds
<1>20. ASSUME NEW a \in Apps, Hand(a) PROVE TypeOK'
  <2>1. {a} \in Members /\ "hand" \in Kinds
    BY DEF Members, Kinds
  <2>2. handed' \in 0 .. MaxHands
    BY <1>20, ChoicesAssumption DEF Hand, TypeOK
  <2> QED
    BY <1>20, <2>1, <2>2, BeginsFacts DEF Hand, TypeOK, settings, database, waits
<1>21. ASSUME NEW a \in Apps, DeadlineComes(a) PROVE TypeOK'
  BY <1>21 DEF DeadlineComes, TypeOK, settings, database, waits, bounds
<1>22. ASSUME NEW a \in Apps, Unschedules(a) PROVE TypeOK'
  <2>1. acts' \in 0 .. MaxActs
    BY <1>22, ChoicesAssumption DEF Unschedules, Acts, TypeOK
  <2> QED
    BY <1>22, <2>1 DEF Unschedules, Acts, TypeOK, database, waits
<1>23. CASE SwitchesOff
  <2>1. acts' \in 0 .. MaxActs
    BY <1>23, ChoicesAssumption DEF SwitchesOff, Acts, TypeOK
  <2> QED
    BY <1>23, <2>1 DEF SwitchesOff, Acts, TypeOK, database, waits
<1>24. CASE DomainOff
  <2>1. acts' \in 0 .. MaxActs
    BY <1>24, ChoicesAssumption DEF DomainOff, Acts, TypeOK
  <2> QED
    BY <1>24, <2>1 DEF DomainOff, Acts, TypeOK, database, waits
<1>25. CASE UNCHANGED vars
  BY <1>25 DEF vars, TypeOK, settings, database, waits, bounds
<1> QED
  BY <1>1, <1>2, <1>3, <1>4, <1>5, <1>6, <1>7, <1>8, <1>9, <1>10, <1>11, <1>12, <1>13,
     <1>14, <1>15, <1>16, <1>17, <1>18, <1>19, <1>20, <1>21, <1>22, <1>23, <1>24, <1>25
  DEF Next, Fired, Watched, Backup, Deferrals, Goes

\* A dead process does nothing but start again.
LEMMA DownPreserved ==
  ASSUME TypeOK, DownInv, [Next]_vars
  PROVE  DownInv'
<1> USE DEF TypeOK, DownInv, Up
<1>1. ASSUME NEW f \in Triggers, Look(f) PROVE DownInv'
  BY <1>1 DEF Look, waits
<1>2. ASSUME NEW f \in Triggers, Hold(f) PROVE DownInv'
  BY <1>2 DEF Hold, NoFires, bounds
<1>3. ASSUME NEW f \in Triggers, HoldsNothing(f) PROVE DownInv'
  BY <1>3 DEF HoldsNothing, NoFires, waits, bounds
<1>4. ASSUME NEW k \in Keys, WatchDrops(k) PROVE DownInv'
  BY <1>4 DEF WatchDrops, NoWatches, bounds
<1>5. ASSUME NEW k \in Keys, LooksDone(k) PROVE DownInv'
  BY <1>5 DEF LooksDone, NoWatches, waits, bounds
<1>6. ASSUME NEW k \in Keys, EndWait(k) PROVE DownInv'
  BY <1>6 DEF EndWait, NoWatches, bounds
<1>7. ASSUME NEW k \in Keys, StartWait(k) PROVE DownInv'
  BY <1>7 DEF StartWait, NoWatches, waits, bounds
<1>8. ASSUME NEW j \in Slots, BackedUp(j) PROVE DownInv'
  BY <1>8 DEF BackedUp, Leaves, NoJobs, NoJob, waits, bounds
<1>9. ASSUME NEW j \in Slots, Defers(j) PROVE DownInv'
  BY <1>9 DEF Defers, Leaves, NoJobs, NoJob, waits, bounds
<1>10. CASE List
  BY <1>10 DEF List, waits, bounds
<1>11. ASSUME NEW a \in Apps, EndsDeferral(a) PROVE DownInv'
  BY <1>11 DEF EndsDeferral, NoList, waits, bounds
<1>12. ASSUME NEW a \in Apps, Postpones(a) PROVE DownInv'
  BY <1>12 DEF Postpones, NoList, waits, bounds
<1>13. ASSUME NEW a \in Apps, Retries(a) PROVE DownInv'
  BY <1>13 DEF Retries, Retry, NoList, waits, bounds
<1>14. ASSUME NEW a \in Apps, LastTry(a) PROVE DownInv'
  BY <1>14 DEF LastTry, Retry, NoList, waits, bounds
<1>15. ASSUME NEW a \in Apps, Skips(a) PROVE DownInv'
  BY <1>15 DEF Skips, NoList, waits, bounds
<1>16. ASSUME NEW j \in Slots, NEW a \in Apps, Enter(j, a) PROVE DownInv'
  BY <1>16 DEF Enter, NoJobs, NoJob, waits, bounds
<1>17. CASE Crash
  BY <1>17 DEF Crash, waits, bounds
<1>18. CASE Resume
  BY <1>18 DEF Resume, waits, bounds
<1>19. CASE StartDeferrals
  BY <1>19 DEF StartDeferrals, waits, bounds
<1>20. ASSUME NEW a \in Apps, Hand(a) PROVE DownInv'
  BY <1>20 DEF Hand, waits, bounds
<1>21. ASSUME NEW a \in Apps, DeadlineComes(a) PROVE DownInv'
  BY <1>21 DEF DeadlineComes, waits, bounds
<1>22. ASSUME NEW a \in Apps, Unschedules(a) PROVE DownInv'
  BY <1>22 DEF Unschedules, Acts, waits
<1>23. CASE SwitchesOff
  BY <1>23 DEF SwitchesOff, Acts, waits
<1>24. CASE DomainOff
  BY <1>24 DEF DomainOff, Acts, waits
<1>25. CASE UNCHANGED vars
  BY <1>25 DEF vars, waits, bounds
<1> QED
  BY <1>1, <1>2, <1>3, <1>4, <1>5, <1>6, <1>7, <1>8, <1>9, <1>10, <1>11, <1>12, <1>13,
     <1>14, <1>15, <1>16, <1>17, <1>18, <1>19, <1>20, <1>21, <1>22, <1>23, <1>24, <1>25
  DEF Next, Fired, Watched, Backup, Deferrals, Goes

LEMMA FirePreserved ==
  ASSUME TypeOK, FireInv, [Next]_vars
  PROVE  FireInv'
<1> USE DEF TypeOK, FireInv
<1>1. ASSUME NEW f \in Triggers, Look(f) PROVE FireInv'
  <2>1. PICK S \in Due(f) \ {{}} : \E B \in SUBSET S, known \in BOOLEAN :
          fires' = [fires EXCEPT ![f] = [apps |-> S, busy |-> B, stacks |-> known]]
    BY <1>1 DEF Look
  <2> QED
    BY <2>1
<1>2. ASSUME NEW f \in Triggers, Hold(f) PROVE FireInv'
  BY <1>2 DEF Hold
<1>3. ASSUME NEW f \in Triggers, HoldsNothing(f) PROVE FireInv'
  BY <1>3 DEF HoldsNothing
<1>4. ASSUME NEW k \in Keys, WatchDrops(k) PROVE FireInv'
  BY <1>4 DEF WatchDrops
<1>5. ASSUME NEW k \in Keys, LooksDone(k) PROVE FireInv'
  BY <1>5 DEF LooksDone
<1>6. ASSUME NEW k \in Keys, EndWait(k) PROVE FireInv'
  BY <1>6 DEF EndWait
<1>7. ASSUME NEW k \in Keys, StartWait(k) PROVE FireInv'
  BY <1>7 DEF StartWait
<1>8. ASSUME NEW j \in Slots, BackedUp(j) PROVE FireInv'
  BY <1>8 DEF BackedUp, Leaves
<1>9. ASSUME NEW j \in Slots, Defers(j) PROVE FireInv'
  BY <1>9 DEF Defers, Leaves
<1>10. CASE List
  BY <1>10 DEF List
<1>11. ASSUME NEW a \in Apps, EndsDeferral(a) PROVE FireInv'
  BY <1>11 DEF EndsDeferral
<1>12. ASSUME NEW a \in Apps, Postpones(a) PROVE FireInv'
  BY <1>12 DEF Postpones
<1>13. ASSUME NEW a \in Apps, Retries(a) PROVE FireInv'
  BY <1>13 DEF Retries, Retry
<1>14. ASSUME NEW a \in Apps, LastTry(a) PROVE FireInv'
  BY <1>14 DEF LastTry, Retry
<1>15. ASSUME NEW a \in Apps, Skips(a) PROVE FireInv'
  BY <1>15 DEF Skips
<1>16. ASSUME NEW j \in Slots, NEW a \in Apps, Enter(j, a) PROVE FireInv'
  BY <1>16 DEF Enter
<1>17. CASE Crash
  BY <1>17 DEF Crash, NoFires
<1>18. CASE Resume
  BY <1>18 DEF Resume
<1>19. CASE StartDeferrals
  BY <1>19 DEF StartDeferrals
<1>20. ASSUME NEW a \in Apps, Hand(a) PROVE FireInv'
  BY <1>20 DEF Hand
<1>21. ASSUME NEW a \in Apps, DeadlineComes(a) PROVE FireInv'
  BY <1>21 DEF DeadlineComes
<1>22. ASSUME NEW a \in Apps, Unschedules(a) PROVE FireInv'
  BY <1>22 DEF Unschedules, Acts
<1>23. CASE SwitchesOff
  BY <1>23 DEF SwitchesOff, Acts
<1>24. CASE DomainOff
  BY <1>24 DEF DomainOff, Acts
<1>25. CASE UNCHANGED vars
  BY <1>25 DEF vars
<1> QED
  BY <1>1, <1>2, <1>3, <1>4, <1>5, <1>6, <1>7, <1>8, <1>9, <1>10, <1>11, <1>12, <1>13,
     <1>14, <1>15, <1>16, <1>17, <1>18, <1>19, <1>20, <1>21, <1>22, <1>23, <1>24, <1>25
  DEF Next, Fired, Watched, Backup, Deferrals, Goes

\* Whoever joins a wait was in none, and joins the one of its key.
LEMMA HoldKeepsDisjoint ==
  ASSUME TypeOK, NEW f \in Triggers, Hold(f), Disjoint(groups)
  PROVE  Disjoint(groups')
<1>1. SUFFICES ASSUME NEW k \in Keys, NEW l \in Keys, NEW a \in groups'[k].members,
                      a \in groups'[l].members
               PROVE  k = l
  BY DEF Disjoint
<1>2. a \in groups[k].members \/ a \in Joins(f, k)
  BY <1>1, HoldFacts
<1>3. a \in groups[l].members \/ a \in Joins(f, l)
  BY <1>1, HoldFacts
<1>4. \A m \in Keys : a \in Joins(f, m) => KeyOf(f, a) = m /\ ~Waits(a)
  BY HoldFacts DEF Absorbed
<1> QED
  BY <1>2, <1>3, <1>4 DEF Disjoint, Waits

LEMMA ShrinkKeepsDisjoint ==
  ASSUME NEW before, NEW after, Disjoint(before),
         \A k \in Keys : after[k].members \subseteq before[k].members
  PROVE  Disjoint(after)
  BY DEF Disjoint

LEMMA RecordPreserved ==
  ASSUME TypeOK, DownInv, RecordInv, OneWaitEach, [Next]_vars
  PROVE  RecordInv'
<1> USE DEF OneWaitEach
<1>1. ASSUME NEW f \in Triggers, Look(f) PROVE RecordInv'
  BY <1>1 DEF Look, RecordInv, Up, Disjoint, bounds, waits, database
<1>2. ASSUME NEW f \in Triggers, Hold(f) PROVE RecordInv'
  <2>1. ASSUME "forget" \notin faults PROVE Up /\ stored' = groups' /\ Disjoint(stored')
    <3>1. Up /\ stored = groups /\ Disjoint(groups)
      BY <1>2, <2>1 DEF Hold, DownInv, NoFires, RecordInv
    <3>2. stored' = groups'
      BY <1>2, <3>1, HoldFacts
    <3> QED
      BY <1>2, <3>1, <3>2, HoldKeepsDisjoint
  <2> QED
    BY <1>2, <2>1 DEF Hold, RecordInv, Up, bounds, Disjoint
<1>3. ASSUME NEW f \in Triggers, HoldsNothing(f) PROVE RecordInv'
  BY <1>3 DEF HoldsNothing, RecordInv, Up, Disjoint, bounds, waits, database
<1>4. ASSUME NEW k \in Keys, WatchDrops(k) PROVE RecordInv'
  <2>1. ASSUME "forget" \notin faults
        PROVE  Up /\ stored' = groups' /\ \A l \in Keys : stored'[l].members \subseteq
     stored[l].members
    <3>1. Up /\ stored = groups
      BY <1>4, <2>1 DEF WatchDrops, DownInv, NoWatches, RecordInv
    <3> QED
      BY <1>4, <2>1, <3>1 DEF WatchDrops, Forgets, None, TypeOK
  <2>2. ASSUME "forget" \notin faults PROVE Disjoint(stored')
    BY <2>1, <2>2, ShrinkKeepsDisjoint DEF RecordInv
  <2> QED
    BY <1>4, <2>1, <2>2 DEF WatchDrops, RecordInv, Up, bounds, Disjoint
<1>5. ASSUME NEW k \in Keys, LooksDone(k) PROVE RecordInv'
  BY <1>5 DEF LooksDone, RecordInv, Up, Disjoint, bounds, waits, database
<1>6. ASSUME NEW k \in Keys, EndWait(k) PROVE RecordInv'
  <2>1. ASSUME "forget" \notin faults
        PROVE  Up /\ stored' = groups' /\ \A l \in Keys : stored'[l].members \subseteq
     stored[l].members
    <3>1. Up /\ stored = groups
      BY <1>6, <2>1 DEF EndWait, DownInv, NoWatches, RecordInv
    <3> QED
      BY <1>6, <2>1, <3>1 DEF EndWait, Forgets, None, TypeOK
  <2>2. ASSUME "forget" \notin faults PROVE Disjoint(stored')
    BY <2>1, <2>2, ShrinkKeepsDisjoint DEF RecordInv
  <2> QED
    BY <1>6, <2>1, <2>2 DEF EndWait, RecordInv, Up, bounds, Disjoint
<1>7. ASSUME NEW k \in Keys, StartWait(k) PROVE RecordInv'
  BY <1>7 DEF StartWait, RecordInv, Up, Disjoint, bounds, waits, database
<1>8. ASSUME NEW j \in Slots, BackedUp(j) PROVE RecordInv'
  BY <1>8 DEF BackedUp, Leaves, RecordInv, Up, Disjoint, bounds, waits, database
<1>9. ASSUME NEW j \in Slots, Defers(j) PROVE RecordInv'
  BY <1>9 DEF Defers, Leaves, RecordInv, Up, Disjoint, bounds, waits, database
<1>10. CASE List
  BY <1>10 DEF List, RecordInv, Up, Disjoint, bounds, waits, database
<1>11. ASSUME NEW a \in Apps, EndsDeferral(a) PROVE RecordInv'
  BY <1>11 DEF EndsDeferral, RecordInv, Up, Disjoint, bounds, waits, database
<1>12. ASSUME NEW a \in Apps, Postpones(a) PROVE RecordInv'
  BY <1>12 DEF Postpones, RecordInv, Up, Disjoint, bounds, waits, database
<1>13. ASSUME NEW a \in Apps, Retries(a) PROVE RecordInv'
  BY <1>13 DEF Retries, Retry, RecordInv, Up, Disjoint, bounds, waits, database
<1>14. ASSUME NEW a \in Apps, LastTry(a) PROVE RecordInv'
  BY <1>14 DEF LastTry, Retry, RecordInv, Up, Disjoint, bounds, waits, database
<1>15. ASSUME NEW a \in Apps, Skips(a) PROVE RecordInv'
  BY <1>15 DEF Skips, RecordInv, Up, Disjoint, bounds, waits, database
<1>16. ASSUME NEW j \in Slots, NEW a \in Apps, Enter(j, a) PROVE RecordInv'
  BY <1>16 DEF Enter, RecordInv, Up, Disjoint, bounds, waits, database
<1>17. CASE Crash
  BY <1>17 DEF Crash, RecordInv, Up, database, Disjoint
<1>18. CASE Resume
  <2>1. ASSUME "forget" \notin faults
        PROVE  stored' = groups' /\ \A k \in Keys : stored'[k].members \subseteq
     stored[k].members
    BY <1>18, <2>1, ResumeFacts
  <2>2. ASSUME "forget" \notin faults PROVE Disjoint(stored')
    BY <2>1, <2>2, ShrinkKeepsDisjoint DEF RecordInv
  <2> QED
    BY <1>18, <2>1, <2>2 DEF Resume, RecordInv, bounds, Disjoint
<1>19. CASE StartDeferrals
  BY <1>19 DEF StartDeferrals, RecordInv, Up, Disjoint, bounds, waits, database
<1>20. ASSUME NEW a \in Apps, Hand(a) PROVE RecordInv'
  BY <1>20 DEF Hand, RecordInv, Up, Disjoint, bounds, waits, database
<1>21. ASSUME NEW a \in Apps, DeadlineComes(a) PROVE RecordInv'
  BY <1>21 DEF DeadlineComes, RecordInv, Up, Disjoint, bounds, waits, database
<1>22. ASSUME NEW a \in Apps, Unschedules(a) PROVE RecordInv'
  BY <1>22 DEF Unschedules, Acts, RecordInv, Up, Disjoint, bounds, waits, database
<1>23. CASE SwitchesOff
  BY <1>23 DEF SwitchesOff, Acts, RecordInv, Up, Disjoint, bounds, waits, database
<1>24. CASE DomainOff
  BY <1>24 DEF DomainOff, Acts, RecordInv, Up, Disjoint, bounds, waits, database
<1>25. CASE UNCHANGED vars
  BY <1>25 DEF vars, RecordInv, Up, Disjoint, bounds, waits, database
<1> QED
  BY <1>1, <1>2, <1>3, <1>4, <1>5, <1>6, <1>7, <1>8, <1>9, <1>10, <1>11, <1>12, <1>13,
     <1>14, <1>15, <1>16, <1>17, <1>18, <1>19, <1>20, <1>21, <1>22, <1>23, <1>24, <1>25
  DEF Next, Fired, Watched, Backup, Deferrals, Goes

\* Also after a restart, where the records are what they were.
LEMMA OneWaitPreserved ==
  ASSUME Apart, TypeOK, DownInv, RecordInv, OneWaitEach, [Next]_vars
  PROVE  OneWaitEach'
<1>0. Disjoint(groups)
  BY DEF OneWaitEach, Disjoint
<1> SUFFICES Disjoint(groups')
  BY DEF OneWaitEach, Disjoint
<1> USE <1>0
<1>1. ASSUME NEW f \in Triggers, Look(f) PROVE Disjoint(groups')
  BY <1>1 DEF Look, waits
<1>2. ASSUME NEW f \in Triggers, Hold(f) PROVE Disjoint(groups')
  BY <1>2, HoldKeepsDisjoint
<1>3. ASSUME NEW f \in Triggers, HoldsNothing(f) PROVE Disjoint(groups')
  BY <1>3 DEF HoldsNothing, waits
<1>4. ASSUME NEW k \in Keys, WatchDrops(k) PROVE Disjoint(groups')
  <2>1. \A l \in Keys : groups'[l].members \subseteq groups[l].members
    BY <1>4 DEF WatchDrops, None, TypeOK
  <2> QED
    BY <2>1, ShrinkKeepsDisjoint
<1>5. ASSUME NEW k \in Keys, LooksDone(k) PROVE Disjoint(groups')
  BY <1>5 DEF LooksDone, waits
<1>6. ASSUME NEW k \in Keys, EndWait(k) PROVE Disjoint(groups')
  <2>1. \A l \in Keys : groups'[l].members \subseteq groups[l].members
    BY <1>6 DEF EndWait, None, TypeOK
  <2> QED
    BY <2>1, ShrinkKeepsDisjoint
<1>7. ASSUME NEW k \in Keys, StartWait(k) PROVE Disjoint(groups')
  BY <1>7 DEF StartWait, waits
<1>8. ASSUME NEW j \in Slots, BackedUp(j) PROVE Disjoint(groups')
  BY <1>8 DEF BackedUp, Leaves, waits
<1>9. ASSUME NEW j \in Slots, Defers(j) PROVE Disjoint(groups')
  BY <1>9 DEF Defers, Leaves, waits
<1>10. CASE List
  BY <1>10 DEF List, waits
<1>11. ASSUME NEW a \in Apps, EndsDeferral(a) PROVE Disjoint(groups')
  BY <1>11 DEF EndsDeferral, waits
<1>12. ASSUME NEW a \in Apps, Postpones(a) PROVE Disjoint(groups')
  BY <1>12 DEF Postpones, waits
<1>13. ASSUME NEW a \in Apps, Retries(a) PROVE Disjoint(groups')
  BY <1>13 DEF Retries, Retry, waits
<1>14. ASSUME NEW a \in Apps, LastTry(a) PROVE Disjoint(groups')
  BY <1>14 DEF LastTry, Retry, waits
<1>15. ASSUME NEW a \in Apps, Skips(a) PROVE Disjoint(groups')
  BY <1>15 DEF Skips, waits
<1>16. ASSUME NEW j \in Slots, NEW a \in Apps, Enter(j, a) PROVE Disjoint(groups')
  BY <1>16 DEF Enter, waits
<1>17. CASE Crash
  BY <1>17 DEF Crash, NoGroups, None, Disjoint
<1>18. CASE Resume
  <2>1. "forget" \notin faults
    BY <1>18 DEF Resume, DownInv, Apart, TypeOK
  <2>2. \A k \in Keys : groups'[k].members \subseteq stored[k].members
    BY <1>18, ResumeFacts
  <2>3. Disjoint(stored)
    BY <2>1 DEF RecordInv
  <2> QED
    BY <2>2, <2>3, ShrinkKeepsDisjoint
<1>19. CASE StartDeferrals
  BY <1>19 DEF StartDeferrals, waits
<1>20. ASSUME NEW a \in Apps, Hand(a) PROVE Disjoint(groups')
  BY <1>20 DEF Hand, waits
<1>21. ASSUME NEW a \in Apps, DeadlineComes(a) PROVE Disjoint(groups')
  BY <1>21 DEF DeadlineComes, waits
<1>22. ASSUME NEW a \in Apps, Unschedules(a) PROVE Disjoint(groups')
  BY <1>22 DEF Unschedules, Acts, waits
<1>23. CASE SwitchesOff
  BY <1>23 DEF SwitchesOff, Acts, waits
<1>24. CASE DomainOff
  BY <1>24 DEF DomainOff, Acts, waits
<1>25. CASE UNCHANGED vars
  BY <1>25 DEF vars, waits
<1> QED
  BY <1>1, <1>2, <1>3, <1>4, <1>5, <1>6, <1>7, <1>8, <1>9, <1>10, <1>11, <1>12, <1>13,
     <1>14, <1>15, <1>16, <1>17, <1>18, <1>19, <1>20, <1>21, <1>22, <1>23, <1>24, <1>25
  DEF Next, Fired, Watched, Backup, Deferrals, Goes

\* Whoever is owed a backup goes from one list to another one in a single step.
LEMMA LostPreserved ==
  ASSUME Apart, TypeOK, FireInv, DownInv, RecordInv, NothingIsLost, [Next]_vars
  PROVE  NothingIsLost'
<1> USE DEF NothingIsLost
<1>1. ASSUME NEW f \in Triggers, Look(f) PROVE NothingIsLost'
  <2>1. PICK S \in Due(f) \ {{}} : \E B \in SUBSET S, known \in BOOLEAN :
          /\ fires' = [fires EXCEPT ![f] = [apps |-> S, busy |-> B, stacks |-> known]]
          /\ owed' = owed \cup S
    BY <1>1 DEF Look
  <2>2. \A a \in S : InRun(a)'
    BY <2>1 DEF InRun, TypeOK
  <2>3. \A a : InRun(a) => InRun(a)'
    BY <1>1, <2>1 DEF Look, InRun, TypeOK, NoFire
  <2> QED
    BY <1>1, <2>1, <2>2, <2>3 DEF Look, Up, waits, database, Waits
<1>2. ASSUME NEW f \in Triggers, Hold(f) PROVE NothingIsLost'
  <2>1. Up /\ Up' /\ owed' = owed /\ deferred' = deferred /\ fires' = [fires EXCEPT ![f] =
     NoFire]
    BY <1>2 DEF Hold, DownInv, NoFires, Up
  <2>2. \A a : Waits(a) => Waits(a)'
    BY <1>2, HoldFacts DEF Waits
  <2>3. \A a : InRun(a) /\ a \notin fires[f].apps => InRun(a)'
    BY <1>2, <2>1, HoldFacts DEF InRun, TypeOK
  <2>4. \A a \in fires[f].apps : Waits(a)' \/ InRun(a)'
    <3>1. \A a \in Absorbed(fires[f].apps) : Waits(a)
      BY DEF Absorbed
    <3>2. \A k \in Keys : \A a \in Joins(f, k) : Waits(a)'
      BY <1>2, HoldFacts DEF Waits
    <3>3. \A i \in Slots : \A a \in jobs'[i].apps : InRun(a)'
      BY DEF InRun
    <3> QED
      BY <1>2, <2>2, <3>1, <3>2, <3>3, HoldFacts
  <2> QED
    BY <2>1, <2>2, <2>3, <2>4
<1>3. ASSUME NEW f \in Triggers, HoldsNothing(f) PROVE NothingIsLost'
  <2>1. /\ Up /\ Up' /\ owed' = owed /\ deferred' = deferred /\ groups' = groups
        /\ fires' = [fires EXCEPT ![f] = NoFire]
    BY <1>3 DEF HoldsNothing, DownInv, NoFires, Up, database, waits
  <2>2. /\ Begins("fire", fires[f].apps) /\ "fire" \in Kinds
        /\ fires[f].apps \in Members
    BY <1>3 DEF HoldsNothing, Kinds, FireInv, TypeOK, Fire, Members
  <2>3. \A a : InRun(a) => InRun(a)'
    BY <2>1, <2>2, BeginsFacts DEF InRun, TypeOK
  <2> QED
    BY <2>1, <2>3 DEF Waits
<1>4. ASSUME NEW k \in Keys, WatchDrops(k) PROVE NothingIsLost'
  <2>1. /\ Up /\ Up' /\ owed' = owed \ groups[k].members /\ deferred' = deferred
        /\ groups' = [groups EXCEPT ![k] = None] /\ UNCHANGED <<fires, jobs>>
    BY <1>4 DEF WatchDrops, DownInv, NoWatches, Up
  <2>2. \A a : Waits(a) /\ a \notin groups[k].members => Waits(a)'
    BY <2>1 DEF Waits, TypeOK
  <2> QED
    BY <2>1, <2>2 DEF InRun
<1>5. ASSUME NEW k \in Keys, LooksDone(k) PROVE NothingIsLost'
  BY <1>5 DEF LooksDone, Up, InRun, Waits, OnRecord, database, waits, settings
<1>6. ASSUME NEW k \in Keys, EndWait(k) PROVE NothingIsLost'
  <2> DEFINE S == groups[k].members \cap scheduled
  <2>1. /\ Up /\ Up' /\ owed' = owed \ (groups[k].members \ scheduled)
        /\ deferred' = deferred
        /\ groups' = [groups EXCEPT ![k] = None] /\ UNCHANGED fires
    BY <1>6 DEF EndWait, DownInv, NoWatches, Up
  <2>2. \A a : Waits(a) /\ a \notin groups[k].members => Waits(a)'
    BY <2>1 DEF Waits, TypeOK
  <2>3. /\ \A i \in Slots : jobs[i].apps \subseteq jobs'[i].apps
        /\ \A a \in S : \E i \in Slots : a \in jobs'[i].apps
    <3>1. CASE S = {}
      BY <1>6, <3>1 DEF EndWait
    <3>2. CASE S # {}
      <4>1. S \in Members /\ Begins("held", S) /\ "held" \in Kinds
        BY <1>6, <3>2 DEF EndWait, TypeOK, Members, Kinds
      <4> HIDE DEF S
      <4> QED
        BY <4>1, BeginsFacts
    <3> QED
      BY <3>1, <3>2
  <2>4. \A a : InRun(a) => InRun(a)'
    BY <2>1, <2>3 DEF InRun
  <2>5. \A a \in S : InRun(a)'
    BY <2>3 DEF InRun
  <2> QED
    BY <2>1, <2>2, <2>4, <2>5
<1>7. ASSUME NEW k \in Keys, StartWait(k) PROVE NothingIsLost'
  BY <1>7 DEF StartWait, Up, InRun, Waits, OnRecord, database, waits, settings
<1>8. ASSUME NEW j \in Slots, BackedUp(j) PROVE NothingIsLost'
  <2>1. /\ Up /\ Up' /\ owed' = owed \ jobs[j].now
        /\ \A a \in deferred : a \in deferred' \/ a \in jobs[j].now
        /\ UNCHANGED <<fires, groups>>
    BY <1>8 DEF BackedUp, Leaves, DownInv, NoJobs, NoJob, Up, waits
  <2>2. \A a : InRun(a) => InRun(a)' \/ a \in jobs[j].now
    BY <1>8, <2>1, LeavesFacts DEF BackedUp, InRun
  <2> QED
    BY <2>1, <2>2 DEF Waits
<1>9. ASSUME NEW j \in Slots, Defers(j) PROVE NothingIsLost'
  <2>1. /\ Up /\ Up' /\ owed' = owed /\ deferred' = deferred \cup jobs[j].now
        /\ UNCHANGED <<fires, groups>>
    BY <1>9 DEF Defers, Leaves, DownInv, NoJobs, NoJob, Up, waits
  <2>2. \A a : InRun(a) => InRun(a)' \/ a \in jobs[j].now
    BY <1>9, <2>1, LeavesFacts DEF Defers, InRun
  <2> QED
    BY <2>1, <2>2 DEF Waits
<1>10. CASE List
  BY <1>10 DEF List, Up, InRun, Waits, OnRecord, database, waits, settings
<1>11. ASSUME NEW a \in Apps, EndsDeferral(a) PROVE NothingIsLost'
  <2>1. Up
    BY <1>11 DEF EndsDeferral, DownInv, NoList, Up
  <2> QED
    BY <1>11, <2>1 DEF EndsDeferral, Up, InRun, Waits, settings, waits
<1>12. ASSUME NEW a \in Apps, Postpones(a) PROVE NothingIsLost'
  <2>1. Up
    BY <1>12 DEF Postpones, DownInv, NoList, Up
  <2> QED
    BY <1>12, <2>1 DEF Postpones, Up, InRun, Waits, settings, waits
<1>13. ASSUME NEW a \in Apps, Retries(a) PROVE NothingIsLost'
  <2>1. {a} \in Members /\ "retry" \in Kinds /\ Begins("retry", {a}) /\ Up
    BY <1>13 DEF Retries, Retry, Members, Kinds, DownInv, NoList, Up
  <2>2. \A b : InRun(b) => InRun(b)'
    BY <1>13, <2>1, BeginsFacts DEF Retries, Retry, InRun
  <2> QED
    BY <1>13, <2>1, <2>2 DEF Retries, Retry, Up, Waits, waits, database
<1>14. ASSUME NEW a \in Apps, LastTry(a) PROVE NothingIsLost'
  <2>1. {a} \in Members /\ "last" \in Kinds /\ Begins("last", {a}) /\ Up
    BY <1>14 DEF LastTry, Retry, Members, Kinds, DownInv, NoList, Up
  <2>2. \A b : InRun(b) => InRun(b)'
    BY <1>14, <2>1, BeginsFacts DEF LastTry, Retry, InRun
  <2> QED
    BY <1>14, <2>1, <2>2 DEF LastTry, Retry, Up, Waits, waits, database
<1>15. ASSUME NEW a \in Apps, Skips(a) PROVE NothingIsLost'
  BY <1>15 DEF Skips, Up, InRun, Waits, OnRecord, database, waits, settings
<1>16. ASSUME NEW j \in Slots, NEW a \in Apps, Enter(j, a) PROVE NothingIsLost'
  <2>1. Up /\ \A i \in Slots : jobs'[i].apps = jobs[i].apps
    BY <1>16 DEF Enter, DownInv, NoJobs, NoJob, Up, TypeOK
  <2> QED
    BY <1>16, <2>1 DEF Enter, Up, InRun, Waits, waits, database
<1>17. CASE Crash
  <2>1. "forget" \notin faults /\ Up /\ ~Up' /\ stored' = stored /\ deferred' = deferred
    BY <1>17 DEF Crash, Apart, TypeOK, Up, database
  <2>2. stored = groups
    BY <2>1 DEF RecordInv
  <2>3. \A a \in owed' : a \in owed /\ (Waits(a) \/ a \in deferred)
    BY <1>17, <2>1 DEF Crash
  <2>4. \A a : Waits(a) => \E k \in Keys : a \in stored'[k].members
    BY <2>1, <2>2 DEF Waits
  <2> QED
    BY <2>1, <2>3, <2>4 DEF OnRecord
<1>18. CASE Resume
  <2>1. ~Up /\ Up' /\ deferred' = deferred /\ owed' \subseteq owed
    BY <1>18 DEF Resume, Up
  <2>2. ASSUME NEW a \in owed', NEW k \in Keys, a \in stored[k].members
        PROVE  a \in groups'[k].members
    BY <1>18, <2>2, ResumeFacts DEF Resume
  <2> QED
    BY <2>1, <2>2 DEF OnRecord, Waits
<1>19. CASE StartDeferrals
  BY <1>19 DEF StartDeferrals, Up, InRun, Waits, database, waits
<1>20. ASSUME NEW a \in Apps, Hand(a) PROVE NothingIsLost'
  <2>1. {a} \in Members /\ "hand" \in Kinds /\ Begins("hand", {a}) /\ Up
    BY <1>20 DEF Hand, Members, Kinds, DownInv, NoList, Up
  <2>2. \A b : InRun(b) => InRun(b)'
    BY <1>20, <2>1, BeginsFacts DEF Hand, InRun
  <2> QED
    BY <1>20, <2>1, <2>2 DEF Hand, Up, Waits, waits, database
<1>21. ASSUME NEW a \in Apps, DeadlineComes(a) PROVE NothingIsLost'
  BY <1>21 DEF DeadlineComes, Up, InRun, Waits, OnRecord, database, waits, settings
<1>22. ASSUME NEW a \in Apps, Unschedules(a) PROVE NothingIsLost'
  BY <1>22 DEF Unschedules, Acts, Up, InRun, Waits, OnRecord, database, waits
<1>23. CASE SwitchesOff
  BY <1>23 DEF SwitchesOff, Acts, Up, InRun, Waits, OnRecord, database, waits
<1>24. CASE DomainOff
  BY <1>24 DEF DomainOff, Acts, Up, InRun, Waits, OnRecord, database, waits
<1>25. CASE UNCHANGED vars
  BY <1>25 DEF vars, Up, InRun, Waits, OnRecord, database, waits, settings
<1> QED
  BY <1>1, <1>2, <1>3, <1>4, <1>5, <1>6, <1>7, <1>8, <1>9, <1>10, <1>11, <1>12, <1>13,
     <1>14, <1>15, <1>16, <1>17, <1>18, <1>19, <1>20, <1>21, <1>22, <1>23, <1>24, <1>25
  DEF Next, Fired, Watched, Backup, Deferrals, Goes

----------------------------------------------------------------------------
(* What follows for the waits *)

LEMMA InitHolds == Init => IInv
<1> SUFFICES ASSUME Init PROVE IInv
  OBVIOUS
<1>1. \A k \in Keys : groups[k].members = {} /\ stored = groups
  BY DEF Init, NoGroups, None
<1>2. TypeOK
  <2>1. NoGroups \in [Keys -> Group] /\ NoWatches \in [Keys -> {"none", "resumed", "poll", "end"}]
    BY DEF NoGroups, NoWatches, Group
  <2>2. NoFires \in [Triggers -> Fire] /\ NoJobs \in [Slots -> Job]
    BY DEF NoFires, NoFire, Fire, NoJobs, Job
  <2>3. \A j \in Slots : NoJobs[j].now \subseteq NoJobs[j].apps
    BY DEF NoJobs, NoJob
  <2>4. NoList \in [Apps -> {"none", "drop", "over", "try"}]
    BY DEF NoList
  <2> QED
    BY <2>1, <2>2, <2>3, <2>4, ChoicesAssumption DEF Init, TypeOK
<1>3. FireInv /\ DownInv
  BY DEF Init, FireInv, NoFires, DownInv, Up
<1>4. RecordInv /\ OneWaitEach
  BY <1>1 DEF Init, RecordInv, Disjoint, OneWaitEach
<1>5. NothingIsLost
  BY DEF Init, NothingIsLost
<1> QED
  BY <1>2, <1>3, <1>4, <1>5 DEF IInv

LEMMA IInvHolds ==
  ASSUME Apart
  PROVE  Spec => []IInv
<1>1. IInv /\ [Next]_vars => IInv'
  BY TypePreserved, FirePreserved, DownPreserved, RecordPreserved, OneWaitPreserved,
     LostPreserved DEF IInv
<1> QED
  BY <1>1, InitHolds, PTL DEF Spec

\* The types of the waits, the runs and the deferrals, whatever fails.
THEOREM TypeCorrect == Spec => []TypeOK
<1>1. Init => TypeOK /\ FireInv
  BY InitHolds DEF IInv
<1>2. (TypeOK /\ FireInv) /\ [Next]_vars => (TypeOK /\ FireInv)'
  BY TypePreserved, FirePreserved
<1> QED
  BY <1>1, <1>2, PTL DEF Spec

\* A backup a fire asked for is under way, waits or is deferred, and on record
\* while the process is down (HoldForIdle, endWait, deferBackup, ResumeIdleWaits).
THEOREM NothingIsEverLost ==
  ASSUME Apart
  PROVE  Spec => []NothingIsLost
<1>1. IInv => NothingIsLost
  BY DEF IInv
<1> QED
  BY <1>1, IInvHolds, PTL

\* However many fires overlap, stacks come and go and processes die, an app
\* waits in one group (groupOf).
THEOREM OneWaitForEach ==
  ASSUME Apart
  PROVE  Spec => []OneWaitEach
<1>1. IInv => OneWaitEach
  BY DEF IInv
<1> QED
  BY <1>1, IInvHolds, PTL

=============================================================================
