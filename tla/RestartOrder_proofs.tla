------------------------- MODULE RestartOrder_proofs -------------------------
(***************************************************************************)
(* For any number of containers, any namespaces and any dependencies,      *)
(* cycles included: every container is started once, a namespace owner     *)
(* before those that join it and a dependency before its dependents as far *)
(* as anything can be, and the levels of a stop go the other way.          *)
(*                                                                         *)
(* What waits for itself is a set each of whose members needs another one  *)
(* of it (Waits).  A pass that emits nothing has found such a set, and     *)
(* that is all that is out of order: everything else comes after what it   *)
(* needs.  No induction over paths is needed.                              *)
(***************************************************************************)
EXTENDS RestartOrder, TLAPS, FiniteSetTheorems, SequenceTheorems

Earlier(s, f, g) == \E k, m \in DOMAIN s : k < m /\ s[k] = f /\ s[m] = g

Distinct(s) == \A k, m \in DOMAIN s : s[k] = s[m] => k = m

\* In a group of containers that waits for itself, or in no order.
Waits(i) ==
    \E S \in SUBSET Deps : i \in S /\ \A k \in S : BothEdges[k] \cap S # {}

\* Those that join the target start after it, and whatever starts before it
\* starts after what it joins.
SettleInv ==
    /\ Target \in after /\ before \cap after = {}
    /\ pc # "settleAfter" =>
         \A i \in Deps : joins[i] \cap after # {} => i \in after
    /\ pc \notin {"settleAfter", "settleBefore"} =>
         \A i \in before : joins[i] \cap Deps \subseteq before

\* Whatever has been emitted comes after what it needs or waits for itself; a
\* pass without an emission leaves only the latter.
SortInv ==
    /\ Distinct(order) /\ Elements(order) \subseteq part
    /\ \A i \in Elements(order) : Waits(i) \/ \A j \in Graph(i) : Earlier(order, j, i)
    /\ ~progressed => cursor \in {1, N + 1}
    /\ ~progressed /\ cursor = N + 1 => \A i \in part \ Elements(order) : Waits(i)

\* i comes after what it needs on its side of the target.
InOrder(i, side) ==
    Waits(i) \/ \A j \in (needs[i] \cup joins[i]) \cap side : Earlier(started, j, i)

StartInv ==
    /\ Distinct(started)
    /\ pc = "first" => part = before
    /\ pc = "second" => part = Deps \ before
    /\ pc \notin {"target", "second", "done"} => started = <<>>
    /\ pc = "target" => Elements(started) = before
    /\ pc = "second" => Elements(started) = before \cup {Target}
    /\ Restarted => Elements(started) = All
    /\ pc \in {"target", "second"} \/ Restarted => \A i \in before : InOrder(i, before)
    /\ Restarted =>
         \A i \in Deps \ before :
             /\ InOrder(i, Deps \ before)
             /\ \A o \in before \cup {Target} : Earlier(started, o, i)

\* The levels rise from the end of the order to its beginning: a container that
\* has its level is below all it needs that have theirs.
Stopping == pc = "levels" \/ (pc = "done" /\ started = <<>>)
LevelInv ==
    /\ pc \notin {"levels", "done"} => \A i \in Deps : level[i] = 0
    /\ pc = "levels" =>
         /\ Elements(order) # part => part = Deps /\ \A i \in Deps : level[i] = 0
         /\ \A i \in Deps : level[i] <= N - Len(order)
    /\ Stopping /\ pc = "done" => part = {}
    /\ Stopping /\ Acyclic(BothEdges) =>
         \A j \in Deps \ part, i \in Deps :
             j \in BothEdges[i] => i \notin part /\ level[i] < level[j]

IInv == TypeOK /\ SettleInv /\ SortInv /\ StartInv /\ LevelInv

----------------------------------------------------------------------------
(* Numbers and sequences *)

\* Numbers have a least one: what the CHOOSE of a pass picks exists.
LEMMA LeastExists ==
  ASSUME NEW T \in SUBSET Nat, T # {}
  PROVE  \E m \in T : \A n \in T : m <= n
<1> DEFINE R == OpToRel(<, Nat)
<1>1. IsWellFoundedOn(R, Nat)
  BY NatLessThanWellFounded
<1>2. \A i, j \in Nat : i < j => <<i, j>> \in R
  BY DEF OpToRel
<1> HIDE DEF R
<1>3. PICK m \in T : \A n \in T : <<n, m>> \notin R
  BY <1>1, WFMin
<1>4. \A n \in T : ~(n < m)
  BY <1>2, <1>3
<1>5. \A n \in T : n \in Nat /\ m \in Nat
  OBVIOUS
<1> QED
  BY <1>4, <1>5

\* And bounded ones have a highest.
LEMMA HighestIs ==
  ASSUME NEW M \in Nat, NEW T \in SUBSET (0 .. M), T # {}
  PROVE  Highest(T) \in T /\ \A n \in T : n <= Highest(T)
<1> DEFINE U == {M - n : n \in T}
<1>1. U \in SUBSET Nat /\ U # {}
  <2>1. \A n \in T : M - n \in Nat
    <3> TAKE n \in T
    <3>1. n \in 0 .. M
      OBVIOUS
    <3> QED
      BY <3>1
  <2> QED
    BY <2>1
<1>2. PICK u \in U : \A v \in U : u <= v
  BY <1>1, LeastExists
<1>3. PICK m \in T : u = M - m
  OBVIOUS
<1>4. \A n \in T : n <= m
  <2> TAKE n \in T
  <2>1. M - m <= M - n
    BY <1>2, <1>3
  <2> QED
    BY <2>1
<1> QED
  BY <1>4 DEF Highest

LEMMA AppendFacts ==
  ASSUME NEW S, NEW s \in Seq(S), NEW e \in S
  PROVE  /\ Append(s, e) \in Seq(S) /\ Len(Append(s, e)) = Len(s) + 1
         /\ Elements(Append(s, e)) = Elements(s) \cup {e}
         /\ \A f, g : Earlier(s, f, g) => Earlier(Append(s, e), f, g)
         /\ \A f \in Elements(s) : Earlier(Append(s, e), f, e)
         /\ Distinct(s) /\ e \notin Elements(s) => Distinct(Append(s, e))
<1> DEFINE t == Append(s, e)
<1>1. /\ t \in Seq(S) /\ Len(t) = Len(s) + 1 /\ Len(s) \in Nat
      /\ DOMAIN s = 1 .. Len(s) /\ DOMAIN t = 1 .. Len(s) + 1
      /\ \A k \in 1 .. Len(s) : t[k] = s[k]
      /\ t[Len(s) + 1] = e
  OBVIOUS
<1> HIDE DEF t
<1>2. Elements(t) = Elements(s) \cup {e}
  <2>1. \A k \in DOMAIN t : t[k] \in Elements(s) \cup {e}
    BY <1>1 DEF Elements
  <2>2. \A k \in DOMAIN s : s[k] \in Elements(t)
    BY <1>1 DEF Elements
  <2>3. e \in Elements(t)
    BY <1>1 DEF Elements
  <2> QED
    BY <2>1, <2>2, <2>3 DEF Elements
<1>3. \A f, g : Earlier(s, f, g) => Earlier(t, f, g)
  BY <1>1 DEF Earlier
<1>4. \A f \in Elements(s) : Earlier(t, f, e)
  BY <1>1 DEF Earlier, Elements
<1>5. Distinct(s) /\ e \notin Elements(s) => Distinct(t)
  BY <1>1 DEF Distinct, Elements
<1> QED
  BY <1>1, <1>2, <1>3, <1>4, <1>5 DEF t

LEMMA ConcatFacts ==
  ASSUME NEW S, NEW s \in Seq(S), NEW t \in Seq(S)
  PROVE  /\ s \o t \in Seq(S) /\ Len(s \o t) = Len(s) + Len(t)
         /\ Elements(s \o t) = Elements(s) \cup Elements(t)
         /\ \A f, g : Earlier(s, f, g) \/ Earlier(t, f, g) => Earlier(s \o t, f, g)
         /\ \A f \in Elements(s), g \in Elements(t) : Earlier(s \o t, f, g)
         /\ Distinct(s) /\ Distinct(t) /\ Elements(s) \cap Elements(t) = {} =>
              Distinct(s \o t)
<1> DEFINE u == s \o t
<1>1. /\ u \in Seq(S) /\ Len(s) \in Nat /\ Len(t) \in Nat /\ Len(u) = Len(s) + Len(t)
      /\ DOMAIN s = 1 .. Len(s) /\ DOMAIN t = 1 .. Len(t)
      /\ DOMAIN u = 1 .. Len(s) + Len(t)
      /\ \A k \in 1 .. Len(s) : u[k] = s[k]
      /\ \A k \in 1 .. Len(t) : u[Len(s) + k] = t[k]
  OBVIOUS
<1> HIDE DEF u
<1>2. \A k \in DOMAIN u : k \in DOMAIN s \/ \E m \in DOMAIN t : k = Len(s) + m
  <2> TAKE k \in DOMAIN u
  <2>1. k \in 1 .. Len(s) \/ (k - Len(s) \in 1 .. Len(t) /\ k = Len(s) + (k - Len(s)))
    BY <1>1
  <2> QED
    BY <1>1, <2>1
<1>3. Elements(u) = Elements(s) \cup Elements(t)
  <2>1. \A k \in DOMAIN u : u[k] \in Elements(s) \cup Elements(t)
    BY <1>1, <1>2 DEF Elements
  <2>2. \A k \in DOMAIN s : s[k] \in Elements(u)
    BY <1>1 DEF Elements
  <2>3. \A k \in DOMAIN t : t[k] \in Elements(u)
    BY <1>1 DEF Elements
  <2> QED
    BY <2>1, <2>2, <2>3 DEF Elements
<1>4. \A f, g : Earlier(s, f, g) => Earlier(u, f, g)
  BY <1>1 DEF Earlier
<1>5. \A f, g : Earlier(t, f, g) => Earlier(u, f, g)
  <2> TAKE f, g
  <2> HAVE Earlier(t, f, g)
  <2>1. PICK k, m \in DOMAIN t : k < m /\ t[k] = f /\ t[m] = g
    BY DEF Earlier
  <2>2. /\ Len(s) + k \in DOMAIN u /\ Len(s) + m \in DOMAIN u
        /\ Len(s) + k < Len(s) + m
        /\ u[Len(s) + k] = f /\ u[Len(s) + m] = g
    BY <1>1, <2>1
  <2> QED
    BY <2>2 DEF Earlier
<1>6. \A f \in Elements(s), g \in Elements(t) : Earlier(u, f, g)
  <2> TAKE f \in Elements(s), g \in Elements(t)
  <2>1. PICK k \in DOMAIN s : s[k] = f
    BY DEF Elements
  <2>2. PICK m \in DOMAIN t : t[m] = g
    BY DEF Elements
  <2>3. /\ k \in DOMAIN u /\ Len(s) + m \in DOMAIN u /\ k < Len(s) + m
        /\ u[k] = f /\ u[Len(s) + m] = g
    BY <1>1, <2>1, <2>2
  <2> QED
    BY <2>3 DEF Earlier
<1>7. ASSUME Distinct(s), Distinct(t), Elements(s) \cap Elements(t) = {}
      PROVE  Distinct(u)
  <2>1. \A k \in DOMAIN s, m \in DOMAIN t : s[k] # t[m]
    BY <1>7 DEF Elements
  <2>2. SUFFICES ASSUME NEW k \in DOMAIN u, NEW m \in DOMAIN u, u[k] = u[m] PROVE k = m
    BY DEF Distinct
  <2>3. CASE k \in DOMAIN s /\ m \in DOMAIN s
    BY <1>1, <1>7, <2>2, <2>3 DEF Distinct
  <2>4. ASSUME NEW i \in DOMAIN t, k = Len(s) + i, NEW j \in DOMAIN t, m = Len(s) + j
        PROVE  k = m
    BY <1>1, <1>7, <2>2, <2>4 DEF Distinct
  <2>5. ASSUME k \in DOMAIN s, NEW j \in DOMAIN t, m = Len(s) + j PROVE FALSE
    BY <1>1, <2>1, <2>2, <2>5
  <2>6. ASSUME m \in DOMAIN s, NEW j \in DOMAIN t, k = Len(s) + j PROVE FALSE
    BY <1>1, <2>1, <2>2, <2>6
  <2> QED
    BY <1>2, <2>3, <2>4, <2>5, <2>6
<1> QED
  BY <1>1, <1>3, <1>4, <1>5, <1>6, <1>7 DEF u

\* What is left without the last element.
LEMMA CutFacts ==
  ASSUME NEW S, NEW s \in Seq(S), s # <<>>, Distinct(s)
  PROVE  LET t == SubSeq(s, 1, Len(s) - 1) IN
         /\ t \in Seq(S) /\ Len(t) = Len(s) - 1 /\ Len(s) \in Nat \ {0}
         /\ s[Len(s)] \in Elements(s)
         /\ Elements(t) = Elements(s) \ {s[Len(s)]}
         /\ Distinct(t)
         /\ \A f, g : Earlier(s, f, g) => f # s[Len(s)]
         /\ \A f, g : Earlier(s, f, g) /\ g # s[Len(s)] => Earlier(t, f, g)
<1> DEFINE t == SubSeq(s, 1, Len(s) - 1)
<1>1. Len(s) \in Nat \ {0} /\ DOMAIN s = 1 .. Len(s)
  OBVIOUS
<1>2. \A i \in 1 .. Len(s) - 1 : s[i] \in S
  BY <1>1, ElementOfSeq
<1>3. /\ t \in Seq(S) /\ Len(t) = Len(s) - 1 /\ DOMAIN t = 1 .. Len(s) - 1
      /\ \A i \in 1 .. Len(s) - 1 : t[i] = s[i]
  BY <1>1, <1>2, SubSeqProperties
<1> HIDE DEF t
<1>4. Distinct(t)
  BY <1>1, <1>3 DEF Distinct
<1>5. Elements(t) = Elements(s) \ {s[Len(s)]}
  <2>1. \A i \in DOMAIN t : t[i] \in Elements(s) /\ t[i] # s[Len(s)]
    BY <1>1, <1>3 DEF Elements, Distinct
  <2>2. \A i \in DOMAIN s : i = Len(s) \/ s[i] \in Elements(t)
    BY <1>1, <1>3 DEF Elements
  <2> QED
    BY <2>1, <2>2 DEF Elements
<1>6. \A f, g : Earlier(s, f, g) => f # s[Len(s)]
  BY <1>1 DEF Earlier, Distinct
<1>7. \A f, g : Earlier(s, f, g) /\ g # s[Len(s)] => Earlier(t, f, g)
  BY <1>1, <1>3 DEF Earlier
<1>8. s[Len(s)] \in Elements(s)
  BY <1>1 DEF Elements
<1> QED
  BY <1>1, <1>3, <1>4, <1>5, <1>6, <1>7, <1>8 DEF t

\* A sequence without duplicates is as long as it has elements.
LEMMA DistinctLength ==
  ASSUME NEW S, NEW s \in Seq(S), Distinct(s)
  PROVE  IsFiniteSet(Elements(s)) /\ Cardinality(Elements(s)) = Len(s)
<1>1. Len(s) \in Nat /\ DOMAIN s = 1 .. Len(s) /\ s \in [1 .. Len(s) -> S]
  BY LenProperties
<1>2. s \in [1 .. Len(s) -> Elements(s)]
  BY <1>1 DEF Elements
<1>3. s \in Bijection(1 .. Len(s), Elements(s))
  BY <1>1, <1>2 DEF Bijection, Injection, Surjection, IsInjective, Distinct, Elements
<1>4. IsFiniteSet(1 .. Len(s)) /\ Cardinality(1 .. Len(s)) = Len(s)
  BY <1>1, FS_Interval
<1> QED
  BY <1>3, <1>4, FS_Bijection DEF ExistsBijection

----------------------------------------------------------------------------
(* The inputs, and one step of the order *)

LEMMA InputTypes ==
  ASSUME TypeOK
  PROVE  /\ N \in Nat
         /\ needs \in [Deps -> SUBSET Deps] /\ joins \in [Deps -> SUBSET All]
         /\ Deps \in SUBSET Nat /\ Target \in All /\ Deps \subseteq All
         /\ Target \notin Deps /\ All = 0 .. N
         /\ \A i \in Deps : BothEdges[i] = needs[i] \cup (joins[i] \ {Target})
         /\ \A i \in Deps : BothEdges[i] \subseteq Deps
         /\ \A i \in Deps : Graph(i) = BothEdges[i] \cap part
  BY InputsAssumption DEF TypeOK, Deps, All, Target, BothEdges, Graph

\* Emit takes what is ready, AppendRest what waits for itself.
LEMMA EmitFacts ==
  ASSUME TypeOK, SortInv, Emit
  PROVE  \E i \in part \ Elements(order) :
           Ready(i) /\ i \in Deps /\ order' = Append(order, i) /\ cursor' = i + 1
<1> DEFINE i == CHOOSE i \in Ahead : \A j \in Ahead : i <= j
<1>1. Ahead \in SUBSET Nat /\ Ahead # {} /\ Ahead \subseteq Deps
  BY InputTypes DEF Ahead, Emit, TypeOK, Deps
<1>2. \E m \in Ahead : \A j \in Ahead : m <= j
  BY <1>1, LeastExists
<1> HIDE DEF i
<1>3. i \in Ahead
  BY <1>2 DEF i
<1>4. Ready(i) /\ i \in part \ Elements(order) /\ i \in Deps
  BY <1>1, <1>3 DEF Ahead, Ready
<1>5. order' = Append(order, i) /\ cursor' = i + 1
  BY DEF Emit, i
<1> QED
  BY <1>4, <1>5

LEMMA RestFacts ==
  ASSUME TypeOK, SortInv, AppendRest
  PROVE  /\ \E i \in part \ Elements(order) :
              Waits(i) /\ i \in Deps /\ order' = Append(order, i)
         /\ \A i \in part \ Elements(order) : Waits(i)
<1> DEFINE rest == part \ Elements(order)
<1>1. rest \in SUBSET Nat /\ rest # {} /\ rest \in SUBSET Deps
  BY InputTypes DEF AppendRest, Ordering, TypeOK, SortInv
<1>2. \E m \in rest : \A j \in rest : m <= j
  BY <1>1, LeastExists
<1>3. (CHOOSE i \in rest : \A j \in rest : i <= j) \in rest
  BY <1>2
<1>4. \A i \in rest : Waits(i)
  <2>1. CASE cursor = N + 1
    BY <2>1 DEF AppendRest, SortInv
  <2>2. CASE cursor # N + 1
    <3>1. cursor = 1
      BY <2>2 DEF AppendRest, SortInv
    <3>2. \A i \in rest : ~Ready(i)
      BY <1>1, <3>1 DEF AppendRest, Ahead, Deps
    <3>3. \A i \in rest : BothEdges[i] \cap rest # {}
      BY <1>1, <3>2, InputTypes DEF Ready
    <3> QED
      BY <1>1, <3>3 DEF Waits
  <2> QED
    BY <2>1, <2>2
<1> QED
  BY <1>1, <1>3, <1>4 DEF AppendRest

\* The last of the order goes one level below those that need it.
LEMMA LevelFacts ==
  ASSUME TypeOK, SortInv, LevelInv, SetLevel, order # <<>>
  PROVE  \E i \in Deps :
           /\ i = order[Len(order)] /\ i \in part
           /\ order' = SubSeq(order, 1, Len(order) - 1)
           /\ part' = part \ {i} /\ pc' = pc
           /\ level' = [level EXCEPT ![i] = Below(i)]
           /\ Below(i) \in 0 .. N - Len(order) + 1
           /\ \A k \in Deps : i \in Graph(k) => level[k] < Below(i)
<1> DEFINE i == order[Len(order)]
           above == {level[j] + 1 : j \in {k \in Deps : i \in Graph(k)}}
           M == N - Len(order) + 1
<1>1. /\ pc = "levels" /\ Elements(order) = part /\ order \in Seq(Deps)
      /\ order' = SubSeq(order, 1, Len(order) - 1) /\ part' = part \ {i}
      /\ pc' = pc /\ level' = [level EXCEPT ![i] = Below(i)]
  BY DEF SetLevel, TypeOK
<1>2. i \in Elements(order) /\ i \in Deps /\ i \in part
  BY <1>1, CutFacts DEF SortInv, TypeOK
<1>3. Len(order) \in Nat /\ N \in Nat /\ \A k \in Deps : level[k] \in 0 .. N
  BY <1>1, InputTypes DEF TypeOK
<1>4. \A k \in Deps : level[k] <= N - Len(order)
  BY <1>1 DEF LevelInv
<1>5. M \in Nat
  BY <1>2, <1>3, <1>4
<1> HIDE DEF i, M
<1>6. {0} \cup above \in SUBSET (0 .. M) /\ {0} \cup above # {}
  <2>1. \A k \in Deps : level[k] + 1 \in 0 .. M
    BY <1>3, <1>4 DEF M
  <2> QED
    BY <1>5, <2>1
<1>7. Below(i) = Highest({0} \cup above)
  BY DEF Below
<1> HIDE DEF above
<1>8. Below(i) \in {0} \cup above /\ \A n \in {0} \cup above : n <= Below(i)
  BY <1>5, <1>6, <1>7, HighestIs
<1>9. Below(i) \in 0 .. M
  BY <1>6, <1>8
<1>10. \A k \in Deps : i \in Graph(k) => level[k] < Below(i)
  <2> TAKE k \in Deps
  <2> HAVE i \in Graph(k)
  <2>1. level[k] + 1 <= Below(i)
    BY <1>8 DEF above
  <2> QED
    BY <1>3, <1>9, <2>1
<1> QED
  BY <1>1, <1>2, <1>9, <1>10 DEF i, M

\* The inputs stay what they are, and with them who waits for itself.
LEMMA InputStays ==
  ASSUME [Next]_vars
  PROVE  /\ needs' = needs /\ joins' = joins /\ asked' = asked
         /\ BothEdges' = BothEdges
         /\ \A i : Waits(i)' <=> Waits(i)
         /\ Acyclic(BothEdges)' <=> Acyclic(BothEdges)
<1>1. needs' = needs /\ joins' = joins /\ asked' = asked
  BY DEF Next, Settle, Sort, Bring, AfterSettled, BeforeSettled, SettleAfter, SettleBefore,
         Emit, NewPass, AppendRest, FirstStarted, TargetStarted, SecondStarted, SetLevel,
         vars, input
<1>2. BothEdges' = BothEdges
  BY <1>1 DEF BothEdges
<1> QED
  BY <1>1, <1>2 DEF Waits, Acyclic

----------------------------------------------------------------------------
(* Each part of the invariant is kept *)

LEMMA TypePreserved ==
  ASSUME TypeOK, SortInv, LevelInv, [Next]_vars
  PROVE  TypeOK'
<1>0. N \in Nat /\ 1 \in 1 .. N + 1 /\ <<>> \in Seq(Deps) /\ Deps \in SUBSET All
  BY InputTypes
<1> USE <1>0, InputStays DEF TypeOK
<1>1. CASE AfterSettled
  BY <1>1 DEF AfterSettled, input, Steps
<1>2. CASE BeforeSettled
  BY <1>2 DEF BeforeSettled, Orders, input, Steps
<1>3. ASSUME NEW i \in Deps, SettleAfter(i) PROVE TypeOK'
  BY <1>3 DEF SettleAfter, input
<1>4. ASSUME NEW i \in Deps, SettleBefore(i) PROVE TypeOK'
  BY <1>4 DEF SettleBefore, input
<1>5. CASE Emit
  <2>1. PICK i \in Deps : order' = Append(order, i) /\ cursor' = i + 1
    BY <1>5, EmitFacts
  <2>2. order' \in Seq(Deps) /\ cursor' \in 1 .. N + 1
    BY <2>1 DEF Deps
  <2> QED
    BY <1>5, <2>2 DEF Emit, input
<1>6. CASE NewPass
  BY <1>6 DEF NewPass, input
<1>7. CASE AppendRest
  <2>1. PICK i \in Deps : order' = Append(order, i)
    BY <1>7, RestFacts
  <2>2. order' \in Seq(Deps)
    BY <2>1
  <2> QED
    BY <1>7, <2>2 DEF AppendRest, input
<1>8. CASE FirstStarted
  <2>1. started' \in Seq(All)
    BY <1>8, SeqMonotonic, InputTypes DEF FirstStarted
  <2> QED
    BY <1>8, <2>1 DEF FirstStarted, input, Steps
<1>9. CASE TargetStarted
  <2>1. started' \in Seq(All) /\ Deps \ before \in SUBSET Deps
    BY <1>9, InputTypes DEF TargetStarted
  <2> QED
    BY <1>9, <2>1 DEF TargetStarted, Orders, input, Steps
<1>10. CASE SecondStarted
  <2>1. order \in Seq(All)
    BY <1>10, SeqMonotonic, InputTypes DEF SecondStarted
  <2>2. started' \in Seq(All)
    BY <1>10, <2>1 DEF SecondStarted
  <2> QED
    BY <1>10, <2>2 DEF SecondStarted, input, Steps
<1>11. CASE SetLevel
  <2>1. CASE order = <<>>
    BY <1>11, <2>1 DEF SetLevel, input, Steps
  <2>2. CASE order # <<>>
    <3>1. PICK i \in Deps :
            /\ order' = SubSeq(order, 1, Len(order) - 1)
            /\ part' = part \ {i} /\ pc' = pc
            /\ level' = [level EXCEPT ![i] = Below(i)]
            /\ Below(i) \in 0 .. N - Len(order) + 1
      BY <1>11, <2>2, LevelFacts
    <3>2. order' \in Seq(Deps) /\ Len(order) \in Nat \ {0}
      BY <2>2, <3>1, CutFacts DEF SortInv
    <3>3. Below(i) \in 0 .. N
      BY <3>1, <3>2
    <3> QED
      BY <1>11, <3>1, <3>2, <3>3 DEF SetLevel, input
  <2> QED
    BY <2>1, <2>2
<1>12. CASE UNCHANGED vars
  BY <1>12 DEF vars, input
<1> QED
  BY <1>1, <1>2, <1>3, <1>4, <1>5, <1>6, <1>7, <1>8, <1>9, <1>10, <1>11, <1>12
  DEF Next, Settle, Sort, Bring

LEMMA SettlePreserved ==
  ASSUME TypeOK, SettleInv, [Next]_vars
  PROVE  SettleInv'
<1> USE InputTypes, InputStays DEF TypeOK, SettleInv
<1>1. CASE AfterSettled
  BY <1>1 DEF AfterSettled, NewJoiners
<1>2. CASE BeforeSettled
  BY <1>2 DEF BeforeSettled, LateOwners
<1>3. ASSUME NEW i \in Deps, SettleAfter(i) PROVE SettleInv'
  BY <1>3 DEF SettleAfter, NewJoiners
<1>4. ASSUME NEW j \in Deps, SettleBefore(j) PROVE SettleInv'
  <2>1. PICK i \in before : j \in joins[i]
    BY <1>4 DEF SettleBefore, LateOwners
  <2>2. j \notin after
    BY <1>4, <2>1 DEF SettleBefore
  <2> QED
    BY <1>4, <2>2 DEF SettleBefore
<1>5. CASE Sort
  BY <1>5 DEF Sort, Emit, NewPass, AppendRest, Ordering
<1>6. CASE Bring
  BY <1>6 DEF Bring, FirstStarted, TargetStarted, SecondStarted, SetLevel
<1>7. CASE UNCHANGED vars
  BY <1>7 DEF vars
<1> QED
  BY <1>1, <1>2, <1>3, <1>4, <1>5, <1>6, <1>7 DEF Next, Settle

\* An order that begins is in order.
LEMMA SortBegins ==
  ASSUME TypeOK, [Next]_vars, NEW cs \in SUBSET Deps, Orders(cs)
  PROVE  SortInv'
<1>1. order' = <<>> /\ part' = cs /\ cursor' = 1 /\ progressed' = FALSE /\ DOMAIN order' = {}
  BY DEF Orders
<1>2. N = 0 => part' = {}
  BY <1>1 DEF Deps
<1> QED
  BY <1>1, <1>2, InputTypes DEF SortInv, Distinct, Elements

\* Steps that leave the order alone.
LEMMA SortStays ==
  ASSUME TypeOK, SortInv, [Next]_vars, UNCHANGED <<part, order>>,
         UNCHANGED <<cursor, progressed>> \/ (cursor' = 1 /\ progressed' = FALSE)
  PROVE  SortInv'
<1>1. /\ Elements(order)' = Elements(order) /\ (Distinct(order)' <=> Distinct(order))
      /\ \A k : Graph(k)' = Graph(k)
      /\ \A j, k : Earlier(order, j, k)' <=> Earlier(order, j, k)
      /\ \A k : Waits(k)' <=> Waits(k)
      /\ part' = part /\ N \in Nat
  BY InputStays, InputTypes DEF Elements, Distinct, Graph, Earlier
<1>2. N = 0 => part = {}
  BY InputTypes DEF TypeOK, Deps
<1>3. Distinct(order)' /\ Elements(order)' \subseteq part'
  BY <1>1 DEF SortInv
<1>4. \A i \in Elements(order)' :
        Waits(i)' \/ \A j \in Graph(i)' : Earlier(order, j, i)'
  BY <1>1 DEF SortInv
<1>5. (~progressed => cursor \in {1, N + 1})'
  BY <1>1 DEF SortInv
<1>6. (~progressed /\ cursor = N + 1 => \A i \in part \ Elements(order) : Waits(i))'
  BY <1>1, <1>2 DEF SortInv
<1> QED
  BY <1>3, <1>4, <1>5, <1>6 DEF SortInv

LEMMA SortPreserved ==
  ASSUME TypeOK, SortInv, LevelInv, [Next]_vars
  PROVE  SortInv'
<1>1. CASE AfterSettled
  BY <1>1, SortStays DEF AfterSettled
<1>2. CASE BeforeSettled
  BY <1>2, SortBegins DEF BeforeSettled, TypeOK
<1>3. ASSUME NEW i \in Deps, SettleAfter(i) \/ SettleBefore(i) PROVE SortInv'
  BY <1>3, SortStays DEF SettleAfter, SettleBefore
<1> USE InputTypes, InputStays DEF TypeOK, SortInv
<1>4. CASE Emit
  <2>1. PICK i \in part \ Elements(order) :
          Ready(i) /\ i \in Deps /\ order' = Append(order, i) /\ cursor' = i + 1
    BY <1>4, EmitFacts
  <2>2. /\ Distinct(order') /\ Elements(order') = Elements(order) \cup {i}
        /\ \A f, g : Earlier(order, f, g) => Earlier(order', f, g)
        /\ \A f \in Elements(order) : Earlier(order', f, i)
    BY <2>1, AppendFacts
  <2>3. part' = part /\ progressed' /\ \A k : Graph(k)' = Graph(k)
    BY <1>4 DEF Emit, Graph
  <2>4. Distinct(order)' /\ Elements(order)' \subseteq part'
    BY <2>1, <2>2, <2>3 DEF Distinct, Elements
  <2>5. ASSUME NEW k \in Elements(order)', ~Waits(k), NEW j \in Graph(k)'
        PROVE  Earlier(order', j, k)
    <3>1. k \in Elements(order) \/ k = i
      BY <2>2 DEF Elements
    <3> QED
      BY <2>1, <2>2, <2>3, <2>5, <3>1 DEF Ready
  <2> QED
    BY <2>3, <2>4, <2>5 DEF Earlier
<1>5. CASE NewPass
  BY <1>5, SortStays DEF NewPass
<1>6. CASE AppendRest
  <2>1. PICK i \in part \ Elements(order) :
          Waits(i) /\ i \in Deps /\ order' = Append(order, i)
    BY <1>6, RestFacts
  <2>2. /\ Distinct(order') /\ Elements(order') = Elements(order) \cup {i}
        /\ \A f, g : Earlier(order, f, g) => Earlier(order', f, g)
    BY <2>1, AppendFacts
  <2>3. /\ part' = part /\ progressed' = progressed /\ ~progressed
        /\ cursor' = N + 1 /\ \A k : Graph(k)' = Graph(k)
    BY <1>6 DEF AppendRest, Graph
  <2>4. Distinct(order)' /\ Elements(order)' \subseteq part'
    BY <2>1, <2>2, <2>3 DEF Distinct, Elements
  <2>5. ASSUME NEW k \in Elements(order)', ~Waits(k), NEW j \in Graph(k)'
        PROVE  Earlier(order', j, k)
    <3>1. k \in Elements(order)
      BY <2>1, <2>2, <2>5 DEF Elements
    <3> QED
      BY <2>2, <2>3, <2>5, <3>1
  <2>6. \A k \in part' \ Elements(order)' : Waits(k)
    BY <1>6, <2>2, <2>3, RestFacts DEF Elements
  <2> QED
    BY <2>3, <2>4, <2>5, <2>6 DEF Earlier
<1>7. CASE FirstStarted \/ SecondStarted
  BY <1>7, SortStays DEF FirstStarted, SecondStarted
<1>8. CASE TargetStarted
  BY <1>8, SortBegins DEF TargetStarted
<1>9. CASE SetLevel
  <2>1. CASE order = <<>>
    BY <1>9, <2>1, SortStays DEF SetLevel
  <2>2. CASE order # <<>>
    <3>1. PICK i \in Deps :
            /\ i = order[Len(order)]
            /\ order' = SubSeq(order, 1, Len(order) - 1) /\ part' = part \ {i}
      BY <1>9, <2>2, LevelFacts
    <3>2. /\ Distinct(order') /\ Elements(order') = Elements(order) \ {i}
          /\ \A f, g : Earlier(order, f, g) /\ g # i => Earlier(order', f, g)
      BY <2>2, <3>1, CutFacts
    <3>3. part' = Elements(order') /\ cursor' = cursor /\ progressed' = progressed
      BY <1>9, <3>1, <3>2 DEF SetLevel
    <3>4. Distinct(order)' /\ Elements(order)' = part'
      BY <3>2, <3>3 DEF Distinct, Elements
    <3>5. ASSUME NEW k \in Elements(order)', ~Waits(k), NEW j \in Graph(k)'
          PROVE  Earlier(order', j, k)
      <4>1. k \in Elements(order) /\ k # i /\ j \in Graph(k)
        BY <3>1, <3>2, <3>5 DEF Elements, Graph
      <4> QED
        BY <3>2, <3>5, <4>1
    <3> QED
      BY <3>3, <3>4, <3>5 DEF Earlier
  <2> QED
    BY <2>1, <2>2
<1>10. CASE UNCHANGED vars
  BY <1>10, SortStays DEF vars
<1> QED
  BY <1>1, <1>2, <1>3, <1>4, <1>5, <1>6, <1>7, <1>8, <1>9, <1>10
  DEF Next, Settle, Sort, Bring

\* Steps that start nothing.
LEMMA StartStays ==
  ASSUME TypeOK, SettleInv, StartInv, [Next]_vars, UNCHANGED started,
         pc \notin {"settleAfter", "settleBefore"} => UNCHANGED <<part, before>>,
         pc' # pc => /\ pc' \in {"settleBefore", "levels"} \/ (pc = "levels" /\ pc' = "done")
                       \/ (pc' = "first" /\ part' = before')
                     /\ started = <<>>,
         pc \in {"settleAfter", "settleBefore"} /\ pc' = pc => UNCHANGED part
  PROVE  StartInv'
<1>1. /\ (Distinct(started)' <=> Distinct(started))
      /\ Elements(started)' = Elements(started)
      /\ \A f, g : Earlier(started, f, g)' <=> Earlier(started, f, g)
      /\ \A k : Waits(k)' <=> Waits(k)
      /\ needs' = needs /\ joins' = joins
  BY InputStays DEF Elements, Distinct, Earlier
<1>2. CASE started = <<>>
  <2>1. ~Restarted' /\ Elements(started)' = {}
    BY <1>1, <1>2 DEF Restarted, Elements
  <2> QED
    BY <1>1, <1>2, <2>1 DEF StartInv, InOrder
<1>3. CASE started # <<>>
  <2>1. /\ pc \in {"target", "second", "done"} /\ pc' = pc /\ before' = before
        /\ part' = part /\ (Restarted' <=> Restarted)
    BY <1>3 DEF StartInv, Restarted
  <2> QED
    BY <1>1, <1>3, <2>1 DEF StartInv, InOrder
<1> QED
  BY <1>2, <1>3

\* Both parts and the target between them are started in order.
LEMMA StartPreserved ==
  ASSUME TypeOK, SettleInv, SortInv, StartInv, [Next]_vars
  PROVE  StartInv'
<1>1. CASE Settle
  BY <1>1, StartStays DEF Settle, AfterSettled, BeforeSettled, SettleAfter, SettleBefore,
                          Orders, StartInv
<1>2. CASE Sort
  BY <1>2, StartStays DEF Sort, Emit, NewPass, AppendRest, Ordering
<1>3. CASE SetLevel
  <2>1. /\ UNCHANGED <<started, before>> /\ pc = "levels" /\ pc' \in {"levels", "done"}
        /\ started = <<>>
    BY <1>3 DEF SetLevel, StartInv
  <2>2. ~Restarted' /\ (Distinct(started)' <=> Distinct(started))
    BY <2>1 DEF Restarted, Distinct
  <2> QED
    BY <2>1, <2>2 DEF StartInv
<1>4. CASE FirstStarted
  <2>1. /\ pc = "first" /\ pc' = "target" /\ started' = order /\ part = before
        /\ Elements(order) = before /\ before' = before
    BY <1>4 DEF FirstStarted, StartInv
  <2>2. \A i \in before : InOrder(i, before)'
    BY <2>1, InputStays DEF SortInv, InOrder, Graph, Earlier
  <2> QED
    BY <2>1, <2>2 DEF StartInv, SortInv, Restarted, Distinct, Elements
<1>5. CASE TargetStarted
  <2>1. /\ pc = "target" /\ pc' = "second" /\ started' = Append(started, Target)
        /\ Elements(started) = before /\ before' = before /\ part' = Deps \ before
        /\ Target \notin before /\ started \in Seq(All) /\ Target \in All
    BY <1>5, InputTypes DEF TargetStarted, StartInv, Orders, TypeOK
  <2>2. /\ Distinct(started') /\ Elements(started') = before \cup {Target}
        /\ \A f, g : Earlier(started, f, g) => Earlier(started', f, g)
    BY <2>1, AppendFacts DEF StartInv
  <2>3. \A i \in before : InOrder(i, before)'
    BY <2>1, <2>2, InputStays DEF StartInv, InOrder, Earlier
  <2>4. Distinct(started)' /\ Elements(started)' = before' \cup {Target}
    BY <2>1, <2>2 DEF Distinct, Elements
  <2> QED
    BY <2>1, <2>3, <2>4 DEF StartInv, Restarted
<1>6. CASE SecondStarted
  <2>1. /\ pc = "second" /\ pc' = "done" /\ started' = started \o order
        /\ part = Deps \ before /\ Elements(order) = part /\ before' = before
        /\ Elements(started) = before \cup {Target}
    BY <1>6 DEF SecondStarted, StartInv
  <2>2. started \in Seq(All) /\ order \in Seq(All) /\ before \in SUBSET Deps
    BY InputTypes, SeqMonotonic DEF TypeOK
  <2>3. Elements(started) \cap Elements(order) = {}
    BY <2>1, <2>2, InputTypes
  <2>4. /\ Distinct(started') /\ Elements(started') = All
        /\ \A f, g : Earlier(started, f, g) \/ Earlier(order, f, g) => Earlier(started', f, g)
        /\ \A f \in before \cup {Target}, g \in Deps \ before : Earlier(started', f, g)
    <3>1. Elements(started \o order) = All
      BY <2>1, <2>2, ConcatFacts, InputTypes DEF All
    <3> QED
      BY <2>1, <2>2, <2>3, <3>1, ConcatFacts DEF StartInv, SortInv
  <2>5. \A i \in before : InOrder(i, before)'
    BY <2>1, <2>4, InputStays DEF StartInv, InOrder, Earlier
  <2>6. \A i \in Deps \ before : InOrder(i, Deps \ before)'
    <3>1. ASSUME NEW i \in Deps \ before, ~Waits(i),
                 NEW j \in (needs[i] \cup joins[i]) \cap (Deps \ before)
          PROVE  Earlier(started', j, i)
      <4>1. j \in Graph(i) /\ i \in Elements(order)
        BY <2>1, <3>1 DEF Graph
      <4>2. Earlier(order, j, i)
        BY <3>1, <4>1 DEF SortInv
      <4> QED
        BY <2>4, <4>2
    <3> QED
      BY <2>1, <3>1, InputStays DEF InOrder, Earlier
  <2>7. Distinct(started)' /\ Elements(started)' = All
    BY <2>4 DEF Distinct, Elements
  <2> QED
    BY <2>1, <2>4, <2>5, <2>6, <2>7 DEF StartInv, Earlier
<1>7. CASE UNCHANGED vars
  BY <1>7, StartStays DEF vars
<1> QED
  BY <1>1, <1>2, <1>3, <1>4, <1>5, <1>6, <1>7 DEF Next, Bring

\* No more is emitted than there are containers.
LEMMA OrderIsShort ==
  ASSUME NEW s \in Seq(Deps), Distinct(s)
  PROVE  Len(s) \in 0 .. N
<1>1. N \in Nat /\ Elements(s) \subseteq Deps /\ Len(s) \in Nat
  BY InputsAssumption DEF Elements
<1>2. IsFiniteSet(Deps) /\ Cardinality(Deps) = N
  BY <1>1, FS_Interval DEF Deps
<1>3. Cardinality(Elements(s)) <= N
  BY <1>1, <1>2, FS_Subset
<1> QED
  BY <1>1, <1>3, DistinctLength

\* A container gets its level after all that need it, and one below theirs.
LEMMA LevelPreserved ==
  ASSUME TypeOK, SortInv, SortInv', TypeOK', StartInv, LevelInv, [Next]_vars
  PROVE  LevelInv'
<1> USE InputTypes, InputStays
<1>0. Len(order) \in 0 .. N /\ Len(order') \in 0 .. N
  <2>1. order \in Seq(Deps) /\ Distinct(order) /\ order' \in Seq(Deps) /\ Distinct(order')
    BY DEF TypeOK, SortInv, Distinct
  <2> QED
    BY <2>1, OrderIsShort
<1>1. CASE AfterSettled \/ \E i \in Deps : SettleAfter(i) \/ SettleBefore(i)
  BY <1>1 DEF AfterSettled, SettleAfter, SettleBefore, LevelInv, Stopping
<1>2. CASE BeforeSettled
  <2>1. /\ pc = "settleBefore" /\ UNCHANGED <<level, started>> /\ order' = <<>>
        /\ pc' = "first" \/ (pc' = "levels" /\ part' = Deps)
    BY <1>2 DEF BeforeSettled, Orders
  <2>2. \A i \in Deps : level[i] = 0
    BY <2>1 DEF LevelInv
  <2>3. Deps \ Deps = {} /\ Len(order') <= N
    BY <1>0
  <2> QED
    BY <1>0, <2>1, <2>2, <2>3 DEF LevelInv, Stopping
<1>3. CASE Sort
  <2>1. /\ pc \in {"first", "second", "levels"} /\ pc' = pc
        /\ Elements(order) # part /\ UNCHANGED <<part, level, started>>
    BY <1>3 DEF Sort, Emit, NewPass, AppendRest, Ordering
  <2>2. \A i \in Deps : level[i] = 0
    BY <2>1 DEF LevelInv
  <2> QED
    BY <1>0, <2>1, <2>2 DEF LevelInv, Stopping
<1>4. CASE FirstStarted \/ TargetStarted \/ SecondStarted
  <2>1. /\ pc \in {"first", "target", "second"} /\ pc' \in {"target", "second", "done"}
        /\ UNCHANGED level
        /\ pc' = "done" => started' # <<>>
    <3>1. CASE SecondStarted
      <4>1. started # <<>>
        BY <3>1 DEF SecondStarted, StartInv, Elements
      <4>2. started' # <<>>
        BY <3>1, <4>1 DEF SecondStarted, TypeOK
      <4> QED
        BY <3>1, <4>2 DEF SecondStarted
    <3> QED
      BY <1>4, <3>1 DEF FirstStarted, TargetStarted
  <2> QED
    BY <2>1 DEF LevelInv, Stopping
<1>5. CASE SetLevel
  <2>1. CASE order = <<>>
    BY <1>5, <2>1 DEF SetLevel, LevelInv, Stopping, Elements
  <2>2. CASE order # <<>>
    <3>1. PICK i \in Deps :
            /\ i = order[Len(order)] /\ i \in part
            /\ order' = SubSeq(order, 1, Len(order) - 1)
            /\ part' = part \ {i} /\ pc' = pc
            /\ level' = [level EXCEPT ![i] = Below(i)]
            /\ Below(i) \in 0 .. N - Len(order) + 1
            /\ \A k \in Deps : i \in Graph(k) => level[k] < Below(i)
      BY <1>5, <2>2, LevelFacts
    <3>2. /\ pc = "levels" /\ Elements(order) = part /\ started' = started
          /\ Elements(order') = part' /\ Len(order') = Len(order) - 1
          /\ \A f, g : Earlier(order, f, g) => f # i
      <4>1. order \in Seq(Deps) /\ Distinct(order)
        BY DEF TypeOK, SortInv
      <4> QED
        BY <1>5, <2>2, <3>1, <4>1, CutFacts DEF SetLevel
    <3>3. \A k \in Deps : level'[k] <= N - Len(order')
      <4>1. \A k \in Deps : level[k] \in Nat /\ level[k] <= N - Len(order)
        BY <3>2 DEF LevelInv, TypeOK
      <4>2. \A k \in Deps : level'[k] = IF k = i THEN Below(i) ELSE level[k]
        BY <3>1 DEF TypeOK
      <4>3. N \in Nat /\ Len(order) \in Nat
        BY <1>0
      <4>4. Below(i) <= N - Len(order')
        BY <3>1, <3>2, <4>3
      <4>5. \A k \in Deps : level[k] <= N - Len(order')
        BY <3>2, <4>1, <4>3
      <4> QED
        BY <4>2, <4>4, <4>5
    <3>4. ASSUME Acyclic(BothEdges), NEW j \in Deps \ part', NEW k \in Deps, j \in BothEdges[k]
          PROVE  k \notin part' /\ level'[k] < level'[j]
      <4>1. CASE j = i
        <5>1. k \notin part
          <6> SUFFICES ASSUME k \in part PROVE FALSE
            OBVIOUS
          <6>1. ~Waits(k)
            BY <3>4 DEF Waits, Acyclic
          <6>2. i \in Graph(k)
            BY <3>1, <3>4, <4>1
          <6>3. Earlier(order, i, k)
            BY <3>2, <6>1, <6>2 DEF SortInv
          <6> QED
            BY <3>2, <6>3
        <5>2. k # i /\ level'[k] = level[k] /\ level'[j] = Below(i)
          BY <3>1, <4>1, <5>1 DEF TypeOK
        <5> QED
          BY <3>1, <3>4, <4>1, <5>1, <5>2
      <4>2. CASE j # i
        <5>1. j \in Deps \ part
          BY <3>1, <3>4, <4>2
        <5>2. k \notin part /\ level[k] < level[j]
          BY <3>2, <3>4, <5>1 DEF LevelInv, Stopping
        <5> QED
          BY <3>1, <4>2, <5>2 DEF TypeOK
      <4> QED
        BY <4>1, <4>2
    <3> QED
      BY <3>1, <3>2, <3>3, <3>4 DEF LevelInv, Stopping, Elements
  <2> QED
    BY <2>1, <2>2
<1>6. CASE UNCHANGED vars
  BY <1>6 DEF vars, LevelInv, Stopping, Elements
<1> QED
  BY <1>1, <1>2, <1>3, <1>4, <1>5, <1>6 DEF Next, Settle, Bring

----------------------------------------------------------------------------
(* What follows for the order *)

LEMMA InitHolds == Init => IInv
<1> SUFFICES ASSUME Init PROVE IInv
  OBVIOUS
<1>1. TypeOK
  <2>1. N \in Nat /\ 1 \in 1 .. N + 1 /\ 0 \in 0 .. N /\ {Target} \in SUBSET All
    BY InputsAssumption DEF All
  <2>2. <<>> \in Seq(Deps) /\ <<>> \in Seq(All)
    OBVIOUS
  <2> QED
    BY <2>1, <2>2 DEF Init, TypeOK, Steps
<1>2. SettleInv
  BY InputsAssumption DEF Init, SettleInv, Target, Deps
<1>3. SortInv
  <2>1. N = 0 => part = {}
    BY DEF Init
  <2> QED
    BY <2>1 DEF Init, SortInv, Distinct, Elements
<1>4. StartInv
  BY DEF Init, StartInv, Distinct, Restarted
<1>5. LevelInv
  BY DEF Init, LevelInv, Stopping
<1> QED
  BY <1>1, <1>2, <1>3, <1>4, <1>5 DEF IInv

LEMMA IInvHolds == Spec => []IInv
<1>1. IInv /\ [Next]_vars => IInv'
  BY TypePreserved, SettlePreserved, SortPreserved, StartPreserved, LevelPreserved DEF IInv
<1> QED
  BY <1>1, InitHolds, PTL DEF Spec

\* The types of the sort, the two parts and the levels, for any list of
\* containers; the levels are as many as there are containers at most.
THEOREM TypeCorrect == Spec => []TypeOK
<1>1. IInv => TypeOK
  BY DEF IInv
<1> QED
  BY <1>1, IInvHolds, PTL

\* Every container that was stopped, and the target, is tried exactly once,
\* whatever the labels say, cycles included (splitAroundTarget, StartOrder).
THEOREM EachIsStartedOnce == Spec => []EachOnce
<1>1. ASSUME IInv, Restarted PROVE Elements(started) = All /\ Len(started) = N + 1
  <2>1. /\ Elements(started) = All /\ Distinct(started) /\ started \in Seq(All)
        /\ N \in Nat /\ All = 0 .. N
    BY <1>1, InputTypes DEF IInv, StartInv, TypeOK
  <2>2. Cardinality(0 .. N) = N + 1
    BY <2>1, FS_Interval
  <2> QED
    BY <2>1, <2>2, DistinctLength
<1>2. IInv => EachOnce
  BY <1>1 DEF EachOnce
<1> QED
  BY <1>2, IInvHolds, PTL

\* A container comes after everything whose namespace it joins, the target among
\* them, if nothing waits for itself (settleAroundTarget, composeIdentity).
THEOREM OwnersGoFirst == Spec => []OwnersFirst
<1>1. ASSUME IInv, Restarted, Acyclic(BothEdges), NEW i \in Deps, NEW o \in joins[i]
      PROVE  StartsEarlier(o, i)
  <2>1. ~Waits(i)
    BY <1>1 DEF Waits, Acyclic
  <2>2. o \in All /\ All = Deps \cup {Target} /\ Target \notin Deps
    BY <1>1, InputTypes DEF IInv, All
  <2>3. Earlier(started, o, i)
    <3>1. CASE i \in before
      <4>1. o # Target
        BY <1>1, <3>1 DEF IInv, SettleInv, Restarted
      <4>2. o \in before
        BY <1>1, <2>2, <3>1, <4>1 DEF IInv, SettleInv, Restarted
      <4> QED
        BY <1>1, <2>1, <3>1, <4>2 DEF IInv, StartInv, InOrder
    <3>2. CASE i \notin before /\ o \in before \cup {Target}
      BY <1>1, <3>2 DEF IInv, StartInv
    <3>3. CASE i \notin before /\ o \notin before \cup {Target}
      BY <1>1, <2>1, <2>2, <3>3 DEF IInv, StartInv, InOrder
    <3> QED
      BY <3>1, <3>2, <3>3
  <2> QED
    BY <2>3 DEF Earlier, StartsEarlier
<1>2. IInv => OwnersFirst
  BY <1>1 DEF OwnersFirst
<1> QED
  BY <1>2, IInvHolds, PTL

\* On either side of the target depends_on is respected, but in a cycle and for
\* what waits for one (StartOrder).
THEOREM NeedsGoFirstPerSide == Spec => []NeedsFirstPerSide
<1>1. ASSUME IInv, Restarted, NEW i \in Deps, NEW j \in needs[i], ~Waits(i),
             (i \in before) = (j \in before)
      PROVE  StartsEarlier(j, i)
  <2>1. j \in Deps
    BY <1>1, InputTypes DEF IInv
  <2>2. Earlier(started, j, i)
    <3>1. CASE i \in before
      BY <1>1, <3>1 DEF IInv, StartInv, InOrder
    <3>2. CASE i \notin before
      BY <1>1, <2>1, <3>2 DEF IInv, StartInv, InOrder
    <3> QED
      BY <3>1, <3>2
  <2> QED
    BY <2>2 DEF Earlier, StartsEarlier
<1>2. IInv => NeedsFirstPerSide
  BY <1>1 DEF NeedsFirstPerSide, Waits
<1> QED
  BY <1>2, IInvHolds, PTL

\* A container is stopped in a later level than all that need it, if nothing
\* waits for itself (StopLevels).
THEOREM LevelsGoDependentsFirst == Spec => []LevelsDependentsFirst
<1>1. ASSUME IInv, pc = "done", started = <<>>, Acyclic(BothEdges),
             NEW i \in Deps, NEW j \in BothEdges[i]
      PROVE  level[i] < level[j]
  <2>1. j \in Deps \ part
    BY <1>1, InputTypes DEF IInv, LevelInv, Stopping
  <2> QED
    BY <1>1, <2>1 DEF IInv, LevelInv, Stopping
<1>2. IInv => LevelsDependentsFirst
  BY <1>1 DEF LevelsDependentsFirst
<1> QED
  BY <1>2, IInvHolds, PTL

=============================================================================
