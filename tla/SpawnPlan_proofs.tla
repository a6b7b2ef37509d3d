-------------------------- MODULE SpawnPlan_proofs --------------------------
(***************************************************************************)
(* What holds of SpawnPlan for every set of organisations, units and       *)
(* models and every demand and capacity: launches never take capacity or   *)
(* demand that is not there, organisations that can be served are served   *)
(* in turns, and a plan below its budget leaves nothing that would fit.    *)
(*                                                                         *)
(* The two invariants speak of the round the loop is in.  RoundInv: there  *)
(* is a number of finished rounds that every organisation has a launch     *)
(* for, unless nothing of its work fits any more.  LeftInv: in a round     *)
(* that brought nothing yet, those whose turn is over had nothing to fit.  *)
(***************************************************************************)
EXTENDS SpawnPlan, FiniteSetTheorems, TLAPS

\* Whether organisation o has had its turn of the round.
Turns(o) == IF o \in loop.left THEN 0 ELSE 1

RoundInv ==
  \E r \in Nat : \A o \in loop.members :
    /\ plan[o] <= r + Turns(o)
    /\ Eligible(o) # {} => plan[o] = r + Turns(o)

\* Without a plan in progress, none has been begun.
IdleInv == ~loop.running => plan = [o \in Orgs |-> 0] /\ loop.members = {}

LeftInv ==
  loop.running =>
    /\ \A o \in Orgs \ loop.members : Eligible(o) = {}
    /\ ~loop.progressed => \A o \in loop.members \ loop.left : Eligible(o) = {}

PlanInv == TypeOK /\ RoundInv /\ IdleInv /\ LeftInv

-----------------------------------------------------------------------------
(* Lemmas on the helpers.                                                  *)

\* An index is a number, and a set of members is finite.
LEMMA RankType == \A S \in SUBSET Orgs : \A x \in Orgs : Rank(S, x) \in Nat
<1> SUFFICES ASSUME NEW S \in SUBSET Orgs, NEW x \in Orgs PROVE Rank(S, x) \in Nat
  OBVIOUS
<1> QED
  BY FS_Subset, FS_CardinalityType, SpawnPlanAssumption DEF Rank

\* Whoever has a member can be counted modulo their number.
LEMMA ModuloMembers ==
  ASSUME NEW S \in SUBSET Orgs, S # {}, NEW n \in Nat
  PROVE  n % Cardinality(S) \in Nat
<1>1. Cardinality(S) \in Nat /\ Cardinality(S) # 0
  BY FS_Subset, FS_CardinalityType, FS_EmptySet, SpawnPlanAssumption
<1> QED
  BY <1>1

\* What is picked is eligible.
LEMMA PickedIsEligible ==
  ASSUME NEW o, NEW u, IsPicked(o, u) PROVE u \in Eligible(o)
  BY DEF IsPicked, Candidates

\* A launch finds the demand and the capacity that it takes.
LEMMA LaunchFinds ==
  ASSUME TypeOK, NEW o \in Orgs, NEW u \in Units, Launch(o, u)
  PROVE  /\ queued[o][u] \in 1..MaxQueued
         /\ free[ModelOf[u]] \in 1..MaxFree
         /\ LaneOf[u] \in Lanes => laneFree[LaneOf[u]] \in 1..MaxFree
         /\ ModelOf[u] \in Models
<1>1. u \in Eligible(o)
  BY PickedIsEligible DEF Launch
<1>2. /\ queued[o][u] \in 0..MaxQueued /\ ModelOf[u] \in Models
      /\ free[ModelOf[u]] \in 0..MaxFree
      /\ LaneOf[u] \in Lanes => laneFree[LaneOf[u]] \in 0..MaxFree
  BY SpawnPlanAssumption DEF TypeOK
<1>3. MaxQueued \in Nat /\ MaxFree \in Nat
  BY SpawnPlanAssumption
<1> QED
  BY <1>1, <1>2, <1>3 DEF Eligible

\* Counting one down keeps a table's type.
LEMMA CountDown ==
  ASSUME NEW D, NEW n \in Nat, NEW f \in [D -> 0..n], NEW d \in D, f[d] \in 1..n
  PROVE  [f EXCEPT ![d] = @ - 1] \in [D -> 0..n]
  OBVIOUS

-----------------------------------------------------------------------------
(* Types.                                                                  *)

\* No initial state lacks a type.
LEMMA InitType == Init => TypeOK
<1> SUFFICES ASSUME Init PROVE TypeOK
  OBVIOUS
<1>1. cursors \in Cursors
  BY DEF Init, Cursors
<1>2. loop \in Loop /\ loop.left \subseteq loop.members
  BY SpawnPlanAssumption DEF Init, Idle, Loop
<1> QED
  BY <1>1, <1>2, SpawnPlanAssumption DEF Init, TypeOK, NoDemand

\* The cursors of a launch are in their ranges.
LEMMA LaunchCursors ==
  ASSUME TypeOK, NEW o \in Orgs, NEW u \in Units, Launch(o, u)
  PROVE  cursors' \in Cursors
<1> DEFINE c == Class(u)
           k == cursors.class[o]
<1>1. /\ cursors.turn \in [Orgs -> 0..3]
      /\ cursors.class \in [Orgs -> [BOOLEAN -> Nat]]
      /\ k \in [BOOLEAN -> Nat] /\ c \in BOOLEAN
  BY DEF TypeOK, Cursors, Class
<1>2. (cursors.turn[o] + 1) % 4 \in 0..3
  BY <1>1
<1>3. (k[c] + 1) % Cycle[c] \in Nat
  BY <1>1, SpawnPlanAssumption
<1>4. Rank(loop.members, o) + 1 \in Nat
  BY RankType DEF TypeOK, Loop
<1>5. cursors' = [offset |-> Rank(loop.members, o) + 1,
                  turn   |-> [cursors.turn EXCEPT ![o] = (cursors.turn[o] + 1) % 4],
                  class  |-> [cursors.class EXCEPT
                                ![o] = [k EXCEPT ![c] = (k[c] + 1) % Cycle[c]]]]
  BY DEF Launch
<1> HIDE DEF c, k
<1>6. [k EXCEPT ![c] = (k[c] + 1) % Cycle[c]] \in [BOOLEAN -> Nat]
  BY <1>1, <1>3
<1> QED
  BY <1>1, <1>2, <1>4, <1>5, <1>6 DEF Cursors

\* Every step keeps the types.
LEMMA TypeStep == TypeOK /\ [Next]_vars => TypeOK'
<1> SUFFICES ASSUME TypeOK, [Next]_vars PROVE TypeOK'
  OBVIOUS
<1>0. MaxWorkers \in Nat \ {0} /\ MaxQueued \in Nat /\ MaxFree \in Nat
  BY SpawnPlanAssumption
<1>1. CASE StartPlan
  <2> DEFINE members == {o \in Orgs : \E u \in Units : queued'[o][u] > 0}
  <2>1. /\ members # {} /\ members \in SUBSET Orgs
        /\ loop' = [running |-> TRUE, members |-> members,
                    offset |-> cursors.offset % Cardinality(members),
                    left |-> members, size |-> 0, progressed |-> FALSE]
        /\ queued' \in [Orgs -> [Units -> 0..MaxQueued]]
        /\ free' \in [Models -> 0..MaxFree] /\ laneFree' \in [Lanes -> 0..MaxFree]
        /\ cursors' = cursors /\ plan' = plan
    BY <1>1 DEF StartPlan
  <2> HIDE DEF members
  <2>2. cursors.offset \in Nat
    BY DEF TypeOK, Cursors
  <2>3. cursors.offset % Cardinality(members) \in Nat
    BY <2>1, <2>2, ModuloMembers
  <2>4. loop' \in Loop /\ loop'.left \subseteq loop'.members
    BY <1>0, <2>1, <2>3 DEF Loop
  <2> QED
    BY <2>1, <2>4 DEF TypeOK
<1>2. ASSUME NEW o \in Orgs, NEW u \in Units, Launch(o, u) PROVE TypeOK'
  <2>1. queued' \in [Orgs -> [Units -> 0..MaxQueued]]
    <3>1. [queued[o] EXCEPT ![u] = @ - 1] \in [Units -> 0..MaxQueued]
      BY <1>0, <1>2, LaunchFinds, CountDown DEF TypeOK
    <3>2. queued' = [queued EXCEPT ![o] = [queued[o] EXCEPT ![u] = @ - 1]]
      BY <1>2 DEF Launch, TypeOK
    <3> QED
      BY <3>1, <3>2 DEF TypeOK
  <2>2. free' \in [Models -> 0..MaxFree]
    <3>1. [free EXCEPT ![ModelOf[u]] = @ - 1] \in [Models -> 0..MaxFree]
      BY <1>0, <1>2, LaunchFinds, CountDown DEF TypeOK
    <3> QED
      BY <1>2, <3>1 DEF Launch
  <2>3. laneFree' \in [Lanes -> 0..MaxFree]
    <3>1. \A l \in Lanes : laneFree'[l] = IF l = LaneOf[u] THEN laneFree[l] - 1 ELSE laneFree[l]
      BY <1>2 DEF Launch
    <3>2. \A l \in Lanes : laneFree[l] \in 0..MaxFree
      BY DEF TypeOK
    <3>3. \A l \in Lanes : laneFree'[l] \in 0..MaxFree
      BY <1>0, <1>2, <3>1, <3>2, LaunchFinds
    <3> QED
      BY <1>2, <3>3 DEF Launch
  <2>4. plan' \in [Orgs -> Nat]
    BY <1>2 DEF Launch, TypeOK
  <2>5. loop' \in Loop /\ loop'.left \subseteq loop'.members
    <3>1. loop.size + 1 \in 0..MaxWorkers
      BY <1>0, <1>2 DEF Launch, IsNext, TypeOK, Loop
    <3>2. loop' = [[[loop EXCEPT !.left = loop.left \ {o}] EXCEPT !.size = loop.size + 1]
                   EXCEPT !.progressed = TRUE]
      BY <1>2, Zenon DEF Launch
    <3> QED
      BY <3>1, <3>2 DEF TypeOK, Loop
  <2> QED
    BY <1>2, <2>1, <2>2, <2>3, <2>4, <2>5, LaunchCursors DEF TypeOK
<1>3. ASSUME NEW o \in Orgs, Skip(o) PROVE TypeOK'
  BY <1>3 DEF Skip, TypeOK, Loop
<1>4. CASE NextRound
  BY <1>4 DEF NextRound, TypeOK, Loop
<1>5. CASE EndPlan
  <2>1. loop' \in Loop /\ loop'.left \subseteq loop'.members
    BY <1>0, <1>5 DEF EndPlan, Idle, Loop
  <2> QED
    BY <1>0, <1>5, <2>1 DEF EndPlan, NoDemand, TypeOK
<1>6. CASE UNCHANGED vars
  BY <1>6 DEF vars, TypeOK
<1> QED
  BY <1>1, <1>2, <1>3, <1>4, <1>5, <1>6 DEF Next

-----------------------------------------------------------------------------
(* The rounds.                                                             *)

\* A launch makes nothing fit that did not.
LEMMA LaunchShrinks ==
  ASSUME TypeOK, NEW o \in Orgs, NEW u \in Units, Launch(o, u), NEW p \in Orgs
  PROVE  Eligible(p)' \subseteq Eligible(p)
<1> SUFFICES ASSUME NEW x \in Units, x \in Eligible(p)' PROVE x \in Eligible(p)
  BY DEF Eligible
<1>1. queued'[p][x] > 0 => queued[p][x] > 0
  <2>1. /\ queued \in [Orgs -> [Units -> 0..MaxQueued]]
        /\ queued' = [queued EXCEPT ![o] = [queued[o] EXCEPT ![u] = queued[o][u] - 1]]
    BY DEF Launch, TypeOK
  <2>2. queued'[p][x] = queued[p][x] \/ queued'[p][x] = queued[p][x] - 1
    BY <2>1
  <2>3. queued[p][x] \in Nat
    BY <2>1, SpawnPlanAssumption
  <2> QED
    BY <2>2, <2>3
<1>2. \A m \in Models : free'[m] > 0 => free[m] > 0
  <2>1. \A m \in Models : free'[m] = free[m] \/ free'[m] = free[m] - 1
    BY DEF Launch, TypeOK
  <2>2. \A m \in Models : free[m] \in Nat
    BY SpawnPlanAssumption DEF TypeOK
  <2> QED
    BY <2>1, <2>2
<1>3. \A l \in Lanes : laneFree'[l] > 0 => laneFree[l] > 0
  <2>1. \A l \in Lanes : laneFree'[l] = laneFree[l] \/ laneFree'[l] = laneFree[l] - 1
    BY DEF Launch
  <2>2. \A l \in Lanes : laneFree[l] \in Nat
    BY SpawnPlanAssumption DEF TypeOK
  <2> QED
    BY <2>1, <2>2
<1> QED
  BY <1>1, <1>2, <1>3, SpawnPlanAssumption DEF Eligible

\* What a launch does to the loop and the counts.
LEMMA LaunchLoop ==
  ASSUME TypeOK, NEW o \in Orgs, NEW u \in Units, Launch(o, u)
  PROVE  /\ loop.running /\ o \in loop.left /\ o \in loop.members /\ Eligible(o) # {}
         /\ loop'.running = loop.running /\ loop'.members = loop.members
         /\ loop'.left = loop.left \ {o} /\ loop'.progressed
         /\ plan'[o] = plan[o] + 1 /\ \A p \in Orgs \ {o} : plan'[p] = plan[p]
<1>1. Eligible(o) # {}
  BY PickedIsEligible DEF Launch
<1>2. loop' = [[[loop EXCEPT !.left = loop.left \ {o}] EXCEPT !.size = loop.size + 1]
               EXCEPT !.progressed = TRUE]
  BY Zenon DEF Launch
<1>3. /\ loop'.running = loop.running /\ loop'.members = loop.members
      /\ loop'.left = loop.left \ {o} /\ loop'.progressed
  BY <1>2 DEF TypeOK, Loop
<1> QED
  BY <1>1, <1>3 DEF Launch, IsNext, TypeOK

\* A turn goes by; what fits stays as it is.
LEMMA SkipLoop ==
  ASSUME TypeOK, NEW o \in Orgs, Skip(o)
  PROVE  /\ loop.running /\ o \in loop.left /\ Eligible(o) = {}
         /\ loop'.running = loop.running /\ loop'.members = loop.members
         /\ loop'.left = loop.left \ {o} /\ loop'.progressed = loop.progressed
         /\ plan' = plan /\ \A p \in Orgs : Eligible(p)' = Eligible(p)
  BY DEF Skip, IsNext, Eligible, TypeOK, Loop

\* Every step keeps the rounds in order: a launch ends a turn, and a new round begins
\* when all turns are over.
LEMMA RoundStep ==
  ASSUME PlanInv, [Next]_vars PROVE RoundInv'
<1>0. TypeOK /\ loop.members \subseteq Orgs /\ \A o \in Orgs : plan[o] \in Nat
  BY DEF PlanInv, TypeOK, Loop
<1>r. PICK r \in Nat : \A o \in loop.members :
        /\ plan[o] <= r + Turns(o)
        /\ Eligible(o) # {} => plan[o] = r + Turns(o)
  BY DEF PlanInv, RoundInv
<1>1. CASE StartPlan
  <2>1. /\ plan' = [o \in Orgs |-> 0] /\ loop'.left = loop'.members
        /\ loop'.members \subseteq Orgs
    BY <1>1 DEF StartPlan, PlanInv, IdleInv
  <2>2. \A o \in loop'.members : plan'[o] = 0 + Turns(o)'
    BY <2>1 DEF Turns
  <2>3. 0 \in Nat /\ \A o \in loop'.members : plan'[o] <= 0 + Turns(o)'
    BY <2>1, <2>2 DEF Turns
  <2> QED
    BY <2>2, <2>3 DEF RoundInv
<1>2. ASSUME NEW o \in Orgs, NEW u \in Units, Launch(o, u) PROVE RoundInv'
  <2>1. Turns(o) = 0 /\ Turns(o)' = 1 /\ \A p \in Orgs \ {o} : Turns(p)' = Turns(p)
    BY <1>0, <1>2, LaunchLoop DEF Turns
  <2>2. plan'[o] = r + Turns(o)'
    BY <1>0, <1>2, <1>r, <2>1, LaunchLoop
  <2>3. ASSUME NEW p \in loop'.members
        PROVE  /\ plan'[p] <= r + Turns(p)'
               /\ Eligible(p)' # {} => plan'[p] = r + Turns(p)'
    <3>1. CASE p = o
      <4>1. plan'[o] \in Nat
        BY <1>0, <1>2, LaunchLoop
      <4> QED
        BY <2>2, <3>1, <4>1
    <3>2. CASE p # o
      <4>1. p \in loop.members /\ p \in Orgs /\ plan'[p] = plan[p] /\ Turns(p)' = Turns(p)
        BY <1>0, <1>2, <2>1, <3>2, LaunchLoop
      <4>2. Eligible(p)' # {} => Eligible(p) # {}
        BY <1>0, <1>2, <4>1, LaunchShrinks
      <4> QED
        BY <1>r, <4>1, <4>2
    <3> QED
      BY <3>1, <3>2
  <2> QED
    BY <2>3 DEF RoundInv
<1>3. ASSUME NEW o \in Orgs, Skip(o) PROVE RoundInv'
  <2>1. ASSUME NEW p \in loop'.members
        PROVE  /\ plan'[p] <= r + Turns(p)'
               /\ Eligible(p)' # {} => plan'[p] = r + Turns(p)'
    <3>1. /\ p \in loop.members /\ p \in Orgs /\ plan'[p] = plan[p]
          /\ Eligible(p)' = Eligible(p)
      BY <1>0, <1>3, SkipLoop
    <3>2. p # o => Turns(p)' = Turns(p)
      BY <1>0, <1>3, SkipLoop DEF Turns
    <3>3. p = o => Eligible(p) = {} /\ Turns(p) = 0 /\ Turns(p)' = 1
      BY <1>0, <1>3, SkipLoop DEF Turns
    <3> QED
      BY <1>0, <1>r, <3>1, <3>2, <3>3
  <2> QED
    BY <2>1 DEF RoundInv
<1>4. CASE NextRound
  <2>1. /\ loop.left = {} /\ loop'.left = loop.members /\ loop'.members = loop.members
        /\ plan' = plan /\ \A o \in Orgs : Eligible(o)' = Eligible(o)
    BY <1>0, <1>4 DEF NextRound, Eligible, TypeOK, Loop
  <2>2. \A o \in loop.members : Turns(o) = 1 /\ Turns(o)' = 0
    BY <2>1 DEF Turns
  <2>3. r + 1 \in Nat /\ r + 1 + 0 = r + 1
    BY <1>r
  <2>4. \A o \in loop'.members :
          /\ plan'[o] <= (r + 1) + Turns(o)'
          /\ Eligible(o)' # {} => plan'[o] = (r + 1) + Turns(o)'
    BY <1>0, <1>r, <2>1, <2>2, <2>3
  <2> QED
    BY <2>3, <2>4 DEF RoundInv
<1>5. CASE EndPlan
  BY <1>5 DEF EndPlan, Idle, RoundInv
<1>6. CASE UNCHANGED vars
  <2>1. /\ loop' = loop /\ plan' = plan
        /\ \A o \in Orgs : Eligible(o)' = Eligible(o)
        /\ \A o \in Orgs : Turns(o)' = Turns(o)
    BY <1>6 DEF vars, Eligible, Turns
  <2> QED
    BY <1>0, <1>r, <2>1 DEF RoundInv
<1> QED
  BY <1>1, <1>2, <1>3, <1>4, <1>5, <1>6 DEF Next

\* Between plans nothing is planned; in one, those who are past their turn in a
\* round without a launch, or are not members at all, have nothing that fits.
LEMMA LeftStep ==
  ASSUME PlanInv, [Next]_vars PROVE IdleInv' /\ LeftInv'
<1>0. TypeOK /\ loop.members \subseteq Orgs
  BY DEF PlanInv, TypeOK, Loop
<1>1. CASE StartPlan
  <2>1. /\ loop'.running /\ loop'.left = loop'.members
        /\ loop'.members = {o \in Orgs : \E u \in Units : queued'[o][u] > 0}
    BY <1>1 DEF StartPlan
  <2>2. \A o \in Orgs \ loop'.members : Eligible(o)' = {}
    BY <2>1 DEF Eligible
  <2> QED
    BY <2>1, <2>2 DEF IdleInv, LeftInv
<1>2. ASSUME NEW o \in Orgs, NEW u \in Units, Launch(o, u) PROVE IdleInv' /\ LeftInv'
  BY <1>0, <1>2, LaunchLoop, LaunchShrinks DEF PlanInv, IdleInv, LeftInv
<1>3. ASSUME NEW o \in Orgs, Skip(o) PROVE IdleInv' /\ LeftInv'
  BY <1>0, <1>3, SkipLoop DEF PlanInv, IdleInv, LeftInv
<1>4. CASE NextRound
  <2>1. /\ loop.running /\ loop'.running /\ loop'.left = loop.members
        /\ loop'.members = loop.members /\ \A o \in Orgs : Eligible(o)' = Eligible(o)
    BY <1>0, <1>4 DEF NextRound, Eligible, TypeOK, Loop
  <2> QED
    BY <1>0, <2>1 DEF PlanInv, IdleInv, LeftInv
<1>5. CASE EndPlan
  BY <1>5 DEF EndPlan, Idle, IdleInv, LeftInv
<1>6. CASE UNCHANGED vars
  <2>1. loop' = loop /\ plan' = plan /\ \A o \in Orgs : Eligible(o)' = Eligible(o)
    BY <1>6 DEF vars, Eligible
  <2> QED
    BY <1>0, <2>1 DEF PlanInv, IdleInv, LeftInv
<1> QED
  BY <1>1, <1>2, <1>3, <1>4, <1>5, <1>6 DEF Next

-----------------------------------------------------------------------------
\* The loop, its capacities and the cursors stay in their ranges: no launch takes
\* capacity or demand that is not there, and no plan exceeds its budget.
THEOREM TypeCorrect == Spec => []TypeOK
  BY InitType, TypeStep, PTL DEF Spec

\* The invariant of the rounds.
THEOREM PlanInvariant == Spec => []PlanInv
<1>1. Init => PlanInv
  BY InitType DEF Init, Idle, PlanInv, RoundInv, IdleInv, LeftInv
<1>2. PlanInv /\ [Next]_vars => PlanInv'
  BY TypeStep, RoundStep, LeftStep DEF PlanInv
<1> QED
  BY <1>1, <1>2, PTL DEF Spec

\* While an organisation could still be given a launch, no other is more than one
\* launch ahead of it.
THEOREM Rotates == Spec => []RoundRobin
<1>1. PlanInv => RoundRobin
  <2> SUFFICES ASSUME PlanInv, NEW a \in loop.members, NEW b \in loop.members,
                      Eligible(b) # {}
               PROVE  plan[a] <= plan[b] + 1
    BY DEF RoundRobin
  <2>1. PICK r \in Nat : \A o \in loop.members :
          /\ plan[o] <= r + Turns(o)
          /\ Eligible(o) # {} => plan[o] = r + Turns(o)
    BY DEF PlanInv, RoundInv
  <2>2. plan[a] \in Nat /\ Turns(a) \in {0, 1} /\ Turns(b) \in {0, 1}
    BY DEF PlanInv, TypeOK, Loop, Turns
  <2> QED
    BY <2>1, <2>2
<1> QED
  BY <1>1, PlanInvariant, PTL

\* A plan below its budget ends only when nothing of anybody's work would fit.
THEOREM PlansAreMaximal == Spec => NothingLeftOver
<1>1. PlanInv /\ [Next]_vars =>
        [loop.running /\ ~loop'.running /\ loop.size < MaxWorkers
           => \A o \in Orgs : Eligible(o) = {}]_vars
  <2> SUFFICES ASSUME PlanInv, [Next]_vars, loop.running, ~loop'.running,
                      loop.size < MaxWorkers
               PROVE  \A o \in Orgs : Eligible(o) = {}
    OBVIOUS
  <2>0. TypeOK /\ MaxWorkers \in Nat
    BY SpawnPlanAssumption DEF PlanInv
  <2>1. EndPlan
    <3>1. ~StartPlan
      BY DEF StartPlan
    <3>2. ~(\E o \in Orgs, u \in Units : Launch(o, u)) /\ ~(\E o \in Orgs : Skip(o))
      BY <2>0, LaunchLoop, SkipLoop
    <3>3. ~NextRound /\ ~UNCHANGED vars
      BY <2>0 DEF NextRound, vars, TypeOK, Loop
    <3> QED
      BY <3>1, <3>2, <3>3 DEF Next
  <2>2. loop.left = {} /\ ~loop.progressed
    BY <2>0, <2>1 DEF EndPlan, TypeOK, Loop
  <2> QED
    BY <2>2 DEF PlanInv, LeftInv
<1> QED
  BY <1>1, PlanInvariant, PTL DEF Spec, NothingLeftOver
=============================================================================
