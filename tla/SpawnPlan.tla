----------------------------- MODULE SpawnPlan -----------------------------
(***************************************************************************)
(* The spawn planner.  One plan hands out the free capacity of the models  *)
(* and lanes in turns: round and round the organisations that have work,   *)
(* one launch per turn.  An organisation's turns go three to one to its    *)
(* analysis jobs, and the units of a class take turns as well.  The        *)
(* cursors of all three rotations are kept from plan to plan.              *)
(*                                                                         *)
(* Plans of the hosted dispatcher are serialised by the row that holds the *)
(* cursors (QueueSlots models what becomes of a plan), so one plan is made *)
(* at a time.  Between plans jobs arrive, are claimed, end or are          *)
(* cancelled: every plan starts from any demand and any free capacity.     *)
(* The cursors are kept modulo what they are used modulo.                  *)
(***************************************************************************)
EXTENDS Naturals, FiniteSets

CONSTANTS
  Orgs,       \* organisations, as numbers in the order _org_sort_key gives
  Units,      \* (queue_key, variant, lane, class) tuples, numbered as they sort
  Models,     \* queue keys
  Lanes,      \* execution lanes with a capacity of their own
  NoLane,     \* any other lane
  ModelOf, LaneOf,  \* [Units -> Models], [Units -> Lanes \cup {NoLane}]
  Analysis,   \* the units of the positive-priority class
  Cycle,      \* [BOOLEAN -> Nat]: the class cursors' moduli, multiples of every
              \* count of candidates the class can have
  MaxWorkers, \* launches per plan
  MaxQueued,  \* bound: queued jobs of an organisation and unit
  MaxFree     \* bound: free capacity of a model or lane

ASSUME SpawnPlanAssumption ==
  /\ Orgs \subseteq Nat /\ IsFiniteSet(Orgs)
  /\ Units \subseteq Nat /\ IsFiniteSet(Units)
  /\ ModelOf \in [Units -> Models]
  /\ NoLane \notin Lanes
  /\ LaneOf \in [Units -> Lanes \cup {NoLane}]
  /\ Analysis \subseteq Units
  /\ Cycle \in [BOOLEAN -> Nat \ {0}]
  /\ \A c \in BOOLEAN :
       \A n \in 1..Cardinality({u \in Units : u \in Analysis <=> c}) : Cycle[c] % n = 0
  /\ MaxWorkers \in Nat \ {0} /\ MaxQueued \in Nat /\ MaxFree \in Nat

VARIABLES
  queued,   \* [Orgs -> [Units -> Nat]]: org_to_unit_queued
  free,     \* [Models -> Nat]: global_capacity
  laneFree, \* [Lanes -> Nat]: lane_capacity
  cursors,  \* the persisted cursors
  plan,     \* [Orgs -> Nat]: the launches spawn_plan has for an organisation
  loop      \* the loop over the organisations

vars == <<queued, free, laneFree, cursors, plan, loop>>

\* offset: "org_offset"; turn: an organisation's turns; class: those of its
\* ordinary (FALSE) and analysis (TRUE) jobs.
Cursors == [offset : Nat,
            turn   : [Orgs -> 0..3],
            class  : [Orgs -> [BOOLEAN -> Nat]]]

\* members: ordered_orgs, as a set; offset: how many of them the order begins
\* after; left: those whose turn is still to come in this round; size:
\* len(spawn_plan).
Loop == [running : BOOLEAN, members : SUBSET Orgs, offset : Nat,
         left : SUBSET Orgs, size : 0..MaxWorkers, progressed : BOOLEAN]

----------------------------------------------------------------------------
\* How many members of S sort before x: its index.
Rank(S, x) == Cardinality({y \in S : y < x})

\* p comes before o in the rotated order.
Before(p, o) ==
  LET wrapped(x) == Rank(loop.members, x) < loop.offset
  IN IF wrapped(p) = wrapped(o) THEN p < o ELSE wrapped(o)

\* Mutant: an organisation keeps its turn while it has work.
IsNextGreedy(o) == /\ loop.running
                   /\ loop.size < MaxWorkers
                   /\ o \in loop.members

IsNext(o) == /\ loop.running
             /\ loop.size < MaxWorkers
             /\ o \in loop.left
             /\ \A p \in loop.left : ~Before(p, o)

\* Mutant: the lane's own capacity is forgotten.
EligibleAnyLane(o) == {u \in Units : queued[o][u] > 0 /\ free[ModelOf[u]] > 0}

Eligible(o) ==
  {u \in Units : /\ queued[o][u] > 0
                 /\ free[ModelOf[u]] > 0
                 /\ LaneOf[u] \in Lanes => laneFree[LaneOf[u]] > 0}

Class(u) == u \in Analysis

Preferred(o) == cursors.turn[o] # 3

\* The other class borrows a turn its own class cannot use.
Candidates(o) ==
  LET preferred == {u \in Eligible(o) : Class(u) = Preferred(o)}
  IN IF preferred # {} THEN preferred ELSE Eligible(o)

IsPicked(o, u) ==
  /\ u \in Candidates(o)
  /\ Rank(Candidates(o), u) = cursors.class[o][Class(u)] % Cardinality(Candidates(o))

NoDemand == [o \in Orgs |-> [u \in Units |-> 0]]

Idle == [running |-> FALSE, members |-> {}, offset |-> 0,
         left |-> {}, size |-> 0, progressed |-> FALSE]

Init ==
  /\ queued = NoDemand
  /\ free = [m \in Models |-> 0]
  /\ laneFree = [l \in Lanes |-> 0]
  /\ cursors = [offset |-> 0, turn |-> [o \in Orgs |-> 0],
                class |-> [o \in Orgs |-> [c \in BOOLEAN |-> 0]]]
  /\ plan = [o \in Orgs |-> 0]
  /\ loop = Idle

----------------------------------------------------------------------------
\* Mutant: every plan begins with the first organisation.
StartPlanFromFirst ==
  /\ ~loop.running
  /\ queued' \in [Orgs -> [Units -> 0..MaxQueued]]
  /\ free' \in [Models -> 0..MaxFree]
  /\ laneFree' \in [Lanes -> 0..MaxFree]
  /\ LET members == {o \in Orgs : \E u \in Units : queued'[o][u] > 0}
     IN /\ members # {}
        /\ loop' = [running |-> TRUE, members |-> members, offset |-> 0,
                    left |-> members, size |-> 0, progressed |-> FALSE]
  /\ UNCHANGED <<cursors, plan>>

\* Demand net of the launches on their way, and capacity net of what runs or is
\* held; without demand there is nothing to plan.
StartPlan ==
  /\ ~loop.running
  /\ queued' \in [Orgs -> [Units -> 0..MaxQueued]]
  /\ free' \in [Models -> 0..MaxFree]
  /\ laneFree' \in [Lanes -> 0..MaxFree]
  /\ LET members == {o \in Orgs : \E u \in Units : queued'[o][u] > 0}
     IN /\ members # {}
        /\ loop' = [running |-> TRUE, members |-> members,
                    offset |-> cursors.offset % Cardinality(members),
                    left |-> members, size |-> 0, progressed |-> FALSE]
  /\ UNCHANGED <<cursors, plan>>

\* The turn of organisation o ends in a launch for unit u.
Launch(o, u) ==
  /\ IsNext(o)
  /\ IsPicked(o, u)
  /\ plan' = [plan EXCEPT ![o] = @ + 1]
  /\ queued' = [queued EXCEPT ![o][u] = @ - 1]
  /\ free' = [free EXCEPT ![ModelOf[u]] = @ - 1]
  /\ laneFree' = [l \in Lanes |-> IF l = LaneOf[u] THEN laneFree[l] - 1 ELSE laneFree[l]]
  /\ cursors' = [offset |-> Rank(loop.members, o) + 1,
                 turn   |-> [cursors.turn EXCEPT ![o] = (@ + 1) % 4],
                 class  |-> [cursors.class EXCEPT
                               ![o][Class(u)] = (@ + 1) % Cycle[Class(u)]]]
  /\ loop' = [loop EXCEPT !.left = @ \ {o}, !.size = @ + 1, !.progressed = TRUE]

\* A turn without a candidate.
Skip(o) ==
  /\ IsNext(o)
  /\ Eligible(o) = {}
  /\ loop' = [loop EXCEPT !.left = @ \ {o}]
  /\ UNCHANGED <<queued, free, laneFree, cursors, plan>>

NextRound ==
  /\ loop.running
  /\ loop.left = {} /\ loop.size < MaxWorkers /\ loop.progressed
  /\ loop' = [loop EXCEPT !.left = loop.members, !.progressed = FALSE]
  /\ UNCHANGED <<queued, free, laneFree, cursors, plan>>

\* Mutant: the cursors of the turns are forgotten with the plan.
EndPlanForgets ==
  /\ loop.running
  /\ loop.size = MaxWorkers \/ (loop.left = {} /\ ~loop.progressed)
  /\ queued' = NoDemand
  /\ free' = [m \in Models |-> 0]
  /\ laneFree' = [l \in Lanes |-> 0]
  /\ plan' = [o \in Orgs |-> 0]
  /\ loop' = Idle
  /\ cursors' = [cursors EXCEPT !.turn = [o \in Orgs |-> 0]]

\* Mutant: one round is all there is.
EndPlanAfterRound ==
  /\ loop.running
  /\ loop.size = MaxWorkers \/ loop.left = {}
  /\ queued' = NoDemand
  /\ free' = [m \in Models |-> 0]
  /\ laneFree' = [l \in Lanes |-> 0]
  /\ plan' = [o \in Orgs |-> 0]
  /\ loop' = Idle
  /\ UNCHANGED cursors

\* The plan is full, or a round brought nothing.  Only the cursors are kept.
EndPlan ==
  /\ loop.running
  /\ \/ loop.size = MaxWorkers
     \/ loop.left = {} /\ ~loop.progressed
  /\ queued' = NoDemand
  /\ free' = [m \in Models |-> 0]
  /\ laneFree' = [l \in Lanes |-> 0]
  /\ plan' = [o \in Orgs |-> 0]
  /\ loop' = Idle
  /\ UNCHANGED cursors

Next == \/ StartPlan
        \/ \E o \in Orgs, u \in Units : Launch(o, u)
        \/ \E o \in Orgs : Skip(o)
        \/ NextRound \/ EndPlan

Spec == Init /\ [][Next]_vars

\* A plan ends and the dispatcher polls again.
FairSpec == Spec /\ WF_vars(Next)

----------------------------------------------------------------------------
(* Properties.                                                             *)

\* The loop, its capacities and the cursors stay in their ranges: no launch takes
\* capacity or demand that is not there, and no plan exceeds its budget.
TypeOK ==
  /\ queued \in [Orgs -> [Units -> 0..MaxQueued]]
  /\ free \in [Models -> 0..MaxFree]
  /\ laneFree \in [Lanes -> 0..MaxFree]
  /\ cursors \in Cursors
  /\ plan \in [Orgs -> Nat]
  /\ loop \in Loop /\ loop.left \subseteq loop.members

\* "Rotates organizations" within a plan: while an organisation could still be
\* given a launch, no other is more than one launch ahead of it, whoever has more
\* models, more jobs or an earlier place.
RoundRobin ==
  \A a, b \in loop.members : Eligible(b) # {} => plan[a] <= plan[b] + 1

\* No capacity is left to lie: a plan below its budget ends only when no
\* organisation has work that would fit.
NothingLeftOver ==
  [][loop.running /\ ~loop'.running /\ loop.size < MaxWorkers
     => \A o \in Orgs : Eligible(o) = {}]_vars

\* Some launch for organisation o, of a unit in U.
LaunchOf(o, U) == \E u \in U : Launch(o, u)

\* "Including polls that can allocate only one worker": when every plan has room
\* for one launch and the same organisations to choose from, each that has work
\* for it is served again and again.
SingleLaunchesRotate ==
  \A o \in Orgs, M \in SUBSET Orgs :
    <>[][StartPlan => /\ loop'.members = M
                      /\ Eligible(o)' # {}
                      /\ \E m \in Models :
                           free' = [x \in Models |-> IF x = m THEN 1 ELSE 0]]_vars
    => []<><<LaunchOf(o, Units)>>_vars

\* "Continuous analysis arrivals cannot reset ordinary turn": an organisation
\* that is served again and again, and whose ordinary jobs could run each time,
\* gets ordinary jobs launched again and again, and likewise its analysis jobs.
ClassesShareTurns ==
  \A o \in Orgs : \A U \in {Analysis, Units \ Analysis} :
    /\ []<><<LaunchOf(o, Units)>>_vars
    /\ <>[][LaunchOf(o, Units) => Eligible(o) \cap U # {}]_vars
    => []<><<LaunchOf(o, U)>>_vars

\* "No org is starved": with the same organisations in every plan, one that has
\* work for free capacity whenever a plan begins is served again and again.
NoOrgStarves ==
  \A o \in Orgs :
    <>[][StartPlan => loop'.members = Orgs /\ Eligible(o)' # {}]_vars
    => []<><<LaunchOf(o, Units)>>_vars
=============================================================================
