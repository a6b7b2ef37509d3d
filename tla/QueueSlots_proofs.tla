-------------------------- MODULE QueueSlots_proofs --------------------------
(***************************************************************************)
(* What holds of QueueSlots for every limit and every set of workers and   *)
(* tokens: that a token is adopted once, that the demand of a launch is    *)
(* counted until the first claim and no longer, that the lease of a busy   *)
(* worker is kept, and that leases are added within the limit only.        *)
(*                                                                         *)
(* None of these is inductive.  They rest on what a lease says of the      *)
(* worker in whose name it is, and on a launch token being on at most one  *)
(* lease: SlotInv below is the invariant that carries them.                *)
(***************************************************************************)
EXTENDS QueueSlots, FiniteSetTheorems, TLAPS

\* A token that no reservation has used is on no lease and with no worker.
UnusedIsUnknown ==
  \A k \in Tokens : launch[k] = "unused" =>
    /\ \A s \in Slots : lease[s].by # k
    /\ \A w \in Workers : worker[w].token # k

\* A token is on one lease at most.
OneLeasePerToken ==
  \A r, s \in Slots : lease[r].by \in Tokens /\ lease[s].by = lease[r].by => r = s

\* While a token's lease waits to be adopted, no worker that has it holds a slot.
WaitingIsUnadopted ==
  \A s \in Slots, w \in Workers :
    lease[s].by \in Tokens /\ worker[w].token = lease[s].by => worker[w].slot = NoSlot

\* A lease in a worker's name is on the slot the worker has in mind, is live while
\* the worker is there, and is younger than the grace until the first claim.
OwnerKnows ==
  \A s \in Slots, w \in Workers : lease[s].by = w =>
    /\ worker[w].slot = s
    /\ worker[w].pc \notin {"off", "starting", "limited"}
    /\ worker[w].pc # "gone" => lease[s].live
    /\ worker[w].pc = "acquired" => ~lease[s].aged
    /\ worker[w].pc \in {"working", "between"} => lease[s].demand = "none"

\* A worker that has yet to claim is named on the slot it has in mind, with the
\* demand it was launched for.
AcquiredHolds ==
  \A w \in Workers :
    /\ worker[w].pc \in {"off", "starting", "limited"} => worker[w].slot = NoSlot
    /\ worker[w].pc = "acquired" => worker[w].slot \in Slots
    /\ \A s \in Slots : worker[w].pc = "acquired" /\ worker[w].slot = s =>
         /\ lease[s].by = w
         /\ worker[w].token = NoToken => lease[s].demand = "none"
         /\ worker[w].token # NoToken => lease[s].demand = "adopted"

SlotInv ==
  /\ TypeOK
  /\ UnusedIsUnknown /\ OneLeasePerToken /\ WaitingIsUnadopted
  /\ OwnerKnows /\ AcquiredHolds /\ TokenAdoptedOnce

-----------------------------------------------------------------------------
\* The first states hold the invariant: nothing is leased.
LEMMA InitSlotInv == Init => SlotInv
<1> SUFFICES ASSUME Init PROVE SlotInv
  OBVIOUS
<1> USE ConstantsAssumption
<1>1. 0 \in Limits
  <2>1. Cardinality(Slots) \in Nat
    BY FS_CardinalityType
  <2> QED
    BY <2>1 DEF Limits
<1>2. Free \in Lease /\ Off \in Worker
  BY <1>1 DEF Free, Lease, Off, Worker
<1>3. TypeOK
  BY <1>1, <1>2 DEF Init, TypeOK, Launch, Free
<1> QED
  BY <1>3 DEF Init, SlotInv, UnusedIsUnknown, OneLeasePerToken, WaitingIsUnadopted,
     OwnerKnows, AcquiredHolds, TokenAdoptedOnce, Free, Off

\* A free slot is a lease row.
LEMMA FreeTyped == Free \in Lease
  BY DEF Free, Lease

\* Replacing one entry by one of the same kind keeps a function's type.
LEMMA UpdateTyped ==
  ASSUME NEW D, NEW R, NEW f \in [D -> R], NEW d, NEW r, d \in D => r \in R
  PROVE  [f EXCEPT ![d] = r] \in [D -> R]
  OBVIOUS

\* Moving a worker on keeps the type of its memory.
LEMMA GotoTyped ==
  ASSUME TypeOK, NEW w \in Workers, NEW p,
         p \in {"starting", "limited", "acquired", "working", "between", "leaving", "gone"},
         Goto(w, p)
  PROVE  worker' \in [Workers -> Worker]
<1>1. [worker[w] EXCEPT !.pc = p] \in Worker
  BY DEF TypeOK, Worker
<1>2. worker' = [worker EXCEPT ![w] = [worker[w] EXCEPT !.pc = p]]
  BY DEF Goto
<1> QED
  BY <1>1, <1>2, UpdateTyped DEF TypeOK

\* A slot taken in a token's or a worker's name is a lease row.
LEMMA TakenTyped ==
  ASSUME NEW b \in Tokens \cup Workers, NEW d \in {"none", "pending", "adopted"}
  PROVE  Taken(b, d) \in Lease
  BY DEF Taken, Lease

\* What a lease says of its demand, as TypeOK has it.
DemandOK(l) ==
  /\ l.demand = "pending" <=> l.by \in Tokens
  /\ l.demand = "adopted" => l.by \in Workers
  /\ l.by = NoOne => l = Free

\* Freeing some leases keeps the table's type.
LEMMA FreedTyped ==
  ASSUME TypeOK, NEW P, P = lease',
         P = [s \in Slots |-> P[s]],
         \A s \in Slots : P[s] = lease[s] \/ P[s] = Free
  PROVE  /\ lease' \in [Slots -> Lease]
         /\ \A s \in Slots : DemandOK(lease'[s])
<1>1. DemandOK(Free)
  BY ConstantsAssumption DEF DemandOK, Free
<1>2. \A s \in Slots : P[s] \in Lease /\ DemandOK(P[s])
  BY <1>1, FreeTyped DEF TypeOK, DemandOK
<1> QED
  BY <1>2

\* What a worker writes down on its way to a slot.
LEMMA WorkerRowTyped ==
  ASSUME NEW row \in Worker, NEW n \in Limits
  PROVE  /\ \A p \in {"leaving", "limited"} : [row EXCEPT !.pc = p, !.limit = n] \in Worker
         /\ \A s \in Slots : [row EXCEPT !.pc = "acquired", !.slot = s, !.limit = n] \in Worker
  BY DEF Worker

\* Every step keeps the types.
LEMMA TypeStep == TypeOK /\ [Next]_vars => TypeOK'
<1> SUFFICES ASSUME TypeOK, [Next]_vars PROVE TypeOK'
  OBVIOUS
<1> USE ConstantsAssumption
<1>1. ASSUME NEW n \in Limits, ChangeLimit(n) PROVE TypeOK'
  BY <1>1 DEF ChangeLimit, TypeOK
<1>2. CASE BuildPlan
  BY <1>2 DEF BuildPlan, TypeOK
<1>3. ASSUME NEW S \in SUBSET Slots, NEW token \in [S -> Tokens], ReserveLaunches(S, token)
      PROVE  TypeOK'
  <2>1. \A s \in Slots : lease'[s] = IF s \in S THEN Taken(token[s], "pending") ELSE lease[s]
    BY <1>3 DEF ReserveLaunches
  <2>2. lease' \in [Slots -> Lease]
    BY <1>3, <2>1, TakenTyped DEF ReserveLaunches, TypeOK
  <2>3. \A s \in S : DemandOK(Taken(token[s], "pending"))
    BY DEF DemandOK, Taken
  <2>4. \A s \in Slots : DemandOK(lease'[s])
    BY <2>1, <2>3 DEF DemandOK, TypeOK
  <2> QED
    BY <1>3, <2>2, <2>4 DEF ReserveLaunches, TypeOK, Launch, DemandOK
<1>4. ASSUME NEW k \in Tokens, AcceptCall(k) \/ EndCycle(k) PROVE TypeOK'
  BY <1>4 DEF AcceptCall, EndCycle, Settled, TypeOK, Launch
<1>5. ASSUME NEW K \in SUBSET Tokens, RevokeLaunches(K) PROVE TypeOK'
  <2>1. launch' \in [Tokens -> Launch]
    BY <1>5 DEF RevokeLaunches, Settled, Launch, TypeOK
  <2>2. lease' \in [Slots -> Lease] /\ \A s \in Slots : DemandOK(lease'[s])
    BY <1>5, FreedTyped DEF RevokeLaunches, Revoked
  <2> QED
    BY <1>5, <2>1, <2>2 DEF RevokeLaunches, TypeOK, DemandOK
<1>6. ASSUME NEW w \in Workers, NEW k \in Tokens \cup {NoToken}, StartWorker(w, k)
      PROVE  TypeOK'
  <2>1. 0 \in Limits
    BY FS_CardinalityType DEF Limits
  <2>2. [Off EXCEPT !.pc = "starting", !.token = k] \in Worker
    BY <2>1 DEF Off, Worker
  <2> QED
    BY <1>6, <2>2, UpdateTyped DEF StartWorker, TypeOK
<1>7. ASSUME NEW w \in Workers, ReadLimit(w) PROVE TypeOK'
  <2>1. [worker[w] EXCEPT !.pc = IF limit = 0 THEN "leaving" ELSE "limited", !.limit = limit]
          \in Worker
    <3>1. worker[w] \in Worker /\ limit \in Limits
      BY DEF TypeOK
    <3>2. (IF limit = 0 THEN "leaving" ELSE "limited") \in {"leaving", "limited"}
      OBVIOUS
    <3> QED
      BY <3>1, <3>2, WorkerRowTyped
  <2> QED
    BY <1>7, <2>1, UpdateTyped DEF ReadLimit, TypeOK
<1>8. ASSUME NEW w \in Workers, AcquireSlot(w) PROVE TypeOK'
  <2>1. 0 \in Limits
    BY FS_CardinalityType DEF Limits
  <2>2. CASE \E s \in Slots :
          /\ lease' = [lease EXCEPT ![s] =
               Taken(w, IF worker[w].token = NoToken THEN "none" ELSE "adopted")]
          /\ worker' = [worker EXCEPT ![w] =
               [worker[w] EXCEPT !.pc = "acquired", !.slot = s, !.limit = 0]]
    <3>1. PICK s \in Slots :
          /\ lease' = [lease EXCEPT ![s] =
               Taken(w, IF worker[w].token = NoToken THEN "none" ELSE "adopted")]
          /\ worker' = [worker EXCEPT ![w] =
               [worker[w] EXCEPT !.pc = "acquired", !.slot = s, !.limit = 0]]
      BY <2>2
    <3> DEFINE d == IF worker[w].token = NoToken THEN "none" ELSE "adopted"
    <3>2. Taken(w, d) \in Lease /\ DemandOK(Taken(w, d))
      BY TakenTyped DEF DemandOK, Taken
    <3>3. [worker[w] EXCEPT !.pc = "acquired", !.slot = s, !.limit = 0] \in Worker
      <4>1. worker[w] \in Worker
        BY DEF TypeOK
      <4> QED
        BY <2>1, <4>1, WorkerRowTyped
    <3>4. worker' \in [Workers -> Worker]
      BY <3>1, <3>3, UpdateTyped DEF TypeOK
    <3>5. lease' \in [Slots -> Lease]
      BY <3>1, <3>2, UpdateTyped DEF TypeOK
    <3>6. \A r \in Slots : DemandOK(lease'[r])
      BY <3>1, <3>2 DEF TypeOK, DemandOK
    <3> QED
      BY <1>8, <3>4, <3>5, <3>6 DEF AcquireSlot, TypeOK, DemandOK
  <2>3. CASE /\ worker' = [worker EXCEPT ![w] = [worker[w] EXCEPT !.pc = "leaving", !.limit = 0]]
             /\ UNCHANGED lease
    <3>1. [worker[w] EXCEPT !.pc = "leaving", !.limit = 0] \in Worker
      <4>1. worker[w] \in Worker
        BY DEF TypeOK
      <4> QED
        BY <2>1, <4>1, WorkerRowTyped
    <3> QED
      BY <1>8, <2>3, <3>1, UpdateTyped DEF AcquireSlot, TypeOK
  <2> QED
    BY <1>8, <2>2, <2>3 DEF AcquireSlot
<1>9. ASSUME NEW w \in Workers, ClaimJob(w) PROVE TypeOK'
  <2>1. worker' \in [Workers -> Worker]
    BY <1>9, GotoTyped DEF ClaimJob
  <2>2. \A s \in Slots : lease[s].by = w =>
          [lease[s] EXCEPT !.demand = "none"] \in Lease
          /\ DemandOK([lease[s] EXCEPT !.demand = "none"])
    BY DEF TypeOK, Lease, DemandOK
  <2>3. Claimed(w) \in [Slots -> Lease] /\ \A s \in Slots : DemandOK(Claimed(w)[s])
    BY <2>2 DEF Claimed, TypeOK, DemandOK
  <2> QED
    BY <1>9, <2>1, <2>3 DEF ClaimJob, TypeOK, DemandOK
<1>10. ASSUME NEW w \in Workers, FinishJob(w) \/ Unwind(w) \/ Crash(w) PROVE TypeOK'
  <2>1. worker' \in [Workers -> Worker]
    BY <1>10, GotoTyped DEF FinishJob, Unwind, Crash
  <2> QED
    BY <1>10, <2>1 DEF FinishJob, Unwind, Crash, TypeOK
<1>11. ASSUME NEW w \in Workers, LoseJob(w) PROVE TypeOK'
  BY <1>11 DEF LoseJob, TypeOK
<1>12. ASSUME NEW w \in Workers, ExitWorker(w) PROVE TypeOK'
  <2>1. worker' \in [Workers -> Worker]
    BY <1>12, GotoTyped DEF ExitWorker
  <2>2. lease' = [s \in Slots |-> lease'[s]] /\ \A s \in Slots : lease'[s] = lease[s] \/ lease'[s] = Free
    BY <1>12 DEF ExitWorker, Returned, Revoked
  <2>3. lease' \in [Slots -> Lease] /\ \A s \in Slots : DemandOK(lease'[s])
    BY <2>2, FreedTyped
  <2> QED
    BY <1>12, <2>1, <2>3 DEF ExitWorker, TypeOK, DemandOK
<1>13. ASSUME NEW s \in Slots, ExpireLease(s) \/ AgeLease(s) PROVE TypeOK'
  <2>1. lease[s].by # NoOne
    BY <1>13 DEF ExpireLease, AgeLease, TypeOK, Free
  <2>2. /\ [lease[s] EXCEPT !.live = FALSE] \in Lease /\ DemandOK([lease[s] EXCEPT !.live = FALSE])
        /\ [lease[s] EXCEPT !.aged = TRUE] \in Lease /\ DemandOK([lease[s] EXCEPT !.aged = TRUE])
    BY <2>1 DEF TypeOK, Lease, DemandOK
  <2>3. PICK l \in Lease : lease' = [lease EXCEPT ![s] = l] /\ DemandOK(l)
    BY <1>13, <2>2 DEF ExpireLease, AgeLease
  <2>4. lease' \in [Slots -> Lease]
    BY <2>3, UpdateTyped DEF TypeOK
  <2>5. \A r \in Slots : DemandOK(lease'[r])
    BY <2>3 DEF TypeOK, DemandOK
  <2> QED
    BY <1>13, <2>4, <2>5 DEF ExpireLease, AgeLease, TypeOK, DemandOK
<1>14. CASE ClearStaleSlots \/ ReleaseOrphanedSlots
  <2>1. lease' \in [Slots -> Lease] /\ \A s \in Slots : DemandOK(lease'[s])
    BY <1>14, FreedTyped DEF ClearStaleSlots, ReleaseOrphanedSlots
  <2> QED
    BY <1>14, <2>1 DEF ClearStaleSlots, ReleaseOrphanedSlots, TypeOK, DemandOK
<1>15. CASE UNCHANGED vars
  BY <1>15 DEF vars, TypeOK
<1> QED
  BY <1>1, <1>2, <1>3, <1>4, <1>5, <1>6, <1>7, <1>8, <1>9, <1>10, <1>11, <1>12, <1>13, <1>14, <1>15
     DEF Next, Dispatcher, WorkerStep, Passing

-----------------------------------------------------------------------------
(* SlotInv.  Most steps only end leases and send workers on their way out. *)

\* A lease is left alone or freed, and never freed under a worker yet to claim.
LeasesEnd ==
  \A s \in Slots :
    \/ lease'[s] = lease[s]
    \/ /\ lease'[s] = Free
       /\ \A w \in Workers : lease[s].by = w => worker[w].pc # "acquired"

\* A worker keeps its token and slot; it stays where it is, looks for a job or leaves.
WorkersGoOn ==
  \A w \in Workers :
    /\ worker'[w].token = worker[w].token /\ worker'[w].slot = worker[w].slot
    /\ \/ worker'[w].pc = worker[w].pc
       \/ worker[w].pc # "gone" /\ worker'[w].pc \in {"leaving", "gone"}
       \/ worker[w].pc = "starting" /\ worker'[w].pc = "limited"
       \/ worker[w].pc = "working" /\ worker'[w].pc = "between"

\* No launch token becomes unused again.
TokensStayUsed == \A k \in Tokens : launch'[k] = "unused" => launch[k] = "unused"

\* Leases that end or stay, workers that go on without a new slot and tokens that
\* stay used leave the invariant alone.
LEMMA QuietStepInv ==
  ASSUME SlotInv, TypeOK', LeasesEnd, WorkersGoOn, TokensStayUsed
  PROVE  SlotInv'
<1> USE ConstantsAssumption
<1>0. /\ \A w \in Workers : Free.by # w
      /\ \A k \in Tokens : Free.by # k
  BY DEF Free
<1>1. UnusedIsUnknown'
  BY <1>0 DEF SlotInv, UnusedIsUnknown, LeasesEnd, WorkersGoOn, TokensStayUsed
<1>2. OneLeasePerToken'
  BY <1>0 DEF SlotInv, OneLeasePerToken, LeasesEnd
<1>3. WaitingIsUnadopted'
  BY <1>0 DEF SlotInv, WaitingIsUnadopted, LeasesEnd, WorkersGoOn
<1>4. OwnerKnows'
  BY <1>0 DEF SlotInv, OwnerKnows, LeasesEnd, WorkersGoOn
<1>5. AcquiredHolds'
  BY <1>0 DEF SlotInv, AcquiredHolds, LeasesEnd, WorkersGoOn
<1>6. TokenAdoptedOnce'
  BY DEF SlotInv, TokenAdoptedOnce, WorkersGoOn
<1> QED
  BY <1>1, <1>2, <1>3, <1>4, <1>5, <1>6 DEF SlotInv

\* A reservation stamps its own, unused tokens on free slots.
LEMMA ReserveInv ==
  ASSUME SlotInv, TypeOK', NEW S \in SUBSET Slots, NEW token \in [S -> Tokens],
         ReserveLaunches(S, token)
  PROVE  SlotInv'
<1> USE ConstantsAssumption
<1>1. /\ \A s \in S : lease'[s] = Taken(token[s], "pending") /\ launch[token[s]] = "unused"
                      /\ ~lease[s].live
      /\ \A s \in Slots \ S : lease'[s] = lease[s]
      /\ \A r, s \in S : r # s => token[r] # token[s]
      /\ worker' = worker
  BY DEF ReserveLaunches, Open
<1>2. /\ \A k \in Tokens : launch'[k] = "unused" => launch[k] = "unused"
      /\ \A s \in S : launch'[token[s]] # "unused"
  BY DEF ReserveLaunches
<1>3. \A s \in S : lease'[s].by = token[s]
  <2>1. \A b, d : Taken(b, d).by = b
    BY DEF Taken
  <2> QED
    BY <1>1, <2>1
<1>4. UnusedIsUnknown'
  BY <1>1, <1>2, <1>3 DEF SlotInv, UnusedIsUnknown
<1>5. OneLeasePerToken'
  BY <1>1, <1>3 DEF SlotInv, OneLeasePerToken, UnusedIsUnknown
<1>6. WaitingIsUnadopted'
  BY <1>1, <1>3 DEF SlotInv, WaitingIsUnadopted, UnusedIsUnknown
<1>7. OwnerKnows'
  BY <1>1, <1>3 DEF SlotInv, OwnerKnows
<1>8. AcquiredHolds'
  BY <1>1, <1>3 DEF SlotInv, AcquiredHolds, OwnerKnows
<1> QED
  BY <1>1, <1>4, <1>5, <1>6, <1>7, <1>8 DEF SlotInv, TokenAdoptedOnce

\* A worker starts with a token that a reservation made.
LEMMA StartInv ==
  ASSUME SlotInv, TypeOK', NEW w \in Workers, NEW k \in Tokens \cup {NoToken},
         StartWorker(w, k)
  PROVE  SlotInv'
<1> USE ConstantsAssumption
<1>1. /\ worker'[w].pc = "starting" /\ worker'[w].token = k /\ worker'[w].slot = NoSlot
      /\ \A v \in Workers \ {w} : worker'[v] = worker[v]
      /\ worker[w].pc = "off" /\ worker[w].slot = NoSlot
      /\ k # NoToken => launch[k] # "unused"
      /\ launch' = launch /\ lease' = lease
  BY DEF StartWorker, Off, At, SlotInv, TypeOK, AcquiredHolds
<1>2. UnusedIsUnknown'
  BY <1>1 DEF SlotInv, UnusedIsUnknown
<1>3. OneLeasePerToken'
  BY <1>1 DEF SlotInv, OneLeasePerToken
<1>4. WaitingIsUnadopted'
  BY <1>1 DEF SlotInv, WaitingIsUnadopted
<1>5. OwnerKnows'
  BY <1>1 DEF SlotInv, OwnerKnows
<1>6. AcquiredHolds'
  <2>1. ASSUME NEW v \in Workers \ {w}
        PROVE  worker'[v] = worker[v] /\ \A s \in Slots : lease'[s] = lease[s]
    BY <1>1
  <2> QED
    BY <1>1, <2>1 DEF SlotInv, AcquiredHolds
<1>7. TokenAdoptedOnce'
  BY <1>1 DEF SlotInv, TokenAdoptedOnce
<1> QED
  BY <1>2, <1>3, <1>4, <1>5, <1>6, <1>7 DEF SlotInv

\* A slot is adopted or taken for a worker that has none.
LEMMA AcquireInv ==
  ASSUME SlotInv, TypeOK', NEW w \in Workers, NEW s \in Slots, At(w, "limited"),
         MayAcquire(w, s), launch' = launch,
         lease' = [lease EXCEPT ![s] =
                     Taken(w, IF worker[w].token = NoToken THEN "none" ELSE "adopted")],
         worker' = [worker EXCEPT ![w] =
                     [worker[w] EXCEPT !.pc = "acquired", !.slot = s, !.limit = 0]]
  PROVE  SlotInv'
<1> USE ConstantsAssumption
<1>1. /\ lease'[s].by = w /\ lease'[s].live /\ ~lease'[s].aged
      /\ lease'[s].demand = IF worker[w].token = NoToken THEN "none" ELSE "adopted"
      /\ \A r \in Slots \ {s} : lease'[r] = lease[r]
  BY DEF SlotInv, TypeOK, Taken
<1>2. /\ worker'[w].pc = "acquired" /\ worker'[w].slot = s /\ worker'[w].token = worker[w].token
      /\ \A v \in Workers \ {w} : worker'[v] = worker[v]
  BY DEF SlotInv, TypeOK, Worker
<1>3. \/ worker[w].token = NoToken /\ ~lease[s].live
      \/ worker[w].token \in Tokens /\ lease[s].by = worker[w].token
  BY DEF MayAcquire, Adoptable, Open, SlotInv, TypeOK, Worker
<1>4. worker[w].pc = "limited" /\ worker[w].slot = NoSlot
  BY DEF At, SlotInv, AcquiredHolds
<1>5. UnusedIsUnknown'
  BY <1>1, <1>2 DEF SlotInv, UnusedIsUnknown
<1>6. OneLeasePerToken'
  BY <1>1 DEF SlotInv, OneLeasePerToken
<1>7. WaitingIsUnadopted'
  BY <1>1, <1>2, <1>3 DEF SlotInv, WaitingIsUnadopted, OneLeasePerToken
<1>8. OwnerKnows'
  BY <1>1, <1>2, <1>4 DEF SlotInv, OwnerKnows
<1>9. AcquiredHolds'
  BY <1>1, <1>2, <1>3 DEF SlotInv, AcquiredHolds, OwnerKnows
<1>10. TokenAdoptedOnce'
  BY <1>1, <1>2, <1>3 DEF SlotInv, TokenAdoptedOnce, WaitingIsUnadopted
<1> QED
  BY <1>5, <1>6, <1>7, <1>8, <1>9, <1>10 DEF SlotInv

\* A claim takes the demand off the lease that the worker holds.
LEMMA ClaimInv ==
  ASSUME SlotInv, TypeOK', NEW w \in Workers, worker[w].pc \in {"acquired", "between"},
         launch' = launch, lease' = Claimed(w), Goto(w, "working")
  PROVE  SlotInv'
<1> USE ConstantsAssumption
<1>1. \A s \in Slots :
        /\ lease'[s].by = lease[s].by /\ lease'[s].live = lease[s].live
        /\ lease'[s].aged = lease[s].aged
        /\ lease[s].by # w => lease'[s].demand = lease[s].demand
        /\ lease[s].by = w /\ worker[w].slot = s => lease'[s].demand = "none"
  BY DEF Claimed, SlotInv, TypeOK, Lease
<1>2. /\ worker'[w].pc = "working"
      /\ \A v \in Workers : /\ worker'[v].slot = worker[v].slot
                            /\ worker'[v].token = worker[v].token
      /\ \A v \in Workers \ {w} : worker'[v].pc = worker[v].pc
  BY DEF Goto, SlotInv, TypeOK, Worker
<1>3. UnusedIsUnknown' /\ OneLeasePerToken' /\ WaitingIsUnadopted'
  BY <1>1, <1>2 DEF SlotInv, UnusedIsUnknown, OneLeasePerToken, WaitingIsUnadopted
<1>4. OwnerKnows'
  BY <1>1, <1>2 DEF SlotInv, OwnerKnows
<1>5. AcquiredHolds'
  BY <1>1, <1>2 DEF SlotInv, AcquiredHolds
<1>6. TokenAdoptedOnce'
  BY <1>2 DEF SlotInv, TokenAdoptedOnce
<1> QED
  BY <1>3, <1>4, <1>5, <1>6 DEF SlotInv

\* Time that passes for a lease spares what a worker at its slot relies on.
LEMMA PassingInv ==
  ASSUME SlotInv, TypeOK', NEW s \in Slots, Passing(s)
  PROVE  SlotInv'
<1> USE ConstantsAssumption
<1>1. /\ worker' = worker /\ launch' = launch
      /\ \A r \in Slots : lease'[r].by = lease[r].by /\ lease'[r].demand = lease[r].demand
      /\ \A r \in Slots \ {s} : lease'[r] = lease[r]
  BY DEF Passing, ExpireLease, AgeLease, SlotInv, TypeOK, Lease
<1>2. \A w \in Workers : lease[s].by = w =>
        /\ worker[w].pc # "gone" => lease'[s].live = lease[s].live
        /\ worker[w].pc = "acquired" => lease'[s].aged = lease[s].aged
  BY DEF Passing, ExpireLease, AgeLease, LeaseOutlivesWorker, GraceCoversFirstClaim, At,
     SlotInv, TypeOK, Lease
<1>3. UnusedIsUnknown' /\ OneLeasePerToken' /\ WaitingIsUnadopted' /\ TokenAdoptedOnce'
  BY <1>1 DEF SlotInv, UnusedIsUnknown, OneLeasePerToken, WaitingIsUnadopted, TokenAdoptedOnce
<1>4. OwnerKnows'
  BY <1>1, <1>2 DEF SlotInv, OwnerKnows
<1>5. AcquiredHolds'
  BY <1>1 DEF SlotInv, AcquiredHolds
<1> QED
  BY <1>3, <1>4, <1>5 DEF SlotInv

\* Every step keeps the invariant.
LEMMA SlotInvStep == SlotInv /\ [Next]_vars => SlotInv'
<1> SUFFICES ASSUME SlotInv, [Next]_vars PROVE SlotInv'
  OBVIOUS
<1> USE ConstantsAssumption
<1>0. TypeOK /\ TypeOK'
  BY TypeStep DEF SlotInv
<1>1. ASSUME NEW n \in Limits, ChangeLimit(n) PROVE SlotInv'
  BY <1>0, <1>1, QuietStepInv
     DEF ChangeLimit, LeasesEnd, WorkersGoOn, TokensStayUsed
<1>2. CASE BuildPlan
  BY <1>0, <1>2, QuietStepInv DEF BuildPlan, LeasesEnd, WorkersGoOn, TokensStayUsed
<1>3. ASSUME NEW S \in SUBSET Slots, NEW token \in [S -> Tokens], ReserveLaunches(S, token)
      PROVE  SlotInv'
  BY <1>0, <1>3, ReserveInv
<1>4. ASSUME NEW k \in Tokens, AcceptCall(k) \/ EndCycle(k) PROVE SlotInv'
  <2>1. TokensStayUsed
    BY <1>0, <1>4 DEF AcceptCall, EndCycle, Settled, TokensStayUsed, TypeOK
  <2> QED
    BY <1>0, <1>4, <2>1, QuietStepInv DEF AcceptCall, EndCycle, LeasesEnd, WorkersGoOn
<1>5. ASSUME NEW K \in SUBSET Tokens, RevokeLaunches(K) PROVE SlotInv'
  <2>1. TokensStayUsed
    BY <1>5 DEF RevokeLaunches, Settled, TokensStayUsed
  <2>2. LeasesEnd
    BY <1>5 DEF RevokeLaunches, Revoked, LeasesEnd
  <2> QED
    BY <1>0, <1>5, <2>1, <2>2, QuietStepInv DEF RevokeLaunches, WorkersGoOn
<1>6. ASSUME NEW w \in Workers, NEW k \in Tokens \cup {NoToken}, StartWorker(w, k)
      PROVE  SlotInv'
  BY <1>0, <1>6, StartInv
<1>7. ASSUME NEW w \in Workers, ReadLimit(w) PROVE SlotInv'
  <2>1. WorkersGoOn
    BY <1>0, <1>7 DEF ReadLimit, WorkersGoOn, At, TypeOK, Worker
  <2> QED
    BY <1>0, <1>7, <2>1, QuietStepInv DEF ReadLimit, LeasesEnd, TokensStayUsed
<1>8. ASSUME NEW w \in Workers, AcquireSlot(w) PROVE SlotInv'
  <2>1. CASE /\ worker' = [worker EXCEPT ![w] = [worker[w] EXCEPT !.pc = "leaving", !.limit = 0]]
             /\ UNCHANGED lease
    <3>1. worker[w].pc = "limited"
      BY <1>8 DEF AcquireSlot, At
    <3>2. WorkersGoOn
      BY <1>0, <2>1, <3>1 DEF WorkersGoOn, TypeOK, Worker
    <3> QED
      BY <1>0, <1>8, <2>1, <3>2, QuietStepInv DEF AcquireSlot, LeasesEnd, TokensStayUsed
  <2> QED
    BY <1>0, <1>8, <2>1, AcquireInv DEF AcquireSlot
<1>9. ASSUME NEW w \in Workers, ClaimJob(w) PROVE SlotInv'
  <2>1. CASE lease' = lease /\ Goto(w, "leaving")
    <3>1. WorkersGoOn
      BY <1>0, <1>9, <2>1 DEF ClaimJob, WorkersGoOn, Goto, TypeOK, Worker
    <3> QED
      BY <1>0, <1>9, <2>1, <3>1, QuietStepInv DEF ClaimJob, LeasesEnd, TokensStayUsed
  <2> QED
    BY <1>0, <1>9, <2>1, ClaimInv DEF ClaimJob
<1>10. ASSUME NEW w \in Workers, FinishJob(w) \/ Unwind(w) \/ Crash(w) PROVE SlotInv'
  <2>1. WorkersGoOn
    BY <1>0, <1>10 DEF FinishJob, Unwind, Crash, WorkersGoOn, At, Goto, TypeOK, Worker
  <2> QED
    BY <1>0, <1>10, <2>1, QuietStepInv DEF FinishJob, Unwind, Crash, LeasesEnd, TokensStayUsed
<1>11. ASSUME NEW w \in Workers, LoseJob(w) PROVE SlotInv'
  BY <1>0, <1>11, QuietStepInv DEF LoseJob, LeasesEnd, WorkersGoOn, TokensStayUsed
<1>12. ASSUME NEW w \in Workers, ExitWorker(w) PROVE SlotInv'
  <2>1. WorkersGoOn
    BY <1>0, <1>12 DEF ExitWorker, WorkersGoOn, At, Goto, TypeOK, Worker
  <2>2. LeasesEnd
    <3>1. \A s \in Slots : lease'[s] = lease[s] \/
            (lease'[s] = Free /\ lease[s].by \in {w, worker[w].token})
      BY <1>12 DEF ExitWorker, Returned, Revoked
    <3>2. worker[w].pc = "leaving" /\ worker[w].token \notin Workers
      BY <1>0, <1>12 DEF ExitWorker, At, TypeOK, Worker
    <3> QED
      BY <3>1, <3>2 DEF LeasesEnd
  <2> QED
    BY <1>0, <1>12, <2>1, <2>2, QuietStepInv DEF ExitWorker, TokensStayUsed
<1>13. ASSUME NEW s \in Slots, Passing(s) PROVE SlotInv'
  BY <1>0, <1>13, PassingInv
<1>14. CASE ClearStaleSlots \/ ReleaseOrphanedSlots
  <2>1. LeasesEnd
    BY <1>14 DEF ClearStaleSlots, ReleaseOrphanedSlots, Orphaned, LeasesEnd, SlotInv, OwnerKnows
  <2> QED
    BY <1>0, <1>14, <2>1, QuietStepInv
       DEF ClearStaleSlots, ReleaseOrphanedSlots, WorkersGoOn, TokensStayUsed
<1>15. CASE UNCHANGED vars
  BY <1>0, <1>15, QuietStepInv DEF vars, LeasesEnd, WorkersGoOn, TokensStayUsed
<1> QED
  BY <1>1, <1>2, <1>3, <1>4, <1>5, <1>6, <1>7, <1>8, <1>9, <1>10, <1>11, <1>12, <1>13, <1>14, <1>15
     DEF Next, Dispatcher, WorkerStep

-----------------------------------------------------------------------------
\* The rows of queue_slots, the launches and the workers' memories always have their
\* declared shape, and a lease's demand fits the name on it.
THEOREM TypeCorrect == Spec => []TypeOK
<1>1. Init => TypeOK
  BY InitSlotInv DEF SlotInv
<1> QED
  BY <1>1, TypeStep, PTL DEF Spec

\* The invariant that the properties below rest on: no token sits on two leases, and
\* a worker that has a slot by its token is the only one that has it.
THEOREM SlotsInvariant == Spec => []SlotInv
  BY InitSlotInv, SlotInvStep, PTL DEF Spec

\* Of the workers started with one launch token, one at most ever gets a slot.
THEOREM AdoptedOnce == Spec => []TokenAdoptedOnce
<1>1. SlotInv => TokenAdoptedOnce
  BY DEF SlotInv
<1> QED
  BY <1>1, SlotsInvariant, PTL

\* What a job is launched for is counted as pending demand exactly until its worker
\* claims for the first time.
THEOREM DemandCounted == Spec => []DemandCountsUnclaimed
<1>1. SlotInv => DemandCountsUnclaimed
  <2> SUFFICES ASSUME SlotInv, NEW w \in Workers, NEW s \in Slots
               PROVE  /\ At(w, "acquired") /\ worker[w].token # NoToken /\ worker[w].slot = s =>
                           lease[s].by = w /\ lease[s].demand = "adopted" /\ lease[s].live
                      /\ worker[w].pc \in {"working", "between"} /\ lease[s].by = w =>
                           lease[s].demand = "none"
    BY DEF DemandCountsUnclaimed
  <2> QED
    BY DEF SlotInv, OwnerKnows, AcquiredHolds, At
<1> QED
  BY <1>1, SlotsInvariant, PTL

-----------------------------------------------------------------------------
(* Action properties.                                                      *)

\* The lease of a worker that has yet to claim, or whose job is RUNNING, ends only
\* when that worker exits: no revocation, sweep, reservation or acquisition takes it.
LEMMA BusyLeaseStep ==
  ASSUME SlotInv, [Next]_vars, NEW w \in Workers, NEW s \in Slots, lease[s].by = w,
         At(w, "acquired") \/ (At(w, "working") /\ w \in running)
  PROVE  lease'[s].by = w
<1> USE ConstantsAssumption
<1>0. /\ worker[w].pc \in {"acquired", "working"} /\ lease[s].live
      /\ worker[w].pc = "acquired" => ~lease[s].aged
      /\ worker[w].pc = "working" => w \in running
      /\ lease \in [Slots -> Lease]
  BY DEF SlotInv, OwnerKnows, At, TypeOK
<1>1. \A b, d : Taken(b, d).by = b
  BY DEF Taken
<1>3. ASSUME NEW S \in SUBSET Slots, NEW token \in [S -> Tokens], ReserveLaunches(S, token)
      PROVE  lease'[s] = lease[s]
  BY <1>0, <1>3 DEF ReserveLaunches, Open
<1>5. ASSUME NEW K \in SUBSET Tokens, RevokeLaunches(K) PROVE lease'[s] = lease[s]
  BY <1>5 DEF RevokeLaunches, Revoked
<1>8. ASSUME NEW v \in Workers, AcquireSlot(v) PROVE lease'[s] = lease[s]
  <2>1. ASSUME NEW r \in Slots, MayAcquire(v, r) PROVE r # s
    BY <1>0, <2>1 DEF MayAcquire, Open, Adoptable, SlotInv, TypeOK, Worker
  <2> QED
    BY <1>0, <1>8, <2>1 DEF AcquireSlot
<1>9. ASSUME NEW v \in Workers, ClaimJob(v) PROVE lease'[s].by = w
  BY <1>0, <1>9 DEF ClaimJob, Claimed, Lease
<1>12. ASSUME NEW v \in Workers, ExitWorker(v) PROVE lease'[s] = lease[s]
  <2>1. v # w /\ worker[v].token # w
    BY <1>0, <1>12 DEF ExitWorker, At, SlotInv, TypeOK, Worker
  <2> QED
    BY <1>12, <2>1 DEF ExitWorker, Returned, Revoked
<1>13. ASSUME NEW r \in Slots, Passing(r) PROVE lease'[s].by = w
  BY <1>0, <1>13 DEF Passing, ExpireLease, AgeLease, Lease
<1>14. CASE ClearStaleSlots \/ ReleaseOrphanedSlots
  BY <1>0, <1>14 DEF ClearStaleSlots, ReleaseOrphanedSlots, Orphaned
<1>15. CASE lease' = lease
  BY <1>15
<1> QED
  BY <1>3, <1>5, <1>8, <1>9, <1>12, <1>13, <1>14, <1>15
     DEF Next, Dispatcher, WorkerStep, ChangeLimit, BuildPlan, AcceptCall, EndCycle,
         StartWorker, ReadLimit, FinishJob, Unwind, Crash, LoseJob, vars

\* No revocation, sweep, reservation or acquisition ends the lease of a worker that has
\* yet to claim or whose job is RUNNING.
THEOREM BusyLeaseIsKept == Spec => BusyLeaseKept
<1>1. SlotInv /\ [Next]_vars =>
        [\A w \in Workers : \A s \in Slots :
           /\ lease[s].by = w
           /\ At(w, "acquired") \/ (At(w, "working") /\ w \in running)
           => lease'[s].by = w]_vars
  BY BusyLeaseStep
<1> QED
  BY <1>1, SlotsInvariant, PTL DEF Spec, BusyLeaseKept

-----------------------------------------------------------------------------
(* Admission.                                                              *)

\* The leases held are finitely many, and fewer when some of them end.
LEMMA FewerHeld ==
  /\ IsFiniteSet(Held) /\ Cardinality(Held) \in Nat
  /\ IsFiniteSet(Held') /\ Cardinality(Held') \in Nat
  /\ Held' \subseteq Held => Cardinality(Held') <= Cardinality(Held)
<1>1. Held \in SUBSET Slots /\ Held' \in SUBSET Slots
  BY DEF Held
<1>2. /\ IsFiniteSet(Held) /\ Cardinality(Held) \in Nat
      /\ IsFiniteSet(Held') /\ Cardinality(Held') \in Nat
  BY <1>1, FS_Subset, FS_CardinalityType, ConstantsAssumption
<1> QED
  BY <1>2, FS_Subset

\* Leases are added only while all of them fit the limit that the dispatcher or the
\* worker adding them read.
LEMMA AdmissionStep ==
  ASSUME TypeOK, [Next]_vars, Cardinality(Held') > Cardinality(Held)
  PROVE  \/ plan # NoPlan /\ Cardinality(Held') <= plan
         \/ \E w \in Workers : At(w, "limited") /\ Cardinality(Held') <= worker[w].limit
<1> USE ConstantsAssumption
<1>0. ~(Held' \subseteq Held)
  BY FewerHeld
<1>1. /\ \A b, d : Taken(b, d).by = b
      /\ Free.by = NoOne
  BY DEF Taken, Free
<1>3. ASSUME NEW S \in SUBSET Slots, NEW token \in [S -> Tokens], ReserveLaunches(S, token)
      PROVE  plan # NoPlan /\ Cardinality(Held') <= plan
  <2>1. Held' \subseteq Held \cup S
    BY <1>3 DEF ReserveLaunches, Held
  <2>2. IsFiniteSet(S) /\ Cardinality(S) \in Nat
    BY FS_Subset, FS_CardinalityType
  <2>3. /\ IsFiniteSet(Held \cup S)
        /\ Cardinality(Held \cup S) = Cardinality(Held) + Cardinality(S) - Cardinality(Held \cap S)
        /\ Cardinality(Held \cap S) \in Nat
    BY <2>2, FewerHeld, FS_Union, FS_Intersection, FS_CardinalityType
  <2>4. Cardinality(Held') <= Cardinality(Held \cup S)
    BY <2>1, <2>3, FS_Subset
  <2>5. S # {}
    BY <1>0, <2>1
  <2>6. plan \in Nat /\ Cardinality(Held) + Cardinality(S) <= plan
    BY <1>3, <2>5, <2>2, FewerHeld DEF ReserveLaunches, HasRoom, TypeOK, Limits
  <2> QED
    BY <1>3, <2>2, <2>3, <2>4, <2>6, FewerHeld DEF ReserveLaunches
<1>5. ASSUME NEW K \in SUBSET Tokens, RevokeLaunches(K) PROVE FALSE
  BY <1>0, <1>1, <1>5 DEF RevokeLaunches, Revoked, Held
<1>8. ASSUME NEW w \in Workers, AcquireSlot(w)
      PROVE  At(w, "limited") /\ Cardinality(Held') <= worker[w].limit
  <2>1. PICK s \in Slots, d \in {"none", "adopted"} :
          MayAcquire(w, s) /\ lease' = [lease EXCEPT ![s] = Taken(w, d)]
    BY <1>0, <1>8 DEF AcquireSlot, Held
  <2>2. Held' \subseteq Held \cup {s}
    BY <2>1 DEF Held, TypeOK
  <2>3. s \notin Held
    BY <1>0, <2>2
  <2>4. worker[w].token = NoToken
    BY <2>1, <2>3 DEF MayAcquire, Adoptable, Held, TypeOK, Worker
  <2>5. worker[w].limit \in Nat /\ Cardinality(Held) + 1 <= worker[w].limit
    BY <2>1, <2>4 DEF MayAcquire, HasRoom, TypeOK, Worker, Limits
  <2>6. IsFiniteSet(Held \cup {s}) /\ Cardinality(Held \cup {s}) = Cardinality(Held) + 1
    BY <2>3, FewerHeld, FS_AddElement
  <2>7. Cardinality(Held') <= Cardinality(Held) + 1
    BY <2>2, <2>6, FS_Subset
  <2>8. At(w, "limited")
    BY <1>8 DEF AcquireSlot
  <2> QED
    BY <2>5, <2>7, <2>8, FewerHeld
<1>9. ASSUME NEW w \in Workers, ClaimJob(w) PROVE FALSE
  <2>1. \A s \in Slots : Claimed(w)[s].by = lease[s].by /\ Claimed(w)[s].live = lease[s].live
    BY DEF Claimed, TypeOK, Lease
  <2>2. Held' \subseteq Held
    BY <1>9, <2>1 DEF ClaimJob, Held
  <2> QED
    BY <1>0, <2>2
<1>12. ASSUME NEW w \in Workers, ExitWorker(w) PROVE FALSE
  BY <1>0, <1>1, <1>12 DEF ExitWorker, Returned, Revoked, Held
<1>13. ASSUME NEW s \in Slots, Passing(s) PROVE FALSE
  <2>1. \A r \in Slots : lease'[r].by = lease[r].by /\ (lease'[r].live => lease[r].live)
    BY <1>13 DEF Passing, ExpireLease, AgeLease, TypeOK, Lease
  <2>2. Held' \subseteq Held
    BY <2>1 DEF Held
  <2> QED
    BY <1>0, <2>2
<1>14. CASE ClearStaleSlots \/ ReleaseOrphanedSlots
  BY <1>0, <1>1, <1>14 DEF ClearStaleSlots, ReleaseOrphanedSlots, Held
<1>15. CASE lease' = lease
  BY <1>0, <1>15 DEF Held
<1> QED
  BY <1>3, <1>5, <1>8, <1>9, <1>12, <1>13, <1>14, <1>15
     DEF Next, Dispatcher, WorkerStep, ChangeLimit, BuildPlan, AcceptCall, EndCycle,
         StartWorker, ReadLimit, FinishJob, Unwind, Crash, LoseJob, vars

\* Whoever adds a lease has read a limit that all leases then fit.
THEOREM AdmittedWithinLimit == Spec => AdmissionWithinLimit
<1>1. TypeOK /\ [Next]_vars =>
        [Cardinality(Held') > Cardinality(Held) =>
           \/ plan # NoPlan /\ Cardinality(Held') <= plan
           \/ \E w \in Workers : At(w, "limited") /\ Cardinality(Held') <= worker[w].limit]_vars
  BY AdmissionStep
<1> QED
  BY <1>1, TypeCorrect, PTL DEF Spec, AdmissionWithinLimit
=============================================================================
