----------------------------- MODULE QueueSlots -----------------------------
(***************************************************************************)
(* The queue_slots leases of one queue key.  They bound how many workers   *)
(* run jobs of the key, also while calls are still on their way to the     *)
(* remote scheduler: the dispatcher reserves a slot under a token, the     *)
(* worker started with the token adopts it, and sweeps take back what dead *)
(* dispatchers and workers left behind.                                    *)
(*                                                                         *)
(* Every action is one transaction or autocommit statement.  Acquisitions  *)
(* and reservations hold the key's advisory lock, so each is atomic with   *)
(* respect to the other.  A slot row that does not exist yet is a free one.*)
(* Time is abstract: a lease expires, and outlives the sweep's grace, at   *)
(* any later moment, within the assumptions named below.                   *)
(***************************************************************************)
EXTENDS Naturals, FiniteSets

CONSTANTS
  Slots,      \* slot numbers, 0 .. largest limit - 1
  Workers,    \* worker ids; every start of a container makes a new one
  Tokens,     \* launch tokens
  NoOne, NoToken, NoSlot, NoPlan

ASSUME ConstantsAssumption ==
  /\ Slots \subseteq Nat /\ IsFiniteSet(Slots)
  /\ NoOne \notin Workers \cup Tokens
  /\ Workers \cap Tokens = {}
  /\ NoToken \notin Workers \cup Tokens
  /\ NoSlot \notin Slots
  /\ NoPlan \notin Nat

VARIABLES
  lease,    \* [Slots -> Lease]: the queue_slots rows
  launch,   \* [Tokens -> Launch]: what became of the call made with the token
  worker,   \* [Workers -> Worker]
  running,  \* workers named current_worker_id by a RUNNING worker_jobs row
  limit,    \* the effective concurrency limit of the key
  plan      \* the limit the reservation in progress was planned with, or NoPlan

vars == <<lease, launch, worker, running, limit, plan>>

Limits == 0 .. Cardinality(Slots)

-----------------------------------------------------------------------------
Lease == [by : {NoOne} \cup Tokens \cup Workers,           \* locked_by
          live : BOOLEAN,                                  \* locked_until > NOW()
          aged : BOOLEAN,                                  \* locked_at before the grace
          demand : {"none", "pending", "adopted"}]         \* launch_demand

Free == [by |-> NoOne, live |-> FALSE, aged |-> FALSE, demand |-> "none"]
Taken(by, demand) == [by |-> by, live |-> TRUE, aged |-> FALSE, demand |-> demand]

\* A reserved token's call is reserved until the remote scheduler accepts it;
\* accepted while its dispatcher may still revoke it; then sent, or dropped.
Launch == {"unused", "reserved", "accepted", "sent", "dropped"}

Worker == [pc : {"off", "starting", "limited", "acquired", "working", "between",
                 "leaving", "gone"},
           token : Tokens \cup {NoToken},
           slot : Slots \cup {NoSlot},
           limit : Limits]                      \* queue_limit, until it is used

Off == [pc |-> "off", token |-> NoToken, slot |-> NoSlot, limit |-> 0]

Init ==
  /\ lease = [s \in Slots |-> Free]
  /\ launch = [k \in Tokens |-> "unused"]
  /\ worker = [w \in Workers |-> Off]
  /\ running = {}
  /\ limit \in Limits
  /\ plan = NoPlan

\* Both counts ignore expired leases that no sweep has cleared yet.
Held == {s \in Slots : lease[s].by # NoOne /\ lease[s].live}
Open(s, n) == s < n /\ ~lease[s].live

\* Mutant: slots below the limit are looked at, the count of leases is not.
HasRoomBelow(n, new) == Cardinality({s \in Held : s < n}) + new <= n
HasRoom(n, new) == Cardinality(Held) + new <= n

ChangeLimit(n) ==
  /\ limit' = n
  /\ UNCHANGED <<lease, launch, worker, running, plan>>

-----------------------------------------------------------------------------
(* The dispatcher.  Reservations of several hosts are serialised; their    *)
(* launches overlap.                                                       *)

\* build_plan reads the limit before the advisory lock is taken.
BuildPlan ==
  /\ plan = NoPlan
  /\ plan' = limit
  /\ UNCHANGED <<lease, launch, worker, running, limit>>

\* The planner wants any number of workers; a plan may also come to nothing.
\* Which open slots it gets depends on the rows SKIP LOCKED passes over.
ReserveLaunches(S, token) ==
  /\ plan # NoPlan
  /\ \A s \in S : Open(s, plan) /\ launch[token[s]] = "unused"
  /\ \A r, s \in S : r # s => token[r] # token[s]
  /\ S # {} => HasRoom(plan, Cardinality(S))
  /\ lease' = [s \in Slots |-> IF s \in S THEN Taken(token[s], "pending") ELSE lease[s]]
  /\ launch' = [k \in Tokens |->
       IF \E s \in S : token[s] = k THEN "reserved" ELSE launch[k]]
  /\ plan' = NoPlan
  /\ UNCHANGED <<worker, running, limit>>

\* The remote scheduler takes the call, whatever the dispatcher hears of it.
AcceptCall(k) ==
  /\ launch[k] = "reserved"
  /\ launch' = [launch EXCEPT ![k] = "accepted"]
  /\ UNCHANGED <<lease, worker, running, limit, plan>>

\* release_launch_reservations
Revoked(K) ==
  [s \in Slots |-> IF lease[s].by \in K /\ lease[s].demand # "none"
                   THEN Free ELSE lease[s]]

Settled(k) == IF launch[k] = "accepted" THEN "sent" ELSE "dropped"

\* Failed launches are revoked at the end of a cycle, and all of its launches
\* when it is cancelled, though some of the calls may have been accepted.
RevokeLaunches(K) ==
  /\ K # {}
  /\ \A k \in K : launch[k] \in {"reserved", "accepted"}
  /\ lease' = Revoked(K)
  /\ launch' = [k \in Tokens |-> IF k \in K THEN Settled(k) ELSE launch[k]]
  /\ UNCHANGED <<worker, running, limit, plan>>

\* The cycle ends, or dies, without revoking the token.
EndCycle(k) ==
  /\ launch[k] \in {"reserved", "accepted"}
  /\ launch' = [launch EXCEPT ![k] = Settled(k)]
  /\ UNCHANGED <<lease, worker, running, limit, plan>>

-----------------------------------------------------------------------------
(* A worker process, from start to exit.                                   *)

At(w, pc) == worker[w].pc = pc
Goto(w, pc) == worker' = [worker EXCEPT ![w].pc = pc]

\* A call may be started more than once: the remote platform restarts preempted
\* containers with the same arguments.  Workers outside it have no token.
StartWorker(w, k) ==
  /\ At(w, "off")
  /\ k # NoToken => launch[k] \in {"accepted", "sent"}
  /\ worker' = [worker EXCEPT ![w] = [Off EXCEPT !.pc = "starting", !.token = k]]
  /\ UNCHANGED <<lease, launch, running, limit, plan>>

ReadLimit(w) ==
  /\ At(w, "starting")
  /\ worker' = [worker EXCEPT ![w] =
       [worker[w] EXCEPT !.pc = IF limit = 0 THEN "leaving" ELSE "limited",
                         !.limit = limit]]
  /\ UNCHANGED <<lease, launch, running, limit, plan>>

\* Mutant: a token that was adopted before, or has expired, is still good.
AdoptableTwice(w, s) ==
  /\ s < worker[w].limit
  /\ \/ lease[s].by = worker[w].token
     \/ lease[s].demand = "adopted" /\ worker[lease[s].by].token = worker[w].token

Adoptable(w, s) ==
  /\ s < worker[w].limit
  /\ lease[s].by = worker[w].token
  /\ lease[s].demand = "pending" /\ lease[s].live

\* acquire_queue_slot: a worker with a token adopts its lease or none at all.
MayAcquire(w, s) ==
  IF worker[w].token = NoToken
  THEN Open(s, worker[w].limit) /\ HasRoom(worker[w].limit, 1)
  ELSE Adoptable(w, s)

AcquireSlot(w) ==
  /\ At(w, "limited")
  /\ \/ \E s \in Slots :
          /\ MayAcquire(w, s)
          /\ lease' = [lease EXCEPT ![s] =
               Taken(w, IF worker[w].token = NoToken THEN "none" ELSE "adopted")]
          /\ worker' = [worker EXCEPT ![w] =
               [worker[w] EXCEPT !.pc = "acquired", !.slot = s, !.limit = 0]]
     \/ /\ \A s \in Slots : ~MayAcquire(w, s)
        /\ worker' = [worker EXCEPT ![w] =
             [worker[w] EXCEPT !.pc = "leaving", !.limit = 0]]
        /\ UNCHANGED lease
  /\ UNCHANGED <<launch, running, limit, plan>>

\* Mutant: the claim leaves the launch demand in place.
ClaimedKeepsDemand(w) == lease

\* The claim ends the launch: its demand is now a RUNNING row.
Claimed(w) ==
  [s \in Slots |-> IF s = worker[w].slot /\ lease[s].by = w
                   THEN [lease[s] EXCEPT !.demand = "none"] ELSE lease[s]]

\* A drain iteration finds a job of the queue or finds none.  It does not look
\* at the slot again.
ClaimJob(w) ==
  /\ worker[w].pc \in {"acquired", "between"}
  /\ \/ /\ lease' = Claimed(w)
        /\ running' = running \cup {w}
        /\ Goto(w, "working")
     \/ /\ Goto(w, "leaving")
        /\ UNCHANGED <<lease, running>>
  /\ UNCHANGED <<launch, limit, plan>>

\* The outcome is recorded; within its time budget the worker goes on.
FinishJob(w) ==
  /\ At(w, "working")
  /\ running' = running \ {w}
  /\ Goto(w, "between") \/ Goto(w, "leaving")
  /\ UNCHANGED <<lease, launch, limit, plan>>

\* An error, or the cancellation of the container, unwinds to the same cleanup;
\* a job that was being run keeps its RUNNING row.
Unwind(w) ==
  /\ worker[w].pc \notin {"off", "leaving", "gone"}
  /\ Goto(w, "leaving")
  /\ UNCHANGED <<lease, launch, running, limit, plan>>

\* Mutant: the slot is released by number.
ReturnedByNumber(w) == [lease EXCEPT ![worker[w].slot] = Free]

\* Mutant: the release does not reset launch_demand.
ReturnedKeepsDemand(w) ==
  [s \in Slots |-> IF s = worker[w].slot /\ lease[s].by = w
                   THEN [Free EXCEPT !.demand = lease[s].demand] ELSE lease[s]]

\* release_queue_slot
Returned(w) ==
  [s \in Slots |-> IF s = worker[w].slot /\ lease[s].by = w THEN Free ELSE lease[s]]

ExitWorker(w) ==
  /\ At(w, "leaving")
  /\ lease' = IF worker[w].slot # NoSlot THEN Returned(w) ELSE Revoked({worker[w].token})
  /\ Goto(w, "gone")
  /\ UNCHANGED <<launch, running, limit, plan>>

Crash(w) ==
  /\ worker[w].pc \notin {"off", "gone"}
  /\ Goto(w, "gone")
  /\ UNCHANGED <<lease, launch, running, limit, plan>>

\* The RUNNING row is reaped as stale, or cancelled by a user, under a live
\* worker or a dead one.
LoseJob(w) ==
  /\ w \in running
  /\ running' = running \ {w}
  /\ UNCHANGED <<lease, launch, worker, limit, plan>>

-----------------------------------------------------------------------------
(* Time and the sweeps.                                                    *)

\* A worker is stopped before its lease runs out: the lease is taken for the
\* worker's timeout and 30 seconds more.
LeaseOutlivesWorker(s) ==
  lease[s].by \in Workers => worker[lease[s].by].pc = "gone"

ExpireLease(s) ==
  /\ lease[s].live
  /\ LeaseOutlivesWorker(s)
  /\ lease' = [lease EXCEPT ![s].live = FALSE]
  /\ UNCHANGED <<launch, worker, running, limit, plan>>

\* The grace is chosen to cover the time from taking a slot to the first claim.
GraceCoversFirstClaim(s) == worker[lease[s].by].pc # "acquired"

AgeLease(s) ==
  /\ lease[s].by \in Workers /\ ~lease[s].aged
  /\ GraceCoversFirstClaim(s)
  /\ lease' = [lease EXCEPT ![s].aged = TRUE]
  /\ UNCHANGED <<launch, worker, running, limit, plan>>

\* cleanup_stale_queue_slots
ClearStaleSlots ==
  /\ \E s \in Slots : lease[s].by # NoOne /\ ~lease[s].live
  /\ lease' = [s \in Slots |-> IF lease[s].live THEN lease[s] ELSE Free]
  /\ UNCHANGED <<launch, worker, running, limit, plan>>

\* Mutant: as it was before it became per slot, a slot is reclaimed only when
\* nothing runs on the whole queue.
OrphanedQueue(s) == lease[s].by \in Workers /\ lease[s].aged /\ running = {}

Orphaned(s) == lease[s].by \in Workers /\ lease[s].aged /\ lease[s].by \notin running

\* _release_orphaned_slots
ReleaseOrphanedSlots ==
  /\ \E s \in Slots : Orphaned(s)
  /\ lease' = [s \in Slots |-> IF Orphaned(s) THEN Free ELSE lease[s]]
  /\ UNCHANGED <<launch, worker, running, limit, plan>>

-----------------------------------------------------------------------------
Dispatcher ==
  \/ BuildPlan
  \/ \E S \in SUBSET Slots : \E token \in [S -> Tokens] : ReserveLaunches(S, token)
  \/ \E k \in Tokens : AcceptCall(k) \/ EndCycle(k)
  \/ \E K \in SUBSET Tokens : RevokeLaunches(K)

WorkerStep(w) ==
  \/ ReadLimit(w) \/ AcquireSlot(w) \/ ClaimJob(w) \/ FinishJob(w)
  \/ Unwind(w) \/ ExitWorker(w) \/ Crash(w) \/ LoseJob(w)

Passing(s) == ExpireLease(s) \/ AgeLease(s)

Next ==
  \/ \E n \in Limits : ChangeLimit(n)
  \/ Dispatcher
  \/ \E w \in Workers, k \in Tokens \cup {NoToken} : StartWorker(w, k)
  \/ \E w \in Workers : WorkerStep(w)
  \/ \E s \in Slots : Passing(s)
  \/ ClearStaleSlots \/ ReleaseOrphanedSlots

Spec == Init /\ [][Next]_vars

\* Time passes, dead workers' jobs are reaped, and the sweeps run on a timer.  The
\* expiry of a worker's lease, hours away, is not counted on.
Fairness ==
  /\ \A w \in Workers : WF_vars(At(w, "gone") /\ LoseJob(w))
  /\ \A s \in Slots : /\ WF_vars(AgeLease(s))
                      /\ WF_vars(lease[s].by \in Tokens /\ ExpireLease(s))
  /\ WF_vars(ClearStaleSlots) /\ WF_vars(ReleaseOrphanedSlots)

FairSpec == Spec /\ Fairness
-----------------------------------------------------------------------------
(* Properties.                                                             *)

\* Leases, calls and worker memories have their declared shape, a lease in a
\* worker's name is never pending, and a token's always is.
TypeOK ==
  /\ lease \in [Slots -> Lease]
  /\ launch \in [Tokens -> Launch]
  /\ worker \in [Workers -> Worker]
  /\ running \subseteq Workers
  /\ limit \in Limits
  /\ plan \in Limits \cup {NoPlan}
  /\ \A s \in Slots : /\ lease[s].demand = "pending" <=> lease[s].by \in Tokens
                      /\ lease[s].demand = "adopted" => lease[s].by \in Workers
                      /\ lease[s].by = NoOne => lease[s] = Free

\* "Expired calls cannot adopt a replacement lease", and a duplicate start of a
\* call cannot adopt a lease that was adopted: of the workers started with one
\* token, at most one ever gets a slot.
TokenAdoptedOnce ==
  \A v, w \in Workers :
    v # w /\ worker[v].token = worker[w].token /\ worker[w].token # NoToken =>
      worker[v].slot = NoSlot \/ worker[w].slot = NoSlot

\* The planner counts a launch as pending demand until the first claim of its
\* worker, and no longer: what a job is launched for is counted exactly once.
DemandCountsUnclaimed ==
  \A w \in Workers : \A s \in Slots :
    /\ At(w, "acquired") /\ worker[w].token # NoToken /\ worker[w].slot = s =>
         lease[s].by = w /\ lease[s].demand = "adopted" /\ lease[s].live
    /\ worker[w].pc \in {"working", "between"} /\ lease[s].by = w =>
         lease[s].demand = "none"

\* Leases are added only while all of them, those above a lowered limit too, fit
\* the limit that the dispatcher or worker adding them read.
AdmissionWithinLimit ==
  [][Cardinality(Held') > Cardinality(Held) =>
       \/ plan # NoPlan /\ Cardinality(Held') <= plan
       \/ \E w \in Workers : At(w, "limited") /\ Cardinality(Held') <= worker[w].limit]_vars

\* The lease of a worker that has yet to claim, or whose job is RUNNING, ends
\* only when that worker exits: no revocation, late exit of another worker, sweep,
\* reservation or acquisition takes it away.
BusyLeaseKept ==
  [][\A w \in Workers : \A s \in Slots :
       /\ lease[s].by = w
       /\ At(w, "acquired") \/ (At(w, "working") /\ w \in running)
       => lease'[s].by = w]_vars

\* Somebody who will not use the slot is on its lease: a worker that is gone, or a
\* launch, which may have failed, that no worker has adopted.
Stranded(s) ==
  \/ lease[s].by \in Tokens
  \/ lease[s].by \in Workers /\ At(lease[s].by, "gone")

\* A lease that a dead worker or a revoked or failed launch left behind comes free,
\* a dead worker's without waiting for it to expire and whatever others run.
LeakedLeaseReturns == \A s \in Slots : []<>~Stranded(s)

\* "Run worker_jobs back-to-back on one already-held queue slot": a worker whose
\* job is RUNNING holds a slot.
RunningJobHoldsSlot ==
  \A w \in Workers :
    At(w, "working") /\ w \in running =>
      \E s \in Slots : lease[s].by = w /\ lease[s].live
=============================================================================
