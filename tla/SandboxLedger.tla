--------------------------- MODULE SandboxLedger ---------------------------
(***************************************************************************)
(* The Thunder sandboxes of trial attempts.  A worker takes one of the     *)
(* provider-wide capacity leases, binds it to the job it claims, writes a  *)
(* sandbox_runs row for the attempt, and only then asks the provider for a *)
(* sandbox.  The provider answers whenever it likes, and the worker, or    *)
(* the job, may be gone by then; the ledger of runs and the reconciliation *)
(* sweep are what stops the sandbox and frees the lease all the same.  A   *)
(* capacity miss hands the trial to another provider, which has to wait    *)
(* for the teardown of what Thunder created.                               *)
(*                                                                         *)
(* Every action is one transaction, one statement or one provider call.    *)
(* The provider is external: what it does is what its answers may be.      *)
(***************************************************************************)
EXTENDS Naturals, FiniteSets

CONSTANTS
  Jobs,         \* worker_jobs rows of kind TRIAL, on the Thunder lane at first
  Workers,      \* worker ids; every start of a container makes a new one
  Slots,        \* the rows of sandbox_capacity_leases below the limit
  MaxAttempts,  \* worker_jobs.max_attempts
  NoOne, NoJob, NoSlot,
  Elsewhere     \* the workers of the default lane

ASSUME ConstantsAssumption ==
  /\ MaxAttempts \in Nat \ {0}
  /\ NoOne \notin Workers \cup {Elsewhere}
  /\ Elsewhere \notin Workers
  /\ NoJob \notin Jobs
  /\ NoSlot \notin Slots
  /\ IsFiniteSet(Slots)

VARIABLES
  job,      \* [Jobs -> Job]: the worker_jobs rows
  run,      \* [Runs -> Run]: the sandbox_runs rows, one per attempt
  lease,    \* [Slots -> Lease]: the sandbox_capacity_leases rows
  sandbox,  \* [Runs -> Sandbox]: what the provider did for the attempt
  worker,   \* [Workers -> Worker]
  sweep     \* [Runs -> SweepStep]: the teardowns the sweep has in hand

rows == <<job, run, lease>>
vars == <<job, run, lease, sandbox, worker, sweep>>

Attempts == 1 .. MaxAttempts
Runs == Jobs \X Attempts

-----------------------------------------------------------------------------
Job == [status : {"QUEUED", "RUNNING", "RETRYING", "OVER"},
        attempts : 0 .. MaxAttempts + 1,
        by : Workers \cup {NoOne, Elsewhere},    \* current_worker_id
        lane : {"thunder", "default"},           \* execution_lane
        handle : BOOLEAN,                        \* external_id is set
        pending : BOOLEAN]                       \* reroute_pending_teardown

\* terminated_at is set in the statements that make a row TERMINATED.
Run == [state : {"NONE", "PROVISIONING", "RUNNING", "TERMINATING",
                 "TERMINATED", "FAILED"},
        handle : BOOLEAN]                        \* external_id is set

Lease == [by : Workers \cup {NoOne},             \* locked_by
          job : Jobs \cup {NoJob},               \* worker_job_id
          live : BOOLEAN]                        \* locked_until > NOW()

Sandbox == {"none", "requested", "alive", "gone", "refused"}

Worker == [pc : {"off", "leased", "claimed", "launching", "waiting", "operating",
                 "closing", "stopping", "stopped", "unhandled", "outcome",
                 "leaving", "done"},
           slot : Slots \cup {NoSlot},
           job : Jobs \cup {NoJob},
           attempt : 0 .. MaxAttempts,
           miss : BOOLEAN]                       \* the outcome is a capacity miss

SweepStep == {"no", "listed", "asked", "stopped", "failed"}

Unlocked == [by |-> NoOne, job |-> NoJob, live |-> FALSE]

Init ==
  /\ job = [j \in Jobs |-> [status |-> "QUEUED", attempts |-> 0, by |-> NoOne,
                            lane |-> "thunder", handle |-> FALSE, pending |-> FALSE]]
  /\ run = [r \in Runs |-> [state |-> "NONE", handle |-> FALSE]]
  /\ lease = [s \in Slots |-> Unlocked]
  /\ sandbox = [r \in Runs |-> "none"]
  /\ worker = [w \in Workers |-> [pc |-> "off", slot |-> NoSlot, job |-> NoJob,
                                  attempt |-> 0, miss |-> FALSE]]
  /\ sweep = [r \in Runs |-> "no"]

At(w, pc) == worker[w].pc = pc
Goto(w, pc) == worker' = [worker EXCEPT ![w].pc = pc]

RunOf(w) == <<worker[w].job, worker[w].attempt>>

\* The attempt of the run is the one its job is RUNNING.
Current(r) == job[r[1]].status = "RUNNING" /\ job[r[1]].attempts = r[2]

-----------------------------------------------------------------------------
(* The capacity leases.                                                    *)

\* A run that still stands for a sandbox, as every statement on leases has it.
ActiveRun(r) ==
  /\ run[r].state \notin {"NONE", "TERMINATED"}
  /\ run[r].state = "FAILED" => run[r].handle

HasActiveRun(j) == \E a \in Attempts : j # NoJob /\ ActiveRun(<<j, a>>)

\* The lease's holder runs the job the lease is bound to.
HolderRuns(s) ==
  /\ lease[s].job # NoJob
  /\ job[lease[s].job].status = "RUNNING"
  /\ job[lease[s].job].by = lease[s].by

\* Mutant: an expired lease may be taken though its sandbox lives.
AvailableWhenExpired(s) ==
  lease[s].by = NoOne \/ (~lease[s].live /\ ~HolderRuns(s))

\* Mutant: an expired lease may be taken from the worker that runs its job.
AvailableFromHolder(s) ==
  lease[s].by = NoOne \/ (~lease[s].live /\ ~HasActiveRun(lease[s].job))

Available(s) ==
  \/ lease[s].by = NoOne
  \/ ~lease[s].live /\ ~HolderRuns(s) /\ ~HasActiveRun(lease[s].job)

\* acquire_sandbox_capacity_lease; SKIP LOCKED may pass over a slot.  A worker
\* that finds none exits.
Acquire(w) ==
  /\ At(w, "off")
  /\ \/ \E s \in Slots :
          /\ Available(s)
          /\ lease' = [lease EXCEPT ![s] = [by |-> w, job |-> NoJob, live |-> TRUE]]
          /\ worker' = [worker EXCEPT ![w].pc = "leased", ![w].slot = s]
     \/ /\ \A s \in Slots : ~Available(s)
        /\ Goto(w, "done")
        /\ UNCHANGED lease
  /\ UNCHANGED <<job, run, sandbox, sweep>>

\* The CTE "capacity" of the claim.
HoldsCapacity(w) ==
  LET l == lease[worker[w].slot] IN l.by = w /\ l.job = NoJob /\ l.live

Claimable(j, lane) ==
  /\ job[j].status \in {"QUEUED", "RETRYING"}
  /\ job[j].lane = lane
  /\ ~job[j].pending

\* The claim and the binding of the lease are one statement; without a claimable
\* job, or without its lease, the worker leaves.
Claim(w) ==
  /\ At(w, "leased")
  /\ \/ \E j \in Jobs :
          /\ HoldsCapacity(w) /\ Claimable(j, "thunder")
          /\ job' = [job EXCEPT ![j].status = "RUNNING", ![j].by = w,
                                ![j].attempts = @ + 1]
          /\ lease' = [lease EXCEPT ![worker[w].slot].job = j,
                                    ![worker[w].slot].live = TRUE]
          /\ worker' = [worker EXCEPT ![w].pc = "claimed", ![w].job = j,
                                      ![w].attempt = job[j].attempts + 1]
     \/ /\ ~HoldsCapacity(w) \/ \A j \in Jobs : ~Claimable(j, "thunder")
        /\ Goto(w, "leaving")
        /\ UNCHANGED <<job, lease>>
  /\ UNCHANGED <<run, sandbox, sweep>>

Owns(w) == job[worker[w].job].status = "RUNNING" /\ job[worker[w].job].by = w

\* The capacity half of a heartbeat: it renews the lease bound to the job.
Heartbeat(w) ==
  /\ worker[w].job # NoJob /\ worker[w].pc \notin {"leaving", "done"}
  /\ Owns(w)
  /\ \E s \in Slots : lease[s].job = worker[w].job /\ lease[s].by = w /\ ~lease[s].live
  /\ lease' = [s \in Slots |->
                 IF lease[s].job = worker[w].job /\ lease[s].by = w
                 THEN [lease[s] EXCEPT !.live = TRUE] ELSE lease[s]]
  /\ UNCHANGED <<job, run, sandbox, worker, sweep>>

\* release_sandbox_capacity_lease
Released(w) ==
  [s \in Slots |->
     IF s = worker[w].slot /\ lease[s].by = w /\ ~HasActiveRun(lease[s].job)
     THEN Unlocked ELSE lease[s]]

\* A normal return of the worker.
Leave(w) ==
  /\ At(w, "leaving")
  /\ lease' = Released(w)
  /\ Goto(w, "done")
  /\ UNCHANGED <<job, run, sandbox, sweep>>

\* The process dies; cancelled, or raising, it leaves its job and lease the same
\* way, once its sandbox is dealt with.
Crash(w) ==
  /\ worker[w].pc \notin {"off", "done"}
  /\ Goto(w, "done")
  /\ UNCHANGED <<rows, sandbox, sweep>>

ExpireLease(s) ==
  /\ lease[s].live
  /\ lease' = [lease EXCEPT ![s].live = FALSE]
  /\ UNCHANGED <<job, run, sandbox, worker, sweep>>

-----------------------------------------------------------------------------
(* The attempt of a worker.                                                *)

\* What create_thunder_sandbox_run checks under the lock of the job row.
MayLaunch(w) == Current(RunOf(w)) /\ job[worker[w].job].lane = "thunder"

\* create_thunder_sandbox_run; refused, the handler fails without a sandbox.
CreateRun(w) ==
  /\ At(w, "claimed")
  /\ IF MayLaunch(w)
     THEN /\ run' = [run EXCEPT ![RunOf(w)].state = "PROVISIONING"]
          /\ Goto(w, "launching")
     ELSE Goto(w, "outcome") /\ UNCHANGED run
  /\ UNCHANGED <<job, lease, sandbox, sweep>>

\* Harbor asks the provider for the sandbox.
RequestSandbox(w) ==
  /\ At(w, "launching")
  /\ sandbox' = [sandbox EXCEPT ![RunOf(w)] = "requested"]
  /\ Goto(w, "waiting")
  /\ UNCHANGED <<rows, sweep>>

\* The provider answers, whether or not somebody still waits; "refused" is its
\* typed capacity error.
ProviderAnswers(r) ==
  /\ sandbox[r] = "requested"
  /\ \E answer \in {"alive", "refused"} : sandbox' = [sandbox EXCEPT ![r] = answer]
  /\ UNCHANGED <<rows, worker, sweep>>

\* A sandbox also ends by itself: Harbor stops it at the end of the trial, the
\* provider after its time to live, a cancellation by the handle of its job.
ProviderStops(r) ==
  /\ sandbox[r] = "alive"
  /\ sandbox' = [sandbox EXCEPT ![r] = "gone"]
  /\ UNCHANGED <<rows, worker, sweep>>

\* Provisioning lost its worker or met a termination: the handle is kept.
LateHandle(r) ==
  [run EXCEPT ![r].handle = TRUE,
              ![r].state = IF @ = "TERMINATED" THEN @ ELSE "TERMINATING"]

\* mark_environment_provisioned, in the worker's handler of Harbor's event.
MarkProvisioned(w) ==
  LET r == RunOf(w)
      matches == Current(r) /\ job[r[1]].by = w
  IN /\ At(w, "waiting") /\ sandbox[r] \in {"alive", "gone"}
     /\ \/ /\ ~matches \/ run[r].state = "TERMINATING"
           /\ run' = LateHandle(r)
           /\ Goto(w, "closing")
           /\ UNCHANGED job
        \/ /\ matches /\ run[r].state = "TERMINATED"
           /\ Goto(w, "closing")
           /\ UNCHANGED <<job, run>>
        \/ /\ matches /\ run[r].state \notin {"TERMINATING", "TERMINATED"}
           /\ run' = [run EXCEPT ![r] = [state |-> "RUNNING", handle |-> TRUE]]
           /\ job' = [job EXCEPT ![r[1]].handle = TRUE]
           /\ Goto(w, "operating")
     /\ UNCHANGED <<lease, sandbox, sweep>>

\* The execution ends: done, failed, interrupted by a heartbeat that found the
\* job gone, or, with a typed error of the provider, for want of capacity.
EndExecution(w) ==
  /\ worker[w].pc \in {"launching", "waiting", "operating"}
  /\ \E miss \in BOOLEAN :
       /\ miss => At(w, "operating") \/ sandbox[RunOf(w)] = "refused"
       /\ worker' = [worker EXCEPT ![w].pc = "closing", ![w].miss = miss]
  /\ UNCHANGED <<rows, sandbox, sweep>>

-----------------------------------------------------------------------------
(* terminate_sandbox_run, by the worker when its attempt ends.             *)

\* request_sandbox_termination
Terminating(r) ==
  [run EXCEPT ![r].state = IF @ = "TERMINATED" THEN @ ELSE "TERMINATING"]

\* mark_sandbox_failed
Failed(r) ==
  [run EXCEPT ![r].state = IF @ \in {"TERMINATING", "TERMINATED"} THEN @ ELSE "FAILED"]

\* mark_sandbox_terminated
Terminated(r) == [run EXCEPT ![r].state = "TERMINATED"]

RequestTermination(w) ==
  /\ At(w, "closing")
  /\ run' = Terminating(RunOf(w))
  /\ Goto(w, IF run[RunOf(w)].handle THEN "stopping" ELSE "unhandled")
  /\ UNCHANGED <<job, lease, sandbox, sweep>>

\* The provider's teardown is idempotent; it can fail.
Stop(r) == [sandbox EXCEPT ![r] = IF @ = "alive" THEN "gone" ELSE @]

Teardown(w) ==
  /\ At(w, "stopping")
  /\ \/ sandbox' = Stop(RunOf(w)) /\ Goto(w, "stopped")
     \/ UNCHANGED sandbox /\ Goto(w, "unhandled")
  /\ UNCHANGED <<rows, sweep>>

MarkTerminated(w) ==
  /\ At(w, "stopped")
  /\ run' = Terminated(RunOf(w))
  /\ Goto(w, "outcome")
  /\ UNCHANGED <<job, lease, sandbox, sweep>>

MarkFailed(w) ==
  /\ At(w, "unhandled")
  /\ run' = Failed(RunOf(w))
  /\ Goto(w, "outcome")
  /\ UNCHANGED <<job, lease, sandbox, sweep>>

-----------------------------------------------------------------------------
(* The outcome of a job.                                                   *)

\* Mutant: max_attempts is not looked at.
PutBackAlways(row) == [row EXCEPT !.status = "RETRYING", !.by = NoOne, !.handle = FALSE]

\* A retry starts unlinked from the last sandbox.
PutBack(row) ==
  IF row.attempts < MaxAttempts
  THEN [row EXCEPT !.status = "RETRYING", !.by = NoOne, !.handle = FALSE]
  ELSE [row EXCEPT !.status = "OVER"]

\* _record_outcome with a success, a failure for good, or one to retry.
RecordOutcome(w) ==
  /\ At(w, "outcome") /\ ~worker[w].miss
  /\ IF Owns(w)
     THEN \E row \in {PutBack(job[worker[w].job]),
                      [job[worker[w].job] EXCEPT !.status = "OVER"]} :
            job' = [job EXCEPT ![worker[w].job] = row]
     ELSE UNCHANGED job
  /\ Goto(w, "leaving")
  /\ UNCHANGED <<run, lease, sandbox, sweep>>

\* What _record_reroute_outcome checks, under the locks of all the rows.
MayReroute(w) ==
  LET r == RunOf(w) IN
  /\ Current(r) /\ Owns(w) /\ job[r[1]].lane = "thunder"
  /\ run[r].state \in {"PROVISIONING", "TERMINATING", "TERMINATED", "FAILED"}
  /\ job[r[1]].handle = run[r].handle
  /\ Cardinality({s \in Slots : lease[s].job = r[1] /\ lease[s].by = w}) = 1

\* Mutant: a requested teardown is taken for a teardown that is done.
PendingUnlessAsked(r) == run[r].handle /\ run[r].state \notin {"TERMINATING", "TERMINATED"}

TeardownPending(r) == run[r].handle /\ run[r].state # "TERMINATED"

\* _record_reroute_outcome: job, trial, ledger and lease in one transaction.
Reroute(w) ==
  LET r == RunOf(w)  pending == TeardownPending(r) IN
  /\ At(w, "outcome") /\ worker[w].miss
  /\ MayReroute(w)
  /\ run' = IF run[r].handle THEN run ELSE Terminated(r)
  /\ job' = [job EXCEPT ![r[1]].status = "RETRYING", ![r[1]].by = NoOne,
                        ![r[1]].lane = "default", ![r[1]].pending = pending,
                        ![r[1]].handle = pending]
  /\ lease' = IF pending THEN lease
              ELSE [s \in Slots |-> IF lease[s].job = r[1] /\ lease[s].by = w
                                    THEN Unlocked ELSE lease[s]]
  /\ Goto(w, "leaving")
  /\ UNCHANGED <<sandbox, sweep>>

\* A check fails, those of the trial row among them: nothing is recorded.
RejectReroute(w) ==
  /\ At(w, "outcome") /\ worker[w].miss
  /\ Goto(w, "leaving")
  /\ UNCHANGED <<rows, sandbox, sweep>>

\* A rerouted job is claimed by a worker of the default lane, which holds no
\* capacity lease, and ends there.
ClaimElsewhere(j) ==
  /\ Claimable(j, "default")
  /\ job[j].attempts <= MaxAttempts
  /\ job' = [job EXCEPT ![j].status = "RUNNING", ![j].by = Elsewhere,
                        ![j].attempts = @ + 1]
  /\ UNCHANGED <<run, lease, sandbox, worker, sweep>>

FinishElsewhere(j) ==
  /\ job[j].by = Elsewhere /\ job[j].status = "RUNNING"
  /\ job' = [job EXCEPT ![j].status = "OVER"]
  /\ UNCHANGED <<run, lease, sandbox, worker, sweep>>

\* cancel_tasks_runs, and the retry and deletion of a trial, close the job.
Cancel(j) ==
  /\ job[j].status # "OVER"
  /\ job' = [job EXCEPT ![j].status = "OVER", ![j].by = NoOne]
  /\ UNCHANGED <<run, lease, sandbox, worker, sweep>>

-----------------------------------------------------------------------------
(* The reconciliation sweep: one transaction, then teardowns one by one.   *)

\* _reap_stale_worker_jobs
Reaped(S) ==
  [j \in Jobs |->
     IF j \notin S THEN job[j]
     ELSE [PutBack(job[j]) EXCEPT !.by = NoOne]]

\* A sandbox of the provider's inventory whose name is that of an open run
\* without a handle.
Recovers(r) ==
  /\ sandbox[r] = "alive"
  /\ run[r].state \in {"PROVISIONING", "TERMINATING"} /\ ~run[r].handle

\* _recover_thunder_inventory_handles: the run is RUNNING again if its attempt is.
RecoveredRuns(jobs) ==
  [r \in Runs |->
     IF ~Recovers(r) THEN run[r]
     ELSE [state |-> IF jobs[r[1]].status = "RUNNING" /\ jobs[r[1]].attempts = r[2]
                     THEN "RUNNING" ELSE "TERMINATING",
           handle |-> TRUE]]

RecoveredJobs(jobs) ==
  [j \in Jobs |->
     IF \E r \in Runs : r = <<j, jobs[j].attempts>> /\ Recovers(r)
                        /\ jobs[j].status = "RUNNING"
     THEN [jobs[j] EXCEPT !.handle = TRUE] ELSE jobs[j]]

HandoffReady(jobs, runs, j) ==
  /\ jobs[j].status = "RETRYING" /\ jobs[j].pending
  /\ jobs[j].handle /\ runs[<<j, jobs[j].attempts>>].handle
  /\ runs[<<j, jobs[j].attempts>>].state = "TERMINATED"

\* _complete_pending_thunder_capacity_handoffs, the rows and the leases
HandedOff(jobs, runs) ==
  [j \in Jobs |->
     IF HandoffReady(jobs, runs, j)
     THEN [jobs[j] EXCEPT !.pending = FALSE, !.handle = FALSE] ELSE jobs[j]]

HandoffLeases(jobs, runs) ==
  [s \in Slots |->
     IF /\ lease[s].job # NoJob
        /\ HandoffReady(jobs, runs, lease[s].job)
        /\ ~HasActiveRun(lease[s].job)
     THEN Unlocked ELSE lease[s]]

\* Mutant: a run whose termination was asked for is left to who asked for it.
OrphanedUnlessAsked(jobs, runs, r) ==
  /\ runs[r].handle /\ runs[r].state \notin {"TERMINATING", "TERMINATED"}
  /\ ~(jobs[r[1]].status = "RUNNING" /\ jobs[r[1]].attempts = r[2])

\* _find_orphaned_thunder_sandbox_runs
Orphaned(jobs, runs, r) ==
  /\ runs[r].handle /\ runs[r].state # "TERMINATED"
  /\ \/ runs[r].state = "TERMINATING"
     \/ ~(jobs[r[1]].status = "RUNNING" /\ jobs[r[1]].attempts = r[2])

\* The provider may still create the sandbox of the run.
MayComeUp(r) ==
  \/ sandbox[r] = "requested"
  \/ \E w \in Workers : At(w, "launching") /\ RunOf(w) = r

\* Mutant: the inventory is not consulted.
FinalizableUnseen(jobs, runs, r) ==
  /\ runs[r].state \in {"PROVISIONING", "TERMINATING"} /\ ~runs[r].handle
  /\ ~(jobs[r[1]].status = "RUNNING" /\ jobs[r[1]].attempts = r[2])

\* _finalize_unprovisioned_thunder_runs: a run without a handle, past the grace,
\* that the inventory does not name.  The grace is taken to be long enough for the
\* provider's answer to a create call.
Finalizable(jobs, runs, r) ==
  /\ runs[r].state \in {"PROVISIONING", "TERMINATING"} /\ ~runs[r].handle
  /\ ~(jobs[r[1]].status = "RUNNING" /\ jobs[r[1]].attempts = r[2])
  /\ sandbox[r] # "alive"
  /\ ~MayComeUp(r)

\* The sweep's transaction, the inventory at hand or not.  S are the jobs it finds
\* stale, F the runs it finds past the grace.
SweepTransaction(inventory, S, F) ==
  LET jobs1 == Reaped(S)
      runs1 == IF inventory THEN RecoveredRuns(jobs1) ELSE run
      jobs2 == IF inventory THEN RecoveredJobs(jobs1) ELSE jobs1
  IN /\ \A r \in Runs : sweep[r] = "no"
     /\ \A r \in F : inventory /\ Finalizable(jobs2, runs1, r)
     /\ job' = HandedOff(jobs2, runs1)
     /\ lease' = HandoffLeases(jobs2, runs1)
     /\ run' = [r \in Runs |-> IF r \in F THEN [runs1[r] EXCEPT !.state = "TERMINATED"]
                               ELSE runs1[r]]
     /\ sweep' = [r \in Runs |-> IF Orphaned(jobs2, runs1, r) THEN "listed" ELSE "no"]
     /\ UNCHANGED <<sandbox, worker>>

RunningJobs == {j \in Jobs : job[j].status = "RUNNING"}

\* terminate_sandbox_run of a listed run.
SweepRequest(r) ==
  /\ sweep[r] = "listed"
  /\ run' = Terminating(r)
  /\ sweep' = [sweep EXCEPT ![r] = "asked"]
  /\ UNCHANGED <<job, lease, sandbox, worker>>

SweepTeardown(r, ok) ==
  /\ sweep[r] = "asked"
  /\ sandbox' = IF ok THEN Stop(r) ELSE sandbox
  /\ sweep' = [sweep EXCEPT ![r] = IF ok THEN "stopped" ELSE "failed"]
  /\ UNCHANGED <<rows, worker>>

SweepMark(r) ==
  /\ sweep[r] \in {"stopped", "failed"}
  /\ run' = IF sweep[r] = "stopped" THEN Terminated(r) ELSE Failed(r)
  /\ sweep' = [sweep EXCEPT ![r] = "no"]
  /\ UNCHANGED <<job, lease, sandbox, worker>>

\* The handoffs again, once the teardowns are through.
SweepHandoffs ==
  /\ \A r \in Runs : sweep[r] = "no"
  /\ \E j \in Jobs : HandoffReady(job, run, j)
  /\ job' = HandedOff(job, run)
  /\ lease' = HandoffLeases(job, run)
  /\ UNCHANGED <<run, sandbox, worker, sweep>>

SweepCrash ==
  /\ \E r \in Runs : sweep[r] # "no"
  /\ sweep' = [r \in Runs |-> "no"]
  /\ UNCHANGED <<rows, sandbox, worker>>

\* Mutant: the cleanup leaves a lease that was never bound.
ClearableWhenBound(s) ==
  lease[s].job # NoJob /\ ~HolderRuns(s) /\ ~HasActiveRun(lease[s].job)

Clearable(s) ==
  lease[s].by # NoOne /\ ~HolderRuns(s) /\ ~HasActiveRun(lease[s].job)

\* cleanup_sandbox_capacity_leases: expired leases, and bound ones that were taken
\* longer ago than the grace.
CleanupLeases(aged) ==
  LET cleared == {s \in Slots : Clearable(s) /\ (~lease[s].live \/ s \in aged)} IN
  /\ cleared # {}
  /\ lease' = [s \in Slots |-> IF s \in cleared THEN Unlocked ELSE lease[s]]
  /\ UNCHANGED <<job, run, sandbox, worker, sweep>>

-----------------------------------------------------------------------------
WorkerStep(w) ==
  \/ Acquire(w) \/ Claim(w) \/ Leave(w)
  \/ CreateRun(w) \/ RequestSandbox(w) \/ MarkProvisioned(w) \/ EndExecution(w)
  \/ RequestTermination(w) \/ Teardown(w) \/ MarkTerminated(w) \/ MarkFailed(w)
  \/ RecordOutcome(w) \/ Reroute(w) \/ RejectReroute(w)

SweepStepOf(r) ==
  SweepRequest(r) \/ SweepMark(r) \/ \E ok \in BOOLEAN : SweepTeardown(r, ok)

Next ==
  \/ \E w \in Workers : WorkerStep(w) \/ Heartbeat(w) \/ Crash(w)
  \/ \E r \in Runs : ProviderAnswers(r) \/ ProviderStops(r) \/ SweepStepOf(r)
  \/ \E j \in Jobs : ClaimElsewhere(j) \/ FinishElsewhere(j) \/ Cancel(j)
  \/ \E inventory \in BOOLEAN, S \in SUBSET RunningJobs, F \in SUBSET Runs :
       SweepTransaction(inventory, S, F)
  \/ SweepHandoffs \/ SweepCrash
  \/ \E s \in Slots : ExpireLease(s)
  \/ \E aged \in SUBSET {s \in Slots : lease[s].job # NoJob} : CleanupLeases(aged)

Spec == Init /\ [][Next]_vars

\* Jobs whose worker is gone: their heartbeat goes stale for certain.
Abandoned == {j \in RunningJobs : job[j].by \in Workers /\ At(job[j].by, "done")}

\* A sweep that reads the inventory, and finds stale and old what stays so.
ThoroughSweep ==
  LET jobs == Reaped(Abandoned) IN
  SweepTransaction(TRUE, Abandoned,
                   {r \in Runs : Finalizable(RecoveredJobs(jobs), RecoveredRuns(jobs), r)})

\* Processes that live go on, and executions end by their timeouts; the provider
\* answers.  The sweep runs on a timer: again and again it can read the inventory
\* and gets through, and of teardowns tried again and again one succeeds.
Fairness ==
  /\ \A w \in Workers : WF_vars(WorkerStep(w))
  /\ \A r \in Runs : /\ WF_vars(ProviderAnswers(r))
                     /\ WF_vars(SweepStepOf(r)) /\ SF_vars(SweepRequest(r))
                     /\ SF_vars(SweepTeardown(r, TRUE))
                     /\ SF_vars(sweep[r] = "stopped" /\ SweepMark(r))
  /\ SF_vars(ThoroughSweep)
  /\ \A s \in Slots : WF_vars(~HolderRuns(s) /\ ExpireLease(s))
  /\ WF_vars(CleanupLeases({}))

FairSpec == Spec /\ Fairness

-----------------------------------------------------------------------------
(* Properties.                                                             *)

\* The rows, the provider's sandboxes and the processes have their declared shape,
\* and only a job that was rerouted can be claimed past its attempts.
TypeOK ==
  /\ job \in [Jobs -> Job]
  /\ run \in [Runs -> Run]
  /\ lease \in [Slots -> Lease]
  /\ sandbox \in [Runs -> Sandbox]
  /\ worker \in [Workers -> Worker]
  /\ sweep \in [Runs -> SweepStep]
  /\ \A j \in Jobs : job[j].lane = "thunder" =>
       /\ job[j].attempts <= MaxAttempts /\ ~job[j].pending
       /\ job[j].status \in {"QUEUED", "RETRYING"} => job[j].attempts < MaxAttempts

\* "Its provider-wide capacity limit is shared across models, organizations, queue
\* keys": a sandbox that runs, or may yet come up, keeps a lease bound to its job,
\* whoever crashed, was reaped or cancelled, so there are never more than slots.
SandboxHoldsLease ==
  \A j \in Jobs :
    Cardinality({a \in Attempts : sandbox[<<j, a>>] \in {"requested", "alive"}})
      <= Cardinality({s \in Slots : lease[s].job = j})

\* The ledger closes a run only when its sandbox is gone and will not come up:
\* nobody looks for the sandbox of a TERMINATED run.
TerminatedIsGone ==
  \A r \in Runs :
    run[r].state = "TERMINATED" => sandbox[r] # "alive" /\ ~MayComeUp(r)

\* A heartbeat of a worker that has its job finds the lease it has to renew:
\* SandboxCapacityLeaseLostError, which would end a healthy trial, is not raised.
RunnerKeepsLease ==
  \A w \in Workers :
    /\ worker[w].job # NoJob /\ worker[w].pc \notin {"leaving", "done"}
    /\ Owns(w)
    => lease[worker[w].slot].by = w /\ lease[worker[w].slot].job = worker[w].job

\* "Make fallback jobs claimable only after their Thunder run is terminal": while
\* the job runs elsewhere, the sandbox of the attempt that was rerouted is gone.
HandoffWaits ==
  \A r \in Runs :
    /\ job[r[1]].lane = "default" /\ job[r[1]].status = "RUNNING"
    /\ run[r].state # "NONE" /\ \A a \in Attempts : a > r[2] => run[<<r[1], a>>].state = "NONE"
    => sandbox[r] # "alive"

\* Whatever crashes and whichever teardown fails, a sandbox is stopped in the end.
SandboxesStop == []<>(\A r \in Runs : sandbox[r] # "alive")

\* A rerouted trial does not wait for its teardown for ever.
HandoffsComplete ==
  \A j \in Jobs : []<>~(job[j].pending /\ job[j].status = "RETRYING")

\* The provider's capacity comes back: a lease that its worker left behind is freed.
LeasesReturn ==
  []<>(\A s \in Slots, w \in Workers : lease[s].by = w => ~At(w, "done"))
=============================================================================
