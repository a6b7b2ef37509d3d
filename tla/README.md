# Oddish in TLA+

Oddish runs Harbor trials for many users on shared workers. Postgres is its only
coordinator: rows of a few tables are the queue, the locks and the results, and
processes that may die at any moment (API handlers, a dispatcher, worker
containers, a reconcile sweep) meet only in those rows. This directory specifies
that coordination in TLA+, model-checks it with TLC, and proves the central
invariants for any number of trials, workers and attempts with TLAPS.

Paths below are relative to `src/oddish/src/oddish/` unless they start with `src/`.

## The system

| Component | State it keeps | Operations | What makes it correct | Status |
|---|---|---|---|---|
| Trial jobs (`queue.py`, `workers/queue/worker_job_single_job.py`, `trial_handler.py`, `workers/jobs/`, `cleanup.py`, `core/endpoints/trials.py`) | `worker_jobs` and `trials` rows; what a worker remembers of its attempt | submit, claim, check, prepare, Harbor events, heartbeat, settle, record outcome, reap, cancel, retry | one holder per job; attempts within budget; only the current attempt publishes; a replaced trial is frozen; every job closes; the two rows agree | `TrialJobs`, `WorkQueue`, proved but for liveness |
| Queue slots (`workers/queue/slots.py`, `src/backend/worker/functions.py`, `cleanup.py`) | `queue_slots` leases with launch reservations | reserve, revoke, adopt, acquire, claim, release, two sweeps | workers within the limit; tokens good once; no lease taken from a busy worker, none leaked | `QueueSlots`, proved but for liveness |
| Spawn planner (`dispatch/cycle.py`, `worker_job_dispatcher.py`) | rotation cursors in `queue_dispatch_state` | build a plan from demand, limits, leases | within every cap; no capacity left over; no class or organisation starves | `SpawnPlan`, safety proved |
| Baseline gate (`queue.py`, `core/baseline_gate.py`, `cleanup.py`) | BLOCKED jobs, SKIPPED trials | gate, resolve, release, sweep | verdicts rest on final results; no release past running or failing baselines; a skipped trial never runs; every BLOCKED job is resolved | `BaselineGate`, safety proved, verdicts under `~LateStart` |
| Task stages, QA, verdicts (`queue.py`, `workers/analysis_trials.py`, `core/verdict_state.py`) | task status, verdict columns, QA/audit trials | admit a QA trial, import its result, heal | one QA run at a time; a verdict belongs to the source, the audit and the trials it read; a cancel holds; no task stuck | `QaStage`, safety proved |
| Sandbox ledger and capacity leases (`runtime/sandbox_lifecycle.py`, `workers/queue/sandbox_capacity.py`) | `sandbox_runs`, `sandbox_capacity_leases` | create run, mark provisioned, terminate, lease, release, reroute | no sandbox without somebody to stop it; capacity held while it lives; a handoff waits for teardown | `SandboxLedger` (Thunder lane), safety proved |
| Model capacity (`workers/queue/model_capacity.py`) | request and token reservations per window | reserve, settle, observe | load within the pool; a lost settle decays | planned |
| Quotas (`core/quota_*.py`) | cost sums, pauses | admit, enforce, pause | decisions over amounts, see below | the cancel is an action of `BaselineGate` |
| Concurrency limits (`core/model_concurrency.py`, `workers/queue/concurrency_controller.py`) | override rows, advisory limits | read the effective limit | fails closed | a variable of `QueueSlots` |
| Harbor, agents, sandbox providers | outside processes | run a trial, create and stop sandboxes | | environment of `TrialJobs` and `SandboxLedger` |
| API and auth, files and storage, tags, costs, CLI, MCP, frontend, deployment | | request handling, I/O, derived data | | not modelled |

How they interact: the API inserts a trial and its job in one transaction. The
dispatcher reads demand, reserves slots under tokens and asks the remote platform
to start workers with those tokens. A worker adopts the slot, claims jobs
(`FOR UPDATE SKIP LOCKED`), runs each through a handler that writes the trial row
at many points (preparation, Harbor's callbacks, heartbeats, settlement, hooks),
then records the outcome on the job row. The sweep reaps jobs whose heartbeat
stopped and leases whose holder is gone. Cancels and retries write both rows under
the task lock while all of this goes on. On the Thunder lane the worker holds a lease on
the provider's capacity as well, and the ledger of `sandbox_runs` is what lets the sweep
stop a sandbox whose worker is gone. When the last trial of a task settles, admission
creates a QA trial, an ordinary trial again, whose result is imported into the task.

What is hard here is that no step of one process is atomic with the next: a worker
that was reaped may still be alive and come back with events and results, the two
rows are written by different statements, a call whose failure was reported may
have been accepted, and each row has its own attempt counter. `PROJECT.json` lists
the hazards, each at its line.

## Modules

**`WorkQueue`**, abstract: items that are enqueued with a limit, waiting, held by one
holder, put back while tries remain, and closed for good. No heartbeats, no trials.

**`TrialJobs`**, the core. Each action is one transaction or one autocommit statement.

| Variable | In the code |
|---|---|
| `job[t]` | the `worker_jobs` row of kind TRIAL with subject `t`: `status`, `attempts`, `max_attempts`, `current_worker_id`; `beating` abstracts `heartbeat_at` |
| `trial[t]` | the `trials` row: `status`, `attempts`, `max_attempts`, `current_worker_id`, `error_message` (none, the user-cancel text, any other), `harbor_stage`, `finished_at`, `idempotency_key`, `superseded_by_trial_id` |
| `worker[w]` | where the process is in claim, handler and outcome, and the attempt its `PreparedTrialRun` names |
| `retrying` | retry requests between their unlocked read and their transaction |
| `cancels` | how many cancels were made (a bound) |

| Action | Code |
|---|---|
| `Submit` | `create_task` and the two bulk inserts |
| `Claim` | `_CLAIM_WORKER_JOB_SQL` |
| `CheckIdempotency`, `PrepareTrialRun`, `ClaimAttempt` | the start of `run_trial_job`, `_prepare_trial_run`, the conditional update in `_prepare_claimed_trial_attempt` |
| `HarborEnd`, `HarborCancel` | `_handle_harbor_event`; events that change only the stage text are not distinguished |
| `TouchTrialExecution`, `HeartbeatWorkerJob` | the two transactions of a tick of `_heartbeat_trial_execution` |
| `Settle`, `RunPostTrialHooks` | `_store_trial_results`, `_finish_trial_settlement` |
| `HandlerOutcome`, `HandlerRaises`, `RecordOutcome`, `MarkTrialRetrying` | `TrialJobHandler.run`, the exception branches of `run_single_worker_job`, the two statements of `_record_outcome` |
| `HeartbeatLapses`, `ReapStaleJob`, `ClearTerminalRefs` | time; `_reap_stale_worker_jobs` with its mirror; `clear_terminal_trial_runtime_refs` |
| `CancelRuns` | `cancel_tasks_runs` over any set of trials |
| `RequestRetry`, `CommitRetry`, `RejectRetry` | the unlocked checks of `retry_trial_core` and its transaction, or its 409 |
| `Crash` | the process dies at any step |

Three choices bound what `TrialJobs` says, each a named operator or constant:

- `RetryDelayElapsed`: the second statement of a retry runs before the job can be
  claimed again. The delay is at least 30 seconds (`calculate_trial_retry_delay_seconds`),
  the gap two statements; a job that a reaper puts back is delayed likewise.
- `StallPoints`: where a live worker may stay silent past the stale threshold (15
  minutes). `claimed` and `checked` are not in the runs' sets: these two steps are a
  few statements long. They matter, for `_prepare_trial_run` checks no ownership: with
  them TLC finds `SuccessAgrees` violated, by a worker that takes the trial back from
  the attempt that replaced it.
- A worker id is reused after a crash. The code draws a new one, but a row naming a
  dead process is only ever compared with ids of live ones.

`TrialJobs` has no BLOCKED or SKIPPED rows and no soft deletion, which are in
`BaselineGate`, the Thunder reroute is in `SandboxLedger`, and PAUSED trials are left out.

**`QueueSlots`**: the leases of one queue key.

| Variable | In the code |
|---|---|
| `lease[s]` | the `queue_slots` row: `locked_by`, whether `locked_until` is ahead, whether `locked_at` is older than the sweep's grace, `launch_demand` |
| `launch[k]` | what became of the remote call made with token `k` |
| `worker[w]` | where `_run_one_job` is, its token, its slot, the limit it read |
| `running` | ids that a RUNNING `worker_jobs` row names |
| `limit`, `plan` | the effective limit now, and the one a reservation in progress was planned with |

| Action | Code |
|---|---|
| `BuildPlan`, `ReserveLaunches` | the planner's read of the limit and the reservation in `reserve_queue_launches` |
| `AcceptCall`, `RevokeLaunches`, `EndCycle` | `poll_queue`: the spawn calls, `release_launch_reservations` for failed or cancelled ones, the end of the cycle |
| `StartWorker`, `ReadLimit`, `AcquireSlot`, `ClaimJob`, `FinishJob`, `Unwind`, `ExitWorker`, `Crash` | `_run_one_job`, `acquire_queue_slot`, `drain_worker_jobs`, `release_queue_slot` |
| `LoseJob` | the RUNNING row is reaped or cancelled |
| `ExpireLease`, `AgeLease`, `ClearStaleSlots`, `ReleaseOrphanedSlots` | time; the two sweeps |
| `ChangeLimit` | an operator changes the override |

Its assumptions: `LeaseOutlivesWorker` (the lease is taken for the container's timeout
and 30 seconds more, so a live worker's lease does not expire) and
`GraceCoversFirstClaim` (the sweep's two minutes cover acquisition to first claim, which
is what the constant's comment says of it). `FOR UPDATE SKIP LOCKED` is modelled as a
choice of any open slot: which rows are locked at that instant is not known. Keys share
nothing but the planner's row lock, so one key is enough. The in-process backend
(`dispatch/backends/inprocess.py`) is the worker without a token.

**`BaselineGate`**: one (task, task version, experiment) scope, in which LLM trials wait
BLOCKED for the nop and oracle trials.

| Variable | In the code |
|---|---|
| `row[t]` | the trial's `trials` row and `worker_jobs` row: both statuses, the job's attempts, `reward`, `harbor_stage`, whether it is superseded or deleted |
| `pc[b]` | where the process that claimed a baseline is |
| `gate` | the transaction that holds the task row: the statement it is at, the BLOCKED trials it read, the rows it wrote and has not committed, its verdict |
| `gateOn` | `settings.gate_llm_on_baselines` |
| `requests` | requests after the submission (a bound) |
| `judged` | history: baselines that a verdict was based on |

| Action | Code |
|---|---|
| `GateCount`, `GateEvaluate`, `GateApply` | the statements of `_resolve_baseline_gate_for_scope` after it took the lock: count the pending, read the outcomes, release or skip |
| `Submit`, `Append`, `Retry` | `create_task`, `append_trials_to_task`, `retry_trial_core`, the last two with `apply_baseline_gate_to_new_llm_trials` |
| `Claim`, `Prepare`, `HarborEvent`, `Settle`, `RunPostTrialHooks`, `RecordOutcome`, `HandlerRaises`, `StopRun`, `Crash` | the run of a baseline, as in `TrialJobs` but in fewer steps |
| `RunLlm` | the run of an LLM trial, of which the gate sees nothing |
| `Sweep` | the reap of any set of dead baselines with its mirror, then `_advance_running_tasks_to_analysis` with the backstop |
| `CancelRuns`, `CancelForQuota`, `DeleteTrial`, `SwitchFlag` | `cancel_tasks_runs`, `cancel_trials_if_quota_reached` with `release_gate_after_quota_cancel`, `delete_trial_core`, an operator |

The gate is one transaction under the task's lock, but READ COMMITTED lets every
statement see what others committed meanwhile, and claims, preparations, settlements,
reaps, outcomes and deletions do not take that lock. So each statement is an action.
Rows that the open transaction wrote are locked (`Free`) until it ends. If it is the
hook's and the worker dies, it is rolled back; one made by a request writes its rows
first and is taken to end.

- `LateStart`: may a worker prepare a trial after it lost the job? FALSE in the runs, the
  same few statements that `StallPoints` leaves out above. With TRUE, TLC finds
  `VerdictsStand` violated: a quota cancel closes a claimed baseline and resolves the
  gate, and the worker starts it between the count and the evaluation. `ReleasedWhenClean`
  fails with it.
- A process other than that one writes to its trial only while it holds the job, a run
  has one terminal Harbor event at most, and a retry takes any trial that runs for a
  stuck one. `TrialJobs` has the finer steps.
- The status of the task itself is left out: the hook of a task that was cancelled
  returns early, and its scope is resolved by the sweep, as after any other hook.

Two observations the model makes plain. The comment at `cleanup.py:1629` says that
normally the last baseline's handler resolves the gate; but its hook runs before its
own job's outcome is recorded, the count includes that job, and so the hook never
resolves the scope of the last baseline: the sweep, an append, a retry or a quota cancel
does. And a scope may be `Abandoned`: if all its baselines are deleted, or one is
stuck RUNNING under a FAILED job, nothing in the code resolves its BLOCKED jobs.

**`SandboxLedger`**: the attempts of jobs on the Thunder lane.

| Variable | In the code |
|---|---|
| `job[j]` | the `worker_jobs` row: status, attempts, owner, execution lane, whether it names an external handle, and whether a capacity teardown is pending |
| `run[<<j, a>>]` | the `sandbox_runs` row of attempt `a`: state and whether `external_id` is stored; TERMINATED stands for `terminated_at` too |
| `lease[s]` | the `sandbox_capacity_leases` row: holder, bound job, whether `locked_until` is ahead |
| `sandbox[<<j, a>>]` | what the provider did: none, asked, refused, alive, gone |
| `worker[w]` | where the worker is, its slot, job and attempt, and whether it met a capacity miss |
| `sweep[r]` | the runs the sweep is terminating, and at which step |

| Action | Code |
|---|---|
| `Acquire`, `Claim`, `Heartbeat`, `Leave` | `acquire_sandbox_capacity_lease`, the claim with its `capacity` CTE, the lease half of `heartbeat_worker_job`, `release_sandbox_capacity_lease` |
| `CreateRun`, `RequestSandbox`, `MarkProvisioned` | `create_thunder_sandbox_run`, Harbor's create call, `mark_environment_provisioned` with its late-handle branch |
| `EndExecution`, `RequestTermination`, `Teardown`, `MarkTerminated`, `MarkFailed` | the end of `run_trial_job` and the steps of `terminate_sandbox_run` |
| `RecordOutcome`, `Reroute`, `RejectReroute` | `_record_outcome`, `_record_reroute_outcome` |
| `ClaimElsewhere`, `FinishElsewhere` | the job on another lane after a reroute |
| `Cancel` | `cancel_tasks_runs`, what it does to the job |
| `SweepTransaction`, `SweepRequest`, `SweepTeardown`, `SweepMark`, `SweepHandoffs`, `SweepCrash` | `cleanup_orphaned_queue_state`: reap, recover handles from the inventory, hand off, list orphans and finalise what never came up in one transaction; then, after the commit, the teardowns and the handoffs again |
| `CleanupLeases` | `cleanup_sandbox_capacity_leases` |
| `ProviderAnswers`, `ProviderStops`, `ExpireLease`, `Crash` | the provider, time, death of a worker |

What it abstracts: a handle is there or not. The inventory is read just before the
sweep's transaction and is taken as what the provider has at that moment. The trial row
has checks of its own in a reroute: `RejectReroute` may always happen. One sweep runs at a
time. A rerouted job may be claimed once more than `max_attempts`, as in the code, which
does not look at the budget there. Workers are one-shot, with ids of their own, as in the
code, so a behaviour ends when they are used up. Two timing assumptions are named:
`MayComeUp`, the grace of the unprovisioned-run sweep outlasts a create call; and in
`CleanupLeases`, the two-minute grace from a lease's acquisition covers the first claim,
so only a bound lease counts as aged.

**`QaStage`**: one task from upload to verdict. A transaction is an operator from one
database state to the set of states it may leave, and an action commits one of them.

| Variable | In the code |
|---|---|
| `task` | the `tasks` row: status, default version, verdict and verdict status |
| `version[v]` | the `task_versions` row: bytes, audit status, which audit wrote `pre_trial`, `pre_trial_finished_at` |
| `agents`, `analyses` | `trials` rows of kind agent, and of kinds qa and audit, in creation order, with what they grade or are pinned to |
| `sweep` | the re-imports the sweep has listed and the step of the one under way |
| `requests` | user requests made (a bound) |

| Action | Code |
|---|---|
| `StartTask`, `SettleAgent`, `AgentHook`, `SkipAgent` | the first preparation, settlement, `_run_post_trial_hooks`, the gate's skip |
| `SettleAnalysis`, `WorkerImport` | settlement of a QA or audit trial; the steps of `handle_analysis_trial_settled`: store grades or the audit, publish, re-enter admission |
| `AgentWorkerLost`, `AnalysisWorkerLost` | the worker dies between settling and those steps |
| `SweepTransaction`, `SweepImport` | `_advance_running_tasks_to_analysis`, `_heal_stale_verdict_pending` and `_heal_stale_audit_imports`, then the imports they list, outside the transaction |
| `AppendTrial`, `RetryTrial` | `append_trials_to_task`, `retry_trial_core` |
| `RerunQa`, `RerunAudit` | `backfill_task_analysis_core` with force, `rerun_pre_trial_audit_core` |
| `SwitchVersion`, `OverwriteVersion` | `set_task_default_version_core` or an upload of a new version, an in-place upload |
| `CancelQa`, `CancelRuns` | `cancel_task_qa_core`, `cancel_tasks_runs` |

Every transaction holds the task row or the version row, so it is one action. What is
interleaved is what lies between: settling, grading, publishing, admitting. The audit
fingerprint is the version's record. `Admit` is `maybe_start_task_qa_stage`, which every
path ends in. What it abstracts: an artifact is valid or not (`good`, `bad`) for as long as the
trial exists; a lost worker and a reaped job are one step; an append goes to the default version; findings of
deterministic baselines judge only a task without a gradable trial; trials cancelled by an
experiment or a quota look like skipped ones. Left out: the kind summarize, the legacy
ANALYZING status and job kinds, backfills without force, and the branch of the hook for a
trial re-attempted in place.

**`SpawnPlan`**: `build_spawn_plan`, one action per turn of an organisation.

| Variable | In the code |
|---|---|
| `queued`, `free`, `laneFree` | `org_to_unit_queued`, `global_capacity`, `lane_capacity` |
| `cursors` | the persisted fairness cursors, modulo what they are used modulo |
| `plan` | launches `spawn_plan` has for each organisation |
| `loop` | the `while` and `for`: whose turns are left in this round, whether it progressed |

`StartPlan` takes any demand and any free capacity: what happens to jobs between two polls
is not restricted, so what holds here holds under every arrival and every completion.
`Launch`, `Skip`, `NextRound` and `EndPlan` are the body and the exits of the loops. One
plan is made at a time, under the lock of the cursor row. Whether a launch comes about is `QueueSlots`'
business. The standalone cycle passes no cursors and makes every plan from the first
organisation: what is said between plans is about the hosted dispatcher.

The `MC...` modules only add symmetry sets. Operators marked "Mutant" are used by no
definition: each is what a named definition would be after a plausible mistake, and the
property it belongs to fails with it.

## Runs

| Run | Instance | What it shows |
|---|---|---|
| `trialjobs_attempts` | 1 trial, 2 workers, 3 attempts, 1 cancel, all stalls and exceptions | `TypeOK`; `BudgetInv`: a job is never claimed past its budget, and a trial never counts more attempts than its job was claimed; `SuccessAgrees`: a SUCCESS job has a SUCCESS trial; `CurrentAttemptPublishes`: a success is published only by the job's holder for the attempt the trial is on; `FinishedNotRerun`: a terminal trial is set RUNNING only under a job that a user cancelled; `JobsSettle`: every active job closes |
| `trialjobs_retry` | 2 trials, 2 workers, 2 attempts, 1 cancel | `SupersededFrozen`: a replaced trial's record never changes; `ImplementsQueue`: refinement of `WorkQueue` |
| `queueslots` | 2 slots, 1 token, 2 workers, any limit | `TypeOK`, `TokenAdoptedOnce`, `DemandCountsUnclaimed`, `AdmissionWithinLimit`, `BusyLeaseKept`, `LeakedLeaseReturns` |
| `baselinegate` | 2 oracles, 1 LLM trial, 2 attempts, 1 request after the submission | `TypeOK`; `VerdictsStand`: a baseline that counted is done, on trial and job, and what it showed never changes; `ReleasedWhenClean`: at the write of a release no baseline is pending and all that count pass; `SkippedNeverRuns`; `BlockedIsResolved`: a BLOCKED job is resolved unless the scope is `Abandoned` |
| `sandboxledger` | 1 job, 2 attempts, 2 workers, 2 slots | `TypeOK`; `SandboxHoldsLease`: every sandbox that is up, or asked for, keeps a lease bound to its job; `TerminatedIsGone`: no sandbox lives under a TERMINATED run; `RunnerKeepsLease`: a worker that has its job has its lease, so no heartbeat ends a healthy trial; `HandoffWaits`: a rerouted job is not claimed before the sandbox it left is gone |
| `sandboxledger_live` | 1 job, 1 attempt, 2 workers, 1 slot | `SandboxesStop`, `HandoffsComplete`, `LeasesReturn` |
| `qastage` | 2 versions, 2 agent trials, any 1 request, 2 workers between settling and leaving | `TypeOK`; `OneLiveQa`; `VerdictIsCurrent`: a stored verdict fits the source and the audit of now, and its QA trial is the newest; `GradesMatchVerdict`: the grades are those of the run that gave the verdict; `CancelHolds`: only a request reopens a cancelled task; `WithdrawnFirst`: no verdict replaces another directly; `TaskCloses`, `AuditsArrive` |
| `spawnplan` | 2 organisations, a solver unit and an analysis unit on a lane, plans of up to 3 | `TypeOK`; `RoundRobin`: within a plan nobody gets two ahead of one that could be served; `NothingLeftOver`; `SingleLaunchesRotate`: plans with room for one launch serve everybody in the end; `ClassesShareTurns`: neither class of an organisation is shut out |
| `trialjobs_closed` | violation | a cancel between claim and preparation is undone on the trial, whose job stays closed |
| `queueslots_drain` | violation | the sweep frees the slot of a live worker between two jobs of a drain |
| `qastage_stale` | violation | a QA run that a retry left alone publishes over the new trial and completes the task |
| `spawnplan_starve` | violation | an organisation with work that fits is passed over in every plan |

The violations compare the code with one of its own comments or tests each; the findings in
`PROJECT.json` quote them. `trialjobs_closed` has a second way to fail, a job that ends
FAILED under a trial that stays open; with `MaxCancels = 0` TLC shows that one.

Bounds. Two workers on one trial are a reaped one and the one that replaced it, and ids are
used again after a crash, so the reaped one may come back as a third; three attempts are a
first, a middle and a last one, which the code treats differently; a second cancel finds
nothing that the first did not. Two trials are enough for a retry and its loser, since rows
of different trials meet only in a retry; a retry of a retry repeats it. Two slots are what
it takes for a limit to fall below a held slot, and for a worker to be revoked, reaped or
released beside another; a third repeats it. One token may be used by both workers, and the
worker without one is the other way to a slot; `QueueSlots_proofs` covers any number. The gate has
two baselines of one kind, so that one may be submitted and the other appended or made
by a retry of the first; the kinds differ in `Passes` only. One LLM trial is enough, as no
query compares two. Two attempts give the window in which the mirror reads FAILED
under a job that will be retried. One request after the submission meets every
statement of a gate that a worker, the sweep or the request itself opened.
A sandbox's lease, run and job are its job's own, so jobs meet only where one takes the lease another
left: two workers and two slots on one job show that, for its next attempt takes the other
slot while the first still stands for the old sandbox. Two attempts are one that is retried
or rerouted and a last one; `SandboxLedger_proofs` covers any number of either. The liveness instance is smaller because fairness is per run. A
task with two versions, two agent trials and one request meets every pair of a request and
an import in progress; the safety part was also run with two requests and one leaving worker (878 thousand
states), and `BaselineGate_proofs` and `QaStage_proofs` cover any number of trials, requests
and versions. Plans of three launches over two organisations have a first, a second and an
incomplete round; larger instances with three units repeat it at many times the cost, and
`SpawnPlan_proofs` proves the safety for any. The rotation of the units inside a class needs two
units of one class, which only `spawnplan_starve` has.

Deadlock. The `TrialJobs` runs do not check it: a finished system stops, and a trial
stranded RUNNING under a FAILED job has no action left, which is the finding above, not
an artefact. `BaselineGate`
and `QaStage` end likewise, and `SandboxLedger` when its one-shot workers are used up.
`QueueSlots` and `SpawnPlan` check it.

Fairness. `TrialJobs`: a worker's own steps, because a handler step ends or its
container is killed at its timeout (a killed worker is the `Crash` that needs no
fairness, after which the job is reaped); the claim of a waiting job by some worker, because the
dispatcher runs on a schedule and plans for every key with demand; a dead worker's
heartbeat going stale, which is time; the reap, which runs on a schedule. Users, Harbor
and heartbeats get none. `QueueSlots`: the sweeps, time, and the reaping of a dead
worker's job. The expiry of a worker's own lease, half a day away, gets none: the point of the
orphan sweep is not to wait for it. `BaselineGate`: the statements of an open transaction,
the steps of a live worker, claims, and the sweep, for the same reasons; requests, Harbor,
exceptions and crashes get none. The dispatcher never claims a BLOCKED job, so nothing
else moves one. `SandboxLedger`: a live worker's steps, as before; the provider's answer;
the sweep, whose every step recurs because it runs on a timer, so strongly fair where a
crash may always interrupt it: again and again one sweep reads the inventory and gets
through, and of teardowns tried again and again one succeeds, which is what the code's
retries count on; the expiry of a lease nobody renews. Crashes, cancels and the provider's
own stops get none. `QaStage`: trials settle (`TrialJobs`: `JobsSettle`), a worker between
settling and leaving goes on or is lost, the first sweep transaction recurs and of the
imports after it not every one dies at the same step. Nothing makes a worker's hook
succeed: every liveness property holds if all of them die. `SpawnPlan`: a plan ends and the
dispatcher polls again. Its liveness properties assume in their hypotheses which demand and
capacity recurs.

## Proofs

`TrialJobs_proofs` proves, for every set of trials, every finite set of workers and
every budget, stall set and raise set (`ConstantsAssumption` is all that is assumed):

| Theorem | Property |
|---|---|
| `TypeCorrect` | `TypeOK` |
| `RowsAgree` | `RowInv`: a job row exists exactly when its trial row does; a replaced trial is over, and so is its job |
| `SupersededTrialsFrozen` | `SupersededFrozen` |
| `BudgetKept` | `BudgetInv` |
| `JobsImplementQueue` | `ImplementsQueue` |

The argument. `JobStep`, `TrialStep` and `WorkerMemoryStep` say which actions write
which variable. `JobRowStep` and `TrialRowStep` then classify what any step does to one
row (kept, created, written, prepared, replaced; kept, enqueued, claimed, put back,
closed). Everything else is proved from those few effects and not from two dozen
actions. `SupersededFrozen` holds because every writer looks at the successor except
the reaper, the cancel and the retry, which need an active job or trial, and `RowInv` says a replaced trial
has neither. `BudgetInv` is not inductive: a worker between claim and preparation has
been counted by the job and not yet by the trial. `BudgetIInv` adds the number of such
workers to the trial's attempts, and that the job row of an unclaimed trial has no
attempts; a crash there lowers the sum, a preparation moves one from the set to the
counter. The refinement maps the row's status to a phase and `max_attempts = 0`, which a
retry of a cancelled trial may inherit, to a limit of one: such a job is still claimed
once.

`TrialJobs_outcomes` proves, under `PromptStart` (no worker falls silent between its claim
and its preparation; `StallPoints` has neither of these two steps) what is not true without it:

| Theorem | Property |
|---|---|
| `SuccessIsTrue` | `SuccessAgrees` |
| `OnlyCurrentAttemptPublishes` | `CurrentAttemptPublishes` |
| `FinishedStaysFinished` | `FinishedNotRerun` |

`OutcomeInv` relates where a worker is to both rows: until its preparation it holds the
job unless a user cancelled it (`EarlyHolds`), from then on its attempt is the trial's
while the job is its own (`AttemptIsCurrent`), an outcome it reports as a success is one the
trial shows (`OkIsSuccess`), and a retry it is about to mark is of a job nobody has claimed
since (`MarksUnclaimed`). `FinishedNotRerun` needs `FreshInv` as well: a trial gets its
idempotency key with its first attempt, a result without a key stands only under a closed
job, and a worker that is past the idempotency check has seen its trial unfinished, which
only a cancel changes before its preparation. The property is about the crash between the
two statements of a retry: the trial is FAILED, its job RETRYING, and the next claim must
leave it there.

`QueueSlots_proofs` proves, for any finite set of slots, any tokens, workers and limits:

| Theorem | Property |
|---|---|
| `TypeCorrect` | `TypeOK` |
| `SlotsInvariant` | `SlotInv` |
| `AdoptedOnce`, `DemandCounted` | `TokenAdoptedOnce`, `DemandCountsUnclaimed` |
| `BusyLeaseIsKept` | `BusyLeaseKept` |
| `AdmittedWithinLimit` | `AdmissionWithinLimit` |

`SlotInv` adds to the types that a token which was never used is on no lease and known to
no worker, that a token is on one lease at most, that a lease which still waits for its
worker was adopted by nobody, and that a worker between acquisition and claim, or at work,
owns the lease it remembers, with the demand that fits. The limit is a fact about one step: an acquisition and a
reservation both count what is held in the same transaction.

`SandboxLedger_proofs` proves, for any jobs, workers and attempts and any finite set of slots:

| Theorem | Property |
|---|---|
| `TypesHold` | `TypeOK` |
| `LedgerInvariant` | `LedgerInv` |
| `SandboxHasLease` | `SandboxHoldsLease` |
| `ClosedRunIsGone` | `TerminatedIsGone` |
| `RunnerHasLease` | `RunnerKeepsLease` |
| `HandoffIsSafe` | `HandoffWaits` |

`LedgerInv` has four layers. `Memory`: a run belongs to one worker for good, and a job
that is RUNNING for an attempt is in the hands of the worker that remembers the attempt.
`Ledger`: what the row of a run, the sweep's step and the worker's step say of the sandbox
(a handle means the provider answered, a closed run has nothing up). Leases: a worker keeps
its lease while its run is open or its job is its own, since a run is only created by a
worker whose job is its own. `Handed`: the newest run of a rerouted job is closed, or the
job waits for it and nobody runs it. `WorkersMove`, `JobsStay`, `RunsMove` and `HandoffMoves` say what any
step does to a worker, a job, a run and a handoff, and each layer is kept on these and the
layers below. `ClosedRunIsGone` rests on what the model assumes of the grace of
`_finalize_unprovisioned_thunder_runs` (`MayComeUp`): no create call outlives it.

`SpawnPlan_proofs` proves, for any organisations, units, models and lanes:

| Theorem | Property |
|---|---|
| `TypeCorrect` | `TypeOK` |
| `PlanInvariant` | `PlanInv` |
| `Rotates` | `RoundRobin` |
| `PlansAreMaximal` | `NothingLeftOver` |

`PlanInv` says of an organisation that could still be given a launch that it has had as
many as there were rounds, counting this one if its turn is over; nobody has had more; and that in a round which brought nothing yet, those
whose turn is over had nothing that fits. What is eligible only shrinks within a plan, so one
that was passed over stays out.

`BaselineGate_proofs` proves, for any baselines, LLM trials, attempts and requests:

| Theorem | Property |
|---|---|
| `GateShape` | `Shape` |
| `TypeCorrect` | `TypeOK` |
| `SkippedStaysClosed` | `SkippedNeverRuns` |
| `DecisionsHold`, if `~LateStart` | `Shape /\ Decided` |
| `VerdictsAreFinal`, if `~LateStart` | `VerdictsStand` |
| `ReleasesAreClean`, if `~LateStart` | `ReleasedWhenClean` |

`Decided` says that what the gate's transaction has read stays true until it writes, though
it locks none of the rows it reads: once it has counted no pending baseline there is none,
once it has decided to release, every baseline that counts passes, and a baseline that was
judged is settled. It holds because a closed job never opens again under the same trial,
and no row appears while the task is locked; each action is shown to treat every row so
(`Moves`: the shape of the row, what it keeps, what an open gate holds still), and `Shape` and
`Decided` are derived from `Moves` alone. `Shape` needs no hypothesis; the other three do,
for with `LateStart` a lost worker takes a settled trial back to RUNNING, which TLC shows.

`QaStage_proofs` proves, for any versions, trials, requests and leaving workers:

| Theorem | Property |
|---|---|
| `QaInvariant` | `Inv` |
| `TypeCorrect` | `TypeOK` |
| `OneQaAtATime` | `OneLiveQa` |
| `VerdictsAreCurrent` | `VerdictIsCurrent` |
| `GradesAreTheVerdicts` | `GradesMatchVerdict` |
| `CancelsHold` | `CancelHolds` |
| `VerdictsAreWithdrawn` | `WithdrawnFirst` |

`VerdictIsCurrent` is not inductive. That a verdict read the audit of now has to be known when
it is published, by an import that may have begun long before; so `AuditsFit` says that the
findings of a version are those of its newest audit and that a failed one has no audit
left that could deliver, and `AgentsAudited` that a version with trials has had an audit asked
for. That its grades are stored has to be known between the two transactions of an import, by
a worker (`ImportsGraded`) or by the sweep (`SweepFits`): they are there unless a newer QA trial
replaced the run, and the import of a run that is not the newest publishes nothing. `AnalysesFit`
says that the trials a QA trial grades have finished, so that nothing settles under a verdict.

As the model's transactions are operators on records of the database, so are the proof's
relations: `Kept` is shown of every such operator, in the order in which they call each other,
`Follows` of every transaction (a verdict or a cancelled task is replaced only by what may
replace it), and an action commits one of these. The rows that operators change inside
a transaction have names of their own (`Findings`, `CancelledAudit`, `Stopped`), which the lemmas
are about.

So every safety property that a passing run checks is proved. With TLC stays liveness, which needs
ENABLED and the provers do not have it: `JobsSettle`, `LeakedLeaseReturns`, `BlockedIsResolved`,
`SandboxesStop`, `HandoffsComplete`, `LeasesReturn`, `TaskCloses`, `AuditsArrive`,
`SingleLaunchesRotate` and `ClassesShareTurns`.

## Plan

1. Done, with the safety proved: `WorkQueue`, `TrialJobs`, `QueueSlots`, `SandboxLedger`,
   `SpawnPlan`, `BaselineGate`, `QaStage`.
2. An abstract specification of a task (open, judged, closed; a verdict that is withdrawn or
   current) that `QaStage` implements, as `TrialJobs` implements `WorkQueue`. The invariant it needs
   is `QaInvariant`.
3. `ModelCapacity`: reserve and settle against the window. Its properties are about rates,
   so it needs a discrete clock first.
4. The ledger for providers without a capacity lane, with the EC2 orphan scan.

## Observations without a run

Met while modelling, each by reading; none is stated by a run.

- A settlement that is dropped. Harbor's END event with an exception, or its CANCEL event,
  makes the trial FAILED before the worker settles (`trial_handler.py:1521`). On the last
  attempt `max_attempts <= attempts`, so `_store_trial_results` (line 995) reads the row as
  cancelled by the user: it stores metering only, and answers that no hooks are to run. The
  comment at line 2018 says "Persist one attempt result and run its terminal lifecycle
  exactly once". `TrialJobs` has the branch (`ReadsAsCancelled`).
- A success that is lost. A worker that dies after it stored a SUCCESS and before it
  recorded the job's outcome leaves a RUNNING job, and the reaper's mirror sets the trial
  back to RETRYING, or to FAILED on the last attempt, whatever its status is
  (`cleanup.py:349`). The trial is then run again. The docstring at `cleanup.py:1147` skips
  a row that is locked, because "mirroring would clobber it", and says nothing of a row that
  has been written and released. `FinishedNotRerun` does not cover this: the mirror makes the
  trial unfinished first.
- A baseline that errored is not counted. `_resolve_baseline_gate_for_scope` drops every
  baseline whose `harbor_stage` is cancelled (`queue.py:1875`), which the reaper's mirror
  stamps at the last attempt (`cleanup.py:375`) and Harbor's CANCEL event as well
  (`trial_handler.py:1571`), while `core/baseline_gate.py:18` says that a run that errored
  is not ignored. `BaselineGate` has the stamp.
- A cancelled audit that stays QUEUED. Cancelling the runs of a task cancels its audit
  trial (`queue.py:297`) but not the version's `pre_trial_status`, which only
  `cancel_task_qa_core` clears (`core/endpoints/qa.py:187`). Admission on that version then
  waits until somebody asks. `Abandoned` in `QaStage` names the state.
- A create that is answered after the run was finalised finds a TERMINATED run
  (`runtime/sandbox_lifecycle.py:298`) and stores the handle on it, where no sweep looks.
  `MayComeUp` in `SandboxLedger` assumes that the grace is longer than a create takes.

## What is not modelled

Quota admission sums costs; its decisions are arithmetic over amounts that the job
models abstract away. The cancel that enforces a quota is in `BaselineGate`; pauses are not modelled. The
self-tuning concurrency controller is deprecated and off by default. Provider
backends, Harbor and agents are code outside, or calls to it, and appear as what they may
answer. `ModelCapacity` is planned: request and token rates over a sliding window. The API layer validates
and authorises requests around operations that are modelled. Files, tags, browse
projections and costs are derived from the tables modelled here. Lock order inside a
transaction is not visible when a transaction is one action.
