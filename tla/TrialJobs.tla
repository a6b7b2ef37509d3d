------------------------------ MODULE TrialJobs ------------------------------
(***************************************************************************)
(* The life of a TRIAL job: the worker_jobs row that schedules it, the     *)
(* trials row that shows it, the worker that runs it, the sweep that reaps *)
(* it when its heartbeat stops, and the user who cancels or retries it.    *)
(*                                                                         *)
(* Every action is one database transaction (or one autocommit statement), *)
(* so that crashes and other actors fall between exactly the steps where   *)
(* the code lets them in.  What the model leaves out:                      *)
(*  - Time.  A retry delay ends, and a heartbeat goes stale, at any later  *)
(*    moment; the one delay the code relies on is RetryDelayElapsed.       *)
(*  - A worker identity is reused after a crash.  In the code it is a new  *)
(*    uuid, but a row that names a dead process is compared with no live   *)
(*    job of that process, so the two behave alike.                        *)
(*  - BLOCKED jobs and SKIPPED trials (baseline gate), PAUSED trials, soft *)
(*    deletion and the Thunder reroute, which other modules are about.     *)
(***************************************************************************)
EXTENDS Naturals, FiniteSets

CONSTANTS
  Trials,       \* ids of trial rows of one task, used or still to be created
  Submitted,    \* those a submission may create; retries may create any
  Workers,      \* worker processes
  NoTrial, NoWorker,
  MaxAttempts,  \* max_trial_attempts of the submission
  MaxCancels,   \* bound: how many cancel requests users make
  StallPoints,  \* handler steps a live worker may stay in, silent, past the
                \* stale-heartbeat threshold
  RaisePoints   \* handler steps that may fail with an exception

ASSUME ConstantsAssumption ==
  /\ MaxAttempts \in Nat \ {0}
  /\ MaxCancels \in Nat
  /\ Submitted \subseteq Trials
  /\ IsFiniteSet(Workers)
  /\ NoTrial \notin Trials
  /\ NoWorker \notin Workers
  /\ "idle" \notin RaisePoints

VARIABLES
  job,       \* [Trials -> Job]: the worker_jobs row whose subject is the trial
  trial,     \* [Trials -> Trial]
  worker,    \* [Workers -> Worker]: what the process remembers
  retrying,  \* <<t, n>>: a retry request read trial t with max_attempts = n
  cancels    \* number of cancel requests so far

vars == <<job, trial, worker, retrying, cancels>>

-----------------------------------------------------------------------------
ActiveJob == {"QUEUED", "RETRYING", "RUNNING"}
ClosedJob == {"SUCCESS", "FAILED", "CANCELLED"}
ActiveTrial == {"QUEUED", "RUNNING", "RETRYING"}
TerminalTrial == {"SUCCESS", "FAILED"}

Job == [status : {"none"} \cup ActiveJob \cup ClosedJob,
        attempts : Nat, max : Nat,
        owner : Workers \cup {NoWorker},
        beating : BOOLEAN]           \* heartbeat_at within the stale threshold

Trial == [status : {"none"} \cup ActiveTrial \cup TerminalTrial,
          attempts : Nat, max : Nat,
          owner : Workers \cup {NoWorker},
          error : {"none", "user", "other"},      \* error_message
          stage : {"none", "live", "completed", "cancelled"},  \* harbor_stage
          finished : BOOLEAN,                     \* finished_at IS NOT NULL
          keyed : BOOLEAN,                        \* idempotency_key is set
          next : Trials \cup {NoTrial}]           \* superseded_by_trial_id

Handling == {"claimed", "checked", "prepared", "running"}
Pc == {"idle", "hooks", "handled", "deciding", "marking"} \cup Handling

Worker == [pc : Pc, trial : Trials \cup {NoTrial},
           attempt : Nat,                         \* PreparedTrialRun.trial_attempt
           outcome : {"none", "ok", "retry", "fail"}]

NoJobRow == [status |-> "none", attempts |-> 0, max |-> 0,
             owner |-> NoWorker, beating |-> FALSE]
NoTrialRow == [status |-> "none", attempts |-> 0, max |-> 0,
               owner |-> NoWorker, error |-> "none", stage |-> "none",
               finished |-> FALSE, keyed |-> FALSE, next |-> NoTrial]
Idle == [pc |-> "idle", trial |-> NoTrial, attempt |-> 0, outcome |-> "none"]

\* Mutant: the superseded check is missing.
LiveUnchecked(t) == TRUE
Live(t) == trial[t].next = NoTrial

\* What the writes to the two tables have in common.
Released(row) == [row EXCEPT !.owner = NoWorker]
Shows(row, status, error) ==
  [row EXCEPT !.status = status, !.error = error,
              !.finished = status \in TerminalTrial]

Init ==
  /\ job = [t \in Trials |-> NoJobRow]
  /\ trial = [t \in Trials |-> NoTrialRow]
  /\ worker = [w \in Workers |-> Idle]
  /\ retrying = {}
  /\ cancels = 0

\* Mutant: the row keeps the retired PENDING status.
NewTrialRowPending(n) == [NoTrialRow EXCEPT !.status = "PENDING", !.max = n]

\* A trial row and its worker_jobs row are inserted in one transaction.
NewTrialRow(n) == [NoTrialRow EXCEPT !.status = "QUEUED", !.max = n]
NewJobRow(n) == [NoJobRow EXCEPT !.status = "QUEUED", !.max = n]

Submit(t) ==
  /\ t \in Submitted
  /\ trial[t].status = "none"
  /\ trial' = [trial EXCEPT ![t] = NewTrialRow(MaxAttempts)]
  /\ job' = [job EXCEPT ![t] = NewJobRow(MaxAttempts)]
  /\ UNCHANGED <<worker, retrying, cancels>>

-----------------------------------------------------------------------------
(* The worker: claim, run the handler, record its outcome.                 *)

At(w, pc) == worker[w].pc = pc
Goto(w, pc) == worker' = [worker EXCEPT ![w].pc = pc]
Decide(w, outcome) ==
  worker' = [worker EXCEPT ![w].pc = "deciding", ![w].outcome = outcome]

\* A retried trial becomes claimable 30 seconds or more after its worker put
\* it back: by then that worker's second statement has run, or never will.
RetryDelayElapsed(t) ==
  \A v \in Workers : ~(At(v, "marking") /\ worker[v].trial = t)

\* Mutant: the claim lost its status filter.
ClaimableActive(t) == job[t].status \in ActiveJob
Claimable(t) == job[t].status \in {"QUEUED", "RETRYING"}

Claim(w, t) ==
  /\ At(w, "idle")
  /\ Claimable(t)
  /\ RetryDelayElapsed(t)
  /\ job' = [job EXCEPT ![t] =
       [status |-> "RUNNING", attempts |-> job[t].attempts + 1,
        max |-> job[t].max, owner |-> w, beating |-> TRUE]]
  /\ worker' = [worker EXCEPT ![w] =
       [pc |-> "claimed", trial |-> t, attempt |-> 0, outcome |-> "none"]]
  /\ UNCHANGED <<trial, retrying, cancels>>

\* Mutant: a failed trial does not count as finished.
FinishedWell(t) == trial[t].keyed /\ trial[t].status = "SUCCESS"
Finished(t) == trial[t].keyed /\ trial[t].status \in TerminalTrial

\* run_trial_job skips a trial that an earlier attempt already finished.
CheckIdempotency(w) ==
  /\ At(w, "claimed")
  /\ Goto(w, IF Finished(worker[w].trial) THEN "handled" ELSE "checked")
  /\ UNCHANGED <<job, trial, retrying, cancels>>

RunningRow(row, w) ==
  [status |-> "RUNNING", attempts |-> row.attempts + 1, max |-> row.max,
   owner |-> w, error |-> "none", stage |-> "live", finished |-> FALSE,
   keyed |-> TRUE, next |-> row.next]

PrepareTrialRun(w) ==
  LET t == worker[w].trial IN
  /\ At(w, "checked")
  /\ \/ /\ ~Live(t)
        /\ Goto(w, "handled")
        /\ UNCHANGED trial
     \/ /\ Live(t)
        /\ trial' = [trial EXCEPT ![t] = RunningRow(trial[t], w)]
        /\ worker' = [worker EXCEPT ![w] =
             [worker[w] EXCEPT !.pc = "prepared", !.attempt = trial[t].attempts + 1]]
  /\ UNCHANGED <<job, retrying, cancels>>

\* _prepare_claimed_trial_attempt: the llm_key_hash UPDATE doubles as a check
\* that the attempt is still this worker's; otherwise the handler returns.
ClaimAttempt(w) ==
  LET t == worker[w].trial IN
  /\ At(w, "prepared")
  /\ Goto(w, IF /\ ~trial[t].finished
                /\ trial[t].attempts = worker[w].attempt
                /\ trial[t].owner = w
             THEN "running" ELSE "handled")
  /\ UNCHANGED <<job, trial, retrying, cancels>>

\* Mutant: off by one.
AttemptsLeftOffByOne(t) == job[t].attempts <= job[t].max

\* Whether a failed attempt leaves another one, by the job row's own budget.
AttemptsLeft(t) == job[t].attempts < job[t].max

\* Mutant: the compare-and-set names the status but not the worker.
HoldsAnyRunning(w, t) == job[t].status = "RUNNING"

\* The compare-and-set that guards every write of the worker to its job row.
HoldsJob(w, t) == job[t].status = "RUNNING" /\ job[t].owner = w

\* Mutant: only the trial row is looked at.
OwnsTrialRow(w, t) == trial[t].owner \in {NoWorker, w}

\* _worker_still_owns_trial
StillOwns(w, t) == trial[t].owner \in {NoWorker, w} /\ HoldsJob(w, t)

ReadsAsCancelled(t) ==
  \/ trial[t].error = "user"
  \/ trial[t].status = "FAILED" /\ trial[t].max <= trial[t].attempts

\* _handle_harbor_event drops the events of a lost, replaced or cancelled trial.
HearsHarbor(w, t) ==
  /\ At(w, "running")
  /\ Live(t)
  /\ StillOwns(w, t)
  /\ ReadsAsCancelled(t) => trial[t].error # "user" /\ trial[t].max = 0

\* Harbor's END event publishes a verdict before the worker settles: a reward
\* is a SUCCESS, as is an agent timeout that was verified, any other exception
\* is a FAILED, and with neither the status stays.
Ended(row, end) ==
  LET done == [row EXCEPT !.stage = "completed"] IN
  CASE end = "reward" -> Shows(done, "SUCCESS", row.error)
    [] end = "timeout" -> Shows(done, "SUCCESS", "other")
    [] end = "exception" -> Shows(done, "FAILED", "other")
    [] end = "neither" -> done

HarborEnd(w) ==
  LET t == worker[w].trial IN
  /\ HearsHarbor(w, t)
  /\ \E end \in {"reward", "timeout", "exception", "neither"} :
       trial' = [trial EXCEPT ![t] = Ended(trial[t], end)]
  /\ UNCHANGED <<job, worker, retrying, cancels>>

HarborCancel(w) ==
  LET t == worker[w].trial IN
  /\ HearsHarbor(w, t)
  /\ trial' = [trial EXCEPT ![t] =
       Shows([trial[t] EXCEPT !.stage = "cancelled"], "FAILED", "other")]
  /\ UNCHANGED <<job, worker, retrying, cancels>>

\* A tick of the heartbeat writes the two rows in transactions of their own, and
\* one of them may fail.  On the trial it re-takes an unowned RUNNING row ...
TouchTrialExecution(w) ==
  LET t == worker[w].trial IN
  /\ worker[w].pc \in {"running", "hooks"}
  /\ trial[t].status = "RUNNING" /\ Live(t)
  /\ trial[t].owner \in {NoWorker, w}
  /\ trial' = [trial EXCEPT ![t].owner = w]
  /\ UNCHANGED <<job, worker, retrying, cancels>>

\* ... and a worker that finds its job row lost stops the run, unless the run is
\* already over.
HeartbeatWorkerJob(w) ==
  LET t == worker[w].trial IN
  /\ worker[w].pc \in {"running", "hooks"}
  /\ \/ /\ HoldsJob(w, t)
        /\ job' = [job EXCEPT ![t].beating = TRUE]
        /\ UNCHANGED worker
     \/ /\ ~HoldsJob(w, t)
        /\ At(w, "running")
        /\ worker' = [worker EXCEPT ![w] = Idle]
        /\ UNCHANGED job
  /\ UNCHANGED <<trial, retrying, cancels>>

Heartbeat(w) == TouchTrialExecution(w) \/ HeartbeatWorkerJob(w)

\* _store_trial_results writes only for the worker and the attempt that still
\* own a live trial that does not read as cancelled.
MayStore(w, t) ==
  /\ Live(t)
  /\ trial[t].attempts = worker[w].attempt
  /\ ~ReadsAsCancelled(t)
  /\ StillOwns(w, t)

\* What a result makes of the trial: a retryable one uses the trial's budget.
SettledStatus(t, result) ==
  CASE result = "success" -> "SUCCESS"
    [] result = "terminal" -> "FAILED"
    [] result = "retryable" ->
         IF trial[t].attempts < trial[t].max THEN "RETRYING" ELSE "FAILED"

\* A failed preparation settles like a failed run.  Hooks follow only a settle
\* that stored a terminal status.
Settle(w) ==
  LET t == worker[w].trial IN
  /\ worker[w].pc \in {"prepared", "running"}
  /\ \E result \in {"success", "terminal", "retryable"} :
     \E error \in {"other", IF result = "success" THEN "none" ELSE trial[t].error} :
       LET status == SettledStatus(t, result) IN
       /\ At(w, "prepared") => result # "success"
       /\ \/ /\ MayStore(w, t)
             /\ trial' = [trial EXCEPT ![t] =
                  Released(Shows(trial[t], status, error))]
             /\ Goto(w, IF status \in TerminalTrial THEN "hooks" ELSE "handled")
          \/ /\ ~MayStore(w, t)
             /\ Goto(w, "handled")
             /\ UNCHANGED trial
  /\ UNCHANGED <<job, retrying, cancels>>

\* The hooks advance the task, not the trial; here they are a point to crash at.
RunPostTrialHooks(w) ==
  /\ At(w, "hooks")
  /\ Goto(w, "handled")
  /\ UNCHANGED <<job, trial, retrying, cancels>>

\* TrialJobHandler.run turns the trial row it reads back into a JobOutcome.
HandlerOutcome(w) ==
  LET status == trial[worker[w].trial].status IN
  /\ At(w, "handled")
  /\ Decide(w, CASE status = "SUCCESS" -> "ok"
                 [] status = "FAILED" -> "fail"
                 [] OTHER -> "retry")
  /\ UNCHANGED <<job, trial, retrying, cancels>>

\* An exception is a retryable failure; a refused authorization or undecodable
\* registry credentials are a final one.  Neither touches the trial.
HandlerRaises(w) ==
  /\ worker[w].pc \in RaisePoints
  /\ Decide(w, "retry") \/ Decide(w, "fail")
  /\ UNCHANGED <<job, trial, retrying, cancels>>

RecordOutcome(w) ==
  LET t == worker[w].trial
      outcome == worker[w].outcome
      again == outcome = "retry" /\ AttemptsLeft(t)
  IN
  /\ At(w, "deciding")
  /\ \/ /\ ~HoldsJob(w, t)
        /\ worker' = [worker EXCEPT ![w] = Idle]
        /\ UNCHANGED job
     \/ /\ HoldsJob(w, t) /\ again
        /\ job' = [job EXCEPT ![t] =
             Released([job[t] EXCEPT !.status = "RETRYING"])]
        /\ Goto(w, "marking")
     \/ /\ HoldsJob(w, t) /\ ~again
        /\ job' = [job EXCEPT ![t].status =
                     IF outcome = "ok" THEN "SUCCESS" ELSE "FAILED"]
        /\ worker' = [worker EXCEPT ![w] = Idle]
  /\ UNCHANGED <<trial, retrying, cancels>>

\* The second statement of a retry: unlike the first it names neither the
\* worker nor the status it expects.
MarkTrialRetrying(w) ==
  LET t == worker[w].trial IN
  /\ At(w, "marking")
  /\ trial' = IF Live(t)
              THEN [trial EXCEPT ![t] =
                     Released([trial[t] EXCEPT !.status = "RETRYING",
                                               !.error = "other"])]
              ELSE trial
  /\ worker' = [worker EXCEPT ![w] = Idle]
  /\ UNCHANGED <<job, retrying, cancels>>

Crash(w) ==
  /\ ~At(w, "idle")
  /\ worker' = [worker EXCEPT ![w] = Idle]
  /\ UNCHANGED <<job, trial, retrying, cancels>>

-----------------------------------------------------------------------------
(* The reconcile sweep.                                                    *)

\* heartbeat_at passes the stale threshold: the owner died, or is alive at a
\* step that may last that long or whose heartbeat writes fail.
HeartbeatLapses(t) ==
  /\ job[t].status = "RUNNING" /\ job[t].beating
  /\ \A w \in Workers :
       worker[w].trial = t /\ job[t].owner = w => worker[w].pc \in StallPoints
  /\ job' = [job EXCEPT ![t].beating = FALSE]
  /\ UNCHANGED <<trial, worker, retrying, cancels>>

\* Mutant: the sweep passes over jobs on their last attempt.
StaleWithAttemptsLeft(t) ==
  job[t].status = "RUNNING" /\ ~job[t].beating /\ AttemptsLeft(t)

Stale(t) == job[t].status = "RUNNING" /\ ~job[t].beating

\* One savepoint reaps a stale job and mirrors the result onto its trial.
ReapStaleJob(t) ==
  LET status == IF AttemptsLeft(t) THEN "RETRYING" ELSE "FAILED"
      row == IF AttemptsLeft(t) \/ trial[t].stage = "completed" THEN trial[t]
             ELSE [trial[t] EXCEPT !.stage = "cancelled"]
  IN
  /\ Stale(t)
  /\ job' = [job EXCEPT ![t] = Released([job[t] EXCEPT !.status = status])]
  /\ trial' = [trial EXCEPT ![t] = Released(Shows(row, status, "other"))]
  /\ UNCHANGED <<worker, retrying, cancels>>

\* clear_terminal_trial_runtime_refs
ClearTerminalRefs(t) ==
  /\ trial[t].status \in TerminalTrial
  /\ trial[t].owner # NoWorker
  /\ trial' = [trial EXCEPT ![t].owner = NoWorker]
  /\ UNCHANGED <<job, worker, retrying, cancels>>

-----------------------------------------------------------------------------
(* Users.                                                                  *)

\* max_attempts = attempts is how late Harbor events recognise a cancel.
CancelledRow(row) ==
  Released(Shows([row EXCEPT !.stage = "cancelled", !.max = row.attempts],
                 "FAILED", "user"))
CancelledJob(row) == Released([row EXCEPT !.status = "CANCELLED"])

\* cancel_tasks_runs over the trials S a request covers.
CancelRuns(S) ==
  LET hit == {t \in S : job[t].status \in ActiveJob}
      ended == hit \cup {t \in S : trial[t].status \in ActiveTrial}
  IN
  /\ cancels < MaxCancels
  /\ cancels' = cancels + 1
  /\ job' = [t \in Trials |->
       IF t \in hit THEN CancelledJob(job[t]) ELSE job[t]]
  /\ trial' = [t \in Trials |->
       IF t \in ended THEN CancelledRow(trial[t]) ELSE trial[t]]
  /\ UNCHANGED <<worker, retrying>>

\* retry_trial_core first reads the trial without a lock ...
RequestRetry(t) ==
  /\ Live(t)
  /\ \/ trial[t].status \in TerminalTrial
     \/ /\ trial[t].status \in {"RUNNING", "RETRYING"}
        /\ trial[t].error # "none" \/ trial[t].stage = "completed"
  /\ retrying' = retrying \cup {<<t, trial[t].max>>}
  /\ UNCHANGED <<job, trial, worker, cancels>>

\* ... and under the task lock replaces it, with whatever status it has by
\* then, unless another retry was first.  The new rows get the max_attempts
\* that the first read saw.
SupersededRow(row, new) ==
  IF row.status \in TerminalTrial THEN [row EXCEPT !.next = new]
  ELSE Released(Shows([row EXCEPT !.next = new], "FAILED",
                      IF row.error = "none" THEN "other" ELSE row.error))

CommitRetry(old, n, new) ==
  /\ <<old, n>> \in retrying
  /\ Live(old)
  /\ trial[new].status = "none"
  /\ trial' = [trial EXCEPT ![old] = SupersededRow(trial[old], new),
                            ![new] = NewTrialRow(n)]
  /\ job' = [job EXCEPT ![old] = IF job[old].status \in ActiveJob
                                 THEN CancelledJob(job[old]) ELSE job[old],
                        ![new] = NewJobRow(n)]
  /\ retrying' = retrying \ {<<old, n>>}
  /\ UNCHANGED <<worker, cancels>>

RejectRetry(old, n) ==
  /\ <<old, n>> \in retrying
  /\ ~Live(old)
  /\ retrying' = retrying \ {<<old, n>>}
  /\ UNCHANGED <<job, trial, worker, cancels>>

-----------------------------------------------------------------------------
\* What a worker does of its own accord, as opposed to what happens to it.
WorkerStep(w) ==
  \/ CheckIdempotency(w) \/ PrepareTrialRun(w) \/ ClaimAttempt(w)
  \/ Settle(w) \/ RunPostTrialHooks(w) \/ HandlerOutcome(w)
  \/ RecordOutcome(w) \/ MarkTrialRetrying(w)

WorkerEvent(w) ==
  HarborEnd(w) \/ HarborCancel(w) \/ Heartbeat(w) \/ HandlerRaises(w) \/ Crash(w)

SweepStep(t) == HeartbeatLapses(t) \/ ReapStaleJob(t) \/ ClearTerminalRefs(t)

UserStep(t) ==
  \/ Submit(t) \/ RequestRetry(t)
  \/ \E n \in 0 .. MaxAttempts : RejectRetry(t, n)
  \/ \E n \in 0 .. MaxAttempts, new \in Trials : CommitRetry(t, n, new)

Next ==
  \/ \E w \in Workers : WorkerStep(w) \/ WorkerEvent(w)
  \/ \E w \in Workers, t \in Trials : Claim(w, t)
  \/ \E t \in Trials : SweepStep(t) \/ UserStep(t)
  \/ \E S \in SUBSET Trials : CancelRuns(S)

Spec == Init /\ [][Next]_vars

\* The dispatcher keeps offering work, a handler step finishes or its worker
\* dies, a dead worker's heartbeat goes stale, and the sweep runs on a timer.
Fairness ==
  /\ \A w \in Workers : WF_vars(WorkerStep(w))
  /\ \A t \in Trials : /\ WF_vars(\E w \in Workers : Claim(w, t))
                       /\ WF_vars(HeartbeatLapses(t))
                       /\ WF_vars(ReapStaleJob(t))

FairSpec == Spec /\ Fairness
-----------------------------------------------------------------------------
(* Properties.                                                             *)

\* Every row and every worker's memory has its declared shape.
TypeOK ==
  /\ job \in [Trials -> Job]
  /\ trial \in [Trials -> Trial]
  /\ worker \in [Workers -> Worker]
  /\ \A w \in Workers : ~At(w, "idle") => worker[w].trial \in Trials
  /\ retrying \subseteq Trials \X Nat
  /\ cancels \in 0 .. MaxCancels

\* How often a job may be claimed.  A retry of a cancelled trial inherits the
\* max_attempts the cancel wrote, possibly 0, and is still claimed once.
Budget(t) == IF job[t].status = "none" THEN 0
             ELSE IF job[t].max = 0 THEN 1 ELSE job[t].max

\* However worker outcomes, reaps, cancels and retries interleave, a job is not
\* claimed past its budget, waits for a retry only with attempts left, no trial
\* counts more attempts than its job was claimed, and no retry is given more
\* than the submission was.
BudgetInv ==
  \A t \in Trials :
    /\ job[t].attempts <= Budget(t)
    /\ job[t].status = "RETRYING" => AttemptsLeft(t)
    /\ trial[t].attempts <= job[t].attempts
    /\ job[t].max <= MaxAttempts /\ trial[t].max <= MaxAttempts

\* A job is a SUCCESS only when its trial is: no zombie, event, settle or sweep
\* can move the trial while the worker carries its "ok" to the job row.
SuccessAgrees ==
  \A t \in Trials : job[t].status = "SUCCESS" => trial[t].status = "SUCCESS"

\* A trial turns SUCCESS only by the worker that holds its job, and only for the
\* attempt the trial row is on: a reaped worker's late result never counts.
CurrentAttemptPublishes ==
  [][\A t \in Trials :
       trial[t].status # "SUCCESS" /\ trial'[t].status = "SUCCESS" =>
         \E w \in Workers : /\ At(w, "running") /\ worker[w].trial = t
                            /\ HoldsJob(w, t)
                            /\ worker[w].attempt = trial[t].attempts]_vars

\* A trial that has its result is not started again by a job that was put back
\* without it: a worker that dies between the two statements of a retry leaves
\* such a job, and the next one must find the result.  Only a worker whose job
\* was cancelled under it may come too late to see that.
FinishedNotRerun ==
  [][\A t \in Trials :
       trial[t].status \in TerminalTrial /\ trial'[t].status = "RUNNING" =>
         job[t].status = "CANCELLED"]_vars

\* What is kept of a trial once a retry replaced it.
Record(t) == [status |-> trial[t].status, attempts |-> trial[t].attempts,
              error |-> trial[t].error, finished |-> trial[t].finished,
              next |-> trial[t].next]

\* "Retry history is immutable": a superseded trial's outcome and its successor
\* never change, whatever its old worker, a sweep or a second retry still does.
SupersededFrozen ==
  [][\A t \in Trials :
       trial[t].next # NoTrial => Record(t)' = Record(t)]_vars

\* The job rows are a work queue as WorkQueue describes one.
JobPhase(t) ==
  CASE job[t].status = "none" -> "absent"
    [] job[t].status \in {"QUEUED", "RETRYING"} -> "waiting"
    [] job[t].status = "RUNNING" -> "held"
    [] job[t].status \in ClosedJob -> "closed"

JobHolder(t) == IF job[t].status = "RUNNING" THEN job[t].owner ELSE NoWorker

Queue == INSTANCE WorkQueue WITH
  Items <- Trials, Holders <- Workers, NoHolder <- NoWorker,
  MaxLimit <- MaxAttempts,
  phase <- [t \in Trials |-> JobPhase(t)],
  holder <- [t \in Trials |-> JobHolder(t)],
  tries <- [t \in Trials |-> job[t].attempts],
  limit <- [t \in Trials |-> Budget(t)]

\* Claims, outcomes, reaps, cancels and retries together never hold a job twice,
\* revive a closed one, or take one past its limit.
ImplementsQueue == Queue!QueueSpec

\* Every job closes: a worker that dies or falls silent at any step is reaped,
\* and retries run out.
JobsSettle ==
  \A t \in Trials :
    job[t].status \in ActiveJob ~> job[t].status \in ClosedJob

(* What the code's comments say and the code does not do.                  *)

\* "Handlers mirror the terminal state back on completion", and a cancel mirrors
\* FAILED "even before handlers exit": the trial of a job that failed or was
\* cancelled shows no live status.
ClosedJobEndsTrial ==
  \A t \in Trials :
    job[t].status \in {"FAILED", "CANCELLED"} => trial[t].status \in TerminalTrial
=============================================================================
