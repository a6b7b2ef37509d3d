----------------------------- MODULE BaselineGate -----------------------------
(***************************************************************************)
(* The baseline gate of one scope, a (task, task version, experiment):     *)
(* LLM trials wait BLOCKED while the scope's nop and oracle trials run,    *)
(* and are then released, or SKIPPED when the baselines show the task to   *)
(* be faulty.                                                              *)
(*                                                                         *)
(* The decision is one transaction under the task row's lock, but it reads *)
(* the rows in several statements while workers, the reaper and deletions, *)
(* which do not take that lock, go on: gate holds what the open            *)
(* transaction has read so far.  The rows it has itself written are shown  *)
(* at once and kept from everybody else (Free) until it ends.              *)
(*                                                                         *)
(* The run of a trial is what TrialJobs shows of it, in fewer steps: a     *)
(* process writes to its trial only while it holds the job, and the second *)
(* statement of a retry, whose job is open anyway, is part of the first.   *)
(* Scopes share nothing but the task's lock.  The local runner, which      *)
(* resolves the gate after each trial, is not modelled.                    *)
(***************************************************************************)
EXTENDS Naturals, FiniteSets

CONSTANTS
  Nops, Oracles, Llms,  \* ids of trial rows, used or still to be created
  MaxAttempts,          \* max_trial_attempts of the submission
  MaxRequests,          \* bound: what users and operators do after a submission
  LateStart             \* may a worker prepare a trial whose job it has lost?

Baselines == Nops \cup Oracles
Trials == Baselines \cup Llms

ASSUME ConstantsAssumption ==
  /\ Nops \cap Oracles = {} /\ Baselines \cap Llms = {}
  /\ MaxAttempts \in Nat \ {0} /\ MaxRequests \in Nat
  /\ LateStart \in BOOLEAN

VARIABLES
  row,     \* [Trials -> Row]: a trials row and its worker_jobs row
  pc,      \* where the process that claimed the trial is
  gate,    \* the transaction that holds the task's lock, if any
  gateOn,  \* settings.gate_llm_on_baselines
  requests, \* number of requests after the submission
  judged   \* history: the baselines whose outcomes a verdict was based on

vars == <<row, pc, gate, gateOn, requests, judged>>

-----------------------------------------------------------------------------
ActiveJob == {"QUEUED", "RETRYING", "RUNNING", "BLOCKED"}
ClosedJob == {"SUCCESS", "FAILED", "CANCELLED"}
ActiveTrial == {"QUEUED", "RUNNING", "RETRYING"}
TerminalTrial == {"SUCCESS", "FAILED", "SKIPPED"}

Row == [job : {"none"} \cup ActiveJob \cup ClosedJob, tries : 0 .. MaxAttempts,
        status : {"none"} \cup ActiveTrial \cup TerminalTrial,
        reward : {"none", "zero", "positive"},
        stage : {"live", "completed", "cancelled"},     \* harbor_stage
        superseded : BOOLEAN, deleted : BOOLEAN]

Gate == [at : {"free", "count", "evaluate", "apply"},
         blocked : SUBSET Llms,   \* blocked_trial_ids
         fresh : SUBSET Trials,   \* rows the transaction wrote before
         verdict : {"none", "release", "skip"}]

NoRow == [job |-> "none", tries |-> 0, status |-> "none", reward |-> "none",
          stage |-> "live", superseded |-> FALSE, deleted |-> FALSE]
NoGate == [at |-> "free", blocked |-> {}, fresh |-> {}, verdict |-> "none"]
\* Mutant: the row keeps the retired PENDING status.
NewRowPending(job) == [NoRow EXCEPT !.job = job, !.status = "PENDING"]

NewRow(job) == [NoRow EXCEPT !.job = job, !.status = "QUEUED"]

Init ==
  /\ row = [t \in Trials |-> NoRow]
  /\ pc = [b \in Baselines |-> "none"]
  /\ gate = NoGate
  /\ gateOn = TRUE
  /\ requests = 0
  /\ judged = {}

\* Mutant: requests do not take the task's lock.
UnlockedAlways == TRUE

\* Nobody holds the lock of the task row.
Unlocked == gate.at = "free"
Free(t) == t \notin gate.fresh
Exists(t) == row[t].status # "none"
Visible(t) == Exists(t) /\ ~row[t].deleted
Current == {t \in Trials : Visible(t) /\ ~row[t].superseded}
Unused == {t \in Trials : ~Exists(t)}
HoldsJob(t) == row[t].job = "RUNNING"

\* Queries over rows r.  The ORM hides deleted rows from all of them but
\* blocked_trial_ids, where a deleted trial has no BLOCKED job left.
LiveBaselines(r) ==
  {b \in Baselines : r[b].status # "none" /\ ~r[b].superseded /\ ~r[b].deleted}
BlockedTrials(r) == {t \in Llms : r[t].job = "BLOCKED" /\ ~r[t].deleted}

\* Mutant: the trial mirror alone decides what is pending.
PendingByMirror(b) == b.status \in ActiveTrial

Pending(b) == b.status \in ActiveTrial \/ b.job \in ActiveJob
PendingBaselines(r) == {b \in LiveBaselines(r) : Pending(r[b])}

-----------------------------------------------------------------------------
(* _resolve_baseline_gate_for_scope, in the caller's transaction.          *)

\* Lock the task and read the blocked trials.  Without any the caller is done.
Resolve(r, fresh) ==
  gate' = IF BlockedTrials(r) = {} THEN gate
          ELSE [at |-> "count", blocked |-> BlockedTrials(r),
                fresh |-> fresh, verdict |-> "none"]

\* The transaction ends, and a hook that was the caller goes on.
EndGate ==
  /\ gate' = NoGate
  /\ pc' = [b \in Baselines |-> IF pc[b] = "gating" THEN "handled" ELSE pc[b]]

GateCount ==
  /\ gate.at = "count"
  /\ \/ PendingBaselines(row) # {} /\ EndGate
     \/ /\ PendingBaselines(row) = {}
        /\ gate' = [gate EXCEPT !.at = "evaluate"]
        /\ UNCHANGED pc
  /\ UNCHANGED <<row, gateOn, requests, judged>>

\* evaluate_baseline_gate: an oracle must score, a nop must score zero.
Passes(r, b) == IF b \in Oracles THEN r[b].reward = "positive"
                                 ELSE r[b].reward = "zero"

\* Cancelled baselines have no verdict; with no other baseline left, release.
Evaluable(r) == {b \in LiveBaselines(r) : r[b].stage # "cancelled"}

GateEvaluate ==
  /\ gate.at = "evaluate"
  /\ gate' = [gate EXCEPT !.at = "apply", !.verdict =
       IF \A b \in Evaluable(row) : Passes(row, b) THEN "release" ELSE "skip"]
  /\ judged' = judged \cup Evaluable(row)
  /\ UNCHANGED <<row, pc, gateOn, requests>>

\* _unblock_worker_jobs_for_trials
Unblocked(r) == IF r.job = "BLOCKED" THEN [r EXCEPT !.job = "QUEUED"] ELSE r

\* Mutant: the jobs of skipped trials are looked for among the QUEUED ones.
SkippedQueuedJob(r) ==
  LET s == IF r.status \in ActiveTrial /\ ~r.deleted
           THEN [r EXCEPT !.status = "SKIPPED", !.stage = "cancelled"] ELSE r
  IN IF r.job = "QUEUED" THEN [s EXCEPT !.job = "CANCELLED"] ELSE s

\* _cancel_gated_llm_trials: two statements with conditions of their own.
Skipped(r) ==
  LET s == IF r.status \in ActiveTrial /\ ~r.deleted
           THEN [r EXCEPT !.status = "SKIPPED", !.stage = "cancelled"] ELSE r
  IN IF r.job = "BLOCKED" THEN [s EXCEPT !.job = "CANCELLED"] ELSE s

GateApply ==
  /\ gate.at = "apply"
  /\ row' = [t \in Trials |->
       IF t \notin gate.blocked THEN row[t]
       ELSE IF gate.verdict = "release" THEN Unblocked(row[t])
                                        ELSE Skipped(row[t])]
  /\ EndGate
  /\ UNCHANGED <<gateOn, requests, judged>>

-----------------------------------------------------------------------------
(* Requests that create trials.                                            *)

\* _submission_gates_llm_trials
Mixed(T) == T \cap Baselines # {} /\ T \cap Llms # {}

\* create_task with the trials T; optIn is gate_baselines.
Submit(T, optIn) ==
  /\ Unused = Trials
  /\ row' = [t \in Trials |->
       IF t \notin T THEN row[t]
       ELSE IF gateOn /\ optIn /\ Mixed(T) /\ t \in Llms
            THEN NewRow("BLOCKED") ELSE NewRow("QUEUED")]
  /\ UNCHANGED <<pc, gate, gateOn, requests, judged>>

\* Only a scope with baselines gates.
Arms(r, optIn, T) ==
  gateOn /\ optIn /\ T \cap Llms # {} /\ LiveBaselines(r) # {}

\* apply_baseline_gate_to_new_llm_trials: block the new trials T of the rows r
\* and resolve at once.
ApplyGate(r, T, optIn) ==
  IF Arms(r, optIn, T)
  THEN LET armed == [t \in Trials |-> IF t \in T \cap Llms
                       THEN [r[t] EXCEPT !.job = "BLOCKED"] ELSE r[t]]
       IN row' = armed /\ Resolve(armed, T)
  ELSE row' = r /\ UNCHANGED gate

\* A replaced row: an open one is closed with it.
Superseded(r) ==
  [r EXCEPT !.superseded = TRUE,
            !.status = IF r.status \in ActiveTrial THEN "FAILED" ELSE r.status,
            !.job = IF r.job \in ActiveJob THEN "CANCELLED" ELSE r.job]

SameAgent(s, t) == \A K \in {Nops, Oracles, Llms} : s \in K <=> t \in K

\* append_trials_to_task: new trials T, of which some replace the failed ones S.
Append(T, S, optIn) ==
  /\ Unlocked
  /\ Unused # Trials
  /\ \A s \in S : row[s].status = "FAILED" /\ \E t \in T : SameAgent(s, t)
  /\ ApplyGate([t \in Trials |->
       IF t \in T THEN NewRow("QUEUED")
       ELSE IF t \in S THEN [row[t] EXCEPT !.superseded = TRUE]
       ELSE row[t]], T, optIn)
  /\ UNCHANGED <<pc, gateOn, judged>>

\* retry_trial_core: a finished trial, or one that looks stuck, is replaced.
Retry(old, new, optIn) ==
  /\ Unlocked
  /\ row[old].status \in TerminalTrial \cup {"RUNNING", "RETRYING"}
  /\ SameAgent(old, new)
  /\ ApplyGate([row EXCEPT ![old] = Superseded(@), ![new] = NewRow("QUEUED")],
               {new}, optIn)
  /\ UNCHANGED <<pc, gateOn, judged>>

-----------------------------------------------------------------------------
(* The run of a trial.                                                     *)

Goto(t, next) == pc' = [pc EXCEPT ![t] = next]

Claim(t) ==
  /\ pc[t] = "none" /\ Free(t) /\ ~row[t].deleted
  /\ row[t].job \in {"QUEUED", "RETRYING"}
  /\ row' = [row EXCEPT ![t].job = "RUNNING", ![t].tries = @ + 1]
  /\ Goto(t, "claimed")
  /\ UNCHANGED <<gate, gateOn, requests, judged>>

\* _prepare_trial_run looks at the trial only, not at the job.
Prepare(t) ==
  /\ pc[t] = "claimed" /\ Free(t)
  /\ HoldsJob(t) \/ LateStart
  /\ \/ /\ row[t].superseded \/ row[t].deleted
        /\ Goto(t, "handled")
        /\ UNCHANGED row
     \/ /\ ~row[t].superseded /\ ~row[t].deleted
        /\ Goto(t, "running")
        /\ row' = [row EXCEPT ![t].status = "RUNNING", ![t].reward = "none",
                              ![t].stage = "live"]
  /\ UNCHANGED <<gate, gateOn, requests, judged>>

\* Harbor's END shows a verdict before the worker settles, CANCEL a failure; a
\* run has one or the other, if any.
HarborEvent(t) ==
  /\ pc[t] = "running" /\ Free(t) /\ HoldsJob(t)
  /\ row[t].status = "RUNNING"
  /\ \/ \E reward \in {"zero", "positive"} :
          row' = [row EXCEPT ![t].status = "SUCCESS", ![t].reward = reward,
                             ![t].stage = "completed"]
     \/ \E stage \in {"completed", "cancelled"} :
          row' = [row EXCEPT ![t].status = "FAILED", ![t].stage = stage]
  /\ UNCHANGED <<pc, gate, gateOn, requests, judged>>

\* The worker stores what it made of the run.  A failed trial on its last
\* attempt reads as cancelled, and is left as it is.
Settle(t) ==
  /\ pc[t] = "running" /\ Free(t) /\ HoldsJob(t)
  /\ \/ \E reward \in {"zero", "positive"} :
          /\ row' = [row EXCEPT ![t].status = "SUCCESS", ![t].reward = reward]
          /\ Goto(t, "hooks")
     \/ /\ row' = [row EXCEPT ![t].status = "FAILED", ![t].reward = "none"]
        /\ Goto(t, "hooks")
     \/ /\ row[t].tries < MaxAttempts
        /\ row' = [row EXCEPT ![t].status = "RETRYING", ![t].reward = "none"]
        /\ Goto(t, "handled")
     \/ /\ row[t].tries = MaxAttempts /\ row[t].status = "FAILED"
        /\ Goto(t, "handled")
        /\ UNCHANGED row
  /\ UNCHANGED <<gate, gateOn, requests, judged>>

\* _run_post_trial_hooks, in a transaction under the task's lock.
RunPostTrialHooks(t) ==
  /\ pc[t] = "hooks" /\ Unlocked
  /\ \/ /\ Visible(t)
        /\ row[t].status \in {"SUCCESS", "FAILED"} /\ row[t].stage # "cancelled"
        /\ BlockedTrials(row) # {}
        /\ Resolve(row, {})
        /\ Goto(t, "gating")
     \/ /\ \/ ~Visible(t)
           \/ row[t].status \notin {"SUCCESS", "FAILED"}
           \/ row[t].stage = "cancelled" \/ BlockedTrials(row) = {}
        /\ Goto(t, "handled")
        /\ UNCHANGED gate
  /\ UNCHANGED <<row, gateOn, requests, judged>>

\* What a retryable outcome makes of the rows: a trial whose job has no attempt
\* left is not touched.
PutBack(t) ==
  IF row[t].tries < MaxAttempts
  THEN [row[t] EXCEPT !.job = "RETRYING", !.status = "RETRYING"]
  ELSE [row[t] EXCEPT !.job = "FAILED"]

RecordOutcome(t) ==
  /\ pc[t] = "handled" /\ Free(t)
  /\ row' = IF ~HoldsJob(t) THEN row
            ELSE IF row[t].status \in {"SUCCESS", "FAILED"}
            THEN [row EXCEPT ![t].job = row[t].status]
            ELSE [row EXCEPT ![t] = PutBack(t)]
  /\ Goto(t, "none")
  /\ UNCHANGED <<gate, gateOn, requests, judged>>

\* An exception in the handler is a retryable failure.
HandlerRaises(t) ==
  /\ pc[t] \in {"claimed", "running", "handled"} /\ Free(t) /\ HoldsJob(t)
  /\ row' = [row EXCEPT ![t] = PutBack(t)]
  /\ Goto(t, "none")
  /\ UNCHANGED <<gate, gateOn, requests, judged>>

\* A worker that lost its job is killed or finds out by its heartbeat.
StopRun(t) ==
  /\ pc[t] \in {"claimed", "running", "hooks"} /\ ~HoldsJob(t)
  /\ Goto(t, "none")
  /\ UNCHANGED <<row, gate, gateOn, requests, judged>>

\* A process dies; a gate transaction of its hook is rolled back.
Crash(t) ==
  /\ pc[t] # "none"
  /\ Goto(t, "none")
  /\ gate' = IF pc[t] = "gating" THEN NoGate ELSE gate
  /\ UNCHANGED <<row, gateOn, requests, judged>>

-----------------------------------------------------------------------------
(* The run of an LLM trial, of which the gate sees nothing.                *)

RunLlm(t) ==
  /\ row[t].job = "QUEUED" /\ Free(t) /\ ~row[t].deleted
  /\ \E status \in {"SUCCESS", "FAILED"} :
       row' = [row EXCEPT ![t].job = status, ![t].status = status]
  /\ UNCHANGED <<pc, gate, gateOn, requests, judged>>

-----------------------------------------------------------------------------
(* The sweep, and what users do to trials that exist.                      *)

\* A reaped job and the mirror on its trial.
Reaped(t) ==
  IF row[t].tries < MaxAttempts
  THEN [row[t] EXCEPT !.job = "RETRYING", !.status = "RETRYING"]
  ELSE [row[t] EXCEPT !.job = "FAILED", !.status = "FAILED",
                 !.stage = IF @ = "completed" THEN @ ELSE "cancelled"]

\* Mutant: the backstop forgets that trials are deleted softly.
BackstopWithDeleted(r) ==
  LET undeleted == [t \in Trials |-> [r[t] EXCEPT !.deleted = FALSE]]
  IN LiveBaselines(r) # {} /\ PendingBaselines(undeleted) = {}

\* The query of the backstop: a scope with baselines, none of them pending.
Backstop(r) == LiveBaselines(r) # {} /\ PendingBaselines(r) = {}

\* One sweep reaps dead workers' jobs, resolves the gate for baselines that
\* failed by it, and as a backstop where the baselines are done.  It waits for
\* the task's lock only if it sees blocked trials to resolve.
Sweep(R) ==
  LET r == [t \in Trials |-> IF t \in R THEN Reaped(t) ELSE row[t]]
      resolves == /\ BlockedTrials(r) \ gate.fresh # {}
                  /\ Backstop(r) \/ \E b \in R : r[b].job = "FAILED"
  IN
  /\ R \subseteq {b \in Baselines : HoldsJob(b) /\ pc[b] = "none" /\ Free(b)}
  /\ R # {} \/ resolves
  /\ resolves => Unlocked
  /\ row' = r
  /\ IF resolves THEN Resolve(r, R) ELSE UNCHANGED gate
  /\ UNCHANGED <<pc, gateOn, requests, judged>>

Cancelled(r) ==
  [r EXCEPT !.status = "FAILED", !.stage = "cancelled",
            !.job = IF @ \in ActiveJob THEN "CANCELLED" ELSE @]

\* cancel_tasks_runs: the whole scope.
CancelRuns ==
  LET S == {t \in Trials : Visible(t) /\ (row[t].job \in ActiveJob
                                          \/ row[t].status \in ActiveTrial)}
  IN
  /\ Unlocked /\ S # {}
  /\ row' = [t \in Trials |-> IF t \in S THEN Cancelled(row[t]) ELSE row[t]]
  /\ UNCHANGED <<pc, gate, gateOn, judged>>

\* cancel_trials_if_quota_reached: the unfinished trials S of whoever has used
\* up the quota.  The gate is resolved for the baselines among them when the
\* task has other trials left to run, as blocked ones are.
CancelForQuota(S) ==
  LET r == [t \in Trials |-> IF t \in S THEN Cancelled(row[t]) ELSE row[t]] IN
  /\ Unlocked /\ S # {}
  /\ \A t \in S : row[t].status \in ActiveTrial
  /\ row' = r
  /\ IF S \cap Baselines # {} THEN Resolve(r, S) ELSE UNCHANGED gate
  /\ UNCHANGED <<pc, gateOn, judged>>

\* delete_trial_core: no lock on the task, no look at the gate.
DeleteTrial(t) ==
  /\ Visible(t) /\ Free(t)
  /\ row' = [row EXCEPT ![t].deleted = TRUE,
       ![t].job = IF @ \in ActiveJob THEN "CANCELLED" ELSE @]
  /\ UNCHANGED <<pc, gate, gateOn, judged>>

SwitchFlag ==
  /\ gateOn' = ~gateOn
  /\ UNCHANGED <<row, pc, gate, judged>>

-----------------------------------------------------------------------------
GateStep == GateCount \/ GateEvaluate \/ GateApply

WorkerStep(t) ==
  Prepare(t) \/ Settle(t) \/ RunPostTrialHooks(t) \/ RecordOutcome(t) \/ StopRun(t)

WorkerEvent(t) == HarborEvent(t) \/ HandlerRaises(t) \/ Crash(t)

Request ==
  \/ \E T \in (SUBSET Unused) \ {{}}, S \in SUBSET Current, optIn \in BOOLEAN :
       Append(T, S, optIn)
  \/ \E old \in Current, new \in Unused, optIn \in BOOLEAN : Retry(old, new, optIn)
  \/ CancelRuns
  \/ \E S \in SUBSET Current : CancelForQuota(S)
  \/ \E t \in Trials : DeleteTrial(t)
  \/ SwitchFlag

Next ==
  \/ GateStep
  \/ \E b \in Baselines : Claim(b) \/ WorkerStep(b) \/ WorkerEvent(b)
  \/ \E t \in Llms : RunLlm(t)
  \/ \E R \in SUBSET Baselines : Sweep(R)
  \/ \E T \in (SUBSET Trials) \ {{}}, optIn \in BOOLEAN : Submit(T, optIn)
  \/ /\ requests < MaxRequests
     /\ requests' = requests + 1
     /\ Request

Spec == Init /\ [][Next]_vars

\* A statement returns, a handler step ends or its worker dies, the dispatcher
\* offers work, and the sweep runs on a timer.
Fairness ==
  /\ WF_vars(GateStep)
  /\ \A b \in Baselines : WF_vars(WorkerStep(b)) /\ WF_vars(Claim(b))
  /\ WF_vars(\E R \in SUBSET Baselines : Sweep(R))

FairSpec == Spec /\ Fairness
-----------------------------------------------------------------------------
(* Properties.                                                             *)

\* Every row, process and open transaction has its declared shape.
TypeOK ==
  /\ row \in [Trials -> Row]
  /\ pc \in [Baselines -> {"none", "claimed", "running", "hooks", "gating", "handled"}]
  /\ gate \in Gate
  /\ gateOn \in BOOLEAN /\ requests \in 0 .. MaxRequests
  /\ judged \subseteq Baselines

\* A verdict on the task is based on final results only: a baseline that counted
\* was done, on the trial and on its job, and no event, settlement, retry or
\* reap changes what it showed afterwards.
Settled(b) == row[b].status \in {"SUCCESS", "FAILED"} /\ row[b].job \in ClosedJob
Result(b) == <<row[b].status, row[b].reward>>

VerdictsStand ==
  [][\A b \in judged' : Settled(b)' /\ (b \in judged => Result(b)' = Result(b))]_vars

\* When a BLOCKED job is released, at the moment of the write and not just when
\* it was decided, no baseline of the scope is running or about to, and those
\* that count pass.
ReleasedWhenClean ==
  [][\A t \in Llms : row[t].job = "BLOCKED" /\ row'[t].job = "QUEUED" =>
       /\ PendingBaselines(row) = {}
       /\ \A b \in Evaluable(row) : Passes(row, b)]_vars

\* A skipped trial never runs: its job is closed with it, also when the trial is
\* deleted, cancelled or retried while the gate decides.
SkippedNeverRuns ==
  \A t \in Trials : row[t].status = "SKIPPED" =>
    row[t].job = "CANCELLED"

\* A BLOCKED job is not left behind: sooner or later it is resolved, whoever
\* dies and whether the flag is on or off, unless the scope has lost all its
\* baselines or one of them is stuck under a closed job.
Abandoned ==
  \/ LiveBaselines(row) = {}
  \/ \E b \in LiveBaselines(row) :
       row[b].status \in ActiveTrial /\ row[b].job \in ClosedJob

BlockedIsResolved == \A t \in Llms : []<>(row[t].job # "BLOCKED" \/ Abandoned)
=============================================================================
