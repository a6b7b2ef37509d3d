------------------------------ MODULE QaStage ------------------------------
(***************************************************************************)
(* One task from its trials to its verdict.  A QA trial grades the solver  *)
(* trials of the task's current version, an audit trial reads the source   *)
(* of one version, and both are ordinary trials whose results are imported *)
(* later, by the worker that ran them or by the reconcile sweep when that  *)
(* worker died.  Meanwhile users append and retry trials, change the       *)
(* source, ask for a new audit or a new QA run, and cancel.                *)
(*                                                                         *)
(* Every transaction below holds the task row lock (the audit import holds *)
(* the version row lock), so each is one action; what is interleaved is    *)
(* what the code leaves between transactions: settling a trial, storing    *)
(* its grades, publishing the verdict and re-entering admission.           *)
(***************************************************************************)
EXTENDS Integers, Sequences, FiniteSets

CONSTANTS
  Versions,     \* the task's versions: their bytes stand in `version'
  First,        \* the version the task is created with
  NoVerdict,    \* tasks.verdict IS NULL
  Requests,     \* the kinds of user request an instance explores
  MaxRequests,  \* bound: user requests in a behaviour
  MaxAgents,    \* bound: agent trials ever created
  MaxLeaving    \* bound: workers between settling a trial and leaving

ASSUME QaStageAssumption ==
  /\ First \in Versions
  /\ Requests \subseteq {"append", "retry", "rerun_qa", "rerun_audit",
                         "switch", "overwrite", "cancel_qa", "cancel_runs"}
  /\ MaxRequests \in Nat
  /\ MaxAgents \in Nat \ {0}
  /\ MaxLeaving \in Nat \ {0}

VARIABLES
  task,      \* the tasks row: status, current version, verdict columns
  version,   \* task_versions: bytes and pre_trial columns of each version
  agents,    \* trials of kind agent, in creation order
  analyses,  \* trials of kind qa and audit, in creation order
  sweep,     \* the sweep's re-imports: trials left, the one under way, its step
  requests   \* user requests made so far

vars == <<task, version, agents, analyses, sweep, requests>>

\* The database a transaction reads and writes.
Db == [task |-> task, version |-> version, agents |-> agents, analyses |-> analyses]

Commit(s) == /\ task' = s.task
             /\ version' = s.version
             /\ agents' = s.agents
             /\ analyses' = s.analyses

----------------------------------------------------------------------------
(* The rows.                                                               *)

AuditStates == {"none", "queued", "success", "failed", "cancelled"}

\* hash: the bytes; audit: pre_trial_status ("cancelled" is FAILED with the
\* user's message); by: pre_trial.block_id; stamp: pre_trial_finished_at.
Version == [hash : Nat, audit : AuditStates, by : Nat, stamp : Nat]

\* What a verdict rests on: the QA trial that graded (0: the server's own
\* evidence), the version and its audit columns when it was published.
Verdict == [by : Nat, current : Versions, audit : Nat, hash : Nat]

Task == [status  : {"pending", "running", "verdict_pending", "completed", "failed"},
         current : Versions,
         verdict : Verdict \cup {NoVerdict},
         vstatus : {"none", "queued", "success", "failed"}]

\* "void": skipped, gate-skipped or cancelled, which QA does not grade.
\* hook: the worker has settled the trial and not yet run the hooks;
\* graded: analysis._graded_by, 0 for none.
Agent == [version : Versions, status : {"active", "done", "void", "superseded"},
          hook : BOOLEAN, graded : Nat]

\* snapshot: the version row when the trial was created (audit_fingerprint,
\* task_version_content_hash); trials: the agent trials it grades; import: the
\* step of the worker that ran it.  "bad" is a trial that failed, or one that
\* succeeded without a valid artifact.
Steps == {"idle", "import", "graded", "admit"}
Analysis == [kind : {"qa", "audit"}, version : Versions, snapshot : Version,
             trials : SUBSET (1..MaxAgents),
             status : {"live", "good", "bad", "cancelled"}, import : Steps]

----------------------------------------------------------------------------
(* Queries.                                                                *)

Live(s, kind) ==
  {i \in DOMAIN s.analyses : s.analyses[i].kind = kind /\ s.analyses[i].status = "live"}

AgentsOf(s, v, status) ==
  {a \in DOMAIN s.agents : s.agents[a].version = v /\ s.agents[a].status = status}

Active(s) == AgentsOf(s, s.task.current, "active")

Eligible(s) == AgentsOf(s, s.task.current, "done")

AuditPending(s) ==
  Live(s, "audit") # {} \/ s.version[s.task.current].audit = "queued"

\* The newest trial of its kind and version, the cancelled ones included.
IsNewest(s, i) ==
  \A j \in DOMAIN s.analyses :
    s.analyses[j].kind = s.analyses[i].kind
    /\ s.analyses[j].version = s.analyses[i].version => j <= i

SnapshotMatches(s, i) ==
  LET v == s.version[s.analyses[i].version]
  IN v.audit # "queued" /\ v = s.analyses[i].snapshot

\* Mutant: a cancelled task still takes the result.
StillCurrentThoughFailed(s, i) ==
  /\ s.task.current = s.analyses[i].version
  /\ SnapshotMatches(s, i)
  /\ s.analyses[i].status # "cancelled"
  /\ IsNewest(s, i)
  /\ Active(s) = {}

\* Mutant: what was audited and uploaded since does not matter.
StillCurrentAnySource(s, i) ==
  /\ s.task.status # "failed"
  /\ s.task.current = s.analyses[i].version
  /\ s.analyses[i].status # "cancelled"
  /\ IsNewest(s, i)
  /\ Active(s) = {}

StillCurrent(s, i) ==
  /\ s.task.status # "failed"
  /\ s.task.current = s.analyses[i].version
  /\ SnapshotMatches(s, i)
  /\ s.analyses[i].status # "cancelled"
  /\ IsNewest(s, i)
  /\ Active(s) = {}

----------------------------------------------------------------------------
(* The verdict columns (core/verdict_state.py).                            *)

WithVerdict(s, verdict, vstatus) ==
  [s EXCEPT !.task.verdict = verdict, !.task.vstatus = vstatus]

ResetVerdict(s) == WithVerdict(s, NoVerdict, "none")

\* Mutant: the verdict being replaced stays until the new one is there.
QueueVerdictBeside(s) == [s EXCEPT !.task.vstatus = "queued"]

QueueVerdict(s) == WithVerdict(s, NoVerdict, "queued")

\* Mutant: the failure leaves the verdict it follows in its column.
FailVerdictBeside(s) == [s EXCEPT !.task.vstatus = "failed"]

FailVerdict(s) == WithVerdict(s, NoVerdict, "failed")

Publish(s, by) ==
  LET v == s.version[s.task.current] IN
  WithVerdict(s, [by |-> by, current |-> s.task.current,
                  audit |-> v.by, hash |-> v.hash], "success")

Restorable(s) == s.task.verdict # NoVerdict /\ s.task.vstatus # "queued"

CancelVerdict(s) ==
  IF Restorable(s) THEN [s EXCEPT !.task.vstatus = "success"] ELSE FailVerdict(s)

AbandonVerdict(s) ==
  IF Restorable(s) THEN [s EXCEPT !.task.vstatus = "success"] ELSE ResetVerdict(s)

InStatus(s, status) == [s EXCEPT !.task.status = status]

----------------------------------------------------------------------------
(* Creating analysis trials and admitting the QA stage.                    *)

Create(s, kind, v, trials) ==
  [s EXCEPT !.analyses =
     Append(@, [kind |-> kind, version |-> v, snapshot |-> s.version[v],
                trials |-> trials, status |-> "live", import |-> "idle"])]

\* Evidence of the server's own: must-fix findings of a successful audit, or
\* the failed baselines for which the gate skipped trials.
Evidence(s) == \/ s.version[s.task.current].audit = "success"
               \/ AgentsOf(s, s.task.current, "void") # {}

StartQa(s) ==
  IF Eligible(s) = {}
  THEN {InStatus(FailVerdict(s), "completed")}
       \cup IF Evidence(s) THEN {InStatus(Publish(s, 0), "completed")} ELSE {}
  ELSE {Create(InStatus(QueueVerdict(s), "verdict_pending"),
               "qa", s.task.current, Eligible(s))}

\* Mutant: a QA trial under way does not hold admission back.
AdmissibleTwice(s) ==
  /\ s.task.status \in {"pending", "running"}
  /\ Active(s) = {}
  /\ ~AuditPending(s)

Admissible(s) ==
  /\ s.task.status \in {"pending", "running"}
  /\ Active(s) = {}
  /\ ~AuditPending(s)
  /\ Live(s, "qa") = {}

\* maybe_start_task_qa_stage: the states it may leave.
Admit(s) == IF Admissible(s) THEN StartQa(s) ELSE {s}

NewAgent(s, v) ==
  [s EXCEPT !.agents = Append(@, [version |-> v, status |-> "active",
                                  hook |-> FALSE, graded |-> 0])]

EnqueueAudit(s, v) ==
  IF s.version[v].audit # "none" THEN s
  ELSE LET queued == [s EXCEPT !.version[v].audit = "queued"]
       IN Create(queued, "audit", v, {})

CancelLive(s, doomed) ==
  [s EXCEPT !.analyses = [i \in DOMAIN @ |->
     IF i \in doomed THEN [@[i] EXCEPT !.status = "cancelled"] ELSE @[i]]]

----------------------------------------------------------------------------
\* A task as an upload leaves it.
Uploaded ==
  [task |-> [status |-> "pending", current |-> First,
             verdict |-> NoVerdict, vstatus |-> "none"],
   version |-> [v \in Versions |->
                  [hash |-> 0, audit |-> "none", by |-> 0, stamp |-> 0]],
   agents |-> << >>,
   analyses |-> << >>]

\* As create_task leaves it with one trial, and as a request for an audit does
\* before there are trials.
Created == EnqueueAudit(NewAgent(Uploaded, First), First)
Audited == InStatus(EnqueueAudit(Uploaded, First), "running")

Init ==
  /\ \E s \in {Uploaded, Created, Audited} :
       /\ task = s.task
       /\ version = s.version
       /\ agents = s.agents
       /\ analyses = s.analyses
  /\ sweep = [todo |-> {}, trial |-> 0, step |-> "idle"]
  /\ requests = 0

----------------------------------------------------------------------------
(* Trials run (TrialJobs says how) and settle.                             *)

\* The first worker that prepares a trial moves the task out of PENDING.
StartTask ==
  /\ task.status = "pending"
  /\ \E a \in DOMAIN agents : agents[a].status = "active"
  /\ task' = [task EXCEPT !.status = "running"]
  /\ UNCHANGED <<version, agents, analyses, sweep, requests>>

\* Trials whose worker has settled them and goes on to the hooks.
Hooking == {a \in DOMAIN agents : agents[a].hook}
Importing == {i \in DOMAIN analyses : analyses[i].import # "idle"}
MoreLeave == Cardinality(Hooking) + Cardinality(Importing) < MaxLeaving

SettleAgent(a) ==
  /\ agents[a].status = "active"
  /\ task.status # "pending"
  /\ MoreLeave
  /\ agents' = [agents EXCEPT ![a].status = "done", ![a].hook = TRUE]
  /\ UNCHANGED <<task, version, analyses, sweep, requests>>

\* The hooks after an agent trial: a failed task is left alone.
AgentHook(a) ==
  /\ a \in Hooking
  /\ LET run == [Db EXCEPT !.agents[a].hook = FALSE]
     IN \E s \in IF task.status = "failed" THEN {run} ELSE Admit(run) : Commit(s)
  /\ UNCHANGED <<sweep, requests>>

\* A worker died and its job was reaped: the rows of its trial stay settled.
AgentWorkerLost(a) ==
  /\ a \in Hooking
  /\ agents' = [agents EXCEPT ![a].hook = FALSE]
  /\ UNCHANGED <<task, version, analyses, sweep, requests>>

\* The gate skips a blocked trial and admits in the same transaction.
SkipAgent(a) ==
  /\ agents[a].status = "active"
  /\ \E s \in Admit([Db EXCEPT !.agents[a].status = "void"]) : Commit(s)
  /\ UNCHANGED <<sweep, requests>>

SettleAnalysis(i) ==
  /\ analyses[i].status = "live"
  /\ MoreLeave
  /\ \E outcome \in {"good", "bad"} :
       analyses' = [analyses EXCEPT ![i].status = outcome, ![i].import = "import"]
  /\ UNCHANGED <<task, version, agents, sweep, requests>>

----------------------------------------------------------------------------
(* Imports (handle_analysis_trial_settled): the states one step may leave. *)

Completed(s) == InStatus(s, "completed")

\* Stores the grades, under the task lock.
Grade(s, i) ==
  [s EXCEPT !.agents = [a \in DOMAIN @ |->
     IF a \in s.analyses[i].trials THEN [@[a] EXCEPT !.graded = i] ELSE @[a]]]

\* Mutant: publishes what was graded without looking again.
PublishGraded(s, i) ==
  IF s.analyses[i].snapshot.audit = "success" THEN Completed(Publish(s, i))
  ELSE Completed(WithVerdict(s, NoVerdict, "success"))

\* Publishes the verdict, under the task lock again.  A QA trial that started
\* without a successful audit was not asked for one (with_verdict).
PublishResult(s, i) ==
  IF ~StillCurrent(s, i) THEN s
  ELSE IF s.analyses[i].snapshot.audit = "success" THEN Completed(Publish(s, i))
  ELSE Completed(WithVerdict(s, NoVerdict, "success"))

FailResult(s, i) == IF StillCurrent(s, i) THEN Completed(FailVerdict(s)) ELSE s

\* The pre_trial columns with the findings of audit trial i, or with its failure.
Findings(v, i) == [v EXCEPT !.audit = "success", !.by = i, !.stamp = @ + 1]
NoFindings(v) == [v EXCEPT !.audit = "failed", !.by = 0, !.stamp = @ + 1]

\* Writes the pre_trial columns, under the version lock.
StoreAudit(s, i) ==
  LET a == s.analyses[i]
      v == s.version[a.version]
      refused == \/ v.audit = "cancelled"
                 \/ a.status = "cancelled"
                 \/ ~IsNewest(s, i)
                 \/ v.hash # a.snapshot.hash
                 \/ a.status = "good" /\ v.audit = "success" /\ v.by = i
  IN IF refused THEN s
     ELSE [s EXCEPT !.version[a.version] =
             IF a.status = "good" THEN Findings(v, i) ELSE NoFindings(v)]

\* <<database, next step>> after one step of an import of trial i.
Imported(s, i, step) ==
  LET qa == s.analyses[i].kind = "qa"
      good == s.analyses[i].status = "good"
  IN CASE step = "import" /\ s.analyses[i].status = "cancelled" -> {<<s, "idle">>}
       [] step = "import" /\ s.analyses[i].status # "cancelled" /\ ~qa ->
            {<<StoreAudit(s, i), "admit">>}
       [] step = "import" /\ qa /\ good ->
            IF StillCurrent(s, i) THEN {<<Grade(s, i), "graded">>} ELSE {<<s, "admit">>}
       [] step = "import" /\ qa /\ s.analyses[i].status = "bad" ->
            {<<FailResult(s, i), "admit">>}
       [] step = "graded" -> {<<PublishResult(s, i), "admit">>}
       [] step = "admit" -> {<<t, "idle">> : t \in Admit(s)}

WorkerImport(i) ==
  /\ i \in Importing
  /\ \E next \in Imported(Db, i, analyses[i].import) :
       Commit([next[1] EXCEPT !.analyses[i].import = next[2]])
  /\ UNCHANGED <<sweep, requests>>

AnalysisWorkerLost(i) ==
  /\ i \in Importing
  /\ analyses' = [analyses EXCEPT ![i].import = "idle"]
  /\ UNCHANGED <<task, version, agents, sweep, requests>>

----------------------------------------------------------------------------
(* The reconcile sweep: one transaction, then the re-imports it found.     *)

\* RUNNING, with agent or audit trials and none of them active.
StuckRunning(s) ==
  /\ s.task.status = "running"
  /\ s.agents # << >> \/ \E i \in DOMAIN s.analyses : s.analyses[i].kind = "audit"
  /\ \A a \in DOMAIN s.agents : s.agents[a].status # "active"
  /\ Live(s, "audit") = {}

StuckVerdict(s) ==
  /\ s.task.status = "verdict_pending"
  /\ Live(s, "qa") = {}
  /\ ~AuditPending(s)

\* The newest settled QA trial of the task that was not cancelled.
SettledQa(s) ==
  LET settled == {i \in DOMAIN s.analyses :
                    s.analyses[i].kind = "qa"
                    /\ s.analyses[i].status \in {"good", "bad"}}
  IN {i \in settled : \A j \in settled : j <= i}

\* Mutant: imports a result again although its source was replaced.
QaReimportsAny(s) == {i \in SettledQa(s) : s.analyses[i].version = s.task.current}

\* The settled QA trials whose import the healer runs again.
QaReimports(s) ==
  {i \in SettledQa(s) : s.analyses[i].version = s.task.current /\ SnapshotMatches(s, i)}

\* <<database, QA trials to import again>> after the task's part of the sweep.
Healed(s) ==
  IF StuckRunning(s) THEN {<<t, {}>> : t \in Admit(s)}
  ELSE IF ~StuckVerdict(s) THEN {<<s, {}>>}
  ELSE IF s.task.vstatus \in {"success", "failed"} THEN {<<Completed(s), {}>>}
  ELSE IF QaReimports(s) # {} THEN {<<s, QaReimports(s)>>}
  ELSE {<<t, {}>> : t \in StartQa(s)}

\* Mutant: leaves failed audits to the worker that ran them.
AuditReimportsGood(s) ==
  {i \in DOMAIN s.analyses :
     LET a == s.analyses[i]
         same == {j \in DOMAIN s.analyses :
                    s.analyses[j].kind = "audit" /\ s.analyses[j].version = a.version}
     IN /\ i \in same
        /\ s.version[a.version].audit = "queued"
        /\ a.status = "good"
        /\ \A j \in same : s.analyses[j].status # "live"
        /\ \A j \in same : s.analyses[j].status # "cancelled" => j <= i}

\* Versions that wait for an audit which has settled: its newest audit trial
\* that was not cancelled, unless one is live.
AuditReimports(s) ==
  {i \in DOMAIN s.analyses :
     LET a == s.analyses[i]
         same == {j \in DOMAIN s.analyses :
                    s.analyses[j].kind = "audit" /\ s.analyses[j].version = a.version}
     IN /\ i \in same
        /\ s.version[a.version].audit = "queued"
        /\ a.status \in {"good", "bad"}
        /\ \A j \in same : s.analyses[j].status # "live"
        /\ \A j \in same : s.analyses[j].status # "cancelled" => j <= i}

\* A sweep whose predecessor left imports undone found it dead.
SweepTransaction ==
  /\ \E healed \in Healed(Db) :
       /\ Commit(healed[1])
       /\ sweep' = [todo |-> healed[2] \cup AuditReimports(healed[1]),
                    trial |-> 0, step |-> "idle"]
  /\ UNCHANGED requests

\* After the commit the sweep imports the trials it listed, one by one.
SweepImport ==
  /\ \E i \in IF sweep.step = "idle" THEN sweep.todo ELSE {sweep.trial} :
       \E next \in Imported(Db, i, IF sweep.step = "idle" THEN "import" ELSE sweep.step) :
         /\ Commit(next[1])
         /\ sweep' = [todo |-> sweep.todo \ {i}, step |-> next[2],
                      trial |-> IF next[2] = "idle" THEN 0 ELSE i]
  /\ UNCHANGED requests

----------------------------------------------------------------------------
(* What users ask for.                                                     *)

Request(kind) ==
  /\ kind \in Requests
  /\ requests < MaxRequests
  /\ requests' = requests + 1
  /\ UNCHANGED sweep

\* New trials reopen a task that had closed or was being judged.
Reopen(s) ==
  IF s.task.status \in {"completed", "failed", "verdict_pending"}
  THEN InStatus(s, "running") ELSE s

\* append_trials_to_task, on the default version.
AppendTrial ==
  /\ Request("append")
  /\ Len(agents) < MaxAgents
  /\ LET v == task.current
         opened == AbandonVerdict(Reopen(EnqueueAudit(NewAgent(Db, v), v)))
     IN Commit(CancelLive(opened, Live(opened, "qa")))

\* retry_trial_core: only agent trials; the QA trial under way is left alone.
RetryTrial ==
  /\ Request("retry")
  /\ Len(agents) < MaxAgents
  /\ \E a \in DOMAIN agents :
       /\ agents[a].status \in {"done", "void"}
       /\ Commit(AbandonVerdict(Reopen(
            NewAgent([Db EXCEPT !.agents[a].status = "superseded"], agents[a].version))))

\* backfill_task_analysis_core with force: grade every solver trial again.
RerunQa ==
  /\ Request("rerun_qa")
  /\ \E a \in DOMAIN agents :
       agents[a].version = task.current /\ agents[a].status # "superseded"
  /\ Active(Db) = {}
  /\ Live(Db, "qa") = {}
  /\ ~AuditPending(Db)
  /\ LET cleared == [Db EXCEPT !.agents = [a \in DOMAIN @ |->
           IF @[a].version = task.current /\ @[a].status # "superseded"
           THEN [@[a] EXCEPT !.graded = 0] ELSE @[a]]]
     IN \E s \in StartQa(cleared) : Commit(s)

\* rerun_pre_trial_audit_core; a QUEUED audit with no trial behind it may be
\* queued again once its lease has passed.
RerunAudit ==
  /\ Request("rerun_audit")
  /\ Live(Db, "audit") = {}
  /\ LET emptied == [Db EXCEPT !.version[task.current].audit = "queued",
                               !.version[task.current].by = 0]
     IN Commit(Create(InStatus(ResetVerdict(emptied), "running"),
                      "audit", task.current, {}))

\* invalidate_task_qa_for_source_change
Invalidate(s) ==
  Admit(InStatus(ResetVerdict(CancelLive(s, Live(s, "qa"))), "running"))

\* set_task_default_version_core, or an upload that adds a version.
SwitchVersion ==
  /\ Request("switch")
  /\ \E v \in Versions \ {task.current} :
       \E s \in Invalidate([Db EXCEPT !.task.current = v]) : Commit(s)

\* An in-place upload replaces the bytes of a version with no history.
OverwriteVersion ==
  /\ Request("overwrite")
  /\ \A a \in DOMAIN agents : agents[a].version # task.current
  /\ task.verdict = NoVerdict /\ task.vstatus = "none"
  /\ LET overwritten == [Db EXCEPT !.version[task.current] =
           [hash |-> @.hash + 1, audit |-> "none", by |-> 0, stamp |-> 0]]
         audits == {i \in Live(Db, "audit") : analyses[i].version = task.current}
     IN \E s \in Invalidate(CancelLive(overwritten, audits)) : Commit(s)

\* The pre_trial columns of an audit that was waited for.
CancelledAudit(v) == [v EXCEPT !.audit = "cancelled", !.stamp = @ + 1]

\* cancel_task_qa_core
CancelQa ==
  /\ Request("cancel_qa")
  /\ LET live == Live(Db, "qa") \cup Live(Db, "audit")
         waiting == task.status \in {"pending", "running"} /\ Active(Db) = {}
         concerned == \/ live # {}
                      \/ task.vstatus = "queued"
                      \/ task.status = "verdict_pending"
                      \/ AuditPending(Db)
         cancelled == CancelLive(Db, live)
         judged == IF ~concerned THEN cancelled
                   ELSE IF waiting \/ task.status = "verdict_pending"
                        THEN InStatus(CancelVerdict(cancelled), "failed")
                        ELSE CancelVerdict(cancelled)
         cleared == {task.current}
                    \cup {analyses[i].version : i \in Live(Db, "audit")}
     IN Commit([judged EXCEPT !.version = [v \in Versions |->
                  IF v \in cleared /\ @[v].audit = "queued"
                  THEN CancelledAudit(@[v])
                  ELSE @[v]]])

\* The row of an agent trial whose job is cancelled.
Stopped(a) ==
  [a EXCEPT !.hook = FALSE, !.status = IF @ = "superseded" THEN @ ELSE "void"]

\* cancel_tasks_runs on the whole task: every trial whose row or job is still
\* active, the analysis trials with the rest.
CancelRuns ==
  /\ Request("cancel_runs")
  /\ LET doomed == {i \in DOMAIN analyses :
                      analyses[i].status = "live" \/ analyses[i].import # "idle"}
         stopped == [CancelLive(Db, doomed) EXCEPT !.agents = [a \in DOMAIN @ |->
                       IF @[a].status = "active" \/ @[a].hook
                       THEN Stopped(@[a]) ELSE @[a]]]
         failed == task.status \in {"pending", "running", "verdict_pending"}
         judged == IF task.vstatus = "queued" THEN CancelVerdict(stopped) ELSE stopped
     IN Commit(IF ~failed THEN judged
               ELSE InStatus(judged, IF judged.task.vstatus = "success"
                                     THEN "completed" ELSE "failed"))

----------------------------------------------------------------------------
SomeAgent(Act(_)) == \E a \in DOMAIN agents : Act(a)
SomeAnalysis(Act(_)) == \E i \in DOMAIN analyses : Act(i)

Trials == \/ StartTask
          \/ SomeAgent(SettleAgent) \/ SomeAgent(SkipAgent)
          \/ SomeAnalysis(SettleAnalysis)

WorkersLeave == \/ SomeAgent(AgentHook) \/ SomeAgent(AgentWorkerLost)
                \/ SomeAnalysis(WorkerImport) \/ SomeAnalysis(AnalysisWorkerLost)

Sweep == SweepTransaction \/ SweepImport

Users == \/ AppendTrial \/ RetryTrial \/ RerunQa \/ RerunAudit
         \/ SwitchVersion \/ OverwriteVersion \/ CancelQa \/ CancelRuns

Next == Trials \/ WorkersLeave \/ Sweep \/ Users

Spec == Init /\ [][Next]_vars

\* Jobs settle and lost ones are reaped (TrialJobs), and sweeps keep running:
\* any sweep may die, but not every one at the same step.  A worker's hook or
\* import is only fair to end: it may always be the worker that is lost.
Fairness ==
  /\ WF_vars(StartTask)
  /\ WF_vars(SomeAgent(SettleAgent))
  /\ WF_vars(SomeAnalysis(SettleAnalysis))
  /\ WF_vars(WorkersLeave)
  /\ WF_vars(SweepTransaction)
  /\ \A step \in Steps : SF_vars(SweepImport /\ sweep.step = step)

FairSpec == Spec /\ Fairness

----------------------------------------------------------------------------
(* Properties.                                                             *)

\* The rows have their declared shape; a verdict is stored only as a success.
TypeOK ==
  /\ task \in Task
  /\ task.verdict # NoVerdict => task.vstatus = "success"
  /\ version \in [Versions -> Version]
  /\ agents \in Seq(Agent) /\ Len(agents) <= MaxAgents
  /\ analyses \in Seq(Analysis)
  /\ sweep.todo \subseteq DOMAIN analyses
  /\ sweep.trial \in DOMAIN analyses \cup {0}
  /\ sweep.step \in Steps
  /\ requests \in 0..MaxRequests

\* A task never pays for two QA trials at once, although admission, the
\* healer, a source change and a rerun all create them.
OneLiveQa == Cardinality(Live(Db, "qa")) <= 1

\* A stored verdict speaks of the source and the audit the task has now, and
\* comes from the newest QA trial of that version: no late import of an older
\* run, an older source or a replaced audit publishes, and what changes the
\* source or the audit withdraws what was published.
VerdictIsCurrent ==
  task.verdict # NoVerdict =>
    /\ task.verdict.current = task.current
    /\ task.verdict.hash = version[task.current].hash
    /\ task.verdict.audit = version[task.current].by
    /\ task.verdict.by # 0 => IsNewest(Db, task.verdict.by)

\* The grades on the trials that count are those of the run that gave the
\* verdict, though grades and verdict are stored in two transactions.
GradesMatchVerdict ==
  task.verdict # NoVerdict /\ task.verdict.by # 0 =>
    \A a \in analyses[task.verdict.by].trials :
      agents[a].status = "done" => agents[a].graded = task.verdict.by

\* Only a request reopens a task whose QA was cancelled: no import, hook or
\* sweep that was under way brings it back.
CancelHolds ==
  [][task.status = "failed" /\ requests' = requests => task'.status = "failed"]_vars

\* One QA trial's verdict replaces another's only after that was withdrawn.
WithdrawnFirst ==
  [][task.verdict # NoVerdict /\ task'.verdict # NoVerdict
     /\ task.verdict.by # 0 /\ task'.verdict.by # 0
     => task'.verdict.by = task.verdict.by]_vars

\* Waits for an audit that was cancelled together with the task's runs: nothing
\* but a request ends that.
Abandoned(v) ==
  /\ version[v].audit = "queued"
  /\ \A i \in DOMAIN analyses :
       analyses[i].kind = "audit" /\ analyses[i].version = v
       => analyses[i].status = "cancelled"

\* A task that runs or waits for its verdict is closed in the end, whichever
\* workers and sweeps die between settling a trial and importing its result.
TaskCloses ==
  task.status \in {"running", "verdict_pending"} ~>
    task.status \in {"completed", "failed"} \/ Abandoned(task.current)

\* The findings of every audit that was asked for arrive, or its failure does.
AuditsArrive ==
  \A v \in Versions :
    version[v].audit = "queued" ~> version[v].audit # "queued" \/ Abandoned(v)

\* "A stale QA import must not complete the task out from under the fresh
\* set": a closed task's verdict read every solver trial that counts.
VerdictCoversTrials ==
  task.status = "completed" /\ task.verdict # NoVerdict =>
    \/ task.verdict.by = 0
    \/ Eligible(Db) \subseteq analyses[task.verdict.by].trials
=============================================================================
