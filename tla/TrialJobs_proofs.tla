-------------------------- MODULE TrialJobs_proofs --------------------------
(***************************************************************************)
(* What holds of TrialJobs for every set of trials and workers and every   *)
(* bound: its types, the retry budget, the immutability of superseded      *)
(* trials, and that the worker_jobs rows implement WorkQueue.              *)
(*                                                                         *)
(* A step is first classified by the variable it changes, so that a fact   *)
(* about job rows is checked against the actions that write job rows only. *)
(***************************************************************************)
EXTENDS TrialJobs, FiniteSetTheorems, TLAPS

JobAction ==
  \/ \E t \in Trials : \/ Submit(t) \/ HeartbeatLapses(t) \/ ReapStaleJob(t)
                       \/ \E w \in Workers : Claim(w, t)
                       \/ \E n \in 0 .. MaxAttempts, u \in Trials : CommitRetry(t, n, u)
  \/ \E w \in Workers : Heartbeat(w) \/ RecordOutcome(w)
  \/ \E S \in SUBSET Trials : CancelRuns(S)

TrialAction ==
  \/ \E t \in Trials : \/ Submit(t) \/ ReapStaleJob(t) \/ ClearTerminalRefs(t)
                       \/ \E n \in 0 .. MaxAttempts, u \in Trials : CommitRetry(t, n, u)
  \/ \E w \in Workers : \/ PrepareTrialRun(w) \/ HarborEnd(w) \/ HarborCancel(w)
                        \/ Heartbeat(w) \/ Settle(w) \/ MarkTrialRetrying(w)
  \/ \E S \in SUBSET Trials : CancelRuns(S)

WorkerAction ==
  \E w \in Workers :
    \/ CheckIdempotency(w) \/ PrepareTrialRun(w) \/ ClaimAttempt(w)
    \/ Settle(w) \/ RunPostTrialHooks(w) \/ HandlerOutcome(w)
    \/ HandlerRaises(w) \/ RecordOutcome(w) \/ MarkTrialRetrying(w)
    \/ Heartbeat(w) \/ Crash(w)
    \/ \E t \in Trials : Claim(w, t)

\* Only these actions write worker_jobs rows.
LEMMA JobStep == [Next]_vars => JobAction \/ UNCHANGED job
  BY DEF Next, JobAction, vars, WorkerStep, WorkerEvent, SweepStep, UserStep,
     CheckIdempotency, PrepareTrialRun, ClaimAttempt, Settle, RunPostTrialHooks,
     HandlerOutcome, HandlerRaises, MarkTrialRetrying, HarborEnd, HarborCancel,
     Crash, ClearTerminalRefs, RequestRetry, RejectRetry

\* Only these actions write trials rows.
LEMMA TrialStep == [Next]_vars => TrialAction \/ UNCHANGED trial
  BY DEF Next, TrialAction, vars, WorkerStep, WorkerEvent, SweepStep, UserStep,
     CheckIdempotency, ClaimAttempt, RunPostTrialHooks, HandlerOutcome,
     HandlerRaises, RecordOutcome, Crash, Claim, HeartbeatLapses,
     RequestRetry, RejectRetry

\* Only these actions change what a worker process remembers.
LEMMA WorkerMemoryStep == [Next]_vars => WorkerAction \/ UNCHANGED worker
  BY DEF Next, WorkerAction, vars, WorkerStep, WorkerEvent, SweepStep, UserStep,
     HarborEnd, HarborCancel, HeartbeatLapses, ReapStaleJob, ClearTerminalRefs,
     Submit, RequestRetry, RejectRetry, CommitRetry, CancelRuns

-----------------------------------------------------------------------------
(* Types.                                                                  *)

\* Replacing one row by a row of the same kind keeps the table's type.
LEMMA UpdateTyped ==
  ASSUME NEW D, NEW R, NEW f \in [D -> R], NEW d, NEW r, d \in D => r \in R
  PROVE  [f EXCEPT ![d] = r] \in [D -> R]
  OBVIOUS

\* The row operators keep the type of the row they are given.
LEMMA ReleasedTyped ==
  /\ \A r \in Trial : Released(r) \in Trial
  /\ \A r \in Job : Released(r) \in Job
  BY DEF Released, Trial, Job

\* Showing a terminal or retrying status to the dashboard keeps a trial row a trial row.
LEMMA ShowsTyped ==
  ASSUME NEW r \in Trial, NEW status \in {"SUCCESS", "FAILED", "RETRYING"},
         NEW error \in {"none", "user", "other"}
  PROVE  Shows(r, status, error) \in Trial
<1>1. \A q \in Trial : [q EXCEPT !.status = status] \in Trial
  BY DEF Trial, ActiveTrial, TerminalTrial
<1>2. \A q \in Trial : [q EXCEPT !.error = error] \in Trial
  BY DEF Trial
<1>3. \A q \in Trial : /\ [q EXCEPT !.finished = TRUE] \in Trial
                       /\ [q EXCEPT !.finished = FALSE] \in Trial
  BY DEF Trial
<1>4. (status \in TerminalTrial) = TRUE \/ (status \in TerminalTrial) = FALSE
  OBVIOUS
<1> DEFINE q == [[r EXCEPT !.status = status] EXCEPT !.error = error]
<1>5. q \in Trial
  BY <1>1, <1>2
<1>6. Shows(r, status, error) = [q EXCEPT !.finished = status \in TerminalTrial]
  BY Zenon DEF Shows
<1> HIDE DEF q
<1> QED
  BY <1>3, <1>4, <1>5, <1>6

\* The two rows of a submission are well typed for any budget.
LEMMA NewRowsTyped ==
  ASSUME NEW n \in Nat PROVE NewTrialRow(n) \in Trial /\ NewJobRow(n) \in Job
<1>0. NoTrialRow \in Trial
  BY DEF NoTrialRow, Trial
<1>1. NoJobRow \in Job
  BY DEF NoJobRow, Job
<1>2. \A r \in Trial : [r EXCEPT !.status = "QUEUED", !.max = n] \in Trial
  BY DEF Trial, ActiveTrial
<1>3. \A r \in Job : [r EXCEPT !.status = "QUEUED", !.max = n] \in Job
  BY DEF Job, ActiveJob
<1> QED
  BY <1>0, <1>1, <1>2, <1>3 DEF NewTrialRow, NewJobRow

\* What a cancel writes on the two tables is well typed.
LEMMA CancelledTyped ==
  /\ \A r \in Trial : CancelledRow(r) \in Trial
  /\ \A r \in Job : CancelledJob(r) \in Job
<1>1. ASSUME NEW r \in Trial PROVE CancelledRow(r) \in Trial
  <2>1. [r EXCEPT !.stage = "cancelled", !.max = r.attempts] \in Trial
    BY DEF Trial
  <2> QED
    BY <2>1, ShowsTyped, ReleasedTyped DEF CancelledRow
<1>2. ASSUME NEW r \in Job PROVE CancelledJob(r) \in Job
  <2>1. [r EXCEPT !.status = "CANCELLED"] \in Job
    BY DEF Job, ClosedJob
  <2> QED
    BY <2>1, ReleasedTyped DEF CancelledJob
<1> QED
  BY <1>1, <1>2

\* Linking a trial to the one that replaces it keeps its type.
LEMMA SupersededTyped ==
  ASSUME NEW r \in Trial, NEW u \in Trials PROVE SupersededRow(r, u) \in Trial
<1>1. [r EXCEPT !.next = u] \in Trial /\ r.error \in {"none", "user", "other"}
  BY DEF Trial
<1> QED
  BY <1>1, ShowsTyped, ReleasedTyped DEF SupersededRow

\* Harbor's END event, however it ends, keeps a trial row's type.
LEMMA EndedTyped ==
  ASSUME NEW r \in Trial, NEW end \in {"reward", "timeout", "exception", "neither"}
  PROVE  Ended(r, end) \in Trial
<1>1. [r EXCEPT !.stage = "completed"] \in Trial /\ r.error \in {"none", "user", "other"}
  BY DEF Trial
<1> QED
  BY <1>1, ShowsTyped DEF Ended

\* Preparing an attempt keeps a trial row's type.
LEMMA RunningTyped ==
  ASSUME NEW r \in Trial, NEW w \in Workers PROVE RunningRow(r, w) \in Trial
  BY DEF RunningRow, Trial, ActiveTrial

\* Every step keeps the type of worker_jobs.
LEMMA JobTyped ==
  ASSUME TypeOK, [Next]_vars PROVE job' \in [Trials -> Job]
<1>0. /\ job \in [Trials -> Job]
      /\ \A t \in Trials : job[t] \in Job
  BY DEF TypeOK
<1>1. ASSUME NEW t \in Trials, Submit(t) PROVE job' \in [Trials -> Job]
  BY <1>0, <1>1, NewRowsTyped, ConstantsAssumption DEF Submit
<1>2. ASSUME NEW t \in Trials, HeartbeatLapses(t) PROVE job' \in [Trials -> Job]
  BY <1>0, <1>2 DEF HeartbeatLapses, Job
<1>3. ASSUME NEW t \in Trials, ReapStaleJob(t) PROVE job' \in [Trials -> Job]
  <2>1. \A s \in {"RETRYING", "FAILED"} : [job[t] EXCEPT !.status = s] \in Job
    BY <1>0 DEF Job, ActiveJob, ClosedJob
  <2> QED
    BY <1>0, <1>3, <2>1, ReleasedTyped DEF ReapStaleJob
<1>4. ASSUME NEW t \in Trials, NEW w \in Workers, Claim(w, t)
      PROVE  job' \in [Trials -> Job]
  <2>1. [status |-> "RUNNING", attempts |-> job[t].attempts + 1,
         max |-> job[t].max, owner |-> w, beating |-> TRUE] \in Job
    BY <1>0 DEF Job, ActiveJob
  <2> QED
    BY <1>0, <1>4, <2>1 DEF Claim
<1>5. ASSUME NEW t \in Trials, NEW n \in 0 .. MaxAttempts, NEW u \in Trials,
             CommitRetry(t, n, u)
      PROVE  job' \in [Trials -> Job]
  BY <1>0, <1>5, NewRowsTyped, CancelledTyped, ConstantsAssumption DEF CommitRetry
<1>6. ASSUME NEW w \in Workers, Heartbeat(w) PROVE job' \in [Trials -> Job]
  <2>1. PICK t : job' = job \/ job' = [job EXCEPT ![t].beating = TRUE]
    BY <1>6 DEF Heartbeat, TouchTrialExecution, HeartbeatWorkerJob
  <2> QED
    BY <1>0, <2>1 DEF Job
<1>7. ASSUME NEW w \in Workers, RecordOutcome(w) PROVE job' \in [Trials -> Job]
  <2> DEFINE t == worker[w].trial
  <2>1. \/ job' = job
        \/ job' = [job EXCEPT ![t] = Released([job[t] EXCEPT !.status = "RETRYING"])]
        \/ \E s \in {"SUCCESS", "FAILED"} : job' = [job EXCEPT ![t].status = s]
    BY <1>7 DEF RecordOutcome
  <2>2. ASSUME t \in Trials, NEW s \in {"RETRYING", "SUCCESS", "FAILED"}
        PROVE  [job[t] EXCEPT !.status = s] \in Job
    BY <1>0, <2>2 DEF Job, ActiveJob, ClosedJob
  <2> HIDE DEF t
  <2> QED
    BY <1>0, <2>1, <2>2, ReleasedTyped, UpdateTyped
<1>8. ASSUME NEW S \in SUBSET Trials, CancelRuns(S) PROVE job' \in [Trials -> Job]
  BY <1>0, <1>8, CancelledTyped DEF CancelRuns
<1> QED
  BY <1>0, <1>1, <1>2, <1>3, <1>4, <1>5, <1>6, <1>7, <1>8, JobStep DEF JobAction

\* Every step keeps the type of trials.
LEMMA TrialTyped ==
  ASSUME TypeOK, [Next]_vars PROVE trial' \in [Trials -> Trial]
<1>0. /\ trial \in [Trials -> Trial]
      /\ \A t \in Trials : trial[t] \in Trial
  BY DEF TypeOK
<1>a. \A w \in Workers : ~At(w, "idle") => worker[w].trial \in Trials
  BY DEF TypeOK
<1>1. ASSUME NEW t \in Trials, Submit(t) PROVE trial' \in [Trials -> Trial]
  BY <1>0, <1>1, NewRowsTyped, ConstantsAssumption DEF Submit
<1>2. ASSUME NEW t \in Trials, ReapStaleJob(t) PROVE trial' \in [Trials -> Trial]
  <2>1. [trial[t] EXCEPT !.stage = "cancelled"] \in Trial
    BY <1>0 DEF Trial
  <2> QED
    BY <1>0, <1>2, <2>1, ShowsTyped, ReleasedTyped DEF ReapStaleJob
<1>3. ASSUME NEW t \in Trials, ClearTerminalRefs(t) PROVE trial' \in [Trials -> Trial]
  BY <1>0, <1>3 DEF ClearTerminalRefs, Trial
<1>4. ASSUME NEW t \in Trials, NEW n \in 0 .. MaxAttempts, NEW u \in Trials,
             CommitRetry(t, n, u)
      PROVE  trial' \in [Trials -> Trial]
  BY <1>0, <1>4, NewRowsTyped, SupersededTyped, ConstantsAssumption DEF CommitRetry
<1>5. ASSUME NEW w \in Workers, PrepareTrialRun(w) PROVE trial' \in [Trials -> Trial]
  <2>1. worker[w].trial \in Trials
    BY <1>a, <1>5 DEF PrepareTrialRun, At
  <2> QED
    BY <1>0, <1>5, <2>1, RunningTyped DEF PrepareTrialRun
<1>6. ASSUME NEW w \in Workers, HarborEnd(w) PROVE trial' \in [Trials -> Trial]
  BY <1>0, <1>6, EndedTyped, UpdateTyped DEF HarborEnd
<1>7. ASSUME NEW w \in Workers, HarborCancel(w) PROVE trial' \in [Trials -> Trial]
  <2>1. \A t \in Trials : [trial[t] EXCEPT !.stage = "cancelled"] \in Trial
    BY <1>0 DEF Trial
  <2> QED
    BY <1>0, <1>7, <2>1, ShowsTyped, UpdateTyped DEF HarborCancel
<1>8. ASSUME NEW w \in Workers, Heartbeat(w) PROVE trial' \in [Trials -> Trial]
  <2>1. PICK t : trial' = trial \/ trial' = [trial EXCEPT ![t].owner = w]
    BY <1>8 DEF Heartbeat, TouchTrialExecution, HeartbeatWorkerJob
  <2> QED
    BY <1>0, <2>1 DEF Trial
<1>9. ASSUME NEW w \in Workers, Settle(w) PROVE trial' \in [Trials -> Trial]
  <2> DEFINE t == worker[w].trial
  <2>1. worker[w].trial \in Trials
    BY <1>a, <1>9 DEF Settle, At
  <2>2. PICK result \in {"success", "terminal", "retryable"} :
          \E error \in {"other", "none", trial[t].error} :
            \/ trial' = trial
            \/ trial' = [trial EXCEPT ![t] =
                            Released(Shows(trial[t], SettledStatus(t, result), error))]
    BY <1>9 DEF Settle
  <2>3. SettledStatus(t, result) \in {"SUCCESS", "FAILED", "RETRYING"}
    BY DEF SettledStatus
  <2>4. trial[t].error \in {"none", "user", "other"}
    BY <1>0, <2>1 DEF Trial
  <2> HIDE DEF t
  <2> QED
    BY <1>0, <2>2, <2>3, <2>4, ShowsTyped, ReleasedTyped, UpdateTyped
<1>10. ASSUME NEW w \in Workers, MarkTrialRetrying(w) PROVE trial' \in [Trials -> Trial]
  <2>1. \A t \in Trials :
          [trial[t] EXCEPT !.status = "RETRYING", !.error = "other"] \in Trial
    BY <1>0 DEF Trial, ActiveTrial
  <2>2. PICK t : \/ trial' = trial
                 \/ trial' = [trial EXCEPT ![t] =
                      Released([trial[t] EXCEPT !.status = "RETRYING", !.error = "other"])]
    BY <1>10 DEF MarkTrialRetrying
  <2>3. ASSUME t \in Trials
        PROVE  Released([trial[t] EXCEPT !.status = "RETRYING", !.error = "other"]) \in Trial
    BY <2>1, <2>3, ReleasedTyped
  <2> DEFINE row == Released([trial[t] EXCEPT !.status = "RETRYING", !.error = "other"])
  <2> HIDE DEF row
  <2> QED
    BY <1>0, <2>2, <2>3, UpdateTyped DEF row
<1>11. ASSUME NEW S \in SUBSET Trials, CancelRuns(S) PROVE trial' \in [Trials -> Trial]
  BY <1>0, <1>11, CancelledTyped DEF CancelRuns
<1> QED
  BY <1>0, <1>1, <1>2, <1>3, <1>4, <1>5, <1>6, <1>7, <1>8, <1>9, <1>10, <1>11,
     TrialStep DEF TrialAction

\* Every step keeps the type of what workers remember, and a busy worker has a trial.
LEMMA WorkerTyped ==
  ASSUME TypeOK, [Next]_vars
  PROVE  /\ worker' \in [Workers -> Worker]
         /\ \A w \in Workers : ~At(w, "idle")' => worker'[w].trial \in Trials
<1> DEFINE Good(f) == /\ f \in [Workers -> Worker]
                      /\ \A w \in Workers : f[w].pc # "idle" => f[w].trial \in Trials
<1> USE DEF At, Worker, Pc, Handling
<1>0. Good(worker)
  BY DEF TypeOK
<1>1. ASSUME NEW w \in Workers, NEW pc \in Pc,
             worker[w].pc # "idle", worker' = [worker EXCEPT ![w].pc = pc]
      PROVE  Good(worker')
  BY <1>0, <1>1
<1>2. ASSUME NEW w \in Workers, worker' = [worker EXCEPT ![w] = Idle]
      PROVE  Good(worker')
  BY <1>0, <1>2 DEF Idle
<1>3. ASSUME NEW w \in Workers, NEW o \in {"ok", "retry", "fail"},
             worker[w].pc # "idle", Decide(w, o)
      PROVE  Good(worker')
  BY <1>0, <1>3 DEF Decide
<1>4. ASSUME NEW w \in Workers, NEW t \in Trials, Claim(w, t) PROVE Good(worker')
  BY <1>0, <1>4 DEF Claim
<1>5. ASSUME NEW w \in Workers, PrepareTrialRun(w) PROVE Good(worker')
  <2>1. worker[w].pc = "checked" /\ worker[w].trial \in Trials
    BY <1>0, <1>5 DEF PrepareTrialRun
  <2>2. trial[worker[w].trial].attempts + 1 \in Nat
    BY <2>1 DEF TypeOK, Trial
  <2>3. CASE Goto(w, "handled")
    BY <1>1, <2>1, <2>3 DEF Goto
  <2>4. CASE worker' = [worker EXCEPT ![w] = [worker[w] EXCEPT
               !.pc = "prepared", !.attempt = trial[worker[w].trial].attempts + 1]]
    BY <1>0, <2>1, <2>2, <2>4
  <2> QED
    BY <1>5, <2>3, <2>4 DEF PrepareTrialRun
<1>6. ASSUME NEW w \in Workers,
             \/ CheckIdempotency(w) \/ ClaimAttempt(w) \/ Settle(w)
             \/ RunPostTrialHooks(w)
      PROVE  Good(worker')
  <2>1. worker[w].pc # "idle"
    BY <1>6 DEF CheckIdempotency, ClaimAttempt, Settle, RunPostTrialHooks
  <2>2. \E pc \in {"handled", "checked", "running", "hooks"} : Goto(w, pc)
    BY <1>6, Zenon DEF CheckIdempotency, ClaimAttempt, Settle, RunPostTrialHooks
  <2> QED
    BY <1>1, <2>1, <2>2 DEF Goto
<1>7. ASSUME NEW w \in Workers, HandlerOutcome(w) \/ HandlerRaises(w)
      PROVE  Good(worker')
  <2>1. worker[w].pc # "idle"
    BY <1>7, ConstantsAssumption DEF HandlerOutcome, HandlerRaises
  <2>2. \E o \in {"ok", "retry", "fail"} : Decide(w, o)
    BY <1>7 DEF HandlerOutcome, HandlerRaises
  <2> QED
    BY <1>3, <2>1, <2>2
<1>8. ASSUME NEW w \in Workers, RecordOutcome(w) PROVE Good(worker')
  <2>1. /\ worker[w].pc # "idle"
        /\ worker' = [worker EXCEPT ![w] = Idle] \/ Goto(w, "marking")
    BY <1>8 DEF RecordOutcome
  <2> QED
    BY <1>1, <1>2, <2>1 DEF Goto
<1>9. ASSUME NEW w \in Workers, MarkTrialRetrying(w) \/ Crash(w) \/ Heartbeat(w)
      PROVE  Good(worker')
  <2>1. worker' = [worker EXCEPT ![w] = Idle] \/ worker' = worker
    BY <1>9
       DEF MarkTrialRetrying, Crash, Heartbeat, TouchTrialExecution, HeartbeatWorkerJob
  <2> QED
    BY <1>0, <1>2, <2>1
<1>10. Good(worker')
  <2>1. CASE UNCHANGED worker
    BY <1>0, <2>1
  <2>2. CASE WorkerAction
    BY <2>2, <1>4, <1>5, <1>6, <1>7, <1>8, <1>9 DEF WorkerAction
  <2> QED
    BY <2>1, <2>2, WorkerMemoryStep
<1> QED
  BY <1>10

\* Rows, worker memories and bounds keep their declared shape.
THEOREM TypeCorrect == Spec => []TypeOK
<1>1. Init => TypeOK
  BY ConstantsAssumption DEF Init, TypeOK, Job, Trial, Worker, Pc, NoJobRow,
     NoTrialRow, Idle, At
<1>2. TypeOK /\ [Next]_vars => TypeOK'
  <2> SUFFICES ASSUME TypeOK, [Next]_vars PROVE TypeOK'
    OBVIOUS
  <2>1. retrying' \subseteq Trials \X Nat
    <3>1. \A t \in Trials : trial[t].max \in Nat
      BY DEF TypeOK, Trial
    <3>2. \/ retrying' \subseteq retrying
          \/ \E t \in Trials : retrying' = retrying \cup {<<t, trial[t].max>>}
      BY DEF Next, vars, WorkerStep, WorkerEvent, SweepStep, UserStep,
         CheckIdempotency, PrepareTrialRun, ClaimAttempt, Settle, RunPostTrialHooks,
         HandlerOutcome, RecordOutcome, MarkTrialRetrying, HarborEnd, HarborCancel,
         Heartbeat, TouchTrialExecution, HeartbeatWorkerJob, HandlerRaises, Crash,
         Claim, HeartbeatLapses, ReapStaleJob,
         ClearTerminalRefs, Submit, RequestRetry, RejectRetry, CommitRetry, CancelRuns
    <3> QED
      BY <3>1, <3>2 DEF TypeOK
  <2>2. cancels' \in 0 .. MaxCancels
    <3>1. cancels' = cancels \/ (cancels < MaxCancels /\ cancels' = cancels + 1)
      BY DEF Next, vars, WorkerStep, WorkerEvent, SweepStep, UserStep,
         CheckIdempotency, PrepareTrialRun, ClaimAttempt, Settle, RunPostTrialHooks,
         HandlerOutcome, RecordOutcome, MarkTrialRetrying, HarborEnd, HarborCancel,
         Heartbeat, TouchTrialExecution, HeartbeatWorkerJob, HandlerRaises, Crash,
         Claim, HeartbeatLapses, ReapStaleJob,
         ClearTerminalRefs, Submit, RequestRetry, RejectRetry, CommitRetry, CancelRuns
    <3> QED
      BY <3>1, ConstantsAssumption DEF TypeOK
  <2> QED
    BY <2>1, <2>2, JobTyped, TrialTyped, WorkerTyped DEF TypeOK
<1> QED
  BY <1>1, <1>2, PTL DEF Spec

-----------------------------------------------------------------------------
(* What a step may do to one row.                                          *)

\* The invariant that ties the tables, the workers and the retry requests
\* together: a job row exists exactly when its trial row does, work in progress
\* is about existing rows, and a superseded trial is over, and so is its job.
RowInv ==
  /\ \A t \in Trials : trial[t].status = "none" <=> job[t].status = "none"
  /\ \A w \in Workers : ~At(w, "idle") => job[worker[w].trial].status # "none"
  /\ \A r \in retrying : job[r[1]].status # "none"
  /\ \A t \in Trials : ~Live(t) => /\ job[t].status \in ClosedJob
                                   /\ trial[t].status \in TerminalTrial

\* A job row keeps its status and counts, is enqueued, claimed, put back with
\* attempts left, or closed.
Closes(t) ==
  /\ job[t].status \in ActiveJob /\ job'[t].status \in ClosedJob
  /\ job'[t].attempts = job[t].attempts /\ job'[t].max = job[t].max

JobEffect(t) ==
  \/ /\ job'[t].status = job[t].status
     /\ job'[t].attempts = job[t].attempts /\ job'[t].max = job[t].max
  \/ /\ job[t].status = "none"
     /\ \E n \in 0 .. MaxAttempts : /\ job'[t] = NewJobRow(n)
                                   /\ trial'[t] = NewTrialRow(n)
  \/ /\ Claimable(t)
     /\ job'[t].status = "RUNNING" /\ job'[t].attempts = job[t].attempts + 1
     /\ job'[t].max = job[t].max
  \/ /\ job[t].status = "RUNNING" /\ AttemptsLeft(t)
     /\ job'[t].status = "RETRYING" /\ job'[t].attempts = job[t].attempts
     /\ job'[t].max = job[t].max
  \/ Closes(t)

\* Changing the status of a job row and releasing it leaves its counts alone.
LEMMA JobRowFields ==
  ASSUME NEW r \in Job, NEW s
  PROVE  /\ Released([r EXCEPT !.status = s]).status = s
         /\ Released([r EXCEPT !.status = s]).attempts = r.attempts
         /\ Released([r EXCEPT !.status = s]).max = r.max
  BY DEF Job, Released

\* A cancelled job keeps its counts.
LEMMA CancelledJobFields ==
  ASSUME NEW r \in Job
  PROVE  /\ CancelledJob(r).status = "CANCELLED"
         /\ CancelledJob(r).attempts = r.attempts
         /\ CancelledJob(r).max = r.max
  BY JobRowFields DEF CancelledJob

\* What a step of the system does to one job row is one of the five effects above.
LEMMA JobRowStep ==
  ASSUME TypeOK, RowInv, [Next]_vars, NEW t \in Trials
  PROVE  JobEffect(t)
<1>0. /\ job \in [Trials -> Job]
      /\ \A u \in Trials : job[u] \in Job
      /\ \A w \in Workers : ~At(w, "idle") => worker[w].trial \in Trials
      /\ trial \in [Trials -> Trial]
  BY DEF TypeOK
<1>1. ASSUME NEW u \in Trials, Submit(u) PROVE JobEffect(t)
  <2>1. /\ job[u].status = "none"
        /\ job' = [job EXCEPT ![u] = NewJobRow(MaxAttempts)]
        /\ trial' = [trial EXCEPT ![u] = NewTrialRow(MaxAttempts)]
    BY <1>1 DEF Submit, RowInv
  <2> QED
    BY <1>0, <2>1, ConstantsAssumption DEF JobEffect
<1>2. ASSUME NEW u \in Trials, HeartbeatLapses(u) PROVE JobEffect(t)
  BY <1>0, <1>2 DEF HeartbeatLapses, JobEffect, Job
<1>3. ASSUME NEW u \in Trials, ReapStaleJob(u) PROVE JobEffect(t)
  <2> DEFINE s == IF AttemptsLeft(u) THEN "RETRYING" ELSE "FAILED"
             row == Released([job[u] EXCEPT !.status = s])
  <2>1. job[u].status = "RUNNING" /\ job' = [job EXCEPT ![u] = row]
    BY <1>3 DEF ReapStaleJob, Stale
  <2>2. row.status = s /\ row.attempts = job[u].attempts /\ row.max = job[u].max
    BY <1>0, JobRowFields
  <2> HIDE DEF row
  <2>3. CASE t = u
    BY <1>0, <2>1, <2>2, <2>3 DEF JobEffect, Closes, ActiveJob, ClosedJob
  <2> QED
    BY <1>0, <2>1, <2>3 DEF JobEffect
<1>4. ASSUME NEW u \in Trials, NEW w \in Workers, Claim(w, u) PROVE JobEffect(t)
  BY <1>0, <1>4 DEF Claim, JobEffect
<1>5. ASSUME NEW u \in Trials, NEW n \in 0 .. MaxAttempts, NEW v \in Trials,
             CommitRetry(u, n, v)
      PROVE  JobEffect(t)
  <2>1. job[u].status # "none" /\ job[v].status = "none"
    BY <1>5 DEF CommitRetry, RowInv
  <2>2. CASE t = v
    BY <1>0, <1>5, <2>1, <2>2 DEF CommitRetry, JobEffect
  <2>3. CASE t = u /\ job[u].status \in ActiveJob
    <3>1. job'[t] = CancelledJob(job[t])
      BY <1>0, <1>5, <2>1, <2>3 DEF CommitRetry
    <3> QED
      BY <1>0, <2>3, <3>1, CancelledJobFields DEF JobEffect, Closes, ClosedJob
  <2>4. CASE t # v /\ ~(t = u /\ job[u].status \in ActiveJob)
    BY <1>0, <1>5, <2>1, <2>4 DEF CommitRetry, JobEffect
  <2> QED
    BY <2>2, <2>3, <2>4
<1>6. ASSUME NEW w \in Workers, Heartbeat(w) PROVE JobEffect(t)
  <2>1. PICK u : job' = job \/ job' = [job EXCEPT ![u].beating = TRUE]
    BY <1>6 DEF Heartbeat, TouchTrialExecution, HeartbeatWorkerJob
  <2> QED
    BY <1>0, <2>1 DEF JobEffect, Job
<1>7. ASSUME NEW w \in Workers, RecordOutcome(w) PROVE JobEffect(t)
  <2> DEFINE u == worker[w].trial
  <2>1. u \in Trials
    BY <1>0, <1>7 DEF RecordOutcome, At
  <2>2. CASE job' = job
    BY <2>2 DEF JobEffect
  <2> DEFINE row == Released([job[u] EXCEPT !.status = "RETRYING"])
  <2>3. CASE /\ job[u].status = "RUNNING" /\ AttemptsLeft(u)
             /\ job' = [job EXCEPT ![u] = row]
    <3>1. row.status = "RETRYING" /\ row.attempts = job[u].attempts /\ row.max = job[u].max
      BY <1>0, <2>1, JobRowFields
    <3> HIDE DEF row
    <3> QED
      BY <1>0, <2>1, <2>3, <3>1 DEF JobEffect
  <2>4. ASSUME NEW s \in {"SUCCESS", "FAILED"}, job[u].status = "RUNNING",
               job' = [job EXCEPT ![u].status = s]
        PROVE  JobEffect(t)
    BY <1>0, <2>1, <2>4 DEF JobEffect, Closes, ActiveJob, ClosedJob, Job
  <2> QED
    BY <1>7, <2>2, <2>3, <2>4 DEF RecordOutcome, HoldsJob
<1>8. ASSUME NEW S \in SUBSET Trials, CancelRuns(S) PROVE JobEffect(t)
  <2>1. \/ job'[t] = job[t]
        \/ job[t].status \in ActiveJob /\ job'[t] = CancelledJob(job[t])
    BY <1>8 DEF CancelRuns
  <2> QED
    BY <1>0, <2>1, CancelledJobFields DEF JobEffect, Closes, ClosedJob
<1>9. CASE UNCHANGED job
  BY <1>9 DEF JobEffect
<1> QED
  BY <1>1, <1>2, <1>3, <1>4, <1>5, <1>6, <1>7, <1>8, <1>9, JobStep DEF JobAction


\* What a step may do to a trial row.  Only a live row has its outcome written,
\* and only the preparation of an attempt raises the count.
Preparing(t) == {w \in Workers : /\ worker[w].pc \in {"claimed", "checked"}
                                 /\ worker[w].trial = t}

Keeps(t) == Record(t)' = Record(t) /\ trial'[t].max = trial[t].max

Created(t) ==
  /\ trial[t].status = "none"
  /\ \E n \in 0 .. MaxAttempts : /\ trial'[t] = NewTrialRow(n)
                                /\ job'[t] = NewJobRow(n)

Written(t) ==
  /\ Live(t) /\ trial[t].status # "none" /\ trial'[t].status # "none"
  /\ trial'[t].next = NoTrial
  /\ trial'[t].attempts = trial[t].attempts
  /\ trial'[t].max \in {trial[t].max, trial[t].attempts}

Prepared(t) ==
  /\ Live(t) /\ trial[t].status # "none" /\ trial'[t].status # "none"
  /\ trial'[t].next = NoTrial
  /\ trial'[t].attempts = trial[t].attempts + 1
  /\ trial'[t].max = trial[t].max
  /\ \E w \in Preparing(t) : worker'[w].pc = "prepared"

Replaced(t) ==
  /\ Live(t) /\ trial[t].status # "none" /\ trial'[t].status \in TerminalTrial
  /\ trial'[t].attempts = trial[t].attempts
  /\ trial'[t].max = trial[t].max
  /\ job'[t].status \in ClosedJob

TrialEffect(t) ==
  Keeps(t) \/ Created(t) \/ Written(t) \/ Prepared(t) \/ Replaced(t)

\* Releasing a trial changes its owner and nothing else that is compared.
LEMMA ReleasedFields ==
  ASSUME NEW r \in Trial
  PROVE  /\ Released(r).status = r.status /\ Released(r).next = r.next
         /\ Released(r).attempts = r.attempts /\ Released(r).max = r.max
         /\ Released(r).error = r.error /\ Released(r).finished = r.finished
  BY DEF Trial, Released

\* A status shown on a trial leaves its successor and its counts alone.
LEMMA ShowsFields ==
  ASSUME NEW r \in Trial, NEW s, NEW e
  PROVE  /\ Shows(r, s, e).status = s /\ Shows(r, s, e).next = r.next
         /\ Shows(r, s, e).attempts = r.attempts /\ Shows(r, s, e).max = r.max
<1> DEFINE q == [[r EXCEPT !.status = s] EXCEPT !.error = e]
           b == s \in TerminalTrial
<1>1. Shows(r, s, e) = [q EXCEPT !.finished = b]
  BY Zenon DEF Shows
<1>2. /\ q.status = s /\ q.next = r.next /\ q.attempts = r.attempts /\ q.max = r.max
      /\ DOMAIN q = DOMAIN r
  OBVIOUS
<1>3. DOMAIN r = {"status", "attempts", "max", "owner", "error", "stage",
                  "finished", "keyed", "next"}
  BY DEF Trial
<1>4. \A f \in DOMAIN q : f # "finished" => [q EXCEPT !.finished = b][f] = q[f]
  OBVIOUS
<1> QED
  BY <1>1, <1>2, <1>3, <1>4

\* A cancelled trial is FAILED and its budget is the attempts it made.
LEMMA CancelledRowFields ==
  ASSUME NEW r \in Trial
  PROVE  /\ CancelledRow(r).status = "FAILED" /\ CancelledRow(r).next = r.next
         /\ CancelledRow(r).attempts = r.attempts
         /\ CancelledRow(r).max = r.attempts
<1> DEFINE q == [r EXCEPT !.stage = "cancelled", !.max = r.attempts]
<1>1. /\ q \in Trial /\ q.next = r.next /\ q.attempts = r.attempts
      /\ q.max = r.attempts
  BY DEF Trial
<1> HIDE DEF q
<1>2. Shows(q, "FAILED", "user") \in Trial
  BY <1>1, ShowsTyped
<1>3. CancelledRow(r) = Released(Shows(q, "FAILED", "user"))
  BY Zenon DEF CancelledRow, q
<1> QED
  BY <1>1, <1>2, <1>3, ShowsFields, ReleasedFields

\* A trial that is replaced is over, with its counts unchanged.
LEMMA SupersededRowFields ==
  ASSUME NEW r \in Trial, NEW u \in Trials
  PROVE  /\ SupersededRow(r, u).status \in TerminalTrial
         /\ SupersededRow(r, u).attempts = r.attempts
         /\ SupersededRow(r, u).max = r.max
<1> DEFINE q == [r EXCEPT !.next = u]
           e == IF r.error = "none" THEN "other" ELSE r.error
<1>1. /\ q \in Trial /\ q.status = r.status /\ q.attempts = r.attempts
      /\ q.max = r.max /\ e \in {"none", "user", "other"}
  BY DEF Trial
<1> HIDE DEF q, e
<1>2. Shows(q, "FAILED", e) \in Trial
  BY <1>1, ShowsTyped
<1>3. /\ Released(Shows(q, "FAILED", e)).status = "FAILED"
      /\ Released(Shows(q, "FAILED", e)).attempts = r.attempts
      /\ Released(Shows(q, "FAILED", e)).max = r.max
  BY <1>1, <1>2, ShowsFields, ReleasedFields
<1> QED
  BY <1>1, <1>3 DEF SupersededRow, TerminalTrial, q, e

\* Harbor's END event neither removes a trial nor touches its counts.
LEMMA EndedFields ==
  ASSUME NEW r \in Trial, r.status # "none",
         NEW end \in {"reward", "timeout", "exception", "neither"}
  PROVE  /\ Ended(r, end).status # "none" /\ Ended(r, end).next = r.next
         /\ Ended(r, end).attempts = r.attempts /\ Ended(r, end).max = r.max
<1> DEFINE q == [r EXCEPT !.stage = "completed"]
<1>1. /\ q \in Trial /\ q.status = r.status /\ q.next = r.next
      /\ q.attempts = r.attempts /\ q.max = r.max
  BY DEF Trial
<1> HIDE DEF q
<1>2. \/ Ended(r, end) = q
      \/ \E s \in {"SUCCESS", "FAILED"}, e \in {"other", r.error} :
           Ended(r, end) = Shows(q, s, e)
  BY DEF Ended, q
<1> QED
  BY <1>1, <1>2, ShowsFields

\* Writing a row that keeps the links and the counts is an effect of kind Written.
LEMMA WrittenRow ==
  ASSUME NEW t \in Trials, NEW row, trial \in [Trials -> Trial],
         trial'[t] = row, Live(t), trial[t].status # "none",
         row.status # "none", row.next = trial[t].next,
         row.attempts = trial[t].attempts,
         row.max \in {trial[t].max, trial[t].attempts}
  PROVE  Written(t)
  BY DEF Written, Live

\* What a step of the system does to one trial row is one of the five effects above.
LEMMA TrialRowStep ==
  ASSUME TypeOK, RowInv, [Next]_vars, NEW t \in Trials
  PROVE  TrialEffect(t)
<1>0. /\ job \in [Trials -> Job] /\ trial \in [Trials -> Trial]
      /\ worker \in [Workers -> Worker]
      /\ \A u \in Trials : trial[u] \in Trial /\ job[u] \in Job
      /\ \A w \in Workers : ~At(w, "idle") => /\ worker[w].trial \in Trials
                                              /\ trial[worker[w].trial].status # "none"
      /\ \A u \in Trials : /\ job[u].status # "none" <=> trial[u].status # "none"
                           /\ ~Live(u) => trial[u].status \in TerminalTrial
                           /\ ~Live(u) => job[u].status \in ClosedJob
  BY DEF TypeOK, RowInv
<1>u. ASSUME NEW u, NEW row, trial' = [trial EXCEPT ![u] = row], t # u
      PROVE  Keeps(t)
  BY <1>0, <1>u DEF Keeps, Record
<1>k. UNCHANGED trial => Keeps(t)
  BY DEF Keeps, Record
<1>1. ASSUME NEW u \in Trials, Submit(u) PROVE TrialEffect(t)
  <2>1. CASE t = u
    BY <1>0, <1>1, <2>1, ConstantsAssumption DEF Submit, TrialEffect, Created
  <2> QED
    BY <1>1, <1>u, <2>1 DEF Submit, TrialEffect
<1>2. ASSUME NEW u \in Trials, ReapStaleJob(u) PROVE TrialEffect(t)
  <2> DEFINE s == IF AttemptsLeft(u) THEN "RETRYING" ELSE "FAILED"
             q == [trial[u] EXCEPT !.stage = "cancelled"]
             row == IF AttemptsLeft(u) \/ trial[u].stage = "completed"
                    THEN trial[u] ELSE q
  <2>1. trial' = [trial EXCEPT ![u] = Released(Shows(row, s, "other"))]
    BY <1>2 DEF ReapStaleJob
  <2>2. Live(u) /\ trial[u].status # "none"
    BY <1>0, <1>2 DEF ReapStaleJob, Stale, ClosedJob
  <2>3. q \in Trial /\ q.next = trial[u].next /\ q.attempts = trial[u].attempts
        /\ q.max = trial[u].max
    BY <1>0 DEF Trial
  <2>4. /\ row \in Trial /\ row.next = trial[u].next
        /\ row.attempts = trial[u].attempts /\ row.max = trial[u].max
    BY <1>0, <2>3
  <2>5. s \in {"SUCCESS", "FAILED", "RETRYING"}
    OBVIOUS
  <2> HIDE DEF row, s
  <2>6. Shows(row, s, "other") \in Trial
    BY <2>4, <2>5, ShowsTyped
  <2> DEFINE new == Released(Shows(row, s, "other"))
  <2>7. /\ new.status # "none" /\ new.next = trial[u].next
        /\ new.attempts = trial[u].attempts /\ new.max = trial[u].max
    BY <2>4, <2>5, <2>6, ShowsFields, ReleasedFields
  <2> HIDE DEF new
  <2>8. CASE t = u
    <3>1. trial'[t] = new
      BY <1>0, <2>1, <2>8 DEF new
    <3> QED
      BY <1>0, <2>2, <2>7, <2>8, <3>1, WrittenRow DEF TrialEffect
  <2> QED
    BY <1>u, <2>1, <2>8 DEF TrialEffect
<1>3. ASSUME NEW u \in Trials, ClearTerminalRefs(u) PROVE TrialEffect(t)
  BY <1>0, <1>3 DEF ClearTerminalRefs, TrialEffect, Keeps, Record, Trial
<1>4. ASSUME NEW u \in Trials, NEW n \in 0 .. MaxAttempts, NEW v \in Trials,
             CommitRetry(u, n, v)
      PROVE  TrialEffect(t)
  <2>1. /\ trial[u].status # "none" /\ trial[v].status = "none" /\ Live(u)
    BY <1>0, <1>4 DEF CommitRetry, RowInv
  <2>2. CASE t = v
    BY <1>0, <1>4, <2>1, <2>2 DEF CommitRetry, TrialEffect, Created
  <2>3. CASE t = u
    <3>1. trial'[t] = SupersededRow(trial[u], v)
      BY <1>0, <1>4, <2>1, <2>3 DEF CommitRetry
    <3>2. job'[t].status \in ClosedJob
      <4>1. job[u].status \in ActiveJob \/ job[u].status \in ClosedJob
        BY <1>0, <2>1 DEF Job
      <4>2. job'[t] = IF job[u].status \in ActiveJob THEN CancelledJob(job[u]) ELSE job[u]
        BY <1>0, <1>4, <2>1, <2>3 DEF CommitRetry
      <4> QED
        BY <1>0, <4>1, <4>2, CancelledJobFields DEF ClosedJob
    <3> QED
      BY <1>0, <2>1, <2>3, <3>1, <3>2, SupersededRowFields DEF TrialEffect, Replaced
  <2>4. CASE t # u /\ t # v
    BY <1>0, <1>4, <2>4 DEF CommitRetry, TrialEffect, Keeps, Record
  <2> QED
    BY <2>2, <2>3, <2>4
<1>5. ASSUME NEW w \in Workers, PrepareTrialRun(w) PROVE TrialEffect(t)
  <2> DEFINE u == worker[w].trial
  <2>1. /\ worker[w].pc = "checked" /\ u \in Trials /\ trial[u].status # "none"
    BY <1>0, <1>5 DEF PrepareTrialRun, At
  <2>2. CASE UNCHANGED trial
    BY <1>k, <2>2 DEF TrialEffect
  <2>3. CASE /\ Live(u) /\ trial' = [trial EXCEPT ![u] = RunningRow(trial[u], w)]
             /\ worker' = [worker EXCEPT ![w] =
                  [worker[w] EXCEPT !.pc = "prepared", !.attempt = trial[u].attempts + 1]]
    <3>1. w \in Preparing(u) /\ worker'[w].pc = "prepared"
      BY <1>0, <2>1, <2>3 DEF Preparing, Worker
    <3>2. CASE t = u
      <4>1. trial'[t] = RunningRow(trial[u], w)
        BY <1>0, <2>1, <2>3, <3>2
      <4>2. Prepared(t)
        BY <2>1, <2>3, <3>1, <3>2, <4>1 DEF Prepared, RunningRow, Live
      <4> QED
        BY <4>2 DEF TrialEffect
    <3> QED
      BY <1>u, <2>3, <3>2 DEF TrialEffect
  <2> QED
    BY <1>5, <2>2, <2>3 DEF PrepareTrialRun
<1>6. ASSUME NEW w \in Workers, HarborEnd(w) PROVE TrialEffect(t)
  <2> DEFINE u == worker[w].trial
  <2>1. Live(u) /\ u \in Trials /\ trial[u].status # "none"
    BY <1>0, <1>6 DEF HarborEnd, HearsHarbor, At
  <2>2. PICK end \in {"reward", "timeout", "exception", "neither"} :
          trial' = [trial EXCEPT ![u] = Ended(trial[u], end)]
    BY <1>6 DEF HarborEnd
  <2>3. CASE t = u
    <3>1. trial'[t] = Ended(trial[u], end)
      BY <1>0, <2>1, <2>2, <2>3
    <3>2. Written(t)
      BY <1>0, <2>1, <2>3, <3>1, EndedFields, WrittenRow
    <3> QED
      BY <3>2 DEF TrialEffect
  <2> QED
    BY <1>u, <2>2, <2>3 DEF TrialEffect
<1>7. ASSUME NEW w \in Workers, HarborCancel(w) PROVE TrialEffect(t)
  <2> DEFINE u == worker[w].trial
             q == [trial[u] EXCEPT !.stage = "cancelled"]
             new == Shows(q, "FAILED", "other")
  <2>1. Live(u) /\ u \in Trials /\ trial[u].status # "none"
    BY <1>0, <1>7 DEF HarborCancel, HearsHarbor, At
  <2>2. trial' = [trial EXCEPT ![u] = new]
    BY <1>7 DEF HarborCancel
  <2>3. q \in Trial /\ q.next = trial[u].next /\ q.attempts = trial[u].attempts
        /\ q.max = trial[u].max
    BY <1>0, <2>1 DEF Trial
  <2> HIDE DEF q
  <2>4. /\ new.status # "none" /\ new.next = trial[u].next
        /\ new.attempts = trial[u].attempts /\ new.max = trial[u].max
    BY <2>3, ShowsFields
  <2> HIDE DEF new
  <2>5. CASE t = u
    <3>1. trial'[t] = new
      BY <1>0, <2>1, <2>2, <2>5
    <3> QED
      BY <1>0, <2>1, <2>4, <2>5, <3>1, WrittenRow DEF TrialEffect
  <2> QED
    BY <1>u, <2>2, <2>5 DEF TrialEffect
<1>8. ASSUME NEW w \in Workers, Heartbeat(w) PROVE TrialEffect(t)
  <2>1. PICK u : trial' = trial \/ trial' = [trial EXCEPT ![u].owner = w]
    BY <1>8 DEF Heartbeat, TouchTrialExecution, HeartbeatWorkerJob
  <2> QED
    BY <1>0, <2>1 DEF TrialEffect, Keeps, Record, Trial
<1>9. ASSUME NEW w \in Workers, Settle(w) PROVE TrialEffect(t)
  <2> DEFINE u == worker[w].trial
  <2>1. u \in Trials /\ trial[u].status # "none"
    BY <1>0, <1>9 DEF Settle, At
  <2>2. CASE UNCHANGED trial
    BY <1>k, <2>2 DEF TrialEffect
  <2>3. ASSUME NEW result \in {"success", "terminal", "retryable"},
               NEW e \in {"other", "none", trial[u].error}, Live(u),
               trial' = [trial EXCEPT ![u] =
                           Released(Shows(trial[u], SettledStatus(u, result), e))]
        PROVE  TrialEffect(t)
    <3> DEFINE s == SettledStatus(u, result)
               new == Released(Shows(trial[u], s, e))
    <3>1. s \in {"SUCCESS", "FAILED", "RETRYING"} /\ e \in {"none", "user", "other"}
      BY <1>0, <2>1 DEF SettledStatus, Trial
    <3> HIDE DEF s
    <3>2. Shows(trial[u], s, e) \in Trial
      BY <1>0, <2>1, <3>1, ShowsTyped
    <3>3. /\ new.status # "none" /\ new.next = trial[u].next
          /\ new.attempts = trial[u].attempts /\ new.max = trial[u].max
      BY <1>0, <2>1, <3>1, <3>2, ShowsFields, ReleasedFields
    <3> HIDE DEF new
    <3>4. CASE t = u
      <4>1. trial'[t] = new
        BY <1>0, <2>1, <2>3, <3>4 DEF new, s
      <4> QED
        BY <1>0, <2>1, <2>3, <3>3, <3>4, <4>1, WrittenRow DEF TrialEffect
    <3> QED
      BY <1>u, <2>3, <3>4 DEF TrialEffect
  <2>4. \/ UNCHANGED trial
        \/ \E result \in {"success", "terminal", "retryable"} :
           \E e \in {"other", "none", trial[u].error} :
             /\ Live(u)
             /\ trial' = [trial EXCEPT ![u] =
                            Released(Shows(trial[u], SettledStatus(u, result), e))]
    BY <1>9 DEF Settle, MayStore
  <2> HIDE DEF u
  <2> QED
    BY <2>2, <2>3, <2>4
<1>10. ASSUME NEW w \in Workers, MarkTrialRetrying(w) PROVE TrialEffect(t)
  <2> DEFINE u == worker[w].trial
             q == [trial[u] EXCEPT !.status = "RETRYING", !.error = "other"]
             new == Released(q)
  <2>1. u \in Trials /\ trial[u].status # "none"
    BY <1>0, <1>10 DEF MarkTrialRetrying, At
  <2>2. UNCHANGED trial \/ (Live(u) /\ trial' = [trial EXCEPT ![u] = new])
    BY <1>10 DEF MarkTrialRetrying
  <2>3. /\ q \in Trial /\ q.next = trial[u].next /\ q.attempts = trial[u].attempts
        /\ q.max = trial[u].max /\ q.status # "none"
    BY <1>0, <2>1 DEF Trial, ActiveTrial
  <2> HIDE DEF q
  <2>4. /\ new.status # "none" /\ new.next = trial[u].next
        /\ new.attempts = trial[u].attempts /\ new.max = trial[u].max
    BY <2>3, ReleasedFields
  <2> HIDE DEF new
  <2>5. CASE Live(u) /\ t = u /\ trial' = [trial EXCEPT ![u] = new]
    <3>1. trial'[t] = new
      BY <1>0, <2>1, <2>5
    <3> QED
      BY <1>0, <2>1, <2>4, <2>5, <3>1, WrittenRow DEF TrialEffect
  <2> QED
    BY <1>k, <1>u, <2>2, <2>5 DEF TrialEffect
<1>11. ASSUME NEW S \in SUBSET Trials, CancelRuns(S) PROVE TrialEffect(t)
  <2>1. CASE trial'[t] = trial[t]
    BY <2>1 DEF TrialEffect, Keeps, Record
  <2>2. CASE /\ job[t].status \in ActiveJob \/ trial[t].status \in ActiveTrial
             /\ trial'[t] = CancelledRow(trial[t])
    <3>1. Live(t) /\ trial[t].status # "none"
      BY <1>0, <2>2 DEF ActiveJob, ClosedJob, ActiveTrial, TerminalTrial
    <3> QED
      BY <1>0, <2>2, <3>1, CancelledRowFields, WrittenRow DEF TrialEffect
  <2> QED
    BY <1>11, <2>1, <2>2 DEF CancelRuns
<1> QED
  BY <1>k, <1>1, <1>2, <1>3, <1>4, <1>5, <1>6, <1>7, <1>8, <1>9, <1>10, <1>11,
     TrialStep DEF TrialAction, TrialEffect

\* New rows are queued, unreplaced, and have made no attempt.
LEMMA NewRowsFields ==
  ASSUME NEW n
  PROVE  /\ NewTrialRow(n).status = "QUEUED" /\ NewTrialRow(n).next = NoTrial
         /\ NewTrialRow(n).attempts = 0 /\ NewTrialRow(n).max = n
         /\ NewJobRow(n).status = "QUEUED" /\ NewJobRow(n).attempts = 0
         /\ NewJobRow(n).max = n
  BY DEF NewTrialRow, NewJobRow, NoTrialRow, NoJobRow

\* Every step keeps the two tables in agreement.
LEMMA RowInvStep ==
  ASSUME TypeOK, RowInv, [Next]_vars PROVE RowInv'
<1>0. /\ \A t \in Trials : JobEffect(t) /\ TrialEffect(t)
      /\ \A t \in Trials : job[t].status = "none" => trial[t].status = "none"
      /\ \A t \in Trials : trial[t].status = "none" => job[t].status = "none"
      /\ \A t \in Trials : ~Live(t) => /\ job[t].status \in ClosedJob
                                       /\ trial[t].status \in TerminalTrial
  BY JobRowStep, TrialRowStep DEF RowInv
<1>1. ASSUME NEW t \in Trials, job[t].status # "none" PROVE job'[t].status # "none"
  BY <1>0, <1>1 DEF JobEffect, Closes, ClosedJob
<1>2. ASSUME NEW t \in Trials, trial[t].status # "none" PROVE trial'[t].status # "none"
  BY <1>0, <1>2, NewRowsFields
     DEF TrialEffect, Keeps, Record, Created, Written, Prepared, Replaced, TerminalTrial
<1>3. ASSUME NEW t \in Trials PROVE trial'[t].status = "none" <=> job'[t].status = "none"
  <2>1. CASE job[t].status # "none"
    BY <1>0, <1>1, <1>2, <2>1
  <2>2. CASE job[t].status = "none" /\ job'[t].status = "none"
    BY <1>0, <2>2, NewRowsFields
       DEF TrialEffect, Keeps, Record, Created, Written, Prepared, Replaced
  <2>3. CASE job[t].status = "none" /\ job'[t].status # "none"
    BY <1>0, <2>3, NewRowsFields DEF JobEffect, Claimable, Closes, ActiveJob
  <2> QED
    BY <2>1, <2>2, <2>3
<1>4. ASSUME NEW w \in Workers, ~At(w, "idle")'
      PROVE  job'[worker'[w].trial].status # "none"
  <2>0. worker \in [Workers -> Worker] /\ worker'[w].trial \in Trials
    BY <1>4, WorkerTyped DEF TypeOK
  <2>1. CASE ~At(w, "idle") /\ worker'[w].trial = worker[w].trial
    BY <1>1, <2>0, <2>1 DEF RowInv
  <2>2. ASSUME NEW t \in Trials, Claim(w, t)
        PROVE  job[t].status # "none" /\ worker'[w].trial = t
    BY <2>0, <2>2 DEF Claim, Claimable
  <2>3. \/ ~At(w, "idle") /\ worker'[w].trial = worker[w].trial
        \/ \E t \in Trials : Claim(w, t)
    <3>1. ASSUME NEW v \in Workers, NEW pc, Goto(v, pc), ~At(v, "idle")
          PROVE  ~At(w, "idle") /\ worker'[w].trial = worker[w].trial
      BY <1>4, <2>0, <3>1 DEF Goto, At, Worker
    <3>2. ASSUME NEW v \in Workers, worker' = [worker EXCEPT ![v] = Idle]
          PROVE  ~At(w, "idle") /\ worker'[w].trial = worker[w].trial
      BY <1>4, <2>0, <3>2 DEF Idle, At, Worker
    <3>3. ASSUME NEW v \in Workers, NEW o, Decide(v, o), ~At(v, "idle")
          PROVE  ~At(w, "idle") /\ worker'[w].trial = worker[w].trial
      BY <1>4, <2>0, <3>3 DEF Decide, At, Worker
    <3>4. ASSUME NEW v \in Workers, NEW t \in Trials, Claim(v, t)
          PROVE  \/ ~At(w, "idle") /\ worker'[w].trial = worker[w].trial
                 \/ Claim(w, t)
      BY <1>4, <2>0, <3>4 DEF Claim, At, Worker
    <3>5. ASSUME NEW v \in Workers, PrepareTrialRun(v)
          PROVE  ~At(w, "idle") /\ worker'[w].trial = worker[w].trial
      <4>1. ~At(v, "idle")
        BY <3>5 DEF PrepareTrialRun, At
      <4>2. CASE Goto(v, "handled")
        BY <3>1, <4>1, <4>2 DEF Goto
      <4>3. CASE worker' = [worker EXCEPT ![v] = [worker[v] EXCEPT
                   !.pc = "prepared", !.attempt = trial[worker[v].trial].attempts + 1]]
        BY <1>4, <2>0, <4>1, <4>3 DEF At, Worker
      <4> QED
        BY <3>5, <4>2, <4>3 DEF PrepareTrialRun
    <3>6. ASSUME NEW v \in Workers,
                 \/ CheckIdempotency(v) \/ ClaimAttempt(v) \/ Settle(v)
                 \/ RunPostTrialHooks(v)
          PROVE  ~At(w, "idle") /\ worker'[w].trial = worker[w].trial
      <4>1. ~At(v, "idle")
        BY <3>6 DEF CheckIdempotency, ClaimAttempt, Settle, RunPostTrialHooks, At
      <4>2. \E pc \in {"handled", "checked", "running", "hooks"} : Goto(v, pc)
        BY <3>6, Zenon DEF CheckIdempotency, ClaimAttempt, Settle, RunPostTrialHooks
      <4> QED
        BY <3>1, <4>1, <4>2 DEF Goto
    <3>7. ASSUME NEW v \in Workers, HandlerOutcome(v) \/ HandlerRaises(v)
          PROVE  ~At(w, "idle") /\ worker'[w].trial = worker[w].trial
      <4>1. ~At(v, "idle")
        BY <3>7, ConstantsAssumption DEF HandlerOutcome, HandlerRaises, At
      <4>2. \E o \in {"ok", "retry", "fail"} : Decide(v, o)
        BY <3>7 DEF HandlerOutcome, HandlerRaises
      <4> QED
        BY <3>3, <4>1, <4>2 DEF Decide
    <3>8. ASSUME NEW v \in Workers, RecordOutcome(v)
          PROVE  ~At(w, "idle") /\ worker'[w].trial = worker[w].trial
      <4>1. /\ ~At(v, "idle")
            /\ worker' = [worker EXCEPT ![v] = Idle] \/ Goto(v, "marking")
        BY <3>8 DEF RecordOutcome, At
      <4> QED
        BY <3>1, <3>2, <4>1 DEF Goto
    <3>9. ASSUME UNCHANGED worker
          PROVE  ~At(w, "idle") /\ worker'[w].trial = worker[w].trial
      BY <1>4, <3>9 DEF At
    <3>10. ASSUME NEW v \in Workers, MarkTrialRetrying(v) \/ Crash(v) \/ Heartbeat(v)
           PROVE  ~At(w, "idle") /\ worker'[w].trial = worker[w].trial
      <4>1. worker' = [worker EXCEPT ![v] = Idle] \/ worker' = worker
        BY <3>10
           DEF MarkTrialRetrying, Crash, Heartbeat, TouchTrialExecution, HeartbeatWorkerJob
      <4> QED
        BY <3>2, <3>9, <4>1
    <3> QED
      BY <3>4, <3>5, <3>6, <3>7, <3>8, <3>9, <3>10, WorkerMemoryStep DEF WorkerAction
  <2> QED
    BY <1>1, <2>1, <2>2, <2>3
<1>5. ASSUME NEW r \in retrying' PROVE job'[r[1]].status # "none"
  <2>0. \A q \in retrying : q[1] \in Trials
    BY DEF TypeOK
  <2>1. \/ retrying' \subseteq retrying
        \/ \E t \in Trials : RequestRetry(t)
    BY DEF Next, vars, WorkerStep, WorkerEvent, SweepStep, UserStep,
       CheckIdempotency, PrepareTrialRun, ClaimAttempt, Settle, RunPostTrialHooks,
       HandlerOutcome, RecordOutcome, MarkTrialRetrying, HarborEnd, HarborCancel,
       Heartbeat, TouchTrialExecution, HeartbeatWorkerJob, HandlerRaises, Crash,
       Claim, HeartbeatLapses, ReapStaleJob,
       ClearTerminalRefs, Submit, RejectRetry, CommitRetry, CancelRuns
  <2>2. CASE r \in retrying
    BY <1>1, <2>0, <2>2 DEF RowInv
  <2>3. ASSUME NEW t \in Trials, RequestRetry(t), r \notin retrying
        PROVE  job'[r[1]].status # "none"
    <3>1. r[1] = t /\ trial[t].status # "none"
      BY <1>5, <2>3 DEF RequestRetry, TerminalTrial
    <3> QED
      BY <1>0, <1>1, <3>1
  <2> QED
    BY <1>5, <2>1, <2>2, <2>3
<1>6. ASSUME NEW t \in Trials, ~Live(t)'
      PROVE  job'[t].status \in ClosedJob /\ trial'[t].status \in TerminalTrial
  <2>1. CASE Live(t)
    <3>0. trial[t].next = NoTrial /\ trial'[t].next # NoTrial
      BY <1>6, <2>1 DEF Live
    <3>a. ~Keeps(t)
      BY <3>0 DEF Keeps, Record
    <3>b. ~Created(t)
      BY <3>0, NewRowsFields DEF Created
    <3>c. ~Written(t) /\ ~Prepared(t)
      BY <3>0 DEF Written, Prepared
    <3>1. Replaced(t)
      BY <1>0, <3>a, <3>b, <3>c DEF TrialEffect
    <3> QED
      BY <3>1 DEF Replaced
  <2>2. CASE ~Live(t)
    <3>1. job[t].status \in ClosedJob /\ trial[t].status \in TerminalTrial
      BY <1>0, <2>2
    <3>2. job'[t].status = job[t].status
      BY <1>0, <3>1 DEF JobEffect, Closes, Claimable, ActiveJob, ClosedJob
    <3>3. trial'[t].status = trial[t].status
      BY <1>0, <2>2, <3>1
         DEF TrialEffect, Keeps, Record, Created, Written, Prepared, Replaced,
             TerminalTrial
    <3> QED
      BY <3>1, <3>2, <3>3
  <2> QED
    BY <2>1, <2>2
<1> QED
  BY <1>3, <1>4, <1>5, <1>6 DEF RowInv

\* A job row exists exactly when its trial row does, and a trial that a retry
\* replaced is over in both tables, in every reachable state.
THEOREM RowsAgree == Spec => [](TypeOK /\ RowInv)
<1>1. Init => RowInv
  BY DEF Init, RowInv, At, Idle, Live, NoTrialRow, NoJobRow
<1>2. TypeOK /\ RowInv /\ [Next]_vars => RowInv'
  BY RowInvStep
<1> QED
  BY <1>1, <1>2, TypeCorrect, PTL DEF Spec

\* "Retry history is immutable", whatever the number of retries in flight.
THEOREM SupersededTrialsFrozen == Spec => SupersededFrozen
<1>1. TypeOK /\ RowInv /\ [Next]_vars =>
        [\A t \in Trials : trial[t].next # NoTrial => Record(t)' = Record(t)]_vars
  <2> SUFFICES ASSUME TypeOK, RowInv, [Next]_vars, NEW t \in Trials,
                      trial[t].next # NoTrial
               PROVE  Record(t)' = Record(t)
    OBVIOUS
  <2>1. ~Live(t) /\ trial[t].status # "none"
    BY DEF RowInv, Live, TerminalTrial
  <2> QED
    BY <2>1, TrialRowStep
       DEF TrialEffect, Keeps, Created, Written, Prepared, Replaced
<1> QED
  BY <1>1, RowsAgree, PTL DEF Spec, SupersededFrozen

-----------------------------------------------------------------------------
(* The retry budget.                                                       *)

\* BudgetInv is not inductive: a worker that claimed the job but has not yet
\* prepared its attempt will still raise the trial's count.
BudgetIInv ==
  \A t \in Trials :
    /\ job[t].attempts <= Budget(t)
    /\ job[t].status \in {"none", "QUEUED"} => job[t].attempts = 0
    /\ job[t].status = "RETRYING" => AttemptsLeft(t)
    /\ trial[t].attempts + Cardinality(Preparing(t)) <= job[t].attempts
    /\ job[t].max <= MaxAttempts /\ trial[t].max <= MaxAttempts

\* Workers between claim and preparation can be counted.
LEMMA PreparingFinite ==
  ASSUME NEW t
  PROVE  /\ IsFiniteSet(Preparing(t)) /\ Cardinality(Preparing(t)) \in Nat
         /\ IsFiniteSet(Preparing(t)') /\ Cardinality(Preparing(t)') \in Nat
<1>1. Preparing(t) \subseteq Workers /\ Preparing(t)' \subseteq Workers
  BY DEF Preparing
<1> QED
  BY <1>1, ConstantsAssumption, FS_Subset, FS_CardinalityType

\* A worker gets to the steps before preparation by a claim only.
LEMMA PreparingStep ==
  ASSUME TypeOK, [Next]_vars, NEW t \in Trials
  PROVE  \/ Preparing(t)' \subseteq Preparing(t)
         \/ \E w \in Workers : Claim(w, t) /\ Preparing(t)' \subseteq Preparing(t) \cup {w}
<1>0. worker \in [Workers -> Worker]
  BY DEF TypeOK
<1> DEFINE Shrinks == Preparing(t)' \subseteq Preparing(t)
<1>1. ASSUME NEW v \in Workers, NEW pc, worker' = [worker EXCEPT ![v].pc = pc],
             pc # "claimed", pc = "checked" => worker[v].pc = "claimed"
      PROVE  Shrinks
  BY <1>0, <1>1 DEF Preparing, Worker
<1>2. ASSUME NEW v \in Workers, worker' = [worker EXCEPT ![v] = Idle]
      PROVE  Shrinks
  BY <1>0, <1>2 DEF Preparing, Idle
<1>3. ASSUME NEW v \in Workers, NEW o, Decide(v, o) PROVE Shrinks
  BY <1>0, <1>3 DEF Preparing, Decide, Worker
<1>4. ASSUME NEW v \in Workers, NEW u \in Trials, Claim(v, u)
      PROVE  \/ Shrinks
             \/ Claim(v, t) /\ Preparing(t)' \subseteq Preparing(t) \cup {v}
  BY <1>0, <1>4 DEF Preparing, Claim, Worker
<1>5. ASSUME NEW v \in Workers, PrepareTrialRun(v) PROVE Shrinks
  <2>1. CASE Goto(v, "handled")
    BY <1>1, <2>1 DEF Goto
  <2>2. CASE worker' = [worker EXCEPT ![v] = [worker[v] EXCEPT
               !.pc = "prepared", !.attempt = trial[worker[v].trial].attempts + 1]]
    BY <1>0, <2>2 DEF Preparing, Worker
  <2> QED
    BY <1>5, <2>1, <2>2 DEF PrepareTrialRun
<1>6. ASSUME NEW v \in Workers, CheckIdempotency(v) PROVE Shrinks
  <2>1. worker[v].pc = "claimed" /\ \E pc \in {"handled", "checked"} : Goto(v, pc)
    BY <1>6, Zenon DEF CheckIdempotency, At
  <2> QED
    BY <1>1, <2>1 DEF Goto
<1>7. ASSUME NEW v \in Workers, ClaimAttempt(v) \/ Settle(v) \/ RunPostTrialHooks(v)
      PROVE  Shrinks
  <2>1. \E pc \in {"handled", "running", "hooks"} : Goto(v, pc)
    BY <1>7, Zenon DEF ClaimAttempt, Settle, RunPostTrialHooks
  <2> QED
    BY <1>1, <2>1 DEF Goto
<1>8. ASSUME NEW v \in Workers, HandlerOutcome(v) \/ HandlerRaises(v) PROVE Shrinks
  <2>1. \E o \in {"ok", "retry", "fail"} : Decide(v, o)
    BY <1>8 DEF HandlerOutcome, HandlerRaises
  <2> QED
    BY <1>3, <2>1
<1>9. ASSUME UNCHANGED worker PROVE Shrinks
  BY <1>9 DEF Preparing
<1>10. ASSUME NEW v \in Workers, RecordOutcome(v) PROVE Shrinks
  <2>1. worker' = [worker EXCEPT ![v] = Idle] \/ Goto(v, "marking")
    BY <1>10 DEF RecordOutcome
  <2> QED
    BY <1>1, <1>2, <2>1 DEF Goto
<1>11. ASSUME NEW v \in Workers, MarkTrialRetrying(v) \/ Crash(v) \/ Heartbeat(v)
       PROVE  Shrinks
  <2>1. worker' = [worker EXCEPT ![v] = Idle] \/ worker' = worker
    BY <1>11
       DEF MarkTrialRetrying, Crash, Heartbeat, TouchTrialExecution, HeartbeatWorkerJob
  <2> QED
    BY <1>2, <1>9, <2>1
<1> QED
  BY <1>4, <1>5, <1>6, <1>7, <1>8, <1>9, <1>10, <1>11, WorkerMemoryStep
     DEF WorkerAction

\* Every step keeps the claims within the budget and the attempts within the claims.
LEMMA BudgetStep ==
  ASSUME TypeOK, RowInv, BudgetIInv, [Next]_vars PROVE BudgetIInv'
<1> SUFFICES ASSUME NEW t \in Trials
             PROVE  /\ job'[t].attempts <= Budget(t)'
                    /\ job'[t].status \in {"none", "QUEUED"} => job'[t].attempts = 0
                    /\ job'[t].status = "RETRYING" => AttemptsLeft(t)'
                    /\ trial'[t].attempts + Cardinality(Preparing(t)') <= job'[t].attempts
                    /\ job'[t].max <= MaxAttempts /\ trial'[t].max <= MaxAttempts
  BY DEF BudgetIInv
<1>0. /\ job[t].attempts \in Nat /\ job[t].max \in Nat
      /\ trial[t].attempts \in Nat /\ trial[t].max \in Nat
      /\ job'[t].attempts \in Nat /\ job'[t].max \in Nat
      /\ trial'[t].attempts \in Nat /\ trial'[t].max \in Nat
      /\ MaxAttempts \in Nat \ {0}
  BY JobTyped, TrialTyped, ConstantsAssumption DEF TypeOK, Job, Trial
<1>1. /\ job[t].attempts <= Budget(t)
      /\ job[t].status \in {"none", "QUEUED"} => job[t].attempts = 0
      /\ job[t].status = "RETRYING" => AttemptsLeft(t)
      /\ trial[t].attempts + Cardinality(Preparing(t)) <= job[t].attempts
      /\ job[t].max <= MaxAttempts /\ trial[t].max <= MaxAttempts
  BY DEF BudgetIInv
<1>2. JobEffect(t) /\ TrialEffect(t)
  BY JobRowStep, TrialRowStep
<1>3. /\ job'[t].attempts <= Budget(t)'
      /\ job'[t].status \in {"none", "QUEUED"} => job'[t].attempts = 0
      /\ job'[t].status = "RETRYING" => AttemptsLeft(t)'
      /\ job'[t].max <= MaxAttempts
  BY <1>0, <1>1, <1>2, NewRowsFields
     DEF JobEffect, Budget, AttemptsLeft, Claimable, Closes, ActiveJob, ClosedJob
<1>4. job[t].attempts <= job'[t].attempts
  BY <1>0, <1>1, <1>2, NewRowsFields DEF JobEffect, Closes
<1> DEFINE n == Cardinality(Preparing(t))
           m == Cardinality(Preparing(t)')
<1>5. n \in Nat /\ m \in Nat
  BY PreparingFinite
<1>6. ASSUME Preparing(t)' \subseteq Preparing(t)
      PROVE  m <= n /\ \A w \in Preparing(t) : w \notin Preparing(t)' => m <= n - 1
  <2>1. m <= n
    BY <1>6, PreparingFinite, FS_Subset
  <2>2. ASSUME NEW w \in Preparing(t), w \notin Preparing(t)' PROVE m <= n - 1
    <3>1. Preparing(t)' \subseteq Preparing(t) \ {w}
      BY <1>6, <2>2
    <3>2. /\ IsFiniteSet(Preparing(t) \ {w})
          /\ Cardinality(Preparing(t) \ {w}) = n - 1
      BY <2>2, PreparingFinite, FS_RemoveElement
    <3> QED
      BY <3>1, <3>2, FS_Subset
  <2> QED
    BY <2>1, <2>2
<1>7. ASSUME NEW w \in Workers, Claim(w, t), Preparing(t)' \subseteq Preparing(t) \cup {w}
      PROVE  m <= n + 1
  <2>1. /\ IsFiniteSet(Preparing(t) \cup {w})
        /\ Cardinality(Preparing(t) \cup {w}) <= n + 1
    <3>1. /\ IsFiniteSet(Preparing(t) \cup {w})
          /\ \/ Cardinality(Preparing(t) \cup {w}) = n
             \/ Cardinality(Preparing(t) \cup {w}) = n + 1
      BY PreparingFinite, FS_AddElement
    <3> QED
      BY <1>5, <3>1
  <2>2. m <= Cardinality(Preparing(t) \cup {w})
    BY <1>7, <2>1, FS_Subset
  <2>3. Cardinality(Preparing(t) \cup {w}) \in Nat
    BY <2>1, FS_CardinalityType
  <2> QED
    BY <1>5, <2>1, <2>2, <2>3
<1>8. trial'[t].attempts + m <= job'[t].attempts
  <2>1. ASSUME NEW w \in Workers, Claim(w, t), Preparing(t)' \subseteq Preparing(t) \cup {w}
        PROVE  trial'[t].attempts + m <= job'[t].attempts
    <3>1. trial'[t] = trial[t] /\ job'[t].attempts = job[t].attempts + 1
      BY <2>1 DEF Claim, TypeOK
    <3> QED
      BY <1>0, <1>1, <1>5, <1>7, <2>1, <3>1
  <2>2. CASE Preparing(t)' \subseteq Preparing(t)
    <3>1. CASE Prepared(t)
      <4>1. PICK w \in Preparing(t) : worker'[w].pc = "prepared"
        BY <3>1 DEF Prepared
      <4>2. w \notin Preparing(t)'
        BY <4>1 DEF Preparing
      <4> QED
        BY <1>0, <1>1, <1>4, <1>5, <1>6, <2>2, <3>1, <4>2 DEF Prepared
    <3>2. CASE Created(t)
      <4>1. trial'[t].attempts = 0
        BY <3>2, NewRowsFields DEF Created
      <4> QED
        BY <1>0, <1>1, <1>4, <1>5, <1>6, <2>2, <4>1
    <3>3. CASE Keeps(t) \/ Written(t) \/ Replaced(t)
      <4>1. trial'[t].attempts = trial[t].attempts
        BY <3>3 DEF Keeps, Record, Written, Replaced
      <4> QED
        BY <1>0, <1>1, <1>4, <1>5, <1>6, <2>2, <4>1
    <3> QED
      BY <1>2, <3>1, <3>2, <3>3 DEF TrialEffect
  <2> QED
    BY <2>1, <2>2, PreparingStep
<1>9. trial'[t].max <= MaxAttempts
  <2>1. trial[t].attempts <= MaxAttempts
    BY <1>0, <1>1, <1>5 DEF Budget
  <2> QED
    BY <1>0, <1>1, <1>2, <2>1, NewRowsFields
       DEF TrialEffect, Keeps, Record, Created, Written, Prepared, Replaced
<1> QED
  BY <1>3, <1>8, <1>9

\* The inductive invariant the remaining theorems rest on.
LEMMA BudgetIInvariant == Spec => [](TypeOK /\ RowInv /\ BudgetIInv)
<1>1. Init => BudgetIInv
  <2> SUFFICES ASSUME Init PROVE BudgetIInv
    OBVIOUS
  <2>1. \A t \in Trials : Preparing(t) = {}
    BY DEF Init, Preparing, Idle
  <2>2. Cardinality({}) = 0
    BY FS_EmptySet
  <2>3. \A t \in Trials : Cardinality(Preparing(t)) = 0
    BY <2>1, <2>2
  <2>4. MaxAttempts \in Nat \ {0}
    BY ConstantsAssumption
  <2>5. \A t \in Trials :
          /\ job[t].status = "none" /\ job[t].attempts = 0 /\ job[t].max = 0
          /\ trial[t].attempts = 0 /\ trial[t].max = 0
    BY DEF Init, NoJobRow, NoTrialRow
  <2> QED
    BY <2>3, <2>4, <2>5 DEF BudgetIInv, Budget
<1>2. TypeOK /\ RowInv /\ BudgetIInv /\ [Next]_vars => BudgetIInv'
  BY BudgetStep
<1> QED
  BY <1>1, <1>2, RowsAgree, PTL DEF Spec

\* However outcomes, reaps, cancels and retries interleave, no job is claimed
\* past its budget and no trial counts more attempts than its job was claimed.
THEOREM BudgetKept == Spec => []BudgetInv
<1>1. TypeOK /\ BudgetIInv => BudgetInv
  <2> SUFFICES ASSUME TypeOK, BudgetIInv, NEW t \in Trials
               PROVE  /\ job[t].attempts <= Budget(t)
                      /\ job[t].status = "RETRYING" => AttemptsLeft(t)
                      /\ trial[t].attempts <= job[t].attempts
                      /\ job[t].max <= MaxAttempts /\ trial[t].max <= MaxAttempts
    BY DEF BudgetInv
  <2>1. /\ Cardinality(Preparing(t)) \in Nat
        /\ trial[t].attempts \in Nat /\ job[t].attempts \in Nat
    BY PreparingFinite DEF TypeOK, Job, Trial
  <2> QED
    BY <2>1 DEF BudgetIInv
<1> QED
  BY <1>1, BudgetIInvariant, PTL

-----------------------------------------------------------------------------
(* The worker_jobs rows implement WorkQueue.                               *)

\* What a step makes of one item of the queue.
Same(t) ==
  /\ JobPhase(t)' = JobPhase(t) /\ JobHolder(t)' = JobHolder(t)
  /\ job'[t].attempts = job[t].attempts /\ Budget(t)' = Budget(t)

Closed(t) ==
  /\ JobPhase(t) \in {"waiting", "held"} /\ JobPhase(t)' = "closed"
  /\ JobHolder(t)' = NoWorker
  /\ job'[t].attempts = job[t].attempts /\ Budget(t)' = Budget(t)

New(t) ==
  /\ JobPhase(t) = "absent" /\ JobPhase(t)' = "waiting"
  /\ JobHolder(t)' = JobHolder(t)
  /\ job'[t].attempts = job[t].attempts /\ Budget(t)' \in 1 .. MaxAttempts

\* If no row changes for the queue, the queue stutters.
LEMMA SameStutters ==
  ASSUME \A t \in Trials : Same(t)
  PROVE  UNCHANGED Queue!qvars
  BY DEF Same, Queue!qvars

\* A new job row is an enqueue.
LEMMA NewEnqueues ==
  ASSUME NEW u \in Trials, New(u), \A t \in Trials \ {u} : Same(t)
  PROVE  Queue!Enqueue(u)
  BY DEF New, Same, Queue!Enqueue

\* Closing some jobs in one transaction is one step of the queue.
LEMMA ClosedCloses ==
  ASSUME NEW I \in SUBSET Trials, I # {}, \A t \in I : Closed(t),
         \A t \in Trials \ I : Same(t)
  PROVE  Queue!CloseAll(I)
<1>1. /\ [t \in Trials |-> JobPhase(t)]' =
           [t \in Trials |-> IF t \in I THEN "closed" ELSE [u \in Trials |-> JobPhase(u)][t]]
      /\ [t \in Trials |-> JobHolder(t)]' =
           [t \in Trials |-> IF t \in I THEN NoWorker ELSE [u \in Trials |-> JobHolder(u)][t]]
  BY DEF Closed, Same
<1>2. /\ [t \in Trials |-> job[t].attempts]' = [t \in Trials |-> job[t].attempts]
      /\ [t \in Trials |-> Budget(t)]' = [t \in Trials |-> Budget(t)]
  BY DEF Closed, Same
<1>3. \A t \in I : [u \in Trials |-> JobPhase(u)][t] \in {"waiting", "held"}
  BY DEF Closed
<1> QED
  BY <1>1, <1>2, <1>3 DEF Queue!CloseAll

\* A retry closes one job and enqueues another in one step of the queue.
LEMMA ReplacedReplaces ==
  ASSUME NEW u \in Trials, NEW v \in Trials, u # v, Closed(u), New(v),
         \A t \in Trials \ {u, v} : Same(t)
  PROVE  Queue!CloseAndEnqueue(u, v)
  BY DEF Closed, New, Same, Queue!CloseAndEnqueue

\* The phase of a job is read off its status.
LEMMA JobPhaseOf ==
  ASSUME NEW t
  PROVE  /\ job[t].status = "none" => JobPhase(t) = "absent"
         /\ job[t].status \in {"QUEUED", "RETRYING"} => JobPhase(t) = "waiting"
         /\ job[t].status = "RUNNING" => JobPhase(t) = "held"
         /\ job[t].status \in ClosedJob => JobPhase(t) = "closed"
         /\ job'[t].status = "none" => JobPhase(t)' = "absent"
         /\ job'[t].status \in {"QUEUED", "RETRYING"} => JobPhase(t)' = "waiting"
         /\ job'[t].status = "RUNNING" => JobPhase(t)' = "held"
         /\ job'[t].status \in ClosedJob => JobPhase(t)' = "closed"
  BY DEF JobPhase, ClosedJob

\* A row that keeps what the queue sees of it is an item left alone.
LEMMA SameRow ==
  ASSUME NEW t, job'[t].status = job[t].status, job'[t].owner = job[t].owner,
         job'[t].attempts = job[t].attempts, job'[t].max = job[t].max
  PROVE  Same(t)
  BY DEF Same, JobPhase, JobHolder, Budget

\* An active job that reaches a terminal status with its counts unchanged is closed.
LEMMA ClosedRow ==
  ASSUME NEW t, job[t].status \in ActiveJob, job'[t].status \in ClosedJob,
         job'[t].attempts = job[t].attempts, job'[t].max = job[t].max
  PROVE  Closed(t)
<1>1. job[t].status # "none" /\ job'[t].status \notin {"none", "QUEUED", "RETRYING", "RUNNING"}
  BY DEF ActiveJob, ClosedJob
<1>2. JobPhase(t) \in {"waiting", "held"}
  BY JobPhaseOf DEF ActiveJob
<1>3. JobPhase(t)' = "closed" /\ JobHolder(t)' = NoWorker
  BY <1>1, JobPhaseOf DEF JobHolder
<1>4. Budget(t)' = Budget(t)
  BY <1>1 DEF Budget
<1> QED
  BY <1>2, <1>3, <1>4 DEF Closed

\* A row that did not exist and is now new is an enqueued one.
LEMMA NewRow ==
  ASSUME NEW t, NEW n \in 0 .. MaxAttempts, job[t].status = "none",
         job[t].attempts = 0, job'[t] = NewJobRow(n)
  PROVE  New(t)
<1>1. job'[t].status = "QUEUED" /\ job'[t].attempts = 0 /\ job'[t].max = n
  BY NewRowsFields
<1>2. Budget(t)' \in 1 .. MaxAttempts
  BY <1>1, ConstantsAssumption DEF Budget
<1> QED
  BY <1>1, <1>2, JobPhaseOf DEF New, JobHolder

\* Every step of TrialJobs is a step of the queue or a stutter.
LEMMA QueueStep ==
  ASSUME TypeOK, RowInv, BudgetIInv, [Next]_vars
  PROVE  [Queue!QueueNext]_(Queue!qvars)
<1>0. /\ job \in [Trials -> Job]
      /\ \A t \in Trials : job[t] \in Job
      /\ \A w \in Workers : ~At(w, "idle") => worker[w].trial \in Trials
      /\ \A t \in Trials : job[t].status = "none" => job[t].attempts = 0
  BY DEF TypeOK, BudgetIInv
<1>s. ASSUME NEW t, UNCHANGED job[t] PROVE Same(t)
  BY <1>s, SameRow
<1>u. ASSUME NEW u, NEW row, job' = [job EXCEPT ![u] = row]
      PROVE  /\ \A t \in Trials \ {u} : Same(t)
             /\ u \in Trials => job'[u] = row
  BY <1>0, <1>s, <1>u
<1>c. ASSUME NEW u \in Trials, Closed(u), \A t \in Trials \ {u} : Same(t)
      PROVE  Queue!QueueNext
  <2>1. Queue!CloseAll({u})
    BY <1>c, ClosedCloses
  <2> QED
    BY <2>1 DEF Queue!QueueNext
<1>p. ASSUME NEW u \in Trials, job[u].status = "RUNNING", AttemptsLeft(u),
             job' = [job EXCEPT ![u] = Released([job[u] EXCEPT !.status = "RETRYING"])]
      PROVE  Queue!QueueNext
  <2>1. /\ job'[u].status = "RETRYING" /\ job'[u].attempts = job[u].attempts
        /\ job'[u].max = job[u].max
    <3> DEFINE row == Released([job[u] EXCEPT !.status = "RETRYING"])
    <3>1. row.status = "RETRYING" /\ row.attempts = job[u].attempts /\ row.max = job[u].max
      BY <1>0, JobRowFields
    <3>2. job' = [job EXCEPT ![u] = row]
      BY <1>p
    <3> HIDE DEF row
    <3> QED
      BY <1>0, <3>1, <3>2
  <2>2. \A t \in Trials \ {u} : Same(t)
    BY <1>p, <1>u
  <2>3. /\ JobPhase(u) = "held" /\ JobPhase(u)' = "waiting"
        /\ JobHolder(u)' = NoWorker /\ Budget(u)' = Budget(u)
    BY <1>p, <2>1, JobPhaseOf DEF JobHolder, Budget
  <2>4. job[u].attempts < Budget(u)
    BY <1>0, <1>p DEF AttemptsLeft, Budget, Job
  <2>5. Queue!PutBack(u)
    BY <2>1, <2>2, <2>3, <2>4 DEF Queue!PutBack, Same
  <2> QED
    BY <2>5 DEF Queue!QueueNext
<1>f. ASSUME NEW u \in Trials, NEW s \in {"SUCCESS", "FAILED"},
             job[u].status = "RUNNING", \A t \in Trials \ {u} : Same(t),
             job'[u].status = s, job'[u].attempts = job[u].attempts,
             job'[u].max = job[u].max
      PROVE  Queue!QueueNext
  <2>1. Closed(u)
    BY <1>f, ClosedRow DEF ActiveJob, ClosedJob
  <2> QED
    BY <1>c, <1>f, <2>1
<1>1. ASSUME NEW u \in Trials, Submit(u) PROVE Queue!QueueNext
  <2>1. /\ job[u].status = "none" /\ job' = [job EXCEPT ![u] = NewJobRow(MaxAttempts)]
    BY <1>1 DEF Submit, RowInv
  <2>2. New(u)
    BY <1>0, <1>u, <2>1, NewRow, ConstantsAssumption
  <2> QED
    BY <1>u, <2>1, <2>2, NewEnqueues DEF Queue!QueueNext
<1>2. ASSUME NEW u, NEW beat, job' = [job EXCEPT ![u].beating = beat]
      PROVE  UNCHANGED Queue!qvars
  <2>1. \A t \in Trials : Same(t)
    BY <1>0, <1>2, SameRow DEF Job
  <2> QED
    BY <2>1, SameStutters
<1>3. ASSUME NEW u \in Trials, ReapStaleJob(u) PROVE Queue!QueueNext
  <2>1. CASE AttemptsLeft(u)
    BY <1>3, <1>p, <2>1 DEF ReapStaleJob, Stale
  <2>2. CASE ~AttemptsLeft(u)
    <3>1. /\ job[u].status = "RUNNING"
          /\ job' = [job EXCEPT ![u] = Released([job[u] EXCEPT !.status = "FAILED"])]
      BY <1>3, <2>2 DEF ReapStaleJob, Stale
    <3>2. /\ job'[u].status = "FAILED" /\ job'[u].attempts = job[u].attempts
          /\ job'[u].max = job[u].max
      <4> DEFINE row == Released([job[u] EXCEPT !.status = "FAILED"])
      <4>1. row.status = "FAILED" /\ row.attempts = job[u].attempts /\ row.max = job[u].max
        BY <1>0, JobRowFields
      <4>2. job' = [job EXCEPT ![u] = row]
        BY <3>1
      <4> HIDE DEF row
      <4> QED
        BY <1>0, <4>1, <4>2
    <3> QED
      BY <1>f, <1>u, <3>1, <3>2
  <2> QED
    BY <2>1, <2>2
<1>4. ASSUME NEW u \in Trials, NEW w \in Workers, Claim(w, u) PROVE Queue!QueueNext
  <2>1. /\ Claimable(u) /\ job'[u].status = "RUNNING" /\ job'[u].owner = w
        /\ job'[u].attempts = job[u].attempts + 1 /\ job'[u].max = job[u].max
        /\ \A t \in Trials \ {u} : Same(t)
    BY <1>0, <1>4, <1>u DEF Claim
  <2>2. /\ JobPhase(u) = "waiting" /\ JobPhase(u)' = "held"
        /\ JobHolder(u)' = w /\ Budget(u)' = Budget(u)
    BY <2>1, JobPhaseOf DEF Claimable, JobHolder, Budget
  <2>3. job[u].attempts < Budget(u)
    <3>1. /\ job[u].status = "QUEUED" => job[u].attempts = 0
          /\ job[u].status = "RETRYING" => AttemptsLeft(u)
      BY DEF BudgetIInv
    <3> QED
      BY <1>0, <2>1, <3>1 DEF Claimable, AttemptsLeft, Budget, Job
  <2>4. Queue!Take(u, w)
    <3>1. [t \in Trials |-> JobPhase(t)]' =
            [[t \in Trials |-> JobPhase(t)] EXCEPT ![u] = "held"]
      BY <2>1, <2>2 DEF Same
    <3>2. [t \in Trials |-> JobHolder(t)]' =
            [[t \in Trials |-> JobHolder(t)] EXCEPT ![u] = w]
      BY <2>1, <2>2 DEF Same
    <3>3. [t \in Trials |-> job[t].attempts]' =
            [[t \in Trials |-> job[t].attempts] EXCEPT ![u] = @ + 1]
      BY <2>1 DEF Same
    <3>4. [t \in Trials |-> Budget(t)]' = [t \in Trials |-> Budget(t)]
      BY <2>1, <2>2 DEF Same
    <3> QED
      BY <2>2, <2>3, <3>1, <3>2, <3>3, <3>4 DEF Queue!Take
  <2> QED
    BY <2>4 DEF Queue!QueueNext
<1>5. ASSUME NEW u \in Trials, NEW n \in 0 .. MaxAttempts, NEW v \in Trials,
             CommitRetry(u, n, v)
      PROVE  Queue!QueueNext
  <2>1. job[u].status # "none" /\ job[v].status = "none" /\ u # v
    BY <1>5 DEF CommitRetry, RowInv
  <2>2. /\ job'[v] = NewJobRow(n)
        /\ job'[u] = IF job[u].status \in ActiveJob THEN CancelledJob(job[u]) ELSE job[u]
        /\ \A t \in Trials \ {u, v} : job'[t] = job[t]
    BY <1>0, <1>5, <2>1 DEF CommitRetry
  <2>3. New(v) /\ \A t \in Trials \ {u, v} : Same(t)
    BY <1>0, <1>s, <2>1, <2>2, NewRow
  <2>4. CASE job[u].status \in ActiveJob
    <3>1. Closed(u)
      BY <1>0, <2>2, <2>4, CancelledJobFields, ClosedRow DEF ClosedJob
    <3> QED
      BY <2>1, <2>3, <3>1, ReplacedReplaces DEF Queue!QueueNext
  <2>5. CASE job[u].status \notin ActiveJob
    <3>1. Same(u)
      BY <1>s, <2>2, <2>5
    <3>2. \A t \in Trials \ {v} : Same(t)
      BY <2>3, <3>1
    <3> QED
      BY <2>3, <3>2, NewEnqueues DEF Queue!QueueNext
  <2> QED
    BY <2>4, <2>5
<1>6. ASSUME NEW w \in Workers, RecordOutcome(w)
      PROVE  Queue!QueueNext \/ UNCHANGED Queue!qvars
  <2> DEFINE u == worker[w].trial
  <2>1. u \in Trials
    BY <1>0, <1>6 DEF RecordOutcome, At
  <2>2. \/ UNCHANGED job
        \/ /\ job[u].status = "RUNNING" /\ AttemptsLeft(u)
           /\ job' = [job EXCEPT ![u] = Released([job[u] EXCEPT !.status = "RETRYING"])]
        \/ /\ job[u].status = "RUNNING"
           /\ \E s \in {"SUCCESS", "FAILED"} : job' = [job EXCEPT ![u].status = s]
    BY <1>6 DEF RecordOutcome, HoldsJob
  <2>3. ASSUME NEW s \in {"SUCCESS", "FAILED"}, job[u].status = "RUNNING",
               job' = [job EXCEPT ![u].status = s]
        PROVE  Queue!QueueNext
    <3>1. /\ job'[u].status = s /\ job'[u].attempts = job[u].attempts
          /\ job'[u].max = job[u].max
      BY <1>0, <2>1, <2>3 DEF Job
    <3>2. \A t \in Trials \ {u} : Same(t)
      BY <1>0, <1>s, <2>3
    <3> QED
      BY <1>f, <2>1, <2>3, <3>1, <3>2
  <2>4. UNCHANGED job => UNCHANGED Queue!qvars
    BY <1>s, SameStutters
  <2> HIDE DEF u
  <2> QED
    BY <1>p, <2>1, <2>2, <2>3, <2>4
<1>7. ASSUME NEW S \in SUBSET Trials, CancelRuns(S)
      PROVE  Queue!QueueNext \/ UNCHANGED Queue!qvars
  <2> DEFINE I == {t \in S : job[t].status \in ActiveJob}
  <2>1. /\ \A t \in I : job'[t] = CancelledJob(job[t])
        /\ \A t \in Trials \ I : job'[t] = job[t]
    BY <1>7 DEF CancelRuns
  <2>2. \A t \in I : Closed(t)
    BY <1>0, <2>1, CancelledJobFields, ClosedRow DEF ClosedJob
  <2>3. \A t \in Trials \ I : Same(t)
    BY <1>s, <2>1
  <2>4. I \in SUBSET Trials
    OBVIOUS
  <2> HIDE DEF I
  <2>5. CASE I = {}
    BY <2>3, <2>5, SameStutters
  <2>6. CASE I # {}
    <3>1. Queue!CloseAll(I)
      BY <2>2, <2>3, <2>4, <2>6, ClosedCloses
    <3> QED
      BY <2>4, <3>1 DEF Queue!QueueNext
  <2> QED
    BY <2>5, <2>6
<1>8. ASSUME NEW w \in Workers, Heartbeat(w) PROVE UNCHANGED Queue!qvars
  <2>1. PICK u : job' = job \/ job' = [job EXCEPT ![u].beating = TRUE]
    BY <1>8 DEF Heartbeat, TouchTrialExecution, HeartbeatWorkerJob
  <2>2. UNCHANGED job => UNCHANGED Queue!qvars
    BY <1>s, SameStutters
  <2> QED
    BY <1>2, <2>1, <2>2
<1>9. ASSUME NEW u \in Trials, HeartbeatLapses(u) PROVE UNCHANGED Queue!qvars
  BY <1>2, <1>9 DEF HeartbeatLapses
<1>10. CASE UNCHANGED job
  BY <1>10, <1>s, SameStutters
<1> QED
  BY <1>1, <1>3, <1>4, <1>5, <1>6, <1>7, <1>8, <1>9, <1>10, JobStep DEF JobAction

\* Worker outcomes, reaps, cancels and retries together never hold a job twice,
\* revive a closed one or take one past its limit.
THEOREM JobsImplementQueue == Spec => ImplementsQueue
<1>1. Init => Queue!QueueInit
  <2> SUFFICES ASSUME Init PROVE Queue!QueueInit
    OBVIOUS
  <2>1. \A t \in Trials : job[t].status = "none" /\ job[t].attempts = 0
    BY DEF Init, NoJobRow
  <2>2. \A t \in Trials : /\ JobPhase(t) = "absent" /\ JobHolder(t) = NoWorker
                         /\ Budget(t) = 0
    BY <2>1, JobPhaseOf DEF JobHolder, Budget
  <2> QED
    BY <2>1, <2>2 DEF Queue!QueueInit
<1>2. TypeOK /\ RowInv /\ BudgetIInv /\ [Next]_vars => [Queue!QueueNext]_(Queue!qvars)
  BY QueueStep
<1> QED
  BY <1>1, <1>2, BudgetIInvariant, PTL DEF Spec, ImplementsQueue, Queue!QueueSpec
=============================================================================
