------------------------- MODULE TrialJobs_outcomes -------------------------
(***************************************************************************)
(* Whose word counts on a trial, for every set of trials and workers and   *)
(* every bound: a job is a SUCCESS only when its trial is, and a trial     *)
(* becomes a SUCCESS only by the worker and for the attempt that are       *)
(* current.                                                                *)
(*                                                                         *)
(* Both need what TrialJobs_proofs shows of the rows, and that a worker    *)
(* between its claim and the preparation of its attempt is not taken for   *)
(* dead: these two steps are short transactions, far below the stale       *)
(* threshold.  A worker reaped there would still count its attempt on the  *)
(* trial, over the one that replaced it.                                   *)
(***************************************************************************)
EXTENDS TrialJobs_proofs

PromptStart == StallPoints \cap {"claimed", "checked"} = {}

\* A worker yet to prepare its attempt has its job, heartbeat and all, unless a
\* user cancelled it.
EarlyHolds(w) ==
  worker[w].pc \in {"claimed", "checked"} =>
    \/ HoldsJob(w, worker[w].trial) /\ job[worker[w].trial].beating
    \/ job[worker[w].trial].status = "CANCELLED"

\* A worker that runs an attempt and has its job runs the trial's current attempt.
AttemptIsCurrent(w) ==
  worker[w].pc \in {"prepared", "running"} /\ HoldsJob(w, worker[w].trial) =>
    worker[w].attempt = trial[worker[w].trial].attempts

\* What a worker that has its job is about to report as a success is one.
OkIsSuccess(w) ==
  /\ worker[w].pc = "deciding" /\ worker[w].outcome = "ok"
  /\ HoldsJob(w, worker[w].trial)
  => trial[worker[w].trial].status = "SUCCESS"

\* The second statement of a retry comes before the job is claimed again.
MarksUnclaimed(w) ==
  worker[w].pc = "marking" =>
    job[worker[w].trial].status \notin {"RUNNING", "SUCCESS"}

OwnInv(w) == EarlyHolds(w) /\ AttemptIsCurrent(w) /\ OkIsSuccess(w) /\ MarksUnclaimed(w)

OutcomeInv == SuccessAgrees /\ \A w \in Workers : OwnInv(w)

Quiet == {"idle", "hooks", "handled"}

\* A worker that is somewhere else has nothing to keep.
LEMMA QuietOwn ==
  ASSUME NEW w, worker[w].pc \in Quiet PROVE OwnInv(w)
  BY DEF OwnInv, EarlyHolds, AttemptIsCurrent, OkIsSuccess, MarksUnclaimed, Quiet

\* Steps that write neither table are about the worker that takes them.
LEMMA WorkerOnly ==
  ASSUME OutcomeInv, UNCHANGED <<job, trial>>, NEW w \in Workers,
         \A v \in Workers \ {w} : worker'[v] = worker[v],
         OwnInv(w)'
  PROVE  OutcomeInv'
  BY DEF OutcomeInv, SuccessAgrees, OwnInv, EarlyHolds, AttemptIsCurrent, OkIsSuccess,
     MarksUnclaimed, HoldsJob

\* The steps of a worker that write neither table.
LEMMA WorkerOnlyStep ==
  ASSUME TypeOK, OutcomeInv, NEW w \in Workers,
         \/ CheckIdempotency(w) \/ ClaimAttempt(w) \/ RunPostTrialHooks(w)
         \/ HandlerOutcome(w) \/ HandlerRaises(w) \/ Crash(w)
  PROVE  OutcomeInv'
<1>0. worker \in [Workers -> Worker] /\ OwnInv(w)
  BY DEF TypeOK, OutcomeInv
<1>1. UNCHANGED <<job, trial>> /\ \A v \in Workers \ {w} : worker'[v] = worker[v]
  BY <1>0 DEF CheckIdempotency, ClaimAttempt, RunPostTrialHooks, HandlerOutcome,
     HandlerRaises, Crash, Goto, Decide
<1>2. CASE CheckIdempotency(w)
  <2>1. /\ worker'[w].pc \in {"handled", "checked"} /\ worker[w].pc = "claimed"
        /\ worker'[w].trial = worker[w].trial
    BY <1>0, <1>2 DEF CheckIdempotency, At, Goto, Worker
  <2>2. OwnInv(w)'
    BY <1>0, <1>1, <2>1
       DEF OwnInv, EarlyHolds, AttemptIsCurrent, OkIsSuccess, MarksUnclaimed, HoldsJob
  <2> QED
    BY <1>1, <2>2, WorkerOnly
<1>3. CASE ClaimAttempt(w)
  <2>1. /\ worker'[w].pc \in {"running", "handled"}
        /\ worker'[w].trial = worker[w].trial /\ worker'[w].attempt = worker[w].attempt
        /\ worker[w].pc = "prepared"
    BY <1>0, <1>3 DEF ClaimAttempt, At, Goto, Worker
  <2>2. OwnInv(w)'
    BY <1>0, <1>1, <2>1
       DEF OwnInv, EarlyHolds, AttemptIsCurrent, OkIsSuccess, MarksUnclaimed, HoldsJob
  <2> QED
    BY <1>1, <2>2, WorkerOnly
<1>4. CASE RunPostTrialHooks(w) \/ Crash(w)
  <2>1. worker'[w].pc \in {"handled", "idle"}
    BY <1>0, <1>4 DEF RunPostTrialHooks, Crash, Goto, Idle, Worker
  <2>2. OwnInv(w)'
    BY <2>1 DEF OwnInv, EarlyHolds, AttemptIsCurrent, OkIsSuccess, MarksUnclaimed
  <2> QED
    BY <1>1, <2>2, WorkerOnly
<1>5. CASE HandlerOutcome(w)
  <2>1. /\ worker'[w].pc = "deciding" /\ worker'[w].trial = worker[w].trial
        /\ worker'[w].outcome = "ok" => trial[worker[w].trial].status = "SUCCESS"
    <3>1. PICK o \in {"ok", "fail", "retry"} :
            /\ o = "ok" => trial[worker[w].trial].status = "SUCCESS"
            /\ Decide(w, o)
      BY <1>5 DEF HandlerOutcome
    <3> QED
      BY <1>0, <3>1 DEF Decide, Worker
  <2>2. OwnInv(w)'
    BY <1>1, <2>1
       DEF OwnInv, EarlyHolds, AttemptIsCurrent, OkIsSuccess, MarksUnclaimed
  <2> QED
    BY <1>1, <2>2, WorkerOnly
<1>6. CASE HandlerRaises(w)
  <2>1. worker'[w].pc = "deciding" /\ worker'[w].outcome # "ok"
    BY <1>0, <1>6 DEF HandlerRaises, Decide, Worker
  <2>2. OwnInv(w)'
    BY <2>1 DEF OwnInv, EarlyHolds, AttemptIsCurrent, OkIsSuccess, MarksUnclaimed
  <2> QED
    BY <1>1, <2>2, WorkerOnly
<1> QED
  BY <1>2, <1>3, <1>4, <1>5, <1>6

\* Steps that write neither a job's status and owner nor a trial's status and attempts
\* are no business of this invariant, unless a worker takes them.
LEMMA RowsAlike ==
  ASSUME TypeOK, OutcomeInv,
         \A t \in Trials : /\ job'[t].status = job[t].status /\ job'[t].owner = job[t].owner
                           /\ job[t].beating => job'[t].beating
                           /\ trial'[t].attempts = trial[t].attempts
                           /\ trial'[t].status = trial[t].status,
         \A w \in Workers : worker'[w] = worker[w] \/ worker'[w].pc \in Quiet
  PROVE  OutcomeInv'
<1>1. SuccessAgrees'
  BY DEF OutcomeInv, SuccessAgrees
<1>2. ASSUME NEW w \in Workers PROVE OwnInv(w)'
  <2>1. CASE worker'[w].pc \in Quiet
    BY <2>1 DEF OwnInv, EarlyHolds, AttemptIsCurrent, OkIsSuccess, MarksUnclaimed, Quiet
  <2>2. CASE worker'[w] = worker[w] /\ worker[w].pc \notin Quiet
    <3>1. worker[w].trial \in Trials /\ OwnInv(w)
      BY <2>2 DEF TypeOK, At, Quiet, OutcomeInv
    <3> QED
      BY <2>2, <3>1
         DEF OwnInv, EarlyHolds, AttemptIsCurrent, OkIsSuccess, MarksUnclaimed, HoldsJob
  <2> QED
    BY <1>2, <2>1, <2>2
<1> QED
  BY <1>1, <1>2 DEF OutcomeInv

\* A write to the trial of a job that is neither a SUCCESS nor held by another worker
\* about to report one, by a worker that holds it: what its other workers know stays.
\* Here trial u changes, its attempts only if no other worker holds its job.
LEMMA TrialWritten ==
  ASSUME TypeOK, OutcomeInv, job' = job, NEW u \in Trials, NEW w \in Workers,
         \A t \in Trials \ {u} : trial'[t] = trial[t],
         \A v \in Workers \ {w} : worker'[v] = worker[v],
         job[u].status # "SUCCESS",
         \A v \in Workers \ {w} : ~HoldsJob(v, u),
         OwnInv(w)'
  PROVE  OutcomeInv'
<1>1. SuccessAgrees'
  BY DEF OutcomeInv, SuccessAgrees
<1>2. ASSUME NEW v \in Workers \ {w} PROVE OwnInv(v)'
  <2>1. CASE worker[v].pc \in Quiet
    BY <2>1 DEF OwnInv, EarlyHolds, AttemptIsCurrent, OkIsSuccess, MarksUnclaimed, Quiet
  <2>2. CASE worker[v].pc \notin Quiet
    <3>1. worker[v].trial \in Trials /\ OwnInv(v)
      BY <2>2 DEF TypeOK, At, Quiet, OutcomeInv
    <3> QED
      BY <2>2, <3>1
         DEF OwnInv, EarlyHolds, AttemptIsCurrent, OkIsSuccess, MarksUnclaimed, HoldsJob
  <2> QED
    BY <2>1, <2>2
<1> QED
  BY <1>1, <1>2 DEF OutcomeInv

\* Who holds the job keeps all others from it.
LEMMA HoldsAlone ==
  ASSUME NEW w, NEW t, HoldsJob(w, t)
  PROVE  job[t].status # "SUCCESS" /\ \A v : v # w => ~HoldsJob(v, t)
  BY DEF HoldsJob

\* The steps by which a worker writes its trial and no job.
LEMMA TrialWriteStep ==
  ASSUME TypeOK, RowInv, OutcomeInv, NEW w \in Workers,
         HarborEnd(w) \/ HarborCancel(w) \/ Settle(w) \/ PrepareTrialRun(w)
         \/ MarkTrialRetrying(w)
  PROVE  OutcomeInv'
<1> DEFINE t == worker[w].trial
<1>0. /\ worker \in [Workers -> Worker] /\ trial \in [Trials -> Trial]
      /\ OwnInv(w) /\ (worker[w].pc # "idle" => t \in Trials)
  BY DEF TypeOK, OutcomeInv, At
<1>1. CASE HarborEnd(w) \/ HarborCancel(w)
  <2>1. /\ worker[w].pc = "running" /\ HoldsJob(w, t) /\ worker' = worker /\ job' = job
        /\ Live(t)
    BY <1>1 DEF HarborEnd, HarborCancel, HearsHarbor, StillOwns, At
  <2>2. PICK row : trial' = [trial EXCEPT ![t] = row] /\ row.attempts = trial[t].attempts
    <3>1. trial[t] \in Trial /\ trial[t].status # "none"
      BY <1>0, <2>1 DEF RowInv, HoldsJob
    <3>2. CASE HarborEnd(w)
      <4>1. PICK end \in {"reward", "timeout", "exception", "neither"} :
              trial' = [trial EXCEPT ![t] = Ended(trial[t], end)]
        BY <3>2 DEF HarborEnd
      <4> QED
        BY <3>1, <4>1, EndedFields
    <3>3. CASE HarborCancel(w)
      <4>1. /\ [trial[t] EXCEPT !.stage = "cancelled"] \in Trial
            /\ [trial[t] EXCEPT !.stage = "cancelled"].attempts = trial[t].attempts
        BY <3>1 DEF Trial
      <4>2. trial' = [trial EXCEPT ![t] =
                        Shows([trial[t] EXCEPT !.stage = "cancelled"], "FAILED", "other")]
        BY <3>3 DEF HarborCancel
      <4> DEFINE seen == [trial[t] EXCEPT !.stage = "cancelled"]
                 stored == Shows(seen, "FAILED", "other")
      <4>3. trial' = [trial EXCEPT ![t] = stored]
        BY <4>2
      <4>4. seen \in Trial /\ seen.attempts = trial[t].attempts
        BY <4>1
      <4>5. stored.attempts = trial[t].attempts
        <5> HIDE DEF seen
        <5> QED
          BY <4>4, ShowsFields
      <4> HIDE DEF stored
      <4> QED
        BY <4>3, <4>5
    <3> QED
      BY <1>1, <3>2, <3>3
  <2>3. OwnInv(w)'
    BY <1>0, <2>1, <2>2
       DEF OwnInv, EarlyHolds, AttemptIsCurrent, OkIsSuccess, MarksUnclaimed, HoldsJob
  <2> QED
    BY <1>0, <2>1, <2>2, <2>3, TrialWritten, HoldsAlone
<1>2. CASE Settle(w)
  <2>1. /\ job' = job /\ worker[w].pc \in {"prepared", "running"}
        /\ worker'[w].pc \in {"hooks", "handled"}
        /\ \A v \in Workers \ {w} : worker'[v] = worker[v]
    BY <1>0, <1>2 DEF Settle, Goto, Worker
  <2>2. OwnInv(w)'
    BY <2>1 DEF OwnInv, EarlyHolds, AttemptIsCurrent, OkIsSuccess, MarksUnclaimed
  <2>3. CASE trial' = trial
    BY <2>1, <2>2, <2>3, WorkerOnly
  <2>4. CASE MayStore(w, t) /\ \E row : trial' = [trial EXCEPT ![t] = row]
    <3>1. HoldsJob(w, t)
      BY <2>4 DEF MayStore, StillOwns
    <3> QED
      BY <1>0, <2>1, <2>2, <2>4, <3>1, TrialWritten, HoldsAlone
  <2> QED
    BY <1>2, <2>3, <2>4 DEF Settle
<1>3. CASE PrepareTrialRun(w)
  <2>1. job' = job /\ worker[w].pc = "checked"
    BY <1>3 DEF PrepareTrialRun, At
  <2>2. HoldsJob(w, t) \/ job[t].status = "CANCELLED"
    BY <1>0, <2>1 DEF OwnInv, EarlyHolds
  <2>3. CASE Goto(w, "handled") /\ trial' = trial
    <3>1. worker'[w].pc = "handled" /\ \A v \in Workers \ {w} : worker'[v] = worker[v]
      BY <1>0, <2>3 DEF Goto, Worker
    <3>2. OwnInv(w)'
      BY <3>1 DEF OwnInv, EarlyHolds, AttemptIsCurrent, OkIsSuccess, MarksUnclaimed
    <3> QED
      BY <2>1, <2>3, <3>1, <3>2, WorkerOnly
  <2>4. CASE /\ trial' = [trial EXCEPT ![t] = RunningRow(trial[t], w)]
             /\ worker' = [worker EXCEPT ![w] =
                  [worker[w] EXCEPT !.pc = "prepared", !.attempt = trial[t].attempts + 1]]
    <3>1. /\ worker'[w].pc = "prepared" /\ worker'[w].trial = t
          /\ worker'[w].attempt = trial[t].attempts + 1
          /\ \A v \in Workers \ {w} : worker'[v] = worker[v]
      BY <1>0, <2>4 DEF Worker
    <3>2. trial'[t].attempts = trial[t].attempts + 1
      BY <1>0, <2>1, <2>4 DEF RunningRow
    <3>3. OwnInv(w)'
      BY <3>1, <3>2 DEF OwnInv, EarlyHolds, AttemptIsCurrent, OkIsSuccess, MarksUnclaimed
    <3>4. job[t].status # "SUCCESS" /\ \A v \in Workers \ {w} : ~HoldsJob(v, t)
      BY <2>2 DEF HoldsJob
    <3> QED
      BY <1>0, <2>1, <2>4, <3>1, <3>3, <3>4, TrialWritten
  <2> QED
    BY <1>3, <2>3, <2>4 DEF PrepareTrialRun
<1>4. CASE MarkTrialRetrying(w)
  <2>1. /\ job' = job /\ worker[w].pc = "marking" /\ worker'[w].pc = "idle"
        /\ \A v \in Workers \ {w} : worker'[v] = worker[v]
    BY <1>0, <1>4 DEF MarkTrialRetrying, At, Idle
  <2>2. OwnInv(w)'
    BY <2>1 DEF OwnInv, EarlyHolds, AttemptIsCurrent, OkIsSuccess, MarksUnclaimed
  <2>3. job[t].status # "SUCCESS" /\ \A v \in Workers \ {w} : ~HoldsJob(v, t)
    BY <1>0, <2>1 DEF OwnInv, MarksUnclaimed, HoldsJob
  <2>4. \A u \in Trials \ {t} : trial'[u] = trial[u]
    BY <1>0, <1>4 DEF MarkTrialRetrying
  <2> QED
    BY <1>0, <2>1, <2>2, <2>3, <2>4, TrialWritten
<1> QED
  BY <1>1, <1>2, <1>3, <1>4

\* A claim takes a job that nobody holds, and nobody is about to mark for a retry.
LEMMA ClaimStep ==
  ASSUME TypeOK, RowInv, OutcomeInv, NEW w \in Workers, NEW t \in Trials, Claim(w, t)
  PROVE  OutcomeInv'
<1>0. worker \in [Workers -> Worker] /\ job \in [Trials -> Job]
  BY DEF TypeOK
<1>1. /\ job[t].status \in {"QUEUED", "RETRYING"} /\ trial' = trial
      /\ job'[t].status = "RUNNING" /\ job'[t].owner = w /\ job'[t].beating
      /\ \A u \in Trials \ {t} : job'[u] = job[u]
      /\ worker'[w].pc = "claimed" /\ worker'[w].trial = t
      /\ \A v \in Workers \ {w} : worker'[v] = worker[v]
      /\ \A v \in Workers : ~(worker[v].pc = "marking" /\ worker[v].trial = t)
  BY <1>0 DEF Claim, Claimable, RetryDelayElapsed, At
<1>2. SuccessAgrees'
  BY <1>1 DEF OutcomeInv, SuccessAgrees
<1>3. OwnInv(w)'
  BY <1>1 DEF OwnInv, EarlyHolds, AttemptIsCurrent, OkIsSuccess, MarksUnclaimed, HoldsJob
<1>4. ASSUME NEW v \in Workers \ {w} PROVE OwnInv(v)'
  <2>1. CASE worker[v].pc \in Quiet
    BY <1>1, <2>1 DEF OwnInv, EarlyHolds, AttemptIsCurrent, OkIsSuccess, MarksUnclaimed, Quiet
  <2>2. CASE worker[v].pc \notin Quiet
    <3>1. worker[v].trial \in Trials /\ OwnInv(v) /\ worker'[v] = worker[v]
      BY <1>1, <2>2 DEF TypeOK, At, Quiet, OutcomeInv
    <3>2. CASE worker[v].trial = t
      BY <1>1, <3>1, <3>2
         DEF OwnInv, EarlyHolds, AttemptIsCurrent, OkIsSuccess, MarksUnclaimed, HoldsJob
    <3>3. CASE worker[v].trial # t
      BY <1>1, <3>1, <3>3
         DEF OwnInv, EarlyHolds, AttemptIsCurrent, OkIsSuccess, MarksUnclaimed, HoldsJob
    <3> QED
      BY <3>2, <3>3
  <2> QED
    BY <2>1, <2>2
<1> QED
  BY <1>2, <1>3, <1>4 DEF OutcomeInv

\* A held job that ends or goes back is nobody's any more; a trial whose job is not a
\* SUCCESS may show anything, and a cancelled job stays one.
LEMMA JobsEnd ==
  ASSUME TypeOK, OutcomeInv,
         \A t \in Trials :
           \/ job'[t] = job[t] /\ trial'[t].status = trial[t].status
                               /\ trial'[t].attempts = trial[t].attempts
           \/ /\ job'[t].status \notin {"RUNNING", "SUCCESS"}
              /\ \/ job'[t].status = "CANCELLED"
                 \/ \A w \in Workers : worker[w].trial = t =>
                      worker[w].pc \notin {"claimed", "checked"},
         \A w \in Workers : worker'[w] = worker[w]
  PROVE  OutcomeInv'
<1>1. SuccessAgrees'
  BY DEF OutcomeInv, SuccessAgrees
<1>2. ASSUME NEW w \in Workers PROVE OwnInv(w)'
  <2>1. CASE worker[w].pc \in Quiet
    BY <2>1 DEF OwnInv, EarlyHolds, AttemptIsCurrent, OkIsSuccess, MarksUnclaimed, Quiet
  <2>2. CASE worker[w].pc \notin Quiet
    <3>1. worker[w].trial \in Trials /\ OwnInv(w)
      BY <2>2 DEF TypeOK, At, Quiet, OutcomeInv
    <3> QED
      BY <3>1 DEF OwnInv, EarlyHolds, AttemptIsCurrent, OkIsSuccess, MarksUnclaimed, HoldsJob
  <2> QED
    BY <2>1, <2>2
<1> QED
  BY <1>1, <1>2 DEF OutcomeInv

\* Recording the outcome of a held job: an "ok" finds the trial a SUCCESS.
LEMMA RecordStep ==
  ASSUME TypeOK, OutcomeInv, NEW w \in Workers, RecordOutcome(w)
  PROVE  OutcomeInv'
<1> DEFINE t == worker[w].trial
<1>0. /\ worker \in [Workers -> Worker] /\ job \in [Trials -> Job]
      /\ worker[w].pc = "deciding" /\ t \in Trials /\ OwnInv(w) /\ trial' = trial
  BY DEF TypeOK, OutcomeInv, At, RecordOutcome
<1>1. CASE worker' = [worker EXCEPT ![w] = Idle] /\ job' = job
  <2>1. OwnInv(w)'
    BY <1>0, <1>1 DEF Idle, OwnInv, EarlyHolds, AttemptIsCurrent, OkIsSuccess, MarksUnclaimed
  <2> QED
    BY <1>0, <1>1, <2>1, WorkerOnly
<1>2. CASE /\ HoldsJob(w, t)
           /\ \/ /\ job' = [job EXCEPT ![t] = Released([job[t] EXCEPT !.status = "RETRYING"])]
                 /\ Goto(w, "marking")
              \/ /\ job' = [job EXCEPT ![t].status =
                              IF worker[w].outcome = "ok" THEN "SUCCESS" ELSE "FAILED"]
                 /\ worker' = [worker EXCEPT ![w] = Idle]
  <2>1. /\ \A u \in Trials \ {t} : job'[u] = job[u]
        /\ \A v \in Workers \ {w} : worker'[v] = worker[v]
        /\ job[t].status = "RUNNING"
        /\ \/ job'[t].status = "RETRYING" /\ worker'[w].pc = "marking"
                                          /\ worker'[w].trial = t
           \/ job'[t].status \in {"SUCCESS", "FAILED"} /\ worker'[w].pc = "idle"
        /\ job'[t].status = "SUCCESS" => worker[w].outcome = "ok"
    <3>1. job[t] \in Job /\ job[t].status = "RUNNING"
      BY <1>0, <1>2 DEF TypeOK, HoldsJob
    <3>2. CASE /\ job' = [job EXCEPT ![t] = Released([job[t] EXCEPT !.status = "RETRYING"])]
               /\ Goto(w, "marking")
      <4> DEFINE row == Released([job[t] EXCEPT !.status = "RETRYING"])
      <4>1. row.status = "RETRYING" /\ job' = [job EXCEPT ![t] = row]
        BY <3>1, <3>2, JobRowFields
      <4> HIDE DEF row
      <4>2. job'[t].status = "RETRYING" /\ \A u \in Trials \ {t} : job'[u] = job[u]
        BY <1>0, <4>1
      <4>3. /\ worker'[w].pc = "marking" /\ worker'[w].trial = t
            /\ \A v \in Workers \ {w} : worker'[v] = worker[v]
        BY <1>0, <3>2 DEF Goto, Worker
      <4> QED
        BY <3>1, <4>2, <4>3
    <3>3. CASE /\ job' = [job EXCEPT ![t].status =
                            IF worker[w].outcome = "ok" THEN "SUCCESS" ELSE "FAILED"]
               /\ worker' = [worker EXCEPT ![w] = Idle]
      BY <1>0, <3>1, <3>3 DEF Idle, Job
    <3> QED
      BY <1>2, <3>2, <3>3
  <2>2. SuccessAgrees'
    BY <1>0, <1>2, <2>1 DEF OutcomeInv, SuccessAgrees, OwnInv, OkIsSuccess
  <2>3. OwnInv(w)'
    BY <2>1 DEF OwnInv, EarlyHolds, AttemptIsCurrent, OkIsSuccess, MarksUnclaimed
  <2>4. ASSUME NEW v \in Workers \ {w} PROVE OwnInv(v)'
    <3>1. CASE worker[v].pc \in Quiet
      BY <2>1, <3>1
         DEF OwnInv, EarlyHolds, AttemptIsCurrent, OkIsSuccess, MarksUnclaimed, Quiet
    <3>2. CASE worker[v].pc \notin Quiet
      <4>1. worker[v].trial \in Trials /\ OwnInv(v) /\ worker'[v] = worker[v]
        BY <2>1, <3>2 DEF TypeOK, At, Quiet, OutcomeInv
      <4>2. ~HoldsJob(v, t)
        BY <1>2, HoldsAlone
      <4>3. CASE worker[v].trial = t
        BY <1>0, <2>1, <4>1, <4>2, <4>3
           DEF OwnInv, EarlyHolds, AttemptIsCurrent, OkIsSuccess, MarksUnclaimed, HoldsJob
      <4>4. CASE worker[v].trial # t
        BY <1>0, <2>1, <4>1, <4>4
           DEF OwnInv, EarlyHolds, AttemptIsCurrent, OkIsSuccess, MarksUnclaimed, HoldsJob
      <4> QED
        BY <4>3, <4>4
    <3> QED
      BY <3>1, <3>2
  <2> QED
    BY <2>2, <2>3, <2>4 DEF OutcomeInv
<1> QED
  BY <1>1, <1>2, Zenon DEF RecordOutcome

\* Every step of the system.
LEMMA OutcomeStep ==
  ASSUME PromptStart, TypeOK, RowInv, OutcomeInv, [Next]_vars
  PROVE  OutcomeInv'
<1>0. /\ job \in [Trials -> Job] /\ trial \in [Trials -> Trial]
      /\ worker \in [Workers -> Worker]
      /\ \A t \in Trials : job[t] \in Job /\ trial[t] \in Trial
  BY DEF TypeOK
<1>1. ASSUME NEW w \in Workers, WorkerStep(w) PROVE OutcomeInv'
  BY <1>1, WorkerOnlyStep, TrialWriteStep, RecordStep DEF WorkerStep
<1>2. ASSUME NEW w \in Workers, Heartbeat(w) PROVE OutcomeInv'
  <2>1. \A t \in Trials :
          /\ trial'[t].attempts = trial[t].attempts /\ trial'[t].status = trial[t].status
    <3>1. \/ trial' = trial
          \/ trial' = [trial EXCEPT ![worker[w].trial] =
                         [trial[worker[w].trial] EXCEPT !.owner = w]]
      BY <1>2 DEF Heartbeat, TouchTrialExecution, HeartbeatWorkerJob
    <3> QED
      BY <1>0, <3>1 DEF Trial
  <2>2. \A t \in Trials :
          /\ job'[t].status = job[t].status /\ job'[t].owner = job[t].owner
          /\ job[t].beating => job'[t].beating
    <3>1. \/ job' = job
          \/ job' = [job EXCEPT ![worker[w].trial] =
                       [job[worker[w].trial] EXCEPT !.beating = TRUE]]
      BY <1>2 DEF Heartbeat, TouchTrialExecution, HeartbeatWorkerJob
    <3> QED
      BY <1>0, <3>1 DEF Job
  <2>3. \A v \in Workers : worker'[v] = worker[v] \/ worker'[v].pc \in Quiet
    BY <1>0, <1>2
       DEF Heartbeat, TouchTrialExecution, HeartbeatWorkerJob, Idle, Quiet
  <2> QED
    BY <2>1, <2>2, <2>3, RowsAlike
<1>3. ASSUME NEW w \in Workers, WorkerEvent(w) PROVE OutcomeInv'
  BY <1>2, <1>3, WorkerOnlyStep, TrialWriteStep DEF WorkerEvent
<1>4. ASSUME NEW t \in Trials, HeartbeatLapses(t) PROVE OutcomeInv'
  <2>1. /\ trial' = trial /\ worker' = worker /\ \A u \in Trials \ {t} : job'[u] = job[u]
        /\ job'[t].status = job[t].status /\ job'[t].owner = job[t].owner
        /\ job[t].status = "RUNNING"
    BY <1>0, <1>4 DEF HeartbeatLapses, Job
  <2>2. ASSUME NEW w \in Workers, worker[w].trial = t, worker[w].pc \in {"claimed", "checked"}
        PROVE  FALSE
    <3>1. OwnInv(w) /\ job[t].owner # w
      BY <1>4, <2>2 DEF HeartbeatLapses, PromptStart, OutcomeInv
    <3> QED
      BY <2>1, <2>2, <3>1 DEF OwnInv, EarlyHolds, HoldsJob
  <2>3. SuccessAgrees'
    BY <2>1 DEF OutcomeInv, SuccessAgrees
  <2>4. ASSUME NEW w \in Workers PROVE OwnInv(w)'
    <3>1. OwnInv(w)
      BY DEF OutcomeInv
    <3>2. CASE worker[w].trial = t
      BY <2>1, <2>2, <3>1, <3>2
         DEF OwnInv, EarlyHolds, AttemptIsCurrent, OkIsSuccess, MarksUnclaimed, HoldsJob
    <3>3. CASE worker[w].trial # t /\ worker[w].pc # "idle"
      <4>1. worker[w].trial \in Trials
        BY <3>3 DEF TypeOK, At
      <4> QED
        BY <2>1, <3>1, <3>3, <4>1
           DEF OwnInv, EarlyHolds, AttemptIsCurrent, OkIsSuccess, MarksUnclaimed, HoldsJob
    <3>4. CASE worker[w].pc = "idle"
      BY <2>1, <3>4 DEF OwnInv, EarlyHolds, AttemptIsCurrent, OkIsSuccess, MarksUnclaimed
    <3> QED
      BY <3>2, <3>3, <3>4
  <2> QED
    BY <2>3, <2>4 DEF OutcomeInv
<1>5. ASSUME NEW t \in Trials, ReapStaleJob(t) PROVE OutcomeInv'
  <2> DEFINE s == IF AttemptsLeft(t) THEN "RETRYING" ELSE "FAILED"
             row == Released([job[t] EXCEPT !.status = s])
  <2>1. /\ job[t].status = "RUNNING" /\ ~job[t].beating
        /\ job' = [job EXCEPT ![t] = row] /\ row.status = s
        /\ worker' = worker /\ \A u \in Trials \ {t} : trial'[u] = trial[u]
    BY <1>0, <1>5, JobRowFields DEF ReapStaleJob, Stale
  <2>2. s \in {"RETRYING", "FAILED"}
    OBVIOUS
  <2> HIDE DEF s, row
  <2>3. job'[t].status \notin {"RUNNING", "SUCCESS"}
        /\ \A u \in Trials \ {t} : job'[u] = job[u]
    BY <1>0, <2>1, <2>2
  <2>4. ASSUME NEW w \in Workers, worker[w].trial = t PROVE worker[w].pc \notin {"claimed", "checked"}
    BY <2>1, <2>4 DEF OutcomeInv, OwnInv, EarlyHolds
  <2> QED
    BY <2>1, <2>3, <2>4, JobsEnd
<1>6. ASSUME NEW t \in Trials, ClearTerminalRefs(t) PROVE OutcomeInv'
  <2>1. \A u \in Trials :
          trial'[u].attempts = trial[u].attempts /\ trial'[u].status = trial[u].status
    BY <1>0, <1>6 DEF ClearTerminalRefs, Trial
  <2> QED
    BY <1>6, <2>1, RowsAlike DEF ClearTerminalRefs
<1>7. ASSUME NEW t \in Trials, Submit(t) PROVE OutcomeInv'
  <2>1. /\ job'[t].status = "QUEUED" /\ worker' = worker
        /\ \A u \in Trials \ {t} : job'[u] = job[u] /\ trial'[u] = trial[u]
    BY <1>0, <1>7 DEF Submit, NewJobRow, NoJobRow
  <2>2. job[t].status = "none"
    BY <1>7 DEF Submit, RowInv
  <2>3. \A w \in Workers : worker[w].trial = t => worker[w].pc \notin {"claimed", "checked"}
    BY <2>2 DEF RowInv, At
  <2> QED
    BY <2>1, <2>3, JobsEnd
<1>8. ASSUME NEW t \in Trials, RequestRetry(t) \/ \E n \in 0 .. MaxAttempts : RejectRetry(t, n)
      PROVE  OutcomeInv'
  BY <1>8, RowsAlike DEF RequestRetry, RejectRetry
<1>9. ASSUME NEW t \in Trials, NEW n \in 0 .. MaxAttempts, NEW u \in Trials, CommitRetry(t, n, u)
      PROVE  OutcomeInv'
  <2>1. job[u].status = "none" /\ job[t].status # "none"
    BY <1>9 DEF CommitRetry, RowInv
  <2>2. \A w \in Workers : worker[w].trial = u => worker[w].pc \notin {"claimed", "checked"}
    BY <2>1 DEF RowInv, At
  <2>3. /\ job'[u].status = "QUEUED" /\ worker' = worker
        /\ \A v \in Trials \ {t, u} : job'[v] = job[v] /\ trial'[v] = trial[v]
    BY <1>0, <1>9 DEF CommitRetry, NewJobRow, NoJobRow
  <2>4. CASE job[t].status \in ActiveJob
    <3>1. job'[t] = CancelledJob(job[t])
      BY <1>0, <1>9, <2>1, <2>4 DEF CommitRetry
    <3>2. job'[t].status = "CANCELLED"
      BY <1>0, <3>1, CancelledJobFields
    <3> QED
      BY <2>2, <2>3, <3>2, JobsEnd
  <2>5. CASE job[t].status \notin ActiveJob
    <3>1. job'[t] = job[t] /\ trial'[t] = SupersededRow(trial[t], u)
      BY <1>0, <1>9, <2>1, <2>5 DEF CommitRetry
    <3>2. trial'[t].attempts = trial[t].attempts
      BY <1>0, <3>1, SupersededRowFields
    <3>3. CASE trial[t].status \in TerminalTrial
      <4>1. trial'[t].status = trial[t].status
        BY <1>0, <3>1, <3>3 DEF SupersededRow, Trial
      <4> QED
        BY <2>2, <2>3, <3>1, <3>2, <4>1, JobsEnd
    <3>4. CASE trial[t].status \notin TerminalTrial
      <4>1. job[t].status \notin {"RUNNING", "SUCCESS"}
        BY <2>5, <3>4 DEF OutcomeInv, SuccessAgrees, TerminalTrial, ActiveJob
      <4>2. ASSUME NEW w \in Workers, worker[w].trial = t, worker[w].pc \in {"claimed", "checked"}
            PROVE  job'[t].status = "CANCELLED"
        BY <3>1, <4>1, <4>2 DEF OutcomeInv, OwnInv, EarlyHolds, HoldsJob
      <4> QED
        BY <2>2, <2>3, <3>1, <4>1, <4>2, JobsEnd
    <3> QED
      BY <3>3, <3>4
  <2> QED
    BY <2>4, <2>5
<1>10. ASSUME NEW S \in SUBSET Trials, CancelRuns(S) PROVE OutcomeInv'
  <2> DEFINE hit == {t \in S : job[t].status \in ActiveJob}
             ended == hit \cup {t \in S : trial[t].status \in ActiveTrial}
  <2>1. /\ \A t \in Trials : job'[t] = IF t \in hit THEN CancelledJob(job[t]) ELSE job[t]
        /\ \A t \in Trials : trial'[t] = IF t \in ended THEN CancelledRow(trial[t]) ELSE trial[t]
        /\ worker' = worker
    BY <1>10 DEF CancelRuns
  <2>2. ASSUME NEW t \in Trials
        PROVE  \/ job'[t] = job[t] /\ trial'[t].status = trial[t].status
                                   /\ trial'[t].attempts = trial[t].attempts
               \/ /\ job'[t].status \notin {"RUNNING", "SUCCESS"}
                  /\ \/ job'[t].status = "CANCELLED"
                     \/ \A w \in Workers : worker[w].trial = t =>
                          worker[w].pc \notin {"claimed", "checked"}
    <3>1. CASE t \in hit
      BY <1>0, <2>1, <3>1, CancelledJobFields
    <3>2. CASE t \notin ended
      BY <2>1, <3>2
    <3>3. CASE t \in ended /\ t \notin hit
      <4>1. job'[t] = job[t] /\ job[t].status \notin {"RUNNING", "SUCCESS"}
        BY <2>1, <3>3 DEF OutcomeInv, SuccessAgrees, ActiveTrial, ActiveJob
      <4>2. ASSUME NEW w \in Workers, worker[w].trial = t, worker[w].pc \in {"claimed", "checked"}
            PROVE  job'[t].status = "CANCELLED"
        BY <4>1, <4>2 DEF OutcomeInv, OwnInv, EarlyHolds, HoldsJob
      <4> QED
        BY <4>1, <4>2
    <3> QED
      BY <3>1, <3>2, <3>3
  <2> QED
    BY <2>1, <2>2, JobsEnd
<1>11. CASE UNCHANGED vars
  BY <1>11, RowsAlike DEF vars
<1> QED
  BY <1>1, <1>3, <1>4, <1>5, <1>6, <1>7, <1>8, <1>9, <1>10, <1>11, ClaimStep
     DEF Next, SweepStep, UserStep

-----------------------------------------------------------------------------
\* The invariant, from the first state on.
LEMMA OutcomeInvariant ==
  ASSUME PromptStart PROVE Spec => [](TypeOK /\ RowInv /\ OutcomeInv)
<1>1. Init => OutcomeInv
  BY DEF Init, OutcomeInv, SuccessAgrees, NoJobRow, OwnInv, EarlyHolds, AttemptIsCurrent,
     OkIsSuccess, MarksUnclaimed, Idle
<1>2. TypeOK /\ RowInv /\ OutcomeInv /\ [Next]_vars => OutcomeInv'
  BY OutcomeStep
<1> QED
  BY <1>1, <1>2, RowsAgree, PTL DEF Spec

\* A job is a SUCCESS only when its trial is: nothing moves the trial while its worker
\* carries the success to the job row.
THEOREM SuccessIsTrue == ASSUME PromptStart PROVE Spec => []SuccessAgrees
<1>1. OutcomeInv => SuccessAgrees
  BY DEF OutcomeInv
<1> QED
  BY <1>1, OutcomeInvariant, PTL

-----------------------------------------------------------------------------
\* Only Harbor's END event and a settle turn a trial into a SUCCESS.
LEMMA Publishers ==
  ASSUME TypeOK, [Next]_vars, NEW t \in Trials,
         trial[t].status # "SUCCESS", trial'[t].status = "SUCCESS"
  PROVE  \E w \in Workers : worker[w].trial = t /\ (HarborEnd(w) \/ Settle(w))
<1>0. /\ trial \in [Trials -> Trial] /\ trial[t] \in Trial
      /\ \A w \in Workers : ~At(w, "idle") => worker[w].trial \in Trials
  BY DEF TypeOK
<1>1. ASSUME NEW u \in Trials, Submit(u) PROVE FALSE
  BY <1>0, <1>1, NewRowsFields, ConstantsAssumption DEF Submit
<1>2. ASSUME NEW w \in Workers, PrepareTrialRun(w) PROVE FALSE
  BY <1>0, <1>2 DEF PrepareTrialRun, RunningRow
<1>3. ASSUME NEW w \in Workers, HarborEnd(w) \/ Settle(w) PROVE worker[w].trial = t
  BY <1>0, <1>3 DEF HarborEnd, Settle
<1>4. ASSUME NEW w \in Workers, HarborCancel(w) PROVE FALSE
  <2> DEFINE seen == [trial[worker[w].trial] EXCEPT !.stage = "cancelled"]
             row == Shows(seen, "FAILED", "other")
  <2>1. trial' = [trial EXCEPT ![worker[w].trial] = row]
    BY <1>4 DEF HarborCancel
  <2>2. worker[w].trial \in Trials => row.status = "FAILED"
    <3> SUFFICES ASSUME worker[w].trial \in Trials PROVE row.status = "FAILED"
      OBVIOUS
    <3>1. seen \in Trial
      BY <1>0 DEF Trial
    <3> HIDE DEF seen
    <3> QED
      BY <3>1, ShowsFields
  <2> HIDE DEF row
  <2> QED
    BY <1>0, <2>1, <2>2
<1>5. ASSUME NEW w \in Workers, Heartbeat(w) PROVE FALSE
  <2>1. \/ trial' = trial
        \/ trial' = [trial EXCEPT ![worker[w].trial] =
                       [trial[worker[w].trial] EXCEPT !.owner = w]]
    BY <1>5 DEF Heartbeat, TouchTrialExecution, HeartbeatWorkerJob
  <2> QED
    BY <1>0, <2>1 DEF Trial
<1>6. ASSUME NEW w \in Workers, MarkTrialRetrying(w) PROVE FALSE
  <2> DEFINE u == worker[w].trial
             seen == [trial[u] EXCEPT !.status = "RETRYING", !.error = "other"]
             row == Released(seen)
  <2>1. trial' = [trial EXCEPT ![u] = row] \/ trial' = trial
    BY <1>6 DEF MarkTrialRetrying
  <2>2. u \in Trials => row.status = "RETRYING"
    <3> SUFFICES ASSUME u \in Trials PROVE row.status = "RETRYING"
      OBVIOUS
    <3>1. seen \in Trial /\ seen.status = "RETRYING"
      BY <1>0 DEF Trial, ActiveTrial
    <3> HIDE DEF seen
    <3> QED
      BY <3>1, ReleasedFields
  <2> HIDE DEF row
  <2> QED
    BY <1>0, <2>1, <2>2
<1>7. ASSUME NEW u \in Trials, ReapStaleJob(u) PROVE FALSE
  <2> DEFINE status == IF AttemptsLeft(u) THEN "RETRYING" ELSE "FAILED"
             seen == IF AttemptsLeft(u) \/ trial[u].stage = "completed" THEN trial[u]
                     ELSE [trial[u] EXCEPT !.stage = "cancelled"]
             shown == Shows(seen, status, "other")
             row == Released(shown)
  <2>1. trial' = [trial EXCEPT ![u] = row]
    BY <1>7, Zenon DEF ReapStaleJob
  <2>2. row.status = status
    <3>1. seen \in Trial
      BY <1>0 DEF Trial, TypeOK
    <3> HIDE DEF seen
    <3>2. shown \in Trial /\ shown.status = status
      BY <3>1, ShowsFields, ShowsTyped
    <3> HIDE DEF shown
    <3> QED
      BY <3>2, ReleasedFields
  <2>3. status # "SUCCESS"
    OBVIOUS
  <2> HIDE DEF row, status
  <2> QED
    BY <1>0, <2>1, <2>2, <2>3
<1>8. ASSUME NEW u \in Trials, ClearTerminalRefs(u) PROVE FALSE
  <2>1. trial' = [trial EXCEPT ![u] = [trial[u] EXCEPT !.owner = NoWorker]]
    BY <1>8 DEF ClearTerminalRefs
  <2> QED
    BY <1>0, <2>1 DEF Trial
<1>9. ASSUME NEW S \in SUBSET Trials, CancelRuns(S) PROVE FALSE
  <2>1. trial'[t] = trial[t] \/ trial'[t] = CancelledRow(trial[t])
    BY <1>9 DEF CancelRuns
  <2> QED
    BY <1>0, <2>1, CancelledRowFields
<1>10. ASSUME NEW u \in Trials, NEW n, NEW new \in Trials, CommitRetry(u, n, new)
       PROVE  FALSE
  <2>1. \/ trial'[t] = trial[t] \/ trial'[t] = NewTrialRow(n)
        \/ t = u /\ trial'[t] = SupersededRow(trial[u], new)
    BY <1>0, <1>10, Zenon DEF CommitRetry
  <2>2. SupersededRow(trial[t], new).status = "SUCCESS" => trial[t].status = "SUCCESS"
    BY <1>0 DEF SupersededRow, Shows, Released, Trial
  <2> QED
    BY <2>1, <2>2, NewRowsFields
<1> QED
  BY <1>1, <1>2, <1>3, <1>4, <1>5, <1>6, <1>7, <1>8, <1>9, <1>10, TrialStep
     DEF TrialAction

\* A trial turns SUCCESS only by the worker that holds its job and for the attempt the
\* trial row is on: whoever was reaped, cancelled or replaced publishes nothing.
THEOREM OnlyCurrentAttemptPublishes == ASSUME PromptStart PROVE Spec => CurrentAttemptPublishes
<1>1. TypeOK /\ RowInv /\ OutcomeInv /\ [Next]_vars =>
        [\A t \in Trials :
           trial[t].status # "SUCCESS" /\ trial'[t].status = "SUCCESS" =>
             \E w \in Workers : /\ At(w, "running") /\ worker[w].trial = t
                                /\ HoldsJob(w, t)
                                /\ worker[w].attempt = trial[t].attempts]_vars
  <2> SUFFICES ASSUME TypeOK, RowInv, OutcomeInv, [Next]_vars, NEW t \in Trials,
                      trial[t].status # "SUCCESS", trial'[t].status = "SUCCESS"
               PROVE  \E w \in Workers : /\ At(w, "running") /\ worker[w].trial = t
                                         /\ HoldsJob(w, t)
                                         /\ worker[w].attempt = trial[t].attempts
    OBVIOUS
  <2>1. PICK w \in Workers : worker[w].trial = t /\ (HarborEnd(w) \/ Settle(w))
    BY Publishers
  <2>2. OwnInv(w)
    BY DEF OutcomeInv
  <2>3. CASE HarborEnd(w)
    BY <2>1, <2>2, <2>3
       DEF HarborEnd, HearsHarbor, StillOwns, At, OwnInv, AttemptIsCurrent
  <2>4. CASE Settle(w)
    <3>1. /\ MayStore(w, t)
          /\ At(w, "running")
      <4>0. trial \in [Trials -> Trial] /\ trial[t] \in Trial
        BY DEF TypeOK
      <4>1. PICK result \in {"success", "terminal", "retryable"},
                 error \in {"none", "user", "other"} :
              /\ worker[w].pc \in {"prepared", "running"}
              /\ At(w, "prepared") => result # "success"
              /\ \/ /\ MayStore(w, t)
                    /\ trial' = [trial EXCEPT ![t] =
                         Released(Shows(trial[t], SettledStatus(t, result), error))]
                 \/ trial' = trial
        BY <2>1, <2>4, <4>0 DEF Settle, Trial
      <4>2. MayStore(w, t)
        BY <4>1
      <4> DEFINE shown == Shows(trial[t], SettledStatus(t, result), error)
                 row == Released(shown)
      <4>3. row.status = SettledStatus(t, result)
        <5>1. SettledStatus(t, result) \in {"SUCCESS", "FAILED", "RETRYING"}
          BY DEF SettledStatus
        <5>2. shown \in Trial /\ shown.status = SettledStatus(t, result)
          BY <4>0, <5>1, ShowsFields, ShowsTyped
        <5> HIDE DEF shown
        <5> QED
          BY <5>2, ReleasedFields
      <4>4. trial' = [trial EXCEPT ![t] = row]
        BY <4>1
      <4> HIDE DEF row
      <4>5. SettledStatus(t, result) = "SUCCESS"
        BY <4>0, <4>3, <4>4
      <4>6. result = "success"
        BY <4>5 DEF SettledStatus
      <4> QED
        BY <4>1, <4>2, <4>6 DEF At
    <3> QED
      BY <2>1, <3>1 DEF MayStore, StillOwns
  <2> QED
    BY <2>1, <2>3, <2>4
<1> QED
  BY <1>1, OutcomeInvariant, PTL DEF Spec, CurrentAttemptPublishes

-----------------------------------------------------------------------------
(* A finished trial is not started again.                                  *)

Late == {"prepared", "running"}

\* A trial gets its key with its first attempt, and a result without one only
\* from a cancel or a reap that closed its job.  A worker about to prepare an
\* attempt has seen the trial unfinished, and nobody but a cancel finishes it
\* until then.
FreshInv ==
  /\ \A w \in Workers : worker[w].pc \in Late => trial[worker[w].trial].keyed
  /\ \A t \in Trials :
       trial[t].status \in TerminalTrial /\ ~trial[t].keyed => job[t].status \in ClosedJob
  /\ \A w \in Workers :
       worker[w].pc = "checked" =>
         \/ trial[worker[w].trial].status \notin TerminalTrial
         \/ job[worker[w].trial].status = "CANCELLED"

\* How a trial may start: only by a preparation.
Starts(t) ==
  trial'[t].status = "RUNNING" =>
    \/ trial[t].status = "RUNNING"
    \/ \E w \in Workers : worker[w].trial = t /\ PrepareTrialRun(w)

\* How a trial may finish: by the worker that runs it and has its job, by a reap on
\* the last attempt, by a cancel, or when its job is closed already.
Finishes(t) ==
  trial'[t].status \in TerminalTrial =>
    \/ trial[t].status \in TerminalTrial
    \/ \E w \in Workers : worker[w].pc \in Late /\ worker[w].trial = t /\ HoldsJob(w, t)
    \/ Stale(t) /\ job'[t].status = "FAILED"
    \/ job'[t].status = "CANCELLED"
    \/ job[t].status \in ClosedJob /\ job'[t].status = job[t].status

KeepsKey(t) == trial[t].status # "none" /\ trial[t].keyed => trial'[t].keyed

ResultMoves(t) == Starts(t) /\ Finishes(t) /\ KeepsKey(t)

\* No write but a preparation touches the key.
LEMMA ShowsKeyed ==
  ASSUME NEW r \in Trial, NEW s, NEW e
  PROVE  Shows(r, s, e).keyed = r.keyed
<1> DEFINE q == [[r EXCEPT !.status = s] EXCEPT !.error = e]
           b == s \in TerminalTrial
<1>1. Shows(r, s, e) = [q EXCEPT !.finished = b]
  BY Zenon DEF Shows
<1>2. q.keyed = r.keyed /\ "keyed" \in DOMAIN q
  BY DEF Trial
<1>3. [q EXCEPT !.finished = b].keyed = q.keyed
  BY <1>2
<1> QED
  BY <1>1, <1>2, <1>3

LEMMA ReleasedKeyed ==
  ASSUME NEW r \in Trial PROVE Released(r).keyed = r.keyed
  BY DEF Trial, Released

LEMMA CancelledKeyed ==
  ASSUME NEW r \in Trial PROVE CancelledRow(r).keyed = r.keyed
<1> DEFINE q == [r EXCEPT !.stage = "cancelled", !.max = r.attempts]
<1>1. q \in Trial /\ q.keyed = r.keyed
  BY DEF Trial
<1> HIDE DEF q
<1>2. Shows(q, "FAILED", "user") \in Trial
  BY <1>1, ShowsTyped
<1>3. CancelledRow(r) = Released(Shows(q, "FAILED", "user"))
  BY Zenon DEF CancelledRow, q
<1> QED
  BY <1>1, <1>2, <1>3, ShowsKeyed, ReleasedKeyed

LEMMA SupersededKeyed ==
  ASSUME NEW r \in Trial, NEW u \in Trials
  PROVE  SupersededRow(r, u).keyed = r.keyed
<1> DEFINE q == [r EXCEPT !.next = u]
           e == IF r.error = "none" THEN "other" ELSE r.error
<1>1. q \in Trial /\ q.keyed = r.keyed /\ e \in {"none", "user", "other"}
  BY DEF Trial
<1> HIDE DEF q, e
<1>2. Shows(q, "FAILED", e) \in Trial
  BY <1>1, ShowsTyped
<1>3. Released(Shows(q, "FAILED", e)).keyed = r.keyed
  BY <1>1, <1>2, ShowsKeyed, ReleasedKeyed
<1> QED
  BY <1>1, <1>3 DEF SupersededRow, q, e

LEMMA EndedKeyed ==
  ASSUME NEW r \in Trial, NEW end \in {"reward", "timeout", "exception", "neither"}
  PROVE  /\ Ended(r, end).keyed = r.keyed
         /\ Ended(r, end).status \in {r.status} \cup TerminalTrial
<1> DEFINE q == [r EXCEPT !.stage = "completed"]
<1>1. q \in Trial /\ q.status = r.status /\ q.keyed = r.keyed
  BY DEF Trial
<1> HIDE DEF q
<1>2. \/ Ended(r, end) = q
      \/ \E s \in {"SUCCESS", "FAILED"}, e \in {"other", r.error} :
           Ended(r, end) = Shows(q, s, e)
  BY DEF Ended, q
<1> QED
  BY <1>1, <1>2, ShowsFields, ShowsKeyed DEF TerminalTrial

\* A row that is not written, or keeps its status and its key, does nothing here.
LEMMA Unmoved ==
  ASSUME NEW t \in Trials, trial'[t].status = trial[t].status,
         trial[t].keyed => trial'[t].keyed
  PROVE  ResultMoves(t)
  BY DEF ResultMoves, Starts, Finishes, KeepsKey

\* A row that is written so as to be neither started nor finished.
LEMMA Waiting ==
  ASSUME NEW t \in Trials, trial'[t].status \in {"none", "QUEUED", "RETRYING"},
         trial[t].status = "none" \/ (trial[t].keyed => trial'[t].keyed)
  PROVE  ResultMoves(t)
  BY DEF ResultMoves, Starts, Finishes, KeepsKey, TerminalTrial

\* What a worker writes to its trial.
LEMMA WorkerResult ==
  ASSUME TypeOK, NEW w \in Workers, NEW t \in Trials,
         \/ PrepareTrialRun(w) \/ HarborEnd(w) \/ HarborCancel(w) \/ Heartbeat(w)
         \/ Settle(w) \/ MarkTrialRetrying(w)
  PROVE  ResultMoves(t)
<1> DEFINE u == worker[w].trial
<1>0. /\ trial \in [Trials -> Trial] /\ trial[t] \in Trial /\ u \in Trials
      /\ trial[u] \in Trial
  BY DEF TypeOK, At, PrepareTrialRun, HarborEnd, HarborCancel, HearsHarbor, Heartbeat,
     TouchTrialExecution, HeartbeatWorkerJob, Settle, MarkTrialRetrying
<1>o. ASSUME NEW row, trial' = [trial EXCEPT ![u] = row], t # u PROVE ResultMoves(t)
  BY <1>0, <1>o, Unmoved
<1>k. ASSUME trial' = trial PROVE ResultMoves(t)
  BY <1>k, Unmoved
<1>1. CASE PrepareTrialRun(w)
  <2>1. CASE trial' = [trial EXCEPT ![u] = RunningRow(trial[u], w)] /\ t = u
    <3>1. trial'[t].status = "RUNNING" /\ trial'[t].keyed
      BY <1>0, <2>1 DEF RunningRow
    <3> QED
      BY <1>1, <2>1, <3>1 DEF ResultMoves, Starts, Finishes, KeepsKey, TerminalTrial
  <2> QED
    BY <1>1, <1>o, <1>k, <2>1 DEF PrepareTrialRun
<1>2. ASSUME NEW row, trial' = [trial EXCEPT ![u] = row], t = u,
             row.keyed = trial[t].keyed, row.status \in {trial[t].status} \cup TerminalTrial,
             worker[w].pc \in Late, HoldsJob(w, u)
      PROVE  ResultMoves(t)
  <2>1. trial'[t] = row
    BY <1>0, <1>2
  <2> QED
    BY <1>2, <2>1 DEF ResultMoves, Starts, Finishes, KeepsKey, TerminalTrial
<1>3. CASE HarborEnd(w) \/ HarborCancel(w)
  <2>1. worker[w].pc \in Late /\ HoldsJob(w, u)
    BY <1>3 DEF HarborEnd, HarborCancel, HearsHarbor, StillOwns, At, Late
  <2>2. CASE HarborEnd(w)
    <3>1. PICK end \in {"reward", "timeout", "exception", "neither"} :
            trial' = [trial EXCEPT ![u] = Ended(trial[u], end)]
      BY <2>2 DEF HarborEnd
    <3> QED
      BY <1>0, <1>2, <1>o, <2>1, <3>1, EndedKeyed
  <2>3. CASE HarborCancel(w)
    <3> DEFINE seen == [trial[u] EXCEPT !.stage = "cancelled"]
               row == Shows(seen, "FAILED", "other")
    <3>1. trial' = [trial EXCEPT ![u] = row]
      BY <2>3 DEF HarborCancel
    <3>2. seen \in Trial /\ seen.keyed = trial[u].keyed
      BY <1>0 DEF Trial
    <3>3. row.keyed = trial[u].keyed /\ row.status = "FAILED"
      <4> HIDE DEF seen
      <4> QED
        BY <3>2, ShowsFields, ShowsKeyed
    <3> HIDE DEF row
    <3> QED
      BY <1>2, <1>o, <2>1, <3>1, <3>3 DEF TerminalTrial
  <2> QED
    BY <1>3, <2>2, <2>3
<1>4. CASE Heartbeat(w)
  <2>1. trial' = trial \/ trial' = [trial EXCEPT ![u] = [trial[u] EXCEPT !.owner = w]]
    BY <1>4 DEF Heartbeat, TouchTrialExecution, HeartbeatWorkerJob
  <2>2. trial'[t].status = trial[t].status /\ trial'[t].keyed = trial[t].keyed
    BY <1>0, <2>1 DEF Trial
  <2> QED
    BY <2>2, Unmoved
<1>5. CASE Settle(w)
  <2>1. CASE ~MayStore(w, u)
    BY <1>5, <1>k, <2>1 DEF Settle
  <2>2. CASE MayStore(w, u)
    <3>1. worker[w].pc \in Late /\ HoldsJob(w, u)
      BY <1>5, <2>2 DEF Settle, MayStore, StillOwns, Late
    <3>2. PICK result \in {"success", "terminal", "retryable"},
               error \in {"none", "user", "other"} :
            trial' = [trial EXCEPT ![u] =
                        Released(Shows(trial[u], SettledStatus(u, result), error))]
      BY <1>0, <1>5, <2>2 DEF Settle, Trial
    <3> DEFINE s == SettledStatus(u, result)
               shown == Shows(trial[u], s, error)
               row == Released(shown)
    <3>3. s \in {"SUCCESS", "FAILED", "RETRYING"}
      BY DEF SettledStatus
    <3> HIDE DEF s
    <3>4. shown \in Trial /\ shown.status = s /\ shown.keyed = trial[u].keyed
      BY <1>0, <3>3, ShowsFields, ShowsTyped, ShowsKeyed
    <3> HIDE DEF shown
    <3>5. row.status = s /\ row.keyed = trial[u].keyed
      BY <3>4, ReleasedFields, ReleasedKeyed
    <3>6. trial' = [trial EXCEPT ![u] = row]
      BY <3>2 DEF s, shown
    <3> HIDE DEF row
    <3>7. CASE s = "RETRYING" /\ t = u
      BY <1>0, <3>5, <3>6, <3>7, Waiting
    <3>8. CASE s # "RETRYING" /\ t = u
      BY <1>2, <3>1, <3>3, <3>5, <3>6, <3>8 DEF TerminalTrial
    <3> QED
      BY <1>o, <3>6, <3>7, <3>8
  <2> QED
    BY <2>1, <2>2
<1>6. CASE MarkTrialRetrying(w)
  <2> DEFINE seen == [trial[u] EXCEPT !.status = "RETRYING", !.error = "other"]
             row == Released(seen)
  <2>1. trial' = [trial EXCEPT ![u] = row] \/ trial' = trial
    BY <1>6 DEF MarkTrialRetrying
  <2>2. seen \in Trial /\ seen.status = "RETRYING" /\ seen.keyed = trial[u].keyed
    BY <1>0 DEF Trial, ActiveTrial
  <2>3. row.status = "RETRYING" /\ row.keyed = trial[u].keyed
    <3> HIDE DEF seen
    <3> QED
      BY <2>2, ReleasedFields, ReleasedKeyed
  <2> HIDE DEF row
  <2>4. CASE trial' = [trial EXCEPT ![u] = row] /\ t = u
    BY <1>0, <2>3, <2>4, Waiting
  <2> QED
    BY <1>k, <1>o, <2>1, <2>4
<1> QED
  BY <1>1, <1>3, <1>4, <1>5, <1>6

\* What a step of the system does to the result of a trial.
LEMMA ResultStep ==
  ASSUME TypeOK, RowInv, [Next]_vars, NEW t \in Trials
  PROVE  ResultMoves(t)
<1>0. /\ job \in [Trials -> Job] /\ trial \in [Trials -> Trial]
      /\ job[t] \in Job /\ trial[t] \in Trial
      /\ trial[t].status = "none" <=> job[t].status = "none"
  BY DEF TypeOK, RowInv
<1>k. ASSUME trial'[t] = trial[t] PROVE ResultMoves(t)
  BY <1>k, Unmoved
<1>1. ASSUME NEW u \in Trials, Submit(u) PROVE ResultMoves(t)
  <2>1. CASE t = u
    <3>1. trial[t].status = "none" /\ trial'[t].status = "QUEUED"
      BY <1>0, <1>1, <2>1, NewRowsFields DEF Submit
    <3> QED
      BY <3>1, Waiting
  <2> QED
    BY <1>0, <1>1, <1>k, <2>1 DEF Submit
<1>2. ASSUME NEW u \in Trials, ReapStaleJob(u) PROVE ResultMoves(t)
  <2> DEFINE s == IF AttemptsLeft(u) THEN "RETRYING" ELSE "FAILED"
             seen == IF AttemptsLeft(u) \/ trial[u].stage = "completed" THEN trial[u]
                     ELSE [trial[u] EXCEPT !.stage = "cancelled"]
             shown == Shows(seen, s, "other")
             row == Released(shown)
             gone == Released([job[u] EXCEPT !.status = s])
  <2>1. /\ trial' = [trial EXCEPT ![u] = row] /\ job' = [job EXCEPT ![u] = gone]
        /\ Stale(u)
    BY <1>2, Zenon DEF ReapStaleJob
  <2>2. s \in {"RETRYING", "FAILED"}
    OBVIOUS
  <2>3. job[u] \in Job /\ trial[u] \in Trial
    BY DEF TypeOK
  <2>4. seen \in Trial /\ seen.keyed = trial[u].keyed
    BY <2>3 DEF Trial
  <2> HIDE DEF seen, s
  <2>5. shown \in Trial /\ shown.status = s /\ shown.keyed = trial[u].keyed
    BY <2>2, <2>4, ShowsFields, ShowsTyped, ShowsKeyed
  <2> HIDE DEF shown
  <2>6. row.status = s /\ row.keyed = trial[u].keyed
    BY <2>5, ReleasedFields, ReleasedKeyed
  <2>7. gone.status = s
    BY <2>3, JobRowFields
  <2> HIDE DEF row, gone
  <2>8. CASE t = u
    <3>1. trial'[t] = row /\ job'[t].status = s
      BY <1>0, <2>1, <2>7, <2>8
    <3> QED
      BY <2>1, <2>2, <2>6, <2>8, <3>1, Waiting
         DEF ResultMoves, Starts, Finishes, KeepsKey, TerminalTrial
  <2> QED
    BY <1>0, <1>k, <2>1, <2>8
<1>3. ASSUME NEW u \in Trials, ClearTerminalRefs(u) PROVE ResultMoves(t)
  <2>1. trial'[t].status = trial[t].status /\ trial'[t].keyed = trial[t].keyed
    BY <1>0, <1>3 DEF ClearTerminalRefs, Trial
  <2> QED
    BY <2>1, Unmoved
<1>4. ASSUME NEW S \in SUBSET Trials, CancelRuns(S) PROVE ResultMoves(t)
  <2> DEFINE hit == {u \in S : job[u].status \in ActiveJob}
             ended == hit \cup {u \in S : trial[u].status \in ActiveTrial}
  <2>1. /\ job'[t] = IF t \in hit THEN CancelledJob(job[t]) ELSE job[t]
        /\ trial'[t] = IF t \in ended THEN CancelledRow(trial[t]) ELSE trial[t]
    BY <1>4 DEF CancelRuns
  <2>2. CASE t \in ended
    <3>1. trial'[t].status = "FAILED" /\ trial'[t].keyed = trial[t].keyed
      BY <1>0, <2>1, <2>2, CancelledRowFields, CancelledKeyed
    <3>2. \/ job'[t].status = "CANCELLED"
          \/ job[t].status \in ClosedJob /\ job'[t] = job[t]
      <4>1. CASE t \in hit
        BY <1>0, <2>1, <4>1, CancelledJobFields
      <4>2. CASE t \notin hit
        <5>1. job[t].status \notin ActiveJob /\ trial[t].status \in ActiveTrial
          BY <2>2, <4>2
        <5>2. job[t].status # "none"
          BY <1>0, <5>1 DEF ActiveTrial
        <5> QED
          BY <1>0, <2>1, <4>2, <5>1, <5>2 DEF Job
      <4> QED
        BY <4>1, <4>2
    <3> QED
      BY <3>1, <3>2 DEF ResultMoves, Starts, Finishes, KeepsKey
  <2> QED
    BY <1>k, <2>1, <2>2
<1>5. ASSUME NEW u \in Trials, NEW n \in 0 .. MaxAttempts, NEW new \in Trials,
             CommitRetry(u, n, new)
      PROVE  ResultMoves(t)
  <2>1. /\ trial[new].status = "none" /\ job[u].status # "none"
        /\ job[new].status = "none" /\ u # new
    BY <1>5 DEF CommitRetry, RowInv
  <2>2. CASE t = new
    <3>1. trial'[t].status = "QUEUED" /\ trial[t].status = "none"
      BY <1>0, <1>5, <2>1, <2>2, NewRowsFields DEF CommitRetry
    <3> QED
      BY <3>1, Waiting
  <2>3. CASE t = u
    <3>1. /\ trial'[t] = SupersededRow(trial[t], new)
          /\ job'[t] = IF job[t].status \in ActiveJob THEN CancelledJob(job[t]) ELSE job[t]
      BY <1>0, <1>5, <2>1, <2>3 DEF CommitRetry
    <3>2. trial'[t].keyed = trial[t].keyed /\ trial'[t].status \in TerminalTrial
      BY <1>0, <3>1, SupersededKeyed, SupersededRowFields
    <3>3. \/ job'[t].status = "CANCELLED"
          \/ job[t].status \in ClosedJob /\ job'[t] = job[t]
      BY <1>0, <2>1, <2>3, <3>1, CancelledJobFields DEF Job
    <3> QED
      BY <3>2, <3>3 DEF ResultMoves, Starts, Finishes, KeepsKey, TerminalTrial
  <2>4. CASE t # u /\ t # new
    BY <1>0, <1>5, <1>k, <2>4 DEF CommitRetry
  <2> QED
    BY <2>2, <2>3, <2>4
<1>6. CASE UNCHANGED trial
  BY <1>6, <1>k
<1> QED
  BY <1>1, <1>2, <1>3, <1>4, <1>5, <1>6, WorkerResult, TrialStep DEF TrialAction

\* A worker comes to a step between its claim and the end of its attempt from the one
\* before.
LEMMA WorkerComes ==
  ASSUME TypeOK, [Next]_vars, NEW w \in Workers
  PROVE  /\ worker'[w].pc \in Late =>
              \/ worker[w].pc \in Late /\ worker'[w].trial = worker[w].trial
              \/ PrepareTrialRun(w) /\ trial'[worker'[w].trial].keyed
         /\ worker'[w].pc = "checked" =>
              /\ worker'[w].trial = worker[w].trial
              /\ \/ worker[w].pc = "checked"
                 \/ CheckIdempotency(w) /\ ~Finished(worker[w].trial)
<1> DEFINE Comes ==
      /\ worker'[w].pc \in Late =>
           \/ worker[w].pc \in Late /\ worker'[w].trial = worker[w].trial
           \/ PrepareTrialRun(w) /\ trial'[worker'[w].trial].keyed
      /\ worker'[w].pc = "checked" =>
           /\ worker'[w].trial = worker[w].trial
           /\ \/ worker[w].pc = "checked"
              \/ CheckIdempotency(w) /\ ~Finished(worker[w].trial)
<1>0. worker \in [Workers -> Worker] /\ trial \in [Trials -> Trial]
  BY DEF TypeOK
<1>1. ASSUME NEW v \in Workers, NEW row, worker' = [worker EXCEPT ![v] = row],
             v # w \/ row.pc \notin Late \cup {"checked"}
      PROVE  Comes
  BY <1>0, <1>1 DEF Late
<1>2. ASSUME NEW v \in Workers, CheckIdempotency(v) PROVE Comes
  BY <1>0, <1>2 DEF CheckIdempotency, Goto, Worker, Late
<1>3. ASSUME NEW v \in Workers, PrepareTrialRun(v) PROVE Comes
  <2> DEFINE t == worker[v].trial
  <2>0. t \in Trials
    BY <1>3 DEF TypeOK, PrepareTrialRun, At
  <2>1. CASE Goto(v, "handled")
    BY <1>0, <2>1 DEF Goto, Worker, Late
  <2>2. CASE /\ trial' = [trial EXCEPT ![t] = RunningRow(trial[t], v)]
             /\ worker' = [worker EXCEPT ![v] =
                  [worker[v] EXCEPT !.pc = "prepared", !.attempt = trial[t].attempts + 1]]
    <3>1. CASE v = w
      <4>1. worker'[w].pc = "prepared" /\ worker'[w].trial = t
        BY <1>0, <2>2, <3>1 DEF Worker
      <4>2. trial'[t].keyed
        BY <1>0, <2>0, <2>2 DEF RunningRow
      <4> QED
        BY <1>3, <3>1, <4>1, <4>2
    <3> QED
      BY <1>1, <2>2, <3>1
  <2> QED
    BY <1>3, <2>1, <2>2 DEF PrepareTrialRun
<1>4. ASSUME NEW v \in Workers, ClaimAttempt(v) PROVE Comes
  BY <1>0, <1>4 DEF ClaimAttempt, At, Goto, Worker, Late
<1>5. ASSUME NEW v \in Workers,
             \E pc \in {"hooks", "handled", "marking"} : Goto(v, pc)
      PROVE  Comes
  BY <1>0, <1>5 DEF Goto, Worker, Late
<1>6. ASSUME NEW v \in Workers, NEW o, Decide(v, o) PROVE Comes
  BY <1>0, <1>6 DEF Decide, Worker, Late
<1>7. ASSUME NEW v \in Workers, worker' = [worker EXCEPT ![v] = Idle] PROVE Comes
  BY <1>1, <1>7 DEF Idle, Late
<1>8. ASSUME UNCHANGED worker PROVE Comes
  BY <1>8 DEF Late
<1>9. ASSUME NEW v \in Workers, NEW t \in Trials, Claim(v, t) PROVE Comes
  BY <1>0, <1>9 DEF Claim, Late
<1>10. ASSUME NEW v \in Workers, Settle(v) \/ RunPostTrialHooks(v) \/ RecordOutcome(v)
       PROVE  Comes
  BY <1>5, <1>7, <1>10 DEF Settle, RunPostTrialHooks, RecordOutcome
<1>11. ASSUME NEW v \in Workers, HandlerOutcome(v) \/ HandlerRaises(v) PROVE Comes
  BY <1>6, <1>11 DEF HandlerOutcome, HandlerRaises
<1>12. ASSUME NEW v \in Workers, MarkTrialRetrying(v) \/ Crash(v) \/ Heartbeat(v)
       PROVE  Comes
  BY <1>7, <1>8, <1>12
     DEF MarkTrialRetrying, Crash, Heartbeat, TouchTrialExecution, HeartbeatWorkerJob
<1> QED
  BY <1>2, <1>3, <1>4, <1>8, <1>9, <1>10, <1>11, <1>12, WorkerMemoryStep DEF WorkerAction

\* A closed job stays as it was closed.
LEMMA ClosedStays ==
  ASSUME TypeOK, RowInv, [Next]_vars, NEW t \in Trials, job[t].status \in ClosedJob
  PROVE  job'[t].status = job[t].status
  BY JobRowStep DEF JobEffect, Claimable, Closes, ActiveJob, ClosedJob

\* Every step keeps what a worker about to start a trial knows.
LEMMA FreshStep ==
  ASSUME TypeOK, RowInv, OutcomeInv, FreshInv, [Next]_vars
  PROVE  FreshInv'
<1>0. /\ \A w \in Workers : worker[w].pc # "idle" =>
           /\ worker[w].trial \in Trials /\ trial[worker[w].trial].status # "none"
      /\ \A w \in Workers : EarlyHolds(w)
  BY DEF TypeOK, At, RowInv, OutcomeInv, OwnInv
<1>1. ASSUME NEW w \in Workers, worker'[w].pc \in Late PROVE trial'[worker'[w].trial].keyed
  <2>1. CASE worker[w].pc \in Late /\ worker'[w].trial = worker[w].trial
    <3>1. worker[w].trial \in Trials /\ trial[worker[w].trial].status # "none"
      BY <1>0, <2>1 DEF Late
    <3> QED
      BY <2>1, <3>1, ResultStep DEF FreshInv, ResultMoves, KeepsKey
  <2> QED
    BY <1>1, <2>1, WorkerComes
<1>2. ASSUME NEW t \in Trials, trial'[t].status \in TerminalTrial, ~trial'[t].keyed
      PROVE  job'[t].status \in ClosedJob
  <2>1. Finishes(t) /\ KeepsKey(t)
    BY ResultStep DEF ResultMoves
  <2>2. CASE trial[t].status \in TerminalTrial
    <3>1. ~trial[t].keyed
      BY <1>2, <2>1, <2>2 DEF KeepsKey, TerminalTrial
    <3> QED
      BY <2>2, <3>1, ClosedStays DEF FreshInv
  <2>3. ASSUME NEW w \in Workers, worker[w].pc \in Late, worker[w].trial = t PROVE FALSE
    BY <1>0, <1>2, <2>1, <2>3 DEF FreshInv, KeepsKey, Late
  <2> QED
    BY <1>2, <2>1, <2>2, <2>3 DEF Finishes, ClosedJob
<1>3. ASSUME NEW w \in Workers, worker'[w].pc = "checked",
             trial'[worker'[w].trial].status \in TerminalTrial
      PROVE  job'[worker'[w].trial].status = "CANCELLED"
  <2> DEFINE t == worker[w].trial
  <2>1. /\ worker'[w].trial = t /\ worker[w].pc \in {"claimed", "checked"}
        /\ worker[w].pc = "checked" \/ (CheckIdempotency(w) /\ ~Finished(t))
    BY <1>3, WorkerComes DEF CheckIdempotency, At
  <2>2. t \in Trials
    BY <1>0, <2>1
  <2>3. \/ HoldsJob(w, t) /\ job[t].beating
        \/ job[t].status = "CANCELLED"
    BY <1>0, <2>1 DEF EarlyHolds
  <2>4. job[t].status = "CANCELLED" => job'[t].status = "CANCELLED"
    BY <2>2, ClosedStays DEF ClosedJob
  <2>5. CASE CheckIdempotency(w) /\ ~Finished(t)
    <3>1. trial[t].status \in TerminalTrial /\ ~trial[t].keyed
      BY <1>3, <2>1, <2>5 DEF CheckIdempotency, Finished
    <3>2. job[t].status \in ClosedJob
      BY <2>2, <3>1 DEF FreshInv
    <3> QED
      BY <2>1, <2>3, <2>4, <3>2 DEF HoldsJob, ClosedJob
  <2>6. CASE worker[w].pc = "checked"
    <3>1. CASE trial[t].status \in TerminalTrial
      BY <2>1, <2>4, <2>6, <3>1 DEF FreshInv
    <3>2. CASE trial[t].status \notin TerminalTrial /\ HoldsJob(w, t) /\ job[t].beating
      <4>1. Finishes(t)
        BY <2>2, ResultStep DEF ResultMoves
      <4>2. \A v \in Workers : worker[v].pc \in Late => ~HoldsJob(v, t)
        BY <2>6, <3>2 DEF HoldsJob, Late
      <4>3. ~Stale(t) /\ job[t].status \notin ClosedJob
        BY <3>2 DEF Stale, HoldsJob, ClosedJob
      <4> QED
        BY <1>3, <2>1, <3>2, <4>1, <4>2, <4>3 DEF Finishes
    <3> QED
      BY <2>1, <2>3, <2>4, <3>1, <3>2
  <2> QED
    BY <2>1, <2>5, <2>6
<1> QED
  BY <1>1, <1>2, <1>3 DEF FreshInv

\* A trial that has its result is started again only by a worker whose job was cancelled
\* under it: a job that was put back without its trial finds the result.
THEOREM FinishedStaysFinished == ASSUME PromptStart PROVE Spec => FinishedNotRerun
<1>1. Init => FreshInv
  BY DEF Init, FreshInv, NoTrialRow, Idle, Late, TerminalTrial
<1>2. TypeOK /\ RowInv /\ OutcomeInv /\ FreshInv /\ [Next]_vars => FreshInv'
  BY FreshStep
<1>3. TypeOK /\ RowInv /\ FreshInv /\ [Next]_vars =>
        [\A t \in Trials :
           trial[t].status \in TerminalTrial /\ trial'[t].status = "RUNNING" =>
             job[t].status = "CANCELLED"]_vars
  <2> SUFFICES ASSUME TypeOK, RowInv, FreshInv, [Next]_vars, NEW t \in Trials,
                      trial[t].status \in TerminalTrial, trial'[t].status = "RUNNING"
               PROVE  job[t].status = "CANCELLED"
    OBVIOUS
  <2>1. PICK w \in Workers : worker[w].trial = t /\ PrepareTrialRun(w)
    BY ResultStep DEF ResultMoves, Starts, TerminalTrial
  <2> QED
    BY <2>1 DEF FreshInv, PrepareTrialRun, At
<1> QED
  BY <1>1, <1>2, <1>3, OutcomeInvariant, PTL DEF Spec, FinishedNotRerun
=============================================================================
