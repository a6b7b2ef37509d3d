------------------------ MODULE SandboxLedger_proofs ------------------------
(***************************************************************************)
(* What holds of SandboxLedger for every set of jobs, workers and slots    *)
(* and every budget: sandboxes never outnumber the leases that stand for   *)
(* them, a closed run has no sandbox, a worker that has its job has its    *)
(* lease, and a rerouted job waits for its teardown.                       *)
(*                                                                         *)
(* The argument has three layers.  Memory: a run belongs to one worker,    *)
(* for good, and a job that is RUNNING for an attempt is in the hands of   *)
(* the worker that remembers this attempt.  Ledger: what a worker or sweep *)
(* at some step, and the row of a run, say of the sandbox.  Leases: a run  *)
(* that stands for a sandbox keeps the lease of its worker.                *)
(***************************************************************************)
EXTENDS SandboxLedger, FiniteSetTheorems, TLAPS

Up == {"requested", "alive"}

\* Workers that took a job, whatever became of it.
Took(w) == worker[w].job # NoJob

Busy == {"claimed", "launching", "waiting", "operating", "closing", "stopping",
         "stopped", "unhandled", "outcome"}

-----------------------------------------------------------------------------
(* Memory.                                                                 *)

WorkerKnows(w) ==
  /\ worker[w].pc = "off" => worker[w].slot = NoSlot
  /\ worker[w].pc = "leased" => worker[w].slot \in Slots
  /\ worker[w].pc \in Busy => Took(w)
  /\ worker[w].pc \in {"off", "leased"} => ~Took(w)
  /\ worker[w].miss => Took(w)
  /\ Took(w) => /\ worker[w].slot \in Slots
                /\ worker[w].attempt \in Attempts
                /\ worker[w].attempt <= job[worker[w].job].attempts

OneWorkerPerRun ==
  \A v, w \in Workers : Took(v) /\ RunOf(v) = RunOf(w) => v = w

CurrentIsOwned ==
  \A w \in Workers : Took(w) /\ Current(RunOf(w)) => job[worker[w].job].by = w

Memory == (\A w \in Workers : WorkerKnows(w)) /\ OneWorkerPerRun /\ CurrentIsOwned

-----------------------------------------------------------------------------
(* Ledger.                                                                 *)

\* What a run's row, and the sweep, say of its sandbox.
RowTells(r) ==
  /\ run[r].state = "NONE" => ~run[r].handle /\ sandbox[r] = "none"
  /\ run[r].handle => sandbox[r] \in {"alive", "gone"}
  /\ run[r].state = "FAILED" => run[r].handle
  /\ run[r].state = "TERMINATED" => sandbox[r] \notin Up
  /\ sweep[r] # "no" => run[r].handle
  /\ sweep[r] = "stopped" => sandbox[r] = "gone"

RunHasWorker ==
  \A r \in Runs : run[r].state # "NONE" => \E w \in Workers : Took(w) /\ RunOf(w) = r

\* What the step a worker is at says of its run.
PlaceTells(w) ==
  LET r == RunOf(w) IN
  /\ worker[w].pc = "claimed" => run[r].state = "NONE"
  /\ worker[w].pc = "launching" => run[r].state = "PROVISIONING" /\ sandbox[r] = "none"
  /\ worker[w].pc \in {"waiting", "operating", "closing", "stopping", "stopped", "unhandled"}
       => run[r].state # "NONE"
  /\ worker[w].pc \in {"operating", "stopping"} => run[r].handle
  /\ worker[w].pc = "stopped" => sandbox[r] = "gone" /\ run[r].handle
  /\ worker[w].pc = "unhandled" =>
       run[r].state \in {"TERMINATING", "TERMINATED"} \/ run[r].handle
  /\ worker[w].miss => run[r].handle \/ sandbox[r] = "refused"

Ledger == /\ \A r \in Runs : RowTells(r)
          /\ RunHasWorker
          /\ \A w \in Workers : PlaceTells(w)

-----------------------------------------------------------------------------
(* Leases and handoffs.                                                    *)

HasLease(w) ==
  lease[worker[w].slot].by = w /\ lease[worker[w].slot].job = worker[w].job

RunKeepsLease == \A w \in Workers : Took(w) /\ ActiveRun(RunOf(w)) => HasLease(w)

\* The newest run of a rerouted job is closed, or the job waits for it.
Handed(j) ==
  job[j].lane = "default" =>
    \E a \in Attempts :
      /\ run[<<j, a>>].state # "NONE"
      /\ \A b \in Attempts : b > a => run[<<j, b>>].state = "NONE"
      /\ ~job[j].pending => run[<<j, a>>].state = "TERMINATED"
      /\ job[j].pending => a = job[j].attempts /\ job[j].status # "RUNNING"

LedgerInv == /\ TypeOK /\ Memory /\ Ledger
             /\ RunnerKeepsLease /\ RunKeepsLease
             /\ \A j \in Jobs : Handed(j)
-----------------------------------------------------------------------------
(* Types.                                                                  *)

\* Replacing one entry by one of the same kind keeps a function's type.
LEMMA UpdateTyped ==
  ASSUME NEW D, NEW R, NEW f \in [D -> R], NEW d, NEW r, d \in D => r \in R
  PROVE  [f EXCEPT ![d] = r] \in [D -> R]
  OBVIOUS

\* What TypeOK asks of the row of a job.
JobOK(row) ==
  /\ row \in Job
  /\ row.lane = "thunder" =>
       /\ row.attempts <= MaxAttempts /\ ~row.pending
       /\ row.status \in {"QUEUED", "RETRYING"} => row.attempts < MaxAttempts

\* The table of jobs is well formed when every row is.
LEMMA JobsTyped ==
  ASSUME NEW f, f = [j \in Jobs |-> f[j]], \A j \in Jobs : JobOK(f[j])
  PROVE  /\ f \in [Jobs -> Job]
         /\ \A j \in Jobs : f[j].lane = "thunder" =>
              /\ f[j].attempts <= MaxAttempts /\ ~f[j].pending
              /\ f[j].status \in {"QUEUED", "RETRYING"} => f[j].attempts < MaxAttempts
  BY DEF JobOK

\* Moving a worker on keeps the type of its memory.
LEMMA GotoTyped ==
  ASSUME TypeOK, NEW w \in Workers, NEW p,
         p \in {"claimed", "launching", "waiting", "operating", "closing", "stopping",
                "stopped", "unhandled", "outcome", "leaving", "done"},
         Goto(w, p)
  PROVE  worker' \in [Workers -> Worker]
<1>1. [worker[w] EXCEPT !.pc = p] \in Worker
  BY DEF TypeOK, Worker
<1>2. worker' = [worker EXCEPT ![w] = [worker[w] EXCEPT !.pc = p]]
  BY DEF Goto
<1> QED
  BY <1>1, <1>2, UpdateTyped DEF TypeOK

\* A statement on the state of one run keeps the ledger's type.
LEMMA RunTyped ==
  ASSUME TypeOK, NEW r \in Runs
  PROVE  /\ Terminating(r) \in [Runs -> Run]
         /\ Failed(r) \in [Runs -> Run]
         /\ Terminated(r) \in [Runs -> Run]
         /\ LateHandle(r) \in [Runs -> Run]
<1>1. run \in [Runs -> Run] /\ run[r] \in Run
  BY DEF TypeOK
<1>2. \A p \in {"PROVISIONING", "RUNNING", "TERMINATING", "TERMINATED", "FAILED"}, h \in BOOLEAN :
        [run[r] EXCEPT !.state = p, !.handle = h] \in Run
  BY <1>1 DEF Run
<1> QED
  BY <1>1 DEF Terminating, Failed, Terminated, LateHandle, Run

\* Rows put back, or closed, stay well formed.
LEMMA PutBackTyped ==
  ASSUME NEW row, JobOK(row)
  PROVE  /\ JobOK(PutBack(row))
         /\ JobOK([PutBack(row) EXCEPT !.by = NoOne])
         /\ JobOK([row EXCEPT !.status = "OVER"])
         /\ JobOK([row EXCEPT !.status = "OVER", !.by = NoOne])
  BY ConstantsAssumption DEF JobOK, PutBack, Job

\* A lease row names a worker and a job or nothing.
LEMMA LeaseRowTyped ==
  ASSUME NEW b \in Workers \cup {NoOne}, NEW j \in Jobs \cup {NoJob}, NEW l \in BOOLEAN
  PROVE  [by |-> b, job |-> j, live |-> l] \in Lease /\ Unlocked \in Lease
  BY DEF Lease, Unlocked

\* Freeing or renewing leases keeps the table's type.
LEMMA LeasesTyped ==
  ASSUME TypeOK, NEW f, f = [s \in Slots |-> f[s]],
         \A s \in Slots : \/ f[s] \in {lease[s], Unlocked}
                          \/ f[s] = [lease[s] EXCEPT !.live = TRUE]
  PROVE  f \in [Slots -> Lease]
<1>1. \A s \in Slots : lease[s] \in Lease /\ [lease[s] EXCEPT !.live = TRUE] \in Lease
  BY DEF TypeOK, Lease
<1>2. Unlocked \in Lease
  BY DEF Lease, Unlocked
<1> QED
  BY <1>1, <1>2

\* The first states are well typed.
LEMMA InitTyped == Init => TypeOK
<1> USE ConstantsAssumption
<1> SUFFICES ASSUME Init PROVE TypeOK
  OBVIOUS
<1>1. job \in [Jobs -> Job]
  BY DEF Init, Job
<1>2. \A j \in Jobs : job[j].lane = "thunder" =>
       /\ job[j].attempts <= MaxAttempts /\ ~job[j].pending
       /\ job[j].status \in {"QUEUED", "RETRYING"} => job[j].attempts < MaxAttempts
  BY DEF Init
<1>3. run \in [Runs -> Run]
  BY DEF Init, Run
<1>4. lease \in [Slots -> Lease]
  BY DEF Init, Lease, Unlocked
<1>5. worker \in [Workers -> Worker]
  BY DEF Init, Worker
<1>6. sandbox \in [Runs -> Sandbox] /\ sweep \in [Runs -> SweepStep]
  BY DEF Init, Sandbox, SweepStep
<1> QED
  BY <1>1, <1>2, <1>3, <1>4, <1>5, <1>6 DEF TypeOK

\* The run of a worker that took a job is a row of the ledger.
LEMMA RunOfTyped ==
  ASSUME TypeOK, NEW w \in Workers, WorkerKnows(w), Took(w)
  PROVE  /\ worker[w].job \in Jobs /\ worker[w].attempt \in Attempts
         /\ RunOf(w) \in Runs /\ RunOf(w)[1] = worker[w].job
         /\ RunOf(w)[2] = worker[w].attempt
         /\ run[RunOf(w)] \in Run /\ sandbox[RunOf(w)] \in Sandbox
<1>1. worker[w].job \in Jobs /\ worker[w].attempt \in Attempts
  BY DEF TypeOK, Worker, Took, WorkerKnows
<1> QED
  BY <1>1 DEF RunOf, Runs, TypeOK

\* The row of a job that is claimed, on either lane.
LEMMA ClaimTyped ==
  ASSUME NEW row, JobOK(row), NEW b \in Workers \cup {Elsewhere},
         row.attempts <= MaxAttempts,
         row.lane = "thunder" => row.attempts < MaxAttempts
  PROVE  JobOK([row EXCEPT !.status = "RUNNING", !.by = b, !.attempts = @ + 1])
<1> DEFINE new == [row EXCEPT !.status = "RUNNING", !.by = b, !.attempts = row.attempts + 1]
<1>1. row \in Job /\ row.attempts + 1 \in 0 .. MaxAttempts + 1
  BY ConstantsAssumption DEF JobOK, Job
<1>2. new \in Job
  BY <1>1 DEF Job
<1>3. /\ new.lane = row.lane /\ new.status = "RUNNING" /\ new.pending = row.pending
      /\ new.attempts = row.attempts + 1
  BY <1>1 DEF Job
<1>4. row.lane = "thunder" => row.attempts + 1 <= MaxAttempts
  BY <1>1, ConstantsAssumption DEF Job
<1> QED
  BY <1>2, <1>3, <1>4 DEF JobOK

\* The row of a job that is rerouted.
LEMMA RerouteTyped ==
  ASSUME NEW row, JobOK(row), NEW p \in BOOLEAN
  PROVE  JobOK([row EXCEPT !.status = "RETRYING", !.by = NoOne, !.lane = "default",
                           !.pending = p, !.handle = p])
  BY ConstantsAssumption DEF JobOK, Job

\* The row of a job that is linked to its sandbox.
LEMMA HandleTyped ==
  ASSUME NEW row, JobOK(row)
  PROVE  JobOK([row EXCEPT !.handle = TRUE])
<1> DEFINE new == [row EXCEPT !.handle = TRUE]
<1>1. row \in Job /\ new \in Job
  BY DEF JobOK, Job
<1>2. /\ new.lane = row.lane /\ new.status = row.status /\ new.pending = row.pending
      /\ new.attempts = row.attempts
  BY <1>1 DEF Job
<1> QED
  BY <1>1, <1>2 DEF JobOK

\* A step of a worker keeps the types.
LEMMA TypeWorker ==
  ASSUME TypeOK, \A v \in Workers : WorkerKnows(v),
         NEW w \in Workers, WorkerStep(w) \/ Heartbeat(w) \/ Crash(w)
  PROVE  TypeOK'
<1> USE ConstantsAssumption
<1> DEFINE r == RunOf(w)
<1>0. /\ job \in [Jobs -> Job] /\ run \in [Runs -> Run] /\ lease \in [Slots -> Lease]
      /\ sandbox \in [Runs -> Sandbox] /\ worker \in [Workers -> Worker]
      /\ worker[w] \in Worker /\ WorkerKnows(w)
      /\ \A j \in Jobs : JobOK(job[j])
  BY DEF TypeOK, JobOK
<1>1. CASE Acquire(w)
  <2>1. lease' \in [Slots -> Lease]
    <3>1. \A b \in {w} : [by |-> b, job |-> NoJob, live |-> TRUE] \in Lease
      BY LeaseRowTyped
    <3> QED
      BY <1>1, <1>0, <3>1 DEF Acquire
  <2>2. worker' \in [Workers -> Worker]
    <3>1. \A s \in Slots : [worker[w] EXCEPT !.pc = "leased", !.slot = s] \in Worker
      BY <1>0 DEF Worker
    <3>2. ASSUME NEW s \in Slots, worker' = [worker EXCEPT ![w].pc = "leased", ![w].slot = s]
          PROVE  worker' \in [Workers -> Worker]
      BY <3>1, <3>2, <1>0
    <3> QED
      BY <1>1, <3>2, GotoTyped DEF Acquire
  <2> QED
    BY <1>1, <2>1, <2>2 DEF Acquire, TypeOK
<1>2. CASE Claim(w)
  <2>1. ASSUME NEW j \in Jobs, HoldsCapacity(w), Claimable(j, "thunder"),
               job' = [job EXCEPT ![j].status = "RUNNING", ![j].by = w,
                                  ![j].attempts = @ + 1],
               lease' = [lease EXCEPT ![worker[w].slot].job = j,
                                      ![worker[w].slot].live = TRUE],
               worker' = [worker EXCEPT ![w].pc = "claimed", ![w].job = j,
                                        ![w].attempt = job[j].attempts + 1],
               UNCHANGED <<run, sandbox, sweep>>
        PROVE  TypeOK'
    <3>1. JobOK(job[j]) /\ job[j].attempts < MaxAttempts /\ job[j].attempts \in Nat
      BY <2>1, <1>0 DEF Claimable, JobOK, Job
    <3>2. JobOK([job[j] EXCEPT !.status = "RUNNING", !.by = w, !.attempts = @ + 1])
      <4>1. job[j].attempts <= MaxAttempts /\ w \in Workers \cup {Elsewhere}
        BY <3>1
      <4> QED
        BY <3>1, <4>1, ClaimTyped
    <3>3. \A i \in Jobs : JobOK(job'[i])
      BY <2>1, <1>0, <3>2
    <3>4. lease' \in [Slots -> Lease]
      <4>1. worker[w].slot \in Slots => 
              [lease[worker[w].slot] EXCEPT !.job = j, !.live = TRUE] \in Lease
        <5> SUFFICES ASSUME NEW l \in Lease
                     PROVE  [l EXCEPT !.job = j, !.live = TRUE] \in Lease
          BY <1>0
        <5> QED
          BY DEF Lease
      <4> QED
        BY <4>1, <2>1, <1>0
    <3>5. worker' \in [Workers -> Worker]
      <4>1. job[j].attempts + 1 \in 0 .. MaxAttempts
        BY <3>1
      <4>2. [worker[w] EXCEPT !.pc = "claimed", !.job = j,
                              !.attempt = job[j].attempts + 1] \in Worker
        BY <1>0, <4>1 DEF Worker
      <4> QED
        BY <4>2, <2>1, <1>0
    <3>6. job' \in [Jobs -> Job]
      BY <2>1, <3>3, <1>0 DEF JobOK
    <3> QED
      BY <3>3, <3>4, <3>5, <3>6, <2>1 DEF TypeOK, JobOK
  <2>2. CASE Goto(w, "leaving") /\ UNCHANGED <<job, lease, run, sandbox, sweep>>
    BY <2>2, GotoTyped DEF TypeOK
  <2> QED
    BY <1>2, <2>1, <2>2 DEF Claim
<1>3. CASE Leave(w)
  <2>1. Released(w) \in [Slots -> Lease]
    BY LeasesTyped DEF Released
  <2> QED
    BY <1>3, <2>1, GotoTyped DEF Leave, TypeOK
<1>4. CASE CreateRun(w)
  <2>1. run' \in [Runs -> Run]
    <3>1. r \in Runs => [run[r] EXCEPT !.state = "PROVISIONING"] \in Run
      BY <1>0 DEF Run
    <3> QED
      BY <1>4, <1>0, <3>1 DEF CreateRun
  <2> QED
    BY <1>4, <2>1, GotoTyped DEF CreateRun, TypeOK
<1>5. CASE RequestSandbox(w)
  <2>1. sandbox' \in [Runs -> Sandbox]
    BY <1>5, <1>0, UpdateTyped DEF RequestSandbox, Sandbox
  <2> QED
    BY <1>5, <2>1, GotoTyped DEF RequestSandbox, TypeOK, rows
<1>6. CASE MarkProvisioned(w)
  <2>1. r \in Runs
    BY <1>6, <1>0, RunOfTyped DEF MarkProvisioned, At, WorkerKnows, Busy
  <2>2. run' \in [Runs -> Run]
    <3>1. [state |-> "RUNNING", handle |-> TRUE] \in Run
      BY DEF Run
    <3>2. [run EXCEPT ![r] = [state |-> "RUNNING", handle |-> TRUE]] \in [Runs -> Run]
      BY <3>1, <1>0, UpdateTyped
    <3>3. LateHandle(r) \in [Runs -> Run]
      BY <2>1, RunTyped
    <3> QED
      BY <1>6, <3>2, <3>3, <1>0 DEF MarkProvisioned
  <2>3. job' \in [Jobs -> Job] /\ \A i \in Jobs : JobOK(job'[i])
    <3>1. r[1] \in Jobs
      BY <2>1 DEF Runs
    <3>2. JobOK([job[r[1]] EXCEPT !.handle = TRUE])
      BY <3>1, <1>0, HandleTyped
    <3>3. job' = job \/ job' = [job EXCEPT ![r[1]] = [job[r[1]] EXCEPT !.handle = TRUE]]
      BY <1>6 DEF MarkProvisioned
    <3>4. \A i \in Jobs : JobOK(job'[i])
      BY <3>1, <3>2, <3>3, <1>0
    <3> QED
      BY <3>3, <3>4, <1>0 DEF JobOK
  <2> QED
    BY <1>6, <2>2, <2>3, GotoTyped DEF MarkProvisioned, TypeOK, JobOK
<1>7. CASE EndExecution(w)
  <2>1. \A m \in BOOLEAN : [worker[w] EXCEPT !.pc = "closing", !.miss = m] \in Worker
    BY <1>0 DEF Worker
  <2>2. worker' \in [Workers -> Worker]
    BY <1>7, <2>1, <1>0 DEF EndExecution
  <2> QED
    BY <1>7, <2>2 DEF EndExecution, TypeOK, rows
<1>8. CASE RequestTermination(w)
  <2>1. r \in Runs
    BY <1>8, <1>0, RunOfTyped DEF RequestTermination, At, WorkerKnows, Busy
  <2> QED
    BY <1>8, <2>1, GotoTyped, RunTyped DEF RequestTermination, TypeOK
<1>9. CASE Teardown(w)
  <2>1. Stop(r) \in [Runs -> Sandbox]
    BY <1>0 DEF Stop, Sandbox
  <2> QED
    BY <1>9, <2>1, GotoTyped DEF Teardown, TypeOK, rows
<1>10. CASE MarkTerminated(w)
  <2>1. r \in Runs
    BY <1>10, <1>0, RunOfTyped DEF MarkTerminated, At, WorkerKnows, Busy
  <2> QED
    BY <1>10, <2>1, GotoTyped, RunTyped DEF MarkTerminated, TypeOK
<1>11. CASE MarkFailed(w)
  <2>1. r \in Runs
    BY <1>11, <1>0, RunOfTyped DEF MarkFailed, At, WorkerKnows, Busy
  <2> QED
    BY <1>11, <2>1, GotoTyped, RunTyped DEF MarkFailed, TypeOK
<1>12. CASE RecordOutcome(w)
  <2>1. worker[w].job \in Jobs
    BY <1>12, <1>0, RunOfTyped DEF RecordOutcome, At, WorkerKnows, Busy
  <2>2. \A row \in {PutBack(job[worker[w].job]),
                    [job[worker[w].job] EXCEPT !.status = "OVER"]} : JobOK(row)
    <3>1. JobOK(job[worker[w].job])
      BY <2>1, <1>0
    <3>2. JobOK(PutBack(job[worker[w].job]))
      BY <3>1, PutBackTyped
    <3>3. JobOK([job[worker[w].job] EXCEPT !.status = "OVER"])
      BY <3>1, PutBackTyped
    <3> QED
      BY <3>2, <3>3
  <2>3. \A i \in Jobs : JobOK(job'[i])
    BY <1>12, <2>2, <1>0 DEF RecordOutcome
  <2>4. job' \in [Jobs -> Job]
    BY <1>12, <2>3, <1>0 DEF RecordOutcome, JobOK
  <2> QED
    BY <1>12, <2>3, <2>4, GotoTyped DEF RecordOutcome, TypeOK, JobOK
<1>13. CASE Reroute(w)
  <2>1. worker[w].job \in Jobs /\ r \in Runs /\ r[1] = worker[w].job
    BY <1>13, <1>0, RunOfTyped DEF Reroute, At, WorkerKnows, Busy
  <2>2. TeardownPending(r) \in BOOLEAN
    BY <1>0, <2>1 DEF TeardownPending
  <2>3. JobOK([job[r[1]] EXCEPT !.status = "RETRYING", !.by = NoOne, !.lane = "default",
                 !.pending = TeardownPending(r), !.handle = TeardownPending(r)])
    BY <1>0, <2>1, <2>2, RerouteTyped
  <2>4. \A i \in Jobs : JobOK(job'[i])
    BY <1>13, <2>1, <2>3, <1>0 DEF Reroute
  <2>5. job' \in [Jobs -> Job]
    BY <1>13, <2>4, <1>0 DEF Reroute, JobOK
  <2>6. lease' \in [Slots -> Lease]
    <3>1. lease' = [s \in Slots |-> lease'[s]] /\ \A s \in Slots : lease'[s] \in {lease[s], Unlocked}
      BY <1>13, <1>0 DEF Reroute
    <3> QED
      BY <3>1, LeasesTyped
  <2>7. run' \in [Runs -> Run]
    BY <1>13, <1>0, <2>1, RunTyped DEF Reroute
  <2> QED
    BY <1>13, <2>4, <2>5, <2>6, <2>7, GotoTyped DEF Reroute, TypeOK, JobOK
<1>14. CASE RejectReroute(w)
  BY <1>14, GotoTyped DEF RejectReroute, TypeOK, rows
<1>15. CASE Heartbeat(w)
  <2>1. lease' = [s \in Slots |-> lease'[s]]
        /\ \A s \in Slots : lease'[s] \in {lease[s], Unlocked}
                            \/ lease'[s] = [lease[s] EXCEPT !.live = TRUE]
    BY <1>15 DEF Heartbeat
  <2> QED
    BY <1>15, <2>1, LeasesTyped DEF Heartbeat, TypeOK
<1>16. CASE Crash(w)
  BY <1>16, GotoTyped DEF Crash, TypeOK, rows
<1> QED
  BY <1>1, <1>2, <1>3, <1>4, <1>5, <1>6, <1>7, <1>8, <1>9, <1>10, <1>11, <1>12, <1>13,
     <1>14, <1>15, <1>16 DEF WorkerStep

\* What the sweep's transaction makes of the rows, under names of its own.
SweepJobs(inventory, S) ==
  IF inventory THEN RecoveredJobs(Reaped(S)) ELSE Reaped(S)

SweepRuns(inventory, S) ==
  IF inventory THEN RecoveredRuns(Reaped(S)) ELSE run

\* The rows the sweep's transaction works on are well formed: reaping closes or
\* returns a row and the inventory only links it.
LEMMA SweepRowsTyped ==
  ASSUME TypeOK, NEW inventory \in BOOLEAN, NEW S \in SUBSET RunningJobs
  PROVE  /\ \A j \in Jobs : JobOK(SweepJobs(inventory, S)[j])
         /\ SweepRuns(inventory, S) \in [Runs -> Run]
<1>0. (\A j \in Jobs : JobOK(job[j])) /\ run \in [Runs -> Run]
  BY DEF TypeOK, JobOK
<1>1. \A j \in Jobs : JobOK(Reaped(S)[j])
  <2> TAKE j \in Jobs
  <2>1. JobOK([PutBack(job[j]) EXCEPT !.by = NoOne])
    BY <1>0, PutBackTyped
  <2> QED
    BY <1>0, <2>1 DEF Reaped
<1>2. \A j \in Jobs : JobOK(RecoveredJobs(Reaped(S))[j])
  <2> TAKE j \in Jobs
  <2>1. JobOK([Reaped(S)[j] EXCEPT !.handle = TRUE])
    BY <1>1, HandleTyped
  <2> QED
    BY <1>1, <2>1 DEF RecoveredJobs
<1>3. RecoveredRuns(Reaped(S)) \in [Runs -> Run]
  BY <1>0 DEF RecoveredRuns, Run
<1> QED
  BY <1>0, <1>1, <1>2, <1>3 DEF SweepJobs, SweepRuns

\* A handoff that completes leaves well-formed rows.
LEMMA HandedOffTyped ==
  ASSUME NEW jobs, NEW runs, \A j \in Jobs : JobOK(jobs[j])
  PROVE  \A j \in Jobs : JobOK(HandedOff(jobs, runs)[j])
<1> SUFFICES ASSUME NEW j \in Jobs PROVE JobOK(HandedOff(jobs, runs)[j])
  OBVIOUS
<1> DEFINE new == [jobs[j] EXCEPT !.pending = FALSE, !.handle = FALSE]
<1>1. JobOK(new)
  <2>1. jobs[j] \in Job /\ new \in Job
    BY DEF JobOK, Job
  <2>2. /\ new.lane = jobs[j].lane /\ new.status = jobs[j].status /\ new.pending = FALSE
        /\ new.attempts = jobs[j].attempts
    BY <2>1 DEF Job
  <2> QED
    BY <2>1, <2>2 DEF JobOK
<1> QED
  BY <1>1 DEF HandedOff

\* A step of the sweep, the provider, the other lane or a user keeps the types.
LEMMA TypeOthers ==
  ASSUME TypeOK, [Next]_vars,
         \A w \in Workers : ~(WorkerStep(w) \/ Heartbeat(w) \/ Crash(w))
  PROVE  TypeOK'
<1> USE ConstantsAssumption
<1>0. /\ job \in [Jobs -> Job] /\ run \in [Runs -> Run] /\ lease \in [Slots -> Lease]
      /\ sandbox \in [Runs -> Sandbox] /\ worker \in [Workers -> Worker]
      /\ sweep \in [Runs -> SweepStep]
      /\ \A j \in Jobs : JobOK(job[j])
  BY DEF TypeOK, JobOK
<1>1. ASSUME NEW r \in Runs, ProviderAnswers(r) \/ ProviderStops(r) PROVE TypeOK'
  <2>1. sandbox' \in [Runs -> Sandbox]
    BY <1>1, <1>0 DEF ProviderAnswers, ProviderStops, Sandbox
  <2> QED
    BY <1>1, <2>1 DEF ProviderAnswers, ProviderStops, TypeOK, rows
<1>2. ASSUME NEW r \in Runs, SweepRequest(r) PROVE TypeOK'
  <2>1. sweep' \in [Runs -> SweepStep]
    BY <1>2, <1>0 DEF SweepRequest, SweepStep
  <2> QED
    BY <1>2, <2>1, RunTyped DEF SweepRequest, TypeOK
<1>3. ASSUME NEW r \in Runs, NEW ok \in BOOLEAN, SweepTeardown(r, ok) PROVE TypeOK'
  <2>1. sweep' \in [Runs -> SweepStep]
    BY <1>3, <1>0 DEF SweepTeardown, SweepStep
  <2>2. sandbox' \in [Runs -> Sandbox]
    BY <1>3, <1>0 DEF SweepTeardown, Stop, Sandbox
  <2> QED
    BY <1>3, <2>1, <2>2 DEF SweepTeardown, TypeOK, rows
<1>4. ASSUME NEW r \in Runs, SweepMark(r) PROVE TypeOK'
  <2>1. sweep' \in [Runs -> SweepStep]
    BY <1>4, <1>0 DEF SweepMark, SweepStep
  <2> QED
    BY <1>4, <2>1, RunTyped DEF SweepMark, TypeOK
<1>5. ASSUME NEW j \in Jobs, ClaimElsewhere(j) PROVE TypeOK'
  <2> DEFINE new == [job[j] EXCEPT !.status = "RUNNING", !.by = Elsewhere, !.attempts = @ + 1]
  <2>1. JobOK(new)
    <3>1. job[j].attempts <= MaxAttempts /\ job[j].lane = "default"
      BY <1>5 DEF ClaimElsewhere, Claimable
    <3> QED
      BY <3>1, <1>0, ClaimTyped
  <2>2. job' = [job EXCEPT ![j] = new]
    BY <1>5 DEF ClaimElsewhere
  <2>3. \A i \in Jobs : JobOK(job'[i])
    BY <2>1, <2>2, <1>0
  <2>4. job' \in [Jobs -> Job]
    BY <2>1, <2>2, <1>0 DEF JobOK
  <2> QED
    BY <1>5, <2>3, <2>4 DEF ClaimElsewhere, TypeOK, JobOK
<1>6. ASSUME NEW j \in Jobs, FinishElsewhere(j) \/ Cancel(j) PROVE TypeOK'
  <2>1. PICK new : job' = [job EXCEPT ![j] = new] /\ JobOK(new)
    <3>1. JobOK(job[j])
      BY <1>0
    <3>2. JobOK([job[j] EXCEPT !.status = "OVER"])
      BY <3>1, PutBackTyped
    <3>3. JobOK([job[j] EXCEPT !.status = "OVER", !.by = NoOne])
      BY <3>1, PutBackTyped
    <3>4. \/ job' = [job EXCEPT ![j] = [job[j] EXCEPT !.status = "OVER"]]
          \/ job' = [job EXCEPT ![j] = [job[j] EXCEPT !.status = "OVER", !.by = NoOne]]
      BY <1>6 DEF FinishElsewhere, Cancel
    <3> QED
      BY <3>2, <3>3, <3>4
  <2>2. (\A i \in Jobs : JobOK(job'[i])) /\ job' \in [Jobs -> Job]
    BY <2>1, <1>0 DEF JobOK
  <2> QED
    BY <1>6, <2>2 DEF FinishElsewhere, Cancel, TypeOK, JobOK
<1>7. ASSUME NEW inventory \in BOOLEAN, NEW S \in SUBSET RunningJobs, NEW F \in SUBSET Runs,
             SweepTransaction(inventory, S, F)
      PROVE  TypeOK'
  <2> DEFINE jobs2 == SweepJobs(inventory, S)
             runs1 == SweepRuns(inventory, S)
  <2>1. /\ job' = HandedOff(jobs2, runs1) /\ lease' = HandoffLeases(jobs2, runs1)
        /\ run' = [r \in Runs |-> IF r \in F THEN [runs1[r] EXCEPT !.state = "TERMINATED"]
                                  ELSE runs1[r]]
        /\ sweep' = [r \in Runs |-> IF Orphaned(jobs2, runs1, r) THEN "listed" ELSE "no"]
        /\ UNCHANGED <<sandbox, worker>>
    BY <1>7 DEF SweepTransaction, SweepJobs, SweepRuns
  <2>2. (\A j \in Jobs : JobOK(jobs2[j])) /\ runs1 \in [Runs -> Run]
    BY SweepRowsTyped
  <2> HIDE DEF jobs2, runs1
  <2>3. \A j \in Jobs : JobOK(job'[j])
    BY <2>1, <2>2, HandedOffTyped
  <2>4. job' = [j \in Jobs |-> job'[j]]
    BY <2>1 DEF HandedOff
  <2>5. job' \in [Jobs -> Job]
    BY <2>3, <2>4 DEF JobOK
  <2>6. run' \in [Runs -> Run]
    BY <2>1, <2>2 DEF Run
  <2>7. lease' \in [Slots -> Lease]
    <3>1. lease' = [s \in Slots |-> lease'[s]] /\ \A s \in Slots : lease'[s] \in {lease[s], Unlocked}
      BY <2>1 DEF HandoffLeases
    <3> QED
      BY <3>1, LeasesTyped
  <2>8. sweep' \in [Runs -> SweepStep]
    BY <2>1 DEF SweepStep
  <2> QED
    BY <2>1, <2>3, <2>5, <2>6, <2>7, <2>8 DEF TypeOK, JobOK
<1>8. CASE SweepHandoffs
  <2>1. \A j \in Jobs : JobOK(job'[j])
    BY <1>8, <1>0, HandedOffTyped DEF SweepHandoffs
  <2>2. job' = [j \in Jobs |-> job'[j]]
    BY <1>8 DEF SweepHandoffs, HandedOff
  <2>3. job' \in [Jobs -> Job]
    BY <2>1, <2>2 DEF JobOK
  <2>4. lease' \in [Slots -> Lease]
    <3>1. lease' = [s \in Slots |-> lease'[s]] /\ \A s \in Slots : lease'[s] \in {lease[s], Unlocked}
      BY <1>8 DEF SweepHandoffs, HandoffLeases
    <3> QED
      BY <3>1, LeasesTyped
  <2> QED
    BY <1>8, <2>1, <2>3, <2>4 DEF SweepHandoffs, TypeOK, JobOK
<1>9. CASE SweepCrash
  BY <1>9 DEF SweepCrash, TypeOK, SweepStep, rows
<1>10. ASSUME NEW s \in Slots, ExpireLease(s) PROVE TypeOK'
  <2>1. lease' \in [Slots -> Lease]
    <3>1. \A l \in Lease : [l EXCEPT !.live = FALSE] \in Lease
      BY DEF Lease
    <3> QED
      BY <1>10, <1>0, <3>1 DEF ExpireLease
  <2> QED
    BY <1>10, <2>1 DEF ExpireLease, TypeOK
<1>11. ASSUME NEW aged, CleanupLeases(aged) PROVE TypeOK'
  <2>1. lease' = [s \in Slots |-> lease'[s]] /\ \A s \in Slots : lease'[s] \in {lease[s], Unlocked}
    BY <1>11 DEF CleanupLeases
  <2>2. lease' \in [Slots -> Lease]
    BY <2>1, LeasesTyped
  <2> QED
    BY <1>11, <2>2 DEF CleanupLeases, TypeOK
<1>12. CASE UNCHANGED vars
  BY <1>12 DEF vars, TypeOK
<1> QED
  BY <1>1, <1>2, <1>3, <1>4, <1>5, <1>6, <1>7, <1>8, <1>9, <1>10, <1>11, <1>12
  DEF Next, SweepStepOf

-----------------------------------------------------------------------------
(* What the steps do, layer by layer.                                      *)

\* A step that takes no slot and no job leaves what the workers remember, and moves
\* them forward only.
WorkersMove ==
  \A w \in Workers :
    /\ worker'[w].slot = worker[w].slot
    /\ worker'[w].job = worker[w].job
    /\ worker'[w].attempt = worker[w].attempt
    /\ worker'[w].pc # worker[w].pc => worker'[w].pc \notin {"off", "leased"}
    /\ worker'[w].pc \in Busy => worker[w].pc \in Busy
    /\ worker[w].pc \in {"leaving", "done"} => worker'[w].pc \in {"leaving", "done"}
    /\ worker'[w].miss # worker[w].miss => worker[w].pc \in Busy /\ worker'[w].pc \in Busy

\* A step that claims no job starts no attempt and gives no job to another worker.
JobsStay ==
  \A j \in Jobs :
    /\ job'[j].attempts = job[j].attempts
    /\ job'[j].status = "RUNNING" => job[j].status = "RUNNING" /\ job'[j].by = job[j].by

\* Moving a worker that has its slot on.
LEMMA GotoMoves ==
  ASSUME TypeOK, NEW w \in Workers, NEW p \in Busy \cup {"leaving", "done"}, Goto(w, p),
         worker[w].pc # "off",
         p \in Busy => worker[w].pc \in Busy,
         worker[w].pc \in {"leaving", "done"} => p = "done"
  PROVE  WorkersMove
  BY DEF TypeOK, Worker, Goto, WorkersMove, Busy

\* Every step of a worker but these two moves it on.
LEMMA WorkerMoves ==
  ASSUME TypeOK, NEW w \in Workers, WorkerStep(w) \/ Heartbeat(w) \/ Crash(w), ~Claim(w)
  PROVE  WorkersMove \/ Acquire(w)
<1>0. worker \in [Workers -> Worker]
  BY DEF TypeOK
<1>1. CASE Leave(w) \/ Crash(w)
  BY <1>1, GotoMoves DEF Leave, Crash, At, Busy
<1>2. CASE CreateRun(w) \/ RequestSandbox(w)
  BY <1>2, GotoMoves DEF CreateRun, RequestSandbox, At, Busy
<1>3. CASE MarkProvisioned(w)
  BY <1>3, GotoMoves DEF MarkProvisioned, At, Busy
<1>4. CASE EndExecution(w)
  BY <1>4, <1>0 DEF EndExecution, WorkersMove, Busy, Worker
<1>5. CASE RequestTermination(w) \/ Teardown(w)
  BY <1>5, GotoMoves DEF RequestTermination, Teardown, At, Busy
<1>6. CASE MarkTerminated(w) \/ MarkFailed(w)
  BY <1>6, GotoMoves DEF MarkTerminated, MarkFailed, At, Busy
<1>7. CASE RecordOutcome(w)
  BY <1>7, GotoMoves DEF RecordOutcome, At, Busy
<1>8. CASE Reroute(w) \/ RejectReroute(w)
  BY <1>8, GotoMoves DEF Reroute, RejectReroute, At, Busy
<1>9. CASE Heartbeat(w)
  BY <1>9 DEF Heartbeat, WorkersMove, Busy
<1> QED
  BY <1>1, <1>2, <1>3, <1>4, <1>5, <1>6, <1>7, <1>8, <1>9 DEF WorkerStep

\* Rows put back, reaped, linked or handed off are not taken by anybody.
LEMMA SweepKeepsAttempts ==
  ASSUME TypeOK, NEW inventory \in BOOLEAN, NEW S \in SUBSET RunningJobs,
         NEW j \in Jobs
  PROVE  LET new == SweepJobs(inventory, S)[j] IN
         /\ new.attempts = job[j].attempts /\ new.lane = job[j].lane
         /\ new.pending = job[j].pending
         /\ new.status = "RUNNING" => job[j].status = "RUNNING" /\ new.by = job[j].by
<1>1. job[j] \in Job
  BY DEF TypeOK
<1>2. LET new == Reaped(S)[j] IN
      /\ new \in Job
      /\ new.attempts = job[j].attempts /\ new.lane = job[j].lane
      /\ new.pending = job[j].pending
      /\ new.status = "RUNNING" => job[j].status = "RUNNING" /\ new.by = job[j].by
  BY <1>1, ConstantsAssumption DEF Reaped, PutBack, Job
<1>3. LET new == RecoveredJobs(Reaped(S))[j] old == Reaped(S)[j] IN
      /\ new.attempts = old.attempts /\ new.lane = old.lane
      /\ new.pending = old.pending /\ new.status = old.status /\ new.by = old.by
  BY <1>2 DEF RecoveredJobs, Job
<1> QED
  BY <1>2, <1>3 DEF SweepJobs

\* Completing handoffs changes a row only where a handoff is ready, and only its link.
LEMMA HandedOffKeeps ==
  ASSUME NEW jobs, NEW runs, NEW j \in Jobs, JobOK(jobs[j])
  PROVE  LET new == HandedOff(jobs, runs)[j] IN
         /\ new.attempts = jobs[j].attempts /\ new.lane = jobs[j].lane
         /\ new.status = jobs[j].status /\ new.by = jobs[j].by
         /\ new.pending # jobs[j].pending => HandoffReady(jobs, runs, j) /\ ~new.pending
<1>1. jobs[j] \in Job
  BY DEF JobOK
<1> QED
  BY <1>1 DEF HandedOff, Job

\* Every step but the two claims leaves the jobs with whom they are.
LEMMA JobsStayStep ==
  ASSUME TypeOK, \A w \in Workers : WorkerKnows(w), [Next]_vars,
         \A w \in Workers : ~Claim(w), \A j \in Jobs : ~ClaimElsewhere(j)
  PROVE  JobsStay
<1>0. job \in [Jobs -> Job] /\ \A j \in Jobs : JobOK(job[j])
  BY DEF TypeOK, JobOK
<1>1. CASE UNCHANGED job
  BY <1>1 DEF JobsStay
<1>2. ASSUME NEW w \in Workers, MarkProvisioned(w) PROVE JobsStay
  BY <1>2, <1>0 DEF MarkProvisioned, JobsStay, Job
<1>3. ASSUME NEW w \in Workers, RecordOutcome(w) PROVE JobsStay
  <2>1. \A row \in Job : /\ PutBack(row).attempts = row.attempts
                         /\ PutBack(row).status # "RUNNING"
    BY DEF PutBack, Job
  <2> QED
    BY <1>3, <2>1, <1>0 DEF RecordOutcome, JobsStay, Job
<1>4. ASSUME NEW w \in Workers, Reroute(w) PROVE JobsStay
  <2>1. PICK p : job' = [job EXCEPT ![RunOf(w)[1]] =
                           [job[RunOf(w)[1]] EXCEPT !.status = "RETRYING", !.by = NoOne,
                              !.lane = "default", !.pending = p, !.handle = p]]
    BY <1>4 DEF Reroute
  <2> QED
    BY <2>1, <1>0 DEF JobsStay, Job
<1>5. ASSUME NEW j \in Jobs, FinishElsewhere(j) \/ Cancel(j) PROVE JobsStay
  BY <1>5, <1>0 DEF FinishElsewhere, Cancel, JobsStay, Job
<1>6. ASSUME NEW inventory \in BOOLEAN, NEW S \in SUBSET RunningJobs, NEW F \in SUBSET Runs,
             SweepTransaction(inventory, S, F)
      PROVE  JobsStay
  <2> DEFINE jobs2 == SweepJobs(inventory, S)
             runs1 == SweepRuns(inventory, S)
  <2>1. job' = HandedOff(jobs2, runs1)
    BY <1>6 DEF SweepTransaction, SweepJobs, SweepRuns
  <2>2. \A j \in Jobs : JobOK(jobs2[j])
    BY SweepRowsTyped
  <2>3. \A j \in Jobs :
          /\ jobs2[j].attempts = job[j].attempts
          /\ jobs2[j].status = "RUNNING" => job[j].status = "RUNNING" /\ jobs2[j].by = job[j].by
    BY SweepKeepsAttempts
  <2> HIDE DEF jobs2, runs1
  <2> QED
    BY <2>1, <2>2, <2>3, HandedOffKeeps DEF JobsStay
<1>7. CASE SweepHandoffs
  BY <1>7, <1>0, HandedOffKeeps DEF SweepHandoffs, JobsStay
<1>8. ASSUME NEW w \in Workers, WorkerStep(w) \/ Heartbeat(w) \/ Crash(w) PROVE JobsStay
  <2>1. CASE Acquire(w) \/ Leave(w) \/ CreateRun(w) \/ RequestSandbox(w) \/ EndExecution(w)
    BY <2>1, <1>1 DEF Acquire, Leave, CreateRun, RequestSandbox, EndExecution, rows
  <2>2. CASE RequestTermination(w) \/ Teardown(w) \/ MarkTerminated(w) \/ MarkFailed(w)
    BY <2>2, <1>1 DEF RequestTermination, Teardown, MarkTerminated, MarkFailed, rows
  <2>3. CASE RejectReroute(w) \/ Heartbeat(w) \/ Crash(w)
    BY <2>3, <1>1 DEF RejectReroute, Heartbeat, Crash, rows
  <2> QED
    BY <1>8, <1>2, <1>3, <1>4, <2>1, <2>2, <2>3 DEF WorkerStep
<1>9. ASSUME NEW r \in Runs, ProviderAnswers(r) \/ ProviderStops(r) \/ SweepStepOf(r)
      PROVE  JobsStay
  BY <1>9, <1>1 DEF ProviderAnswers, ProviderStops, SweepStepOf, SweepRequest, SweepTeardown,
     SweepMark, rows
<1>10. ASSUME NEW s \in Slots, ExpireLease(s) PROVE JobsStay
  BY <1>10, <1>1 DEF ExpireLease
<1>11. ASSUME NEW aged, CleanupLeases(aged) PROVE JobsStay
  BY <1>11, <1>1 DEF CleanupLeases
<1>12. CASE SweepCrash \/ UNCHANGED vars
  BY <1>12, <1>1 DEF SweepCrash, rows, vars
<1> QED
  BY <1>5, <1>6, <1>7, <1>8, <1>9, <1>10, <1>11, <1>12 DEF Next

\* A step of the sweep, the provider, the other lane or a user leaves the workers.
LEMMA OthersLeaveWorkers ==
  ASSUME [Next]_vars, \A w \in Workers : ~(WorkerStep(w) \/ Heartbeat(w) \/ Crash(w))
  PROVE  UNCHANGED worker
  BY DEF Next, SweepStepOf, ProviderAnswers, ProviderStops, SweepRequest, SweepTeardown,
     SweepMark, ClaimElsewhere, FinishElsewhere, Cancel, SweepTransaction, SweepHandoffs,
     SweepCrash, ExpireLease, CleanupLeases, vars, rows

-----------------------------------------------------------------------------
(* Memory is kept.                                                         *)

\* What a claim on the other lane does to the row of the job.
LEMMA ElsewhereEffect ==
  ASSUME TypeOK, NEW j \in Jobs, ClaimElsewhere(j)
  PROVE  /\ job'[j].attempts = job[j].attempts + 1
         /\ job'[j].status = "RUNNING" /\ job'[j].by = Elsewhere
         /\ job'[j].lane = job[j].lane /\ job'[j].pending = job[j].pending
         /\ job[j].lane = "default" /\ ~job[j].pending
         /\ \A k \in Jobs \ {j} : job'[k] = job[k]
<1>1. job \in [Jobs -> Job] /\ job[j] \in Job
  BY DEF TypeOK
<1> QED
  BY <1>1 DEF ClaimElsewhere, Claimable, Job

\* A step that moves workers on, and claims nothing, keeps what they know.
LEMMA MemoryKept ==
  ASSUME TypeOK, Memory, WorkersMove,
         JobsStay \/ \E j \in Jobs : ClaimElsewhere(j)
  PROVE  Memory'
<1>0. /\ \A w \in Workers : WorkerKnows(w)
      /\ OneWorkerPerRun /\ CurrentIsOwned
  BY DEF Memory
<1>1. \A w \in Workers : Took(w)' = Took(w) /\ RunOf(w)' = RunOf(w)
  BY DEF WorkersMove, Took, RunOf
<1>2. \A w \in Workers : Took(w) =>
        /\ worker[w].job \in Jobs /\ worker[w].attempt \in Attempts
        /\ RunOf(w)[1] = worker[w].job /\ RunOf(w)[2] = worker[w].attempt
  BY <1>0, RunOfTyped
<1>3. \A j \in Jobs :
        /\ job[j].attempts \in Nat /\ job'[j].attempts \in Nat
        /\ job'[j].attempts >= job[j].attempts
        /\ job'[j].status = "RUNNING" =>
             \/ job'[j].attempts > job[j].attempts
             \/ /\ job'[j].attempts = job[j].attempts
                /\ job[j].status = "RUNNING" /\ job'[j].by = job[j].by
  <2>1. job \in [Jobs -> Job] /\ \A j \in Jobs : job[j].attempts \in Nat
    BY DEF TypeOK, Job
  <2>2. CASE JobsStay
    BY <2>1, <2>2 DEF JobsStay
  <2>3. CASE \E i \in Jobs : ClaimElsewhere(i)
    <3>1. PICK i \in Jobs : ClaimElsewhere(i)
      BY <2>3
    <3>2. job'[i].attempts = job[i].attempts + 1 /\ \A k \in Jobs \ {i} : job'[k] = job[k]
      BY <3>1, ElsewhereEffect
    <3>3. \A k \in Jobs : job'[k].attempts \in Nat
      BY <2>1, <3>2
    <3> QED
      BY <2>1, <3>2, <3>3
  <2> QED
    BY <2>2, <2>3
<1>4. \A w \in Workers : WorkerKnows(w)'
  <2> SUFFICES ASSUME NEW w \in Workers PROVE WorkerKnows(w)'
    OBVIOUS
  <2>1. WorkerKnows(w)
    BY <1>0
  <2>2. Took(w) => worker[w].attempt \in Nat /\ worker[w].attempt <= job'[worker[w].job].attempts
    BY <2>1, <1>2, <1>3 DEF WorkerKnows, Attempts
  <2> QED
    BY <2>1, <2>2, <1>1 DEF WorkersMove, WorkerKnows, Took, Busy
<1>5. OneWorkerPerRun'
  BY <1>0, <1>1 DEF OneWorkerPerRun
<1>6. CurrentIsOwned'
  <2> SUFFICES ASSUME NEW w \in Workers, Took(w), Current(RunOf(w))'
               PROVE  job'[worker[w].job].by = w
    BY <1>1 DEF CurrentIsOwned, WorkersMove
  <2> DEFINE j == worker[w].job
  <2>1. /\ j \in Jobs /\ worker[w].attempt \in Nat
        /\ worker[w].attempt <= job[j].attempts
    BY <1>0, <1>2 DEF WorkerKnows, Attempts
  <2>2. job'[j].status = "RUNNING" /\ job'[j].attempts = worker[w].attempt
    BY <1>1, <1>2 DEF Current
  <2>3. /\ job'[j].attempts = job[j].attempts
        /\ job[j].status = "RUNNING" /\ job'[j].by = job[j].by
    BY <2>1, <2>2, <1>3
  <2>4. Current(RunOf(w))
    BY <2>2, <2>3, <1>2 DEF Current
  <2> QED
    BY <2>3, <2>4, <1>0 DEF CurrentIsOwned
<1> QED
  BY <1>4, <1>5, <1>6 DEF Memory

\* A worker that takes a slot has no job yet.
LEMMA MemoryAcquire ==
  ASSUME TypeOK, Memory, NEW w \in Workers, Acquire(w)
  PROVE  Memory'
<1>0. /\ \A v \in Workers : WorkerKnows(v)
      /\ OneWorkerPerRun /\ CurrentIsOwned
      /\ worker \in [Workers -> Worker]
  BY DEF Memory, TypeOK
<1>1. /\ \A v \in Workers : Took(v)' = Took(v) /\ RunOf(v)' = RunOf(v)
      /\ UNCHANGED job
  BY <1>0 DEF Acquire, Goto, Took, RunOf, Worker
<1>2. \A v \in Workers : WorkerKnows(v)'
  <2>1. WorkerKnows(w)'
    <3>1. worker[w] \in Worker /\ worker[w].pc = "off" /\ ~Took(w) /\ ~worker[w].miss
      BY <1>0 DEF Acquire, At, WorkerKnows
    <3>2. /\ worker'[w].job = worker[w].job /\ worker'[w].miss = worker[w].miss
          /\ \/ worker'[w].pc = "leased" /\ worker'[w].slot \in Slots
             \/ worker'[w].pc = "done"
      BY <3>1, <1>0 DEF Acquire, Goto, Worker
    <3> QED
      BY <3>1, <3>2, <1>1 DEF WorkerKnows, Busy
  <2>2. \A v \in Workers \ {w} : worker'[v] = worker[v]
    BY <1>0 DEF Acquire, Goto
  <2> QED
    BY <1>0, <1>1, <2>1, <2>2 DEF WorkerKnows, Took
<1>3. OneWorkerPerRun'
  BY <1>0, <1>1 DEF OneWorkerPerRun
<1>4. CurrentIsOwned'
  <2>1. \A v \in Workers : worker'[v].job = worker[v].job
    BY <1>0 DEF Acquire, Goto, Worker
  <2> QED
    BY <1>0, <1>1, <2>1 DEF CurrentIsOwned, Current
<1> QED
  BY <1>2, <1>3, <1>4 DEF Memory

\* The claim of a job in full: what the worker had before, and has after.
Claims(w, j) ==
  /\ At(w, "leased") /\ HoldsCapacity(w) /\ Claimable(j, "thunder")
  /\ job' = [job EXCEPT ![j].status = "RUNNING", ![j].by = w, ![j].attempts = @ + 1]
  /\ lease' = [lease EXCEPT ![worker[w].slot].job = j, ![worker[w].slot].live = TRUE]
  /\ worker' = [worker EXCEPT ![w].pc = "claimed", ![w].job = j,
                              ![w].attempt = job[j].attempts + 1]
  /\ UNCHANGED <<run, sandbox, sweep>>

\* A worker that claims takes a job, or moves on and changes no row.
LEMMA ClaimSplit ==
  ASSUME TypeOK, NEW w \in Workers, Claim(w)
  PROVE  \/ \E j \in Jobs : Claims(w, j)
         \/ WorkersMove /\ UNCHANGED <<job, run, lease, sandbox, sweep>>
<1>1. CASE Goto(w, "leaving") /\ UNCHANGED <<job, lease>>
  BY <1>1, GotoMoves DEF Claim, At, Busy
<1> QED
  BY <1>1 DEF Claim, Claims

\* The claim is of a worker whose lease is its own.
LEMMA ClaimHolds ==
  ASSUME NEW w \in Workers, NEW j \in Jobs, Claims(w, j)
  PROVE  lease[worker[w].slot].by = w
<1>1. HoldsCapacity(w)
  BY DEF Claims
<1> QED
  BY <1>1 DEF HoldsCapacity

\* What a claim writes, of the job and of the worker.
LEMMA ClaimEffect ==
  ASSUME TypeOK, Memory, NEW w \in Workers, NEW j \in Jobs, Claims(w, j)
  PROVE  /\ worker[w].slot \in Slots /\ ~Took(w) /\ ~worker[w].miss
         /\ job[j].attempts \in Nat /\ job[j].attempts + 1 \in Attempts
         /\ job'[j].attempts = job[j].attempts + 1
         /\ job'[j].status = "RUNNING" /\ job'[j].by = w /\ job'[j].lane = job[j].lane
         /\ job'[j].pending = job[j].pending
         /\ \A i \in Jobs \ {j} : job'[i] = job[i]
         /\ worker'[w].slot = worker[w].slot /\ worker'[w].job = j
         /\ worker'[w].attempt = job[j].attempts + 1
         /\ worker'[w].pc = "claimed" /\ ~worker'[w].miss
         /\ \A v \in Workers \ {w} : worker'[v] = worker[v]
<1>0. /\ worker \in [Workers -> Worker] /\ worker[w] \in Worker
      /\ job \in [Jobs -> Job] /\ job[j] \in Job /\ WorkerKnows(w)
  BY DEF TypeOK, Memory
<1>1. worker[w].slot \in Slots /\ ~Took(w) /\ ~worker[w].miss
  BY <1>0 DEF Claims, At, WorkerKnows
<1>2. job[j].attempts \in Nat /\ job[j].attempts + 1 \in Attempts
  <2>1. job[j].attempts \in Nat
    BY <1>0 DEF Job
  <2>2. job[j].attempts < MaxAttempts
    BY DEF Claims, Claimable, TypeOK
  <2> QED
    BY <2>1, <2>2, ConstantsAssumption DEF Attempts
<1>3. /\ job'[j].attempts = job[j].attempts + 1
      /\ job'[j].status = "RUNNING" /\ job'[j].by = w /\ job'[j].lane = job[j].lane
      /\ job'[j].pending = job[j].pending
      /\ \A i \in Jobs \ {j} : job'[i] = job[i]
  BY <1>0 DEF Claims, Job
<1>4. /\ worker'[w].slot = worker[w].slot /\ worker'[w].job = j
      /\ worker'[w].attempt = job[j].attempts + 1
      /\ worker'[w].pc = "claimed" /\ worker'[w].miss = worker[w].miss
      /\ \A v \in Workers \ {w} : worker'[v] = worker[v]
  BY <1>0 DEF Claims, Worker
<1> QED
  BY <1>1, <1>2, <1>3, <1>4

\* The attempt a claim starts is one no worker remembers.
LEMMA MemoryClaim ==
  ASSUME TypeOK, Memory, NEW w \in Workers, NEW j \in Jobs, Claims(w, j)
  PROVE  Memory'
<1> DEFINE n == job[j].attempts + 1
<1>0. /\ \A v \in Workers : WorkerKnows(v)
      /\ OneWorkerPerRun /\ CurrentIsOwned
  BY DEF Memory
<1>1. /\ n \in Nat /\ n \in Attempts /\ j # NoJob
      /\ worker'[w].job = j /\ worker'[w].attempt = n /\ worker'[w].pc = "claimed"
      /\ worker'[w].slot \in Slots
      /\ job'[j].attempts = n /\ job'[j].by = w
      /\ \A v \in Workers \ {w} : worker'[v] = worker[v]
      /\ \A i \in Jobs \ {j} : job'[i] = job[i]
  BY ClaimEffect, ConstantsAssumption
<1>2. \A v \in Workers \ {w} : Took(v) =>
        /\ worker[v].job \in Jobs
        /\ worker[v].attempt \in Nat
        /\ worker[v].attempt <= job[worker[v].job].attempts
        /\ worker[v].job = j => worker[v].attempt < n
        /\ RunOf(v)[1] = worker[v].job /\ RunOf(v)[2] = worker[v].attempt
  <2> TAKE v \in Workers \ {w}
  <2> HAVE Took(v)
  <2>1. WorkerKnows(v) /\ worker[v].job \in Jobs
        /\ RunOf(v)[1] = worker[v].job /\ RunOf(v)[2] = worker[v].attempt
    BY <1>0, RunOfTyped
  <2>2. job[worker[v].job].attempts \in Nat
    BY <2>1 DEF TypeOK, Job
  <2> QED
    BY <2>1, <2>2 DEF WorkerKnows, Attempts
<1>3. /\ Took(w)' /\ RunOf(w)' = <<j, n>>
      /\ \A v \in Workers \ {w} : Took(v)' = Took(v) /\ RunOf(v)' = RunOf(v)
  BY <1>1 DEF Took, RunOf
<1>4. \A v \in Workers : WorkerKnows(v)'
  <2>1. WorkerKnows(w)'
    BY <1>1, <1>3 DEF WorkerKnows
  <2>2. ASSUME NEW v \in Workers \ {w} PROVE WorkerKnows(v)'
    <3>1. Took(v) => worker[v].attempt <= job'[worker[v].job].attempts
      BY <1>1, <1>2
    <3> QED
      BY <3>1, <1>0, <1>1, <1>3 DEF WorkerKnows
  <2> QED
    BY <2>1, <2>2
<1>5. OneWorkerPerRun'
  <2>1. \A v \in Workers \ {w} : Took(v) => RunOf(v) # <<j, n>>
    BY <1>1, <1>2 DEF RunOf
  <2>2. ASSUME NEW u \in Workers, NEW v \in Workers, Took(u)', RunOf(u)' = RunOf(v)'
        PROVE  u = v
    <3>1. CASE u = w
      <4>1. v # w => RunOf(v) = <<j, n>> /\ worker[v].job = j
        BY <2>2, <3>1, <1>3 DEF RunOf
      <4> QED
        BY <4>1, <2>1, <3>1, <1>1 DEF Took
    <3>2. CASE u # w /\ v = w
      BY <2>1, <2>2, <3>2, <1>3
    <3>3. CASE u # w /\ v # w
      BY <2>2, <3>3, <1>0, <1>3 DEF OneWorkerPerRun
    <3> QED
      BY <3>1, <3>2, <3>3
  <2> QED
    BY <2>2 DEF OneWorkerPerRun
<1>6. CurrentIsOwned'
  <2>1. ASSUME NEW v \in Workers \ {w}, Took(v), Current(RunOf(v))'
        PROVE  job'[worker'[v].job].by = v
    <3>1. job'[worker[v].job].status = "RUNNING"
          /\ job'[worker[v].job].attempts = worker[v].attempt
      BY <2>1, <1>2, <1>3 DEF Current
    <3>2. worker[v].job # j
      BY <2>1, <3>1, <1>1, <1>2
    <3>3. Current(RunOf(v)) /\ job'[worker[v].job] = job[worker[v].job]
      BY <2>1, <3>1, <3>2, <1>1, <1>2 DEF Current
    <3> QED
      BY <2>1, <3>3, <1>0, <1>1 DEF CurrentIsOwned
  <2> QED
    BY <2>1, <1>1, <1>3 DEF CurrentIsOwned
<1> QED
  BY <1>4, <1>5, <1>6 DEF Memory

\* Every step keeps the workers' memory.
LEMMA MemoryStep ==
  ASSUME TypeOK, Memory, [Next]_vars
  PROVE  Memory'
<1>0. \A w \in Workers : WorkerKnows(w)
  BY DEF Memory
<1>1. ASSUME NEW w \in Workers, Acquire(w) PROVE Memory'
  BY <1>1, MemoryAcquire
<1>2. ASSUME NEW w \in Workers, Claim(w) PROVE Memory'
  <2>1. CASE WorkersMove /\ UNCHANGED job
    BY <2>1, MemoryKept DEF JobsStay
  <2> QED
    BY <1>2, <2>1, ClaimSplit, MemoryClaim
<1>3. ASSUME NEW w \in Workers, WorkerStep(w) \/ Heartbeat(w) \/ Crash(w),
             ~Claim(w), ~Acquire(w)
      PROVE  Memory'
  <2>1. WorkersMove
    BY <1>3, WorkerMoves
  <2>2. JobsStay \/ (\E v \in Workers : Claim(v)) \/ \E j \in Jobs : ClaimElsewhere(j)
    BY <1>0, JobsStayStep
  <2> QED
    BY <2>1, <2>2, <1>2, MemoryKept
<1>4. CASE \A w \in Workers : ~(WorkerStep(w) \/ Heartbeat(w) \/ Crash(w))
  <2>1. UNCHANGED worker
    BY <1>4, OthersLeaveWorkers
  <2>2. WorkersMove
    BY <2>1 DEF WorkersMove
  <2>3. JobsStay \/ \E j \in Jobs : ClaimElsewhere(j)
    BY <1>0, <1>4, JobsStayStep DEF WorkerStep
  <2> QED
    BY <2>2, <2>3, MemoryKept
<1> QED
  BY <1>1, <1>2, <1>3, <1>4

-----------------------------------------------------------------------------
(* The ledger is kept.                                                     *)

\* Steps that leave the runs and the sandboxes alone.
LEMMA LedgerQuiet ==
  ASSUME Ledger, UNCHANGED <<run, sandbox, sweep>>,
         \A v \in Workers :
           \/ worker'[v] = worker[v]
           \/ /\ worker'[v].pc \in {"leased", "leaving", "done"}
              /\ worker'[v].job = worker[v].job
              /\ worker'[v].attempt = worker[v].attempt
              /\ worker'[v].miss = worker[v].miss
  PROVE  Ledger'
<1>1. \A v \in Workers : Took(v)' = Took(v) /\ RunOf(v)' = RunOf(v)
  BY DEF Took, RunOf
<1>2. \A r \in Runs : RowTells(r)'
  BY DEF Ledger, RowTells
<1>3. RunHasWorker'
  BY <1>1 DEF Ledger, RunHasWorker
<1>4. \A v \in Workers : PlaceTells(v)'
  BY <1>1 DEF Ledger, PlaceTells
<1> QED
  BY <1>2, <1>3, <1>4 DEF Ledger

\* A claim finds no run of the attempt it starts: only its worker could have made it.
LEMMA LedgerClaim ==
  ASSUME TypeOK, Memory, Ledger, NEW w \in Workers, NEW j \in Jobs, Claims(w, j)
  PROVE  Ledger'
<1> DEFINE q == <<j, job[j].attempts + 1>>
<1>1. /\ job[j].attempts \in Nat /\ q \in Runs
      /\ worker'[w].job = j /\ worker'[w].attempt = job[j].attempts + 1
      /\ worker'[w].pc = "claimed" /\ ~worker'[w].miss /\ ~Took(w)
      /\ \A v \in Workers \ {w} : worker'[v] = worker[v]
      /\ UNCHANGED <<run, sandbox, sweep>>
  <2>1. UNCHANGED <<run, sandbox, sweep>>
    BY DEF Claims
  <2>2. job[j].attempts + 1 \in Attempts
    BY ClaimEffect
  <2>3. q \in Runs
    BY <2>2 DEF Runs
  <2> QED
    BY <2>1, <2>3, ClaimEffect
<1>2. RunOf(w)' = q /\ Took(w)'
  BY <1>1, ConstantsAssumption DEF RunOf, Took
<1>3. \A v \in Workers \ {w} : Took(v)' = Took(v) /\ RunOf(v)' = RunOf(v)
  BY <1>1 DEF Took, RunOf
<1>4. run[q].state = "NONE"
  <2>1. ASSUME NEW v \in Workers, Took(v), RunOf(v) = q PROVE FALSE
    <3>1. worker[v].job = j /\ worker[v].attempt = job[j].attempts + 1
      BY <2>1 DEF RunOf
    <3>2. worker[v].attempt <= job[j].attempts
      BY <2>1, <3>1 DEF Memory, WorkerKnows
    <3> QED
      BY <1>1, <3>1, <3>2
  <2> QED
    BY <1>1, <2>1 DEF Ledger, RunHasWorker
<1>5. \A r \in Runs : RowTells(r)'
  BY <1>1 DEF Ledger, RowTells
<1>6. RunHasWorker'
  BY <1>1, <1>2, <1>3 DEF Ledger, RunHasWorker
<1>7. \A v \in Workers : PlaceTells(v)'
  <2>1. PlaceTells(w)'
    BY <1>1, <1>2, <1>4 DEF PlaceTells
  <2>2. \A v \in Workers \ {w} : PlaceTells(v)'
    BY <1>1, <1>3 DEF Ledger, PlaceTells
  <2> QED
    BY <2>1, <2>2
<1> QED
  BY <1>5, <1>6, <1>7 DEF Ledger

\* A worker's step on its own run says nothing of the runs of others.
LEMMA LedgerFrame ==
  ASSUME TypeOK, Memory, Ledger, NEW w \in Workers, Took(w),
         Took(w)' = Took(w), RunOf(w)' = RunOf(w),
         \A v \in Workers \ {w} : worker'[v] = worker[v],
         \A q \in Runs \ {RunOf(w)} : run'[q] = run[q] /\ sandbox'[q] = sandbox[q],
         UNCHANGED sweep,
         RowTells(RunOf(w))', PlaceTells(w)'
  PROVE  Ledger'
<1>1. \A v \in Workers \ {w} : Took(v)' = Took(v) /\ RunOf(v)' = RunOf(v)
  BY DEF Took, RunOf
<1>2. \A r \in Runs : RowTells(r)'
  BY DEF Ledger, RowTells
<1>3. RunHasWorker'
  BY <1>1 DEF Ledger, RunHasWorker
<1>4. ASSUME NEW v \in Workers \ {w} PROVE PlaceTells(v)'
  <2>1. CASE Took(v)
    <3>1. RunOf(v) \in Runs \ {RunOf(w)}
      BY <2>1, RunOfTyped DEF Memory, OneWorkerPerRun
    <3> QED
      BY <3>1, <1>1 DEF Ledger, PlaceTells
  <2>2. CASE ~Took(v)
    <3>1. worker[v].pc \notin Busy /\ ~worker[v].miss
      BY <2>2 DEF Memory, WorkerKnows, TypeOK, Worker
    <3> QED
      BY <3>1 DEF PlaceTells, Busy
  <2> QED
    BY <2>1, <2>2
<1> QED
  BY <1>2, <1>3, <1>4 DEF Ledger

\* What a step of others than the workers leaves of a run.
OthersTell(q) ==
  /\ run[q].state = "NONE" <=> run'[q].state = "NONE"
  /\ run[q].handle => run'[q].handle
  /\ run[q].state = "PROVISIONING" /\ sandbox[q] = "none" /\ MayComeUp(q) =>
       run'[q].state = "PROVISIONING" /\ sandbox'[q] = "none"
  /\ sandbox[q] \in {"gone", "refused"} => sandbox'[q] = sandbox[q]
  /\ run[q].state \in {"TERMINATING", "TERMINATED"} \/ run[q].handle =>
       run'[q].state \in {"TERMINATING", "TERMINATED"} \/ run'[q].handle

\* Steps of others that leave each run telling the truth keep the ledger.
LEMMA LedgerOthers ==
  ASSUME TypeOK, Memory, Ledger, UNCHANGED worker,
         \A q \in Runs : OthersTell(q) /\ RowTells(q)'
  PROVE  Ledger'
<1>1. \A v \in Workers : Took(v)' = Took(v) /\ RunOf(v)' = RunOf(v)
  BY DEF Took, RunOf
<1>2. RunHasWorker'
  BY <1>1 DEF Ledger, RunHasWorker, OthersTell
<1>3. ASSUME NEW v \in Workers PROVE PlaceTells(v)'
  <2>1. CASE Took(v)
    <3>1. RunOf(v) \in Runs
      BY <2>1, RunOfTyped DEF Memory
    <3>2. worker[v].pc = "launching" => MayComeUp(RunOf(v))
      BY DEF MayComeUp, At
    <3>3. PlaceTells(v) /\ OthersTell(RunOf(v))
      BY <3>1 DEF Ledger
    <3> QED
      BY <3>2, <3>3, <1>1 DEF PlaceTells, OthersTell
  <2>2. CASE ~Took(v)
    <3>1. worker[v].pc \notin Busy /\ ~worker[v].miss
      BY <2>2 DEF Memory, WorkerKnows, TypeOK, Worker
    <3> QED
      BY <3>1 DEF PlaceTells, Busy
  <2> QED
    BY <2>1, <2>2
<1> QED
  BY <1>2, <1>3 DEF Ledger

\* What a move changes of a worker, and what it leaves.
LEMMA GotoEffect ==
  ASSUME TypeOK, NEW w \in Workers, NEW p, Goto(w, p)
  PROVE  /\ worker'[w].pc = p /\ worker'[w].slot = worker[w].slot
         /\ worker'[w].job = worker[w].job /\ worker'[w].attempt = worker[w].attempt
         /\ worker'[w].miss = worker[w].miss
         /\ Took(w)' = Took(w) /\ RunOf(w)' = RunOf(w)
         /\ \A v \in Workers \ {w} : worker'[v] = worker[v]
<1>1. /\ worker'[w].pc = p /\ worker'[w].slot = worker[w].slot
      /\ worker'[w].job = worker[w].job /\ worker'[w].attempt = worker[w].attempt
      /\ worker'[w].miss = worker[w].miss
      /\ \A v \in Workers \ {w} : worker'[v] = worker[v]
  BY DEF TypeOK, Worker, Goto
<1> QED
  BY <1>1 DEF Took, RunOf

\* What is known of a worker in its attempt.
LEMMA BusyKnows ==
  ASSUME TypeOK, Memory, Ledger, NEW w \in Workers, worker[w].pc \in Busy
  PROVE  /\ Took(w) /\ RunOf(w) \in Runs /\ worker[w] \in Worker
         /\ run[RunOf(w)] \in Run /\ sandbox[RunOf(w)] \in Sandbox
         /\ RowTells(RunOf(w)) /\ PlaceTells(w) /\ WorkerKnows(w)
         /\ RunOf(w)[1] = worker[w].job /\ worker[w].job \in Jobs
         /\ RunOf(w)[2] = worker[w].attempt
<1>1. WorkerKnows(w) /\ Took(w)
  BY DEF Memory, WorkerKnows
<1>2. /\ RunOf(w) \in Runs /\ run[RunOf(w)] \in Run /\ sandbox[RunOf(w)] \in Sandbox
      /\ RunOf(w)[1] = worker[w].job /\ worker[w].job \in Jobs
      /\ RunOf(w)[2] = worker[w].attempt
  BY <1>1, RunOfTyped
<1> QED
  BY <1>1, <1>2 DEF Ledger, TypeOK

\* What the statements on one run write.
LEMMA RunEffect ==
  ASSUME TypeOK, NEW r \in Runs
  PROVE  /\ Terminating(r)[r].handle = run[r].handle
         /\ Terminating(r)[r].state =
              IF run[r].state = "TERMINATED" THEN "TERMINATED" ELSE "TERMINATING"
         /\ Failed(r)[r].handle = run[r].handle
         /\ Failed(r)[r].state = IF run[r].state \in {"TERMINATING", "TERMINATED"}
                                 THEN run[r].state ELSE "FAILED"
         /\ Terminated(r)[r].handle = run[r].handle
         /\ Terminated(r)[r].state = "TERMINATED"
         /\ LateHandle(r)[r].handle
         /\ LateHandle(r)[r].state =
              IF run[r].state = "TERMINATED" THEN "TERMINATED" ELSE "TERMINATING"
         /\ \A q \in Runs \ {r} : /\ Terminating(r)[q] = run[q] /\ Failed(r)[q] = run[q]
                                  /\ Terminated(r)[q] = run[q] /\ LateHandle(r)[q] = run[q]
<1>1. run \in [Runs -> Run] /\ run[r] \in Run
  BY DEF TypeOK
<1>2. /\ Terminating(r)[r].handle = run[r].handle
      /\ Terminating(r)[r].state =
           IF run[r].state = "TERMINATED" THEN "TERMINATED" ELSE "TERMINATING"
  BY <1>1 DEF Terminating, Run
<1>3. /\ Failed(r)[r].handle = run[r].handle
      /\ Failed(r)[r].state = IF run[r].state \in {"TERMINATING", "TERMINATED"}
                              THEN run[r].state ELSE "FAILED"
  BY <1>1 DEF Failed, Run
<1>4. Terminated(r)[r].handle = run[r].handle /\ Terminated(r)[r].state = "TERMINATED"
  BY <1>1 DEF Terminated, Run
<1>5. /\ LateHandle(r)[r].handle
      /\ LateHandle(r)[r].state =
           IF run[r].state = "TERMINATED" THEN "TERMINATED" ELSE "TERMINATING"
  BY <1>1 DEF LateHandle, Run
<1>6. \A q \in Runs \ {r} : /\ Terminating(r)[q] = run[q] /\ Failed(r)[q] = run[q]
                            /\ Terminated(r)[q] = run[q] /\ LateHandle(r)[q] = run[q]
  BY <1>1 DEF Terminating, Failed, Terminated, LateHandle
<1> QED
  BY <1>2, <1>3, <1>4, <1>5, <1>6

\* The steps of an attempt keep the ledger.
LEMMA LedgerWorker ==
  ASSUME TypeOK, TypeOK', Memory, Ledger, NEW w \in Workers,
         CreateRun(w) \/ RequestSandbox(w) \/ MarkProvisioned(w) \/ EndExecution(w)
         \/ RequestTermination(w) \/ Teardown(w) \/ MarkTerminated(w) \/ MarkFailed(w)
         \/ Reroute(w)
  PROVE  Ledger'
<1> DEFINE r == RunOf(w)
<1>1. CASE CreateRun(w)
  <2>1. worker[w].pc = "claimed" /\ worker[w].pc \in Busy /\ UNCHANGED <<sandbox, sweep>>
    BY <1>1 DEF CreateRun, At, Busy
  <2>2. r \in Runs /\ RowTells(r) /\ PlaceTells(w) /\ Took(w) /\ run[r] \in Run
    BY <2>1, BusyKnows
  <2>3. CASE Goto(w, "launching") /\ run' = [run EXCEPT ![r].state = "PROVISIONING"]
    <3>1. /\ run'[r].state = "PROVISIONING" /\ run'[r].handle = run[r].handle
          /\ \A q \in Runs \ {r} : run'[q] = run[q]
      BY <2>2, <2>3 DEF TypeOK, Run
    <3>2. run[r].state = "NONE" /\ ~run[r].handle /\ sandbox[r] = "none"
      BY <2>1, <2>2 DEF PlaceTells, RowTells
    <3>3. RowTells(r)'
      BY <2>1, <2>2, <3>1, <3>2, <2>3, GotoEffect DEF RowTells, Up
    <3>4. PlaceTells(w)'
      BY <2>1, <2>2, <2>3, <3>1, <3>2, GotoEffect DEF PlaceTells
    <3> QED
      BY <2>1, <2>2, <2>3, <3>1, <3>3, <3>4, GotoEffect, LedgerFrame
  <2>4. CASE Goto(w, "outcome") /\ UNCHANGED run
    <3>1. RowTells(r)'
      BY <2>1, <2>2, <2>4, GotoEffect DEF RowTells
    <3>2. PlaceTells(w)'
      BY <2>1, <2>2, <2>4, GotoEffect DEF PlaceTells
    <3> QED
      BY <2>1, <2>2, <2>4, <3>1, <3>2, GotoEffect, LedgerFrame
  <2> QED
    BY <1>1, <2>3, <2>4 DEF CreateRun
<1>2. CASE RequestSandbox(w)
  <2>1. /\ worker[w].pc = "launching" /\ worker[w].pc \in Busy /\ Goto(w, "waiting")
        /\ UNCHANGED <<run, sweep>>
        /\ sandbox' = [sandbox EXCEPT ![r] = "requested"]
    BY <1>2 DEF RequestSandbox, At, Busy, rows
  <2>2. r \in Runs /\ RowTells(r) /\ PlaceTells(w) /\ Took(w)
    BY <2>1, BusyKnows
  <2>3. /\ sandbox'[r] = "requested"
        /\ \A q \in Runs \ {r} : sandbox'[q] = sandbox[q]
    BY <2>1, <2>2 DEF TypeOK
  <2>4. run[r].state = "PROVISIONING" /\ ~run[r].handle /\ sandbox[r] = "none"
    BY <2>1, <2>2 DEF PlaceTells, RowTells
  <2>5. RowTells(r)'
    BY <2>1, <2>2, <2>3, <2>4, GotoEffect DEF RowTells, Up
  <2>6. PlaceTells(w)'
    BY <2>1, <2>2, <2>3, <2>4, GotoEffect DEF PlaceTells
  <2> QED
    BY <2>1, <2>2, <2>3, <2>5, <2>6, GotoEffect, LedgerFrame
<1>3. CASE MarkProvisioned(w)
  <2>1. /\ worker[w].pc = "waiting" /\ worker[w].pc \in Busy /\ UNCHANGED <<sandbox, sweep>>
        /\ sandbox[r] \in {"alive", "gone"}
    BY <1>3 DEF MarkProvisioned, At, Busy
  <2>2. r \in Runs /\ RowTells(r) /\ PlaceTells(w) /\ Took(w) /\ run[r] \in Run
    BY <2>1, BusyKnows
  <2>3. run[r].state # "NONE"
    BY <2>1, <2>2 DEF PlaceTells
  <2>4. CASE Goto(w, "closing") /\ run' = LateHandle(r)
    <3>1. /\ run'[r].handle
          /\ run'[r].state = IF run[r].state = "TERMINATED" THEN "TERMINATED" ELSE "TERMINATING"
          /\ \A q \in Runs \ {r} : run'[q] = run[q]
      BY <2>2, <2>4, RunEffect
    <3>2. RowTells(r)'
      BY <2>1, <2>2, <3>1, <2>4, GotoEffect DEF RowTells
    <3>3. PlaceTells(w)'
      BY <2>1, <2>2, <2>4, <3>1, GotoEffect DEF PlaceTells
    <3> QED
      BY <2>1, <2>2, <2>4, <3>1, <3>2, <3>3, GotoEffect, LedgerFrame
  <2>5. CASE Goto(w, "closing") /\ UNCHANGED run
    <3>1. RowTells(r)'
      BY <2>1, <2>2, <2>5, GotoEffect DEF RowTells
    <3>2. PlaceTells(w)'
      BY <2>1, <2>2, <2>3, <2>5, GotoEffect DEF PlaceTells
    <3> QED
      BY <2>1, <2>2, <2>5, <3>1, <3>2, GotoEffect, LedgerFrame
  <2>6. CASE /\ Goto(w, "operating") /\ run[r].state \notin {"TERMINATING", "TERMINATED"}
             /\ run' = [run EXCEPT ![r] = [state |-> "RUNNING", handle |-> TRUE]]
    <3>1. /\ run'[r].handle /\ run'[r].state = "RUNNING"
          /\ \A q \in Runs \ {r} : run'[q] = run[q]
      BY <2>2, <2>6 DEF TypeOK
    <3>2. RowTells(r)'
      BY <2>1, <2>2, <3>1, <2>6, GotoEffect DEF RowTells
    <3>3. PlaceTells(w)'
      BY <2>1, <2>2, <2>6, <3>1, GotoEffect DEF PlaceTells
    <3> QED
      BY <2>1, <2>2, <2>6, <3>1, <3>2, <3>3, GotoEffect, LedgerFrame
  <2> QED
    BY <1>3, <2>4, <2>5, <2>6 DEF MarkProvisioned
<1>4. CASE EndExecution(w)
  <2>1. PICK miss \in BOOLEAN :
          /\ miss => At(w, "operating") \/ sandbox[r] = "refused"
          /\ worker' = [worker EXCEPT ![w].pc = "closing", ![w].miss = miss]
    BY <1>4 DEF EndExecution
  <2>2. /\ worker[w].pc \in {"launching", "waiting", "operating"} /\ worker[w].pc \in Busy
        /\ UNCHANGED <<run, sandbox, sweep>>
    BY <1>4 DEF EndExecution, Busy, rows
  <2>3. r \in Runs /\ RowTells(r) /\ PlaceTells(w) /\ Took(w)
    BY <2>2, BusyKnows
  <2>4. /\ worker'[w].pc = "closing" /\ worker'[w].miss = miss
        /\ worker'[w].job = worker[w].job /\ worker'[w].attempt = worker[w].attempt
        /\ \A v \in Workers \ {w} : worker'[v] = worker[v]
    BY <2>1 DEF TypeOK, Worker
  <2>5. Took(w)' = Took(w) /\ RunOf(w)' = RunOf(w)
    BY <2>4 DEF Took, RunOf
  <2>6. run[r].state # "NONE" /\ (miss => run[r].handle \/ sandbox[r] = "refused")
    BY <2>1, <2>2, <2>3 DEF PlaceTells, At
  <2>7. RowTells(r)'
    BY <2>2, <2>3, <2>5 DEF RowTells
  <2>8. PlaceTells(w)'
    BY <2>2, <2>3, <2>4, <2>5, <2>6 DEF PlaceTells
  <2> QED
    BY <2>2, <2>3, <2>4, <2>5, <2>7, <2>8, LedgerFrame
<1>5. CASE RequestTermination(w)
  <2>1. /\ worker[w].pc = "closing" /\ worker[w].pc \in Busy /\ UNCHANGED <<sandbox, sweep>>
        /\ run' = Terminating(r)
        /\ Goto(w, IF run[r].handle THEN "stopping" ELSE "unhandled")
    BY <1>5 DEF RequestTermination, At, Busy
  <2>2. r \in Runs /\ RowTells(r) /\ PlaceTells(w) /\ Took(w)
    BY <2>1, BusyKnows
  <2>3. /\ run'[r].handle = run[r].handle
        /\ run'[r].state = IF run[r].state = "TERMINATED" THEN "TERMINATED" ELSE "TERMINATING"
        /\ \A q \in Runs \ {r} : run'[q] = run[q]
    BY <2>1, <2>2, RunEffect
  <2>4. run[r].state # "NONE"
    BY <2>1, <2>2 DEF PlaceTells
  <2>5. RowTells(r)'
    BY <2>1, <2>2, <2>3, <2>4, GotoEffect DEF RowTells
  <2>6. PlaceTells(w)'
    BY <2>1, <2>2, <2>3, <2>4, GotoEffect DEF PlaceTells
  <2> QED
    BY <2>1, <2>2, <2>3, <2>5, <2>6, GotoEffect, LedgerFrame
<1>6. CASE Teardown(w)
  <2>1. /\ worker[w].pc = "stopping" /\ worker[w].pc \in Busy /\ UNCHANGED <<run, sweep>>
    BY <1>6 DEF Teardown, At, Busy, rows
  <2>2. r \in Runs /\ RowTells(r) /\ PlaceTells(w) /\ Took(w)
    BY <2>1, BusyKnows
  <2>3. run[r].handle /\ run[r].state # "NONE" /\ sandbox[r] \in {"alive", "gone"}
    BY <2>1, <2>2 DEF PlaceTells, RowTells
  <2>4. CASE Goto(w, "stopped") /\ sandbox' = Stop(r)
    <3>1. sandbox'[r] = "gone" /\ \A q \in Runs \ {r} : sandbox'[q] = sandbox[q]
      BY <2>2, <2>3, <2>4 DEF Stop, TypeOK
    <3>2. RowTells(r)'
      BY <2>1, <2>2, <2>3, <3>1, <2>4, GotoEffect DEF RowTells, Up
    <3>3. PlaceTells(w)'
      BY <2>1, <2>2, <2>3, <2>4, <3>1, GotoEffect DEF PlaceTells
    <3> QED
      BY <2>1, <2>2, <2>4, <3>1, <3>2, <3>3, GotoEffect, LedgerFrame
  <2>5. CASE Goto(w, "unhandled") /\ UNCHANGED sandbox
    <3>1. RowTells(r)'
      BY <2>1, <2>2, <2>5, GotoEffect DEF RowTells
    <3>2. PlaceTells(w)'
      BY <2>1, <2>2, <2>3, <2>5, GotoEffect DEF PlaceTells
    <3> QED
      BY <2>1, <2>2, <2>5, <3>1, <3>2, GotoEffect, LedgerFrame
  <2> QED
    BY <1>6, <2>4, <2>5 DEF Teardown
<1>7. CASE MarkTerminated(w)
  <2>1. /\ worker[w].pc = "stopped" /\ worker[w].pc \in Busy /\ UNCHANGED <<sandbox, sweep>>
        /\ run' = Terminated(r) /\ Goto(w, "outcome")
    BY <1>7 DEF MarkTerminated, At, Busy
  <2>2. r \in Runs /\ RowTells(r) /\ PlaceTells(w) /\ Took(w)
    BY <2>1, BusyKnows
  <2>3. /\ run'[r].handle = run[r].handle /\ run'[r].state = "TERMINATED"
        /\ \A q \in Runs \ {r} : run'[q] = run[q]
    BY <2>1, <2>2, RunEffect
  <2>4. sandbox[r] = "gone" /\ run[r].handle
    BY <2>1, <2>2 DEF PlaceTells
  <2>5. RowTells(r)'
    BY <2>1, <2>2, <2>3, <2>4, GotoEffect DEF RowTells, Up
  <2>6. PlaceTells(w)'
    <3>1. worker'[w].pc = "outcome" /\ RunOf(w)' = r
      BY <2>1, GotoEffect
    <3>2. run'[RunOf(w)'].handle /\ run'[RunOf(w)'].state = "TERMINATED"
      BY <2>3, <2>4, <3>1
    <3> QED
      BY <3>1, <3>2 DEF PlaceTells
  <2> QED
    BY <2>1, <2>2, <2>3, <2>5, <2>6, GotoEffect, LedgerFrame
<1>8. CASE MarkFailed(w)
  <2>1. /\ worker[w].pc = "unhandled" /\ worker[w].pc \in Busy /\ UNCHANGED <<sandbox, sweep>>
        /\ run' = Failed(r) /\ Goto(w, "outcome")
    BY <1>8 DEF MarkFailed, At, Busy
  <2>2. r \in Runs /\ RowTells(r) /\ PlaceTells(w) /\ Took(w)
    BY <2>1, BusyKnows
  <2>3. /\ run'[r].handle = run[r].handle
        /\ run'[r].state = IF run[r].state \in {"TERMINATING", "TERMINATED"}
                           THEN run[r].state ELSE "FAILED"
        /\ \A q \in Runs \ {r} : run'[q] = run[q]
    BY <2>1, <2>2, RunEffect
  <2>4. run[r].state # "NONE"
        /\ (run[r].state \in {"TERMINATING", "TERMINATED"} \/ run[r].handle)
    BY <2>1, <2>2 DEF PlaceTells
  <2>5. RowTells(r)'
    BY <2>1, <2>2, <2>3, <2>4, GotoEffect DEF RowTells
  <2>6. PlaceTells(w)'
    BY <2>1, <2>2, <2>3, <2>4, GotoEffect DEF PlaceTells
  <2> QED
    BY <2>1, <2>2, <2>3, <2>5, <2>6, GotoEffect, LedgerFrame
<1>9. CASE Reroute(w)
  <2>1. /\ worker[w].pc = "outcome" /\ worker[w].pc \in Busy /\ UNCHANGED <<sandbox, sweep>>
        /\ worker[w].miss /\ Goto(w, "leaving")
        /\ run' = IF run[r].handle THEN run ELSE Terminated(r)
    BY <1>9 DEF Reroute, At, Busy
  <2>2. r \in Runs /\ RowTells(r) /\ PlaceTells(w) /\ Took(w)
    BY <2>1, BusyKnows
  <2>3. run[r].handle \/ sandbox[r] = "refused"
    BY <2>1, <2>2 DEF PlaceTells
  <2>4. /\ run'[r].handle = run[r].handle
        /\ run'[r].state = IF run[r].handle THEN run[r].state ELSE "TERMINATED"
        /\ \A q \in Runs \ {r} : run'[q] = run[q]
    BY <2>1, <2>2, RunEffect
  <2>5. RowTells(r)'
    BY <2>1, <2>2, <2>3, <2>4, GotoEffect DEF RowTells, Up
  <2>6. PlaceTells(w)'
    BY <2>1, <2>2, <2>3, <2>4, GotoEffect DEF PlaceTells
  <2> QED
    BY <2>1, <2>2, <2>4, <2>5, <2>6, GotoEffect, LedgerFrame
<1> QED
  BY <1>1, <1>2, <1>3, <1>4, <1>5, <1>6, <1>7, <1>8, <1>9

\* What the sweep's transaction makes of one run: it recovers its handle, closes it
\* when no sandbox can come up for it, or leaves it.
LEMMA SweepEffect ==
  ASSUME TypeOK, NEW inventory \in BOOLEAN, NEW S \in SUBSET RunningJobs,
         NEW F \in SUBSET Runs, SweepTransaction(inventory, S, F), NEW r \in Runs
  PROVE  /\ \/ run'[r] = run[r]
            \/ /\ sandbox[r] = "alive"
               /\ run[r].state \in {"PROVISIONING", "TERMINATING"} /\ ~run[r].handle
               /\ run'[r].state \in {"RUNNING", "TERMINATING"} /\ run'[r].handle
            \/ /\ sandbox[r] # "alive" /\ ~MayComeUp(r)
               /\ run[r].state \in {"PROVISIONING", "TERMINATING"} /\ ~run[r].handle
               /\ run'[r].state = "TERMINATED" /\ ~run'[r].handle
         /\ sweep'[r] \in {"no", "listed"}
         /\ sweep'[r] = "listed" => run'[r].handle
<1> DEFINE jobs2 == SweepJobs(inventory, S)
           runs1 == SweepRuns(inventory, S)
<1>1. /\ \A q \in F : Finalizable(jobs2, runs1, q)
      /\ run' = [q \in Runs |-> IF q \in F THEN [runs1[q] EXCEPT !.state = "TERMINATED"]
                                ELSE runs1[q]]
      /\ sweep' = [q \in Runs |-> IF Orphaned(jobs2, runs1, q) THEN "listed" ELSE "no"]
  BY DEF SweepTransaction, SweepJobs, SweepRuns
<1>2. runs1[r] \in Run /\ run[r] \in Run
  BY SweepRowsTyped DEF TypeOK
<1>3. \/ runs1[r] = run[r]
      \/ /\ sandbox[r] = "alive"
         /\ run[r].state \in {"PROVISIONING", "TERMINATING"} /\ ~run[r].handle
         /\ runs1[r].state \in {"RUNNING", "TERMINATING"} /\ runs1[r].handle
  BY DEF SweepRuns, RecoveredRuns, Recovers
<1> HIDE DEF jobs2, runs1
<1>4. sweep'[r] \in {"no", "listed"} /\ (sweep'[r] = "listed" => runs1[r].handle)
  BY <1>1 DEF Orphaned
<1>5. CASE r \in F
  <2>1. /\ runs1[r].state \in {"PROVISIONING", "TERMINATING"} /\ ~runs1[r].handle
        /\ sandbox[r] # "alive" /\ ~MayComeUp(r)
    BY <1>1, <1>5 DEF Finalizable
  <2>2. run'[r].state = "TERMINATED" /\ run'[r].handle = runs1[r].handle
    BY <1>1, <1>2, <1>5 DEF Run
  <2> QED
    BY <1>3, <1>4, <2>1, <2>2
<1>6. CASE r \notin F
  BY <1>1, <1>3, <1>4, <1>6
<1> QED
  BY <1>5, <1>6

\* The steps of the sweep, the provider, the other lane and users keep the ledger.
LEMMA LedgerSweep ==
  ASSUME TypeOK, Memory, Ledger, [Next]_vars,
         \A w \in Workers : ~(WorkerStep(w) \/ Heartbeat(w) \/ Crash(w))
  PROVE  Ledger'
<1>0. UNCHANGED worker /\ \A q \in Runs : RowTells(q)
  BY OthersLeaveWorkers DEF Ledger
<1>1. CASE UNCHANGED <<run, sandbox, sweep>>
  BY <1>0, <1>1, LedgerQuiet
<1>2. ASSUME NEW r \in Runs, ProviderAnswers(r) PROVE Ledger'
  <2>1. /\ UNCHANGED <<run, sweep>> /\ sandbox[r] = "requested"
        /\ sandbox'[r] \in {"alive", "refused"}
        /\ \A q \in Runs \ {r} : sandbox'[q] = sandbox[q]
    BY <1>2 DEF ProviderAnswers, TypeOK, rows
  <2>2. ASSUME NEW q \in Runs PROVE OthersTell(q) /\ RowTells(q)'
    BY <1>0, <2>1 DEF OthersTell, RowTells, Up
  <2> QED
    BY <1>0, <2>2, LedgerOthers
<1>3. ASSUME NEW r \in Runs, ProviderStops(r) PROVE Ledger'
  <2>1. /\ UNCHANGED <<run, sweep>> /\ sandbox[r] = "alive" /\ sandbox'[r] = "gone"
        /\ \A q \in Runs \ {r} : sandbox'[q] = sandbox[q]
    BY <1>3 DEF ProviderStops, TypeOK, rows
  <2>2. ASSUME NEW q \in Runs PROVE OthersTell(q) /\ RowTells(q)'
    BY <1>0, <2>1 DEF OthersTell, RowTells, Up
  <2> QED
    BY <1>0, <2>2, LedgerOthers
<1>4. ASSUME NEW r \in Runs, SweepRequest(r) PROVE Ledger'
  <2>1. /\ UNCHANGED sandbox /\ sweep[r] = "listed" /\ sweep'[r] = "asked"
        /\ \A q \in Runs \ {r} : sweep'[q] = sweep[q] /\ run'[q] = run[q]
        /\ run'[r].handle = run[r].handle
        /\ run'[r].state = IF run[r].state = "TERMINATED" THEN "TERMINATED" ELSE "TERMINATING"
    BY <1>4, RunEffect DEF SweepRequest, TypeOK
  <2>2. run[r].handle /\ run[r].state # "NONE" /\ sandbox[r] \in {"alive", "gone"}
    BY <1>0, <2>1 DEF RowTells
  <2>3. ASSUME NEW q \in Runs PROVE OthersTell(q) /\ RowTells(q)'
    BY <1>0, <2>1, <2>2 DEF OthersTell, RowTells
  <2> QED
    BY <1>0, <2>3, LedgerOthers
<1>5. ASSUME NEW r \in Runs, NEW ok \in BOOLEAN, SweepTeardown(r, ok) PROVE Ledger'
  <2>1. /\ UNCHANGED run /\ sweep[r] = "asked"
        /\ sweep'[r] = IF ok THEN "stopped" ELSE "failed"
        /\ \A q \in Runs \ {r} : sweep'[q] = sweep[q] /\ sandbox'[q] = sandbox[q]
        /\ sandbox'[r] = IF ok /\ sandbox[r] = "alive" THEN "gone" ELSE sandbox[r]
    BY <1>5 DEF SweepTeardown, Stop, TypeOK, rows
  <2>2. run[r].handle /\ run[r].state # "NONE" /\ sandbox[r] \in {"alive", "gone"}
    BY <1>0, <2>1 DEF RowTells
  <2>3. ASSUME NEW q \in Runs PROVE OthersTell(q) /\ RowTells(q)'
    BY <1>0, <2>1, <2>2 DEF OthersTell, RowTells, Up
  <2> QED
    BY <1>0, <2>3, LedgerOthers
<1>6. ASSUME NEW r \in Runs, SweepMark(r) PROVE Ledger'
  <2>1. /\ UNCHANGED sandbox /\ sweep[r] \in {"stopped", "failed"} /\ sweep'[r] = "no"
        /\ \A q \in Runs \ {r} : sweep'[q] = sweep[q] /\ run'[q] = run[q]
        /\ run'[r].handle = run[r].handle
        /\ run'[r].state = IF sweep[r] = "stopped" THEN "TERMINATED"
                           ELSE IF run[r].state \in {"TERMINATING", "TERMINATED"}
                                THEN run[r].state ELSE "FAILED"
    BY <1>6, RunEffect DEF SweepMark, TypeOK
  <2>2. /\ run[r].handle /\ run[r].state # "NONE"
        /\ sweep[r] = "stopped" => sandbox[r] = "gone"
    BY <1>0, <2>1 DEF RowTells
  <2>3. ASSUME NEW q \in Runs PROVE OthersTell(q) /\ RowTells(q)'
    <3>1. CASE q = r
      BY <1>0, <2>1, <2>2, <3>1 DEF OthersTell, RowTells, Up
    <3>2. CASE q # r
      BY <1>0, <2>1, <3>2 DEF OthersTell, RowTells, Up
    <3> QED
      BY <3>1, <3>2
  <2> QED
    BY <1>0, <2>3, LedgerOthers
<1>7. ASSUME NEW inventory \in BOOLEAN, NEW S \in SUBSET RunningJobs, NEW F \in SUBSET Runs,
             SweepTransaction(inventory, S, F)
      PROVE  Ledger'
  <2>1. UNCHANGED sandbox
    BY <1>7 DEF SweepTransaction
  <2>2. ASSUME NEW q \in Runs PROVE OthersTell(q) /\ RowTells(q)'
    <3>1. /\ \/ run'[q] = run[q]
             \/ /\ sandbox[q] = "alive"
                /\ run[q].state \in {"PROVISIONING", "TERMINATING"} /\ ~run[q].handle
                /\ run'[q].state \in {"RUNNING", "TERMINATING"} /\ run'[q].handle
             \/ /\ sandbox[q] # "alive" /\ ~MayComeUp(q)
                /\ run[q].state \in {"PROVISIONING", "TERMINATING"} /\ ~run[q].handle
                /\ run'[q].state = "TERMINATED" /\ ~run'[q].handle
          /\ sweep'[q] \in {"no", "listed"}
          /\ sweep'[q] = "listed" => run'[q].handle
      BY <1>7, SweepEffect
    <3>2. sandbox[q] # "alive" /\ ~MayComeUp(q) => sandbox[q] \notin Up
      BY DEF MayComeUp, Up
    <3>3. RowTells(q)'
      BY <1>0, <2>1, <3>1, <3>2 DEF RowTells
    <3>4. OthersTell(q)
      BY <1>0, <2>1, <3>1 DEF OthersTell, RowTells
    <3> QED
      BY <3>3, <3>4
  <2> QED
    BY <1>0, <2>2, LedgerOthers
<1>8. CASE SweepCrash
  <2>1. UNCHANGED <<run, sandbox>> /\ \A q \in Runs : sweep'[q] = "no"
    BY <1>8 DEF SweepCrash, rows
  <2>2. ASSUME NEW q \in Runs PROVE OthersTell(q) /\ RowTells(q)'
    BY <1>0, <2>1 DEF OthersTell, RowTells
  <2> QED
    BY <1>0, <2>2, LedgerOthers
<1>9. ASSUME NEW j \in Jobs, ClaimElsewhere(j) \/ FinishElsewhere(j) \/ Cancel(j) PROVE Ledger'
  BY <1>1, <1>9 DEF ClaimElsewhere, FinishElsewhere, Cancel
<1>10. CASE SweepHandoffs \/ UNCHANGED vars
  BY <1>1, <1>10 DEF SweepHandoffs, vars
<1>11. ASSUME NEW s \in Slots, ExpireLease(s) PROVE Ledger'
  BY <1>1, <1>11 DEF ExpireLease
<1>12. ASSUME NEW aged, CleanupLeases(aged) PROVE Ledger'
  BY <1>1, <1>12 DEF CleanupLeases
<1> QED
  BY <1>2, <1>3, <1>4, <1>5, <1>6, <1>7, <1>8, <1>9, <1>10, <1>11, <1>12 DEF Next, SweepStepOf

\* Every step keeps the ledger.
LEMMA LedgerStep ==
  ASSUME TypeOK, TypeOK', Memory, Ledger, [Next]_vars
  PROVE  Ledger'
<1>0. worker \in [Workers -> Worker]
  BY DEF TypeOK
<1>1. ASSUME NEW w \in Workers, Acquire(w) PROVE Ledger'
  BY <1>0, <1>1, LedgerQuiet DEF Acquire, Goto, Worker
<1>2. ASSUME NEW w \in Workers, Claim(w) PROVE Ledger'
  <2>1. CASE Goto(w, "leaving") /\ UNCHANGED <<run, sandbox, sweep>>
    BY <2>1, GotoEffect, LedgerQuiet
  <2> QED
    BY <1>2, <2>1, LedgerClaim DEF Claim, Claims
<1>3. ASSUME NEW w \in Workers, Leave(w) \/ Crash(w) PROVE Ledger'
  BY <1>3, GotoEffect, LedgerQuiet DEF Leave, Crash, rows
<1>4. ASSUME NEW w \in Workers, RecordOutcome(w) \/ RejectReroute(w) PROVE Ledger'
  BY <1>4, GotoEffect, LedgerQuiet DEF RecordOutcome, RejectReroute, rows
<1>5. ASSUME NEW w \in Workers, Heartbeat(w) PROVE Ledger'
  BY <1>5, LedgerQuiet DEF Heartbeat
<1>6. CASE \A w \in Workers : ~(WorkerStep(w) \/ Heartbeat(w) \/ Crash(w))
  BY <1>6, LedgerSweep
<1> QED
  BY <1>1, <1>2, <1>3, <1>4, <1>5, <1>6, LedgerWorker DEF WorkerStep

-----------------------------------------------------------------------------
(* Leases are kept.                                                        *)

\* What no step takes from a worker that has had a job: its memory; and no step gives
\* it a job back.
KeepsMemory(v) ==
  /\ worker'[v].slot = worker[v].slot /\ worker'[v].job = worker[v].job
  /\ worker'[v].attempt = worker[v].attempt
  /\ worker[v].pc \in {"leaving", "done"} => worker'[v].pc \in {"leaving", "done"}
  /\ job'[worker[v].job].status = "RUNNING" /\ job'[worker[v].job].by = v => Owns(v)

\* Every step keeps that memory.
LEMMA TakenKept ==
  ASSUME TypeOK, Memory, [Next]_vars, NEW v \in Workers, Took(v)
  PROVE  /\ worker'[v].slot = worker[v].slot /\ worker'[v].job = worker[v].job
         /\ worker'[v].attempt = worker[v].attempt
         /\ Took(v)' /\ RunOf(v)' = RunOf(v)
         /\ worker[v].pc \in {"leaving", "done"} => worker'[v].pc \in {"leaving", "done"}
         /\ Owns(v)' => Owns(v)
<1>0. /\ \A w \in Workers : WorkerKnows(w)
      /\ worker[v].job \in Jobs /\ worker[v].pc \notin {"off", "leased"}
  BY RunOfTyped DEF Memory, WorkerKnows
<1>1. SUFFICES KeepsMemory(v)
  BY DEF KeepsMemory, Took, RunOf, Owns
<1>2. ASSUME NEW w \in Workers, Acquire(w) PROVE KeepsMemory(v)
  <2>1. w # v /\ UNCHANGED job
    BY <1>0, <1>2 DEF Acquire, At
  <2>2. worker'[v] = worker[v]
    BY <1>2, <2>1 DEF Acquire, Goto, TypeOK
  <2> QED
    BY <2>1, <2>2 DEF KeepsMemory, Owns
<1>3. ASSUME NEW w \in Workers, NEW j \in Jobs, Claims(w, j) PROVE KeepsMemory(v)
  <2>1. w # v
    BY <1>0, <1>3 DEF Claims, At
  <2>2. worker'[v] = worker[v] /\ job'[j].by = w /\ \A i \in Jobs \ {j} : job'[i] = job[i]
    BY <1>3, <2>1, ClaimEffect
  <2> QED
    BY <1>0, <2>1, <2>2 DEF KeepsMemory, Owns
<1>4. ASSUME WorkersMove, JobsStay \/ \E j \in Jobs : ClaimElsewhere(j) PROVE KeepsMemory(v)
  <2>1. job'[worker[v].job].status = "RUNNING" /\ job'[worker[v].job].by = v => Owns(v)
    <3>1. CASE JobsStay
      BY <1>0, <3>1 DEF JobsStay, Owns
    <3>2. ASSUME NEW j \in Jobs, ClaimElsewhere(j)
          PROVE  job'[worker[v].job].status = "RUNNING" /\ job'[worker[v].job].by = v => Owns(v)
      <4>1. job'[j].by = Elsewhere /\ \A i \in Jobs \ {j} : job'[i] = job[i]
        BY <3>2, ElsewhereEffect
      <4> QED
        BY <1>0, <4>1, ConstantsAssumption DEF Owns
    <3> QED
      BY <1>4, <3>1, <3>2
  <2> QED
    BY <1>4, <2>1 DEF KeepsMemory, WorkersMove
<1>5. CASE \E w \in Workers : Claim(w)
  <2>1. PICK w \in Workers : Claim(w)
    BY <1>5
  <2>2. CASE WorkersMove /\ UNCHANGED job
    BY <2>2, <1>4 DEF JobsStay
  <2> QED
    BY <2>1, <2>2, <1>3, ClaimSplit
<1>6. CASE \A w \in Workers : ~Claim(w)
  <2>1. JobsStay \/ \E j \in Jobs : ClaimElsewhere(j)
    BY <1>0, <1>6, JobsStayStep
  <2>2. CASE \E w \in Workers : Acquire(w)
    BY <2>2, <1>2
  <2>3. CASE \A w \in Workers : ~Acquire(w)
    <3>1. WorkersMove
      <4>1. CASE \E w \in Workers : WorkerStep(w) \/ Heartbeat(w) \/ Crash(w)
        BY <1>6, <2>3, <4>1, WorkerMoves
      <4>2. CASE \A w \in Workers : ~(WorkerStep(w) \/ Heartbeat(w) \/ Crash(w))
        BY <4>2, OthersLeaveWorkers DEF WorkersMove
      <4> QED
        BY <4>1, <4>2
    <3> QED
      BY <2>1, <3>1, <1>4
  <2> QED
    BY <2>2, <2>3
<1> QED
  BY <1>5, <1>6

\* A run appears in one way, and a closed run stays closed.
RunsMove ==
  \A r \in Runs :
    /\ run[r].state # "NONE" => run'[r].state # "NONE"
    /\ run[r].state = "TERMINATED" => run'[r].state = "TERMINATED"
    /\ run[r].state = "NONE" /\ run'[r].state # "NONE" =>
         \E w \in Workers : CreateRun(w) /\ MayLaunch(w) /\ RunOf(w) = r

\* Every step moves the runs in this way only.
LEMMA RunsMoveStep ==
  ASSUME TypeOK, Memory, Ledger, [Next]_vars
  PROVE  RunsMove
<1>1. CASE UNCHANGED run
  BY <1>1 DEF RunsMove
<1>2. ASSUME NEW w \in Workers, CreateRun(w) PROVE RunsMove
  <2>1. CASE MayLaunch(w) /\ run' = [run EXCEPT ![RunOf(w)].state = "PROVISIONING"]
    <3>1. RunOf(w) \in Runs /\ PlaceTells(w) /\ worker[w].pc = "claimed"
      BY <1>2, BusyKnows DEF CreateRun, At, Busy
    <3>2. /\ run[RunOf(w)].state = "NONE"
          /\ \A q \in Runs \ {RunOf(w)} : run'[q] = run[q]
      BY <2>1, <3>1 DEF PlaceTells, TypeOK
    <3> QED
      BY <1>2, <2>1, <3>2 DEF RunsMove
  <2> QED
    BY <1>1, <1>2, <2>1 DEF CreateRun
<1>3. ASSUME NEW r \in Runs, run[r].state # "NONE",
             run' \in {Terminating(r), Failed(r), Terminated(r), LateHandle(r)}
      PROVE  RunsMove
  <2>1. /\ run'[r].state # "NONE"
        /\ run[r].state = "TERMINATED" => run'[r].state = "TERMINATED"
        /\ \A q \in Runs \ {r} : run'[q] = run[q]
    BY <1>3, RunEffect
  <2> QED
    BY <1>3, <2>1 DEF RunsMove
<1>4. ASSUME NEW w \in Workers, MarkProvisioned(w) PROVE RunsMove
  <2>1. RunOf(w) \in Runs /\ run[RunOf(w)].state # "NONE"
    BY <1>4, BusyKnows DEF MarkProvisioned, At, Busy, PlaceTells
  <2>2. CASE /\ run[RunOf(w)].state # "TERMINATED"
             /\ run' = [run EXCEPT ![RunOf(w)] = [state |-> "RUNNING", handle |-> TRUE]]
    BY <2>1, <2>2 DEF RunsMove, TypeOK
  <2> QED
    BY <1>1, <1>3, <1>4, <2>1, <2>2 DEF MarkProvisioned
<1>5. ASSUME NEW w \in Workers,
             RequestTermination(w) \/ MarkTerminated(w) \/ MarkFailed(w)
      PROVE  RunsMove
  <2>1. RunOf(w) \in Runs /\ run[RunOf(w)].state # "NONE"
    BY <1>5, BusyKnows DEF RequestTermination, MarkTerminated, MarkFailed, At, Busy, PlaceTells
  <2> QED
    BY <1>3, <1>5, <2>1 DEF RequestTermination, MarkTerminated, MarkFailed
<1>6. ASSUME NEW w \in Workers, Reroute(w) PROVE RunsMove
  <2>1. RunOf(w) \in Runs /\ run[RunOf(w)].state # "NONE"
    BY <1>6, BusyKnows DEF Reroute, MayReroute, At, Busy
  <2> QED
    BY <1>1, <1>3, <1>6, <2>1 DEF Reroute
<1>7. ASSUME NEW r \in Runs, SweepRequest(r) \/ SweepMark(r) PROVE RunsMove
  <2>1. run[r].state # "NONE"
    BY <1>7 DEF SweepRequest, SweepMark, Ledger, RowTells
  <2> QED
    BY <1>3, <1>7, <2>1 DEF SweepRequest, SweepMark
<1>8. ASSUME NEW inventory \in BOOLEAN, NEW S \in SUBSET RunningJobs, NEW F \in SUBSET Runs,
             SweepTransaction(inventory, S, F)
      PROVE  RunsMove
  BY <1>8, SweepEffect DEF RunsMove
<1>9. ASSUME NEW w \in Workers, WorkerStep(w) \/ Heartbeat(w) \/ Crash(w) PROVE RunsMove
  <2>1. CASE Acquire(w) \/ Claim(w) \/ Leave(w) \/ Heartbeat(w) \/ Crash(w)
    BY <1>1, <2>1 DEF Acquire, Claim, Leave, Heartbeat, Crash, rows
  <2>2. CASE RequestSandbox(w) \/ EndExecution(w) \/ Teardown(w)
    BY <1>1, <2>2 DEF RequestSandbox, EndExecution, Teardown, rows
  <2>3. CASE RecordOutcome(w) \/ RejectReroute(w)
    BY <1>1, <2>3 DEF RecordOutcome, RejectReroute, rows
  <2> QED
    BY <1>2, <1>4, <1>5, <1>6, <1>9, <2>1, <2>2, <2>3 DEF WorkerStep
<1>10. ASSUME NEW r \in Runs, ProviderAnswers(r) \/ ProviderStops(r) PROVE RunsMove
  BY <1>1, <1>10 DEF ProviderAnswers, ProviderStops, rows
<1>11. ASSUME NEW r \in Runs, NEW ok \in BOOLEAN, SweepTeardown(r, ok) PROVE RunsMove
  BY <1>1, <1>11 DEF SweepTeardown, rows
<1>12. ASSUME NEW j \in Jobs, ClaimElsewhere(j) \/ FinishElsewhere(j) \/ Cancel(j) PROVE RunsMove
  BY <1>1, <1>12 DEF ClaimElsewhere, FinishElsewhere, Cancel
<1>13. CASE SweepHandoffs \/ SweepCrash \/ UNCHANGED vars
  BY <1>1, <1>13 DEF SweepHandoffs, SweepCrash, vars, rows
<1>14. ASSUME NEW s \in Slots, ExpireLease(s) PROVE RunsMove
  BY <1>1, <1>14 DEF ExpireLease
<1>15. ASSUME NEW aged, CleanupLeases(aged) PROVE RunsMove
  BY <1>1, <1>15 DEF CleanupLeases
<1> QED
  BY <1>7, <1>8, <1>9, <1>10, <1>11, <1>12, <1>13, <1>14, <1>15 DEF Next, SweepStepOf

\* A worker keeps a lease while its run stands for a sandbox, or its job is its own
\* and its step is in the attempt.
Holding(v) == worker[v].pc \notin {"leaving", "done"} /\ Owns(v)
Keeps(v) == ActiveRun(RunOf(v)) \/ Holding(v)

LeaseInv == \A v \in Workers : Took(v) /\ Keeps(v) => HasLease(v)

\* The two properties of leases in one formula.
LEMMA LeaseInvMeans ==
  LeaseInv <=> RunnerKeepsLease /\ RunKeepsLease
  BY DEF LeaseInv, Keeps, Holding, Took, HasLease, RunnerKeepsLease, RunKeepsLease

\* No statement that takes or clears expired leases takes that of such a worker.
LEMMA KeptIsBusy ==
  ASSUME TypeOK, Memory, NEW v \in Workers, Took(v), Keeps(v), HasLease(v)
  PROVE  ~Available(worker[v].slot) /\ ~Clearable(worker[v].slot)
<1> DEFINE s == worker[v].slot
<1>1. /\ worker[v].job \in Jobs /\ worker[v].job # NoJob /\ worker[v].attempt \in Attempts
      /\ lease[s].by = v /\ lease[s].job = worker[v].job /\ v # NoOne
  BY RunOfTyped, ConstantsAssumption DEF Memory, HasLease
<1>2. HolderRuns(s) \/ HasActiveRun(lease[s].job)
  BY <1>1 DEF Keeps, Holding, Owns, HolderRuns, HasActiveRun, RunOf
<1> QED
  BY <1>1, <1>2 DEF Available, Clearable

\* A worker that keeps a lease after a step had to keep it before: a run is created
\* by a worker whose job is its own.
LEMMA KeepsStep ==
  ASSUME TypeOK, TypeOK', Memory, Ledger, [Next]_vars, Ledger',
         NEW v \in Workers, Took(v), Keeps(v)'
  PROVE  Keeps(v)
<1> DEFINE r == RunOf(v)
<1>1. /\ worker'[v].pc \notin {"leaving", "done"} => worker[v].pc \notin {"leaving", "done"}
      /\ RunOf(v)' = r
      /\ Owns(v)' => Owns(v)
  BY TakenKept
<1>2. CASE Holding(v)'
  BY <1>1, <1>2 DEF Holding, Keeps
<1>3. CASE ActiveRun(RunOf(v))'
  <2>1. r \in Runs /\ run'[r].state \notin {"NONE", "TERMINATED"}
    BY <1>1, <1>3, RunOfTyped DEF ActiveRun, Memory
  <2>2. run[r].state # "TERMINATED" /\ RowTells(r)
    BY <2>1, RunsMoveStep DEF RunsMove, Ledger
  <2>3. CASE run[r].state # "NONE"
    BY <2>2, <2>3 DEF Keeps, ActiveRun, RowTells
  <2>4. CASE run[r].state = "NONE"
    <3>1. PICK w \in Workers : CreateRun(w) /\ MayLaunch(w) /\ RunOf(w) = r
      BY <2>1, <2>4, RunsMoveStep DEF RunsMove
    <3>2. w = v
      BY <3>1 DEF Memory, OneWorkerPerRun
    <3>3. worker[v].pc = "claimed" /\ Current(RunOf(v))
      BY <3>1, <3>2 DEF CreateRun, MayLaunch, At
    <3>4. job[worker[v].job].by = v
      BY <3>3 DEF Memory, CurrentIsOwned
    <3>5. RunOf(v)[1] = worker[v].job
      BY RunOfTyped DEF Memory
    <3> QED
      BY <3>3, <3>4, <3>5 DEF Keeps, Holding, Owns, Current
  <2> QED
    BY <2>3, <2>4
<1> QED
  BY <1>2, <1>3 DEF Keeps

\* The lease of a slot is for whom and for what it was.
LeaseStays(s) == lease'[s].by = lease[s].by /\ lease'[s].job = lease[s].job

\* The lease that a worker keeps through a step stays in its name.
LEMMA LeaseKept ==
  ASSUME TypeOK, TypeOK', Memory, Ledger, Ledger', [Next]_vars,
         NEW v \in Workers, Took(v), Keeps(v), HasLease(v), Keeps(v)'
  PROVE  HasLease(v)'
<1> DEFINE s == worker[v].slot
           r == RunOf(v)
<1>1. /\ worker'[v].slot = s /\ worker'[v].job = worker[v].job
      /\ RunOf(v)' = r
      /\ s \in Slots /\ worker[v].job \in Jobs /\ worker[v].job # NoJob
      /\ lease[s].by = v /\ lease[s].job = worker[v].job
      /\ r = <<worker[v].job, worker[v].attempt>> /\ worker[v].attempt \in Attempts
  BY TakenKept, RunOfTyped, ConstantsAssumption DEF Memory, WorkerKnows, HasLease, RunOf
<1>2. SUFFICES LeaseStays(s)
  BY <1>1 DEF LeaseStays, HasLease
<1>3. ~Available(s) /\ ~Clearable(s)
  BY KeptIsBusy
<1>4. lease \in [Slots -> Lease]
  BY DEF TypeOK
<1>5. CASE UNCHANGED lease
  BY <1>5 DEF LeaseStays
<1>6. ASSUME NEW w \in Workers, Acquire(w) PROVE LeaseStays(s)
  <2>1. ASSUME NEW t \in Slots, Available(t),
               lease' = [lease EXCEPT ![t] = [by |-> w, job |-> NoJob, live |-> TRUE]]
        PROVE  LeaseStays(s)
    <3>1. t # s
      BY <1>3, <2>1
    <3> QED
      BY <1>4, <2>1, <3>1 DEF LeaseStays
  <2> QED
    BY <1>5, <1>6, <2>1 DEF Acquire
<1>7. ASSUME NEW w \in Workers, NEW j \in Jobs, Claims(w, j) PROVE LeaseStays(s)
  <2>1. lease[worker[w].slot].by = w /\ w # v
    BY <1>7, ClaimEffect, ClaimHolds
  <2> QED
    BY <1>1, <1>4, <1>7, <2>1 DEF Claims, LeaseStays
<1>8. ASSUME NEW w \in Workers, Heartbeat(w) PROVE LeaseStays(s)
  <2>1. lease'[s] \in {lease[s], [lease[s] EXCEPT !.live = TRUE]} /\ lease[s] \in Lease
    BY <1>1, <1>4, <1>8 DEF Heartbeat
  <2> QED
    BY <2>1 DEF LeaseStays, Lease
<1>9. ASSUME NEW w \in Workers, Leave(w) PROVE LeaseStays(s)
  <2>1. CASE lease'[s] = lease[s]
    BY <2>1 DEF LeaseStays
  <2>2. CASE lease'[s] # lease[s]
    <3>1. w = v /\ ~HasActiveRun(lease[s].job)
      BY <1>1, <1>9, <2>2 DEF Leave, Released
    <3>2. worker'[v].pc = "done" /\ UNCHANGED run
      BY <1>9, <3>1, GotoEffect DEF Leave
    <3>3. ActiveRun(r)
      BY <1>1, <3>2 DEF Keeps, Holding, ActiveRun
    <3> QED
      BY <1>1, <3>1, <3>3 DEF HasActiveRun
  <2> QED
    BY <2>1, <2>2
<1>10. ASSUME NEW w \in Workers, Reroute(w) PROVE LeaseStays(s)
  <2>1. CASE lease'[s] = lease[s]
    BY <2>1 DEF LeaseStays
  <2>2. CASE lease'[s] # lease[s]
    <3>1. w = v /\ ~TeardownPending(r)
      BY <1>1, <1>10, <2>2 DEF Reroute
    <3>2. worker'[v].pc = "leaving"
      BY <1>10, <3>1, GotoEffect DEF Reroute
    <3>3. run'[r].state = "TERMINATED"
      <4>1. r \in Runs
        BY <1>1 DEF Runs
      <4>2. run[r].handle => run[r].state = "TERMINATED" /\ run' = run
        BY <1>10, <3>1 DEF Reroute, TeardownPending
      <4>3. ~run[r].handle => run' = Terminated(r)
        BY <1>10, <3>1 DEF Reroute
      <4> QED
        BY <4>1, <4>2, <4>3, RunEffect
    <3> QED
      BY <1>1, <3>2, <3>3 DEF Keeps, Holding, ActiveRun
  <2> QED
    BY <2>1, <2>2
<1>11. ASSUME NEW jobs, NEW runs,
              job' = HandedOff(jobs, runs), lease' = HandoffLeases(jobs, runs),
              \A j \in Jobs : JobOK(jobs[j])
       PROVE  LeaseStays(s)
  <2> DEFINE j == worker[v].job
  <2>1. CASE lease'[s] = lease[s]
    BY <2>1 DEF LeaseStays
  <2>2. CASE lease'[s] # lease[s]
    <3>1. HandoffReady(jobs, runs, j) /\ ~HasActiveRun(j)
      BY <1>1, <1>11, <2>2 DEF HandoffLeases
    <3>2. job'[j].status = "RETRYING"
      BY <1>1, <1>11, <3>1, HandedOffKeeps DEF HandoffReady
    <3>3. ActiveRun(r)'
      BY <1>1, <3>2 DEF Keeps, Holding, Owns
    <3>4. ~ActiveRun(r)
      BY <1>1, <3>1 DEF HasActiveRun
    <3>5. r \in Runs /\ run[r].state \in {"NONE", "TERMINATED"}
      BY <1>1, <3>4 DEF ActiveRun, Ledger, RowTells, Runs
    <3>6. run[r].state = "NONE" /\ run'[r].state # "NONE"
      BY <1>1, <3>3, <3>5, RunsMoveStep DEF RunsMove, ActiveRun
    <3>7. PICK w \in Workers : CreateRun(w)
      BY <3>5, <3>6, RunsMoveStep DEF RunsMove
    <3> QED
      BY <3>7, <1>5 DEF CreateRun
  <2> QED
    BY <2>1, <2>2
<1>12. ASSUME NEW inventory \in BOOLEAN, NEW S \in SUBSET RunningJobs, NEW F \in SUBSET Runs,
              SweepTransaction(inventory, S, F)
       PROVE  LeaseStays(s)
  <2> DEFINE jobs2 == SweepJobs(inventory, S)
             runs1 == SweepRuns(inventory, S)
  <2>1. job' = HandedOff(jobs2, runs1) /\ lease' = HandoffLeases(jobs2, runs1)
    BY <1>12 DEF SweepTransaction, SweepJobs, SweepRuns
  <2>2. \A j \in Jobs : JobOK(jobs2[j])
    BY SweepRowsTyped
  <2> QED
    BY <2>1, <2>2, <1>11
<1>13. CASE SweepHandoffs
  <2>1. \A j \in Jobs : JobOK(job[j])
    BY DEF TypeOK, JobOK
  <2> QED
    BY <1>11, <1>13, <2>1 DEF SweepHandoffs
<1>14. ASSUME NEW t \in Slots, ExpireLease(t) PROVE LeaseStays(s)
  BY <1>1, <1>4, <1>14 DEF ExpireLease, LeaseStays, Lease
<1>15. ASSUME NEW aged, CleanupLeases(aged) PROVE LeaseStays(s)
  BY <1>1, <1>3, <1>15 DEF CleanupLeases, LeaseStays
<1>16. ASSUME NEW w \in Workers, WorkerStep(w) \/ Crash(w) PROVE LeaseStays(s)
  <2>1. ASSUME Claim(w) PROVE LeaseStays(s)
    BY <1>5, <1>7, <2>1, ClaimSplit
  <2>2. CASE CreateRun(w) \/ RequestSandbox(w) \/ MarkProvisioned(w) \/ EndExecution(w)
    BY <1>5, <2>2 DEF CreateRun, RequestSandbox, MarkProvisioned, EndExecution, rows
  <2>3. CASE RequestTermination(w) \/ Teardown(w) \/ MarkTerminated(w) \/ MarkFailed(w)
    BY <1>5, <2>3 DEF RequestTermination, Teardown, MarkTerminated, MarkFailed, rows
  <2>4. CASE RecordOutcome(w) \/ RejectReroute(w) \/ Crash(w)
    BY <1>5, <2>4 DEF RecordOutcome, RejectReroute, Crash, rows
  <2> QED
    BY <1>6, <1>9, <1>10, <1>16, <2>1, <2>2, <2>3, <2>4 DEF WorkerStep
<1>17. ASSUME NEW q \in Runs, ProviderAnswers(q) \/ ProviderStops(q) \/ SweepStepOf(q)
       PROVE  LeaseStays(s)
  BY <1>5, <1>17 DEF ProviderAnswers, ProviderStops, SweepStepOf, SweepRequest, SweepTeardown,
     SweepMark, rows
<1>18. ASSUME NEW j \in Jobs, ClaimElsewhere(j) \/ FinishElsewhere(j) \/ Cancel(j)
       PROVE  LeaseStays(s)
  BY <1>5, <1>18 DEF ClaimElsewhere, FinishElsewhere, Cancel
<1>19. CASE SweepCrash \/ UNCHANGED vars
  BY <1>5, <1>19 DEF SweepCrash, vars, rows
<1> QED
  BY <1>8, <1>12, <1>13, <1>14, <1>15, <1>16, <1>17, <1>18, <1>19 DEF Next

\* Every step keeps the leases that are needed.
LEMMA LeaseStep ==
  ASSUME TypeOK, TypeOK', Memory, Ledger, Ledger', LeaseInv, [Next]_vars
  PROVE  LeaseInv'
<1> SUFFICES ASSUME NEW v \in Workers, Took(v)', Keeps(v)' PROVE HasLease(v)'
  BY DEF LeaseInv
<1>1. CASE Took(v)
  <2>1. Keeps(v)
    BY <1>1, KeepsStep
  <2> QED
    BY <1>1, <2>1, LeaseKept DEF LeaseInv
<1>2. CASE ~Took(v)
  <2>1. PICK w \in Workers, j \in Jobs : Claims(w, j)
    <3>1. CASE \A w \in Workers : ~Claim(w)
      <4>1. CASE \E w \in Workers : WorkerStep(w) \/ Heartbeat(w) \/ Crash(w)
        <5>1. PICK w \in Workers : WorkersMove \/ Acquire(w)
          BY <3>1, <4>1, WorkerMoves
        <5>2. CASE Acquire(w)
          BY <1>2, <5>2 DEF Acquire, Goto, Took, TypeOK, Worker
        <5>3. CASE WorkersMove
          BY <1>2, <5>3 DEF WorkersMove, Took
        <5> QED
          BY <5>1, <5>2, <5>3
      <4>2. CASE \A w \in Workers : ~(WorkerStep(w) \/ Heartbeat(w) \/ Crash(w))
        BY <1>2, <4>2, OthersLeaveWorkers DEF Took
      <4> QED
        BY <4>1, <4>2
    <3>2. ASSUME NEW w \in Workers, Claim(w), WorkersMove PROVE FALSE
      BY <1>2, <3>2 DEF WorkersMove, Took
    <3> QED
      BY <3>1, <3>2, ClaimSplit
  <2>2. /\ worker[w].slot \in Slots /\ worker'[w].slot = worker[w].slot
        /\ worker'[w].job = j /\ \A u \in Workers \ {w} : worker'[u] = worker[u]
        /\ lease[worker[w].slot].by = w
    BY <2>1, ClaimEffect, ClaimHolds
  <2>3. w = v
    BY <1>2, <2>2 DEF Took
  <2>4. lease'[worker[w].slot].by = w /\ lease'[worker[w].slot].job = j
    <3>1. lease \in [Slots -> Lease] /\ lease[worker[w].slot] \in Lease
      BY <2>2 DEF TypeOK
    <3>2. lease' = [lease EXCEPT ![worker[w].slot] =
                      [lease[worker[w].slot] EXCEPT !.job = j, !.live = TRUE]]
      BY <2>1 DEF Claims
    <3> QED
      BY <2>2, <3>1, <3>2 DEF Lease
  <2> QED
    BY <2>2, <2>3, <2>4 DEF HasLease
<1> QED
  BY <1>1, <1>2

-----------------------------------------------------------------------------
(* Handoffs wait.                                                          *)

\* What a step may do to the handoff of a job: nothing, as a job that waits is not
\* claimed; begin it; or complete it over a closed run.
HandoffMoves(j) ==
  \/ /\ job'[j].lane = job[j].lane /\ job'[j].pending = job[j].pending
     /\ \/ /\ job'[j].attempts = job[j].attempts
           /\ job'[j].status = "RUNNING" => job[j].status = "RUNNING"
        \/ ~job[j].pending
  \/ \E w \in Workers : Reroute(w) /\ worker[w].job = j
  \/ /\ job'[j].lane = job[j].lane /\ job[j].pending /\ ~job'[j].pending
     /\ <<j, job[j].attempts>> \in Runs => run'[<<j, job[j].attempts>>].state = "TERMINATED"

\* The handoffs that the sweep completes are over a closed run.
LEMMA HandedOffMoves ==
  ASSUME TypeOK, NEW jobs, NEW runs,
         job' = HandedOff(jobs, runs), \A j \in Jobs : JobOK(jobs[j]),
         \A r \in Runs : runs[r].state = "TERMINATED" => run'[r].state = "TERMINATED",
         NEW j \in Jobs,
         jobs[j].attempts = job[j].attempts, jobs[j].lane = job[j].lane,
         jobs[j].pending = job[j].pending,
         jobs[j].status = "RUNNING" => job[j].status = "RUNNING"
  PROVE  HandoffMoves(j)
<1>1. /\ job'[j].attempts = jobs[j].attempts /\ job'[j].lane = jobs[j].lane
      /\ job'[j].status = jobs[j].status
      /\ job'[j].pending # jobs[j].pending => HandoffReady(jobs, runs, j) /\ ~job'[j].pending
  BY HandedOffKeeps
<1>2. CASE job'[j].pending = jobs[j].pending
  BY <1>1, <1>2 DEF HandoffMoves
<1>3. CASE job'[j].pending # jobs[j].pending
  <2>1. /\ jobs[j].pending /\ ~job'[j].pending
        /\ runs[<<j, job[j].attempts>>].state = "TERMINATED"
    BY <1>1, <1>3 DEF HandoffReady
  <2> QED
    BY <1>1, <2>1 DEF HandoffMoves
<1> QED
  BY <1>2, <1>3

\* Every step moves the handoffs in this way only.
LEMMA HandoffStep ==
  ASSUME TypeOK, Memory, Ledger, [Next]_vars, NEW j \in Jobs
  PROVE  HandoffMoves(j)
<1>0. /\ job \in [Jobs -> Job] /\ job[j] \in Job /\ \A i \in Jobs : JobOK(job[i])
      /\ \A w \in Workers : WorkerKnows(w)
  BY DEF TypeOK, JobOK, Memory
<1>1. CASE UNCHANGED job
  BY <1>1 DEF HandoffMoves
<1>2. ASSUME NEW w \in Workers, Claim(w) PROVE HandoffMoves(j)
  <2>1. ASSUME NEW i \in Jobs, Claims(w, i) PROVE HandoffMoves(j)
    <3>1. /\ job'[i].lane = job[i].lane /\ job'[i].pending = job[i].pending
          /\ \A k \in Jobs \ {i} : job'[k] = job[k]
      BY <2>1, ClaimEffect
    <3>2. ~job[i].pending
      BY <2>1 DEF Claims, Claimable
    <3> QED
      BY <3>1, <3>2 DEF HandoffMoves
  <2> QED
    BY <1>1, <1>2, <2>1, ClaimSplit
<1>3. ASSUME NEW i \in Jobs, ClaimElsewhere(i) PROVE HandoffMoves(j)
  BY <1>3, ElsewhereEffect DEF HandoffMoves
<1>4. ASSUME NEW w \in Workers, MarkProvisioned(w) PROVE HandoffMoves(j)
  <2>1. job' = job \/ job' = [job EXCEPT ![RunOf(w)[1]].handle = TRUE]
    BY <1>4 DEF MarkProvisioned
  <2> QED
    BY <1>0, <2>1 DEF HandoffMoves, Job
<1>5. ASSUME NEW w \in Workers, RecordOutcome(w) PROVE HandoffMoves(j)
  <2>1. \A row \in Job :
          /\ PutBack(row).attempts = row.attempts /\ PutBack(row).lane = row.lane
          /\ PutBack(row).pending = row.pending /\ PutBack(row).status # "RUNNING"
    BY DEF PutBack, Job
  <2>2. \/ job'[j] = job[j]
        \/ job'[j] = PutBack(job[j])
        \/ job'[j] = [job[j] EXCEPT !.status = "OVER"]
    BY <1>0, <1>5 DEF RecordOutcome
  <2> QED
    BY <1>0, <2>1, <2>2 DEF HandoffMoves, Job
<1>6. ASSUME NEW w \in Workers, Reroute(w) PROVE HandoffMoves(j)
  <2>1. CASE worker[w].job = j
    BY <1>6, <2>1 DEF HandoffMoves
  <2>2. CASE worker[w].job # j
    <3>1. RunOf(w)[1] = worker[w].job
      BY DEF RunOf
    <3>2. job'[j] = job[j]
      BY <1>0, <1>6, <2>2, <3>1 DEF Reroute
    <3> QED
      BY <3>2 DEF HandoffMoves
  <2> QED
    BY <2>1, <2>2
<1>7. ASSUME NEW i \in Jobs, FinishElsewhere(i) \/ Cancel(i) PROVE HandoffMoves(j)
  BY <1>0, <1>7 DEF FinishElsewhere, Cancel, HandoffMoves, Job
<1>8. ASSUME NEW inventory \in BOOLEAN, NEW S \in SUBSET RunningJobs, NEW F \in SUBSET Runs,
             SweepTransaction(inventory, S, F)
      PROVE  HandoffMoves(j)
  <2> DEFINE jobs2 == SweepJobs(inventory, S)
             runs1 == SweepRuns(inventory, S)
  <2>1. /\ job' = HandedOff(jobs2, runs1)
        /\ run' = [q \in Runs |-> IF q \in F THEN [runs1[q] EXCEPT !.state = "TERMINATED"]
                                  ELSE runs1[q]]
    BY <1>8 DEF SweepTransaction, SweepJobs, SweepRuns
  <2>2. (\A i \in Jobs : JobOK(jobs2[i])) /\ runs1 \in [Runs -> Run]
    BY SweepRowsTyped
  <2>3. /\ jobs2[j].attempts = job[j].attempts /\ jobs2[j].lane = job[j].lane
        /\ jobs2[j].pending = job[j].pending
        /\ jobs2[j].status = "RUNNING" => job[j].status = "RUNNING"
    BY SweepKeepsAttempts
  <2> HIDE DEF jobs2, runs1
  <2>4. \A r \in Runs : runs1[r].state = "TERMINATED" => run'[r].state = "TERMINATED"
    BY <2>1, <2>2 DEF Run
  <2> QED
    BY <2>1, <2>2, <2>3, <2>4, HandedOffMoves
<1>9. CASE SweepHandoffs
  BY <1>0, <1>9, HandedOffMoves DEF SweepHandoffs
<1>10. ASSUME NEW w \in Workers, WorkerStep(w) \/ Heartbeat(w) \/ Crash(w)
       PROVE  HandoffMoves(j)
  <2>1. CASE Acquire(w) \/ Leave(w) \/ CreateRun(w) \/ RequestSandbox(w) \/ EndExecution(w)
    BY <2>1, <1>1 DEF Acquire, Leave, CreateRun, RequestSandbox, EndExecution, rows
  <2>2. CASE RequestTermination(w) \/ Teardown(w) \/ MarkTerminated(w) \/ MarkFailed(w)
    BY <2>2, <1>1 DEF RequestTermination, Teardown, MarkTerminated, MarkFailed, rows
  <2>3. CASE RejectReroute(w) \/ Heartbeat(w) \/ Crash(w)
    BY <2>3, <1>1 DEF RejectReroute, Heartbeat, Crash, rows
  <2> QED
    BY <1>2, <1>4, <1>5, <1>6, <1>10, <2>1, <2>2, <2>3 DEF WorkerStep
<1>11. ASSUME NEW r \in Runs, ProviderAnswers(r) \/ ProviderStops(r) \/ SweepStepOf(r)
       PROVE  HandoffMoves(j)
  BY <1>1, <1>11 DEF ProviderAnswers, ProviderStops, SweepStepOf, SweepRequest, SweepTeardown,
     SweepMark, rows
<1>12. ASSUME NEW s \in Slots, ExpireLease(s) PROVE HandoffMoves(j)
  BY <1>1, <1>12 DEF ExpireLease
<1>13. ASSUME NEW aged, CleanupLeases(aged) PROVE HandoffMoves(j)
  BY <1>1, <1>13 DEF CleanupLeases
<1>14. CASE SweepCrash \/ UNCHANGED vars
  BY <1>1, <1>14 DEF SweepCrash, rows, vars
<1> QED
  BY <1>3, <1>7, <1>8, <1>9, <1>10, <1>11, <1>12, <1>13, <1>14 DEF Next

\* A job that is rerouted has its newest run, and waits for it unless it is closed.
LEMMA RerouteHands ==
  ASSUME TypeOK, Memory, Ledger, NEW w \in Workers, Reroute(w)
  PROVE  Handed(worker[w].job)'
<1> DEFINE r == RunOf(w)
           j == worker[w].job
           a == worker[w].attempt
<1>1. /\ r \in Runs /\ r = <<j, a>> /\ j \in Jobs /\ a \in Attempts /\ a \in Nat
      /\ run[r] \in Run
  <2>1. worker[w].pc \in Busy
    BY DEF Reroute, At, Busy
  <2>2. Took(w) /\ WorkerKnows(w)
    BY <2>1, BusyKnows
  <2> QED
    BY <2>2, RunOfTyped DEF RunOf, Attempts
<1>2. /\ job[j].status = "RUNNING" /\ job[j].attempts = a
      /\ run[r].state # "NONE"
      /\ run' = IF run[r].handle THEN run ELSE Terminated(r)
      /\ worker'[w].job = j
  <2>1. /\ MayReroute(w) /\ Goto(w, "leaving")
        /\ run' = IF run[r].handle THEN run ELSE Terminated(r)
    BY DEF Reroute
  <2>2. Current(r) /\ run[r].state # "NONE"
    BY <2>1 DEF MayReroute
  <2>3. worker'[w].job = j
    BY <2>1, GotoEffect
  <2>4. r[1] = j /\ r[2] = a
    BY <1>1
  <2> QED
    BY <2>1, <2>2, <2>3, <2>4 DEF Current
<1>3. /\ run'[r].state # "NONE" /\ \A q \in Runs \ {r} : run'[q] = run[q]
      /\ ~TeardownPending(r) => run'[r].state = "TERMINATED"
  BY <1>1, <1>2, RunEffect DEF TeardownPending
<1>4. /\ job'[j].attempts = a /\ job'[j].status = "RETRYING"
      /\ job'[j].pending = TeardownPending(r)
  <2>1. job \in [Jobs -> Job] /\ job[j] \in Job /\ r[1] = j
    BY <1>1 DEF TypeOK
  <2> DEFINE p == TeardownPending(r)
             new == [job[j] EXCEPT !.status = "RETRYING", !.by = NoOne, !.lane = "default",
                                   !.pending = p, !.handle = p]
  <2>2. job' = [job EXCEPT ![j] = new]
    BY <2>1 DEF Reroute
  <2>3. job'[j] = new
    BY <1>1, <2>1, <2>2
  <2> HIDE DEF p
  <2>4. new.attempts = job[j].attempts /\ new.status = "RETRYING" /\ new.pending = p
    BY <2>1 DEF Job
  <2> QED
    BY <1>2, <2>3, <2>4 DEF p
<1>5. ASSUME NEW b \in Attempts, b > a PROVE run'[<<j, b>>].state = "NONE"
  <2>1. <<j, b>> \in Runs /\ <<j, b>> # r /\ b \in Nat
    BY <1>1, <1>5 DEF Runs, Attempts
  <2>2. ASSUME NEW v \in Workers, Took(v), RunOf(v) = <<j, b>> PROVE FALSE
    <3>1. worker[v].job = j /\ worker[v].attempt = b
      BY <2>2 DEF RunOf
    <3> QED
      BY <1>1, <1>2, <1>5, <2>1, <2>2, <3>1 DEF Memory, WorkerKnows
  <2>3. run[<<j, b>>].state = "NONE"
    BY <2>1, <2>2 DEF Ledger, RunHasWorker
  <2> QED
    BY <1>3, <2>1, <2>3
<1>6. /\ ~job'[j].pending => run'[<<j, a>>].state = "TERMINATED"
      /\ job'[j].pending => a = job'[j].attempts /\ job'[j].status # "RUNNING"
      /\ run'[<<j, a>>].state # "NONE"
  BY <1>1, <1>3, <1>4
<1>7. \E c \in Attempts :
        /\ run'[<<j, c>>].state # "NONE"
        /\ \A b \in Attempts : b > c => run'[<<j, b>>].state = "NONE"
        /\ ~job'[j].pending => run'[<<j, c>>].state = "TERMINATED"
        /\ job'[j].pending => c = job'[j].attempts /\ job'[j].status # "RUNNING"
  BY <1>1, <1>5, <1>6
<1> QED
  BY <1>2, <1>7 DEF Handed

\* Every step keeps the rerouted jobs behind their last run.
LEMMA HandedStep ==
  ASSUME TypeOK, TypeOK', Memory, Ledger, \A j \in Jobs : Handed(j), [Next]_vars
  PROVE  \A j \in Jobs : Handed(j)'
<1> SUFFICES ASSUME NEW j \in Jobs PROVE Handed(j)'
  OBVIOUS
<1>1. CASE \E w \in Workers : Reroute(w) /\ worker[w].job = j
  <2>1. PICK w \in Workers : Reroute(w) /\ worker[w].job = j
    BY <1>1
  <2>2. worker'[w].job = worker[w].job
    BY <2>1, GotoEffect DEF Reroute
  <2> QED
    BY <2>1, <2>2, RerouteHands
<1>2. CASE ~\E w \in Workers : Reroute(w) /\ worker[w].job = j
  <2> SUFFICES ASSUME job'[j].lane = "default"
               PROVE  \E a \in Attempts :
                        /\ run'[<<j, a>>].state # "NONE"
                        /\ \A b \in Attempts : b > a => run'[<<j, b>>].state = "NONE"
                        /\ ~job'[j].pending => run'[<<j, a>>].state = "TERMINATED"
                        /\ job'[j].pending => a = job'[j].attempts /\ job'[j].status # "RUNNING"
    BY DEF Handed
  <2>1. HandoffMoves(j)
    BY HandoffStep
  <2>2. job[j].lane = "default"
    BY <1>2, <2>1 DEF HandoffMoves
  <2>3. PICK a \in Attempts :
          /\ run[<<j, a>>].state # "NONE"
          /\ \A b \in Attempts : b > a => run[<<j, b>>].state = "NONE"
          /\ ~job[j].pending => run[<<j, a>>].state = "TERMINATED"
          /\ job[j].pending => a = job[j].attempts /\ job[j].status # "RUNNING"
    BY <2>2 DEF Handed
  <2>4. \A b \in Attempts : <<j, b>> \in Runs
    BY DEF Runs
  <2>5. ASSUME NEW b \in Attempts, run[<<j, b>>].state = "NONE"
        PROVE  run'[<<j, b>>].state = "NONE"
    <3>1. ASSUME NEW w \in Workers, MayLaunch(w), RunOf(w) = <<j, b>> PROVE FALSE
      <4>1. worker[w].job = j
        BY <3>1 DEF RunOf
      <4> QED
        BY <2>2, <3>1, <4>1 DEF MayLaunch
    <3> QED
      BY <2>4, <2>5, <3>1, RunsMoveStep DEF RunsMove
  <2>6. /\ run'[<<j, a>>].state # "NONE"
        /\ run[<<j, a>>].state = "TERMINATED" => run'[<<j, a>>].state = "TERMINATED"
    BY <2>3, <2>4, RunsMoveStep DEF RunsMove
  <2>7. ~job'[j].pending => run'[<<j, a>>].state = "TERMINATED"
    BY <1>2, <2>1, <2>3, <2>4, <2>6 DEF HandoffMoves
  <2>8. job'[j].pending => a = job'[j].attempts /\ job'[j].status # "RUNNING"
    BY <1>2, <2>1, <2>3 DEF HandoffMoves
  <2> QED
    BY <2>3, <2>5, <2>6, <2>7, <2>8
<1> QED
  BY <1>1, <1>2

-----------------------------------------------------------------------------
(* The invariant and what it carries.                                      *)

\* The first states hold the invariant: nothing has been taken or written.
LEMMA InitLedgerInv == Init => LedgerInv
<1> SUFFICES ASSUME Init PROVE LedgerInv
  OBVIOUS
<1> USE ConstantsAssumption
<1>1. TypeOK
  BY InitTyped
<1>2. \A w \in Workers : ~Took(w) /\ worker[w].pc = "off" /\ worker[w].slot = NoSlot
                         /\ ~worker[w].miss
  BY DEF Init, Took
<1>3. Memory
  BY <1>2 DEF Memory, WorkerKnows, OneWorkerPerRun, CurrentIsOwned, Busy
<1>4. \A r \in Runs : run[r].state = "NONE" /\ ~run[r].handle /\ sandbox[r] = "none"
                      /\ sweep[r] = "no"
  BY DEF Init
<1>5. Ledger
  BY <1>2, <1>4 DEF Ledger, RowTells, RunHasWorker, PlaceTells
<1>6. RunnerKeepsLease /\ RunKeepsLease
  BY <1>2 DEF RunnerKeepsLease, RunKeepsLease, Took
<1>7. \A j \in Jobs : Handed(j)
  BY DEF Init, Handed
<1> QED
  BY <1>1, <1>3, <1>5, <1>6, <1>7 DEF LedgerInv

\* Every step keeps the invariant, layer by layer.
LEMMA StepLedgerInv == LedgerInv /\ [Next]_vars => LedgerInv'
<1> SUFFICES ASSUME LedgerInv, [Next]_vars PROVE LedgerInv'
  OBVIOUS
<1>0. /\ TypeOK /\ Memory /\ Ledger /\ LeaseInv /\ \A j \in Jobs : Handed(j)
      /\ \A w \in Workers : WorkerKnows(w)
  BY LeaseInvMeans DEF LedgerInv, Memory
<1>1. TypeOK'
  <2>1. CASE \E w \in Workers : WorkerStep(w) \/ Heartbeat(w) \/ Crash(w)
    BY <1>0, <2>1, TypeWorker
  <2>2. CASE \A w \in Workers : ~(WorkerStep(w) \/ Heartbeat(w) \/ Crash(w))
    BY <1>0, <2>2, TypeOthers
  <2> QED
    BY <2>1, <2>2
<1>2. Memory'
  BY <1>0, MemoryStep
<1>3. Ledger'
  BY <1>0, <1>1, LedgerStep
<1>4. LeaseInv'
  BY <1>0, <1>1, <1>3, LeaseStep
<1>5. RunnerKeepsLease' /\ RunKeepsLease'
  BY <1>4 DEF LeaseInv, Keeps, Holding, Took, HasLease, RunnerKeepsLease, RunKeepsLease
<1>6. \A j \in Jobs : Handed(j)'
  BY <1>0, <1>1, HandedStep
<1> QED
  BY <1>1, <1>2, <1>3, <1>5, <1>6 DEF LedgerInv

\* The invariant that carries the results below holds of every behaviour.
THEOREM LedgerInvariant == Spec => []LedgerInv
<1>1. LedgerInv /\ [Next]_vars => LedgerInv'
  BY StepLedgerInv
<1> QED
  BY <1>1, InitLedgerInv, PTL DEF Spec

\* The rows, the provider's sandboxes and the processes keep their declared shape,
\* and a job of the Thunder lane is never claimed past its attempts.
THEOREM TypesHold == Spec => []TypeOK
<1>1. LedgerInv => TypeOK
  BY DEF LedgerInv
<1> QED
  BY <1>1, LedgerInvariant, PTL

\* A worker that has its job finds the lease that its heartbeat renews, so no healthy
\* trial is ended by SandboxCapacityLeaseLostError.
THEOREM RunnerHasLease == Spec => []RunnerKeepsLease
<1>1. LedgerInv => RunnerKeepsLease
  BY DEF LedgerInv
<1> QED
  BY <1>1, LedgerInvariant, PTL

\* A run is closed in the ledger only when its sandbox is gone and none will come up:
\* by a teardown that went through, a refusal of the provider, or an inventory that
\* does not name it and no call on its way.
THEOREM ClosedRunIsGone == Spec => []TerminatedIsGone
<1>1. LedgerInv => TerminatedIsGone
  <2> SUFFICES ASSUME LedgerInv, NEW r \in Runs, run[r].state = "TERMINATED"
               PROVE  sandbox[r] # "alive" /\ ~MayComeUp(r)
    BY DEF TerminatedIsGone
  <2>1. sandbox[r] \notin Up
    BY DEF LedgerInv, Ledger, RowTells
  <2>2. \A w \in Workers : At(w, "launching") /\ RunOf(w) = r => FALSE
    BY DEF LedgerInv, Ledger, PlaceTells, At
  <2> QED
    BY <2>1, <2>2 DEF Up, MayComeUp
<1> QED
  BY <1>1, LedgerInvariant, PTL

\* While a rerouted job runs on the other lane, the sandbox of its last attempt on
\* Thunder is gone.
THEOREM HandoffIsSafe == Spec => []HandoffWaits
<1>1. LedgerInv => HandoffWaits
  <2> SUFFICES ASSUME LedgerInv, NEW j \in Jobs, NEW b \in Attempts,
                      job[j].lane = "default", job[j].status = "RUNNING",
                      run[<<j, b>>].state # "NONE",
                      \A c \in Attempts : c > b => run[<<j, c>>].state = "NONE"
               PROVE  sandbox[<<j, b>>] # "alive"
    BY DEF HandoffWaits, Runs
  <2>1. PICK a \in Attempts :
          /\ run[<<j, a>>].state # "NONE"
          /\ \A c \in Attempts : c > a => run[<<j, c>>].state = "NONE"
          /\ ~job[j].pending => run[<<j, a>>].state = "TERMINATED"
          /\ job[j].pending => a = job[j].attempts /\ job[j].status # "RUNNING"
    BY DEF LedgerInv, Handed
  <2>2. a = b
    <3>1. a \in Nat /\ b \in Nat
      BY DEF Attempts
    <3> QED
      BY <2>1, <3>1
  <2>3. run[<<j, b>>].state = "TERMINATED" /\ <<j, b>> \in Runs
    BY <2>1, <2>2 DEF Runs
  <2> QED
    BY <2>3 DEF LedgerInv, Ledger, RowTells, Up
<1> QED
  BY <1>1, LedgerInvariant, PTL

\* For every job, the sandboxes that run or may come up are no more than the leases
\* bound to it: each has a worker, each worker a lease, and no two workers the same.
THEOREM SandboxHasLease == Spec => []SandboxHoldsLease
<1>1. LedgerInv => SandboxHoldsLease
  <2> SUFFICES ASSUME LedgerInv, NEW j \in Jobs
               PROVE  Cardinality({a \in Attempts : sandbox[<<j, a>>] \in {"requested", "alive"}})
                        <= Cardinality({s \in Slots : lease[s].job = j})
    BY DEF SandboxHoldsLease
  <2> DEFINE A == {a \in Attempts : sandbox[<<j, a>>] \in {"requested", "alive"}}
             L == {s \in Slots : lease[s].job = j}
             Mine(a) == CHOOSE w \in Workers : Took(w) /\ RunOf(w) = <<j, a>>
             f == [a \in A |-> worker[Mine(a)].slot]
  <2>1. ASSUME NEW a \in A
        PROVE  /\ Mine(a) \in Workers /\ RunOf(Mine(a)) = <<j, a>>
               /\ worker[Mine(a)].slot \in L /\ lease[worker[Mine(a)].slot].by = Mine(a)
    <3>1. <<j, a>> \in Runs /\ sandbox[<<j, a>>] \in Up
      BY DEF Runs, Up
    <3>2. RowTells(<<j, a>>)
      BY <3>1 DEF LedgerInv, Ledger
    <3>3. run[<<j, a>>].state \notin {"NONE", "TERMINATED"} /\ ActiveRun(<<j, a>>)
      BY <3>1, <3>2 DEF RowTells, ActiveRun, Up
    <3>4. \E w \in Workers : Took(w) /\ RunOf(w) = <<j, a>>
      BY <3>1, <3>3 DEF LedgerInv, Ledger, RunHasWorker
    <3>5. Mine(a) \in Workers /\ Took(Mine(a)) /\ RunOf(Mine(a)) = <<j, a>>
      BY <3>4
    <3> HIDE DEF Mine
    <3>6. HasLease(Mine(a)) /\ worker[Mine(a)].slot \in Slots
      BY <3>3, <3>5 DEF LedgerInv, RunKeepsLease, Memory, WorkerKnows
    <3>7. worker[Mine(a)].job = j
      BY <3>5 DEF RunOf
    <3> QED
      BY <3>5, <3>6, <3>7 DEF HasLease
  <2> HIDE DEF Mine
  <2>2. f \in [A -> L]
    BY <2>1
  <2>3. \A a, b \in A : a # b => f[a] # f[b]
    <3> SUFFICES ASSUME NEW a \in A, NEW b \in A, f[a] = f[b] PROVE a = b
      OBVIOUS
    <3>1. Mine(a) = Mine(b)
      BY <2>1
    <3>2. <<j, a>> = <<j, b>>
      BY <2>1, <3>1
    <3> QED
      BY <3>2
  <2>4. IsFiniteSet(L)
    BY FS_Subset, ConstantsAssumption
  <2>5. f \in Injection(A, L)
    BY <2>2, <2>3 DEF Injection, IsInjective
  <2>6. Cardinality(A) <= Cardinality(L)
    <3> HIDE DEF A, L, f
    <3> QED
      BY <2>4, <2>5, FS_Injection
  <2> QED
    BY <2>6
<1> QED
  BY <1>1, LedgerInvariant, PTL
=============================================================================
