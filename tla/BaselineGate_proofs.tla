------------------------- MODULE BaselineGate_proofs -------------------------
(***************************************************************************)
(* The baseline gate, for any number of trials, attempts and requests: the *)
(* shape of the rows, that a skipped trial never runs, and, as long as a   *)
(* worker only prepares a trial whose job it holds (~LateStart), that a    *)
(* verdict rests on results which stand and that a release is clean at the *)
(* moment of its write.                                                    *)
(*                                                                         *)
(* What a step may do to one row is stated first (RowFits, Keeps, Held),   *)
(* one lemma per change the code makes to a row and one per action; what   *)
(* it may do to the open transaction next (GateMoves); the invariant is    *)
(* proved from these two and does not look at the actions again.           *)
(***************************************************************************)
EXTENDS BaselineGate, TLAPS

-----------------------------------------------------------------------------
(* The invariant.                                                          *)

\* The row of trial t: a job that can be claimed has an attempt left, a BLOCKED
\* one belongs to an LLM trial that has not started, and a SKIPPED trial is an
\* LLM trial whose job is closed.
RowFits(r, t) ==
  /\ r \in Row
  /\ r.job \in {"QUEUED", "RETRYING", "BLOCKED"} => r.tries < MaxAttempts
  /\ r.job = "BLOCKED" => t \in Llms /\ r.status = "QUEUED" /\ ~r.deleted
  /\ r.job = "none" <=> r.status = "none"
  /\ r.status = "none" => ~r.superseded /\ ~r.deleted
  /\ r.status = "SKIPPED" => t \in Llms /\ r.job = "CANCELLED"

RowsFit ==
  /\ row \in [Trials -> Row]
  /\ \A t \in Trials : RowFits(row[t], t)

\* Only a trial that exists has a process.
PcFits ==
  /\ pc \in [Baselines -> {"none", "claimed", "running", "hooks", "gating", "handled"}]
  /\ \A b \in Baselines : pc[b] # "none" => row[b].job # "none"

\* What the open transaction means to resolve is still blocked, or deleted.
StillBlocked ==
  gate.at # "free" =>
    /\ gate.blocked # {}
    /\ \A t \in gate.blocked :
         row[t].status # "none" /\ (row[t].job = "BLOCKED" \/ row[t].deleted)

GateFits == gate \in Gate /\ StillBlocked

CountersFit ==
  /\ gateOn \in BOOLEAN /\ requests \in 0 .. MaxRequests
  /\ judged \subseteq Baselines

Shape == RowsFit /\ PcFits /\ GateFits /\ CountersFit

\* What the transaction has read of the baselines is still so, though their
\* rows are not locked.
CountHolds == gate.at \in {"evaluate", "apply"} => PendingBaselines(row) = {}

DecisionHolds ==
  gate.at = "apply" /\ gate.verdict = "release" =>
    \A b \in Evaluable(row) : Passes(row, b)

JudgedSettled == \A b \in judged : Settled(b)

Decided == CountHolds /\ DecisionHolds /\ JudgedSettled

-----------------------------------------------------------------------------
(* What a step may do to a row.                                            *)

IsSettled(r) == r.status \in {"SUCCESS", "FAILED"} /\ r.job \in ClosedJob

SameResult(r, q) ==
  q.status = r.status /\ q.job = r.job /\ q.reward = r.reward /\ q.stage = r.stage

\* No row is taken back, and no result of a closed job changes.
Keeps(r, q) ==
  /\ r.status # "none" => q.status # "none"
  /\ r.superseded => q.superseded
  /\ r.deleted => q.deleted
  /\ ~LateStart /\ IsSettled(r) => SameResult(r, q)

\* Only the gate releases a job, and while it is open no row is created and a
\* BLOCKED one changes by its deletion only.
Held(r, q) ==
  /\ r.job = "BLOCKED" => q.job # "QUEUED"
  /\ gate.at # "free" =>
       /\ r.status = "none" => q.status = "none"
       /\ r.job = "BLOCKED" => q.job = "BLOCKED" \/ q.deleted

Moves(t) ==
  /\ RowFits(row'[t], t)
  /\ Keeps(row[t], row'[t])
  /\ Held(row[t], row'[t])

-----------------------------------------------------------------------------
(* Lemmas on the changes the code makes to a row.                          *)

\* A row that is left alone, and one that is created.
LEMMA SameMoves ==
  ASSUME NEW t \in Trials, RowFits(row[t], t), row'[t] = row[t]
  PROVE  Moves(t)
BY DEF Moves, Keeps, Held, RowFits, SameResult

\* What is not created yet.
LEMMA NoRowFits ==
  ASSUME NEW t \in Trials PROVE RowFits(NoRow, t)
BY ConstantsAssumption DEF RowFits, NoRow, Row, ActiveJob, ClosedJob,
   ActiveTrial, TerminalTrial

\* A new row, BLOCKED only for an LLM trial.
LEMMA NewRowFits ==
  ASSUME NEW t \in Trials, NEW job \in {"QUEUED", "BLOCKED"},
         job = "BLOCKED" => t \in Llms
  PROVE  RowFits(NewRow(job), t)
<1>1. NoRow \in Row
  BY NoRowFits DEF RowFits
<1>2. NewRow(job) \in Row
  BY <1>1 DEF NewRow, Row, ActiveJob, ActiveTrial
<1>3. /\ NewRow(job).job = job /\ NewRow(job).status = "QUEUED"
      /\ NewRow(job).tries = 0 /\ NewRow(job).deleted = FALSE
  BY <1>1 DEF NewRow, NoRow
<1> QED
  BY <1>2, <1>3, ConstantsAssumption DEF RowFits

\* A row is created in the place of none, while the gate is closed.
LEMMA CreatedMoves ==
  ASSUME NEW t \in Trials, NEW job \in {"QUEUED", "BLOCKED"},
         job = "BLOCKED" => t \in Llms,
         RowFits(row[t], t), row[t].status = "none", gate.at = "free",
         row'[t] = NewRow(job)
  PROVE  Moves(t)
<1>1. RowFits(NewRow(job), t)
  BY NewRowFits
<1>2. Keeps(row[t], NewRow(job))
  BY DEF Keeps, RowFits, IsSettled, NewRow, NoRow
<1>3. Held(row[t], NewRow(job))
  BY DEF Held, RowFits
<1> QED
  BY <1>1, <1>2, <1>3 DEF Moves

\* Whoever holds the job may write results, not take the row back.
LEMMA HolderMoves ==
  ASSUME NEW t \in Trials, RowFits(row[t], t), HoldsJob(t), RowFits(row'[t], t),
         row'[t].superseded = row[t].superseded, row'[t].deleted = row[t].deleted, row'[t].status # "none"
  PROVE  Moves(t)
<1>1. row[t].job = "RUNNING"
  BY DEF HoldsJob
<1>2. Keeps(row[t], row'[t])
  BY <1>1 DEF Keeps, RowFits, IsSettled, ClosedJob
<1>3. Held(row[t], row'[t])
  BY <1>1 DEF Held, RowFits
<1> QED
  BY <1>2, <1>3 DEF Moves

\* A replaced row closes with the trial.
LEMMA SupersededFits ==
  ASSUME NEW t \in Trials, NEW r, RowFits(r, t), r.status # "none"
  PROVE  RowFits(Superseded(r), t) /\ Keeps(r, Superseded(r))
<1>1. r \in Row
  BY DEF RowFits
<1>2. Superseded(r) \in Row
  BY <1>1 DEF Superseded, Row, ClosedJob, TerminalTrial
<1>3. /\ Superseded(r).superseded = TRUE /\ Superseded(r).deleted = r.deleted
      /\ Superseded(r).tries = r.tries /\ Superseded(r).reward = r.reward
      /\ Superseded(r).stage = r.stage
      /\ Superseded(r).status = IF r.status \in ActiveTrial THEN "FAILED" ELSE r.status
      /\ Superseded(r).job = IF r.job \in ActiveJob THEN "CANCELLED" ELSE r.job
  BY <1>1 DEF Superseded, Row
<1>4. RowFits(Superseded(r), t)
  BY <1>2, <1>3 DEF RowFits, ActiveJob, ActiveTrial
<1>5. Keeps(r, Superseded(r))
  BY <1>3 DEF Keeps, IsSettled, SameResult, ActiveJob, ActiveTrial, ClosedJob
<1> QED
  BY <1>4, <1>5

\* A row that another one replaces, without more.
LEMMA MarkedFits ==
  ASSUME NEW t \in Trials, NEW r, RowFits(r, t), r.status # "none"
  PROVE  LET q == [r EXCEPT !.superseded = TRUE] IN RowFits(q, t) /\ Keeps(r, q)
<1> DEFINE q == [r EXCEPT !.superseded = TRUE]
<1>1. r \in Row
  BY DEF RowFits
<1>2. q \in Row
  BY <1>1 DEF Row
<1>3. /\ q.superseded = TRUE /\ q.deleted = r.deleted /\ q.tries = r.tries
      /\ q.reward = r.reward /\ q.stage = r.stage /\ q.status = r.status
      /\ q.job = r.job
  BY <1>1 DEF Row
<1> HIDE DEF q
<1>4. RowFits(q, t) /\ Keeps(r, q)
  BY <1>2, <1>3 DEF RowFits, Keeps, SameResult
<1> QED
  BY <1>4 DEF q

\* A cancelled row, of a trial that was not finished.
LEMMA CancelledFits ==
  ASSUME NEW t \in Trials, NEW r, RowFits(r, t),
         r.job \in ActiveJob \/ r.status \in ActiveTrial
  PROVE  RowFits(Cancelled(r), t) /\ Keeps(r, Cancelled(r))
<1>1. r \in Row
  BY DEF RowFits
<1>2. Cancelled(r) \in Row
  BY <1>1 DEF Cancelled, Row, ClosedJob, TerminalTrial
<1>3. /\ Cancelled(r).superseded = r.superseded /\ Cancelled(r).deleted = r.deleted
      /\ Cancelled(r).tries = r.tries /\ Cancelled(r).status = "FAILED"
      /\ Cancelled(r).job = IF r.job \in ActiveJob THEN "CANCELLED" ELSE r.job
  BY <1>1 DEF Cancelled, Row
<1>4. RowFits(Cancelled(r), t)
  BY <1>2, <1>3 DEF RowFits, ActiveJob, ActiveTrial
<1>5. Keeps(r, Cancelled(r))
  BY <1>3 DEF Keeps, IsSettled, ActiveJob, ActiveTrial, ClosedJob
<1> QED
  BY <1>4, <1>5

\* What a retryable outcome makes of a row whose job is held.
LEMMA PutBackFits ==
  ASSUME NEW t \in Trials, RowFits(row[t], t), HoldsJob(t)
  PROVE  /\ RowFits(PutBack(t), t)
         /\ PutBack(t).superseded = row[t].superseded
         /\ PutBack(t).deleted = row[t].deleted
         /\ PutBack(t).status # "none"
<1>1. row[t] \in Row
  BY DEF RowFits
<1>2. PutBack(t) \in Row
  BY <1>1 DEF PutBack, Row, ActiveJob, ClosedJob, ActiveTrial
<1>3. /\ PutBack(t).superseded = row[t].superseded
      /\ PutBack(t).deleted = row[t].deleted /\ PutBack(t).tries = row[t].tries
      /\ row[t].tries < MaxAttempts =>
           PutBack(t).job = "RETRYING" /\ PutBack(t).status = "RETRYING"
      /\ ~(row[t].tries < MaxAttempts) =>
           PutBack(t).job = "FAILED" /\ PutBack(t).status = row[t].status
  BY <1>1 DEF PutBack, Row
<1> QED
  BY <1>2, <1>3 DEF RowFits, HoldsJob

\* What the sweep makes of the row of a dead worker.
LEMMA ReapedFits ==
  ASSUME NEW t \in Trials, RowFits(row[t], t), HoldsJob(t)
  PROVE  /\ RowFits(Reaped(t), t)
         /\ Reaped(t).superseded = row[t].superseded
         /\ Reaped(t).deleted = row[t].deleted
         /\ Reaped(t).status # "none"
<1>1. row[t] \in Row
  BY DEF RowFits
<1>2. Reaped(t) \in Row
  <2>1. CASE row[t].tries < MaxAttempts
    BY <1>1, <2>1 DEF Reaped, Row, ActiveJob, ActiveTrial
  <2>2. CASE ~(row[t].tries < MaxAttempts)
    <3>1. \A x \in {row[t].stage, "cancelled"} :
            [row[t] EXCEPT !.job = "FAILED", !.status = "FAILED", !.stage = x] \in Row
      BY <1>1 DEF Row, ClosedJob, TerminalTrial
    <3>2. \E x \in {row[t].stage, "cancelled"} :
            Reaped(t) = [row[t] EXCEPT !.job = "FAILED", !.status = "FAILED", !.stage = x]
      BY <2>2 DEF Reaped
    <3> QED
      BY <3>1, <3>2
  <2> QED
    BY <2>1, <2>2
<1>3. /\ Reaped(t).superseded = row[t].superseded
      /\ Reaped(t).deleted = row[t].deleted /\ Reaped(t).tries = row[t].tries
      /\ row[t].tries < MaxAttempts =>
           Reaped(t).job = "RETRYING" /\ Reaped(t).status = "RETRYING"
      /\ ~(row[t].tries < MaxAttempts) =>
           Reaped(t).job = "FAILED" /\ Reaped(t).status = "FAILED"
  BY <1>1 DEF Reaped, Row
<1> QED
  BY <1>2, <1>3 DEF RowFits, HoldsJob

-----------------------------------------------------------------------------
(* What each action does to the rows.                                      *)

RowStep == row' \in [Trials -> Row] /\ \A t \in Trials : Moves(t)

\* The step writes at most the row of trial t.
LEMMA OneRow ==
  ASSUME RowsFit, NEW t \in Trials, NEW q \in Row, row' = [row EXCEPT ![t] = q],
         Moves(t)
  PROVE  RowStep
<1>1. row' \in [Trials -> Row]
  BY DEF RowsFit
<1>2. \A u \in Trials \ {t} : row'[u] = row[u]
  BY DEF RowsFit
<1> QED
  BY <1>1, <1>2, SameMoves DEF RowsFit, RowStep

\* The step writes no row.
LEMMA NoRowStep == ASSUME RowsFit, row' = row PROVE RowStep
BY SameMoves DEF RowsFit, RowStep

\* Claiming takes an attempt that is there.
LEMMA ClaimMoves ==
  ASSUME Shape, NEW t \in Baselines, Claim(t) PROVE RowStep
<1>1. t \in Trials /\ row[t] \in Row /\ RowFits(row[t], t)
  BY DEF Shape, RowsFit, Trials
<1> DEFINE q == [row[t] EXCEPT !.job = "RUNNING", !.tries = @ + 1]
<1>2. /\ q.job = "RUNNING" /\ q.tries = row[t].tries + 1
      /\ q.status = row[t].status /\ q.reward = row[t].reward
      /\ q.stage = row[t].stage
      /\ q.superseded = row[t].superseded /\ q.deleted = row[t].deleted
  BY <1>1 DEF Row
<1>3. row' = [row EXCEPT ![t] = q]
  BY <1>1 DEF Claim, Shape, RowsFit
<1>4. row[t].tries + 1 \in 0 .. MaxAttempts
  BY <1>1, ConstantsAssumption DEF Claim, RowFits, Row
<1>5. q \in Row
  BY <1>1, <1>4 DEF Row, ActiveJob
<1> HIDE DEF q
<1>6. row'[t] = q
  BY <1>1, <1>3 DEF Shape, RowsFit
<1>7. RowFits(q, t)
  BY <1>1, <1>2, <1>5 DEF RowFits, Claim
<1>8. Keeps(row[t], q) /\ Held(row[t], q)
  BY <1>1, <1>2 DEF Keeps, Held, RowFits, Claim, IsSettled, ClosedJob
<1> QED
  BY <1>1, <1>3, <1>5, <1>6, <1>7, <1>8, OneRow DEF Moves, Shape

\* Only a worker that may have lost its job resets a result with this.
LEMMA PrepareMoves ==
  ASSUME Shape, NEW t \in Baselines, Prepare(t) PROVE RowStep
<1>1. /\ t \in Trials /\ row[t] \in Row /\ RowFits(row[t], t)
      /\ t \notin Llms /\ row[t].job # "none"
  BY ConstantsAssumption DEF Shape, RowsFit, PcFits, Trials, Prepare
<1>2. CASE row' = row
  BY <1>2, NoRowStep DEF Shape
<1>3. CASE row' = [row EXCEPT ![t].status = "RUNNING", ![t].reward = "none",
                              ![t].stage = "live"]
  <2> DEFINE q == [row[t] EXCEPT !.status = "RUNNING", !.reward = "none",
                                 !.stage = "live"]
  <2>2. /\ q.job = row[t].job /\ q.tries = row[t].tries
        /\ q.status = "RUNNING"
        /\ q.superseded = row[t].superseded /\ q.deleted = row[t].deleted
    BY <1>1 DEF Row
  <2>3. row' = [row EXCEPT ![t] = q]
    BY <1>1, <1>3 DEF Shape, RowsFit
  <2>5. q \in Row
    BY <1>1 DEF Row, ActiveTrial
  <2> HIDE DEF q
  <2>6. row'[t] = q
    BY <1>1, <2>3 DEF Shape, RowsFit
  <2>7. RowFits(q, t)
    BY <1>1, <2>2, <2>5 DEF RowFits
  <2>8. ~LateStart => row[t].job = "RUNNING"
    BY DEF Prepare, HoldsJob
  <2>9. Keeps(row[t], q) /\ Held(row[t], q)
    BY <1>1, <2>2, <2>8 DEF Keeps, Held, RowFits, IsSettled, ClosedJob
  <2> QED
    BY <1>1, <2>3, <2>5, <2>6, <2>7, <2>9, OneRow DEF Moves, Shape
<1> QED
  BY <1>2, <1>3 DEF Prepare

\* The process that holds the job writes a result and nothing else.
LEMMA ResultMoves ==
  ASSUME Shape, NEW t \in Baselines, HoldsJob(t), NEW q \in Row,
         row' = [row EXCEPT ![t] = q],
         q.job = row[t].job, q.tries = row[t].tries,
         q.superseded = row[t].superseded, q.deleted = row[t].deleted,
         q.status \in {"SUCCESS", "FAILED", "RETRYING"}
  PROVE  RowStep
<1>1. t \in Trials /\ row[t] \in Row /\ RowFits(row[t], t) /\ row'[t] = q
  BY DEF Shape, RowsFit, Trials
<1>2. RowFits(q, t)
  BY <1>1 DEF RowFits, HoldsJob
<1>3. Moves(t)
  BY <1>1, <1>2, HolderMoves
<1> QED
  BY <1>1, <1>3, OneRow DEF Shape

\* The process that holds the job closes it or puts it back.
LEMMA OutcomeMoves ==
  ASSUME Shape, NEW t \in Baselines, HoldsJob(t), NEW q,
         row' = [row EXCEPT ![t] = q], RowFits(q, t), q.status # "none",
         q.superseded = row[t].superseded, q.deleted = row[t].deleted
  PROVE  RowStep
<1>1. t \in Trials /\ row[t] \in Row /\ RowFits(row[t], t) /\ row'[t] = q
  BY DEF Shape, RowsFit, Trials
<1>2. Moves(t)
  BY <1>1, HolderMoves
<1>3. q \in Row
  BY DEF RowFits
<1> QED
  BY <1>1, <1>2, <1>3, OneRow DEF Shape

\* Harbor's events show results under a job that is RUNNING.
LEMMA HarborEventMoves ==
  ASSUME Shape, NEW t \in Baselines, HarborEvent(t) PROVE RowStep
<1>1. t \in Trials /\ row \in [Trials -> Row] /\ row[t] \in Row /\ HoldsJob(t)
  BY DEF Shape, RowsFit, Trials, HarborEvent
<1>2. ASSUME NEW reward \in {"zero", "positive"},
             row' = [row EXCEPT ![t].status = "SUCCESS", ![t].reward = reward,
                                ![t].stage = "completed"]
      PROVE  RowStep
  <2> DEFINE q == [row[t] EXCEPT !.status = "SUCCESS", !.reward = reward,
                                 !.stage = "completed"]
  <2>1. q \in Row
    BY <1>1 DEF Row, TerminalTrial
  <2>2. /\ q.job = row[t].job /\ q.tries = row[t].tries /\ q.status = "SUCCESS"
        /\ q.superseded = row[t].superseded /\ q.deleted = row[t].deleted
    BY <1>1 DEF Row
  <2>3. row' = [row EXCEPT ![t] = q]
    BY <1>1, <1>2
  <2> HIDE DEF q
  <2> QED
    BY <1>1, <2>1, <2>2, <2>3, ResultMoves
<1>3. ASSUME NEW stage \in {"completed", "cancelled"},
             row' = [row EXCEPT ![t].status = "FAILED", ![t].stage = stage]
      PROVE  RowStep
  <2> DEFINE q == [row[t] EXCEPT !.status = "FAILED", !.stage = stage]
  <2>1. q \in Row
    BY <1>1 DEF Row, TerminalTrial
  <2>2. /\ q.job = row[t].job /\ q.tries = row[t].tries /\ q.status = "FAILED"
        /\ q.superseded = row[t].superseded /\ q.deleted = row[t].deleted
    BY <1>1 DEF Row
  <2>3. row' = [row EXCEPT ![t] = q]
    BY <1>1, <1>3
  <2> HIDE DEF q
  <2> QED
    BY <1>1, <2>1, <2>2, <2>3, ResultMoves
<1> QED
  BY <1>2, <1>3 DEF HarborEvent

\* So does the settlement.
LEMMA SettleMoves ==
  ASSUME Shape, NEW t \in Baselines, Settle(t) PROVE RowStep
<1>1. t \in Trials /\ row \in [Trials -> Row] /\ row[t] \in Row /\ HoldsJob(t)
  BY DEF Shape, RowsFit, Trials, Settle
<1>2. ASSUME NEW status \in {"SUCCESS", "FAILED", "RETRYING"},
             NEW reward \in {"none", "zero", "positive"},
             row' = [row EXCEPT ![t].status = status, ![t].reward = reward]
      PROVE  RowStep
  <2> DEFINE q == [row[t] EXCEPT !.status = status, !.reward = reward]
  <2>1. q \in Row
    BY <1>1 DEF Row, TerminalTrial, ActiveTrial
  <2>2. /\ q.job = row[t].job /\ q.tries = row[t].tries /\ q.status = status
        /\ q.superseded = row[t].superseded /\ q.deleted = row[t].deleted
    BY <1>1 DEF Row
  <2>3. row' = [row EXCEPT ![t] = q]
    BY <1>1, <1>2
  <2> HIDE DEF q
  <2> QED
    BY <1>1, <2>1, <2>2, <2>3, ResultMoves
<1>3. CASE row' = row
  BY <1>3, NoRowStep DEF Shape
<1> QED
  BY <1>2, <1>3 DEF Settle

\* The job is closed with the result its trial shows, or put back.
LEMMA RecordOutcomeMoves ==
  ASSUME Shape, NEW t \in Baselines, RecordOutcome(t) PROVE RowStep
<1>1. /\ t \in Trials /\ row \in [Trials -> Row] /\ row[t] \in Row
      /\ RowFits(row[t], t)
  BY DEF Shape, RowsFit, Trials
<1>2. CASE row' = row
  BY <1>2, NoRowStep DEF Shape
<1>3. CASE /\ HoldsJob(t) /\ row[t].status \in {"SUCCESS", "FAILED"}
           /\ row' = [row EXCEPT ![t].job = row[t].status]
  <2> DEFINE q == [row[t] EXCEPT !.job = row[t].status]
  <2>1. q \in Row
    BY <1>1, <1>3 DEF Row, ClosedJob
  <2>2. /\ q.job = row[t].status /\ q.tries = row[t].tries
        /\ q.status = row[t].status
        /\ q.superseded = row[t].superseded /\ q.deleted = row[t].deleted
    BY <1>1 DEF Row
  <2>3. row' = [row EXCEPT ![t] = q]
    BY <1>1, <1>3
  <2> HIDE DEF q
  <2>4. RowFits(q, t)
    BY <1>1, <1>3, <2>1, <2>2 DEF RowFits, HoldsJob
  <2> QED
    BY <1>1, <1>3, <2>2, <2>3, <2>4, OutcomeMoves
<1>4. CASE HoldsJob(t) /\ row' = [row EXCEPT ![t] = PutBack(t)]
  BY <1>1, <1>4, PutBackFits, OutcomeMoves
<1> QED
  BY <1>2, <1>3, <1>4 DEF RecordOutcome

\* A handler that raises puts its job back.
LEMMA HandlerRaisesMoves ==
  ASSUME Shape, NEW t \in Baselines, HandlerRaises(t) PROVE RowStep
<1>1. t \in Trials /\ RowFits(row[t], t)
  BY DEF Shape, RowsFit, Trials
<1> QED
  BY <1>1, PutBackFits, OutcomeMoves DEF HandlerRaises

\* The run of an LLM trial starts from QUEUED, so never from BLOCKED.
LEMMA RunLlmMoves ==
  ASSUME Shape, NEW t \in Llms, RunLlm(t) PROVE RowStep
<1>1. /\ t \in Trials /\ row \in [Trials -> Row] /\ row[t] \in Row
      /\ RowFits(row[t], t) /\ row[t].job = "QUEUED"
  BY DEF Shape, RowsFit, Trials, RunLlm
<1>2. PICK status \in {"SUCCESS", "FAILED"} :
        row' = [row EXCEPT ![t].job = status, ![t].status = status]
  BY DEF RunLlm
<1> DEFINE q == [row[t] EXCEPT !.job = status, !.status = status]
<1>3. q \in Row
  BY <1>1 DEF Row, ClosedJob, TerminalTrial
<1>4. /\ q.job = status /\ q.tries = row[t].tries /\ q.status = status
      /\ q.superseded = row[t].superseded /\ q.deleted = row[t].deleted
  BY <1>1 DEF Row
<1>5. row' = [row EXCEPT ![t] = q]
  BY <1>1, <1>2
<1> HIDE DEF q
<1>6. row'[t] = q
  BY <1>1, <1>5
<1>7. RowFits(q, t)
  BY <1>1, <1>3, <1>4 DEF RowFits
<1>8. Keeps(row[t], q) /\ Held(row[t], q)
  BY <1>1, <1>4 DEF Keeps, Held, RowFits, IsSettled, ClosedJob
<1> QED
  BY <1>1, <1>3, <1>5, <1>6, <1>7, <1>8, OneRow DEF Moves, Shape

\* Rows that were all given at once.
LEMMA ManyRows ==
  ASSUME DOMAIN row' = Trials, row' = [t \in Trials |-> row'[t]],
         \A t \in Trials : Moves(t)
  PROVE  RowStep
BY DEF Moves, RowFits, RowStep

\* The sweep reaps jobs that are RUNNING.
LEMMA SweepMoves ==
  ASSUME Shape, NEW R \in SUBSET Baselines, Sweep(R) PROVE RowStep
<1>1. row' = [t \in Trials |-> IF t \in R THEN Reaped(t) ELSE row[t]]
  BY DEF Sweep
<1>2. \A t \in R : HoldsJob(t)
  BY DEF Sweep
<1>3. ASSUME NEW t \in Trials PROVE Moves(t)
  <2>1. RowFits(row[t], t)
    BY DEF Shape, RowsFit
  <2>2. CASE t \in R
    <3>1. row'[t] = Reaped(t) /\ HoldsJob(t)
      BY <1>1, <1>2, <2>2
    <3> QED
      BY <2>1, <3>1, ReapedFits, HolderMoves
  <2>3. CASE t \notin R
    BY <1>1, <2>1, <2>3, SameMoves
  <2> QED
    BY <2>2, <2>3
<1> QED
  BY <1>1, <1>3, ManyRows

\* The submission creates the first rows.
LEMMA SubmitMoves ==
  ASSUME Shape, NEW T \in SUBSET Trials, NEW optIn \in BOOLEAN, Submit(T, optIn)
  PROVE  RowStep
<1>1. \A t \in Trials : row[t].status = "none"
  BY DEF Submit, Unused, Exists
<1>2. gate.at = "free"
  BY <1>1, ConstantsAssumption DEF Shape, GateFits, StillBlocked, Gate, Trials
<1>3. row' = [t \in Trials |->
       IF t \notin T THEN row[t]
       ELSE IF gateOn /\ optIn /\ Mixed(T) /\ t \in Llms
            THEN NewRow("BLOCKED") ELSE NewRow("QUEUED")]
  BY DEF Submit
<1>4. ASSUME NEW t \in Trials PROVE Moves(t)
  <2>1. RowFits(row[t], t)
    BY DEF Shape, RowsFit
  <2>2. CASE row'[t] = row[t]
    BY <2>1, <2>2, SameMoves
  <2>3. CASE row'[t] = NewRow("BLOCKED") /\ t \in Llms
    BY <1>1, <1>2, <2>1, <2>3, CreatedMoves
  <2>4. CASE row'[t] = NewRow("QUEUED")
    BY <1>1, <1>2, <2>1, <2>4, CreatedMoves
  <2> QED
    BY <1>3, <2>2, <2>3, <2>4
<1> QED
  BY <1>3, <1>4, ManyRows

\* A new LLM trial is armed: its job waits.
LEMMA ArmedFits ==
  ASSUME NEW t \in Llms
  PROVE  LET q == [NewRow("QUEUED") EXCEPT !.job = "BLOCKED"]
         IN RowFits(q, t) /\ q.status # "none"
<1> DEFINE q == [NewRow("QUEUED") EXCEPT !.job = "BLOCKED"]
<1>1. RowFits(NewRow("QUEUED"), t) /\ t \in Trials
  BY NewRowFits DEF Trials
<1>2. NewRow("QUEUED").status = "QUEUED" /\ NewRow("QUEUED").deleted = FALSE
  BY NoRowFits, <1>1 DEF NewRow, NoRow
<1>3. NewRow("QUEUED").job = "QUEUED" /\ NewRow("QUEUED") \in Row
  BY NoRowFits, <1>1 DEF NewRow, NoRow, RowFits
<1>4. q \in Row
  BY <1>3 DEF Row, ActiveJob
<1>5. /\ q.job = "BLOCKED" /\ q.tries = NewRow("QUEUED").tries
      /\ q.status = "QUEUED" /\ q.deleted = FALSE
  BY <1>2, <1>3 DEF Row
<1> HIDE DEF q
<1>6. RowFits(q, t) /\ q.status # "none"
  BY <1>1, <1>3, <1>4, <1>5 DEF RowFits
<1> QED
  BY <1>6 DEF q

\* A request that creates the trials T, arms the gate for the LLM trials among
\* them, and leaves the other rows as r has them.
LEMMA ApplyGateMoves ==
  ASSUME Shape, gate.at = "free", NEW T \in SUBSET Trials, NEW optIn \in BOOLEAN,
         NEW r, r = [t \in Trials |-> r[t]],
         \A t \in T : row[t].status = "none" /\ r[t] = NewRow("QUEUED"),
         \A t \in Trials \ T :
           /\ RowFits(r[t], t) /\ Keeps(row[t], r[t])
           /\ row[t].job = "BLOCKED" => r[t].job # "QUEUED",
         ApplyGate(r, T, optIn)
  PROVE  RowStep
<1>1. \/ row' = r
      \/ row' = [t \in Trials |-> IF t \in T \cap Llms
                   THEN [r[t] EXCEPT !.job = "BLOCKED"] ELSE r[t]]
  BY DEF ApplyGate
<1>2. ASSUME NEW t \in Trials PROVE Moves(t)
  <2>1. RowFits(row[t], t)
    BY DEF Shape, RowsFit
  <2>2. CASE t \in T /\ row'[t] = r[t]
    BY <2>1, <2>2, CreatedMoves
  <2>3. CASE t \in T \cap Llms /\ row'[t] = [r[t] EXCEPT !.job = "BLOCKED"]
    <3>1. RowFits(row'[t], t) /\ row'[t].status # "none"
      BY <2>3, ArmedFits
    <3>2. row[t].status = "none" /\ row[t].job = "none"
          /\ ~row[t].superseded /\ ~row[t].deleted
      BY <2>1, <2>3 DEF RowFits
    <3> QED
      BY <3>1, <3>2 DEF Moves, Keeps, Held, IsSettled
  <2>4. CASE t \notin T /\ row'[t] = r[t]
    BY <2>4 DEF Moves, Held
  <2> QED
    BY <1>1, <2>2, <2>3, <2>4
<1>3. row' = [t \in Trials |-> row'[t]]
  BY <1>1
<1> QED
  BY <1>2, <1>3, ManyRows

\* append_trials_to_task writes new rows and marks the replaced ones.
LEMMA AppendMoves ==
  ASSUME Shape, NEW T \in SUBSET Unused, NEW S \in SUBSET Current,
         NEW optIn \in BOOLEAN, Append(T, S, optIn)
  PROVE  RowStep
<1> DEFINE r == [t \in Trials |->
       IF t \in T THEN NewRow("QUEUED")
       ELSE IF t \in S THEN [row[t] EXCEPT !.superseded = TRUE]
       ELSE row[t]]
<1>1. ApplyGate(r, T, optIn) /\ gate.at = "free"
  BY DEF Append, Unlocked
<1>2. T \in SUBSET Trials /\ \A t \in T : row[t].status = "none"
  BY DEF Unused, Exists
<1>3. ASSUME NEW t \in Trials \ T
      PROVE  /\ RowFits(r[t], t) /\ Keeps(row[t], r[t])
             /\ row[t].job = "BLOCKED" => r[t].job # "QUEUED"
  <2>1. RowFits(row[t], t)
    BY DEF Shape, RowsFit
  <2>2. CASE t \in S
    <3>1. row[t].status # "none"
      BY <2>2 DEF Current, Visible, Exists
    <3>2. RowFits(r[t], t) /\ Keeps(row[t], r[t])
      BY <1>3, <2>1, <2>2, <3>1, MarkedFits
    <3>3. r[t].job = row[t].job
      BY <1>3, <2>1, <2>2 DEF RowFits, Row
    <3> QED
      BY <3>2, <3>3
  <2>3. CASE t \notin S
    <3>1. r[t] = row[t]
      BY <1>3, <2>3
    <3> QED
      BY <2>1, <3>1 DEF Keeps, SameResult
  <2> QED
    BY <2>2, <2>3
<1>4. r = [t \in Trials |-> r[t]] /\ \A t \in T : r[t] = NewRow("QUEUED")
  BY <1>2
<1> HIDE DEF r
<1> QED
  BY <1>1, <1>2, <1>3, <1>4, ApplyGateMoves

\* retry_trial_core writes one new row and closes the one it replaces.
LEMMA RetryMoves ==
  ASSUME Shape, NEW old \in Current, NEW new \in Unused, NEW optIn \in BOOLEAN,
         Retry(old, new, optIn)
  PROVE  RowStep
<1> DEFINE r == [row EXCEPT ![old] = Superseded(@), ![new] = NewRow("QUEUED")]
<1>1. ApplyGate(r, {new}, optIn) /\ gate.at = "free"
  BY DEF Retry, Unlocked
<1>2. /\ old \in Trials /\ new \in Trials /\ old # new
      /\ row[old].status # "none" /\ row[new].status = "none"
  BY DEF Unused, Current, Visible, Exists
<1>3. row \in [Trials -> Row] /\ \A t \in Trials : RowFits(row[t], t)
  BY DEF Shape, RowsFit
<1>4. /\ r[new] = NewRow("QUEUED") /\ r[old] = Superseded(row[old])
      /\ \A t \in Trials \ {old, new} : r[t] = row[t]
      /\ r = [t \in Trials |-> r[t]]
  BY <1>2, <1>3
<1> HIDE DEF r
<1>5. ASSUME NEW t \in Trials \ {new}
      PROVE  /\ RowFits(r[t], t) /\ Keeps(row[t], r[t])
             /\ row[t].job = "BLOCKED" => r[t].job # "QUEUED"
  <2>1. CASE t = old
    <3>1. row[t].job = "BLOCKED" => Superseded(row[t]).job = "CANCELLED"
      BY <1>3 DEF Superseded, Row, ActiveJob
    <3> QED
      BY <1>2, <1>3, <1>4, <2>1, <3>1, SupersededFits
  <2>2. CASE t # old
    BY <1>3, <1>4, <2>2 DEF Keeps, SameResult
  <2> QED
    BY <2>1, <2>2
<1> QED
  BY <1>1, <1>2, <1>4, <1>5, ApplyGateMoves

\* The rows S of trials that are not finished are cancelled.
LEMMA CancelMoves ==
  ASSUME Shape, gate.at = "free", NEW S \in SUBSET Trials,
         \A t \in S : row[t].job \in ActiveJob \/ row[t].status \in ActiveTrial,
         row' = [t \in Trials |-> IF t \in S THEN Cancelled(row[t]) ELSE row[t]]
  PROVE  RowStep
<1>1. ASSUME NEW t \in Trials PROVE Moves(t)
  <2>1. RowFits(row[t], t)
    BY DEF Shape, RowsFit
  <2>2. CASE t \in S
    <3>1. RowFits(row'[t], t) /\ Keeps(row[t], row'[t])
      BY <2>1, <2>2, CancelledFits
    <3>2. row[t].job = "BLOCKED" => row'[t].job = "CANCELLED"
      BY <2>1, <2>2 DEF Cancelled, RowFits, Row, ActiveJob
    <3> QED
      BY <3>1, <3>2 DEF Moves, Held
  <2>3. CASE t \notin S
    BY <2>1, <2>3, SameMoves
  <2> QED
    BY <2>2, <2>3
<1> QED
  BY <1>1, ManyRows

\* A user cancels the scope, or the quota its user's trials.
LEMMA CancelRunsMoves == ASSUME Shape, CancelRuns PROVE RowStep
<1> DEFINE S == {t \in Trials : Visible(t) /\ (row[t].job \in ActiveJob
                                               \/ row[t].status \in ActiveTrial)}
<1>1. /\ gate.at = "free"
      /\ row' = [t \in Trials |-> IF t \in S THEN Cancelled(row[t]) ELSE row[t]]
  BY DEF CancelRuns, Unlocked
<1>2. /\ S \in SUBSET Trials
      /\ \A t \in S : row[t].job \in ActiveJob \/ row[t].status \in ActiveTrial
  OBVIOUS
<1> HIDE DEF S
<1> QED
  BY <1>1, <1>2, CancelMoves

\* The same for a quota that is used up.
LEMMA CancelForQuotaMoves ==
  ASSUME Shape, NEW S \in SUBSET Current, CancelForQuota(S) PROVE RowStep
<1>1. S \in SUBSET Trials
  BY DEF Current
<1> QED
  BY <1>1, CancelMoves DEF CancelForQuota, Unlocked

\* A deletion hides the row and closes the job, also while the gate is open.
LEMMA DeleteTrialMoves ==
  ASSUME Shape, NEW t \in Trials, DeleteTrial(t) PROVE RowStep
<1>1. /\ row \in [Trials -> Row] /\ row[t] \in Row /\ RowFits(row[t], t)
      /\ row[t].status # "none"
  BY DEF Shape, RowsFit, DeleteTrial, Visible, Exists
<1> DEFINE q == [row[t] EXCEPT !.deleted = TRUE,
                   !.job = IF @ \in ActiveJob THEN "CANCELLED" ELSE @]
<1>2. q \in Row
  BY <1>1 DEF Row, ClosedJob
<1>3. /\ q.job = IF row[t].job \in ActiveJob THEN "CANCELLED" ELSE row[t].job
      /\ q.tries = row[t].tries /\ q.status = row[t].status
      /\ q.reward = row[t].reward /\ q.stage = row[t].stage
      /\ q.superseded = row[t].superseded /\ q.deleted = TRUE
  BY <1>1 DEF Row
<1>4. row' = [row EXCEPT ![t] = q]
  BY <1>1 DEF DeleteTrial
<1> HIDE DEF q
<1>5. row'[t] = q
  BY <1>1, <1>4
<1>6. RowFits(q, t)
  BY <1>1, <1>2, <1>3 DEF RowFits, ActiveJob
<1>7. Keeps(row[t], q)
  BY <1>1, <1>3 DEF Keeps, IsSettled, SameResult, ActiveJob, ClosedJob
<1>8. Held(row[t], q)
  BY <1>1, <1>3 DEF Held, RowFits, ActiveJob
<1> QED
  BY <1>2, <1>4, <1>5, <1>6, <1>7, <1>8, OneRow DEF Moves, Shape

\* A blocked trial is released or skipped, its job with it; one that has been
\* deleted meanwhile is left as it is.
LEMMA ResolvedFits ==
  ASSUME NEW t \in Trials, NEW r, RowFits(r, t), r.job = "BLOCKED" \/ r.deleted
  PROVE  /\ RowFits(Unblocked(r), t) /\ Keeps(r, Unblocked(r))
         /\ RowFits(Skipped(r), t) /\ Keeps(r, Skipped(r))
         /\ Skipped(r).job # "QUEUED" \/ r.job # "BLOCKED"
<1>1. r \in Row
  BY DEF RowFits
<1>2. CASE r.job = "BLOCKED"
  <2>1. r.status = "QUEUED" /\ ~r.deleted /\ r.tries < MaxAttempts /\ t \in Llms
    BY <1>2 DEF RowFits
  <2> DEFINE u == [r EXCEPT !.job = "QUEUED"]
             s == [r EXCEPT !.status = "SKIPPED", !.stage = "cancelled"]
             k == [s EXCEPT !.job = "CANCELLED"]
  <2>2. Unblocked(r) = u /\ Skipped(r) = k
    <3>1. Unblocked(r) = u
      BY <1>2 DEF Unblocked
    <3>2. r.status \in ActiveTrial /\ ~r.deleted
      BY <2>1 DEF ActiveTrial
    <3>3. Skipped(r) = k
      BY <1>2, <3>2 DEF Skipped
    <3> QED
      BY <3>1, <3>3
  <2>3. u \in Row /\ s \in Row
    BY <1>1 DEF Row, ActiveJob, TerminalTrial
  <2>4. k \in Row
    BY <2>3 DEF Row, ClosedJob
  <2>5. /\ u.job = "QUEUED" /\ u.tries = r.tries /\ u.status = r.status
        /\ u.superseded = r.superseded /\ u.deleted = r.deleted
    BY <1>1 DEF Row
  <2>6. /\ k.job = "CANCELLED" /\ k.tries = r.tries /\ k.status = "SKIPPED"
        /\ k.superseded = r.superseded /\ k.deleted = r.deleted
    BY <1>1, <2>3 DEF Row
  <2> HIDE DEF u, k
  <2>7. RowFits(u, t) /\ Keeps(r, u)
    BY <2>1, <2>3, <2>5 DEF RowFits, Keeps, IsSettled
  <2>8. RowFits(k, t) /\ Keeps(r, k)
    BY <2>1, <2>4, <2>6 DEF RowFits, Keeps, IsSettled
  <2> QED
    BY <2>2, <2>6, <2>7, <2>8
<1>3. CASE r.job # "BLOCKED"
  <2>1. Unblocked(r) = r /\ Skipped(r) = r
    BY <1>3 DEF Unblocked, Skipped
  <2> QED
    BY <1>3, <2>1 DEF Keeps, SameResult
<1> QED
  BY <1>2, <1>3

\* What GateApply does to the rows; it alone releases a job, if it decided to.
LEMMA GateApplyMoves ==
  ASSUME Shape, GateApply
  PROVE  /\ row' \in [Trials -> Row]
         /\ \A t \in Trials :
              /\ RowFits(row'[t], t) /\ Keeps(row[t], row'[t])
              /\ row[t].job = "BLOCKED" /\ row'[t].job = "QUEUED"
                   => gate.verdict = "release"
<1>1. row' = [t \in Trials |->
       IF t \notin gate.blocked THEN row[t]
       ELSE IF gate.verdict = "release" THEN Unblocked(row[t])
                                        ELSE Skipped(row[t])]
  BY DEF GateApply
<1>2. ASSUME NEW t \in Trials
      PROVE  /\ RowFits(row'[t], t) /\ Keeps(row[t], row'[t])
             /\ row[t].job = "BLOCKED" /\ row'[t].job = "QUEUED"
                  => gate.verdict = "release"
  <2>1. RowFits(row[t], t)
    BY DEF Shape, RowsFit
  <2>2. CASE t \notin gate.blocked
    BY <1>1, <2>1, <2>2 DEF Keeps, SameResult
  <2>3. CASE t \in gate.blocked
    <3>1. row[t].job = "BLOCKED" \/ row[t].deleted
      BY <2>3 DEF Shape, GateFits, StillBlocked, GateApply
    <3>2. CASE gate.verdict = "release"
      BY <1>1, <2>1, <2>3, <3>1, <3>2, ResolvedFits
    <3>3. CASE gate.verdict # "release"
      BY <1>1, <2>1, <2>3, <3>1, <3>3, ResolvedFits
    <3> QED
      BY <3>2, <3>3
  <2> QED
    BY <2>2, <2>3
<1>3. \A t \in Trials : row'[t] \in Row
  BY <1>2 DEF RowFits
<1> QED
  BY <1>1, <1>2, <1>3

-----------------------------------------------------------------------------
(* What a step does to the open transaction, to the rows and to the rest.  *)

Opens ==
  /\ gate.at = "free" /\ BlockedTrials(row') # {}
  /\ \E fresh \in SUBSET Trials :
       gate' = [at |-> "count", blocked |-> BlockedTrials(row'),
                fresh |-> fresh, verdict |-> "none"]

\* The gate is closed, opened or left alone.
Outside == gate' \in {gate, NoGate} \/ Opens

\* What a process may start on.
PcStep ==
  /\ pc' \in [Baselines -> {"none", "claimed", "running", "hooks", "gating", "handled"}]
  /\ \A b \in Baselines : pc'[b] # "none" => pc[b] # "none" \/ row[b].job # "none"

Rest == gateOn' \in BOOLEAN /\ requests' \in 0 .. MaxRequests

\* Resolving the gate opens it, or finds nothing to resolve.
LEMMA ResolveOpens ==
  ASSUME NEW fresh \in SUBSET Trials, gate.at = "free", Resolve(row', fresh)
  PROVE  Outside
BY DEF Outside, Opens, Resolve

\* So does arming it for new trials.
LEMMA ApplyGateOpens ==
  ASSUME NEW r, NEW T \in SUBSET Trials, NEW optIn \in BOOLEAN,
         gate.at = "free", ApplyGate(r, T, optIn)
  PROVE  Outside
<1>1. CASE Arms(r, optIn, T)
  <2>1. Resolve(row', T)
    BY <1>1 DEF ApplyGate
  <2> QED
    BY <2>1, ResolveOpens
<1>2. CASE ~Arms(r, optIn, T)
  BY <1>2 DEF ApplyGate, Outside
<1> QED
  BY <1>1, <1>2

\* A step of anybody but the gate.
OutsideStep == RowStep /\ Outside /\ judged' = judged /\ PcStep /\ Rest

\* Every step of a worker on its trial.
LEMMA WorkerOutside ==
  ASSUME Shape, NEW b \in Baselines, Claim(b) \/ WorkerStep(b) \/ WorkerEvent(b),
         requests' = requests
  PROVE  OutsideStep
<1>1. RowStep
  <2>1. ASSUME RunPostTrialHooks(b) \/ StopRun(b) \/ Crash(b) PROVE RowStep
    BY <2>1, NoRowStep DEF Shape, RunPostTrialHooks, StopRun, Crash
  <2> QED
    BY <2>1, ClaimMoves, PrepareMoves, HarborEventMoves, SettleMoves,
       RecordOutcomeMoves, HandlerRaisesMoves DEF WorkerStep, WorkerEvent
<1>2. Outside
  <2>1. CASE RunPostTrialHooks(b)
    <3>1. CASE Resolve(row, {})
      <4>1. Resolve(row', {}) /\ gate.at = "free"
        BY <2>1, <3>1 DEF RunPostTrialHooks, Unlocked
      <4> QED
        BY <4>1, ResolveOpens
    <3>2. CASE gate' = gate
      BY <3>2 DEF Outside
    <3> QED
      BY <2>1, <3>1, <3>2 DEF RunPostTrialHooks
  <2>2. CASE ~RunPostTrialHooks(b)
    BY <2>2 DEF Outside, Claim, WorkerStep, WorkerEvent, Prepare, Settle,
       RecordOutcome, StopRun, HarborEvent, HandlerRaises, Crash
  <2> QED
    BY <2>1, <2>2
<1>3. judged' = judged /\ gateOn' = gateOn
  BY DEF Claim, WorkerStep, WorkerEvent, Prepare, Settle, RunPostTrialHooks,
     RecordOutcome, StopRun, HarborEvent, HandlerRaises, Crash
<1>4. PcStep
  <2>1. \A u \in Baselines \ {b} : pc'[u] = pc[u]
    BY DEF Shape, PcFits, Claim, WorkerStep, WorkerEvent, Prepare, Settle,
       RunPostTrialHooks, RecordOutcome, StopRun, HarborEvent, HandlerRaises,
       Crash, Goto
  <2>2. pc[b] # "none" \/ row[b].job # "none"
    BY DEF Claim, WorkerStep, WorkerEvent, Prepare, Settle, RunPostTrialHooks,
       RecordOutcome, StopRun, HarborEvent, HandlerRaises, Crash
  <2>3. pc' \in [Baselines -> {"none", "claimed", "running", "hooks", "gating", "handled"}]
    BY DEF Shape, PcFits, Claim, WorkerStep, WorkerEvent, Prepare, Settle,
       RunPostTrialHooks, RecordOutcome, StopRun, HarborEvent, HandlerRaises,
       Crash, Goto
  <2> QED
    BY <2>1, <2>2, <2>3 DEF PcStep
<1> QED
  BY <1>1, <1>2, <1>3, <1>4 DEF OutsideStep, Rest, Shape, CountersFit

\* The LLM trials run, the sweep, and the submission.
LEMMA SystemOutside ==
  ASSUME Shape, requests' = requests,
         \/ \E t \in Llms : RunLlm(t)
         \/ \E R \in SUBSET Baselines : Sweep(R)
         \/ \E T \in (SUBSET Trials) \ {{}}, optIn \in BOOLEAN : Submit(T, optIn)
  PROVE  OutsideStep
<1>1. RowStep
  BY RunLlmMoves, SweepMoves, SubmitMoves
<1>2. judged' = judged /\ gateOn' = gateOn /\ pc' = pc
  BY DEF RunLlm, Sweep, Submit
<1>3. Outside
  <2>1. ASSUME NEW R \in SUBSET Baselines, Sweep(R) PROVE Outside
    <3>1. R \in SUBSET Trials
      BY DEF Trials
    <3>2. CASE gate' = gate
      BY <3>2 DEF Outside
    <3>3. CASE gate' # gate
      BY <2>1, <3>1, <3>3, ResolveOpens DEF Sweep, Unlocked
    <3> QED
      BY <3>2, <3>3
  <2> QED
    BY <2>1 DEF Outside, RunLlm, Submit
<1> QED
  BY <1>1, <1>2, <1>3 DEF OutsideStep, Rest, PcStep, Shape, PcFits, CountersFit

\* What users and operators ask for.
LEMMA RequestOutside ==
  ASSUME Shape, requests < MaxRequests, requests' = requests + 1, Request
  PROVE  OutsideStep
<1>1. requests' \in 0 .. MaxRequests
  BY ConstantsAssumption DEF Shape, CountersFit
<1>2. ASSUME NEW T \in (SUBSET Unused) \ {{}}, NEW S \in SUBSET Current,
             NEW optIn \in BOOLEAN, Append(T, S, optIn)
      PROVE  RowStep /\ Outside
  <2>1. T \in SUBSET Trials
    BY DEF Unused
  <2> QED
    BY <1>2, <2>1, AppendMoves, ApplyGateOpens DEF Append, Unlocked
<1>3. ASSUME NEW old \in Current, NEW new \in Unused, NEW optIn \in BOOLEAN,
             Retry(old, new, optIn)
      PROVE  RowStep /\ Outside
  <2>1. {new} \in SUBSET Trials
    BY DEF Unused
  <2> QED
    BY <1>3, <2>1, RetryMoves, ApplyGateOpens DEF Retry, Unlocked
<1>4. ASSUME CancelRuns PROVE RowStep /\ Outside
  BY <1>4, CancelRunsMoves DEF CancelRuns, Outside
<1>5. ASSUME NEW S \in SUBSET Current, CancelForQuota(S)
      PROVE  RowStep /\ Outside
  <2>1. S \in SUBSET Trials
    BY DEF Current
  <2>2. CASE S \cap Baselines # {}
    <3>1. Resolve(row', S) /\ gate.at = "free"
      BY <1>5, <2>2 DEF CancelForQuota, Unlocked
    <3> QED
      BY <1>5, <2>1, <3>1, CancelForQuotaMoves, ResolveOpens
  <2>3. CASE S \cap Baselines = {}
    BY <1>5, <2>3, CancelForQuotaMoves DEF CancelForQuota, Outside
  <2> QED
    BY <2>2, <2>3
<1>6. ASSUME NEW t \in Trials, DeleteTrial(t) PROVE RowStep /\ Outside
  BY <1>6, DeleteTrialMoves DEF DeleteTrial, Outside
<1>7. ASSUME SwitchFlag PROVE RowStep /\ Outside
  BY <1>7, NoRowStep DEF SwitchFlag, Outside, Shape
<1>8. RowStep /\ Outside
  BY <1>2, <1>3, <1>4, <1>5, <1>6, <1>7 DEF Request
<1>9. judged' = judged /\ gateOn' \in BOOLEAN /\ pc' = pc
  BY DEF Request, Append, Retry, CancelRuns, CancelForQuota, DeleteTrial,
     SwitchFlag, Shape, CountersFit
<1> QED
  BY <1>1, <1>8, <1>9 DEF OutsideStep, Rest, PcStep, Shape, PcFits

\* A step is one of the gate's, or one outside it.
LEMMA StepIsOutside ==
  ASSUME Shape, [Next]_vars
  PROVE  GateCount \/ GateEvaluate \/ GateApply \/ OutsideStep
<1>1. CASE UNCHANGED vars
  <2>1. UNCHANGED <<row, pc, gate, gateOn, requests, judged>>
    BY <1>1 DEF vars
  <2>2. RowStep
    BY <2>1, NoRowStep DEF Shape
  <2> QED
    BY <2>1, <2>2 DEF OutsideStep, Outside, PcStep, Rest, Shape, PcFits,
       CountersFit
<1>2. CASE \E b \in Baselines : Claim(b) \/ WorkerStep(b) \/ WorkerEvent(b)
  <2>1. PICK b \in Baselines : Claim(b) \/ WorkerStep(b) \/ WorkerEvent(b)
    BY <1>2
  <2>2. requests' = requests
    BY <2>1 DEF Claim, WorkerStep, WorkerEvent, Prepare, Settle, RunPostTrialHooks,
       RecordOutcome, StopRun, HarborEvent, HandlerRaises, Crash
  <2> QED
    BY <2>1, <2>2, WorkerOutside
<1>3. CASE \/ \E t \in Llms : RunLlm(t)
           \/ \E R \in SUBSET Baselines : Sweep(R)
           \/ \E T \in (SUBSET Trials) \ {{}}, optIn \in BOOLEAN : Submit(T, optIn)
  <2>1. requests' = requests
    BY <1>3 DEF RunLlm, Sweep, Submit
  <2> QED
    BY <1>3, <2>1, SystemOutside
<1>4. CASE requests < MaxRequests /\ requests' = requests + 1 /\ Request
  BY <1>4, RequestOutside
<1> QED
  BY <1>1, <1>2, <1>3, <1>4 DEF Next, GateStep

\* A step of the gate: what it keeps of the rest.
LEMMA GateKeeps ==
  ASSUME Shape, GateCount \/ GateEvaluate \/ GateApply
  PROVE  /\ gateOn' = gateOn /\ requests' = requests
         /\ pc' \in [Baselines -> {"none", "claimed", "running", "hooks", "gating", "handled"}]
         /\ \A b \in Baselines : pc'[b] # "none" => pc[b] # "none"
         /\ row' \in [Trials -> Row]
         /\ \A t \in Trials : RowFits(row'[t], t) /\ Keeps(row[t], row'[t])
<1>1. /\ gateOn' = gateOn /\ requests' = requests
      /\ pc' = pc \/ pc' = [b \in Baselines |-> IF pc[b] = "gating"
                                                 THEN "handled" ELSE pc[b]]
  BY DEF GateCount, GateEvaluate, GateApply, EndGate
<1>2. row' = row \/ GateApply
  BY DEF GateCount, GateEvaluate
<1>3. ASSUME row' = row
      PROVE  /\ row' \in [Trials -> Row]
             /\ \A t \in Trials : RowFits(row'[t], t) /\ Keeps(row[t], row'[t])
  BY <1>3, NoRowStep DEF Shape, RowStep, Moves
<1> QED
  BY <1>1, <1>2, <1>3, GateApplyMoves DEF Shape, PcFits

\* The transaction after a step of its own.
LEMMA GateAfter ==
  ASSUME Shape, GateCount \/ GateEvaluate \/ GateApply
  PROVE  \/ gate' = NoGate /\ judged' = judged
         \/ /\ row' = row /\ gate.at = "count" /\ PendingBaselines(row) = {}
            /\ gate' = [gate EXCEPT !.at = "evaluate"] /\ judged' = judged
         \/ GateEvaluate
BY DEF GateCount, GateApply, EndGate

-----------------------------------------------------------------------------
(* The invariant is inductive.                                             *)

\* The initial state has the shape, and nothing is decided in it.
LEMMA InitShape == ASSUME Init PROVE Shape /\ Decided
<1>1. RowsFit
  BY NoRowFits DEF Init, RowsFit, RowFits
<1>2. PcFits
  BY DEF Init, PcFits
<1>3. gate.at = "free" /\ gate \in Gate
  BY DEF Init, NoGate, Gate
<1>4. CountersFit
  BY ConstantsAssumption DEF Init, CountersFit
<1> QED
  BY <1>1, <1>2, <1>3, <1>4 DEF Init, Shape, GateFits, StillBlocked, Decided,
     CountHolds, DecisionHolds, JudgedSettled

\* The open transaction keeps its type through every step.
LEMMA GateType == ASSUME Shape, [Next]_vars PROVE gate' \in Gate
<1>1. gate \in Gate
  BY DEF Shape, GateFits
<1>2. NoGate \in Gate
  BY DEF NoGate, Gate
<1>3. ASSUME Opens PROVE gate' \in Gate
  BY <1>3 DEF Opens, Gate, BlockedTrials
<1>4. [gate EXCEPT !.at = "evaluate"] \in Gate
  BY <1>1 DEF Gate
<1>5. ASSUME GateEvaluate PROVE gate' \in Gate
  BY <1>1, <1>5 DEF GateEvaluate, Gate
<1>6. ASSUME OutsideStep PROVE gate' \in Gate
  BY <1>1, <1>2, <1>3, <1>6 DEF OutsideStep, Outside
<1> QED
  BY <1>2, <1>4, <1>5, <1>6, StepIsOutside, GateAfter

\* What the open transaction means to resolve stays blocked or is deleted.
LEMMA StillBlockedStep ==
  ASSUME Shape, [Next]_vars PROVE StillBlocked'
<1>1. gate \in Gate /\ StillBlocked
  BY DEF Shape, GateFits
<1>2. CASE gate'.at = "free"
  BY <1>2 DEF StillBlocked
<1>3. CASE gate'.at # "free" /\ gate.at # "free" /\ gate'.blocked = gate.blocked /\ row' = row
  BY <1>1, <1>3 DEF StillBlocked
<1>4. CASE OutsideStep /\ gate'.at # "free" /\ gate' = gate
  <2>1. \A t \in gate.blocked : Keeps(row[t], row'[t]) /\ Held(row[t], row'[t])
    BY <1>1, <1>4 DEF OutsideStep, RowStep, Moves, Gate, Trials
  <2> QED
    BY <1>1, <1>4, <2>1 DEF StillBlocked, Keeps, Held
<1>5. CASE OutsideStep /\ Opens
  <2>1. gate'.blocked = BlockedTrials(row') /\ BlockedTrials(row') # {}
    BY <1>5 DEF Opens
  <2>2. \A t \in Trials : RowFits(row'[t], t)
    BY <1>5 DEF OutsideStep, RowStep, Moves
  <2>3. \A t \in BlockedTrials(row') : row'[t].job = "BLOCKED" /\ row'[t].status # "none"
    BY <2>2 DEF BlockedTrials, RowFits, Trials
  <2> QED
    BY <2>1, <2>3 DEF StillBlocked
<1>6. CASE GateEvaluate
  <2>1. gate'.blocked = gate.blocked /\ row' = row /\ gate.at # "free"
    BY <1>1, <1>6 DEF GateEvaluate, Gate
  <2> QED
    BY <1>2, <1>3, <2>1
<1>7. CASE row' = row /\ gate.at = "count" /\ gate' = [gate EXCEPT !.at = "evaluate"]
  <2>1. gate'.blocked = gate.blocked
    BY <1>1, <1>7 DEF Gate
  <2> QED
    BY <1>2, <1>3, <1>7, <2>1
<1>8. CASE gate' = NoGate
  BY <1>2, <1>8 DEF NoGate
<1> QED
  BY <1>2, <1>4, <1>5, <1>6, <1>7, <1>8, StepIsOutside, GateAfter
     DEF OutsideStep, Outside

\* Every step keeps the shape.
LEMMA ShapeStep == ASSUME Shape, [Next]_vars PROVE Shape'
<1>1. /\ row' \in [Trials -> Row]
      /\ \A t \in Trials : RowFits(row'[t], t) /\ Keeps(row[t], row'[t])
  BY StepIsOutside, GateKeeps DEF OutsideStep, RowStep, Moves
<1>2. /\ pc' \in [Baselines -> {"none", "claimed", "running", "hooks", "gating", "handled"}]
      /\ \A b \in Baselines : pc'[b] # "none" => pc[b] # "none" \/ row[b].job # "none"
  BY StepIsOutside, GateKeeps DEF OutsideStep, PcStep
<1>3. RowsFit'
  BY <1>1 DEF RowsFit
<1>4. PcFits'
  <2>1. ASSUME NEW b \in Baselines, pc'[b] # "none" PROVE row'[b].job # "none"
    <3>1. b \in Trials /\ row[b].job # "none"
      BY <1>2, <2>1 DEF Shape, PcFits, Trials
    <3>2. RowFits(row[b], b) /\ RowFits(row'[b], b) /\ Keeps(row[b], row'[b])
      BY <1>1, <3>1 DEF Shape, RowsFit
    <3> QED
      BY <3>1, <3>2 DEF RowFits, Keeps
  <2> QED
    BY <1>2, <2>1 DEF PcFits
<1>5. GateFits'
  BY GateType, StillBlockedStep DEF GateFits
<1>6. CountersFit'
  <2>1. judged \subseteq Baselines /\ gateOn \in BOOLEAN /\ requests \in 0 .. MaxRequests
    BY DEF Shape, CountersFit
  <2>2. ASSUME GateEvaluate PROVE judged' \subseteq Baselines
    BY <2>1, <2>2 DEF GateEvaluate, Evaluable, LiveBaselines
  <2>3. judged' \subseteq Baselines
    BY <2>1, <2>2, StepIsOutside, GateAfter DEF OutsideStep
  <2> QED
    BY <2>1, <2>3, StepIsOutside, GateKeeps DEF CountersFit, OutsideStep, Rest
<1> QED
  BY <1>3, <1>4, <1>5, <1>6 DEF Shape

\* A live baseline that is not pending is settled.
LEMMA DoneIsSettled ==
  ASSUME Shape, PendingBaselines(row) = {}, NEW b \in LiveBaselines(row)
  PROVE  IsSettled(row[b])
<1>1. /\ b \in Trials /\ b \notin Llms /\ row[b] \in Row /\ RowFits(row[b], b)
      /\ row[b].status # "none"
  BY ConstantsAssumption DEF Shape, RowsFit, LiveBaselines, Trials
<1>2. row[b].status \notin ActiveTrial /\ row[b].job \notin ActiveJob
  BY DEF PendingBaselines, Pending
<1> QED
  BY <1>1, <1>2 DEF IsSettled, RowFits, Row, TerminalTrial

\* While the gate is open and its baselines are done, nobody but a deletion
\* changes them, and no baseline is added.
LEMMA LiveStays ==
  ASSUME ~LateStart, Shape, OutsideStep, gate.at # "free",
         PendingBaselines(row) = {}, NEW b \in LiveBaselines(row')
  PROVE  /\ b \in LiveBaselines(row)
         /\ IsSettled(row[b]) /\ SameResult(row[b], row'[b])
<1>1. /\ b \in Trials /\ b \in Baselines /\ row'[b].status # "none"
      /\ ~row'[b].superseded /\ ~row'[b].deleted
  BY DEF LiveBaselines, Trials
<1>2. Keeps(row[b], row'[b]) /\ Held(row[b], row'[b])
  BY <1>1 DEF OutsideStep, RowStep, Moves
<1>3. b \in LiveBaselines(row)
  BY <1>1, <1>2 DEF LiveBaselines, Keeps, Held
<1>4. IsSettled(row[b])
  BY <1>3, DoneIsSettled
<1> QED
  BY <1>2, <1>3, <1>4 DEF Keeps

\* What was counted stays so: no baseline becomes pending under an open gate.
LEMMA CountHoldsStep ==
  ASSUME ~LateStart, Shape, CountHolds, [Next]_vars PROVE CountHolds'
<1>1. CASE gate'.at \notin {"evaluate", "apply"}
  BY <1>1 DEF CountHolds
<1>2. CASE gate' = NoGate
  BY <1>2, <1>1 DEF NoGate
<1>3. CASE row' = row /\ PendingBaselines(row) = {}
  BY <1>3 DEF CountHolds
<1>4. CASE GateEvaluate
  <2>1. row' = row /\ gate.at = "evaluate"
    BY <1>4 DEF GateEvaluate
  <2> QED
    BY <1>3, <2>1 DEF CountHolds
<1>5. CASE OutsideStep /\ gate' = gate /\ gate.at \in {"evaluate", "apply"}
  <2>1. PendingBaselines(row) = {}
    BY <1>5 DEF CountHolds
  <2>2. ASSUME NEW b \in LiveBaselines(row') PROVE ~Pending(row'[b])
    <3>1. IsSettled(row[b]) /\ SameResult(row[b], row'[b])
      BY <1>5, <2>1, LiveStays
    <3> QED
      BY <3>1 DEF Pending, IsSettled, SameResult, ActiveTrial, ActiveJob, ClosedJob
  <2> QED
    BY <2>2 DEF CountHolds, PendingBaselines
<1>6. CASE Opens
  BY <1>1, <1>6 DEF Opens
<1> QED
  BY <1>1, <1>2, <1>3, <1>4, <1>5, <1>6, StepIsOutside, GateAfter
     DEF OutsideStep, Outside

\* What was decided stays right.
LEMMA DecisionHoldsStep ==
  ASSUME ~LateStart, Shape, CountHolds, DecisionHolds, [Next]_vars
  PROVE  DecisionHolds'
<1>1. CASE gate'.at # "apply"
  BY <1>1 DEF DecisionHolds
<1>2. CASE gate' = NoGate
  BY <1>2, <1>1 DEF NoGate
<1>3. CASE gate' = [gate EXCEPT !.at = "evaluate"]
  <2>1. gate'.at = "evaluate"
    BY <1>3 DEF Shape, GateFits, Gate
  <2> QED
    BY <1>1, <2>1
<1>4. CASE GateEvaluate
  <2>1. /\ row' = row
        /\ gate'.verdict = IF \A b \in Evaluable(row) : Passes(row, b)
                           THEN "release" ELSE "skip"
    BY <1>4 DEF GateEvaluate, Shape, GateFits, Gate
  <2> QED
    BY <2>1 DEF DecisionHolds
<1>5. CASE OutsideStep /\ gate' = gate /\ gate.at = "apply" /\ gate.verdict = "release"
  <2>1. PendingBaselines(row) = {}
    BY <1>5 DEF CountHolds
  <2>2. ASSUME NEW b \in Evaluable(row') PROVE Passes(row', b)
    <3>1. b \in LiveBaselines(row') /\ row'[b].stage # "cancelled"
      BY <2>2 DEF Evaluable
    <3>2. b \in LiveBaselines(row) /\ SameResult(row[b], row'[b])
      BY <1>5, <2>1, <3>1, LiveStays
    <3>3. b \in Evaluable(row)
      BY <3>1, <3>2 DEF Evaluable, SameResult
    <3>4. Passes(row, b)
      BY <1>5, <3>3 DEF DecisionHolds
    <3> QED
      BY <3>2, <3>4 DEF Passes, SameResult
  <2> QED
    BY <2>2 DEF DecisionHolds
<1>6. CASE OutsideStep /\ gate' = gate /\ gate.verdict # "release"
  BY <1>6 DEF DecisionHolds
<1>7. CASE Opens
  BY <1>1, <1>7 DEF Opens
<1> QED
  BY <1>1, <1>2, <1>3, <1>4, <1>5, <1>6, <1>7, StepIsOutside, GateAfter
     DEF OutsideStep, Outside

\* A result that a verdict was based on is final when it is counted, and stays.
LEMMA JudgedStep ==
  ASSUME ~LateStart, Shape, CountHolds, JudgedSettled, [Next]_vars
  PROVE  \A b \in judged' : Settled(b)' /\ (b \in judged => Result(b)' = Result(b))
<1>1. ASSUME NEW b \in judged
      PROVE  Settled(b)' /\ Result(b)' = Result(b)
  <2>1. b \in Trials /\ IsSettled(row[b])
    BY <1>1 DEF JudgedSettled, Settled, IsSettled, Shape, CountersFit, Trials
  <2>2. Keeps(row[b], row'[b])
    BY <2>1, StepIsOutside, GateKeeps DEF OutsideStep, RowStep, Moves
  <2>3. SameResult(row[b], row'[b])
    BY <2>1, <2>2 DEF Keeps
  <2> QED
    BY <2>1, <2>3 DEF Settled, Result, IsSettled, SameResult
<1>2. ASSUME GateEvaluate, NEW b \in Evaluable(row) PROVE Settled(b)'
  <2>1. b \in LiveBaselines(row) /\ PendingBaselines(row) = {} /\ row' = row
    BY <1>2 DEF GateEvaluate, CountHolds, Evaluable
  <2>2. IsSettled(row[b])
    BY <2>1, DoneIsSettled
  <2> QED
    BY <2>1, <2>2 DEF IsSettled, Settled
<1>3. judged' = judged \/ (GateEvaluate /\ judged' = judged \cup Evaluable(row))
  BY StepIsOutside, GateAfter DEF OutsideStep, GateEvaluate
<1>4. CASE judged' = judged
  BY <1>1, <1>4
<1>5. CASE GateEvaluate /\ judged' = judged \cup Evaluable(row)
  <2>1. ASSUME NEW b \in judged'
        PROVE  Settled(b)' /\ (b \in judged => Result(b)' = Result(b))
    BY <1>1, <1>2, <1>5, <2>1
  <2> QED
    BY <2>1
<1> QED
  BY <1>3, <1>4, <1>5

-----------------------------------------------------------------------------
(* The theorems.                                                           *)

\* The shape of rows, processes and the open transaction: SKIPPED and BLOCKED
\* rows are as the gate and the submission made them.
THEOREM GateShape == Spec => []Shape
<1>1. Init => Shape
  BY InitShape
<1>2. Shape /\ [Next]_vars => Shape'
  BY ShapeStep
<1> QED
  BY <1>1, <1>2, PTL DEF Spec

\* Every row, process and open transaction has its declared shape: no claim
\* takes an attempt beyond max_trial_attempts.
THEOREM TypeCorrect == Spec => []TypeOK
<1>1. Shape => TypeOK
  BY DEF Shape, RowsFit, PcFits, GateFits, CountersFit, TypeOK
<1> QED
  BY <1>1, GateShape, PTL

\* A skipped trial never runs, whatever happens to it while the gate decides.
THEOREM SkippedStaysClosed == Spec => []SkippedNeverRuns
<1>1. Shape => SkippedNeverRuns
  BY DEF Shape, RowsFit, RowFits, SkippedNeverRuns
<1> QED
  BY <1>1, GateShape, PTL

\* What an open gate has read and decided is so until it writes.
THEOREM DecisionsHold == ~LateStart => (Spec => [](Shape /\ Decided))
<1> SUFFICES ASSUME ~LateStart PROVE Spec => [](Shape /\ Decided)
  OBVIOUS
<1>1. Init => Shape /\ Decided
  BY InitShape
<1>2. Shape /\ Decided /\ [Next]_vars => (Shape /\ Decided)'
  <2> SUFFICES ASSUME Shape, Decided, [Next]_vars PROVE Shape' /\ Decided'
    OBVIOUS
  <2>1. JudgedSettled'
    BY JudgedStep DEF Decided, JudgedSettled
  <2> QED
    BY <2>1, ShapeStep, CountHoldsStep, DecisionHoldsStep DEF Decided
<1> QED
  BY <1>1, <1>2, PTL DEF Spec

\* A verdict rests on final results, and none of them changes afterwards.
THEOREM VerdictsAreFinal == ~LateStart => (Spec => VerdictsStand)
<1> SUFFICES ASSUME ~LateStart PROVE Spec => VerdictsStand
  OBVIOUS
<1>1. Shape /\ Decided /\ [Next]_vars =>
        [\A b \in judged' : Settled(b)' /\ (b \in judged => Result(b)' = Result(b))]_vars
  BY JudgedStep DEF Decided
<1> QED
  BY <1>1, DecisionsHold, PTL DEF Spec, VerdictsStand

\* A BLOCKED job is released only when, at the moment of the write, no baseline
\* of the scope is pending and those that count pass.
THEOREM ReleasesAreClean == ~LateStart => (Spec => ReleasedWhenClean)
<1> SUFFICES ASSUME ~LateStart PROVE Spec => ReleasedWhenClean
  OBVIOUS
<1> DEFINE Clean ==
      \A t \in Llms : row[t].job = "BLOCKED" /\ row'[t].job = "QUEUED" =>
        /\ PendingBaselines(row) = {}
        /\ \A b \in Evaluable(row) : Passes(row, b)
<1>1. ASSUME Shape, Decided, [Next]_vars PROVE Clean
  <2>1. SUFFICES ASSUME NEW t \in Llms, row[t].job = "BLOCKED", row'[t].job = "QUEUED"
                 PROVE  /\ PendingBaselines(row) = {}
                        /\ \A b \in Evaluable(row) : Passes(row, b)
    OBVIOUS
  <2>2. t \in Trials
    BY DEF Trials
  <2>3. ~OutsideStep
    BY <2>1, <2>2 DEF OutsideStep, RowStep, Moves, Held
  <2>4. GateApply
    BY <1>1, <2>1, <2>3, StepIsOutside DEF GateCount, GateEvaluate
  <2>5. gate.at = "apply" /\ gate.verdict = "release"
    BY <1>1, <2>1, <2>2, <2>4, GateApplyMoves DEF GateApply
  <2> QED
    BY <1>1, <2>5 DEF Decided, CountHolds, DecisionHolds
<1>2. Shape /\ Decided /\ [Next]_vars => [Clean]_vars
  BY <1>1
<1> QED
  BY <1>2, DecisionsHold, PTL DEF Spec, ReleasedWhenClean
=============================================================================
