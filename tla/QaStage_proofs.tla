---------------------------- MODULE QaStage_proofs ----------------------------
(***************************************************************************)
(* The stages of a task, for any number of versions, trials, requests and  *)
(* workers: there is one live QA trial, a stored verdict speaks of the     *)
(* source and the audit the task has now, the grades on the trials are     *)
(* those of the run that gave it, and a cancelled QA stays cancelled.      *)
(*                                                                         *)
(* A transaction is a chain of operators on the database, so everything is *)
(* said of database records: Core, AgentsAudited and VerdictFits of one record,  *)
(* Evolves of the records before and after.  Each operator has a lemma     *)
(* (Kept), each action is the chain of its operators' lemmas, and Commit   *)
(* makes the record the next state.                                        *)
(***************************************************************************)
EXTENDS QaStage, FiniteSetTheorems, SequenceTheorems, TLAPS

-----------------------------------------------------------------------------
(* The invariant.                                                          *)

DbType == [task : Task, version : [Versions -> Version],
           agents : Seq(Agent), analyses : Seq(Analysis)]

Typed(s) ==
  /\ s \in DbType /\ Len(s.agents) <= MaxAgents
  /\ s.task.verdict # NoVerdict => s.task.vstatus = "success"

OneLive(s) == \A i, j \in Live(s, "qa") : i = j

\* What a QA trial grades has finished, in the version it was created for, and
\* only the import of a settled trial is under way.
AnalysisFits(s, i) ==
  /\ s.analyses[i].trials \subseteq DOMAIN s.agents
  /\ \A a \in s.analyses[i].trials :
       /\ s.agents[a].version = s.analyses[i].version
       /\ s.agents[a].status # "active"
  /\ s.analyses[i].import # "idle" => s.analyses[i].status # "live"
  /\ s.analyses[i].import = "graded" => s.analyses[i].kind = "qa"

AnalysesFit(s) == \A i \in DOMAIN s.analyses : AnalysisFits(s, i)

IsAuditOf(s, i, v) == s.analyses[i].kind = "audit" /\ s.analyses[i].version = v

\* The findings of a version are those of its newest audit, and a failed audit
\* has no newer one that could still deliver any.
AuditFits(s, v) ==
  /\ s.version[v].audit = "success" =>
       \E i \in DOMAIN s.analyses :
         /\ i = s.version[v].by /\ IsAuditOf(s, i, v) /\ IsNewest(s, i)
         /\ s.analyses[i].status \in {"good", "cancelled"}
  /\ s.version[v].audit = "failed" =>
       /\ s.version[v].by = 0
       /\ \A i \in DOMAIN s.analyses : IsAuditOf(s, i, v) /\ IsNewest(s, i)
            => s.analyses[i].status \in {"bad", "cancelled"}

AuditsFit(s) == \A v \in Versions : AuditFits(s, v)

Core(s) == Typed(s) /\ OneLive(s) /\ AnalysesFit(s) /\ AuditsFit(s)

\* A version with agent trials has had an audit asked for.
AgentsAudited(s) == \A a \in DOMAIN s.agents : s.version[s.agents[a].version].audit # "none"

\* The grades of QA trial i are on its trials, unless a newer one replaced it.
Graded(s, i) ==
  IsNewest(s, i) =>
    \A a \in s.analyses[i].trials :
      s.agents[a].status = "done" => s.agents[a].graded = i

VerdictFits(s) ==
  s.task.verdict # NoVerdict =>
    LET w == s.task.verdict
        v == s.version[s.task.current]
    IN /\ w.current = s.task.current /\ w.hash = v.hash /\ w.audit = v.by
       /\ v.audit \notin {"none", "queued"}
       /\ w.by # 0 =>
            /\ w.by \in DOMAIN s.analyses /\ s.analyses[w.by].kind = "qa"
            /\ s.analyses[w.by].version = s.task.current
            /\ IsNewest(s, w.by) /\ Graded(s, w.by)

\* Between storing its grades and publishing, a worker's are there.
ImportsGraded(s) ==
  \A i \in DOMAIN s.analyses : s.analyses[i].import = "graded" => Graded(s, i)

\* So are those of the sweep, and it imports settled trials only.
SweepFits(s, w) ==
  /\ w.todo \subseteq DOMAIN s.analyses
  /\ \A i \in w.todo : s.analyses[i].status # "live"
  /\ w.step \in {"idle", "graded", "admit"}
  /\ w.step = "idle" => w.trial = 0
  /\ w.step # "idle" =>
       w.trial \in DOMAIN s.analyses /\ s.analyses[w.trial].status # "live"
  /\ w.step = "graded" => s.analyses[w.trial].kind = "qa" /\ Graded(s, w.trial)

Good(s) == Core(s) /\ AgentsAudited(s) /\ VerdictFits(s) /\ ImportsGraded(s)

Inv == Good(Db) /\ SweepFits(Db, sweep) /\ requests \in 0 .. MaxRequests

-----------------------------------------------------------------------------
(* Lemmas on sequences and records.                                        *)

\* A function on 1..n is a sequence of length n.
LEMMA FunctionIsSeq ==
  ASSUME NEW S, NEW n \in Nat, NEW f \in [1..n -> S]
  PROVE  f \in Seq(S) /\ Len(f) = n /\ DOMAIN f = 1..n
OBVIOUS

\* Mapping a sequence element by element.
LEMMA MapSeq ==
  ASSUME NEW S, NEW q \in Seq(S), NEW f, f = [i \in DOMAIN q |-> f[i]],
         \A i \in DOMAIN q : f[i] \in S
  PROVE  f \in Seq(S) /\ Len(f) = Len(q) /\ DOMAIN f = DOMAIN q
<1>1. Len(q) \in Nat /\ DOMAIN q = 1..Len(q)
  OBVIOUS
<1>2. f \in [1..Len(q) -> S]
  BY <1>1
<1> QED
  BY <1>1, <1>2, FunctionIsSeq

\* Appending leaves what was there.
LEMMA AppendSeq ==
  ASSUME NEW S, NEW q \in Seq(S), NEW e \in S
  PROVE  /\ Append(q, e) \in Seq(S)
         /\ Len(Append(q, e)) = Len(q) + 1
         /\ DOMAIN Append(q, e) = DOMAIN q \cup {Len(q) + 1}
         /\ \A i \in DOMAIN q : Append(q, e)[i] = q[i]
         /\ Append(q, e)[Len(q) + 1] = e
         /\ Len(q) + 1 \notin DOMAIN q
         /\ \A i \in DOMAIN q : i < Len(q) + 1
BY AppendProperties

\* A transaction commits the record it computed.
LEMMA CommitDb == ASSUME NEW s \in DbType, Commit(s) PROVE Db' = s
<1>1. s = [task |-> s.task, version |-> s.version, agents |-> s.agents,
           analyses |-> s.analyses]
  BY DEF DbType
<1> QED
  BY <1>1 DEF Commit, Db

\* The rows of a database.
LEMMA RowTypes ==
  ASSUME NEW s \in DbType
  PROVE  /\ \A a \in DOMAIN s.agents : s.agents[a] \in Agent
         /\ DOMAIN s.agents = 1..Len(s.agents) /\ Len(s.agents) \in Nat
         /\ \A i \in DOMAIN s.analyses : s.analyses[i] \in Analysis
         /\ DOMAIN s.analyses = 1..Len(s.analyses) /\ Len(s.analyses) \in Nat
<1>1. s.agents \in Seq(Agent) /\ s.analyses \in Seq(Analysis)
  BY DEF DbType
<1> QED
  BY <1>1, ElementOfSeq, LenProperties

-----------------------------------------------------------------------------
(* What becomes of a database.                                             *)

\* What a trial is does not change, nor what it has become undone; the grades
\* of a QA trial stay while it is the newest.
Evolves(s, t) ==
  /\ DOMAIN s.analyses \subseteq DOMAIN t.analyses
  /\ \A i \in DOMAIN s.analyses :
       /\ t.analyses[i].kind = s.analyses[i].kind
       /\ t.analyses[i].version = s.analyses[i].version
       /\ s.analyses[i].status # "live" => t.analyses[i].status # "live"
       /\ t.analyses[i].import = "graded" =>
            \/ s.analyses[i].import = "graded"
            \/ s.analyses[i].kind = "qa" /\ Graded(t, i)
       /\ s.analyses[i].kind = "qa" /\ Graded(s, i) => Graded(t, i)
  /\ \A i \in DOMAIN t.analyses \ DOMAIN s.analyses :
       t.analyses[i].import = "graded" => t.analyses[i].kind = "qa" /\ Graded(t, i)

\* No verdict of a QA trial is new.
NoneNew(s, t) ==
  t.task.verdict # NoVerdict /\ t.task.verdict.by # 0 => t.task.verdict = s.task.verdict

\* An operator that asks nothing of its caller.
Kept(s, t) ==
  /\ Core(t) /\ Evolves(s, t) /\ NoneNew(s, t)
  /\ AgentsAudited(s) => AgentsAudited(t)
  /\ VerdictFits(s) => VerdictFits(t)

\* Chains of operators.
LEMMA EvolvesItself == ASSUME NEW s PROVE Evolves(s, s)
BY DEF Evolves

LEMMA EvolvesOn ==
  ASSUME NEW s, NEW t, NEW u, Evolves(s, t), Evolves(t, u) PROVE Evolves(s, u)
<1>1. DOMAIN s.analyses \subseteq DOMAIN u.analyses
  BY DEF Evolves
<1>2. ASSUME NEW i \in DOMAIN s.analyses
      PROVE  /\ u.analyses[i].kind = s.analyses[i].kind
             /\ u.analyses[i].version = s.analyses[i].version
             /\ s.analyses[i].status # "live" => u.analyses[i].status # "live"
             /\ u.analyses[i].import = "graded" =>
                  \/ s.analyses[i].import = "graded"
                  \/ s.analyses[i].kind = "qa" /\ Graded(u, i)
             /\ s.analyses[i].kind = "qa" /\ Graded(s, i) => Graded(u, i)
  <2>1. i \in DOMAIN t.analyses
    BY DEF Evolves
  <2> QED
    BY <2>1 DEF Evolves
<1>3. ASSUME NEW i \in DOMAIN u.analyses \ DOMAIN s.analyses
      PROVE  u.analyses[i].import = "graded" => u.analyses[i].kind = "qa" /\ Graded(u, i)
  <2>1. CASE i \in DOMAIN t.analyses
    BY <1>3, <2>1 DEF Evolves
  <2>2. CASE i \notin DOMAIN t.analyses
    BY <1>3, <2>2 DEF Evolves
  <2> QED
    BY <2>1, <2>2
<1> QED
  BY <1>1, <1>2, <1>3 DEF Evolves

LEMMA KeptItself == ASSUME NEW s, Core(s) PROVE Kept(s, s)
BY EvolvesItself DEF Kept, NoneNew

LEMMA KeptOn ==
  ASSUME NEW s, NEW t, NEW u, Kept(s, t), Kept(t, u) PROVE Kept(s, u)
<1>1. Evolves(s, u)
  BY EvolvesOn DEF Kept
<1>2. NoneNew(s, u)
  BY DEF Kept, NoneNew
<1> QED
  BY <1>1, <1>2 DEF Kept

-----------------------------------------------------------------------------
(* Operators on the tasks row.                                             *)

\* Only the tasks row differs.
TaskOnly(s, t) ==
  /\ t \in DbType
  /\ t.version = s.version /\ t.agents = s.agents /\ t.analyses = s.analyses

\* What is said of trials does not look at the tasks row.
LEMMA TaskOnlyCore ==
  ASSUME NEW s, NEW t, Core(s), TaskOnly(s, t),
         t.task.verdict # NoVerdict => t.task.vstatus = "success"
  PROVE  /\ Core(t)
         /\ \A i \in DOMAIN s.analyses : IsNewest(t, i) <=> IsNewest(s, i)
         /\ \A i \in DOMAIN s.analyses : Graded(t, i) <=> Graded(s, i)
         /\ AgentsAudited(t) <=> AgentsAudited(s)
         /\ Evolves(s, t)
<1>1. \A i : IsNewest(t, i) <=> IsNewest(s, i)
  BY DEF TaskOnly, IsNewest
<1>2. \A i : Graded(t, i) <=> Graded(s, i)
  BY <1>1 DEF TaskOnly, Graded
<1>3. Typed(t)
  BY DEF Core, Typed, TaskOnly
<1>4. OneLive(t)
  BY DEF Core, OneLive, Live, TaskOnly
<1>5. AnalysesFit(t)
  BY DEF Core, AnalysesFit, AnalysisFits, TaskOnly
<1>6. AuditsFit(t)
  BY <1>1 DEF Core, AuditsFit, AuditFits, IsAuditOf, TaskOnly
<1>7. AgentsAudited(t) <=> AgentsAudited(s)
  BY DEF AgentsAudited, TaskOnly
<1>8. Evolves(s, t)
  BY <1>2 DEF Evolves, TaskOnly
<1> QED
  BY <1>1, <1>2, <1>3, <1>4, <1>5, <1>6, <1>7, <1>8 DEF Core

\* A verdict that is withdrawn, kept, or the server's own.
LEMMA TaskOnlyKept ==
  ASSUME NEW s, NEW t, Core(s), TaskOnly(s, t),
         t.task.verdict # NoVerdict => t.task.vstatus = "success",
         t.task.verdict # NoVerdict =>
           t.task.verdict.by = 0 \/ t.task.verdict = s.task.verdict,
         VerdictFits(s) => VerdictFits(t)
  PROVE  Kept(s, t)
<1>1. Core(t) /\ (AgentsAudited(t) <=> AgentsAudited(s))
  BY TaskOnlyCore
<1>2. Evolves(s, t)
  BY TaskOnlyCore
<1>3. NoneNew(s, t)
  BY DEF NoneNew
<1> QED
  BY <1>1, <1>2, <1>3 DEF Kept

\* The status of the task.
LEMMA InStatusFields ==
  ASSUME NEW s \in DbType,
         NEW st \in {"pending", "running", "verdict_pending", "completed", "failed"}
  PROVE  /\ TaskOnly(s, InStatus(s, st))
         /\ InStatus(s, st).task.status = st
         /\ InStatus(s, st).task.current = s.task.current
         /\ InStatus(s, st).task.verdict = s.task.verdict
         /\ InStatus(s, st).task.vstatus = s.task.vstatus
<1> DEFINE k == [s.task EXCEPT !.status = st]
<1>1. s.task \in Task
  BY DEF DbType
<1>2. /\ k \in Task /\ k.status = st /\ k.current = s.task.current
      /\ k.verdict = s.task.verdict /\ k.vstatus = s.task.vstatus
  BY <1>1 DEF Task
<1>3. InStatus(s, st) = [s EXCEPT !.task = k]
  BY DEF InStatus
<1> HIDE DEF k
<1>4. /\ [s EXCEPT !.task = k] \in DbType
      /\ [s EXCEPT !.task = k].task = k
      /\ [s EXCEPT !.task = k].version = s.version
      /\ [s EXCEPT !.task = k].agents = s.agents
      /\ [s EXCEPT !.task = k].analyses = s.analyses
  BY <1>2 DEF DbType
<1> QED
  BY <1>2, <1>3, <1>4 DEF TaskOnly

LEMMA InStatusKept ==
  ASSUME NEW s, Core(s),
         NEW st \in {"pending", "running", "verdict_pending", "completed", "failed"}
  PROVE  Kept(s, InStatus(s, st))
<1> DEFINE t == InStatus(s, st)
<1>1. s \in DbType /\ (s.task.verdict # NoVerdict => s.task.vstatus = "success")
  BY DEF Core, Typed
<1>2. /\ TaskOnly(s, t) /\ t.task.current = s.task.current
      /\ t.task.verdict = s.task.verdict /\ t.task.vstatus = s.task.vstatus
  BY <1>1, InStatusFields
<1> HIDE DEF t
<1>3. \A i \in DOMAIN s.analyses : (IsNewest(t, i) <=> IsNewest(s, i))
                                   /\ (Graded(t, i) <=> Graded(s, i))
  BY <1>1, <1>2, TaskOnlyCore
<1>4. VerdictFits(s) => VerdictFits(t)
  BY <1>2, <1>3 DEF VerdictFits, TaskOnly
<1>5. Kept(s, t)
  BY <1>1, <1>2, <1>4, TaskOnlyKept
<1> QED
  BY <1>5 DEF t

VerdictStates == {"none", "queued", "success", "failed"}

\* The verdict columns.
LEMMA WithVerdictFields ==
  ASSUME NEW s \in DbType, NEW w \in Verdict \cup {NoVerdict},
         NEW x \in VerdictStates
  PROVE  /\ TaskOnly(s, WithVerdict(s, w, x))
         /\ WithVerdict(s, w, x).task.status = s.task.status
         /\ WithVerdict(s, w, x).task.current = s.task.current
         /\ WithVerdict(s, w, x).task.verdict = w
         /\ WithVerdict(s, w, x).task.vstatus = x
<1> DEFINE k == [s.task EXCEPT !.verdict = w, !.vstatus = x]
<1>1. s.task \in Task
  BY DEF DbType
<1>2. /\ k \in Task /\ k.status = s.task.status /\ k.current = s.task.current
      /\ k.verdict = w /\ k.vstatus = x
  BY <1>1 DEF Task, VerdictStates
<1>3. WithVerdict(s, w, x) = [s EXCEPT !.task = k]
  <2>1. WithVerdict(s, w, x) \in DbType /\ WithVerdict(s, w, x).task = k
        /\ WithVerdict(s, w, x).version = s.version
        /\ WithVerdict(s, w, x).agents = s.agents
        /\ WithVerdict(s, w, x).analyses = s.analyses
    BY <1>1, <1>2 DEF WithVerdict, DbType
  <2>2. [s EXCEPT !.task = k] \in DbType /\ [s EXCEPT !.task = k].task = k
        /\ [s EXCEPT !.task = k].version = s.version
        /\ [s EXCEPT !.task = k].agents = s.agents
        /\ [s EXCEPT !.task = k].analyses = s.analyses
    BY <1>2 DEF DbType
  <2> QED
    BY <2>1, <2>2 DEF DbType
<1> HIDE DEF k
<1>4. /\ [s EXCEPT !.task = k] \in DbType
      /\ [s EXCEPT !.task = k].task = k
      /\ [s EXCEPT !.task = k].version = s.version
      /\ [s EXCEPT !.task = k].agents = s.agents
      /\ [s EXCEPT !.task = k].analyses = s.analyses
  BY <1>2 DEF DbType
<1> QED
  BY <1>2, <1>3, <1>4 DEF TaskOnly

\* A verdict withdrawn asks for nothing.
LEMMA WithdrawnKept ==
  ASSUME NEW s, Core(s), NEW x \in VerdictStates
  PROVE  /\ Kept(s, WithVerdict(s, NoVerdict, x))
         /\ VerdictFits(WithVerdict(s, NoVerdict, x))
<1> DEFINE t == WithVerdict(s, NoVerdict, x)
<1>1. s \in DbType
  BY DEF Core, Typed
<1>2. TaskOnly(s, t) /\ t.task.verdict = NoVerdict
  BY <1>1, WithVerdictFields
<1> HIDE DEF t
<1>3. VerdictFits(t)
  BY <1>2 DEF VerdictFits
<1>4. Kept(s, t)
  BY <1>2, <1>3, TaskOnlyKept
<1> QED
  BY <1>3, <1>4 DEF t

\* A verdict that stands is restored.
LEMMA RestoredKept ==
  ASSUME NEW s, Core(s), s.task.verdict # NoVerdict
  PROVE  /\ Kept(s, [s EXCEPT !.task.vstatus = "success"])
         /\ TaskOnly(s, [s EXCEPT !.task.vstatus = "success"])
         /\ [s EXCEPT !.task.vstatus = "success"].task.status = s.task.status
         /\ [s EXCEPT !.task.vstatus = "success"].task.current = s.task.current
<1> DEFINE t == [s EXCEPT !.task.vstatus = "success"]
<1>1. s \in DbType /\ s.task \in Task
  BY DEF Core, Typed, DbType
<1>2. [s.task EXCEPT !.vstatus = "success"] \in Task
  BY <1>1 DEF Task
<1>3. /\ t \in DbType /\ t.task = [s.task EXCEPT !.vstatus = "success"]
      /\ t.version = s.version /\ t.agents = s.agents /\ t.analyses = s.analyses
  BY <1>1, <1>2 DEF DbType
<1>4. /\ TaskOnly(s, t) /\ t.task.current = s.task.current
      /\ t.task.verdict = s.task.verdict /\ t.task.vstatus = "success"
      /\ t.task.status = s.task.status
  BY <1>1, <1>3 DEF TaskOnly, Task
<1> HIDE DEF t
<1>5. \A i \in DOMAIN s.analyses : (IsNewest(t, i) <=> IsNewest(s, i))
                                   /\ (Graded(t, i) <=> Graded(s, i))
  BY <1>4, TaskOnlyCore
<1>6. VerdictFits(s) => VerdictFits(t)
  BY <1>4, <1>5 DEF VerdictFits, TaskOnly
<1>7. Kept(s, t)
  BY <1>4, <1>6, TaskOnlyKept
<1> QED
  BY <1>4, <1>7 DEF t

\* Only the verdict columns differ.
JudgedOnly(s, t) ==
  TaskOnly(s, t) /\ t.task.status = s.task.status /\ t.task.current = s.task.current

\* What becomes of the verdict of a run that is cancelled or abandoned.
LEMMA ClosedVerdictKept ==
  ASSUME NEW s, Core(s)
  PROVE  /\ Kept(s, CancelVerdict(s)) /\ JudgedOnly(s, CancelVerdict(s))
         /\ Kept(s, AbandonVerdict(s)) /\ JudgedOnly(s, AbandonVerdict(s))
<1>1. s \in DbType
  BY DEF Core, Typed
<1>2. CASE Restorable(s)
  <2>1. s.task.verdict # NoVerdict
    BY <1>2 DEF Restorable
  <2>2. /\ CancelVerdict(s) = [s EXCEPT !.task.vstatus = "success"]
        /\ AbandonVerdict(s) = [s EXCEPT !.task.vstatus = "success"]
    BY <1>2 DEF CancelVerdict, AbandonVerdict
  <2> QED
    BY <2>1, <2>2, RestoredKept DEF JudgedOnly
<1>3. CASE ~Restorable(s)
  <2>1. /\ CancelVerdict(s) = WithVerdict(s, NoVerdict, "failed")
        /\ AbandonVerdict(s) = WithVerdict(s, NoVerdict, "none")
    BY <1>3 DEF CancelVerdict, AbandonVerdict, FailVerdict, ResetVerdict
  <2>2. "failed" \in VerdictStates /\ "none" \in VerdictStates
    BY DEF VerdictStates
  <2>3. /\ JudgedOnly(s, WithVerdict(s, NoVerdict, "failed"))
        /\ JudgedOnly(s, WithVerdict(s, NoVerdict, "none"))
    BY <1>1, <2>2, WithVerdictFields DEF JudgedOnly
  <2> QED
    BY <2>1, <2>2, <2>3, WithdrawnKept
<1> QED
  BY <1>2, <1>3

\* A verdict with its evidence: the server's own, or the grades of the newest
\* QA trial of the current version.
LEMMA PublishFits ==
  ASSUME NEW s, Core(s), NEW by \in Nat,
         s.version[s.task.current].audit \notin {"none", "queued"},
         by # 0 =>
           /\ by \in DOMAIN s.analyses /\ s.analyses[by].kind = "qa"
           /\ s.analyses[by].version = s.task.current
           /\ IsNewest(s, by) /\ Graded(s, by)
  PROVE  /\ Core(Publish(s, by)) /\ VerdictFits(Publish(s, by))
         /\ AgentsAudited(s) => AgentsAudited(Publish(s, by))
         /\ JudgedOnly(s, Publish(s, by))
         /\ Publish(s, by).task.verdict.by = by
         /\ Evolves(s, Publish(s, by))
         /\ by = 0 => Kept(s, Publish(s, by))
<1> DEFINE v == s.version[s.task.current]
           w == [by |-> by, current |-> s.task.current,
                 audit |-> v.by, hash |-> v.hash]
           t == WithVerdict(s, w, "success")
<1>1. s \in DbType /\ s.task.current \in Versions /\ v \in Version
  BY DEF Core, Typed, DbType, Task
<1>2. w \in Verdict
  BY <1>1 DEF Verdict, Version
<1>3. "success" \in VerdictStates
  BY DEF VerdictStates
<1>4. /\ TaskOnly(s, t) /\ t.task.status = s.task.status
      /\ t.task.current = s.task.current /\ t.task.verdict = w
      /\ t.task.vstatus = "success"
  BY <1>1, <1>2, <1>3, WithVerdictFields
<1>5. Publish(s, by) = t
  BY DEF Publish
<1>6. w.by = by /\ w.current = s.task.current /\ w.audit = v.by /\ w.hash = v.hash
  OBVIOUS
<1> HIDE DEF t, w
<1>7. /\ Core(t) /\ (AgentsAudited(t) <=> AgentsAudited(s)) /\ Evolves(s, t)
      /\ \A i \in DOMAIN s.analyses : (IsNewest(t, i) <=> IsNewest(s, i))
                                      /\ (Graded(t, i) <=> Graded(s, i))
  BY <1>4, TaskOnlyCore
<1>8. VerdictFits(t)
  BY <1>4, <1>6, <1>7 DEF VerdictFits, TaskOnly
<1>9. by = 0 => Kept(s, t)
  BY <1>4, <1>6, <1>8, TaskOnlyKept
<1> QED
  BY <1>4, <1>5, <1>6, <1>7, <1>8, <1>9 DEF JudgedOnly

-----------------------------------------------------------------------------
(* Operators on the trials of kind qa and audit.                           *)

\* One trial more.
Adds(s, t, e) ==
  /\ t \in DbType
  /\ t.task = s.task /\ t.version = s.version /\ t.agents = s.agents
  /\ DOMAIN t.analyses = DOMAIN s.analyses \cup {Len(s.analyses) + 1}
  /\ \A i \in DOMAIN s.analyses : t.analyses[i] = s.analyses[i]
  /\ t.analyses[Len(s.analyses) + 1] = e
  /\ Len(s.analyses) + 1 \notin DOMAIN s.analyses
  /\ \A i \in DOMAIN s.analyses : i < Len(s.analyses) + 1

\* Creating a trial adds one that is live and not imported.
LEMMA CreateAdds ==
  ASSUME NEW s \in DbType, NEW kind \in {"qa", "audit"}, NEW v \in Versions,
         NEW trials \in SUBSET (1..MaxAgents)
  PROVE  Adds(s, Create(s, kind, v, trials),
              [kind |-> kind, version |-> v, snapshot |-> s.version[v],
               trials |-> trials, status |-> "live", import |-> "idle"])
<1> DEFINE e == [kind |-> kind, version |-> v, snapshot |-> s.version[v],
                 trials |-> trials, status |-> "live", import |-> "idle"]
           q == Append(s.analyses, e)
<1>1. s.analyses \in Seq(Analysis) /\ s.version[v] \in Version
  BY DEF DbType
<1>2. e \in Analysis
  BY <1>1 DEF Analysis, Steps
<1> HIDE DEF e
<1>3. /\ q \in Seq(Analysis)
      /\ DOMAIN q = DOMAIN s.analyses \cup {Len(s.analyses) + 1}
      /\ \A i \in DOMAIN s.analyses : q[i] = s.analyses[i]
      /\ q[Len(s.analyses) + 1] = e
      /\ Len(s.analyses) + 1 \notin DOMAIN s.analyses
      /\ \A i \in DOMAIN s.analyses : i < Len(s.analyses) + 1
  BY <1>1, <1>2, AppendSeq
<1>4. Create(s, kind, v, trials) = [s EXCEPT !.analyses = q]
  BY DEF Create, e
<1> HIDE DEF q
<1>5. /\ [s EXCEPT !.analyses = q] \in DbType
      /\ [s EXCEPT !.analyses = q].analyses = q
      /\ [s EXCEPT !.analyses = q].task = s.task
      /\ [s EXCEPT !.analyses = q].version = s.version
      /\ [s EXCEPT !.analyses = q].agents = s.agents
  BY <1>3 DEF DbType
<1> QED
  BY <1>3, <1>4, <1>5 DEF Adds, e

\* What a new trial asks of the database.
MayAdd(s, e) ==
  /\ e.status = "live" /\ e.import = "idle"
  /\ e.kind = "qa" => Live(s, "qa") = {} /\ s.task.verdict = NoVerdict
  /\ e.kind = "audit" => s.version[e.version].audit \notin {"success", "failed"}
  /\ \A a \in e.trials :
       /\ a \in DOMAIN s.agents /\ s.agents[a].version = e.version
       /\ s.agents[a].status # "active"

\* A trial that may be added leaves the rest as it is.
LEMMA AddsKept ==
  ASSUME NEW s, NEW t, NEW e, Core(s), Adds(s, t, e), MayAdd(s, e)
  PROVE  Kept(s, t)
<1> DEFINE n == Len(s.analyses) + 1
<1>1. /\ DOMAIN t.analyses = DOMAIN s.analyses \cup {n}
      /\ \A i \in DOMAIN s.analyses : t.analyses[i] = s.analyses[i] /\ i < n
      /\ t.analyses[n] = e /\ n \notin DOMAIN s.analyses
      /\ t.task = s.task /\ t.version = s.version /\ t.agents = s.agents
  BY DEF Adds
<1>2. DOMAIN s.analyses \subseteq Nat /\ n \in Nat
  BY DEF Core, Typed, DbType
<1> HIDE DEF n
<1>3. ASSUME NEW i \in DOMAIN s.analyses, IsNewest(t, i) PROVE IsNewest(s, i)
  BY <1>1, <1>3 DEF IsNewest
<1>4. ASSUME NEW i \in DOMAIN s.analyses, IsNewest(s, i),
             e.kind # s.analyses[i].kind \/ e.version # s.analyses[i].version
      PROVE  IsNewest(t, i)
  BY <1>1, <1>4 DEF IsNewest
<1>5. ASSUME NEW i \in DOMAIN s.analyses, Graded(s, i) PROVE Graded(t, i)
  BY <1>1, <1>3, <1>5 DEF Graded
<1>6. Typed(t)
  BY <1>1 DEF Core, Typed, Adds
<1>7. OneLive(t)
  <2>1. SUFFICES ASSUME NEW i \in Live(t, "qa"), NEW j \in Live(t, "qa") PROVE i = j
    BY DEF OneLive
  <2>2. CASE e.kind = "qa"
    BY <1>1, <2>1, <2>2 DEF MayAdd, Live
  <2>3. CASE e.kind # "qa"
    BY <1>1, <2>1, <2>3 DEF Core, OneLive, Live
  <2> QED
    BY <2>2, <2>3
<1>8. AnalysesFit(t)
  <2>1. SUFFICES ASSUME NEW i \in DOMAIN t.analyses PROVE AnalysisFits(t, i)
    BY DEF AnalysesFit
  <2>2. CASE i \in DOMAIN s.analyses
    BY <1>1, <2>2 DEF Core, AnalysesFit, AnalysisFits
  <2>3. CASE i = n
    BY <1>1, <2>3 DEF MayAdd, AnalysisFits
  <2> QED
    BY <1>1, <2>1, <2>2, <2>3
<1>9. AuditsFit(t)
  <2>1. SUFFICES ASSUME NEW v \in Versions PROVE AuditFits(t, v)
    BY DEF AuditsFit
  <2>2. AuditFits(s, v)
    BY DEF Core, AuditsFit
  <2>3. CASE t.version[v].audit = "success"
    <3>1. PICK i \in DOMAIN s.analyses :
            /\ i = s.version[v].by /\ IsAuditOf(s, i, v) /\ IsNewest(s, i)
            /\ s.analyses[i].status \in {"good", "cancelled"}
      BY <1>1, <2>2, <2>3 DEF AuditFits
    <3>2. e.kind # "audit" \/ e.version # v
      BY <1>1, <2>3 DEF MayAdd
    <3>3. IsNewest(t, i) /\ IsAuditOf(t, i, v)
      BY <1>1, <1>4, <3>1, <3>2 DEF IsAuditOf
    <3> QED
      BY <1>1, <2>3, <3>1, <3>3 DEF AuditFits
  <2>4. CASE t.version[v].audit = "failed"
    <3>1. e.kind # "audit" \/ e.version # v
      BY <1>1, <2>4 DEF MayAdd
    <3>2. ASSUME NEW i \in DOMAIN t.analyses, IsAuditOf(t, i, v), IsNewest(t, i)
          PROVE  t.analyses[i].status \in {"bad", "cancelled"}
      <4>1. i \in DOMAIN s.analyses
        BY <1>1, <3>1, <3>2 DEF IsAuditOf
      <4>2. IsAuditOf(s, i, v) /\ IsNewest(s, i)
        BY <1>1, <1>3, <3>2, <4>1 DEF IsAuditOf
      <4> QED
        BY <1>1, <2>2, <2>4, <4>1, <4>2 DEF AuditFits
    <3> QED
      BY <1>1, <2>2, <2>4, <3>2 DEF AuditFits
  <2> QED
    BY <2>3, <2>4 DEF AuditFits
<1>10. VerdictFits(s) => VerdictFits(t)
  <2>1. SUFFICES ASSUME VerdictFits(s), s.task.verdict # NoVerdict PROVE VerdictFits(t)
    BY <1>1 DEF VerdictFits
  <2>2. e.kind # "qa"
    BY <2>1 DEF MayAdd
  <2>3. \A i \in DOMAIN s.analyses :
          s.analyses[i].kind = "qa" /\ IsNewest(s, i) => IsNewest(t, i)
    BY <1>4, <2>2
  <2> QED
    BY <1>1, <1>5, <2>1, <2>3 DEF VerdictFits
<1>11. AgentsAudited(s) => AgentsAudited(t)
  BY <1>1 DEF AgentsAudited
<1>12. Evolves(s, t)
  BY <1>1, <1>5 DEF Evolves, MayAdd
<1> QED
  BY <1>1, <1>6, <1>7, <1>8, <1>9, <1>10, <1>11, <1>12 DEF Kept, Core, NoneNew

-----------------------------------------------------------------------------
(* Operators on the versions.                                              *)

\* Only the versions differ.
VersionOnly(s, t) ==
  /\ t \in DbType
  /\ t.task = s.task /\ t.agents = s.agents /\ t.analyses = s.analyses

\* What is said of trials looks at the versions only for their audits.
LEMMA VersionOnlyCore ==
  ASSUME NEW s, NEW t, Core(s), VersionOnly(s, t), AuditsFit(t)
  PROVE  /\ Core(t) /\ Evolves(s, t)
         /\ \A i : (IsNewest(t, i) <=> IsNewest(s, i)) /\ (Graded(t, i) <=> Graded(s, i))
<1>1. \A i : IsNewest(t, i) <=> IsNewest(s, i)
  BY DEF VersionOnly, IsNewest
<1>2. \A i : Graded(t, i) <=> Graded(s, i)
  BY <1>1 DEF VersionOnly, Graded
<1>3. Typed(t) /\ OneLive(t) /\ AnalysesFit(t)
  BY DEF Core, Typed, OneLive, Live, AnalysesFit, AnalysisFits, VersionOnly
<1>4. Evolves(s, t)
  BY <1>2 DEF Evolves, VersionOnly
<1> QED
  BY <1>1, <1>2, <1>3, <1>4 DEF Core

\* A verdict stands if its version keeps its source and its findings.
LEMMA VersionOnlyVerdict ==
  ASSUME NEW s, NEW t, Core(s), VersionOnly(s, t), AuditsFit(t), VerdictFits(s),
         s.task.verdict # NoVerdict =>
           LET v == s.task.current IN
             /\ t.version[v].hash = s.version[v].hash
             /\ t.version[v].by = s.version[v].by
             /\ t.version[v].audit \notin {"none", "queued"}
  PROVE  VerdictFits(t)
BY VersionOnlyCore DEF VerdictFits, VersionOnly

\* One version is written.
LEMMA WriteVersion ==
  ASSUME NEW s \in DbType, NEW v \in Versions, NEW q \in Version
  PROVE  LET t == [s EXCEPT !.version[v] = q] IN
         /\ VersionOnly(s, t) /\ t.version[v] = q
         /\ \A u \in Versions \ {v} : t.version[u] = s.version[u]
<1> DEFINE k == [s.version EXCEPT ![v] = q]
<1>1. k \in [Versions -> Version] /\ k[v] = q
      /\ \A u \in Versions \ {v} : k[u] = s.version[u]
  BY DEF DbType
<1>2. [s EXCEPT !.version[v] = q] = [s EXCEPT !.version = k]
  OBVIOUS
<1> HIDE DEF k
<1>3. /\ [s EXCEPT !.version = k] \in DbType
      /\ [s EXCEPT !.version = k].version = k
      /\ [s EXCEPT !.version = k].task = s.task
      /\ [s EXCEPT !.version = k].agents = s.agents
      /\ [s EXCEPT !.version = k].analyses = s.analyses
  BY <1>1 DEF DbType
<1> QED
  BY <1>1, <1>2, <1>3 DEF VersionOnly

\* An audit is asked for where there is none, or anew.
LEMMA QueuedFits ==
  ASSUME NEW s, NEW t, Core(s), VersionOnly(s, t), NEW v \in Versions,
         t.version[v].audit = "queued",
         \A u \in Versions \ {v} : t.version[u] = s.version[u]
  PROVE  /\ AuditsFit(t) /\ Core(t) /\ Evolves(s, t)
         /\ AgentsAudited(s) => AgentsAudited(t)
<1>1. AuditsFit(t)
  <2>1. SUFFICES ASSUME NEW u \in Versions PROVE AuditFits(t, u)
    BY DEF AuditsFit
  <2>2. CASE u = v
    BY <2>2 DEF AuditFits
  <2>3. CASE u # v
    <3>1. t.version[u] = s.version[u] /\ t.analyses = s.analyses /\ AuditFits(s, u)
      BY <2>3 DEF VersionOnly, Core, AuditsFit
    <3> QED
      BY <3>1 DEF AuditFits, IsAuditOf, IsNewest
  <2> QED
    BY <2>2, <2>3
<1>2. AgentsAudited(s) => AgentsAudited(t)
  <2>1. \A a \in DOMAIN s.agents : s.agents[a].version \in Versions
    BY RowTypes DEF Core, Typed, Agent
  <2> QED
    BY <2>1 DEF AgentsAudited, VersionOnly
<1> QED
  BY <1>1, <1>2, VersionOnlyCore

\* EnqueueAudit: afterwards the version has an audit, and no version lost its.
LEMMA EnqueueAuditKept ==
  ASSUME NEW s, Core(s), NEW v \in Versions
  PROVE  LET t == EnqueueAudit(s, v) IN
         /\ Kept(s, t) /\ t.task = s.task /\ t.agents = s.agents
         /\ t.version[v].audit # "none"
         /\ \A u \in Versions : s.version[u].audit # "none" => t.version[u].audit # "none"
<1>1. CASE s.version[v].audit # "none"
  BY <1>1, KeptItself DEF EnqueueAudit
<1>2. CASE s.version[v].audit = "none"
  <2> DEFINE q == [s.version[v] EXCEPT !.audit = "queued"]
             u == [s EXCEPT !.version[v] = q]
             t == Create(u, "audit", v, {})
             e == [kind |-> "audit", version |-> v, snapshot |-> u.version[v],
                   trials |-> {}, status |-> "live", import |-> "idle"]
  <2>1. s \in DbType /\ s.version[v] \in Version
    BY DEF Core, Typed, DbType
  <2>2. q \in Version /\ q.audit = "queued"
    BY <2>1 DEF Version, AuditStates
  <2>3. [s EXCEPT !.version[v].audit = "queued"] = u
    OBVIOUS
  <2>4. EnqueueAudit(s, v) = t
    BY <1>2, <2>3 DEF EnqueueAudit
  <2> HIDE DEF q
  <2>5. /\ VersionOnly(s, u) /\ u.version[v] = q
        /\ \A w \in Versions \ {v} : u.version[w] = s.version[w]
    BY <2>1, <2>2, WriteVersion
  <2> HIDE DEF u
  <2>6. AuditsFit(u) /\ Core(u) /\ Evolves(s, u) /\ (AgentsAudited(s) => AgentsAudited(u))
    BY <2>2, <2>5, QueuedFits
  <2>7. VerdictFits(s) => VerdictFits(u)
    <3>1. SUFFICES ASSUME VerdictFits(s) PROVE VerdictFits(u)
      OBVIOUS
    <3>2. s.task.verdict # NoVerdict =>
            s.task.current # v /\ s.version[s.task.current].audit \notin {"none", "queued"}
      BY <1>2, <3>1 DEF VerdictFits
    <3>3. s.task.current \in Versions
      BY <2>1 DEF DbType, Task
    <3>4. s.task.verdict # NoVerdict => u.version[s.task.current] = s.version[s.task.current]
      BY <2>5, <3>2, <3>3
    <3> QED
      BY <2>5, <2>6, <3>1, <3>2, <3>4, VersionOnlyVerdict
  <2>8. Kept(s, u)
    BY <2>5, <2>6, <2>7 DEF Kept, NoneNew, VersionOnly
  <2>9. Adds(u, t, e)
    BY <2>5, CreateAdds DEF VersionOnly
  <2>10. MayAdd(u, e)
    BY <2>2, <2>5 DEF MayAdd
  <2> HIDE DEF t, e
  <2>11. Kept(u, t)
    BY <2>6, <2>9, <2>10, AddsKept
  <2>12. Kept(s, t)
    BY <2>8, <2>11, KeptOn
  <2>13. t.task = s.task /\ t.agents = s.agents /\ t.version = u.version
    BY <2>5, <2>9 DEF Adds, VersionOnly
  <2> QED
    BY <2>2, <2>4, <2>5, <2>12, <2>13
<1> QED
  BY <1>1, <1>2

\* The pre_trial columns as an import leaves them.
LEMMA FindingsFit ==
  ASSUME NEW v \in Version, NEW i \in Nat
  PROVE  /\ Findings(v, i) \in Version /\ Findings(v, i).hash = v.hash
         /\ Findings(v, i).audit = "success" /\ Findings(v, i).by = i
         /\ NoFindings(v) \in Version /\ NoFindings(v).hash = v.hash
         /\ NoFindings(v).audit = "failed" /\ NoFindings(v).by = 0
<1>1. v.stamp + 1 \in Nat
  BY DEF Version
<1>2. \A n \in Nat : [v EXCEPT !.audit = "success", !.by = i, !.stamp = n] \in Version
  BY DEF Version, AuditStates
<1>3. \A n \in Nat : [v EXCEPT !.audit = "failed", !.by = 0, !.stamp = n] \in Version
  BY DEF Version, AuditStates
<1>4. Findings(v, i) = [v EXCEPT !.audit = "success", !.by = i, !.stamp = v.stamp + 1]
  BY DEF Findings
<1>5. NoFindings(v) = [v EXCEPT !.audit = "failed", !.by = 0, !.stamp = v.stamp + 1]
  BY DEF NoFindings
<1>6. Findings(v, i) \in Version /\ NoFindings(v) \in Version
  BY <1>1, <1>2, <1>3, <1>4, <1>5
<1>7. /\ Findings(v, i).hash = v.hash /\ Findings(v, i).audit = "success"
      /\ Findings(v, i).by = i
  BY DEF Findings, Version
<1>8. /\ NoFindings(v).hash = v.hash /\ NoFindings(v).audit = "failed"
      /\ NoFindings(v).by = 0
  BY DEF NoFindings, Version
<1> QED
  BY <1>6, <1>7, <1>8

\* StoreAudit refuses what would change the findings under a verdict: the
\* newest audit of a version with a result has delivered it already.
LEMMA StoreAuditKept ==
  ASSUME NEW s, Core(s), NEW i \in DOMAIN s.analyses,
         s.analyses[i].kind = "audit", s.analyses[i].status # "live"
  PROVE  Kept(s, StoreAudit(s, i)) /\ StoreAudit(s, i).task = s.task
<1> DEFINE a == s.analyses[i]
           v == s.version[a.version]
           refused == \/ v.audit = "cancelled"
                      \/ a.status = "cancelled"
                      \/ ~IsNewest(s, i)
                      \/ v.hash # a.snapshot.hash
                      \/ a.status = "good" /\ v.audit = "success" /\ v.by = i
           q == IF a.status = "good" THEN Findings(v, i) ELSE NoFindings(v)
           t == [s EXCEPT !.version[a.version] = q]
<1>1. s \in DbType /\ a \in Analysis /\ a.version \in Versions /\ v \in Version /\ i \in Nat
  <2>1. s \in DbType
    BY DEF Core, Typed
  <2>2. a \in Analysis /\ i \in Nat
    BY <2>1, RowTypes
  <2>3. a.version \in Versions
    BY <2>2 DEF Analysis
  <2> QED
    BY <2>1, <2>2, <2>3 DEF DbType
<1>2. CASE refused
  <2>1. StoreAudit(s, i) = s
    BY <1>2 DEF StoreAudit
  <2> QED
    BY <2>1, KeptItself
<1>3. CASE ~refused
  <2> HIDE DEF refused
  <2>1. StoreAudit(s, i) = t
    <3>1. StoreAudit(s, i) =
            IF refused THEN s
            ELSE [s EXCEPT !.version[a.version] =
                    IF a.status = "good" THEN Findings(v, i) ELSE NoFindings(v)]
      BY DEF StoreAudit, refused
    <3> QED
      BY <1>3, <3>1
  <2> USE DEF refused
  <2>2. /\ q \in Version /\ q.hash = v.hash
        /\ a.status = "good" => q.audit = "success" /\ q.by = i
        /\ a.status # "good" => q.audit = "failed" /\ q.by = 0
    BY <1>1, FindingsFit
  <2>3. a.status \in {"good", "bad"} /\ IsNewest(s, i) /\ IsAuditOf(s, i, a.version)
    BY <1>1, <1>3 DEF Analysis, IsAuditOf
  <2> HIDE DEF q
  <2>4. /\ VersionOnly(s, t) /\ t.version[a.version] = q
        /\ \A u \in Versions \ {a.version} : t.version[u] = s.version[u]
    BY <1>1, <2>2, WriteVersion
  <2> HIDE DEF t
  <2>5. \A j : (IsNewest(t, j) <=> IsNewest(s, j)) /\ t.analyses = s.analyses
    BY <2>4 DEF VersionOnly, IsNewest
  <2>6. \A j \in DOMAIN s.analyses :
          IsAuditOf(s, j, a.version) /\ IsNewest(s, j) => j = i
    <3>1. SUFFICES ASSUME NEW j \in DOMAIN s.analyses,
                          IsAuditOf(s, j, a.version), IsNewest(s, j)
                   PROVE  j = i
      OBVIOUS
    <3>2. j <= i /\ i <= j
      BY <2>3, <3>1 DEF IsNewest, IsAuditOf
    <3>3. j \in Nat
      BY <1>1, RowTypes
    <3> QED
      BY <1>1, <3>2, <3>3
  <2>7. AuditsFit(t)
    <3>1. SUFFICES ASSUME NEW u \in Versions PROVE AuditFits(t, u)
      BY DEF AuditsFit
    <3>2. CASE u # a.version
      <4>1. t.version[u] = s.version[u] /\ AuditFits(s, u)
        BY <2>4, <3>2 DEF Core, AuditsFit
      <4> QED
        BY <2>5, <4>1 DEF AuditFits, IsAuditOf
    <3>3. CASE u = a.version /\ a.status = "good"
      <4>1. t.version[u].audit = "success" /\ t.version[u].by = i
        BY <2>2, <2>4, <3>3
      <4> QED
        BY <2>3, <2>5, <3>3, <4>1 DEF AuditFits, IsAuditOf
    <3>4. CASE u = a.version /\ a.status = "bad"
      <4>1. t.version[u].audit = "failed" /\ t.version[u].by = 0
        BY <2>2, <2>4, <3>4
      <4> QED
        BY <2>5, <2>6, <3>4, <4>1 DEF AuditFits, IsAuditOf
    <3> QED
      BY <2>3, <3>2, <3>3, <3>4
  <2>8. AgentsAudited(s) => AgentsAudited(t)
    <3>1. \A b \in DOMAIN s.agents : s.agents[b].version \in Versions
      BY RowTypes, <1>1 DEF Agent
    <3> QED
      BY <2>2, <2>4, <3>1 DEF AgentsAudited, VersionOnly
  <2>9. VerdictFits(s) => VerdictFits(t)
    <3>1. SUFFICES ASSUME VerdictFits(s), s.task.verdict # NoVerdict PROVE VerdictFits(t)
      BY <2>4 DEF VerdictFits, VersionOnly
    <3>2. s.task.current \in Versions
      BY <1>1 DEF DbType, Task
    <3>3. s.version[s.task.current].audit \notin {"none", "queued"}
      BY <3>1 DEF VerdictFits
    <3>4. CASE s.task.current # a.version
      BY <2>4, <2>7, <3>1, <3>2, <3>3, <3>4, VersionOnlyVerdict
    <3>5. CASE s.task.current = a.version
      <4>1. AuditFits(s, a.version)
        BY <1>1 DEF Core, AuditsFit
      <4>2. v.audit \in {"success", "failed"}
        BY <1>1, <1>3, <3>3, <3>5 DEF Version, AuditStates
      <4>3. v.audit # "success"
        BY <1>3, <2>3, <2>6, <4>1 DEF AuditFits
      <4>4. v.by = 0 /\ a.status = "bad"
        BY <2>3, <4>1, <4>2, <4>3 DEF AuditFits
      <4>5. q.by = v.by /\ q.audit = "failed"
        BY <2>2, <4>4
      <4> QED
        BY <2>2, <2>4, <2>7, <3>1, <3>5, <4>5, VersionOnlyVerdict
    <3> QED
      BY <3>4, <3>5
  <2>10. Kept(s, t)
    BY <2>4, <2>7, <2>8, <2>9, VersionOnlyCore DEF Kept, NoneNew, VersionOnly
  <2> QED
    BY <2>1, <2>4, <2>10 DEF VersionOnly
<1> QED
  BY <1>2, <1>3

-----------------------------------------------------------------------------
(* Operators on the agent trials.                                          *)

\* Only the agent trials differ, one by one: none becomes active again, and
\* one that is done now was active, or was done and has the grades it had.
AgentsOnly(s, t) ==
  /\ t \in DbType
  /\ t.task = s.task /\ t.version = s.version /\ t.analyses = s.analyses
  /\ DOMAIN t.agents = DOMAIN s.agents /\ Len(t.agents) = Len(s.agents)
  /\ \A a \in DOMAIN s.agents :
       /\ t.agents[a].version = s.agents[a].version
       /\ s.agents[a].status # "active" => t.agents[a].status # "active"

GradesStay(s, t) ==
  \A a \in DOMAIN s.agents : t.agents[a].status = "done" =>
    \/ s.agents[a].status = "active"
    \/ s.agents[a].status = "done" /\ t.agents[a].graded = s.agents[a].graded

\* What agent trials become does not concern the core.
LEMMA AgentsOnlyCore ==
  ASSUME NEW s, NEW t, Core(s), AgentsOnly(s, t)
  PROVE  /\ Core(t) /\ (AgentsAudited(s) => AgentsAudited(t))
         /\ \A i : IsNewest(t, i) <=> IsNewest(s, i)
<1>1. \A i : IsNewest(t, i) <=> IsNewest(s, i)
  BY DEF AgentsOnly, IsNewest
<1>2. Typed(t) /\ OneLive(t)
  BY DEF Core, Typed, OneLive, Live, AgentsOnly
<1>3. AnalysesFit(t)
  <2>1. SUFFICES ASSUME NEW i \in DOMAIN s.analyses PROVE AnalysisFits(t, i)
    BY DEF AnalysesFit, AgentsOnly
  <2>2. AnalysisFits(s, i) /\ t.analyses[i] = s.analyses[i]
    BY DEF Core, AnalysesFit, AgentsOnly
  <2> QED
    BY <2>2 DEF AnalysisFits, AgentsOnly
<1>4. AuditsFit(t)
  BY <1>1 DEF Core, AuditsFit, AuditFits, IsAuditOf, AgentsOnly
<1>5. AgentsAudited(s) => AgentsAudited(t)
  BY DEF AgentsAudited, AgentsOnly
<1> QED
  BY <1>1, <1>2, <1>3, <1>4, <1>5 DEF Core

\* Nor does it concern the grades of a QA trial: its trials have finished.
LEMMA AgentsOnlyKept ==
  ASSUME NEW s, NEW t, Core(s), AgentsOnly(s, t), GradesStay(s, t)
  PROVE  Kept(s, t)
<1>1. ASSUME NEW i \in DOMAIN s.analyses, Graded(s, i) PROVE Graded(t, i)
  <2>1. SUFFICES ASSUME IsNewest(t, i), NEW a \in t.analyses[i].trials,
                        t.agents[a].status = "done"
                 PROVE  t.agents[a].graded = i
    BY DEF Graded
  <2>2. /\ a \in s.analyses[i].trials /\ IsNewest(s, i)
        /\ a \in DOMAIN s.agents /\ s.agents[a].status # "active"
    BY <2>1, AgentsOnlyCore DEF AgentsOnly, Core, AnalysesFit, AnalysisFits
  <2>3. s.agents[a].status = "done" /\ t.agents[a].graded = s.agents[a].graded
    BY <2>1, <2>2 DEF GradesStay
  <2> QED
    BY <1>1, <2>2, <2>3 DEF Graded
<1>2. Core(t) /\ (AgentsAudited(s) => AgentsAudited(t))
  BY AgentsOnlyCore
<1>3. VerdictFits(s) => VerdictFits(t)
  <2>1. \A i : IsNewest(t, i) <=> IsNewest(s, i)
    BY AgentsOnlyCore
  <2> QED
    BY <1>1, <2>1 DEF VerdictFits, AgentsOnly
<1>4. Evolves(s, t)
  BY <1>1 DEF Evolves, AgentsOnly
<1> QED
  BY <1>2, <1>3, <1>4 DEF Kept, NoneNew, AgentsOnly

-----------------------------------------------------------------------------
(* Edits of the trials of kind qa and audit.                               *)

\* Only they differ, one by one: a result that is there stays or is cancelled.
AnalysesOnly(s, t) ==
  /\ t \in DbType
  /\ t.task = s.task /\ t.version = s.version /\ t.agents = s.agents
  /\ DOMAIN t.analyses = DOMAIN s.analyses
  /\ \A i \in DOMAIN s.analyses :
       /\ t.analyses[i].kind = s.analyses[i].kind
       /\ t.analyses[i].version = s.analyses[i].version
       /\ t.analyses[i].trials = s.analyses[i].trials
       /\ s.analyses[i].status # "live" =>
            t.analyses[i].status \in {s.analyses[i].status, "cancelled"}
       /\ t.analyses[i].import # "idle" => t.analyses[i].status # "live"
       /\ t.analyses[i].import = "graded" =>
            /\ s.analyses[i].kind = "qa"
            /\ s.analyses[i].import = "graded" \/ Graded(s, i)

\* Such an edit concerns neither verdicts nor grades.
LEMMA AnalysesOnlyKept ==
  ASSUME NEW s, NEW t, Core(s), AnalysesOnly(s, t)
  PROVE  Kept(s, t) /\ \A i \in DOMAIN s.analyses : IsNewest(t, i) <=> IsNewest(s, i)
<1>1. \A i \in DOMAIN s.analyses : IsNewest(t, i) <=> IsNewest(s, i)
  BY DEF AnalysesOnly, IsNewest
<1>2. \A i \in DOMAIN s.analyses : Graded(t, i) <=> Graded(s, i)
  BY <1>1 DEF AnalysesOnly, Graded
<1>3. Typed(t)
  BY DEF Core, Typed, AnalysesOnly
<1>4. OneLive(t)
  BY DEF Core, OneLive, Live, AnalysesOnly
<1>5. AnalysesFit(t)
  BY DEF Core, AnalysesFit, AnalysisFits, AnalysesOnly
<1>6. AuditsFit(t)
  <2>1. SUFFICES ASSUME NEW v \in Versions PROVE AuditFits(t, v)
    BY DEF AuditsFit
  <2>2. AuditFits(s, v) /\ t.version = s.version /\ DOMAIN t.analyses = DOMAIN s.analyses
    BY DEF Core, AuditsFit, AnalysesOnly
  <2>3. \A i \in DOMAIN s.analyses : IsAuditOf(t, i, v) <=> IsAuditOf(s, i, v)
    BY DEF IsAuditOf, AnalysesOnly
  <2>4. \A i \in DOMAIN s.analyses : s.analyses[i].status # "live" =>
          t.analyses[i].status \in {s.analyses[i].status, "cancelled"}
    BY DEF AnalysesOnly
  <2>5. CASE s.version[v].audit = "success"
    BY <1>1, <2>2, <2>3, <2>4, <2>5 DEF AuditFits
  <2>6. CASE s.version[v].audit = "failed"
    BY <1>1, <2>2, <2>3, <2>4, <2>6 DEF AuditFits
  <2>7. CASE s.version[v].audit \notin {"success", "failed"}
    BY <2>2, <2>7 DEF AuditFits
  <2> QED
    BY <2>5, <2>6, <2>7
<1>7. AgentsAudited(s) => AgentsAudited(t)
  BY DEF AgentsAudited, AnalysesOnly
<1>8. VerdictFits(s) => VerdictFits(t)
  BY <1>1, <1>2 DEF VerdictFits, AnalysesOnly
<1>9. Evolves(s, t)
  BY <1>2 DEF Evolves, AnalysesOnly
<1> QED
  BY <1>1, <1>3, <1>4, <1>5, <1>6, <1>7, <1>8, <1>9 DEF Kept, Core, NoneNew, AnalysesOnly

\* The rows of a database are replaced, one by one.
LEMMA MapAnalyses ==
  ASSUME NEW s \in DbType, NEW f, f = [i \in DOMAIN s.analyses |-> f[i]],
         \A i \in DOMAIN s.analyses : f[i] \in Analysis
  PROVE  LET t == [s EXCEPT !.analyses = f] IN
         /\ t \in DbType /\ t.analyses = f /\ DOMAIN f = DOMAIN s.analyses
         /\ t.task = s.task /\ t.version = s.version /\ t.agents = s.agents
<1>1. s.analyses \in Seq(Analysis)
  BY DEF DbType
<1>2. f \in Seq(Analysis) /\ DOMAIN f = DOMAIN s.analyses
  BY <1>1, MapSeq
<1> QED
  BY <1>2 DEF DbType

LEMMA MapAgents ==
  ASSUME NEW s \in DbType, NEW f, f = [a \in DOMAIN s.agents |-> f[a]],
         \A a \in DOMAIN s.agents : f[a] \in Agent
  PROVE  LET t == [s EXCEPT !.agents = f] IN
         /\ t \in DbType /\ t.agents = f
         /\ DOMAIN f = DOMAIN s.agents /\ Len(f) = Len(s.agents)
         /\ t.task = s.task /\ t.version = s.version /\ t.analyses = s.analyses
<1>1. s.agents \in Seq(Agent)
  BY DEF DbType
<1>2. f \in Seq(Agent) /\ DOMAIN f = DOMAIN s.agents /\ Len(f) = Len(s.agents)
  BY <1>1, MapSeq
<1> QED
  BY <1>2 DEF DbType

\* Cancelled trials are not live, and nothing else is different.
LEMMA CancelLiveKept ==
  ASSUME NEW s, Core(s), NEW doomed
  PROVE  LET t == CancelLive(s, doomed) IN
         /\ Kept(s, t) /\ AnalysesOnly(s, t)
         /\ \A i \in DOMAIN s.analyses :
              t.analyses[i].status
                = IF i \in doomed THEN "cancelled" ELSE s.analyses[i].status
         /\ \A i \in DOMAIN s.analyses : t.analyses[i].import = s.analyses[i].import
<1> DEFINE e(i) == [s.analyses[i] EXCEPT !.status = "cancelled"]
           f == [i \in DOMAIN s.analyses |-> IF i \in doomed THEN e(i) ELSE s.analyses[i]]
           t == [s EXCEPT !.analyses = f]
<1>1. s \in DbType
  BY DEF Core, Typed
<1>2. ASSUME NEW i \in DOMAIN s.analyses
      PROVE  /\ s.analyses[i] \in Analysis
             /\ e(i) \in Analysis /\ e(i).status = "cancelled"
             /\ e(i).kind = s.analyses[i].kind /\ e(i).version = s.analyses[i].version
             /\ e(i).trials = s.analyses[i].trials /\ e(i).import = s.analyses[i].import
  <2>1. s.analyses[i] \in Analysis
    BY <1>1, RowTypes
  <2> QED
    BY <2>1 DEF Analysis
<1>3. CancelLive(s, doomed) = t
  BY DEF CancelLive
<1> HIDE DEF e
<1>4. \A i \in DOMAIN s.analyses : f[i] \in Analysis
  BY <1>2
<1>5. f = [i \in DOMAIN s.analyses |-> f[i]]
  OBVIOUS
<1>6. \A i \in DOMAIN s.analyses :
        /\ f[i].kind = s.analyses[i].kind /\ f[i].version = s.analyses[i].version
        /\ f[i].trials = s.analyses[i].trials /\ f[i].import = s.analyses[i].import
        /\ f[i].status = IF i \in doomed THEN "cancelled" ELSE s.analyses[i].status
  BY <1>2
<1> HIDE DEF f
<1>7. /\ t \in DbType /\ t.analyses = f /\ DOMAIN f = DOMAIN s.analyses
      /\ t.task = s.task /\ t.version = s.version /\ t.agents = s.agents
  BY <1>1, <1>4, <1>5, MapAnalyses
<1> HIDE DEF t
<1>8. \A i \in DOMAIN s.analyses : AnalysisFits(s, i)
  BY DEF Core, AnalysesFit
<1>9. AnalysesOnly(s, t)
  BY <1>6, <1>7, <1>8 DEF AnalysesOnly, AnalysisFits
<1>10. Kept(s, t)
  BY <1>9, AnalysesOnlyKept
<1> QED
  BY <1>3, <1>6, <1>7, <1>9, <1>10

\* A worker goes on with the import of trial i, or leaves it.
LEMMA ImportStepKept ==
  ASSUME NEW s, Core(s), NEW i \in DOMAIN s.analyses, NEW step \in Steps,
         step # "idle" => s.analyses[i].status # "live",
         step = "graded" => s.analyses[i].kind = "qa" /\ Graded(s, i)
  PROVE  LET t == [s EXCEPT !.analyses[i].import = step] IN
         Kept(s, t) /\ AnalysesOnly(s, t)
<1> DEFINE e == [s.analyses[i] EXCEPT !.import = step]
           f == [s.analyses EXCEPT ![i] = e]
           t == [s EXCEPT !.analyses = f]
<1>1. s \in DbType /\ s.analyses[i] \in Analysis
  BY RowTypes DEF Core, Typed
<1>2. /\ e \in Analysis /\ e.import = step
      /\ e.kind = s.analyses[i].kind /\ e.version = s.analyses[i].version
      /\ e.trials = s.analyses[i].trials /\ e.status = s.analyses[i].status
  BY <1>1 DEF Analysis
<1>3. [s EXCEPT !.analyses[i].import = step] = t
  OBVIOUS
<1> HIDE DEF e
<1>4. \A j \in DOMAIN s.analyses : s.analyses[j] \in Analysis
  BY <1>1, RowTypes
<1>5. \A j \in DOMAIN s.analyses : f[j] = IF j = i THEN e ELSE s.analyses[j]
  BY <1>1
<1>6. f = [j \in DOMAIN s.analyses |-> f[j]]
  BY <1>1
<1> HIDE DEF f
<1>7. /\ t \in DbType /\ t.analyses = f /\ DOMAIN f = DOMAIN s.analyses
      /\ t.task = s.task /\ t.version = s.version /\ t.agents = s.agents
  BY <1>1, <1>2, <1>4, <1>5, <1>6, MapAnalyses
<1> HIDE DEF t
<1>8. \A j \in DOMAIN s.analyses : AnalysisFits(s, j)
  BY DEF Core, AnalysesFit
<1>9. AnalysesOnly(s, t)
  <2>1. SUFFICES ASSUME NEW j \in DOMAIN s.analyses
                 PROVE  /\ f[j].kind = s.analyses[j].kind
                        /\ f[j].version = s.analyses[j].version
                        /\ f[j].trials = s.analyses[j].trials
                        /\ f[j].status = s.analyses[j].status
                        /\ f[j].import # "idle" => f[j].status # "live"
                        /\ f[j].import = "graded" =>
                             /\ s.analyses[j].kind = "qa"
                             /\ s.analyses[j].import = "graded" \/ Graded(s, j)
    BY <1>7 DEF AnalysesOnly
  <2>2. CASE j = i
    BY <1>2, <1>5, <2>2
  <2>3. CASE j # i
    BY <1>5, <1>8, <2>3 DEF AnalysisFits
  <2> QED
    BY <2>2, <2>3
<1>10. Kept(s, t)
  BY <1>9, AnalysesOnlyKept
<1> QED
  BY <1>3, <1>9, <1>10

-----------------------------------------------------------------------------
(* Edits of the agent trials.                                              *)

\* One agent trial is edited.
LEMMA EditAgentKept ==
  ASSUME NEW s, Core(s), NEW a \in DOMAIN s.agents, NEW q \in Agent,
         q.version = s.agents[a].version,
         s.agents[a].status # "active" => q.status # "active",
         q.status = "done" =>
           \/ s.agents[a].status = "active"
           \/ s.agents[a].status = "done" /\ q.graded = s.agents[a].graded
  PROVE  LET t == [s EXCEPT !.agents[a] = q] IN
         /\ Kept(s, t) /\ AgentsOnly(s, t) /\ t.agents[a] = q
<1> DEFINE f == [s.agents EXCEPT ![a] = q]
           t == [s EXCEPT !.agents = f]
<1>1. s \in DbType /\ \A b \in DOMAIN s.agents : s.agents[b] \in Agent
  BY RowTypes DEF Core, Typed
<1>2. [s EXCEPT !.agents[a] = q] = t
  OBVIOUS
<1>3. \A b \in DOMAIN s.agents : f[b] = IF b = a THEN q ELSE s.agents[b]
  OBVIOUS
<1>4. f = [b \in DOMAIN s.agents |-> f[b]] /\ \A b \in DOMAIN s.agents : f[b] \in Agent
  BY <1>1, <1>3
<1> HIDE DEF f
<1>5. /\ t \in DbType /\ t.agents = f
      /\ DOMAIN f = DOMAIN s.agents /\ Len(f) = Len(s.agents)
      /\ t.task = s.task /\ t.version = s.version /\ t.analyses = s.analyses
  BY <1>1, <1>4, MapAgents
<1> HIDE DEF t
<1>6. AgentsOnly(s, t)
  BY <1>3, <1>5 DEF AgentsOnly
<1>7. GradesStay(s, t)
  BY <1>3, <1>5 DEF GradesStay
<1>8. Kept(s, t)
  BY <1>6, <1>7, AgentsOnlyKept
<1> QED
  BY <1>2, <1>3, <1>5, <1>6, <1>8

\* A trial that has not run concerns nobody but the audit of its version.
LEMMA NewAgentKept ==
  ASSUME NEW s, Core(s), NEW v \in Versions, Len(s.agents) < MaxAgents
  PROVE  LET t == NewAgent(s, v) IN
         /\ Core(t) /\ Evolves(s, t) /\ (VerdictFits(s) => VerdictFits(t))
         /\ t.task = s.task /\ t.version = s.version /\ t.analyses = s.analyses
         /\ DOMAIN s.agents \subseteq DOMAIN t.agents
         /\ \A a \in DOMAIN t.agents : a \notin DOMAIN s.agents => t.agents[a].version = v
         /\ \A a \in DOMAIN s.agents : t.agents[a] = s.agents[a]
<1> DEFINE e == [version |-> v, status |-> "active", hook |-> FALSE, graded |-> 0]
           f == Append(s.agents, e)
           t == [s EXCEPT !.agents = f]
           n == Len(s.agents) + 1
<1>1. s \in DbType /\ s.agents \in Seq(Agent)
  BY DEF Core, Typed, DbType
<1>2. e \in Agent /\ e.version = v
  BY DEF Agent
<1>3. NewAgent(s, v) = t
  BY DEF NewAgent
<1> HIDE DEF e
<1>4. /\ f \in Seq(Agent) /\ Len(f) = n
      /\ DOMAIN f = DOMAIN s.agents \cup {n}
      /\ \A a \in DOMAIN s.agents : f[a] = s.agents[a]
      /\ f[n] = e
  BY <1>1, <1>2, AppendSeq
<1>5. Len(f) <= MaxAgents
  BY <1>1, <1>4, LenProperties, QaStageAssumption
<1> HIDE DEF f
<1>6. /\ t \in DbType /\ t.agents = f
      /\ t.task = s.task /\ t.version = s.version /\ t.analyses = s.analyses
  BY <1>1, <1>4 DEF DbType
<1> HIDE DEF t
<1>7. \A i : IsNewest(t, i) <=> IsNewest(s, i)
  BY <1>6 DEF IsNewest
<1>8. Typed(t) /\ OneLive(t)
  BY <1>5, <1>6 DEF Core, Typed, OneLive, Live
<1>9. AnalysesFit(t)
  <2>1. SUFFICES ASSUME NEW i \in DOMAIN s.analyses PROVE AnalysisFits(t, i)
    BY <1>6 DEF AnalysesFit
  <2>2. AnalysisFits(s, i) /\ t.analyses[i] = s.analyses[i]
    BY <1>6 DEF Core, AnalysesFit
  <2> QED
    BY <1>4, <1>6, <2>2 DEF AnalysisFits
<1>10. AuditsFit(t)
  BY <1>6, <1>7 DEF Core, AuditsFit, AuditFits, IsAuditOf
<1>11. \A i \in DOMAIN s.analyses : Graded(t, i) <=> Graded(s, i)
  <2>1. SUFFICES ASSUME NEW i \in DOMAIN s.analyses PROVE Graded(t, i) <=> Graded(s, i)
    OBVIOUS
  <2>2. s.analyses[i].trials \subseteq DOMAIN s.agents /\ t.analyses[i] = s.analyses[i]
    BY <1>6 DEF Core, AnalysesFit, AnalysisFits
  <2>3. \A a \in s.analyses[i].trials : t.agents[a] = s.agents[a]
    BY <1>4, <1>6, <2>2
  <2> QED
    BY <1>6, <1>7, <2>2, <2>3 DEF Graded
<1>12. VerdictFits(s) => VerdictFits(t)
  BY <1>6, <1>7, <1>11 DEF VerdictFits
<1>13. Evolves(s, t)
  BY <1>6, <1>11 DEF Evolves
<1> QED
  BY <1>2, <1>3, <1>4, <1>6, <1>8, <1>9, <1>10, <1>12, <1>13 DEF Core

\* Two newest trials of one kind and version are one.
LEMMA NewestIsOne ==
  ASSUME NEW s \in DbType, NEW i \in DOMAIN s.analyses, NEW j \in DOMAIN s.analyses,
         IsNewest(s, i), IsNewest(s, j),
         s.analyses[i].kind = s.analyses[j].kind,
         s.analyses[i].version = s.analyses[j].version
  PROVE  i = j
<1>1. i \in Nat /\ j \in Nat
  BY RowTypes
<1>2. j <= i /\ i <= j
  BY DEF IsNewest
<1> QED
  BY <1>1, <1>2

\* Grades go to the trials of one version, and the newest run of that version
\* is the one that stores them: those of other runs that count stay.
LEMMA GradeKept ==
  ASSUME NEW s, Core(s), NEW i \in DOMAIN s.analyses,
         s.analyses[i].kind = "qa", IsNewest(s, i)
  PROVE  LET t == Grade(s, i) IN
         Kept(s, t) /\ Graded(t, i) /\ t.analyses = s.analyses
<1> DEFINE e(a) == [s.agents[a] EXCEPT !.graded = i]
           T == s.analyses[i].trials
           f == [a \in DOMAIN s.agents |-> IF a \in T THEN e(a) ELSE s.agents[a]]
           t == [s EXCEPT !.agents = f]
<1>1. s \in DbType /\ i \in Nat
  BY RowTypes DEF Core, Typed
<1>2. ASSUME NEW a \in DOMAIN s.agents
      PROVE  /\ s.agents[a] \in Agent
             /\ e(a) \in Agent /\ e(a).version = s.agents[a].version
             /\ e(a).status = s.agents[a].status /\ e(a).graded = i
  <2>1. s.agents[a] \in Agent
    BY <1>1, RowTypes
  <2> QED
    BY <1>1, <2>1 DEF Agent
<1>3. Grade(s, i) = t
  BY DEF Grade
<1> HIDE DEF e
<1>4. \A a \in DOMAIN s.agents : f[a] \in Agent
  BY <1>2
<1>5. \A a \in DOMAIN s.agents :
        /\ f[a].version = s.agents[a].version /\ f[a].status = s.agents[a].status
        /\ a \in T => f[a].graded = i
        /\ a \notin T => f[a] = s.agents[a]
  BY <1>2
<1>6. f = [a \in DOMAIN s.agents |-> f[a]]
  OBVIOUS
<1> HIDE DEF f
<1>7. /\ t \in DbType /\ t.agents = f
      /\ DOMAIN f = DOMAIN s.agents /\ Len(f) = Len(s.agents)
      /\ t.task = s.task /\ t.version = s.version /\ t.analyses = s.analyses
  BY <1>1, <1>4, <1>6, MapAgents
<1> HIDE DEF t
<1>8. AgentsOnly(s, t)
  BY <1>5, <1>7 DEF AgentsOnly
<1>9. /\ Core(t) /\ (AgentsAudited(s) => AgentsAudited(t))
      /\ \A j : IsNewest(t, j) <=> IsNewest(s, j)
  BY <1>8, AgentsOnlyCore
<1>10. \A j \in DOMAIN s.analyses : AnalysisFits(s, j)
  BY DEF Core, AnalysesFit
<1>11. Graded(t, i)
  BY <1>5, <1>7, <1>10 DEF Graded, AnalysisFits
<1>12. ASSUME NEW j \in DOMAIN s.analyses, s.analyses[j].kind = "qa", Graded(s, j)
       PROVE  Graded(t, j)
  <2>1. CASE j = i
    BY <1>11, <2>1
  <2>2. CASE j # i
    <3>1. SUFFICES ASSUME IsNewest(t, j), NEW a \in s.analyses[j].trials,
                          t.agents[a].status = "done"
                   PROVE  t.agents[a].graded = j
      BY <1>7 DEF Graded
    <3>2. IsNewest(s, j)
      BY <1>9, <3>1
    <3>3. s.analyses[j].version # s.analyses[i].version
      BY <1>1, <1>12, <2>2, <3>2, NewestIsOne
    <3>4. a \in DOMAIN s.agents /\ s.agents[a].version = s.analyses[j].version
      BY <1>10 DEF AnalysisFits
    <3>5. a \notin T
      BY <1>10, <3>3, <3>4 DEF AnalysisFits
    <3>6. t.agents[a] = s.agents[a]
      BY <1>5, <1>7, <3>4, <3>5
    <3> QED
      BY <1>12, <3>1, <3>2, <3>6 DEF Graded
  <2> QED
    BY <2>1, <2>2
<1>13. VerdictFits(s) => VerdictFits(t)
  BY <1>7, <1>9, <1>12 DEF VerdictFits
<1>14. Evolves(s, t)
  BY <1>7, <1>12 DEF Evolves
<1>15. Kept(s, t)
  BY <1>7, <1>9, <1>13, <1>14 DEF Kept, NoneNew
<1> QED
  BY <1>3, <1>7, <1>11, <1>15

-----------------------------------------------------------------------------
(* Admission to the QA stage.                                              *)

\* A QA trial was created for the current version, and the verdict withdrawn.
StartedQa(s, t) ==
  /\ t.task.verdict = NoVerdict
  /\ t.task.current = s.task.current
  /\ \E n \in DOMAIN t.analyses :
       /\ n \notin DOMAIN s.analyses /\ \A i \in DOMAIN s.analyses : i < n
       /\ t.analyses[n].kind = "qa" /\ t.analyses[n].version = s.task.current

\* Eligible trials are graded by a new QA trial; without any the task closes,
\* with the server's own verdict where there is evidence for one.
LEMMA StartQaKept ==
  ASSUME NEW s, Core(s), AgentsAudited(s), Live(s, "qa") = {}, ~AuditPending(s),
         NEW t \in StartQa(s)
  PROVE  /\ Kept(s, t)
         /\ Eligible(s) # {} => StartedQa(s, t)
<1> DEFINE c == s.task.current
<1>1. s \in DbType /\ s.task \in Task /\ c \in Versions
  BY DEF Core, Typed, DbType, Task
<1>2. \A x \in {"queued", "failed"} : x \in VerdictStates
  BY DEF VerdictStates
<1>3. \A x \in {"verdict_pending", "completed"} :
        x \in {"pending", "running", "verdict_pending", "completed", "failed"}
  OBVIOUS
<1>4. ASSUME Eligible(s) = {}, t = InStatus(FailVerdict(s), "completed") PROVE Kept(s, t)
  <2>1. Kept(s, FailVerdict(s))
    BY <1>2, WithdrawnKept DEF FailVerdict
  <2>2. Kept(FailVerdict(s), t)
    BY <1>4, <2>1, InStatusKept DEF Kept
  <2> QED
    BY <2>1, <2>2, KeptOn
<1>5. ASSUME Eligible(s) = {}, Evidence(s), t = InStatus(Publish(s, 0), "completed")
      PROVE  Kept(s, t)
  <2>1. s.version[c].audit # "none"
    <3>1. CASE s.version[c].audit = "success"
      BY <3>1
    <3>2. CASE AgentsOf(s, c, "void") # {}
      BY <3>2 DEF AgentsOf, AgentsAudited
    <3> QED
      BY <1>5, <3>1, <3>2 DEF Evidence
  <2>2. s.version[c].audit \notin {"none", "queued"}
    BY <2>1 DEF AuditPending
  <2>3. Kept(s, Publish(s, 0))
    BY <2>2, PublishFits
  <2>4. Kept(Publish(s, 0), t)
    BY <1>5, <2>3, InStatusKept DEF Kept
  <2> QED
    BY <2>3, <2>4, KeptOn
<1>6. ASSUME Eligible(s) # {},
             t = Create(InStatus(QueueVerdict(s), "verdict_pending"), "qa", c, Eligible(s))
      PROVE  Kept(s, t) /\ StartedQa(s, t)
  <2> DEFINE q == QueueVerdict(s)
             p == InStatus(q, "verdict_pending")
             e == [kind |-> "qa", version |-> c, snapshot |-> p.version[c],
                   trials |-> Eligible(s), status |-> "live", import |-> "idle"]
  <2>1. Kept(s, q)
    BY <1>2, WithdrawnKept DEF QueueVerdict
  <2>2. TaskOnly(s, q) /\ q.task.verdict = NoVerdict /\ q.task.current = c
    BY <1>1, <1>2, WithVerdictFields DEF QueueVerdict
  <2> HIDE DEF q
  <2>3. Kept(q, p)
    BY <1>3, <2>1, InStatusKept DEF Kept
  <2>4. TaskOnly(q, p) /\ p.task.verdict = NoVerdict /\ p.task.current = c
    BY <1>3, <2>2, InStatusFields DEF TaskOnly
  <2> HIDE DEF p
  <2>5. p \in DbType /\ p.agents = s.agents /\ p.analyses = s.analyses
    BY <2>2, <2>4 DEF TaskOnly
  <2>6. Eligible(s) \in SUBSET (1 .. MaxAgents)
    <3>1. DOMAIN s.agents = 1 .. Len(s.agents) /\ Len(s.agents) \in Nat
      BY <1>1, RowTypes
    <3>2. Len(s.agents) <= MaxAgents /\ MaxAgents \in Nat
      BY QaStageAssumption DEF Core, Typed
    <3> QED
      BY <3>1, <3>2 DEF Eligible, AgentsOf
  <2>7. t = Create(p, "qa", c, Eligible(s))
    BY <1>6 DEF p, q
  <2>8. Adds(p, t, e)
    BY <1>1, <2>5, <2>6, <2>7, CreateAdds
  <2>9. Live(p, "qa") = {}
    BY <2>5 DEF Live
  <2>10. e.status = "live" /\ e.import = "idle" /\ e.kind = "qa" /\ e.version = c
         /\ e.trials = Eligible(s)
    OBVIOUS
  <2> HIDE DEF e
  <2>11. MayAdd(p, e)
    BY <2>4, <2>5, <2>9, <2>10 DEF MayAdd, Eligible, AgentsOf
  <2>12. Kept(p, t)
    BY <2>3, <2>8, <2>11, AddsKept DEF Kept
  <2>13. Kept(s, t)
    BY <2>1, <2>3, <2>12, KeptOn
  <2>14. StartedQa(s, t)
    BY <2>4, <2>5, <2>8, <2>10 DEF StartedQa, Adds
  <2> QED
    BY <2>13, <2>14
<1> QED
  BY <1>4, <1>5, <1>6 DEF StartQa

\* What admission leaves; a task that failed is left alone.
LEMMA AdmitKept ==
  ASSUME NEW s, Core(s), AgentsAudited(s), NEW t \in Admit(s)
  PROVE  /\ Kept(s, t)
         /\ s.task.status = "failed" => t = s
<1>1. CASE Admissible(s)
  <2>1. /\ s.task.status # "failed" /\ Live(s, "qa") = {} /\ ~AuditPending(s)
        /\ t \in StartQa(s)
    BY <1>1 DEF Admissible, Admit
  <2> QED
    BY <2>1, StartQaKept
<1>2. CASE ~Admissible(s)
  BY <1>2, KeptItself DEF Admit
<1> QED
  BY <1>1, <1>2

\* What the sweep makes of the task, and the settled trials it imports again.
LEMMA HealedKept ==
  ASSUME NEW s, Core(s), AgentsAudited(s), NEW h \in Healed(s)
  PROVE  /\ Kept(s, h[1])
         /\ s.task.status = "failed" => h[1] = s
         /\ h[2] \subseteq DOMAIN h[1].analyses
         /\ \A i \in h[2] : h[1].analyses[i].status # "live"
<1>1. CASE StuckRunning(s)
  <2>1. PICK t \in Admit(s) : h = <<t, {}>>
    BY <1>1 DEF Healed
  <2> QED
    BY <2>1, AdmitKept
<1>2. CASE ~StuckRunning(s) /\ ~StuckVerdict(s)
  <2>1. h = <<s, {}>>
    BY <1>2 DEF Healed
  <2> QED
    BY <2>1, KeptItself
<1>3. CASE ~StuckRunning(s) /\ StuckVerdict(s)
  <2>1. s.task.status # "failed" /\ Live(s, "qa") = {} /\ ~AuditPending(s)
    BY <1>3 DEF StuckVerdict
  <2>2. CASE s.task.vstatus \in {"success", "failed"}
    <3>1. h = <<Completed(s), {}>>
      BY <1>3, <2>2 DEF Healed
    <3> QED
      BY <2>1, <3>1, InStatusKept DEF Completed
  <2>3. CASE s.task.vstatus \notin {"success", "failed"} /\ QaReimports(s) # {}
    <3>1. h = <<s, QaReimports(s)>>
      BY <1>3, <2>3 DEF Healed
    <3>2. \A i \in QaReimports(s) : i \in DOMAIN s.analyses /\ s.analyses[i].status # "live"
      BY DEF QaReimports, SettledQa
    <3> QED
      BY <3>1, <3>2, KeptItself
  <2>4. CASE s.task.vstatus \notin {"success", "failed"} /\ QaReimports(s) = {}
    <3>1. PICK t \in StartQa(s) : h = <<t, {}>>
      BY <1>3, <2>4 DEF Healed
    <3> QED
      BY <2>1, <3>1, StartQaKept
  <2> QED
    BY <2>2, <2>3, <2>4
<1> QED
  BY <1>1, <1>2, <1>3

-----------------------------------------------------------------------------
(* A transaction as a whole.                                               *)

\* The verdict of a QA trial is not replaced by another's.
Replaces(s, t) ==
  /\ s.task.verdict # NoVerdict /\ t.task.verdict # NoVerdict
  /\ s.task.verdict.by # 0 /\ t.task.verdict.by # 0
  => t.task.verdict.by = s.task.verdict.by

Follows(s, t) ==
  /\ Core(t) /\ AgentsAudited(t) /\ VerdictFits(t)
  /\ Evolves(s, t) /\ Replaces(s, t)

Sound(s) == Core(s) /\ AgentsAudited(s) /\ VerdictFits(s)

\* A transaction whose operators ask nothing of their callers.
LEMMA KeptFollows ==
  ASSUME NEW s, NEW t, Sound(s), Kept(s, t) PROVE Follows(s, t)
BY DEF Sound, Kept, NoneNew, Follows, Replaces

\* One more such operator.
LEMMA FollowsOn ==
  ASSUME NEW s, NEW t, NEW u, Follows(s, t), Kept(t, u) PROVE Follows(s, u)
<1>1. Evolves(s, u)
  BY EvolvesOn DEF Follows, Kept
<1>2. Replaces(s, u)
  BY DEF Follows, Kept, NoneNew, Replaces
<1> QED
  BY <1>1, <1>2 DEF Follows, Kept

\* The grades of the imports under way are there afterwards too.
LEMMA FollowsGood ==
  ASSUME NEW s, NEW t, Good(s), Follows(s, t) PROVE Good(t)
<1>1. ASSUME NEW i \in DOMAIN t.analyses, t.analyses[i].import = "graded"
      PROVE  Graded(t, i)
  <2>1. CASE i \in DOMAIN s.analyses
    BY <1>1, <2>1 DEF Follows, Evolves, Good, ImportsGraded, Core, AnalysesFit, AnalysisFits
  <2>2. CASE i \notin DOMAIN s.analyses
    BY <1>1, <2>2 DEF Follows, Evolves
  <2> QED
    BY <2>1, <2>2
<1> QED
  BY <1>1 DEF Good, Follows, ImportsGraded

\* So are those of the sweep's.
LEMMA EvolvesSweep ==
  ASSUME NEW s, NEW t, NEW w, Evolves(s, t), SweepFits(s, w) PROVE SweepFits(t, w)
<1>1. w.todo \subseteq DOMAIN t.analyses /\ \A i \in w.todo : t.analyses[i].status # "live"
  BY DEF Evolves, SweepFits
<1>2. w.step # "idle" => w.trial \in DOMAIN t.analyses /\ t.analyses[w.trial].status # "live"
  BY DEF Evolves, SweepFits
<1>3. w.step = "graded" => t.analyses[w.trial].kind = "qa" /\ Graded(t, w.trial)
  BY DEF Evolves, SweepFits
<1> QED
  BY <1>1, <1>2, <1>3 DEF SweepFits

-----------------------------------------------------------------------------
(* Imports.                                                                *)

\* What is published rests on grades that are there and on an audit with
\* findings; the verdict it replaces is an earlier one of the same QA trial.
LEMMA PublishResultFollows ==
  ASSUME NEW s, Sound(s), NEW i \in DOMAIN s.analyses,
         s.analyses[i].kind = "qa", Graded(s, i)
  PROVE  LET t == PublishResult(s, i) IN
         Follows(s, t) /\ (s.task.status = "failed" => t = s)
<1>1. s \in DbType /\ i \in Nat \ {0} /\ Core(s)
  BY RowTypes DEF Sound, Core, Typed
<1>2. CASE ~StillCurrent(s, i)
  <2>1. PublishResult(s, i) = s
    BY <1>2 DEF PublishResult
  <2> QED
    BY <1>1, <2>1, KeptItself, KeptFollows
<1>3. CASE StillCurrent(s, i) /\ s.analyses[i].snapshot.audit = "success"
  <2> DEFINE p == Publish(s, i)
             t == Completed(p)
  <2>1. /\ s.task.status # "failed" /\ s.task.current = s.analyses[i].version
        /\ IsNewest(s, i) /\ s.version[s.task.current].audit = "success"
    BY <1>3 DEF StillCurrent, SnapshotMatches
  <2>2. /\ Core(p) /\ VerdictFits(p) /\ (AgentsAudited(s) => AgentsAudited(p))
        /\ p.task.verdict.by = i /\ Evolves(s, p)
    BY <1>1, <2>1, PublishFits
  <2>3. Replaces(s, p)
    <3>1. SUFFICES ASSUME s.task.verdict # NoVerdict, s.task.verdict.by # 0
                   PROVE  s.task.verdict.by = i
      BY <2>2 DEF Replaces
    <3> DEFINE j == s.task.verdict.by
    <3>2. /\ j \in DOMAIN s.analyses /\ s.analyses[j].kind = "qa"
          /\ s.analyses[j].version = s.task.current /\ IsNewest(s, j)
      BY <3>1 DEF Sound, VerdictFits
    <3> HIDE DEF j
    <3>3. j = i
      BY <1>1, <2>1, <3>2, NewestIsOne
    <3> QED
      BY <3>3 DEF j
  <2>4. Follows(s, p)
    BY <2>2, <2>3 DEF Follows, Sound
  <2> HIDE DEF p
  <2>5. Kept(p, t)
    BY <2>2, InStatusKept DEF Completed
  <2>6. PublishResult(s, i) = t
    BY <1>3 DEF PublishResult, p
  <2> QED
    BY <2>1, <2>4, <2>5, <2>6, FollowsOn
<1>4. CASE StillCurrent(s, i) /\ s.analyses[i].snapshot.audit # "success"
  <2> DEFINE p == WithVerdict(s, NoVerdict, "success")
             t == Completed(p)
  <2>1. Kept(s, p)
    BY <1>1, WithdrawnKept DEF VerdictStates
  <2> HIDE DEF p
  <2>2. Kept(p, t)
    BY <2>1, InStatusKept DEF Completed, Kept
  <2>3. PublishResult(s, i) = t /\ s.task.status # "failed"
    BY <1>4 DEF PublishResult, p, StillCurrent
  <2> QED
    BY <2>1, <2>2, <2>3, KeptOn, KeptFollows
<1> QED
  BY <1>2, <1>3, <1>4

\* A failed QA run withdraws the verdict.
LEMMA FailResultKept ==
  ASSUME NEW s, Core(s), NEW i
  PROVE  LET t == FailResult(s, i) IN
         Kept(s, t) /\ (s.task.status = "failed" => t = s)
<1>1. CASE ~StillCurrent(s, i)
  BY <1>1, KeptItself DEF FailResult
<1>2. CASE StillCurrent(s, i)
  <2>1. Kept(s, FailVerdict(s))
    BY WithdrawnKept DEF FailVerdict, VerdictStates
  <2>2. Kept(FailVerdict(s), Completed(FailVerdict(s)))
    BY <2>1, InStatusKept DEF Completed, Kept
  <2>3. FailResult(s, i) = Completed(FailVerdict(s)) /\ s.task.status # "failed"
    BY <1>2 DEF FailResult, StillCurrent
  <2> QED
    BY <2>1, <2>2, <2>3, KeptOn
<1> QED
  BY <1>1, <1>2

\* One step of an import, whoever runs it.
LEMMA ImportedFollows ==
  ASSUME NEW s, Sound(s), NEW i \in DOMAIN s.analyses, s.analyses[i].status # "live",
         NEW step \in {"import", "graded", "admit"},
         step = "graded" => s.analyses[i].kind = "qa" /\ Graded(s, i),
         NEW x \in Imported(s, i, step)
  PROVE  /\ Follows(s, x[1])
         /\ s.task.status = "failed" => x[1].task.status = "failed"
         /\ x[2] \in {"idle", "graded", "admit"}
         /\ x[2] = "graded" => s.analyses[i].kind = "qa" /\ Graded(x[1], i)
<1>1. Core(s) /\ AgentsAudited(s) /\ s \in DbType
  BY DEF Sound, Core, Typed
<1>2. s.analyses[i].kind \in {"qa", "audit"} /\ s.analyses[i].status \in {"good", "bad", "cancelled"}
  <2>1. s.analyses[i] \in Analysis
    BY <1>1, RowTypes
  <2> QED
    BY <2>1 DEF Analysis
<1>3. Follows(s, s)
  BY <1>1, KeptItself, KeptFollows
<1>4. ASSUME x = <<s, "idle">> \/ x = <<s, "admit">> PROVE Follows(s, x[1]) /\ x[1] = s
  BY <1>3, <1>4
<1>5. CASE step = "import" /\ s.analyses[i].status = "cancelled"
  <2>1. x = <<s, "idle">>
    BY <1>5 DEF Imported
  <2> QED
    BY <1>4, <2>1
<1>6. CASE step = "import" /\ s.analyses[i].status # "cancelled" /\ s.analyses[i].kind # "qa"
  <2>1. x = <<StoreAudit(s, i), "admit">>
    BY <1>6 DEF Imported
  <2>2. Kept(s, StoreAudit(s, i)) /\ StoreAudit(s, i).task = s.task
    BY <1>1, <1>2, <1>6, StoreAuditKept
  <2> QED
    BY <2>1, <2>2, KeptFollows
<1>7. CASE step = "import" /\ s.analyses[i].kind = "qa" /\ s.analyses[i].status = "good"
  <2>1. CASE StillCurrent(s, i)
    <3>1. x = <<Grade(s, i), "graded">>
      BY <1>7, <2>1 DEF Imported
    <3>2. IsNewest(s, i) /\ s.task.status # "failed"
      BY <2>1 DEF StillCurrent
    <3>3. Kept(s, Grade(s, i)) /\ Graded(Grade(s, i), i)
      BY <1>1, <1>7, <3>2, GradeKept
    <3> QED
      BY <1>7, <3>1, <3>2, <3>3, KeptFollows
  <2>2. CASE ~StillCurrent(s, i)
    <3>1. x = <<s, "admit">>
      BY <1>7, <2>2 DEF Imported
    <3> QED
      BY <1>4, <3>1
  <2> QED
    BY <2>1, <2>2
<1>8. CASE step = "import" /\ s.analyses[i].kind = "qa" /\ s.analyses[i].status = "bad"
  <2>1. x = <<FailResult(s, i), "admit">>
    BY <1>8 DEF Imported
  <2> QED
    BY <1>1, <2>1, FailResultKept, KeptFollows
<1>9. CASE step = "graded"
  <2>1. x = <<PublishResult(s, i), "admit">>
    BY <1>9 DEF Imported
  <2> QED
    BY <1>9, <2>1, PublishResultFollows
<1>10. CASE step = "admit"
  <2>1. PICK t \in Admit(s) : x = <<t, "idle">>
    BY <1>10 DEF Imported
  <2>2. Kept(s, t) /\ (s.task.status = "failed" => t = s)
    BY <1>1, AdmitKept
  <2> QED
    BY <2>1, <2>2, KeptFollows
<1> QED
  BY <1>2, <1>5, <1>6, <1>7, <1>8, <1>9, <1>10

-----------------------------------------------------------------------------
(* The actions.                                                            *)

\* A step of the system, and one that users did not ask for.
Stays == task.status = "failed" => task'.status = "failed"

StepFits == Inv' /\ Follows(Db, Db')

\* The state is a database that is sound.
LEMMA StateSound ==
  ASSUME Inv
  PROVE  /\ Sound(Db) /\ Core(Db) /\ AgentsAudited(Db) /\ Good(Db) /\ Db \in DbType
         /\ Db.task = task /\ Db.version = version
         /\ Db.agents = agents /\ Db.analyses = analyses
<1>1. Good(Db) /\ Sound(Db) /\ Core(Db) /\ AgentsAudited(Db) /\ Db \in DbType
  BY DEF Inv, Good, Sound, Core, Typed
<1>2. /\ Db.task = task /\ Db.version = version
      /\ Db.agents = agents /\ Db.analyses = analyses
  BY DEF Db
<1> QED
  BY <1>1, <1>2

\* A transaction that leaves the sweep alone.
LEMMA TransactionFits ==
  ASSUME Inv, Follows(Db, Db'), sweep' = sweep, requests' \in 0 .. MaxRequests
  PROVE  StepFits
<1>1. Good(Db') /\ Evolves(Db, Db')
  BY FollowsGood DEF Inv, Follows
<1>2. SweepFits(Db', sweep')
  BY <1>1, EvolvesSweep DEF Inv
<1> QED
  BY <1>1, <1>2 DEF StepFits, Inv

LEMMA StartTaskFits == ASSUME Inv, StartTask PROVE StepFits /\ Stays
<1> DEFINE t == InStatus(Db, "running")
<1>1. Kept(Db, t)
  BY StateSound, InStatusKept
<1>2. task.status = "pending" /\ sweep' = sweep /\ requests' = requests
  BY DEF StartTask
<1>3. Db' = t
  BY DEF StartTask, Db, InStatus
<1> HIDE DEF t
<1>4. Follows(Db, Db')
  BY <1>1, <1>3, StateSound, KeptFollows
<1>5. StepFits
  BY <1>2, <1>4, TransactionFits DEF Inv
<1> QED
  BY <1>2, <1>5 DEF Stays

\* A transaction that computed t and leaves the sweep alone.
LEMMA CommitFits ==
  ASSUME Inv, NEW t, Follows(Db, t), Commit(t), sweep' = sweep,
         requests' \in 0 .. MaxRequests
  PROVE  StepFits
<1>1. t \in DbType
  BY DEF Follows, Core, Typed
<1>2. Db' = t
  BY <1>1, CommitDb
<1> QED
  BY <1>2, TransactionFits

\* Agent trial a, as a worker leaves it.
LEMMA HookDone ==
  ASSUME Inv, NEW a \in DOMAIN agents
  PROVE  LET t == [Db EXCEPT !.agents[a].hook = FALSE] IN
         Kept(Db, t) /\ t = [Db EXCEPT !.agents = [agents EXCEPT ![a].hook = FALSE]]
<1> DEFINE q == [agents[a] EXCEPT !.hook = FALSE]
<1>1. agents[a] \in Agent
  BY StateSound, RowTypes
<1>2. /\ q \in Agent /\ q.version = agents[a].version
      /\ q.status = agents[a].status /\ q.graded = agents[a].graded
  BY <1>1 DEF Agent
<1>3. [Db EXCEPT !.agents[a].hook = FALSE] = [Db EXCEPT !.agents[a] = q]
  BY DEF Db
<1>4. [Db EXCEPT !.agents = [agents EXCEPT ![a].hook = FALSE]] = [Db EXCEPT !.agents[a] = q]
  BY DEF Db
<1> HIDE DEF q
<1>5. Kept(Db, [Db EXCEPT !.agents[a] = q])
  BY <1>2, StateSound, EditAgentKept
<1> QED
  BY <1>3, <1>4, <1>5

LEMMA SettleAgentFits ==
  ASSUME Inv, NEW a \in DOMAIN agents, SettleAgent(a) PROVE StepFits /\ Stays
<1> DEFINE q == [agents[a] EXCEPT !.status = "done", !.hook = TRUE]
<1>1. agents[a] \in Agent /\ agents[a].status = "active"
  BY StateSound, RowTypes DEF SettleAgent
<1>2. q \in Agent /\ q.version = agents[a].version /\ q.status = "done"
  BY <1>1 DEF Agent
<1>3. Db' = [Db EXCEPT !.agents[a] = q]
  BY DEF SettleAgent, Db
<1>4. sweep' = sweep /\ requests' = requests /\ task' = task
  BY DEF SettleAgent
<1> HIDE DEF q
<1>5. Kept(Db, Db')
  BY <1>1, <1>2, <1>3, StateSound, EditAgentKept
<1>6. StepFits
  BY <1>4, <1>5, StateSound, KeptFollows, TransactionFits DEF Inv
<1> QED
  BY <1>4, <1>6 DEF Stays

LEMMA AgentWorkerLostFits ==
  ASSUME Inv, NEW a \in DOMAIN agents, AgentWorkerLost(a) PROVE StepFits /\ Stays
<1> DEFINE f == [agents EXCEPT ![a].hook = FALSE]
<1>1. Db' = [Db EXCEPT !.agents = f]
  <2>1. /\ agents' = f /\ task' = task /\ version' = version
        /\ analyses' = analyses
    BY DEF AgentWorkerLost
  <2> HIDE DEF f
  <2> QED
    BY <2>1 DEF Db
<1>2. sweep' = sweep /\ requests' = requests /\ task' = task
  BY DEF AgentWorkerLost
<1>3. Kept(Db, Db')
  BY <1>1, HookDone
<1>4. StepFits
  BY <1>2, <1>3, StateSound, KeptFollows, TransactionFits DEF Inv
<1> QED
  BY <1>2, <1>4 DEF Stays

LEMMA AgentHookFits ==
  ASSUME Inv, NEW a \in DOMAIN agents, AgentHook(a) PROVE StepFits /\ Stays
<1> DEFINE run == [Db EXCEPT !.agents[a].hook = FALSE]
<1>1. Kept(Db, run) /\ run = [Db EXCEPT !.agents = [agents EXCEPT ![a].hook = FALSE]]
  BY HookDone
<1>2. run.task = task
  BY <1>1 DEF Db
<1>3. PICK s \in IF task.status = "failed" THEN {run} ELSE Admit(run) : Commit(s)
  BY DEF AgentHook
<1>4. sweep' = sweep /\ requests' = requests
  BY DEF AgentHook
<1> HIDE DEF run
<1>5. Core(run) /\ AgentsAudited(run)
  BY <1>1, StateSound DEF Kept
<1>6. Kept(run, s) /\ (task.status = "failed" => s = run)
  BY <1>2, <1>3, <1>5, AdmitKept, KeptItself
<1>7. Follows(Db, s)
  BY <1>1, <1>6, StateSound, KeptOn, KeptFollows
<1>8. StepFits
  BY <1>3, <1>4, <1>7, CommitFits DEF Inv
<1>9. Stays
  BY <1>2, <1>3, <1>6 DEF Stays, Commit
<1> QED
  BY <1>8, <1>9

LEMMA SkipAgentFits ==
  ASSUME Inv, NEW a \in DOMAIN agents, SkipAgent(a) PROVE StepFits /\ Stays
<1> DEFINE q == [agents[a] EXCEPT !.status = "void"]
           run == [Db EXCEPT !.agents[a] = q]
<1>1. agents[a] \in Agent /\ agents[a].status = "active"
  BY StateSound, RowTypes DEF SkipAgent
<1>2. q \in Agent /\ q.version = agents[a].version /\ q.status = "void"
  BY <1>1 DEF Agent
<1>3. [Db EXCEPT !.agents[a].status = "void"] = run
  BY DEF Db
<1>4. PICK s \in Admit(run) : Commit(s)
  BY <1>3 DEF SkipAgent
<1>5. sweep' = sweep /\ requests' = requests /\ run.task = task
  BY DEF SkipAgent, Db
<1> HIDE DEF q
<1>6. Kept(Db, run)
  BY <1>2, StateSound, EditAgentKept
<1> HIDE DEF run
<1>7. Kept(run, s) /\ (task.status = "failed" => s = run)
  BY <1>4, <1>5, <1>6, StateSound, AdmitKept DEF Kept
<1>8. Follows(Db, s)
  BY <1>6, <1>7, StateSound, KeptOn, KeptFollows
<1>9. StepFits
  BY <1>4, <1>5, <1>8, CommitFits DEF Inv
<1>10. Stays
  BY <1>4, <1>5, <1>7 DEF Stays, Commit
<1> QED
  BY <1>9, <1>10

\* A result arrives: the trial was live, so nothing rests on it yet.
LEMMA SettleAnalysisFits ==
  ASSUME Inv, NEW i \in DOMAIN analyses, SettleAnalysis(i) PROVE StepFits /\ Stays
<1>1. PICK outcome \in {"good", "bad"} :
        analyses' = [analyses EXCEPT ![i].status = outcome, ![i].import = "import"]
  BY DEF SettleAnalysis
<1> DEFINE e == [analyses[i] EXCEPT !.status = outcome, !.import = "import"]
           f == [analyses EXCEPT ![i] = e]
           t == [Db EXCEPT !.analyses = f]
<1>2. analyses[i] \in Analysis /\ analyses[i].status = "live"
  BY StateSound, RowTypes DEF SettleAnalysis
<1>3. /\ e \in Analysis /\ e.status = outcome /\ e.import = "import"
      /\ e.kind = analyses[i].kind /\ e.version = analyses[i].version
      /\ e.trials = analyses[i].trials
  BY <1>2 DEF Analysis, Steps
<1>4. analyses' = f
  BY <1>1
<1>5. /\ sweep' = sweep /\ requests' = requests /\ task' = task
      /\ version' = version /\ agents' = agents
  BY DEF SettleAnalysis
<1> HIDE DEF e
<1>6. \A j \in DOMAIN analyses : f[j] = IF j = i THEN e ELSE analyses[j]
  OBVIOUS
<1>7. f = [j \in DOMAIN analyses |-> f[j]]
  OBVIOUS
<1>8. \A j \in DOMAIN analyses : f[j] \in Analysis
  <2>1. \A j \in DOMAIN analyses : analyses[j] \in Analysis
    BY StateSound, RowTypes
  <2> QED
    BY <1>3, <1>6, <2>1
<1> HIDE DEF f
<1>9. /\ t \in DbType /\ t.analyses = f /\ DOMAIN f = DOMAIN analyses
      /\ t.task = task /\ t.version = version /\ t.agents = agents
  BY <1>7, <1>8, StateSound, MapAnalyses
<1>10. Db' = t
  BY <1>4, <1>5 DEF Db
<1> HIDE DEF t
<1>11. \A j \in DOMAIN analyses : AnalysisFits(Db, j)
  BY StateSound DEF Core, AnalysesFit
<1>12. AnalysesOnly(Db, t)
  <2>1. SUFFICES ASSUME NEW j \in DOMAIN analyses
                 PROVE  /\ f[j].kind = analyses[j].kind
                        /\ f[j].version = analyses[j].version
                        /\ f[j].trials = analyses[j].trials
                        /\ analyses[j].status # "live" => f[j].status = analyses[j].status
                        /\ f[j].import # "idle" => f[j].status # "live"
                        /\ f[j].import = "graded" =>
                             analyses[j].kind = "qa" /\ analyses[j].import = "graded"
    BY <1>9, StateSound DEF AnalysesOnly
  <2>2. CASE j = i
    BY <1>1, <1>2, <1>3, <1>6, <2>2
  <2>3. CASE j # i
    BY <1>6, <1>11, <2>3, StateSound DEF AnalysisFits
  <2> QED
    BY <2>2, <2>3
<1>13. Kept(Db, t)
  BY <1>12, StateSound, AnalysesOnlyKept
<1>14. StepFits
  BY <1>5, <1>10, <1>13, StateSound, KeptFollows, TransactionFits DEF Inv
<1> QED
  BY <1>5, <1>14 DEF Stays

\* A step of an import by the worker that ran trial i.
LEMMA WorkerImportFits ==
  ASSUME Inv, NEW i \in DOMAIN analyses, WorkerImport(i) PROVE StepFits /\ Stays
<1>1. PICK x \in Imported(Db, i, analyses[i].import) :
        Commit([x[1] EXCEPT !.analyses[i].import = x[2]])
  BY DEF WorkerImport
<1>2. analyses[i].import # "idle" /\ sweep' = sweep /\ requests' = requests
  BY DEF WorkerImport, Importing
<1>3. AnalysisFits(Db, i) /\ (analyses[i].import = "graded" => Graded(Db, i))
  BY StateSound DEF Core, AnalysesFit, Good, ImportsGraded
<1>4. analyses[i].status # "live"
      /\ (analyses[i].import = "graded" => analyses[i].kind = "qa")
  BY <1>2, <1>3, StateSound DEF AnalysisFits
<1>5. analyses[i].import \in {"import", "graded", "admit"}
  <2>1. analyses[i] \in Analysis
    BY StateSound, RowTypes
  <2> QED
    BY <1>2, <2>1 DEF Analysis, Steps
<1> DEFINE s == x[1]
           t == [s EXCEPT !.analyses[i].import = x[2]]
<1>6. /\ Follows(Db, s) /\ (task.status = "failed" => s.task.status = "failed")
      /\ x[2] \in {"idle", "graded", "admit"}
      /\ x[2] = "graded" => analyses[i].kind = "qa" /\ Graded(s, i)
  BY <1>1, <1>3, <1>4, <1>5, StateSound, ImportedFollows
<1> HIDE DEF s
<1>7. /\ Core(s) /\ i \in DOMAIN s.analyses /\ s.analyses[i].status # "live"
      /\ s.analyses[i].kind = analyses[i].kind
  BY <1>4, <1>6, StateSound DEF Follows, Evolves
<1>8. x[2] \in Steps
  BY <1>6 DEF Steps
<1>9. Kept(s, t) /\ AnalysesOnly(s, t)
  BY <1>6, <1>7, <1>8, ImportStepKept
<1>10. Commit(t)
  BY <1>1 DEF s
<1> HIDE DEF t
<1>11. StepFits
  BY <1>2, <1>6, <1>9, <1>10, FollowsOn, CommitFits DEF Inv
<1>12. Stays
  BY <1>6, <1>9, <1>10 DEF Stays, Commit, AnalysesOnly
<1> QED
  BY <1>11, <1>12

LEMMA AnalysisWorkerLostFits ==
  ASSUME Inv, NEW i \in DOMAIN analyses, AnalysisWorkerLost(i) PROVE StepFits /\ Stays
<1> DEFINE t == [Db EXCEPT !.analyses[i].import = "idle"]
<1>1. Kept(Db, t)
  BY StateSound, ImportStepKept DEF Steps
<1>2. Db' = t
  BY DEF AnalysisWorkerLost, Db
<1>3. sweep' = sweep /\ requests' = requests /\ task' = task
  BY DEF AnalysisWorkerLost
<1> HIDE DEF t
<1>4. StepFits
  BY <1>1, <1>2, <1>3, StateSound, KeptFollows, TransactionFits DEF Inv
<1> QED
  BY <1>3, <1>4 DEF Stays

\* The sweep lists settled trials, and has imported none of them yet.
LEMMA SweepTransactionFits == ASSUME Inv, SweepTransaction PROVE StepFits /\ Stays
<1>1. PICK h \in Healed(Db) :
        /\ Commit(h[1])
        /\ sweep' = [todo |-> h[2] \cup AuditReimports(h[1]), trial |-> 0, step |-> "idle"]
  BY DEF SweepTransaction
<1> DEFINE s == h[1]
           w == [todo |-> h[2] \cup AuditReimports(s), trial |-> 0, step |-> "idle"]
<1>2. /\ Kept(Db, s) /\ (task.status = "failed" => s = Db)
      /\ h[2] \subseteq DOMAIN s.analyses
      /\ \A i \in h[2] : s.analyses[i].status # "live"
  BY StateSound, HealedKept
<1>3. Commit(s) /\ sweep' = w
  BY <1>1
<1> HIDE DEF s
<1>4. \A i \in AuditReimports(s) : i \in DOMAIN s.analyses /\ s.analyses[i].status # "live"
  BY DEF AuditReimports
<1>5. SweepFits(s, w)
  BY <1>2, <1>4 DEF SweepFits
<1> HIDE DEF w
<1>6. s \in DbType
  BY <1>2 DEF Kept, Core, Typed
<1>7. Db' = s
  BY <1>3, <1>6, CommitDb
<1>8. Follows(Db, s)
  BY <1>2, StateSound, KeptFollows
<1>9. Good(s)
  BY <1>8, StateSound, FollowsGood
<1>10. requests' = requests
  BY DEF SweepTransaction
<1>11. StepFits
  BY <1>3, <1>5, <1>7, <1>8, <1>9, <1>10 DEF StepFits, Inv
<1>12. Stays
  BY <1>2, <1>3, StateSound DEF Stays, Commit
<1> QED
  BY <1>11, <1>12

\* The sweep imports one trial it listed, step by step.
LEMMA SweepImportFits == ASSUME Inv, SweepImport PROVE StepFits /\ Stays
<1> DEFINE first == IF sweep.step = "idle" THEN "import" ELSE sweep.step
<1>0. PICK i \in IF sweep.step = "idle" THEN sweep.todo ELSE {sweep.trial} :
        \E x \in Imported(Db, i, first) :
          /\ Commit(x[1])
          /\ sweep' = [todo |-> sweep.todo \ {i}, step |-> x[2],
                       trial |-> IF x[2] = "idle" THEN 0 ELSE i]
  BY DEF SweepImport
<1>1. PICK x \in Imported(Db, i, first) :
        /\ Commit(x[1])
        /\ sweep' = [todo |-> sweep.todo \ {i}, step |-> x[2],
                     trial |-> IF x[2] = "idle" THEN 0 ELSE i]
  BY <1>0
<1>2. SweepFits(Db, sweep)
  BY DEF Inv
<1>3. i \in DOMAIN analyses /\ analyses[i].status # "live"
  BY <1>0, <1>2, StateSound DEF SweepFits
<1>4. /\ first \in {"import", "graded", "admit"}
      /\ first = "graded" => analyses[i].kind = "qa" /\ Graded(Db, i)
  BY <1>0, <1>2, StateSound DEF SweepFits
<1> HIDE DEF first
<1> DEFINE s == x[1]
           w == [todo |-> sweep.todo \ {i}, step |-> x[2],
                 trial |-> IF x[2] = "idle" THEN 0 ELSE i]
<1>5. /\ Follows(Db, s) /\ (task.status = "failed" => s.task.status = "failed")
      /\ x[2] \in {"idle", "graded", "admit"}
      /\ x[2] = "graded" => analyses[i].kind = "qa" /\ Graded(s, i)
  BY <1>1, <1>3, <1>4, StateSound, ImportedFollows
<1>6. Commit(s) /\ sweep' = w
  BY <1>1
<1> HIDE DEF s
<1>7. /\ i \in DOMAIN s.analyses /\ s.analyses[i].status # "live"
      /\ s.analyses[i].kind = analyses[i].kind
  BY <1>3, <1>5, StateSound DEF Follows, Evolves
<1>8. SweepFits(s, sweep)
  BY <1>2, <1>5, EvolvesSweep DEF Follows
<1>9. SweepFits(s, w)
  BY <1>5, <1>7, <1>8 DEF SweepFits
<1> HIDE DEF w
<1>10. s \in DbType
  BY <1>5 DEF Follows, Core, Typed
<1>11. Db' = s
  BY <1>6, <1>10, CommitDb
<1>12. Good(s)
  BY <1>5, StateSound, FollowsGood
<1>13. requests' = requests
  BY DEF SweepImport
<1>14. StepFits
  BY <1>5, <1>6, <1>9, <1>11, <1>12, <1>13 DEF StepFits, Inv
<1>15. Stays
  BY <1>5, <1>6 DEF Stays, Commit
<1> QED
  BY <1>14, <1>15

-----------------------------------------------------------------------------
(* What users ask for.                                                     *)

LEMMA RequestCounts ==
  ASSUME Inv, NEW kind, Request(kind)
  PROVE  sweep' = sweep /\ requests' \in 0 .. MaxRequests /\ requests' # requests
<1>1. /\ requests \in 0 .. MaxRequests /\ requests < MaxRequests
      /\ requests' = requests + 1 /\ sweep' = sweep
  BY DEF Inv, Request
<1> QED
  BY <1>1, QaStageAssumption

LEMMA ReopenKept ==
  ASSUME NEW s, Core(s) PROVE Kept(s, Reopen(s))
BY KeptItself, InStatusKept DEF Reopen

\* A new agent trial whose version has an audit, or gets one.
LEMMA NewAgentFollows ==
  ASSUME NEW s, Sound(s), NEW v \in Versions, Len(s.agents) < MaxAgents, NEW t,
         Kept(NewAgent(s, v), t), AgentsAudited(t)
  PROVE  Follows(s, t)
<1> DEFINE n == NewAgent(s, v)
<1>1. Evolves(s, n) /\ (VerdictFits(s) => VerdictFits(n)) /\ n.task = s.task
  BY NewAgentKept DEF Sound
<1>2. Kept(n, t)
  OBVIOUS
<1> HIDE DEF n
<1>3. Evolves(s, t)
  BY <1>1, <1>2, EvolvesOn DEF Kept
<1>4. Replaces(s, t)
  BY <1>1, <1>2 DEF Kept, NoneNew, Replaces
<1> QED
  BY <1>1, <1>2, <1>3, <1>4 DEF Kept, Follows, Sound

LEMMA AppendTrialFits == ASSUME Inv, AppendTrial PROVE StepFits /\ requests' # requests
<1> DEFINE v == task.current
           n == NewAgent(Db, v)
           q == EnqueueAudit(n, v)
           r == Reopen(q)
           o == AbandonVerdict(r)
           t == CancelLive(o, Live(o, "qa"))
<1>1. /\ Request("append") /\ Len(agents) < MaxAgents /\ Commit(t)
  BY DEF AppendTrial
<1>2. v \in Versions
  BY StateSound DEF DbType, Task
<1>3. /\ Core(n) /\ n.version = version
      /\ \A a \in DOMAIN n.agents :
           n.agents[a].version = v \/ version[n.agents[a].version].audit # "none"
  <2>1. /\ Core(n) /\ n.version = version
        /\ \A a \in DOMAIN n.agents : a \notin DOMAIN agents => n.agents[a].version = v
        /\ \A a \in DOMAIN agents : n.agents[a] = agents[a]
    BY <1>1, <1>2, StateSound, NewAgentKept
  <2> QED
    BY <2>1, StateSound DEF AgentsAudited
<1> HIDE DEF n
<1>4. /\ Kept(n, q) /\ q.agents = n.agents /\ q.version[v].audit # "none"
      /\ \A u \in Versions : n.version[u].audit # "none" => q.version[u].audit # "none"
  BY <1>2, <1>3, EnqueueAuditKept
<1> HIDE DEF q
<1>5. AgentsAudited(q)
  <2>1. \A a \in DOMAIN n.agents : n.agents[a].version \in Versions
    BY <1>3, RowTypes DEF Core, Typed, Agent
  <2> QED
    BY <1>3, <1>4, <2>1 DEF AgentsAudited
<1>6. Kept(q, r)
  BY <1>4, ReopenKept DEF Kept
<1> HIDE DEF r
<1>7. Kept(r, o)
  BY <1>6, ClosedVerdictKept DEF Kept
<1> HIDE DEF o
<1>8. Kept(o, t)
  BY <1>7, CancelLiveKept DEF Kept
<1> HIDE DEF t
<1>9. Kept(q, t)
  BY <1>6, <1>7, <1>8, KeptOn
<1>10. Kept(n, t) /\ AgentsAudited(t)
  BY <1>4, <1>5, <1>9, KeptOn DEF Kept
<1>11. Follows(Db, t)
  BY <1>1, <1>2, <1>10, StateSound, NewAgentFollows DEF n
<1> QED
  BY <1>1, <1>11, CommitFits, RequestCounts

LEMMA RetryTrialFits == ASSUME Inv, RetryTrial PROVE StepFits /\ requests' # requests
<1>1. /\ Request("retry") /\ Len(agents) < MaxAgents
  BY DEF RetryTrial
<1>2. PICK a \in DOMAIN agents :
        /\ agents[a].status \in {"done", "void"}
        /\ Commit(AbandonVerdict(Reopen(
             NewAgent([Db EXCEPT !.agents[a].status = "superseded"], agents[a].version))))
  BY DEF RetryTrial
<1> DEFINE e == [agents[a] EXCEPT !.status = "superseded"]
           v == agents[a].version
           s == [Db EXCEPT !.agents[a] = e]
           n == NewAgent(s, v)
           r == Reopen(n)
           t == AbandonVerdict(r)
<1>3. agents[a] \in Agent /\ v \in Versions /\ version[v].audit # "none"
  <2>1. agents[a] \in Agent
    BY StateSound, RowTypes
  <2> QED
    BY <2>1, StateSound DEF Agent, AgentsAudited
<1>4. e \in Agent /\ e.version = agents[a].version /\ e.status = "superseded"
  BY <1>3 DEF Agent
<1>5. [Db EXCEPT !.agents[a].status = "superseded"] = s
  BY DEF Db
<1>6. Commit(t)
  BY <1>2, <1>5
<1> HIDE DEF e
<1>7. Kept(Db, s) /\ AgentsOnly(Db, s)
  BY <1>2, <1>4, StateSound, EditAgentKept
<1> HIDE DEF s
<1>8. Sound(s) /\ Core(s) /\ Len(s.agents) < MaxAgents /\ s.version = version
  BY <1>1, <1>7, StateSound DEF Kept, Sound, AgentsOnly
<1>9. Core(n) /\ AgentsAudited(n)
  <2>1. /\ Core(n) /\ n.version = version
        /\ \A b \in DOMAIN n.agents : b \notin DOMAIN s.agents => n.agents[b].version = v
        /\ \A b \in DOMAIN s.agents : n.agents[b] = s.agents[b]
    BY <1>3, <1>8, NewAgentKept
  <2> QED
    BY <1>3, <1>8, <2>1 DEF AgentsAudited, Sound
<1> HIDE DEF n
<1>10. Kept(n, r)
  BY <1>9, ReopenKept
<1> HIDE DEF r
<1>11. Kept(r, t)
  BY <1>10, ClosedVerdictKept DEF Kept
<1> HIDE DEF t
<1>12. Kept(n, t) /\ AgentsAudited(t)
  BY <1>9, <1>10, <1>11, KeptOn DEF Kept
<1>13. Follows(s, t)
  BY <1>3, <1>8, <1>12, NewAgentFollows DEF n
<1>14. Follows(Db, t)
  <2>1. Evolves(Db, t)
    BY <1>7, <1>13, EvolvesOn DEF Kept, Follows
  <2>2. Replaces(Db, t)
    BY <1>7, <1>13 DEF AgentsOnly, Follows, Replaces
  <2> QED
    BY <1>13, <2>1, <2>2 DEF Follows
<1> QED
  BY <1>1, <1>6, <1>14, CommitFits, RequestCounts

\* The verdict was withdrawn on the way, and no QA trial has given another.
LEMMA WithdrawnFollows ==
  ASSUME NEW s, NEW p, NEW t, Core(p), AgentsAudited(p), Evolves(s, p),
         Kept(ResetVerdict(p), t)
  PROVE  Follows(s, t)
<1> DEFINE r == ResetVerdict(p)
<1>1. p \in DbType
  BY DEF Core, Typed
<1>2. /\ Kept(p, r) /\ VerdictFits(r) /\ r.task.verdict = NoVerdict
  BY <1>1, WithdrawnKept, WithVerdictFields DEF ResetVerdict, VerdictStates
<1>3. Kept(r, t)
  OBVIOUS
<1> HIDE DEF r
<1>4. Evolves(s, t)
  BY <1>2, <1>3, EvolvesOn DEF Kept
<1>5. Replaces(s, t)
  BY <1>2, <1>3 DEF Kept, NoneNew, Replaces
<1> QED
  BY <1>2, <1>3, <1>4, <1>5 DEF Kept, Follows

\* A source change leaves no QA trial live and no verdict but the server's own.
LEMMA InvalidateFollows ==
  ASSUME NEW s, NEW p, Core(p), AgentsAudited(p), Evolves(s, p), NEW t \in Invalidate(p)
  PROVE  Follows(s, t)
<1> DEFINE c == CancelLive(p, Live(p, "qa"))
           r == ResetVerdict(c)
           o == InStatus(r, "running")
<1>1. Kept(p, c)
  BY CancelLiveKept
<1>2. t \in Admit(o)
  BY DEF Invalidate
<1> HIDE DEF c
<1>3. Core(c) /\ AgentsAudited(c) /\ Evolves(s, c)
  BY <1>1, EvolvesOn DEF Kept
<1>4. Kept(c, r)
  BY <1>3, WithdrawnKept DEF ResetVerdict, VerdictStates
<1>5. Kept(r, o)
  BY <1>4, InStatusKept DEF Kept
<1>6. Kept(r, t)
  <2>1. Core(o) /\ AgentsAudited(o)
    BY <1>3, <1>4, <1>5 DEF Kept
  <2>2. Kept(o, t)
    BY <1>2, <2>1, AdmitKept
  <2> QED
    BY <1>5, <2>2, KeptOn
<1> QED
  BY <1>3, <1>6, WithdrawnFollows

LEMMA SwitchVersionFits == ASSUME Inv, SwitchVersion PROVE StepFits /\ requests' # requests
<1>1. Request("switch")
  BY DEF SwitchVersion
<1>2. PICK v \in Versions \ {task.current} :
        \E t \in Invalidate([Db EXCEPT !.task.current = v]) : Commit(t)
  BY DEF SwitchVersion
<1>3. PICK t \in Invalidate([Db EXCEPT !.task.current = v]) : Commit(t)
  BY <1>2
<1> DEFINE k == [task EXCEPT !.current = v]
           p == [Db EXCEPT !.task = k]
<1>4. /\ k \in Task /\ k.verdict = task.verdict /\ k.vstatus = task.vstatus
  <2>1. task \in Task
    BY StateSound DEF DbType
  <2> QED
    BY <2>1 DEF Task
<1>5. [Db EXCEPT !.task.current = v] = p
  BY DEF Db
<1> HIDE DEF k
<1>6. TaskOnly(Db, p) /\ p.task = k
  BY <1>4, StateSound DEF TaskOnly, DbType
<1> HIDE DEF p
<1>7. task.verdict # NoVerdict => task.vstatus = "success"
  BY StateSound DEF Core, Typed
<1>8. Core(p) /\ AgentsAudited(p) /\ Evolves(Db, p)
  BY <1>4, <1>6, <1>7, StateSound, TaskOnlyCore
<1>9. Follows(Db, t)
  BY <1>3, <1>5, <1>8, InvalidateFollows
<1> QED
  BY <1>1, <1>3, <1>9, CommitFits, RequestCounts

LEMMA OverwriteVersionFits ==
  ASSUME Inv, OverwriteVersion PROVE StepFits /\ requests' # requests
<1> DEFINE c == task.current
           q == [hash |-> version[c].hash + 1, audit |-> "none", by |-> 0, stamp |-> 0]
           p == [Db EXCEPT !.version[c] = q]
           audits == {i \in Live(Db, "audit") : analyses[i].version = c}
           x == CancelLive(p, audits)
<1>1. Request("overwrite") /\ \A a \in DOMAIN agents : agents[a].version # c
  BY DEF OverwriteVersion
<1>2. c \in Versions /\ version[c] \in Version
  BY StateSound DEF DbType, Task
<1>3. q \in Version /\ q.audit = "none"
  BY <1>2 DEF Version, AuditStates
<1>4. [Db EXCEPT !.version[task.current] =
         [hash |-> @.hash + 1, audit |-> "none", by |-> 0, stamp |-> 0]] = p
  BY DEF Db
<1>5. PICK t \in Invalidate(x) : Commit(t)
  BY <1>4 DEF OverwriteVersion
<1> HIDE DEF q, audits
<1>6. /\ VersionOnly(Db, p) /\ p.version[c] = q
      /\ \A u \in Versions \ {c} : p.version[u] = version[u]
  BY <1>2, <1>3, StateSound, WriteVersion
<1> HIDE DEF p
<1>7. AuditsFit(p)
  <2>1. SUFFICES ASSUME NEW u \in Versions PROVE AuditFits(p, u)
    BY DEF AuditsFit
  <2>2. CASE u = c
    BY <1>3, <1>6, <2>2 DEF AuditFits
  <2>3. CASE u # c
    <3>1. p.version[u] = version[u] /\ p.analyses = analyses /\ AuditFits(Db, u)
      BY <1>6, <2>3, StateSound DEF VersionOnly, Core, AuditsFit
    <3> QED
      BY <3>1, StateSound DEF AuditFits, IsAuditOf, IsNewest
  <2> QED
    BY <2>2, <2>3
<1>8. Core(p) /\ Evolves(Db, p)
  BY <1>6, <1>7, StateSound, VersionOnlyCore
<1>9. AgentsAudited(p)
  <2>1. \A a \in DOMAIN agents : agents[a].version \in Versions
    BY StateSound, RowTypes DEF Agent
  <2> QED
    BY <1>1, <1>6, <2>1, StateSound DEF AgentsAudited, VersionOnly
<1>10. Kept(p, x)
  BY <1>8, CancelLiveKept
<1> HIDE DEF x
<1>11. Core(x) /\ AgentsAudited(x) /\ Evolves(Db, x)
  BY <1>8, <1>9, <1>10, EvolvesOn DEF Kept
<1>12. Follows(Db, t)
  BY <1>5, <1>11, InvalidateFollows
<1> QED
  BY <1>1, <1>5, <1>12, CommitFits, RequestCounts

\* Grades are cleared only where the verdict that rests on them goes too: for
\* the trials of the current version, when a new QA trial replaces its runs.
LEMMA RerunQaFits == ASSUME Inv, RerunQa PROVE StepFits /\ requests' # requests
<1> DEFINE c == task.current
           e(a) == [agents[a] EXCEPT !.graded = 0]
           f == [a \in DOMAIN agents |->
                   IF agents[a].version = c /\ agents[a].status # "superseded"
                   THEN e(a) ELSE agents[a]]
           s == [Db EXCEPT !.agents = f]
<1>1. /\ Request("rerun_qa") /\ Active(Db) = {}
      /\ Live(Db, "qa") = {} /\ ~AuditPending(Db)
  BY DEF RerunQa
<1>2. [Db EXCEPT !.agents = [a \in DOMAIN @ |->
           IF @[a].version = task.current /\ @[a].status # "superseded"
           THEN [@[a] EXCEPT !.graded = 0] ELSE @[a]]] = s
  BY DEF Db
<1>3. PICK t \in StartQa(s) : Commit(t)
  BY <1>2 DEF RerunQa
<1>4. ASSUME NEW a \in DOMAIN agents
      PROVE  /\ agents[a] \in Agent /\ e(a) \in Agent
             /\ e(a).version = agents[a].version /\ e(a).status = agents[a].status
  <2>1. agents[a] \in Agent
    BY StateSound, RowTypes
  <2> QED
    BY <2>1 DEF Agent
<1> HIDE DEF e
<1>5. \A a \in DOMAIN agents :
        /\ f[a] \in Agent
        /\ f[a].version = agents[a].version /\ f[a].status = agents[a].status
        /\ agents[a].version # c => f[a] = agents[a]
  BY <1>4
<1>6. f = [a \in DOMAIN agents |-> f[a]]
  OBVIOUS
<1> HIDE DEF f
<1>7. /\ s \in DbType /\ s.agents = f
      /\ DOMAIN f = DOMAIN agents /\ Len(f) = Len(agents)
      /\ s.task = task /\ s.version = version /\ s.analyses = analyses
  BY <1>5, <1>6, StateSound, MapAgents
<1> HIDE DEF s
<1>8. AgentsOnly(Db, s)
  BY <1>5, <1>7, StateSound DEF AgentsOnly
<1>9. Core(s) /\ AgentsAudited(s) /\ \A i : IsNewest(s, i) <=> IsNewest(Db, i)
  BY <1>8, StateSound, AgentsOnlyCore
<1>10. /\ Live(s, "qa") = {} /\ ~AuditPending(s)
       /\ AgentsOf(s, c, "active") = {}
  BY <1>1, <1>5, <1>7, StateSound DEF Live, AuditPending, Active, AgentsOf
<1>11. Kept(s, t) /\ (Eligible(s) # {} => StartedQa(s, t))
  BY <1>3, <1>9, <1>10, StartQaKept
<1>12. ASSUME Eligible(s) = {} PROVE Follows(Db, t)
  <2>1. \A a \in DOMAIN agents : f[a].status = "done" => f[a].version # c
    BY <1>5, <1>7, <1>12 DEF Eligible, AgentsOf
  <2>2. GradesStay(Db, s)
    BY <1>5, <1>7, <2>1, StateSound DEF GradesStay
  <2>3. Kept(Db, s)
    BY <1>8, <2>2, StateSound, AgentsOnlyKept
  <2> QED
    BY <1>11, <2>3, StateSound, KeptOn, KeptFollows
<1>13. ASSUME Eligible(s) # {} PROVE Follows(Db, t)
  <2>1. PICK n \in DOMAIN t.analyses :
          /\ n \notin DOMAIN analyses /\ \A i \in DOMAIN analyses : i < n
          /\ t.analyses[n].kind = "qa" /\ t.analyses[n].version = c
    BY <1>7, <1>11, <1>13 DEF StartedQa
  <2>2. Evolves(s, t) /\ Core(t) /\ AgentsAudited(t) /\ t.task.verdict = NoVerdict
    BY <1>9, <1>11, <1>13 DEF Kept, StartedQa
  <2>3. n \in Nat /\ DOMAIN analyses \subseteq Nat
    <3>1. t \in DbType
      BY <2>2 DEF Core, Typed
    <3> QED
      BY <2>1, <3>1, StateSound, RowTypes
  <2>4. ASSUME NEW i \in DOMAIN analyses, analyses[i].kind = "qa", Graded(Db, i)
        PROVE  Graded(t, i)
    <3>1. t.analyses[i].kind = "qa" /\ t.analyses[i].version = analyses[i].version
      BY <1>7, <2>2, <2>4 DEF Evolves
    <3>2. CASE analyses[i].version = c
      <4>1. i < n /\ i \in Nat
        BY <2>1, <2>3
      <4>2. ~IsNewest(t, i)
        BY <2>1, <2>3, <3>1, <3>2, <4>1 DEF IsNewest
      <4> QED
        BY <4>2 DEF Graded
    <3>3. CASE analyses[i].version # c
      <4>1. \A a \in analyses[i].trials : a \in DOMAIN agents /\ f[a] = agents[a]
        <5>1. AnalysisFits(Db, i)
          BY StateSound DEF Core, AnalysesFit
        <5> QED
          BY <1>5, <3>3, <5>1, StateSound DEF AnalysisFits
      <4>2. Graded(s, i)
        BY <1>7, <1>9, <2>4, <4>1, StateSound DEF Graded
      <4> QED
        BY <1>7, <2>2, <2>4, <4>2 DEF Evolves
    <3> QED
      BY <3>2, <3>3
  <2>5. Evolves(Db, t)
    BY <1>7, <2>2, <2>4, StateSound DEF Evolves
  <2>6. VerdictFits(t) /\ Replaces(Db, t)
    BY <2>2 DEF VerdictFits, Replaces
  <2> QED
    BY <2>2, <2>5, <2>6 DEF Follows
<1>14. Follows(Db, t)
  BY <1>12, <1>13
<1> QED
  BY <1>1, <1>3, <1>14, CommitFits, RequestCounts

\* A new audit withdraws what rests on the one it replaces.
LEMMA RerunAuditFits == ASSUME Inv, RerunAudit PROVE StepFits /\ requests' # requests
<1> DEFINE c == task.current
           q == [version[c] EXCEPT !.audit = "queued", !.by = 0]
           p == [Db EXCEPT !.version[c] = q]
           r == ResetVerdict(p)
           o == InStatus(r, "running")
           t == Create(o, "audit", c, {})
           e == [kind |-> "audit", version |-> c, snapshot |-> o.version[c],
                 trials |-> {}, status |-> "live", import |-> "idle"]
<1>1. c \in Versions /\ version[c] \in Version
  BY StateSound DEF DbType, Task
<1>2. q \in Version /\ q.audit = "queued"
  BY <1>1 DEF Version, AuditStates
<1>3. [Db EXCEPT !.version[task.current].audit = "queued",
                 !.version[task.current].by = 0] = p
  <2>1. version \in [Versions -> Version]
    BY StateSound DEF DbType
  <2>2. [[version EXCEPT ![c].audit = "queued"] EXCEPT ![c].by = 0]
          = [version EXCEPT ![c] = q]
    BY <1>1, <2>1
  <2> QED
    BY <2>2 DEF Db
<1>4. Request("rerun_audit") /\ Commit(t)
  BY <1>3 DEF RerunAudit
<1> HIDE DEF q
<1>5. /\ VersionOnly(Db, p) /\ p.version[c] = q
      /\ \A u \in Versions \ {c} : p.version[u] = version[u]
  BY <1>1, <1>2, StateSound, WriteVersion
<1> HIDE DEF p
<1>6. Core(p) /\ Evolves(Db, p) /\ AgentsAudited(p) /\ p \in DbType
  BY <1>1, <1>2, <1>5, StateSound, QueuedFits DEF VersionOnly
<1>7. Kept(p, r) /\ TaskOnly(p, r)
  BY <1>6, WithdrawnKept, WithVerdictFields DEF ResetVerdict, VerdictStates
<1> HIDE DEF r
<1>8. Kept(r, o) /\ TaskOnly(r, o)
  BY <1>7, InStatusKept, InStatusFields DEF Kept, TaskOnly
<1> HIDE DEF o
<1>9. o \in DbType /\ o.version = p.version
  BY <1>7, <1>8 DEF TaskOnly
<1>10. Adds(o, t, e)
  BY <1>1, <1>9, CreateAdds
<1> HIDE DEF t
<1>11. MayAdd(o, e)
  BY <1>2, <1>5, <1>9 DEF MayAdd
<1> HIDE DEF e
<1>12. Kept(r, t)
  BY <1>8, <1>10, <1>11, AddsKept, KeptOn DEF Kept
<1>13. Follows(Db, t)
  BY <1>6, <1>12, WithdrawnFollows DEF r
<1> QED
  BY <1>4, <1>13, CommitFits, RequestCounts

\* Audits that were waited for are cancelled: no verdict rests on those.
LEMMA AuditsCancelledKept ==
  ASSUME NEW s, Core(s), NEW f \in [Versions -> Version],
         \A v \in Versions :
           \/ f[v] = s.version[v]
           \/ s.version[v].audit = "queued" /\ f[v].audit = "cancelled"
  PROVE  Kept(s, [s EXCEPT !.version = f])
<1> DEFINE t == [s EXCEPT !.version = f]
<1>1. s \in DbType /\ s.task.current \in Versions
      /\ \A a \in DOMAIN s.agents : s.agents[a].version \in Versions
  BY RowTypes DEF Core, Typed, DbType, Task, Agent
<1>2. VersionOnly(s, t) /\ t.version = f
  BY <1>1 DEF VersionOnly, DbType
<1> HIDE DEF t
<1>3. AuditsFit(t)
  <2>1. SUFFICES ASSUME NEW v \in Versions PROVE AuditFits(t, v)
    BY DEF AuditsFit
  <2>2. CASE f[v] = s.version[v]
    <3>1. t.version[v] = s.version[v] /\ t.analyses = s.analyses /\ AuditFits(s, v)
      BY <1>2, <2>2 DEF VersionOnly, Core, AuditsFit
    <3> QED
      BY <3>1 DEF AuditFits, IsAuditOf, IsNewest
  <2>3. CASE f[v].audit = "cancelled"
    BY <1>2, <2>3 DEF AuditFits
  <2> QED
    BY <2>2, <2>3
<1>4. AgentsAudited(s) => AgentsAudited(t)
  BY <1>1, <1>2 DEF AgentsAudited, VersionOnly
<1>5. VerdictFits(s) => VerdictFits(t)
  <2>1. SUFFICES ASSUME VerdictFits(s), s.task.verdict # NoVerdict PROVE VerdictFits(t)
    BY <1>2 DEF VerdictFits, VersionOnly
  <2>2. s.version[s.task.current].audit \notin {"none", "queued"}
    BY <2>1 DEF VerdictFits
  <2>3. t.version[s.task.current] = s.version[s.task.current]
    BY <1>1, <1>2, <2>2
  <2> QED
    BY <1>2, <1>3, <2>1, <2>2, <2>3, VersionOnlyVerdict
<1>6. Kept(s, t)
  BY <1>2, <1>3, <1>4, <1>5, VersionOnlyCore DEF Kept, NoneNew, VersionOnly
<1> QED
  BY <1>6 DEF t

LEMMA CancelQaFits == ASSUME Inv, CancelQa PROVE StepFits /\ requests' # requests
<1> DEFINE live == Live(Db, "qa") \cup Live(Db, "audit")
           waiting == task.status \in {"pending", "running"} /\ Active(Db) = {}
           concerned == \/ live # {}
                        \/ task.vstatus = "queued"
                        \/ task.status = "verdict_pending"
                        \/ AuditPending(Db)
           c == CancelLive(Db, live)
           judged == IF ~concerned THEN c
                     ELSE IF waiting \/ task.status = "verdict_pending"
                          THEN InStatus(CancelVerdict(c), "failed")
                          ELSE CancelVerdict(c)
           cleared == {task.current}
                      \cup {analyses[i].version : i \in Live(Db, "audit")}
           f == [v \in Versions |->
                   IF v \in cleared /\ version[v].audit = "queued"
                   THEN CancelledAudit(version[v]) ELSE version[v]]
           t == [judged EXCEPT !.version = f]
<1>1. Request("cancel_qa")
  BY DEF CancelQa
<1>2. Commit([judged EXCEPT !.version = [v \in Versions |->
                IF v \in cleared /\ @[v].audit = "queued"
                THEN CancelledAudit(@[v]) ELSE @[v]]])
  BY DEF CancelQa
<1> HIDE DEF live, concerned, waiting, cleared
<1>3. Kept(Db, c) /\ c.version = version
  BY StateSound, CancelLiveKept DEF AnalysesOnly
<1> HIDE DEF c
<1>4. Kept(c, CancelVerdict(c)) /\ TaskOnly(c, CancelVerdict(c))
  BY <1>3, ClosedVerdictKept DEF Kept, JudgedOnly
<1>5. Kept(c, InStatus(CancelVerdict(c), "failed"))
      /\ InStatus(CancelVerdict(c), "failed").version = CancelVerdict(c).version
  <2>1. /\ Kept(CancelVerdict(c), InStatus(CancelVerdict(c), "failed"))
        /\ TaskOnly(CancelVerdict(c), InStatus(CancelVerdict(c), "failed"))
    BY <1>4, InStatusKept, InStatusFields DEF Kept, TaskOnly
  <2> QED
    BY <1>4, <2>1, KeptOn DEF TaskOnly
<1>6. Kept(c, judged) /\ judged.version = version
  <2>1. CASE ~concerned
    BY <1>3, <2>1, KeptItself DEF Kept
  <2>2. CASE concerned /\ (waiting \/ task.status = "verdict_pending")
    BY <1>3, <1>4, <1>5, <2>2 DEF TaskOnly
  <2>3. CASE concerned /\ ~(waiting \/ task.status = "verdict_pending")
    BY <1>3, <1>4, <2>3 DEF TaskOnly
  <2> QED
    BY <2>1, <2>2, <2>3
<1> HIDE DEF judged
<1>7. Commit(t)
  BY <1>2, <1>6
<1>8. ASSUME NEW v \in Versions
      PROVE  /\ version[v] \in Version /\ CancelledAudit(version[v]) \in Version
             /\ CancelledAudit(version[v]).audit = "cancelled"
  <2>1. version[v] \in Version
    BY StateSound DEF DbType
  <2>2. \A n \in Nat : [version[v] EXCEPT !.audit = "cancelled", !.stamp = n] \in Version
    BY <2>1 DEF Version, AuditStates
  <2>3. version[v].stamp + 1 \in Nat
    BY <2>1 DEF Version
  <2>4. CancelledAudit(version[v])
          = [version[v] EXCEPT !.audit = "cancelled", !.stamp = version[v].stamp + 1]
    BY DEF CancelledAudit
  <2>5. CancelledAudit(version[v]).audit = "cancelled"
    BY <2>1 DEF Version, CancelledAudit
  <2> QED
    BY <2>1, <2>2, <2>3, <2>4, <2>5
<1>9. /\ f \in [Versions -> Version]
      /\ \A v \in Versions : \/ f[v] = judged.version[v]
                             \/ judged.version[v].audit = "queued" /\ f[v].audit = "cancelled"
  BY <1>6, <1>8
<1> HIDE DEF f
<1>10. Kept(judged, t)
  BY <1>6, <1>9, AuditsCancelledKept DEF Kept
<1>11. Kept(Db, t)
  BY <1>3, <1>6, <1>10, KeptOn
<1> HIDE DEF t
<1>12. Follows(Db, t)
  BY <1>11, StateSound, KeptFollows
<1> QED
  BY <1>1, <1>7, <1>12, CommitFits, RequestCounts

LEMMA CancelRunsFits == ASSUME Inv, CancelRuns PROVE StepFits /\ requests' # requests
<1> DEFINE doomed == {i \in DOMAIN analyses :
                        analyses[i].status = "live" \/ analyses[i].import # "idle"}
           c == CancelLive(Db, doomed)
           f == [a \in DOMAIN agents |->
                   IF agents[a].status = "active" \/ agents[a].hook
                   THEN Stopped(agents[a]) ELSE agents[a]]
           stopped == [c EXCEPT !.agents = f]
           judged == IF task.vstatus = "queued" THEN CancelVerdict(stopped) ELSE stopped
           t == IF ~(task.status \in {"pending", "running", "verdict_pending"})
                THEN judged
                ELSE InStatus(judged, IF judged.task.vstatus = "success"
                                      THEN "completed" ELSE "failed")
<1>1. Request("cancel_runs")
  BY DEF CancelRuns
<1>2. Kept(Db, c) /\ c.agents = agents
  BY StateSound, CancelLiveKept DEF AnalysesOnly
<1>3. [c EXCEPT !.agents = [a \in DOMAIN @ |->
         IF @[a].status = "active" \/ @[a].hook
         THEN Stopped(@[a]) ELSE @[a]]] = stopped
  BY <1>2
<1>4. Commit(t)
  BY <1>3 DEF CancelRuns
<1> HIDE DEF c
<1>5. ASSUME NEW a \in DOMAIN agents
      PROVE  /\ agents[a] \in Agent /\ Stopped(agents[a]) \in Agent
             /\ Stopped(agents[a]).version = agents[a].version
             /\ Stopped(agents[a]).status \in {"superseded", "void"}
  <2>1. agents[a] \in Agent
    BY StateSound, RowTypes
  <2> QED
    BY <2>1 DEF Agent, Stopped
<1>6. \A a \in DOMAIN agents :
        /\ f[a] \in Agent /\ f[a].version = agents[a].version
        /\ f[a] = agents[a] \/ f[a].status \in {"superseded", "void"}
  BY <1>5
<1>7. f = [a \in DOMAIN agents |-> f[a]]
  OBVIOUS
<1> HIDE DEF f
<1>8. c \in DbType
  BY <1>2 DEF Kept, Core, Typed
<1>9. /\ stopped \in DbType /\ stopped.agents = f
      /\ DOMAIN f = DOMAIN c.agents /\ Len(f) = Len(c.agents)
      /\ stopped.task = c.task /\ stopped.version = c.version
      /\ stopped.analyses = c.analyses
  BY <1>2, <1>6, <1>7, <1>8, MapAgents
<1> HIDE DEF stopped
<1>10. AgentsOnly(c, stopped) /\ GradesStay(c, stopped)
  BY <1>2, <1>6, <1>9 DEF AgentsOnly, GradesStay
<1>11. Kept(c, stopped)
  BY <1>2, <1>10, AgentsOnlyKept DEF Kept
<1>12. Kept(stopped, judged)
  BY <1>11, KeptItself, ClosedVerdictKept DEF Kept
<1> HIDE DEF judged
<1>13. Kept(judged, t)
  BY <1>12, KeptItself, InStatusKept DEF Kept
<1> HIDE DEF t
<1>14. Kept(Db, t)
  BY <1>2, <1>11, <1>12, <1>13, KeptOn
<1>15. Follows(Db, t)
  BY <1>14, StateSound, KeptFollows
<1> QED
  BY <1>1, <1>4, <1>15, CommitFits, RequestCounts

-----------------------------------------------------------------------------
(* The invariant holds.                                                    *)

\* A task as an upload leaves it has no trials.
LEMMA UploadedGood == Good(Uploaded) /\ Len(Uploaded.agents) = 0
<1> DEFINE u == Uploaded
<1>1. /\ u.task = [status |-> "pending", current |-> First,
                   verdict |-> NoVerdict, vstatus |-> "none"]
      /\ u.version = [v \in Versions |->
                        [hash |-> 0, audit |-> "none", by |-> 0, stamp |-> 0]]
      /\ u.agents = << >> /\ u.analyses = << >>
  BY DEF Uploaded
<1>2. u.task \in Task /\ u.task.verdict = NoVerdict
  BY <1>1, QaStageAssumption DEF Task
<1>3. /\ u.version \in [Versions -> Version]
      /\ \A v \in Versions : u.version[v].audit = "none"
  BY <1>1 DEF Version, AuditStates
<1>4. /\ u.agents \in Seq(Agent) /\ Len(u.agents) = 0 /\ DOMAIN u.agents = {}
      /\ u.analyses \in Seq(Analysis) /\ DOMAIN u.analyses = {}
  BY <1>1
<1>5. u \in DbType
  <2>1. u = [task |-> u.task, version |-> u.version, agents |-> u.agents,
             analyses |-> u.analyses]
    BY DEF Uploaded
  <2> QED
    BY <1>2, <1>3, <1>4, <2>1 DEF DbType
<1> HIDE DEF u
<1>6. Typed(u)
  BY <1>2, <1>4, <1>5, QaStageAssumption DEF Typed
<1>7. OneLive(u) /\ AnalysesFit(u) /\ AuditsFit(u)
  BY <1>3, <1>4 DEF OneLive, Live, AnalysesFit, AuditsFit, AuditFits
<1>8. AgentsAudited(u) /\ VerdictFits(u) /\ ImportsGraded(u)
  BY <1>2, <1>4 DEF AgentsAudited, VerdictFits, ImportsGraded
<1> QED
  BY <1>4, <1>6, <1>7, <1>8 DEF Good, Core, u

\* Create_task adds a trial and asks for the audit of its version.
LEMMA CreatedGood == Good(Created)
<1> DEFINE u == Uploaded
           n == NewAgent(u, First)
           q == EnqueueAudit(n, First)
<1>1. Good(u) /\ Core(u) /\ First \in Versions
  BY UploadedGood, QaStageAssumption DEF Good
<1>2. /\ DOMAIN u.agents = {} /\ u.task.verdict = NoVerdict
      /\ Len(u.agents) < MaxAgents
  BY QaStageAssumption DEF Uploaded
<1>3. /\ Core(n) /\ Evolves(u, n) /\ (VerdictFits(u) => VerdictFits(n))
      /\ \A a \in DOMAIN n.agents : n.agents[a].version = First
  BY <1>1, <1>2, NewAgentKept DEF u
<1>4. Created = q
  BY DEF Created
<1> HIDE DEF n, u
<1>5. Kept(n, q) /\ q.agents = n.agents /\ q.version[First].audit # "none"
  BY <1>1, <1>3, EnqueueAuditKept
<1> HIDE DEF q
<1>6. AgentsAudited(q)
  BY <1>3, <1>5 DEF AgentsAudited
<1>7. Follows(u, q)
  <2>1. Evolves(u, q)
    BY <1>3, <1>5, EvolvesOn DEF Kept
  <2>2. Replaces(u, q)
    BY <1>2 DEF Replaces
  <2> QED
    BY <1>1, <1>3, <1>5, <1>6, <2>1, <2>2 DEF Follows, Good, Kept
<1> QED
  BY <1>1, <1>4, <1>7, FollowsGood

\* A request for an audit before there are trials.
LEMMA AuditedGood == Good(Audited)
<1> DEFINE u == Uploaded
           q == EnqueueAudit(u, First)
           t == InStatus(q, "running")
<1>1. Good(u) /\ Core(u) /\ First \in Versions
  BY UploadedGood, QaStageAssumption DEF Good
<1>2. Audited = t
  BY DEF Audited
<1> HIDE DEF u
<1>3. Kept(u, q)
  BY <1>1, EnqueueAuditKept
<1> HIDE DEF q
<1>4. Kept(q, t)
  BY <1>3, InStatusKept DEF Kept
<1> HIDE DEF t
<1>5. Follows(u, t)
  BY <1>1, <1>3, <1>4, KeptOn, KeptFollows DEF Good, Sound
<1> QED
  BY <1>1, <1>2, <1>5, FollowsGood

LEMMA InitInv == Init => Inv
<1> SUFFICES ASSUME Init PROVE Inv
  OBVIOUS
<1>1. PICK s \in {Uploaded, Created, Audited} :
        task = s.task /\ version = s.version /\ agents = s.agents /\ analyses = s.analyses
  BY DEF Init
<1>2. Good(s)
  BY UploadedGood, CreatedGood, AuditedGood
<1>3. s = [task |-> s.task, version |-> s.version, agents |-> s.agents,
           analyses |-> s.analyses]
  BY <1>2 DEF Good, Core, Typed, DbType
<1>4. Db = s
  BY <1>1, <1>3 DEF Db
<1>5. sweep = [todo |-> {}, trial |-> 0, step |-> "idle"] /\ requests = 0
  BY DEF Init
<1>6. SweepFits(Db, sweep)
  BY <1>5 DEF SweepFits
<1> QED
  BY <1>2, <1>4, <1>5, <1>6, QaStageAssumption DEF Inv

\* What a step of the system makes of a state, whoever takes it.
LEMMA StepInv ==
  ASSUME Inv, Next
  PROVE  StepFits /\ (requests' = requests => Stays)
<1>1. ASSUME NEW a \in DOMAIN agents, \/ SettleAgent(a) \/ SkipAgent(a)
                                      \/ AgentHook(a) \/ AgentWorkerLost(a)
      PROVE  StepFits /\ Stays
  BY <1>1, SettleAgentFits, SkipAgentFits, AgentHookFits, AgentWorkerLostFits
<1>2. ASSUME NEW i \in DOMAIN analyses, \/ SettleAnalysis(i) \/ WorkerImport(i)
                                        \/ AnalysisWorkerLost(i)
      PROVE  StepFits /\ Stays
  BY <1>2, SettleAnalysisFits, WorkerImportFits, AnalysisWorkerLostFits
<1>3. CASE Trials
  BY <1>1, <1>2, <1>3, StartTaskFits DEF Trials, SomeAgent, SomeAnalysis
<1>4. CASE WorkersLeave
  BY <1>1, <1>2, <1>4 DEF WorkersLeave, SomeAgent, SomeAnalysis
<1>5. CASE Sweep
  BY <1>5, SweepTransactionFits, SweepImportFits DEF Sweep
<1>6. CASE Users
  BY <1>6, AppendTrialFits, RetryTrialFits, RerunQaFits, RerunAuditFits,
     SwitchVersionFits, OverwriteVersionFits, CancelQaFits, CancelRunsFits DEF Users
<1> QED
  BY <1>3, <1>4, <1>5, <1>6 DEF Next

LEMMA StutterInv == ASSUME Inv, UNCHANGED vars PROVE Inv' /\ Db' = Db
<1>1. Db' = Db /\ sweep' = sweep /\ requests' = requests
  BY DEF vars, Db
<1> QED
  BY <1>1 DEF Inv

\* In every state the rows fit one another: what QA trials grade has finished,
\* one of them is live, findings and verdict are those of the newest trials,
\* and the imports under way have stored the grades they go on from.
THEOREM QaInvariant == Spec => []Inv
<1>1. ASSUME Inv, [Next]_vars PROVE Inv'
  BY <1>1, StepInv, StutterInv DEF StepFits
<1> QED
  BY <1>1, InitInv, PTL DEF Spec

-----------------------------------------------------------------------------
(* What follows from it.                                                   *)

\* The rows have their declared shape; a verdict is stored only as a success.
THEOREM TypeCorrect == Spec => []TypeOK
<1>1. Inv => TypeOK
  <2>1. SUFFICES ASSUME Inv PROVE TypeOK
    OBVIOUS
  <2>2. /\ task \in Task /\ version \in [Versions -> Version]
        /\ agents \in Seq(Agent) /\ analyses \in Seq(Analysis)
    BY <2>1, StateSound DEF DbType
  <2>3. Len(agents) <= MaxAgents /\ (task.verdict # NoVerdict => task.vstatus = "success")
    BY <2>1, StateSound DEF Core, Typed
  <2>4. SweepFits(Db, sweep) /\ requests \in 0 .. MaxRequests
    BY <2>1 DEF Inv
  <2>5. sweep.todo \subseteq DOMAIN analyses /\ sweep.trial \in DOMAIN analyses \cup {0}
    BY <2>1, <2>4, StateSound DEF SweepFits
  <2>6. sweep.step \in Steps
    BY <2>4 DEF SweepFits, Steps
  <2> QED
    BY <2>2, <2>3, <2>4, <2>5, <2>6 DEF TypeOK
<1> QED
  BY <1>1, QaInvariant, PTL

\* A task never pays for two QA trials at once: admission, the healer and a
\* rerun create one only when none is live, and a source change cancels it.
THEOREM OneQaAtATime == Spec => []OneLiveQa
<1>1. Inv => OneLiveQa
  <2>1. SUFFICES ASSUME Inv PROVE Cardinality(Live(Db, "qa")) <= 1
    BY DEF OneLiveQa
  <2>2. \A i, j \in Live(Db, "qa") : i = j
    BY <2>1, StateSound DEF Core, OneLive
  <2>3. CASE Live(Db, "qa") = {}
    BY <2>3, FS_EmptySet
  <2>4. CASE Live(Db, "qa") # {}
    <3>1. PICK i : i \in Live(Db, "qa")
      BY <2>4
    <3>2. Live(Db, "qa") = {i}
      BY <2>2, <3>1
    <3> QED
      BY <3>2, FS_Singleton
  <2> QED
    BY <2>3, <2>4
<1> QED
  BY <1>1, QaInvariant, PTL

\* A stored verdict speaks of the source and the audit the task has now, and
\* comes from the newest QA trial of that version, in whatever order imports,
\* sweeps, source changes, new audits and cancels reach the task.
THEOREM VerdictsAreCurrent == Spec => []VerdictIsCurrent
<1>1. Inv => VerdictIsCurrent
  <2>1. SUFFICES ASSUME Inv PROVE VerdictIsCurrent
    OBVIOUS
  <2>2. VerdictFits(Db)
    BY <2>1, StateSound DEF Sound
  <2> QED
    BY <2>1, <2>2, StateSound DEF VerdictFits, VerdictIsCurrent
<1> QED
  BY <1>1, QaInvariant, PTL

\* The grades on the trials that count are those of the run that gave the
\* verdict, though the two are stored in different transactions.
THEOREM GradesAreTheVerdicts == Spec => []GradesMatchVerdict
<1>1. Inv => GradesMatchVerdict
  <2>1. SUFFICES ASSUME Inv PROVE GradesMatchVerdict
    OBVIOUS
  <2>2. VerdictFits(Db)
    BY <2>1, StateSound DEF Sound
  <2> QED
    BY <2>1, <2>2, StateSound DEF VerdictFits, Graded, GradesMatchVerdict
<1> QED
  BY <1>1, QaInvariant, PTL

\* Only a request reopens a task whose QA was cancelled: every import, hook
\* and sweep under way looks at the task under its lock before it writes.
THEOREM CancelsHold == Spec => CancelHolds
<1>1. ASSUME Inv, [Next]_vars
      PROVE  task.status = "failed" /\ requests' = requests => task'.status = "failed"
  BY <1>1, StepInv DEF Stays, vars
<1> QED
  BY <1>1, QaInvariant, PTL DEF Spec, CancelHolds

\* One QA trial's verdict replaces another's only after that was withdrawn.
THEOREM VerdictsAreWithdrawn == Spec => WithdrawnFirst
<1>1. ASSUME Inv, [Next]_vars
      PROVE  task.verdict # NoVerdict /\ task'.verdict # NoVerdict
             /\ task.verdict.by # 0 /\ task'.verdict.by # 0
             => task'.verdict.by = task.verdict.by
  <2>1. CASE Next
    <3>1. Replaces(Db, Db')
      BY <1>1, <2>1, StepInv DEF StepFits, Follows
    <3>2. Db.task = task /\ Db'.task = task'
      BY DEF Db
    <3> QED
      BY <3>1, <3>2 DEF Replaces
  <2>2. CASE UNCHANGED vars
    BY <2>2 DEF vars
  <2> QED
    BY <1>1, <2>1, <2>2
<1> QED
  BY <1>1, QaInvariant, PTL DEF Spec, WithdrawnFirst
=============================================================================
