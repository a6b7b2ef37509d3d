------------------------------ MODULE WorkQueue ------------------------------
(***************************************************************************)
(* What the worker_jobs table promises to the rest of Oddish, with no      *)
(* mention of heartbeats, retries or trial rows.  An item is enqueued with *)
(* a limit on how often it may be taken, waits, is held by one worker at a *)
(* time, may be put back while it has tries left, and once closed stays    *)
(* closed.  TrialJobs is shown to implement this specification.            *)
(***************************************************************************)
EXTENDS Naturals

CONSTANTS
  Items,      \* worker_jobs rows
  Holders,    \* worker processes
  NoHolder,   \* current_worker_id IS NULL
  MaxLimit    \* the largest max_attempts a row is given

VARIABLES
  phase,      \* [Items -> Phase]
  holder,     \* [Items -> Holders \cup {NoHolder}]
  tries,      \* [Items -> Nat]: how often the item was taken
  limit       \* [Items -> Nat]: how often it may be taken

Phase == {"absent", "waiting", "held", "closed"}

qvars == <<phase, holder, tries, limit>>

QueueInit ==
  /\ phase = [i \in Items |-> "absent"]
  /\ holder = [i \in Items |-> NoHolder]
  /\ tries = [i \in Items |-> 0]
  /\ limit = [i \in Items |-> 0]

Enqueue(i) ==
  /\ phase[i] = "absent"
  /\ phase' = [phase EXCEPT ![i] = "waiting"]
  /\ \E n \in 1 .. MaxLimit : limit' = [limit EXCEPT ![i] = n]
  /\ UNCHANGED <<holder, tries>>

Take(i, h) ==
  /\ phase[i] = "waiting"
  /\ tries[i] < limit[i]
  /\ phase' = [phase EXCEPT ![i] = "held"]
  /\ holder' = [holder EXCEPT ![i] = h]
  /\ tries' = [tries EXCEPT ![i] = @ + 1]
  /\ UNCHANGED limit

PutBack(i) ==
  /\ phase[i] = "held"
  /\ tries[i] < limit[i]
  /\ phase' = [phase EXCEPT ![i] = "waiting"]
  /\ holder' = [holder EXCEPT ![i] = NoHolder]
  /\ UNCHANGED <<tries, limit>>

\* A step may close several items at once: a cancel covers a whole task.  A
\* user retry closes the old row and enqueues its replacement in one step.
CloseAll(I) ==
  /\ I # {}
  /\ \A i \in I : phase[i] \in {"waiting", "held"}
  /\ phase' = [i \in Items |-> IF i \in I THEN "closed" ELSE phase[i]]
  /\ holder' = [i \in Items |-> IF i \in I THEN NoHolder ELSE holder[i]]
  /\ UNCHANGED <<tries, limit>>

CloseAndEnqueue(i, j) ==
  /\ phase[i] \in {"waiting", "held"}
  /\ phase[j] = "absent"
  /\ phase' = [phase EXCEPT ![i] = "closed", ![j] = "waiting"]
  /\ holder' = [holder EXCEPT ![i] = NoHolder]
  /\ \E n \in 1 .. MaxLimit : limit' = [limit EXCEPT ![j] = n]
  /\ UNCHANGED tries

QueueNext ==
  \/ \E i \in Items : Enqueue(i) \/ PutBack(i)
  \/ \E i \in Items, h \in Holders : Take(i, h)
  \/ \E I \in SUBSET Items : CloseAll(I)
  \/ \E i, j \in Items : CloseAndEnqueue(i, j)

QueueSpec == QueueInit /\ [][QueueNext]_qvars
=============================================================================
