------------------------ MODULE IngestionTasksProofs ------------------------
(***************************************************************************)
(* Proofs about the ingestion service: for any number of processes,         *)
(* workers, tasks, keys, attempts, restarts and repository errors.          *)
(*                                                                         *)
(* IInv is inductive.  Each action is checked against each of its parts;    *)
(* the parts that carry the argument are RowsConsistent (the table on its   *)
(* own) and WorkersConsistent (what a worker knows of the row it owns).     *)
(***************************************************************************)
EXTENDS IngestionTasks, FiniteSetTheorems, TLAPS

USE NoKeyAssumption, NoWorkerAssumption, MaxAttemptsAssumption,
    StopAssumption, NoTaskAssumption, NoProcAssumption, BoundsAssumption

----------------------------------------------------------------------------
(* Rows.                                                                    *)

\* An empty row, and a candidate, are consistent rows.
LEMMA NewRows ==
    /\ Absent \in Row /\ RowConsistent(Absent)
    /\ \A k \in Key \cup {NoKey} : Candidate(k) \in Row /\ RowConsistent(Candidate(k))
<1>1. Absent \in Row
  BY DEF Absent, Row, Statuses
<1>2. RowConsistent(Absent)
  BY DEF Absent, RowConsistent, Accounted, Current, Terminal
<1>3. ASSUME NEW k \in Key \cup {NoKey}
      PROVE  Candidate(k) \in Row /\ RowConsistent(Candidate(k))
  <2>1. Candidate(k) \in Row
    BY <1>1 DEF Candidate, Row, Statuses
  <2>2. RowConsistent(Candidate(k))
    BY DEF Absent, Candidate, RowConsistent, Accounted, Current, Terminal
  <2> QED
    BY <2>1, <2>2
<1> QED
  BY <1>1, <1>2, <1>3

\* Claiming takes an attempt and keeps the account.
LEMMA ClaimedRow ==
    ASSUME NEW row \in Row, RowConsistent(row), Claimable(row), NEW w \in WorkerId
    PROVE  /\ Claimed(row, w) \in Row
           /\ RowConsistent(Claimed(row, w))
           /\ Claimed(row, w).status = "running"
           /\ Claimed(row, w).owner = w
           /\ Claimed(row, w).recovered = row.recovered
           /\ Claimed(row, w).attempts = row.attempts + 1
           /\ row.status = "queued" /\ row.owner = NoWorker
<1> DEFINE n == row.attempts + 1
           new == [row EXCEPT !.status = "running", !.attempts = n,
                              !.owner = w, !.lease = "live"]
<1>1. n \in 0 .. MaxAttempts
  BY DEF Row, Claimable
<1>2. Claimed(row, w) = new
  BY DEF Claimed
<1>3. /\ row.status = "queued"
      /\ row.owner = NoWorker
      /\ row.retries <= row.attempts
      /\ row.recovered <=> row.retries < row.attempts
      /\ row.retries \in Nat /\ row.attempts \in Nat
  BY DEF Claimable, RowConsistent, Accounted, Current, Terminal, Row
<1>4. /\ row.retries + 1 <= n
      /\ row.recovered <=> row.retries + 1 < n
  BY <1>3
<1>5. n = row.attempts + 1
  OBVIOUS
<1> HIDE DEF n
<1>6. /\ new \in Row
      /\ new.status = "running" /\ new.owner = w /\ new.lease = "live"
      /\ new.retries = row.retries /\ new.attempts = n
      /\ new.recovered = row.recovered
  BY <1>1 DEF Row, Statuses
<1> HIDE DEF new
<1>7. RowConsistent(new)
  BY <1>4, <1>6 DEF RowConsistent, Accounted, Current, Terminal
<1> QED
  BY <1>2, <1>3, <1>5, <1>6, <1>7

\* Recovering turns the attempt in progress into a lost one.
LEMMA RequeuedRow ==
    ASSUME NEW row \in Row, RowConsistent(row), Abandoned(row)
    PROVE  /\ Requeued(row) \in Row
           /\ RowConsistent(Requeued(row))
           /\ Requeued(row).recovered
           /\ Requeued(row).status = "queued"
           /\ Requeued(row).owner = NoWorker
           /\ Requeued(row).attempts = row.attempts
<1> DEFINE new == Requeued(row)
<1>1. /\ new \in Row
      /\ new.status = "queued" /\ new.owner = NoWorker /\ new.lease = "none"
      /\ new.retries = row.retries /\ new.attempts = row.attempts
      /\ new.recovered = TRUE
  BY DEF Requeued, Row, Statuses
<1>2. /\ row.retries + 1 <= row.attempts /\ row.attempts < MaxAttempts
      /\ row.retries \in Nat /\ row.attempts \in Nat
  BY DEF Abandoned, RowConsistent, Accounted, Current, Terminal, Row
<1> HIDE DEF new
<1>3. RowConsistent(new)
  BY <1>1, <1>2 DEF RowConsistent, Accounted, Current, Terminal
<1> QED
  BY <1>1, <1>3 DEF new

\* The outcome of an execution is a record that saves to a consistent row.
LEMMA OutcomeRow ==
    ASSUME NEW copy \in Row, copy.status = "running", Accounted(copy), NEW ok \in BOOLEAN
    PROVE  /\ Outcome(copy, ok) \in Row
           /\ Outcome(copy, ok).status \in {"queued"} \cup Terminal
           /\ RowConsistent(Saved(Outcome(copy, ok)))
           /\ Outcome(copy, ok).status = "failed" => Outcome(copy, ok).attempts = MaxAttempts
           /\ SameTask(Outcome(copy, ok), copy)
<1> DEFINE n == copy.retries + 1
           out == Outcome(copy, ok)
           new == Saved(out)
<1>1. /\ copy.retries \in Nat /\ copy.attempts \in 0 .. MaxAttempts
      /\ copy.retries + 1 <= copy.attempts
      /\ copy.recovered <=> copy.retries + 1 < copy.attempts
  BY DEF Row, Accounted, Current
<1>2. SUFFICES /\ out \in Row
               /\ out.status \in {"queued"} \cup Terminal
               /\ out.status = "failed" => out.attempts = MaxAttempts
               /\ SameTask(out, copy)
               /\ out.status = "queued" => out.retries = n /\ out.attempts < MaxAttempts
               /\ out.status # "queued" => out.retries = copy.retries
  <2>1. /\ new.status = out.status /\ new.owner = NoWorker /\ new.lease = "none"
        /\ new.retries = out.retries /\ new.attempts = out.attempts
        /\ new.recovered = out.recovered
    BY <1>2 DEF Saved, Row
  <2> HIDE DEF out, new
  <2>2. Accounted(new)
    BY <1>1, <1>2, <2>1 DEF Accounted, Current, Terminal, SameTask
  <2>3. RowConsistent(new)
    BY <1>2, <2>1, <2>2 DEF RowConsistent, Terminal
  <2> QED
    BY <1>2, <2>3 DEF out, new
<1>3. CASE ok
  BY <1>3 DEF Outcome, Row, Statuses, Terminal, SameTask
<1>4. CASE ~ok /\ copy.attempts < MaxAttempts
  <2>1. n \in 0 .. MaxAttempts - 1
    BY <1>1, <1>4
  <2>2. out = [copy EXCEPT !.status = "queued", !.error = TRUE, !.retries = n]
    BY <1>4 DEF Outcome
  <2> HIDE DEF n, out
  <2> QED
    BY <1>4, <2>1, <2>2 DEF Row, Statuses, Terminal, SameTask
<1>5. CASE ~ok /\ ~(copy.attempts < MaxAttempts)
  <2>1. out = [copy EXCEPT !.status = "failed", !.error = TRUE]
    BY <1>5 DEF Outcome
  <2>2. copy.attempts = MaxAttempts
    BY <1>1, <1>5
  <2> HIDE DEF out
  <2> QED
    BY <2>1, <2>2 DEF Row, Statuses, Terminal, SameTask
<1> QED
  BY <1>3, <1>4, <1>5

\* Saving a worker's record gives a row of the table.
LEMMA SavedRow ==
    ASSUME NEW copy \in Row
    PROVE  /\ Saved(copy) \in Row
           /\ Saved(copy).status = copy.status
           /\ Saved(copy).owner = NoWorker
           /\ SameTask(Saved(copy), copy)
  BY DEF Saved, Row, SameTask

\* Two rows that agree in every column are equal.
LEMMA RowExtensional ==
    ASSUME NEW a \in Row, NEW b \in Row, SameTask(a, b),
           a.status = b.status, a.retries = b.retries, a.owner = b.owner,
           a.lease = b.lease, a.result = b.result, a.error = b.error
    PROVE  a = b
  BY SMTT(20) DEF Row, SameTask

----------------------------------------------------------------------------
(* The table: what one step may do to a row.                                *)

RowStep(t) ==
    \/ tasks'[t] = tasks[t]
    \/ /\ tasks[t].status = "absent"
       /\ rpc'[t] \notin {"new", "create"}
       /\ \E k \in Key \cup {NoKey} : tasks'[t] = Candidate(k)
    \/ /\ Claimable(tasks[t])
       /\ \E w \in WorkerId : /\ wpc[w] = "claim" /\ wtask[w] = t
                              /\ tasks'[t] = Claimed(tasks[t], w)
    \/ \E w \in WorkerId : /\ wpc[w] = "save" /\ wpc'[w] # "save"
                           /\ wtask[w] = t /\ tasks[t].owner = w
                           /\ tasks'[t] = Saved(wcopy[w])
    \/ /\ Abandoned(tasks[t])
       /\ tasks'[t] = Requeued(tasks[t])
    \/ /\ tasks[t].lease = "live"
       /\ tasks'[t] = [tasks[t] EXCEPT !.lease = "expired"]

TableStep ==
    /\ tasks' = [t \in TaskId |-> tasks'[t]]
    /\ \A t \in TaskId : RowStep(t)

\* A step that leaves the table alone, or changes one row of it.
LEMMA TableKept ==
    ASSUME tasks \in [TaskId -> Row], UNCHANGED tasks
    PROVE  TableStep
  BY DEF TableStep, RowStep

\* A step that changes one row is a table step if it is a step of that row.
LEMMA RowChanged ==
    ASSUME tasks \in [TaskId -> Row], NEW u \in TaskId, NEW x,
           tasks' = [tasks EXCEPT ![u] = x], RowStep(u)
    PROVE  TableStep
<1>1. \A t \in TaskId : t # u => tasks'[t] = tasks[t]
  OBVIOUS
<1>2. \A t \in TaskId : RowStep(t)
  BY <1>1 DEF RowStep
<1> QED
  BY <1>2 DEF TableStep

\* create_or_get_task is a step of the row it inserts.
LEMMA CreatesRow ==
    ASSUME tasks \in [TaskId -> Row], NEW r \in TaskId, tasks[r].status = "absent",
           rpc'[r] \notin {"new", "create"},
           NEW k \in Key \cup {NoKey}, tasks' = [tasks EXCEPT ![r] = Candidate(k)]
    PROVE  TableStep
<1>1. RowStep(r)
  BY DEF RowStep
<1> QED
  BY <1>1, RowChanged

\* claim_task is a step of the row it claims.
LEMMA ClaimsRow ==
    ASSUME tasks \in [TaskId -> Row], NEW w \in WorkerId, wpc[w] = "claim",
           wtask[w] \in TaskId, Claimable(tasks[wtask[w]]),
           tasks' = [tasks EXCEPT ![wtask[w]] = Claimed(tasks[wtask[w]], w)]
    PROVE  TableStep
<1>1. RowStep(wtask[w])
  BY DEF RowStep
<1> QED
  BY <1>1, RowChanged

\* save_task is a step of the row it saves, or changes nothing.
LEMMA SavesRow ==
    ASSUME tasks \in [TaskId -> Row], NEW w \in WorkerId, wpc[w] = "save",
           wpc'[w] # "save", wtask[w] \in TaskId,
           tasks' = SaveTask(tasks, wtask[w], wcopy[w], w)
    PROVE  TableStep
<1>1. CASE tasks[wtask[w]].owner = w
  <2>1. tasks' = [tasks EXCEPT ![wtask[w]] = Saved(wcopy[w])]
    BY <1>1 DEF SaveTask
  <2>2. RowStep(wtask[w])
    BY <1>1, <2>1 DEF RowStep
  <2> QED
    BY <2>1, <2>2, RowChanged
<1>2. CASE tasks[wtask[w]].owner # w
  BY <1>2, TableKept DEF SaveTask
<1> QED
  BY <1>1, <1>2

\* recover_expired_tasks is a step of every row.
LEMMA RecoversRows ==
    ASSUME tasks \in [TaskId -> Row], tasks' = RecoverExpired(tasks)
    PROVE  TableStep
  BY DEF TableStep, RowStep, RecoverExpired

\* Every step of the service is one of these steps of the table.
LEMMA TableSteps ==
    ASSUME IInv, [Next]_vars
    PROVE  TableStep
<1>1. /\ tasks \in [TaskId -> Row]
      /\ rkey \in [TaskId -> Key \cup {NoKey}]
      /\ DOMAIN wpc = WorkerId /\ DOMAIN rpc = TaskId
  BY DEF IInv, TypeOK
<1>2. \A w \in WorkerId : wpc[w] \in {"claim", "save"} => wtask[w] \in TaskId
  BY DEF IInv, WorkersConsistent, WorkerConsistent, InHand
<1>3. \A r \in TaskId : rpc[r] = "create" => tasks[r].status = "absent"
  BY DEF IInv, RequestsConsistent, RequestConsistent
<1>4. ASSUME NEW p \in Proc, ProcessStep(p)
      PROVE  TableStep
  <2>1. CASE Recover(p)
    BY <1>1, <2>1, RecoversRows DEF Recover
  <2>2. CASE RecoverError(p)
    BY <1>1, <2>2, RecoversRows, TableKept DEF RecoverError
  <2>3. CASE Launch(p)
    BY <1>1, <2>3, TableKept DEF Launch
  <2>4. CASE Close(p)
    BY <1>1, <2>4, TableKept DEF Close
  <2>5. CASE Exit(p)
    BY <1>1, <2>5, TableKept DEF Exit, Vanish
  <2>6. CASE Crash(p)
    BY <1>1, <2>6, TableKept DEF Crash, Vanish
  <2> QED
    BY <1>4, <2>1, <2>2, <2>3, <2>4, <2>5, <2>6 DEF ProcessStep
<1>5. ASSUME NEW w \in WorkerId, WorkerStep(w)
      PROVE  TableStep
  <2>1. CASE Get(w)
    BY <1>1, <2>1, TableKept DEF Get
  <2>2. CASE Claim(w)
    <3>1. CASE UNCHANGED tasks
      BY <1>1, <3>1, TableKept
    <3>2. CASE ~UNCHANGED tasks
      BY <1>1, <1>2, <2>2, <3>2, ClaimsRow DEF Claim
    <3> QED
      BY <3>1, <3>2
  <2>3. CASE ClaimError(w)
    <3>1. CASE UNCHANGED tasks
      BY <1>1, <3>1, TableKept
    <3>2. CASE ~UNCHANGED tasks
      BY <1>1, <1>2, <2>3, <3>2, ClaimsRow DEF ClaimError
    <3> QED
      BY <3>1, <3>2
  <2>4. CASE \E ok \in BOOLEAN : Ingest(w, ok)
    BY <1>1, <2>4, TableKept DEF Ingest
  <2>5. CASE Save(w)
    <3>1. wpc'[w] # "save"
      BY <1>1, <2>5 DEF Save, LoopAgain
    <3> QED
      BY <1>1, <1>2, <2>5, <3>1, SavesRow DEF Save
  <2>6. CASE SaveError(w)
    <3>1. wpc'[w] # "save"
      BY <1>1, <2>6 DEF SaveError, LoopAgain
    <3> QED
      BY <1>1, <1>2, <2>6, <3>1, SavesRow, TableKept DEF SaveError
  <2>7. CASE Requeue(w)
    BY <1>1, <2>7, TableKept DEF Requeue
  <2> QED
    BY <1>5, <2>1, <2>2, <2>3, <2>4, <2>5, <2>6, <2>7 DEF WorkerStep
<1>6. ASSUME NEW r \in TaskId, RequestStep(r)
      PROVE  TableStep
  <2>1. CASE \E p \in Proc : Refuse(r, p) \/ \E k \in Key \cup {NoKey} : Submit(r, p, k)
    BY <1>1, <2>1, TableKept DEF Refuse, Submit
  <2>2. CASE CreateOrGet(r)
    <3>1. CASE UNCHANGED tasks
      BY <1>1, <3>1, TableKept
    <3>2. CASE ~UNCHANGED tasks
      <4>1. rpc'[r] \in {"enqueue", "done"}
        BY <1>1, <2>2 DEF CreateOrGet, Answered
      <4> QED
        BY <1>1, <1>3, <2>2, <3>2, <4>1, CreatesRow DEF CreateOrGet
    <3> QED
      BY <3>1, <3>2
  <2>3. CASE CreateError(r)
    <3>1. CASE UNCHANGED tasks
      BY <1>1, <3>1, TableKept
    <3>2. CASE ~UNCHANGED tasks
      <4>1. rpc'[r] = "failed"
        BY <1>1, <2>3 DEF CreateError
      <4> QED
        BY <1>1, <1>3, <2>3, <3>2, <4>1, CreatesRow DEF CreateError
    <3> QED
      BY <3>1, <3>2
  <2>4. CASE Enqueue(r)
    BY <1>1, <2>4, TableKept DEF Enqueue
  <2> QED
    BY <1>6, <2>1, <2>2, <2>3, <2>4 DEF RequestStep
<1>7. ASSUME NEW t \in TaskId, LeaseExpires(t)
      PROVE  TableStep
  <2>1. tasks' = [tasks EXCEPT ![t] = [tasks[t] EXCEPT !.lease = "expired"]]
    BY <1>7 DEF LeaseExpires
  <2>2. RowStep(t)
    BY <1>1, <1>7, <2>1 DEF RowStep, LeaseExpires
  <2> QED
    BY <1>1, <2>1, <2>2, RowChanged
<1>8. CASE Idle \/ UNCHANGED vars
  BY <1>1, <1>8, TableKept DEF Idle, vars
<1> QED
  BY <1>4, <1>5, <1>6, <1>7, <1>8 DEF Next

\* Every row stays typed and consistent.
LEMMA RowsKept ==
    ASSUME IInv, TableStep, NEW t \in TaskId
    PROVE  tasks'[t] \in Row /\ RowConsistent(tasks'[t])
<1>1. tasks[t] \in Row /\ RowConsistent(tasks[t])
  BY DEF IInv, TypeOK, RowsConsistent
<1>2. CASE tasks'[t] = tasks[t]
  BY <1>1, <1>2
<1>3. CASE \E k \in Key \cup {NoKey} : tasks'[t] = Candidate(k)
  BY <1>3, NewRows
<1>4. CASE Claimable(tasks[t]) /\ \E w \in WorkerId : tasks'[t] = Claimed(tasks[t], w)
  BY <1>1, <1>4, ClaimedRow
<1>5. CASE \E w \in WorkerId : wpc[w] = "save" /\ tasks'[t] = Saved(wcopy[w])
  <2>1. PICK w \in WorkerId : wpc[w] = "save" /\ tasks'[t] = Saved(wcopy[w])
    BY <1>5
  <2>2. wcopy[w] \in Row /\ RowConsistent(Saved(wcopy[w]))
    BY <2>1 DEF IInv, TypeOK, WorkersConsistent, WorkerConsistent
  <2> QED
    BY <2>1, <2>2, SavedRow
<1>6. CASE Abandoned(tasks[t]) /\ tasks'[t] = Requeued(tasks[t])
  BY <1>1, <1>6, RequeuedRow
<1>7. CASE tasks[t].lease = "live" /\ tasks'[t] = [tasks[t] EXCEPT !.lease = "expired"]
  <2>1. /\ tasks'[t] \in Row
        /\ tasks'[t].lease = "expired"
        /\ tasks'[t].status = tasks[t].status
        /\ tasks'[t].owner = tasks[t].owner
        /\ tasks'[t].attempts = tasks[t].attempts
        /\ tasks'[t].retries = tasks[t].retries
        /\ tasks'[t].recovered = tasks[t].recovered
    BY <1>1, <1>7 DEF Row
  <2> QED
    BY <1>1, <1>7, <2>1 DEF RowConsistent, Accounted, Current
<1> QED
  BY <1>2, <1>3, <1>4, <1>5, <1>6, <1>7 DEF TableStep, RowStep

\* What a step may do to the row behind a worker's back.
LEMMA RowSeenByWorker ==
    ASSUME IInv, TableStep, NEW w \in WorkerId, Working(w),
           wtask[w] \in TaskId, wpc[w] = "save" => wpc'[w] = "save"
    PROVE  \/ /\ tasks'[wtask[w]].owner = w
              /\ SameTask(wcopy[w], tasks'[wtask[w]])
           \/ /\ tasks'[wtask[w]].owner # w
              /\ tasks'[wtask[w]].recovered
<1> DEFINE t == wtask[w]
           row == tasks[t]
<1>1. row \in Row /\ RowConsistent(row)
  BY DEF IInv, TypeOK, RowsConsistent
<1>2. \/ row.owner = w /\ SameTask(wcopy[w], row)
      \/ row.owner # w /\ row.recovered
  BY DEF IInv, WorkersConsistent, WorkerConsistent
<1>3. CASE tasks'[t] = row
  BY <1>2, <1>3
<1>4. CASE row.status = "absent" /\ \E k \in Key \cup {NoKey} : tasks'[t] = Candidate(k)
  <2>1. row.owner = NoWorker /\ ~row.recovered
    BY <1>1, <1>4 DEF Row, RowConsistent, Accounted, Current, Terminal
  <2> QED
    BY <1>2, <2>1
<1>5. CASE /\ Claimable(row)
           /\ \E v \in WorkerId : wpc[v] = "claim" /\ tasks'[t] = Claimed(row, v)
  <2>1. PICK v \in WorkerId : wpc[v] = "claim" /\ tasks'[t] = Claimed(row, v)
    BY <1>5
  <2>2. v # w
    BY <2>1 DEF Working
  <2>3. /\ row.owner = NoWorker
        /\ tasks'[t].owner = v
        /\ tasks'[t].recovered = row.recovered
    BY <1>1, <1>5, <2>1, ClaimedRow
  <2> QED
    BY <1>2, <2>2, <2>3
<1>6. CASE \E v \in WorkerId : /\ wpc[v] = "save" /\ wpc'[v] # "save" /\ wtask[v] = t
                               /\ row.owner = v /\ tasks'[t] = Saved(wcopy[v])
  <2>1. PICK v \in WorkerId : /\ wpc[v] = "save" /\ wpc'[v] # "save" /\ wtask[v] = t
                              /\ row.owner = v /\ tasks'[t] = Saved(wcopy[v])
    BY <1>6
  <2>2. v # w
    BY <2>1
  <2>3. SameTask(wcopy[v], row) /\ wcopy[v] \in Row
    BY <2>1 DEF IInv, TypeOK, WorkersConsistent, WorkerConsistent, Working
  <2>4. tasks'[t].owner = NoWorker /\ tasks'[t].recovered = row.recovered
    BY <2>1, <2>3, SavedRow DEF SameTask
  <2> QED
    BY <1>2, <2>1, <2>2, <2>4
<1>7. CASE Abandoned(row) /\ tasks'[t] = Requeued(row)
  BY <1>1, <1>7, RequeuedRow
<1>8. CASE row.lease = "live" /\ tasks'[t] = [row EXCEPT !.lease = "expired"]
  <2>1. tasks'[t].owner = row.owner /\ SameTask(tasks'[t], row)
    BY <1>1, <1>8 DEF Row, SameTask
  <2> QED
    BY <1>2, <2>1 DEF SameTask
<1> QED
  BY <1>3, <1>4, <1>5, <1>6, <1>7, <1>8 DEF TableStep, RowStep

----------------------------------------------------------------------------
(* The inductive invariant.                                                 *)

\* The invariant holds of a service that has not been started yet.
THEOREM InitIInv == Init => IInv
<1> SUFFICES ASSUME Init PROVE IInv
  OBVIOUS
<1>1. \A t \in TaskId : tasks[t] \in Row /\ RowConsistent(tasks[t])
  BY NewRows DEF Init
<1>2. TypeOK
  BY <1>1, NewRows DEF Init, TypeOK
<1>3. RowsConsistent
  BY <1>1 DEF RowsConsistent
<1>4. RequestsConsistent
  BY DEF Init, RequestsConsistent, RequestConsistent, Absent
<1>5. WorkersConsistent
  BY DEF Init, WorkersConsistent, WorkerConsistent, InHand, Working
<1> QED
  BY <1>2, <1>3, <1>4, <1>5 DEF IInv

\* Types, action by action; only a worker's record and the queue take an
\* argument.
LEMMA TypeStep ==
    ASSUME IInv, [Next]_vars
    PROVE  TypeOK'
<1>1. TypeOK
  BY DEF IInv
<1>2. tasks' \in [TaskId -> Row]
  BY TableSteps, RowsKept DEF TableStep
<1>3. ASSUME NEW p \in Proc, ProcessStep(p)
      PROVE  TypeOK'
  <2>1. CASE Recover(p)
    BY <1>1, <1>2, <2>1 DEF Recover, TypeOK, Queued, workerVars, requestVars
  <2>2. CASE RecoverError(p)
    BY <1>1, <1>2, <2>2 DEF RecoverError, RepositoryRaises, TypeOK, procVars, workerVars, requestVars
  <2>3. CASE Launch(p)
    <3>1. PICK order \in SetToSeqs(pending[p]) : queue' = [queue EXCEPT ![p] = order]
      BY <2>3 DEF Launch
    <3>2. IsFiniteSet(pending[p])
      BY <1>1, TaskIdAssumption, FS_Subset DEF TypeOK
    <3>3. Cardinality(pending[p]) \in Nat
      BY <3>2, FS_CardinalityType
    <3>4. order \in Seq(TaskId \cup {Stop})
      <4>1. order \in [1 .. Cardinality(pending[p]) -> pending[p]]
        BY <3>1 DEF SetToSeqs
      <4>2. pending[p] \subseteq TaskId \cup {Stop}
        BY <1>1 DEF TypeOK
      <4> QED
        BY <3>3, <4>1, <4>2
    <3>5. queue' \in [Proc -> Seq(TaskId \cup {Stop})]
      BY <1>1, <3>1, <3>4 DEF TypeOK
    <3> QED
      BY <1>1, <1>2, <2>3, <3>5 DEF Launch, TypeOK, requestVars
  <2>4. CASE Close(p)
    <3>1. WorkerCount \in Nat
      BY WorkerAssumption
    <3>2. [i \in 1 .. WorkerCount |-> Stop] \in Seq(TaskId \cup {Stop})
      BY <3>1
    <3>3. queue[p] \o [i \in 1 .. WorkerCount |-> Stop] \in Seq(TaskId \cup {Stop})
      BY <1>1, <3>2 DEF TypeOK
    <3> QED
      BY <1>1, <1>2, <2>4, <3>3 DEF Close, TypeOK, workerVars, requestVars
  <2>5. CASE Exit(p)
    BY <1>1, <1>2, <2>5, NewRows DEF Exit, Vanish, TypeOK
  <2>6. CASE Crash(p)
    BY <1>1, <1>2, <2>6, NewRows DEF Crash, Vanish, TypeOK
  <2> QED
    BY <1>3, <2>1, <2>2, <2>3, <2>4, <2>5, <2>6 DEF ProcessStep
<1>4. ASSUME NEW w \in WorkerId, WorkerStep(w)
      PROVE  TypeOK'
  <2> USE NewRows DEF LoopAgain, RepositoryRaises, procVars, requestVars
  <2> DEFINE p == whome[w]
  <2>0. /\ wpc[w] # "unborn" => p \in Proc
        /\ InHand(w) => wtask[w] \in TaskId
    BY DEF IInv, WorkersConsistent, WorkerConsistent
  <2>1. CASE Get(w)
    <3>1. p \in Proc /\ queue[p] \in Seq(TaskId \cup {Stop}) /\ queue[p] # <<>>
      BY <1>1, <2>0, <2>1 DEF Get, TypeOK
    <3>2. /\ Tail(queue[p]) \in Seq(TaskId \cup {Stop})
          /\ Head(queue[p]) \in TaskId \cup {Stop}
      BY <3>1
    <3>3. queue' \in [Proc -> Seq(TaskId \cup {Stop})]
      BY <1>1, <2>1, <3>1, <3>2 DEF Get, TypeOK
    <3>4. wtask' \in [WorkerId -> TaskId \cup {NoTask}]
      BY <1>1, <2>1, <3>2 DEF Get, TypeOK
    <3>5. wpc' \in [WorkerId -> {"unborn", "get", "claim", "ingest", "save",
                                 "requeue", "gone", "lost"}]
      BY ZenonT(60), <1>1, <2>1 DEF Get, TypeOK
    <3> QED
      BY <1>1, <1>2, <2>1, <3>3, <3>4, <3>5 DEF Get, TypeOK
  <2>2. CASE Claim(w)
    <3>1. CASE Claimable(tasks[wtask[w]])
      <4>1. Claimed(tasks[wtask[w]], w) \in Row
        BY <2>0, <2>2, <3>1, ClaimedRow DEF Claim, IInv, TypeOK, RowsConsistent, InHand
      <4>2. wcopy' \in [WorkerId -> Row]
        BY <1>1, <2>2, <3>1, <4>1 DEF Claim, TypeOK
      <4> QED
        BY <1>1, <1>2, <2>2, <3>1, <4>2 DEF Claim, TypeOK
    <3>2. CASE ~Claimable(tasks[wtask[w]])
      <4>1. LoopAgain(w) /\ UNCHANGED <<procVars, requestVars, errors>>
        BY <2>2, <3>2 DEF Claim
      <4> QED
        BY <1>1, <1>2, <4>1 DEF TypeOK
    <3> QED
      BY <3>1, <3>2
  <2>3. CASE ClaimError(w)
    BY <1>1, <1>2, <2>3 DEF ClaimError, TypeOK
  <2>4. ASSUME NEW ok \in BOOLEAN, Ingest(w, ok)
        PROVE  TypeOK'
    <3>1. Outcome(wcopy[w], ok) \in Row
      BY <2>4, OutcomeRow DEF Ingest, IInv, TypeOK, WorkersConsistent, WorkerConsistent
    <3>2. wcopy' \in [WorkerId -> Row]
      BY <1>1, <2>4, <3>1 DEF Ingest, TypeOK
    <3> QED
      BY <1>1, <1>2, <2>4, <3>2 DEF Ingest, TypeOK
  <2>5. CASE Save(w)
    <3>1. CASE wcopy[w].status = "queued"
      BY <1>1, <1>2, <2>5, <3>1 DEF Save, TypeOK
    <3>2. CASE wcopy[w].status # "queued"
      <4>1. LoopAgain(w) /\ UNCHANGED <<procVars, requestVars, errors>>
        BY <2>5, <3>2 DEF Save
      <4> QED
        BY <1>1, <1>2, <4>1 DEF TypeOK
    <3> QED
      BY <3>1, <3>2
  <2>6. CASE SaveError(w)
    BY <1>1, <1>2, <2>6 DEF SaveError, TypeOK
  <2>7. CASE Requeue(w)
    <3>1. p \in Proc /\ wtask[w] \in TaskId
      BY <2>0, <2>7 DEF Requeue, InHand
    <3>2. queue' \in [Proc -> Seq(TaskId \cup {Stop})]
      <4>1. Append(queue[p], wtask[w]) \in Seq(TaskId \cup {Stop})
        BY <1>1, <3>1 DEF TypeOK
      <4>2. queue' = queue \/ queue' = [queue EXCEPT ![p] = Append(queue[p], wtask[w])]
        BY <2>7 DEF Requeue, Put
      <4> QED
        BY <1>1, <3>1, <4>1, <4>2 DEF TypeOK
    <3> QED
      BY <1>1, <1>2, <2>7, <3>2 DEF Requeue, TypeOK
  <2> QED
    BY <1>4, <2>1, <2>2, <2>3, <2>4, <2>5, <2>6, <2>7 DEF WorkerStep
<1>5. ASSUME NEW r \in TaskId, RequestStep(r)
      PROVE  TypeOK'
  <2> USE DEF RepositoryRaises, procVars, workerVars
  <2>1. CASE \E p \in Proc : Refuse(r, p)
    BY <1>1, <1>2, <2>1 DEF Refuse, TypeOK
  <2>2. CASE \E p \in Proc, k \in Key \cup {NoKey} : Submit(r, p, k)
    BY <1>1, <1>2, <2>2 DEF Submit, TypeOK
  <2>3. CASE CreateOrGet(r)
    <3>1. rtask' \in [TaskId -> TaskId \cup {NoTask}]
      BY ZenonT(60), <1>1, <2>3 DEF CreateOrGet, Answered, Existing, TypeOK
    <3>2. rpc' \in [TaskId -> {"new", "create", "enqueue", "done", "refused", "failed"}]
      BY <1>1, <2>3 DEF CreateOrGet, Answered, TypeOK
    <3> QED
      BY <1>1, <1>2, <2>3, <3>1, <3>2 DEF CreateOrGet, TypeOK
  <2>4. CASE CreateError(r)
    BY <1>1, <1>2, <2>4 DEF CreateError, TypeOK
  <2>5. CASE Enqueue(r)
    <3>1. rhome[r] \in Proc /\ rtask[r] \in TaskId
      BY <2>5 DEF Enqueue, IInv, RequestsConsistent, RequestConsistent
    <3>2. queue' \in [Proc -> Seq(TaskId \cup {Stop})]
      BY <1>1, <2>5, <3>1 DEF Enqueue, Put, TypeOK
    <3> QED
      BY <1>1, <1>2, <2>5, <3>2 DEF Enqueue, TypeOK
  <2> QED
    BY <1>5, <2>1, <2>2, <2>3, <2>4, <2>5 DEF RequestStep
<1>6. ASSUME NEW t \in TaskId, LeaseExpires(t)
      PROVE  TypeOK'
  BY <1>1, <1>2, <1>6 DEF LeaseExpires, TypeOK, procVars, workerVars, requestVars
<1>7. CASE Idle \/ UNCHANGED vars
  BY <1>1, <1>2, <1>7 DEF Idle, TypeOK, vars, procVars, workerVars, requestVars
<1> QED
  BY <1>3, <1>4, <1>5, <1>6, <1>7 DEF Next

\* Workers.  One that an action leaves alone stays consistent whatever happens
\* to its row, and one that has nothing in hand is consistent.
LEMMA WorkerLeftAlone ==
    ASSUME IInv, TableStep, NEW w \in WorkerId,
           wpc'[w] = wpc[w], wtask'[w] = wtask[w], wcopy'[w] = wcopy[w],
           whome'[w] = whome[w]
    PROVE  WorkerConsistent(w)'
<1>1. WorkerConsistent(w)
  BY DEF IInv, WorkersConsistent
<1>2. Working(w) => wtask[w] \in TaskId
  BY <1>1 DEF WorkerConsistent, Working, InHand
<1>3. Working(w) => \/ /\ tasks'[wtask[w]].owner = w
                       /\ SameTask(wcopy[w], tasks'[wtask[w]])
                    \/ /\ tasks'[wtask[w]].owner # w
                       /\ tasks'[wtask[w]].recovered
  BY <1>2, RowSeenByWorker
<1> QED
  BY <1>1, <1>3 DEF WorkerConsistent, Working, InHand, SameTask, Saved, RowConsistent, Accounted, Current

\* A worker that executes nothing need only have a process, and the id it took.
LEMMA WorkerEmptyHanded ==
    ASSUME NEW w \in WorkerId, ~Working(w)',
           wpc'[w] # "unborn" => whome'[w] \in Proc,
           InHand(w)' => wtask'[w] \in TaskId
    PROVE  WorkerConsistent(w)'
  BY DEF WorkerConsistent, Working

\* Every step keeps what the workers remember consistent with the table.
LEMMA WorkersStep ==
    ASSUME IInv, [Next]_vars
    PROVE  WorkersConsistent'
<1>1. TypeOK /\ WorkersConsistent /\ TableStep
  BY TableSteps DEF IInv
<1>2. ASSUME UNCHANGED workerVars
      PROVE  WorkersConsistent'
  BY <1>1, <1>2, WorkerLeftAlone DEF WorkersConsistent, workerVars
<1>3. ASSUME NEW p \in Proc, ProcessStep(p)
      PROVE  WorkersConsistent'
  <2>1. CASE Recover(p) \/ RecoverError(p) \/ Close(p)
    BY <1>2, <2>1 DEF Recover, RecoverError, Close
  <2>2. CASE Launch(p)
    <3>1. PICK ws \in SUBSET {w \in WorkerId : wpc[w] = "unborn"} :
             /\ wpc' = [w \in WorkerId |-> IF w \in ws THEN "get" ELSE wpc[w]]
             /\ whome' = [w \in WorkerId |-> IF w \in ws THEN p ELSE whome[w]]
      BY <2>2 DEF Launch
    <3>2. UNCHANGED <<wtask, wcopy>>
      BY <2>2 DEF Launch
    <3>3. ASSUME NEW w \in WorkerId
          PROVE  WorkerConsistent(w)'
      <4>1. CASE w \in ws
        BY <3>1, <4>1, WorkerEmptyHanded DEF Working, InHand
      <4>2. CASE w \notin ws
        BY <1>1, <3>1, <3>2, <4>2, WorkerLeftAlone
      <4> QED
        BY <4>1, <4>2
    <3> QED
      BY <3>3 DEF WorkersConsistent
  <2>3. CASE Exit(p) \/ Crash(p)
    <3>1. PICK end \in {"gone", "lost"} : Vanish(p, end)
      BY <2>3 DEF Exit, Crash
    <3>2. ASSUME NEW w \in WorkerId
          PROVE  WorkerConsistent(w)'
      <4>1. CASE w \in Workers(p)
        <5>1. wpc'[w] = end /\ whome'[w] = p
          BY <3>1, <4>1 DEF Vanish, Workers
        <5> QED
          BY <3>1, <5>1, WorkerEmptyHanded DEF Working, InHand
      <4>2. CASE w \notin Workers(p)
        BY <1>1, <3>1, <4>2, WorkerLeftAlone DEF Vanish
      <4> QED
        BY <4>1, <4>2
    <3> QED
      BY <3>2 DEF WorkersConsistent
  <2> QED
    BY <1>3, <2>1, <2>2, <2>3 DEF ProcessStep
<1>4. ASSUME NEW w \in WorkerId, WorkerStep(w)
      PROVE  WorkersConsistent'
  <2> DEFINE t == wtask[w]
  <2>1. WorkerConsistent(w) /\ whome' = whome
    BY <1>1, <1>4 DEF WorkersConsistent, WorkerStep, Get, Claim, ClaimError, Ingest,
                      Save, SaveError, Requeue, LoopAgain
  <2>2. ASSUME NEW v \in WorkerId, v # w
        PROVE  WorkerConsistent(v)'
    <3>1. wpc'[v] = wpc[v] /\ wtask'[v] = wtask[v] /\ wcopy'[v] = wcopy[v] /\ whome'[v] = whome[v]
      BY <1>1, <1>4, <2>2 DEF TypeOK, WorkerStep, Get, Claim, ClaimError, Ingest,
                              Save, SaveError, Requeue, LoopAgain
    <3> QED
      BY <1>1, <3>1, WorkerLeftAlone
  <2>3. SUFFICES WorkerConsistent(w)'
    BY <2>2 DEF WorkersConsistent
  <2>4. ASSUME LoopAgain(w), wpc[w] # "unborn"
        PROVE  WorkerConsistent(w)'
    BY <1>1, <2>1, <2>4, WorkerEmptyHanded DEF LoopAgain, TypeOK, WorkerConsistent, Working, InHand
  <2>5. CASE Get(w)
    <3>1. whome[w] \in Proc
      BY <2>1, <2>5 DEF Get, WorkerConsistent
    <3>2. Head(queue[whome[w]]) \in TaskId \cup {Stop}
      BY <1>1, <2>5, <3>1 DEF Get, TypeOK
    <3>3. wpc'[w] = "gone" \/ (wpc'[w] = "claim" /\ wtask'[w] \in TaskId)
      <4> DEFINE item == Head(queue[whome[w]])
      <4>1. \/ item = Stop /\ wpc' = [wpc EXCEPT ![w] = "gone"]
            \/ /\ item # Stop
               /\ wpc' = [wpc EXCEPT ![w] = "claim"]
               /\ wtask' = [wtask EXCEPT ![w] = item]
        BY <2>5 DEF Get
      <4> HIDE DEF item
      <4>2. item \in TaskId \cup {Stop}
        BY <3>2 DEF item
      <4> QED
        BY <1>1, <4>1, <4>2 DEF TypeOK
    <3> QED
      BY <2>1, <3>1, <3>3, WorkerEmptyHanded DEF Working, InHand
  <2>6. CASE Claim(w)
    <3>1. CASE Claimable(tasks[t])
      <4>1. t \in TaskId /\ tasks[t] \in Row /\ RowConsistent(tasks[t])
        BY <1>1, <2>1, <2>6 DEF Claim, WorkerConsistent, InHand, IInv, TypeOK, RowsConsistent
      <4>2. /\ wpc'[w] = "ingest" /\ wtask'[w] = t
            /\ wcopy'[w] = Claimed(tasks[t], w)
            /\ tasks'[t] = Claimed(tasks[t], w)
        BY <1>1, <2>6, <3>1, <4>1 DEF Claim, TypeOK
      <4>3. /\ Claimed(tasks[t], w).status = "running"
            /\ Claimed(tasks[t], w).owner = w
            /\ Accounted(Claimed(tasks[t], w))
        BY <3>1, <4>1, ClaimedRow DEF RowConsistent
      <4>4. whome[w] \in Proc
        BY <2>1, <2>6 DEF Claim, WorkerConsistent
      <4> QED
        BY <2>1, <4>1, <4>2, <4>3, <4>4
        DEF WorkerConsistent, Working, InHand, SameTask, Accounted, Current
    <3>2. CASE ~Claimable(tasks[t])
      BY <2>4, <2>6, <3>2 DEF Claim
    <3> QED
      BY <3>1, <3>2
  <2>7. CASE ClaimError(w)
    BY <2>4, <2>7 DEF ClaimError
  <2>8. ASSUME NEW ok \in BOOLEAN, Ingest(w, ok)
        PROVE  WorkerConsistent(w)'
    <3> DEFINE out == Outcome(wcopy[w], ok)
    <3>1. /\ wpc[w] = "ingest" /\ wpc'[w] = "save"
          /\ wtask' = wtask /\ tasks' = tasks
          /\ wcopy'[w] = out
      BY <1>1, <2>8 DEF Ingest, TypeOK
    <3>2. /\ out \in Row
          /\ out.status \in {"queued"} \cup Terminal
          /\ RowConsistent(Saved(out))
          /\ out.status = "failed" => out.attempts = MaxAttempts
          /\ SameTask(out, wcopy[w])
      BY <1>1, <2>1, <3>1, OutcomeRow DEF WorkerConsistent, TypeOK
    <3> HIDE DEF out
    <3>3. SameTask(wcopy[w], tasks[t]) => SameTask(out, tasks[t])
      BY <3>2 DEF SameTask
    <3>4. /\ whome[w] \in Proc /\ t \in TaskId
          /\ \/ tasks[t].owner = w /\ SameTask(out, tasks[t])
             \/ tasks[t].owner # w /\ tasks[t].recovered
      BY <2>1, <3>1, <3>3 DEF WorkerConsistent, Working, InHand
    <3> QED
      BY <2>1, <3>1, <3>2, <3>4
      DEF WorkerConsistent, Working, InHand, SameTask, Saved, RowConsistent, Accounted, Current
  <2>9. CASE Save(w)
    <3>1. CASE wcopy[w].status = "queued"
      <4>1. wpc[w] = "save" /\ wpc'[w] = "requeue" /\ wtask'[w] = t
        BY <1>1, <2>9, <3>1 DEF Save, TypeOK
      <4> QED
        BY <2>1, <4>1, WorkerEmptyHanded DEF WorkerConsistent, Working, InHand
    <3>2. CASE wcopy[w].status # "queued"
      BY <2>4, <2>9, <3>2 DEF Save
    <3> QED
      BY <3>1, <3>2
  <2>10. CASE SaveError(w)
    BY <2>4, <2>10 DEF SaveError
  <2>11. CASE Requeue(w)
    BY <2>4, <2>11 DEF Requeue
  <2> QED
    BY <1>4, <2>5, <2>6, <2>7, <2>8, <2>9, <2>10, <2>11 DEF WorkerStep
<1>5. ASSUME NEW r \in TaskId, RequestStep(r)
      PROVE  WorkersConsistent'
  BY <1>2, <1>5 DEF RequestStep, Refuse, Submit, CreateOrGet, CreateError, Enqueue
<1>6. ASSUME NEW t \in TaskId, LeaseExpires(t)
      PROVE  WorkersConsistent'
  BY <1>2, <1>6 DEF LeaseExpires
<1>7. CASE Idle \/ UNCHANGED vars
  BY <1>2, <1>7 DEF Idle, vars
<1> QED
  BY <1>3, <1>4, <1>5, <1>6, <1>7 DEF Next

\* Requests.
LEMMA RequestsStep ==
    ASSUME IInv, [Next]_vars
    PROVE  RequestsConsistent'
<1>1. TypeOK /\ RequestsConsistent /\ TableStep
  BY TableSteps DEF IInv
<1>2. ASSUME NEW r \in TaskId, rpc'[r] \in {"new", "create"}, tasks[r].status = "absent"
      PROVE  tasks'[r].status = "absent"
  <2>1. RowConsistent(tasks[r]) /\ tasks[r] \in Row
    BY DEF IInv, TypeOK, RowsConsistent
  <2>2. tasks[r].owner = NoWorker /\ tasks[r].lease = "none"
    BY <1>2, <2>1 DEF RowConsistent, Row
  <2> QED
    BY <1>1, <1>2, <2>2 DEF TableStep, RowStep, Claimable, Abandoned
<1>3. ASSUME NEW r \in TaskId,
             \/ rpc'[r] = rpc[r] /\ rhome'[r] = rhome[r] /\ rtask'[r] = rtask[r]
             \/ rpc'[r] \in {"done", "refused", "failed"}
      PROVE  RequestConsistent(r)'
  BY <1>1, <1>2, <1>3 DEF RequestsConsistent, RequestConsistent
<1>4. ASSUME UNCHANGED requestVars
      PROVE  RequestsConsistent'
  BY <1>3, <1>4 DEF RequestsConsistent, requestVars
<1>5. ASSUME NEW p \in Proc, ProcessStep(p)
      PROVE  RequestsConsistent'
  <2>1. CASE UNCHANGED requestVars
    BY <1>4, <2>1
  <2>2. CASE Exit(p) \/ Crash(p)
    BY <1>3, <2>2 DEF Exit, Crash, Vanish, RequestsConsistent
  <2> QED
    BY <1>5, <2>1, <2>2 DEF ProcessStep, Recover, RecoverError, Launch, Close
<1>6. ASSUME NEW w \in WorkerId, WorkerStep(w)
      PROVE  RequestsConsistent'
  BY <1>4, <1>6 DEF WorkerStep, Get, Claim, ClaimError, Ingest, Save, SaveError, Requeue
<1>7. ASSUME NEW r \in TaskId, RequestStep(r)
      PROVE  RequestsConsistent'
  <2>1. ASSUME NEW q \in TaskId, q # r
        PROVE  RequestConsistent(q)'
    <3>1. rpc'[q] = rpc[q] /\ rhome'[q] = rhome[q] /\ rtask'[q] = rtask[q]
      BY <1>1, <1>7, <2>1 DEF TypeOK, RequestStep, Refuse, Submit, CreateOrGet, Answered,
                              CreateError, Enqueue
    <3> QED
      BY <1>3, <3>1
  <2>2. SUFFICES RequestConsistent(r)'
    BY <2>1 DEF RequestsConsistent
  <2>3. RequestConsistent(r)
    BY <1>1 DEF RequestsConsistent
  <2>4. CASE \E p \in Proc : Refuse(r, p)
    BY <1>1, <1>3, <2>4 DEF Refuse, TypeOK
  <2>5. ASSUME NEW p \in Proc, NEW k \in Key \cup {NoKey}, Submit(r, p, k)
        PROVE  RequestConsistent(r)'
    BY <1>1, <2>3, <2>5 DEF Submit, TypeOK, RequestConsistent
  <2>6. CASE CreateOrGet(r)
    <3>1. rhome' = rhome /\ rpc[r] = "create"
      BY <2>6 DEF CreateOrGet
    <3>2. rpc'[r] \in {"enqueue", "done"} /\ rtask'[r] \in TaskId
      BY <1>1, <2>6 DEF CreateOrGet, Answered, Existing, TypeOK
    <3> QED
      BY <2>3, <3>1, <3>2 DEF RequestConsistent
  <2>7. CASE CreateError(r)
    BY <1>1, <1>3, <2>7 DEF CreateError, TypeOK
  <2>8. CASE Enqueue(r)
    BY <1>1, <1>3, <2>8 DEF Enqueue, TypeOK
  <2> QED
    BY <1>7, <2>4, <2>5, <2>6, <2>7, <2>8 DEF RequestStep
<1>8. ASSUME NEW t \in TaskId, LeaseExpires(t)
      PROVE  RequestsConsistent'
  BY <1>4, <1>8 DEF LeaseExpires
<1>9. CASE Idle \/ UNCHANGED vars
  BY <1>4, <1>9 DEF Idle, vars
<1> QED
  BY <1>5, <1>6, <1>7, <1>8, <1>9 DEF Next

\* The service keeps its inductive invariant.
THEOREM Invariance == Spec => []IInv
<1>1. Init => IInv
  BY InitIInv
<1>2. IInv /\ [Next]_vars => IInv'
  <2> SUFFICES ASSUME IInv, [Next]_vars PROVE IInv'
    OBVIOUS
  <2>1. RowsConsistent'
    BY TableSteps, RowsKept DEF RowsConsistent
  <2> QED
    BY <2>1, TypeStep, WorkersStep, RequestsStep DEF IInv
<1> QED
  BY <1>1, <1>2, PTL DEF Spec

----------------------------------------------------------------------------
(* What follows from it.                                                    *)

\* Every variable has its type; in particular no task is retried, or attempted,
\* more often than it may be.
THEOREM TypeCorrect == Spec => []TypeOK
<1>1. IInv => TypeOK
  BY DEF IInv
<1> QED
  BY <1>1, Invariance, PTL

\* Every attempt of a task is in progress, was its last, was counted as a
\* retry, or was lost and marked as recovered.
THEOREM AttemptsAreAccounted == Spec => []AttemptsAccounted
<1>1. IInv => AttemptsAccounted
  BY DEF IInv, RowsConsistent, RowConsistent, AttemptsAccounted
<1> QED
  BY <1>1, Invariance, PTL

\* A save that takes effect leaves the same row under both adapters.
THEOREM AdaptersSaveAlike == Spec => []SaveAgreesAcrossAdapters
<1>1. ASSUME IInv, NEW w \in WorkerId, wpc[w] = "save", tasks[wtask[w]].owner = w
      PROVE  Saved(wcopy[w]) = MySQLSaved(tasks[wtask[w]], wcopy[w])
  <2> DEFINE row == tasks[wtask[w]]
             copy == wcopy[w]
             a == Saved(copy)
             b == MySQLSaved(row, copy)
  <2>1. /\ row \in Row /\ copy \in Row
        /\ SameTask(copy, row)
    BY <1>1 DEF IInv, TypeOK, WorkersConsistent, WorkerConsistent, Working, InHand
  <2> HIDE DEF row, copy
  <2>2. /\ a \in Row
        /\ a.status = copy.status /\ a.retries = copy.retries
        /\ a.owner = NoWorker /\ a.lease = "none"
        /\ a.result = copy.result /\ a.error = copy.error
        /\ SameTask(a, copy)
    BY <2>1 DEF Saved, Row, SameTask
  <2>3. /\ b \in Row
        /\ b.status = copy.status /\ b.retries = copy.retries
        /\ b.owner = NoWorker /\ b.lease = "none"
        /\ b.result = copy.result /\ b.error = copy.error
        /\ SameTask(b, row)
    BY <2>1 DEF MySQLSaved, Row, SameTask
  <2> HIDE DEF a, b
  <2>4. SameTask(a, b)
    BY <2>1, <2>2, <2>3 DEF SameTask
  <2>5. a = b
    BY <2>2, <2>3, <2>4, RowExtensional
  <2> QED
    BY <2>5 DEF a, b, row, copy
<1>2. IInv => SaveAgreesAcrossAdapters
  BY <1>1 DEF SaveAgreesAcrossAdapters
<1> QED
  BY <1>2, Invariance, PTL

\* Two workers are at work on one task only after a recovery.
THEOREM NoDoubleExecution == Spec => []ExecutedTwiceOnlyAfterRecovery
<1>1. IInv => ExecutedTwiceOnlyAfterRecovery
  <2> SUFFICES ASSUME IInv, NEW v \in WorkerId, NEW w \in WorkerId,
                      v # w, Working(v), Working(w), wtask[v] = wtask[w]
               PROVE  tasks[wtask[v]].recovered
    BY DEF ExecutedTwiceOnlyAfterRecovery
  <2>1. tasks[wtask[v]].owner = v \/ tasks[wtask[v]].recovered
    BY DEF IInv, WorkersConsistent, WorkerConsistent
  <2>2. tasks[wtask[w]].owner = w \/ tasks[wtask[w]].recovered
    BY DEF IInv, WorkersConsistent, WorkerConsistent
  <2> QED
    BY <2>1, <2>2
<1> QED
  BY <1>1, Invariance, PTL

\* A finished task never changes again.
THEOREM FinishedForGood == Spec => TerminalIsFinal
<1>1. ASSUME IInv, [Next]_vars, NEW t \in TaskId, tasks[t].status \in Terminal
      PROVE  tasks'[t] = tasks[t]
  <2>1. tasks[t] \in Row /\ RowConsistent(tasks[t])
    BY <1>1 DEF IInv, TypeOK, RowsConsistent
  <2>2. tasks[t].owner = NoWorker /\ tasks[t].lease = "none"
    BY <1>1, <2>1 DEF RowConsistent, Row, Terminal
  <2>3. RowStep(t)
    BY <1>1, TableSteps DEF TableStep
  <2> QED
    BY <1>1, <2>2, <2>3 DEF RowStep, Claimable, Abandoned, Terminal
<1>2. IInv /\ [Next]_vars =>
        [\A t \in TaskId : tasks[t].status \in Terminal => tasks'[t] = tasks[t]]_vars
  BY <1>1
<1> QED
  BY <1>2, Invariance, PTL DEF Spec, TerminalIsFinal

----------------------------------------------------------------------------
(* The service implements TaskLifecycle.                                    *)

\* A step recovers the table, or changes one row at most.
LEMMA OneRowOrRecovery ==
    ASSUME TypeOK, [Next]_vars
    PROVE  \/ tasks' = RecoverExpired(tasks)
           \/ UNCHANGED tasks
           \/ \E u \in TaskId : \A t \in TaskId \ {u} : tasks'[t] = tasks[t]
<1>1. tasks \in [TaskId -> Row]
  BY DEF TypeOK
<1>2. ASSUME NEW p \in Proc, ProcessStep(p)
      PROVE  tasks' = RecoverExpired(tasks) \/ UNCHANGED tasks
  BY <1>2 DEF ProcessStep, Recover, RecoverError, Launch, Close, Exit, Crash, Vanish
<1>3. ASSUME NEW w \in WorkerId, WorkerStep(w)
      PROVE  \/ UNCHANGED tasks
             \/ \E x : tasks' = [tasks EXCEPT ![wtask[w]] = x]
  <2>1. CASE Claim(w) \/ ClaimError(w)
    BY <2>1 DEF Claim, ClaimError
  <2>2. CASE Save(w) \/ SaveError(w)
    BY <2>2 DEF Save, SaveError, SaveTask
  <2> QED
    BY <1>3, <2>1, <2>2 DEF WorkerStep, Get, Ingest, Requeue
<1>4. ASSUME NEW r \in TaskId, RequestStep(r)
      PROVE  \/ UNCHANGED tasks
             \/ \E x : tasks' = [tasks EXCEPT ![r] = x]
  BY <1>4 DEF RequestStep, Refuse, Submit, CreateOrGet, CreateError, Enqueue
<1>5. ASSUME NEW t \in TaskId, LeaseExpires(t)
      PROVE  \E x : tasks' = [tasks EXCEPT ![t] = x]
  BY <1>5 DEF LeaseExpires
<1>6. ASSUME NEW u, \E x : tasks' = [tasks EXCEPT ![u] = x]
      PROVE  \A t \in TaskId \ {u} : tasks'[t] = tasks[t]
  BY <1>1, <1>6
<1>7. ASSUME NEW w \in WorkerId, WorkerStep(w)
      PROVE  \/ UNCHANGED tasks
             \/ \E u \in TaskId : \A t \in TaskId \ {u} : tasks'[t] = tasks[t]
  <2>1. CASE UNCHANGED tasks
    BY <2>1
  <2>2. CASE \E x : tasks' = [tasks EXCEPT ![wtask[w]] = x]
    <3>1. CASE wtask[w] \in TaskId
      BY <1>6, <2>2, <3>1
    <3>2. CASE wtask[w] \notin TaskId
      BY <1>1, <2>2, <3>2
    <3> QED
      BY <3>1, <3>2
  <2> QED
    BY <1>3, <1>7, <2>1, <2>2
<1>8. CASE Idle \/ UNCHANGED vars
  BY <1>8 DEF Idle, vars
<1> QED
  BY <1>2, <1>4, <1>5, <1>6, <1>7, <1>8 DEF Next

\* Each step of the service is a step of the lives of the tasks, or leaves them.
LEMMA LifecycleStep ==
    ASSUME IInv, [Next]_vars
    PROVE  [Lifecycle!Next]_(Lifecycle!vars)
<1> DEFINE status == [t \in TaskId |-> tasks[t].status]
           attempts == [t \in TaskId |-> tasks[t].attempts]
           back == {t \in TaskId : Abandoned(tasks[t])}
<1>1. /\ TypeOK /\ TableStep
      /\ \A t \in TaskId : tasks[t] \in Row /\ RowConsistent(tasks[t])
  BY TableSteps DEF IInv, TypeOK, RowsConsistent
<1>2. CASE UNCHANGED tasks
  BY <1>2 DEF Lifecycle!vars
<1>3. CASE tasks' = RecoverExpired(tasks)
  <2>1. \A t \in TaskId : tasks'[t] = IF t \in back THEN Requeued(tasks[t]) ELSE tasks[t]
    BY <1>3 DEF RecoverExpired
  <2>2. \A t \in back : /\ tasks[t].status = "running"
                      /\ tasks[t].attempts < MaxAttempts
                      /\ Requeued(tasks[t]).status = "queued"
                      /\ Requeued(tasks[t]).attempts = tasks[t].attempts
    BY <1>1, RequeuedRow DEF Abandoned
  <2>3. \A t \in TaskId : /\ tasks'[t].status = IF t \in back THEN "queued" ELSE tasks[t].status
                          /\ tasks'[t].attempts = tasks[t].attempts
    BY <2>1, <2>2
  <2>4. PICK given \in SUBSET TaskId : given = back
    OBVIOUS
  <2> HIDE DEF back
  <2>5. Lifecycle!GiveBack(given)
    BY <2>2, <2>3, <2>4 DEF Lifecycle!GiveBack
  <2> QED
    BY <2>5 DEF Lifecycle!Next
<1>4. ASSUME NEW u \in TaskId, \A t \in TaskId \ {u} : tasks'[t] = tasks[t]
      PROVE  [Lifecycle!Next]_(Lifecycle!vars)
  <2> DEFINE row == tasks[u]
             new == tasks'[u]
  <2>1. row \in Row /\ RowConsistent(row) /\ new \in Row /\ RowConsistent(new)
    BY <1>1, RowsKept
  <2>2. \A t \in TaskId : /\ status'[t] = IF t = u THEN new.status ELSE status[t]
                          /\ attempts'[t] = IF t = u THEN new.attempts ELSE attempts[t]
    BY <1>4
  <2>3. CASE new.status = row.status /\ new.attempts = row.attempts
    <3>1. status' = status /\ attempts' = attempts
      BY <2>2, <2>3
    <3> QED
      BY <3>1 DEF Lifecycle!vars
  <2>4. CASE row.status = "absent" /\ \E k \in Key \cup {NoKey} : new = Candidate(k)
    <3>1. row.attempts = 0 /\ new.status = "queued" /\ new.attempts = 0
      BY <2>1, <2>4 DEF Candidate, Absent, RowConsistent
    <3>2. /\ status[u] = "absent"
          /\ status' = [status EXCEPT ![u] = "queued"]
          /\ attempts' = attempts
      <4>1. status[u] = "absent" /\ attempts[u] = 0
        BY <2>4, <3>1
      <4>2. status' = [status EXCEPT ![u] = "queued"]
        BY <2>2, <3>1
      <4>3. \A t \in TaskId : attempts'[t] = attempts[t]
        BY <2>2, <3>1, <4>1
      <4> QED
        BY <4>1, <4>2, <4>3
    <3>3. Lifecycle!Create(u)
      BY <3>2 DEF Lifecycle!Create
    <3> QED
      BY <3>3 DEF Lifecycle!Next
  <2>5. CASE Claimable(row) /\ \E w \in WorkerId : new = Claimed(row, w)
    <3>1. /\ row.status = "queued" /\ row.attempts < MaxAttempts
          /\ new.status = "running" /\ new.attempts = row.attempts + 1
      BY <2>1, <2>5, ClaimedRow DEF Claimable
    <3>2. /\ status[u] = "queued" /\ attempts[u] < MaxAttempts
          /\ status' = [status EXCEPT ![u] = "running"]
          /\ attempts' = [attempts EXCEPT ![u] = @ + 1]
      BY <2>2, <3>1
    <3>3. Lifecycle!Begin(u)
      BY <3>2 DEF Lifecycle!Begin
    <3> QED
      BY <3>3 DEF Lifecycle!Next
  <2>6. CASE \E w \in WorkerId : /\ wpc[w] = "save" /\ wtask[w] = u
                                 /\ row.owner = w /\ new = Saved(wcopy[w])
    <3>1. PICK w \in WorkerId : /\ wpc[w] = "save" /\ wtask[w] = u
                                /\ row.owner = w /\ new = Saved(wcopy[w])
      BY <2>6
    <3>2. /\ wcopy[w] \in Row
          /\ wcopy[w].status \in {"queued"} \cup Terminal
          /\ wcopy[w].status = "failed" => wcopy[w].attempts = MaxAttempts
          /\ SameTask(wcopy[w], row)
      BY <3>1 DEF IInv, TypeOK, WorkersConsistent, WorkerConsistent, Working
    <3>3. /\ new.status \in {"queued"} \cup Terminal
          /\ new.attempts = row.attempts
          /\ new.status = "failed" => row.attempts = MaxAttempts
          /\ row.status = "running"
      BY <2>1, <3>1, <3>2, SavedRow DEF SameTask, RowConsistent
    <3>4. /\ status[u] = "running" /\ attempts' = attempts
          /\ status' = [status EXCEPT ![u] = new.status]
          /\ status' = [t \in TaskId |-> IF t \in {u} THEN new.status ELSE status[t]]
      BY <2>2, <3>3
    <3>5. CASE new.status = "queued"
      <4>1. row.attempts < MaxAttempts
        BY <2>1, <3>3, <3>5 DEF RowConsistent
      <4>2. Lifecycle!GiveBack({u})
        BY <3>4, <3>5, <4>1 DEF Lifecycle!GiveBack
      <4> QED
        BY <4>2 DEF Lifecycle!Next
    <3>6. CASE new.status \in Terminal
      <4>1. Lifecycle!Finish(u)
        BY <3>3, <3>4, <3>6 DEF Lifecycle!Finish, Terminal
      <4> QED
        BY <4>1 DEF Lifecycle!Next
    <3> QED
      BY <3>3, <3>5, <3>6
  <2>7. CASE Abandoned(row) /\ new = Requeued(row)
    <3>1. /\ row.status = "running" /\ row.attempts < MaxAttempts
          /\ new.status = "queued" /\ new.attempts = row.attempts
      BY <2>1, <2>7, RequeuedRow DEF Abandoned
    <3>2. /\ attempts' = attempts
          /\ status' = [t \in TaskId |-> IF t \in {u} THEN "queued" ELSE status[t]]
      BY <2>2, <3>1
    <3>3. Lifecycle!GiveBack({u})
      BY <3>1, <3>2 DEF Lifecycle!GiveBack
    <3> QED
      BY <3>3 DEF Lifecycle!Next
  <2>8. CASE row.lease = "live" /\ new = [row EXCEPT !.lease = "expired"]
    <3>1. new.status = row.status /\ new.attempts = row.attempts
      BY <2>1, <2>8 DEF Row
    <3> QED
      BY <2>3, <3>1
  <2> QED
    BY <1>1, <2>3, <2>4, <2>5, <2>6, <2>7, <2>8 DEF TableStep, RowStep
<1> QED
  BY <1>1, <1>2, <1>3, <1>4, OneRowOrRecovery

\* The service implements the life that TaskLifecycle promises each task.
THEOREM ServiceImplementsLifecycle == Spec => LifecycleSpec
<1>1. Init => Lifecycle!Init
  BY DEF Init, Lifecycle!Init, Absent
<1>2. IInv /\ [Next]_vars => [Lifecycle!Next]_(Lifecycle!vars)
  BY LifecycleStep
<1> QED
  BY <1>1, <1>2, Invariance, PTL DEF Spec, LifecycleSpec, Lifecycle!Spec
=============================================================================
