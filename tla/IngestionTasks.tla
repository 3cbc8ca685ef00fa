--------------------------- MODULE IngestionTasks ---------------------------
(***************************************************************************)
(* The ingestion task service (app/services/tasks.py, class TaskService) of *)
(* one or more API processes over one task table.                           *)
(*                                                                         *)
(* A process keeps an in-memory queue of task ids and a few workers.  A     *)
(* request stores a task and puts its id in the queue; a worker takes an id,*)
(* claims the row under a lease, ingests, saves the outcome and puts a task *)
(* that is to be retried back in the queue.  Closing sends one Stop (the    *)
(* None of the code) per worker.  A crash loses queue, workers and requests *)
(* and keeps the table; a start recovers it.                                *)
(*                                                                         *)
(* Each action is what one coroutine does between two suspension points, or *)
(* one critical section of the repository.  queue.put on the unbounded      *)
(* queue never suspends, so it is part of the step that reaches it.         *)
(***************************************************************************)
EXTENDS TaskRepository, Sequences, FiniteSets, SequencesExt

CONSTANTS
    Proc,         \* API processes that share the table
    WorkerCount,  \* workers each process starts
    Stop,         \* the None that tells a worker to exit
    NoTask,       \* no task in hand
    NoProc,       \* the process of a worker or request that does not exist yet
    MaxStarts,    \* bound: starts of each process; the last one never stops
    MaxErrors     \* bound: repository calls that raise

ASSUME TaskIdAssumption == IsFiniteSet(TaskId)
ASSUME StopAssumption == Stop \notin TaskId
ASSUME NoTaskAssumption == NoTask \notin TaskId
ASSUME NoProcAssumption == NoProc \notin Proc
ASSUME BoundsAssumption == MaxStarts \in Nat /\ MaxErrors \in Nat
\* Every worker of every start gets a fresh uuid.
ASSUME WorkerAssumption ==
    /\ WorkerCount \in Nat \ {0}
    /\ Cardinality(WorkerId) >= Cardinality(Proc) * WorkerCount * MaxStarts

VARIABLES
    tasks,    \* the table
    pstate,   \* the life of each process
    queue,    \* its self.queue
    pending,  \* what recovery returned to a process that is starting
    wpc,      \* where each worker stands
    whome,    \* the process it runs in
    wtask,    \* the task id it took from the queue
    wcopy,    \* its record of the claimed task
    rpc,      \* where each request stands; a request is named by the uuid it
              \* draws for its candidate task
    rhome,    \* the process that serves it
    rkey,     \* its idempotency key
    rtask,    \* the task it was answered with
    starts,   \* starts of each process so far
    errors    \* repository calls that have raised so far

procVars == <<pstate, queue, pending, starts>>
workerVars == <<wpc, whome, wtask, wcopy>>
requestVars == <<rpc, rhome, rkey, rtask>>
vars == <<tasks, procVars, workerVars, requestVars, errors>>

TypeOK ==
    /\ tasks \in [TaskId -> Row]
    /\ pstate \in [Proc -> {"down", "starting", "up", "closing"}]
    /\ queue \in [Proc -> Seq(TaskId \cup {Stop})]
    /\ pending \in [Proc -> SUBSET TaskId]
    /\ wpc \in [WorkerId ->
                 {"unborn", "get", "claim", "ingest", "save", "requeue", "gone", "lost"}]
    /\ whome \in [WorkerId -> Proc \cup {NoProc}]
    /\ wtask \in [WorkerId -> TaskId \cup {NoTask}]
    /\ wcopy \in [WorkerId -> Row]
    /\ rpc \in [TaskId ->
                 {"new", "create", "enqueue", "done", "refused", "failed"}]
    /\ rhome \in [TaskId -> Proc \cup {NoProc}]
    /\ rkey \in [TaskId -> Key \cup {NoKey}]
    /\ rtask \in [TaskId -> TaskId \cup {NoTask}]
    /\ starts \in [Proc -> 0 .. MaxStarts]
    /\ errors \in 0 .. MaxErrors

Init ==
    /\ tasks = [t \in TaskId |-> Absent]
    /\ pstate = [p \in Proc |-> "down"]
    /\ queue = [p \in Proc |-> <<>>]
    /\ pending = [p \in Proc |-> {}]
    /\ wpc = [w \in WorkerId |-> "unborn"]
    /\ whome = [w \in WorkerId |-> NoProc]
    /\ wtask = [w \in WorkerId |-> NoTask]
    /\ wcopy = [w \in WorkerId |-> Absent]
    /\ rpc = [r \in TaskId |-> "new"]
    /\ rhome = [r \in TaskId |-> NoProc]
    /\ rkey = [r \in TaskId |-> NoKey]
    /\ rtask = [r \in TaskId |-> NoTask]
    /\ starts = [p \in Proc |-> 0]
    /\ errors = 0

Workers(p) == {w \in WorkerId : wpc[w] \notin {"unborn", "gone", "lost"} /\ whome[w] = p}

RepositoryRaises == errors < MaxErrors /\ errors' = errors + 1

Put(p, item) == queue' = [queue EXCEPT ![p] = Append(@, item)]

----------------------------------------------------------------------------
(* TaskService.start.                                                       *)

\* Mutant: recovery returns only what it gave back, not all that is queued.
RecoverOnlyAbandoned(p) ==
    /\ pstate[p] = "down"
    /\ starts[p] < MaxStarts
    /\ tasks' = RecoverExpired(tasks)
    /\ pending' = [pending EXCEPT ![p] = {t \in TaskId : Abandoned(tasks[t])}]
    /\ pstate' = [pstate EXCEPT ![p] = "starting"]
    /\ starts' = [starts EXCEPT ![p] = @ + 1]
    /\ UNCHANGED <<queue, workerVars, requestVars, errors>>

\* recover_expired_tasks gives abandoned tasks back and returns every queued
\* task of the table, not only those of this process.
Recover(p) ==
    /\ pstate[p] = "down"
    /\ starts[p] < MaxStarts
    /\ tasks' = RecoverExpired(tasks)
    /\ pending' = [pending EXCEPT ![p] = Queued(tasks')]
    /\ pstate' = [pstate EXCEPT ![p] = "starting"]
    /\ starts' = [starts EXCEPT ![p] = @ + 1]
    /\ UNCHANGED <<queue, workerVars, requestVars, errors>>

\* It raises, before or after the table changed: startup fails.
RecoverError(p) ==
    /\ pstate[p] = "down"
    /\ starts[p] < MaxStarts
    /\ RepositoryRaises
    /\ tasks' \in {tasks, RecoverExpired(tasks)}
    /\ UNCHANGED <<procVars, workerVars, requestVars>>

\* The rest of start: fill the queue, in the order of the rows, and create the
\* workers, each with a worker id never used before.
Launch(p) ==
    /\ pstate[p] = "starting"
    /\ pstate' = [pstate EXCEPT ![p] = "up"]
    /\ \E order \in SetToSeqs(pending[p]) : queue' = [queue EXCEPT ![p] = order]
    /\ pending' = [pending EXCEPT ![p] = {}]
    /\ \E ws \in SUBSET {w \in WorkerId : wpc[w] = "unborn"} :
          /\ Cardinality(ws) = WorkerCount
          /\ wpc' = [w \in WorkerId |-> IF w \in ws THEN "get" ELSE wpc[w]]
          /\ whome' = [w \in WorkerId |-> IF w \in ws THEN p ELSE whome[w]]
    /\ UNCHANGED <<tasks, wtask, wcopy, requestVars, starts, errors>>

----------------------------------------------------------------------------
(* TaskService.create_task.                                                 *)

\* The check of self.closing, and the candidate record.
Submit(r, p, k) ==
    /\ rpc[r] = "new"
    /\ pstate[p] = "up"
    /\ rpc' = [rpc EXCEPT ![r] = "create"]
    /\ rhome' = [rhome EXCEPT ![r] = p]
    /\ rkey' = [rkey EXCEPT ![r] = k]
    /\ UNCHANGED <<tasks, procVars, workerVars, rtask, errors>>

Refuse(r, p) ==
    /\ rpc[r] = "new"
    /\ pstate[p] = "closing"
    /\ rpc' = [rpc EXCEPT ![r] = "refused"]
    /\ UNCHANGED <<tasks, procVars, workerVars, rhome, rkey, rtask, errors>>

\* Mutant: only the request that created the task enqueues it.
AnsweredOnlyIfCreated(r, t, row) ==
    /\ rtask' = [rtask EXCEPT ![r] = t]
    /\ rpc' = [rpc EXCEPT ![r] = IF t = r THEN "enqueue" ELSE "done"]

\* After create_or_get_task the request enqueues when it created the task, or
\* when the row it was handed reads "queued".
Answered(r, t, row) ==
    /\ rtask' = [rtask EXCEPT ![r] = t]
    /\ rpc' = [rpc EXCEPT ![r] = IF row.status = "queued" THEN "enqueue" ELSE "done"]

CreateOrGet(r) ==
    /\ rpc[r] = "create"
    /\ LET k == rkey[r] IN
       \/ /\ Existing(tasks, k) = {}
          /\ tasks' = [tasks EXCEPT ![r] = Candidate(k)]
          /\ Answered(r, r, Candidate(k))
       \/ \E t \in Existing(tasks, k) :
             /\ Answered(r, t, tasks[t])
             /\ UNCHANGED tasks
    /\ UNCHANGED <<procVars, workerVars, rhome, rkey, errors>>

\* The call raises; a new row may have been committed before it did.
CreateError(r) ==
    /\ rpc[r] = "create"
    /\ RepositoryRaises
    /\ rpc' = [rpc EXCEPT ![r] = "failed"]
    /\ \/ UNCHANGED tasks
       \/ /\ Existing(tasks, rkey[r]) = {}
          /\ tasks' = [tasks EXCEPT ![r] = Candidate(rkey[r])]
    /\ UNCHANGED <<procVars, workerVars, rhome, rkey, rtask>>

\* The request goes on without looking at self.closing again.
Enqueue(r) ==
    /\ rpc[r] = "enqueue"
    /\ Put(rhome[r], rtask[r])
    /\ rpc' = [rpc EXCEPT ![r] = "done"]
    /\ UNCHANGED <<tasks, pstate, pending, starts, workerVars, rhome, rkey, rtask, errors>>

----------------------------------------------------------------------------
(* TaskService._worker and _execute.                                        *)

\* Back to the top of the worker's loop.
LoopAgain(w) ==
    /\ wpc' = [wpc EXCEPT ![w] = "get"]
    /\ wtask' = [wtask EXCEPT ![w] = NoTask]
    /\ wcopy' = [wcopy EXCEPT ![w] = Absent]
    /\ UNCHANGED whome

Get(w) ==
    /\ wpc[w] = "get"
    /\ queue[whome[w]] # <<>>
    /\ queue' = [queue EXCEPT ![whome[w]] = Tail(@)]
    /\ LET item == Head(queue[whome[w]]) IN
       \/ /\ item = Stop
          /\ wpc' = [wpc EXCEPT ![w] = "gone"]
          /\ UNCHANGED wtask
       \/ /\ item # Stop
          /\ wpc' = [wpc EXCEPT ![w] = "claim"]
          /\ wtask' = [wtask EXCEPT ![w] = item]
    /\ UNCHANGED <<tasks, pstate, pending, starts, whome, wcopy, requestVars, errors>>

Claim(w) ==
    /\ wpc[w] = "claim"
    /\ LET t == wtask[w] IN
       \/ /\ Claimable(tasks[t])
          /\ tasks' = [tasks EXCEPT ![t] = Claimed(@, w)]
          /\ wcopy' = [wcopy EXCEPT ![w] = Claimed(tasks[t], w)]
          /\ wpc' = [wpc EXCEPT ![w] = "ingest"]
          /\ UNCHANGED <<whome, wtask>>
       \/ /\ ~Claimable(tasks[t])
          /\ LoopAgain(w)
          /\ UNCHANGED tasks
    /\ UNCHANGED <<procVars, requestVars, errors>>

\* The claim raises, committed or not.  The worker logs and goes on; the id it
\* took from the queue is lost.
ClaimError(w) ==
    /\ wpc[w] = "claim"
    /\ RepositoryRaises
    /\ \/ UNCHANGED tasks
       \/ /\ Claimable(tasks[wtask[w]])
          /\ tasks' = [tasks EXCEPT ![wtask[w]] = Claimed(@, w)]
    /\ LoopAgain(w)
    /\ UNCHANGED <<procVars, requestVars>>

\* The record after ingestion succeeded, or failed with an exception.
Outcome(copy, ok) ==
    IF ok
    THEN [copy EXCEPT !.status = "succeeded", !.result = TRUE, !.error = FALSE]
    ELSE IF copy.attempts < MaxAttempts
    THEN [copy EXCEPT !.status = "queued", !.error = TRUE, !.retries = @ + 1]
    ELSE [copy EXCEPT !.status = "failed", !.error = TRUE]

Ingest(w, ok) ==
    /\ wpc[w] = "ingest"
    /\ wcopy' = [wcopy EXCEPT ![w] = Outcome(@, ok)]
    /\ wpc' = [wpc EXCEPT ![w] = "save"]
    /\ UNCHANGED <<tasks, procVars, whome, wtask, requestVars, errors>>

\* A worker that lost the task to a recovery saves nothing, is not told, and
\* goes on as if it had.
Save(w) ==
    /\ wpc[w] = "save"
    /\ tasks' = SaveTask(tasks, wtask[w], wcopy[w], w)
    /\ \/ /\ wcopy[w].status = "queued"
          /\ wpc' = [wpc EXCEPT ![w] = "requeue"]
          /\ UNCHANGED <<whome, wtask, wcopy>>
       \/ /\ wcopy[w].status # "queued"
          /\ LoopAgain(w)
    /\ UNCHANGED <<procVars, requestVars, errors>>

\* The save raises, committed or not; a retry is then never enqueued.
SaveError(w) ==
    /\ wpc[w] = "save"
    /\ RepositoryRaises
    /\ tasks' \in {tasks, SaveTask(tasks, wtask[w], wcopy[w], w)}
    /\ LoopAgain(w)
    /\ UNCHANGED <<procVars, requestVars>>

\* Mutant: a retry is saved and never enqueued.
RequeueForgotten(w) ==
    /\ wpc[w] = "requeue"
    /\ LoopAgain(w)
    /\ UNCHANGED <<tasks, procVars, requestVars, errors>>

\* A retry goes behind what is queued, unless the service is closing.
Requeue(w) ==
    /\ wpc[w] = "requeue"
    /\ IF pstate[whome[w]] = "closing"
       THEN UNCHANGED queue
       ELSE Put(whome[w], wtask[w])
    /\ LoopAgain(w)
    /\ UNCHANGED <<tasks, pstate, pending, starts, requestVars, errors>>

----------------------------------------------------------------------------
(* TaskService.close, crashes, and time.                                    *)

\* Mutant: one Stop for all workers.
CloseWithOneStop(p) ==
    /\ pstate[p] = "up"
    /\ starts[p] < MaxStarts
    /\ pstate' = [pstate EXCEPT ![p] = "closing"]
    /\ Put(p, Stop)
    /\ UNCHANGED <<tasks, pending, starts, workerVars, requestVars, errors>>

\* One Stop for every worker, behind the ids that are queued.
Close(p) ==
    /\ pstate[p] = "up"
    /\ starts[p] < MaxStarts
    /\ pstate' = [pstate EXCEPT ![p] = "closing"]
    /\ queue' = [queue EXCEPT ![p] = @ \o [i \in 1 .. WorkerCount |-> Stop]]
    /\ UNCHANGED <<tasks, pending, starts, workerVars, requestVars, errors>>

\* The process ends: what it held in memory is lost, its requests too.
Vanish(p, end) ==
    /\ pstate' = [pstate EXCEPT ![p] = "down"]
    /\ queue' = [queue EXCEPT ![p] = <<>>]
    /\ pending' = [pending EXCEPT ![p] = {}]
    /\ wpc' = [w \in WorkerId |-> IF w \in Workers(p) THEN end ELSE wpc[w]]
    /\ wtask' = [w \in WorkerId |-> IF w \in Workers(p) THEN NoTask ELSE wtask[w]]
    /\ wcopy' = [w \in WorkerId |-> IF w \in Workers(p) THEN Absent ELSE wcopy[w]]
    /\ rpc' = [r \in TaskId |->
                 IF rhome[r] = p /\ rpc[r] \in {"create", "enqueue"}
                 THEN "failed" ELSE rpc[r]]
    /\ UNCHANGED <<tasks, starts, whome, rhome, rkey, rtask, errors>>

\* Mutant: close does not wait for the workers.
ExitAtOnce(p) == pstate[p] = "closing" /\ Vanish(p, "gone")

\* close returns once every worker has finished; then the process exits.
Exit(p) ==
    /\ pstate[p] = "closing"
    /\ Workers(p) = {}
    /\ Vanish(p, "gone")

Crash(p) ==
    /\ pstate[p] # "down"
    /\ starts[p] < MaxStarts
    /\ Vanish(p, "lost")

LeaseExpires(t) ==
    /\ tasks[t].lease = "live"
    /\ tasks' = [tasks EXCEPT ![t].lease = "expired"]
    /\ UNCHANGED <<procVars, workerVars, requestVars, errors>>

\* A service with nothing to do waits: not a deadlock.
Idle ==
    /\ \A p \in Proc : pstate[p] = "up" /\ queue[p] = <<>>
    /\ \A w \in WorkerId : wpc[w] \in {"unborn", "get", "gone", "lost"}
    /\ \A r \in TaskId : rpc[r] \in {"done", "refused", "failed"}
    /\ UNCHANGED vars

----------------------------------------------------------------------------
ProcessStep(p) ==
    Recover(p) \/ RecoverError(p) \/ Launch(p) \/ Close(p) \/ Exit(p) \/ Crash(p)

WorkerStep(w) ==
    \/ Get(w) \/ Claim(w) \/ ClaimError(w)
    \/ \E ok \in BOOLEAN : Ingest(w, ok)
    \/ Save(w) \/ SaveError(w) \/ Requeue(w)

RequestStep(r) ==
    \/ \E p \in Proc : Refuse(r, p) \/ \E k \in Key \cup {NoKey} : Submit(r, p, k)
    \/ CreateOrGet(r) \/ CreateError(r) \/ Enqueue(r)

Next ==
    \/ \E p \in Proc : ProcessStep(p)
    \/ \E w \in WorkerId : WorkerStep(w)
    \/ \E r \in TaskId : RequestStep(r)
    \/ \E t \in TaskId : LeaseExpires(t)
    \/ Idle

Spec == Init /\ [][Next]_vars

(***************************************************************************)
(* The event loop runs every coroutine that is ready, in order, and every   *)
(* repository call answers: each worker and each admitted request goes on.  *)
(* A stopped process is started again (the restart policy of                *)
(* docker-compose, or an operator).  Nothing makes a client submit, a       *)
(* process stop, or a lease expire.                                         *)
(***************************************************************************)
Fairness ==
    /\ \A p \in Proc : WF_vars(Recover(p)) /\ WF_vars(Launch(p)) /\ WF_vars(Exit(p))
    /\ \A w \in WorkerId :
          WF_vars(Get(w) \/ Claim(w) \/ (\E ok \in BOOLEAN : Ingest(w, ok))
                  \/ Save(w) \/ Requeue(w))
    /\ \A r \in TaskId : WF_vars(CreateOrGet(r) \/ Enqueue(r))

FairSpec == Spec /\ Fairness

----------------------------------------------------------------------------
(* What makes the service correct.                                          *)

Working(w) == wpc[w] \in {"ingest", "save"}

(***************************************************************************)
(* The attempts of a task are accounted for: each one is in progress, ended *)
(* the task, was counted as a retry, or was lost with its process; and the  *)
(* API reports recoveredAfterRestart exactly when one was lost.             *)
(* (attempts, retry_count, recovered_after_restart of TaskRecord)           *)
(***************************************************************************)
Current(row) == IF row.status \in {"running"} \cup Terminal THEN 1 ELSE 0

Accounted(row) ==
    /\ row.retries + Current(row) <= row.attempts
    /\ row.recovered <=> row.retries + Current(row) < row.attempts

AttemptsAccounted == \A t \in TaskId : Accounted(tasks[t])

(***************************************************************************)
(* Whenever a worker's save takes effect, replacing the row (JSON) and      *)
(* updating its columns (MySQL) leave the same row: no column the worker    *)
(* did not touch has moved since it claimed.                                *)
(***************************************************************************)
SaveAgreesAcrossAdapters ==
    \A w \in WorkerId :
        wpc[w] = "save" /\ tasks[wtask[w]].owner = w =>
            Saved(wcopy[w]) = MySQLSaved(tasks[wtask[w]], wcopy[w])

(***************************************************************************)
(* Two workers ingest one task at the same time only if a restart gave the  *)
(* task back while the first was still at work (an expired lease in another *)
(* process).                                                                *)
(***************************************************************************)
ExecutedTwiceOnlyAfterRecovery ==
    \A v, w \in WorkerId :
        v # w /\ Working(v) /\ Working(w) /\ wtask[v] = wtask[w] =>
            tasks[wtask[v]].recovered

(***************************************************************************)
(* A finished task stays as it is: no late worker, second request, or       *)
(* restart changes its row.                                                 *)
(***************************************************************************)
TerminalIsFinal ==
    [][\A t \in TaskId : tasks[t].status \in Terminal => tasks'[t] = tasks[t]]_vars

(***************************************************************************)
(* Somebody always knows of a queued task.  In a process that shares the    *)
(* table with nobody, unless a repository call raised, its id is in the     *)
(* queue or on its way into it; and a starting process has recovered it.    *)
(***************************************************************************)
Awake(t, p) ==
    \/ t \in ToSet(queue[p])
    \/ \E w \in Workers(p) : wpc[w] \in {"claim", "requeue"} /\ wtask[w] = t
    \/ \E r \in TaskId : rpc[r] = "enqueue" /\ rhome[r] = p /\ rtask[r] = t

QueuedTaskIsAwake ==
    \A t \in Queued(tasks), p \in Proc :
        Proc = {p} =>
            /\ pstate[p] = "starting" => t \in pending[p]
            /\ pstate[p] = "up" /\ errors = 0 => Awake(t, p)

(***************************************************************************)
(* close waits for the work in progress: unless a repository call raised, a *)
(* worker that returned, or whose process exited after close, has left no   *)
(* task running in its name.                                                *)
(***************************************************************************)
ExitLeavesNothingRunning ==
    errors = 0 =>
        \A t \in TaskId, w \in WorkerId :
            wpc[w] = "gone" => tasks[t].owner # w

(***************************************************************************)
(* A request that was answered with a queued task leaves it awake: a client *)
(* that resubmits its key after an error gets the task executed.            *)
(***************************************************************************)
AnswerWakesQueuedTask ==
    [][\A r \in TaskId :
          /\ rpc[r] # "done" /\ rpc'[r] = "done"
          /\ tasks[rtask'[r]].status = "queued"
          => Awake(rtask[r], rhome[r])']_vars

(***************************************************************************)
(* Why these hold: the inductive invariant of the proofs.                   *)
(***************************************************************************)

\* A row is owned under a lease exactly while it is running, and a queued task
\* has an attempt left.
RowConsistent(row) ==
    /\ row.status = "running" <=> row.owner # NoWorker
    /\ row.status = "running" <=> row.lease # "none"
    /\ row.status = "queued" => row.attempts < MaxAttempts
    /\ row.status = "absent" => row.attempts = 0
    /\ Accounted(row)

RowsConsistent == \A t \in TaskId : RowConsistent(tasks[t])

\* A request that has not reached the repository has no row; one that is about
\* to enqueue has a task and a queue to put it in.
RequestConsistent(r) ==
    /\ rpc[r] \in {"new", "create"} => tasks[r].status = "absent"
    /\ rpc[r] \in {"create", "enqueue"} => rhome[r] \in Proc
    /\ rpc[r] = "enqueue" => rtask[r] \in TaskId

RequestsConsistent == \A r \in TaskId : RequestConsistent(r)

InHand(w) == wpc[w] \in {"claim", "ingest", "save", "requeue"}

\* The columns a worker never changes.
SameTask(copy, row) ==
    /\ copy.key = row.key
    /\ copy.attempts = row.attempts
    /\ copy.recovered = row.recovered

\* A worker holds a record of a running task, then one that saves to a
\* consistent row.  While it owns the row, the columns it does not touch are
\* those of its record; if it does not, it lost the task to a recovery.
WorkerConsistent(w) ==
    /\ wpc[w] # "unborn" => whome[w] \in Proc
    /\ InHand(w) => wtask[w] \in TaskId
    /\ wpc[w] = "ingest" => wcopy[w].status = "running" /\ Accounted(wcopy[w])
    /\ wpc[w] = "save" => /\ wcopy[w].status \in {"queued"} \cup Terminal
                          /\ RowConsistent(Saved(wcopy[w]))
                          /\ wcopy[w].status = "failed" => wcopy[w].attempts = MaxAttempts
    /\ Working(w) => \/ /\ tasks[wtask[w]].owner = w
                        /\ SameTask(wcopy[w], tasks[wtask[w]])
                     \/ /\ tasks[wtask[w]].owner # w
                        /\ tasks[wtask[w]].recovered

WorkersConsistent == \A w \in WorkerId : WorkerConsistent(w)

IInv == TypeOK /\ RowsConsistent /\ RequestsConsistent /\ WorkersConsistent

\* Why nobody who left owns a row: an owner works on its row, or was lost at it.
OwnersAtWork ==
    errors = 0 =>
        \A t \in TaskId, w \in WorkerId :
            tasks[t].owner = w => wpc[w] = "lost" \/ (Working(w) /\ wtask[w] = t)

\* Why a starting process misses nothing: before it is up it has no worker that
\* could give a task back and no request that could store one.
NobodyHome(p) ==
    /\ Workers(p) = {}
    /\ \A r \in TaskId : rhome[r] = p => rpc[r] \notin {"create", "enqueue"}

EmptyUntilUp == \A p \in Proc : pstate[p] \in {"down", "starting"} => NobodyHome(p)

AwakeIInv == IInv /\ OwnersAtWork /\ EmptyUntilUp /\ QueuedTaskIsAwake

\* The life of each task as TaskLifecycle has it.
Lifecycle == INSTANCE TaskLifecycle
    WITH status <- [t \in TaskId |-> tasks[t].status],
         attempts <- [t \in TaskId |-> tasks[t].attempts]

\* The service implements the life it promises for each task.
LifecycleSpec == Lifecycle!Spec

\* Every task that was stored is executed until it succeeds or has failed for
\* good, however often its process stops, unless a crash takes the worker that
\* is at it; and if a restart gives it back, the same holds again.
TaskFinishes ==
    \A t \in TaskId :
        tasks[t].status = "queued" ~>
            \/ tasks[t].status \in Terminal
            \/ tasks[t].status = "running" /\ wpc[tasks[t].owner] = "lost"

\* However often the only process stops, a queued task is executed in the end
\* (its attempt may then be lost: see AbandonedRecoveredBeforeWork).
QueuedTaskIsClaimed ==
    \A t \in TaskId : tasks[t].status = "queued" ~> tasks[t].status # "queued"

\* close terminates: every worker finds a Stop, whatever is queued before it.
CloseTerminates ==
    \A p \in Proc : pstate[p] = "closing" ~> pstate[p] = "down"

----------------------------------------------------------------------------
(* What the documents say and the code does not do.                         *)

\* docs/TROUBLESHOOTING.md:30: a restart after the lease has expired takes the
\* task back.
RestartRecoversExpired ==
    [][\A p \in Proc, t \in TaskId :
          Recover(p) /\ tasks[t].status = "running" /\ tasks[t].lease = "expired"
          => tasks'[t].status = "queued"]_vars

\* app/services/tasks.py:41, "Recover abandoned tasks before accepting new
\* work": when the only process accepts requests, no task that could be tried
\* again is running in the name of a worker that a crash took.
AbandonedRecoveredBeforeWork ==
    \A p \in Proc, t \in TaskId :
        /\ Proc = {p} /\ pstate[p] = "up"
        /\ tasks[t].status = "running" /\ tasks[t].attempts < MaxAttempts
        => wpc[tasks[t].owner] # "lost"
=============================================================================
