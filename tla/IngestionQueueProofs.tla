------------------------- MODULE IngestionQueueProofs -------------------------
(***************************************************************************)
(* Proofs about what the memory of a process knows of the table: a process  *)
(* that shares the table with nobody always knows of its queued tasks, an   *)
(* answer to a request wakes the task, and a worker that left after a close *)
(* owns nothing.  AwakeIInv is inductive; IngestionTasksProofs has the part *)
(* of it that is about rows, workers and requests on their own.             *)
(***************************************************************************)
EXTENDS IngestionTasksProofs, SequenceTheorems

USE NoKeyAssumption, NoWorkerAssumption, MaxAttemptsAssumption, TaskIdAssumption,
    StopAssumption, NoTaskAssumption, NoProcAssumption, BoundsAssumption

----------------------------------------------------------------------------
(* Queues.                                                                  *)

\* What put adds to a queue.
LEMMA PutItem ==
    ASSUME NEW S, NEW s \in Seq(S), NEW x \in S
    PROVE  /\ Append(s, x) \in Seq(S)
           /\ x \in ToSet(Append(s, x)) /\ ToSet(s) \subseteq ToSet(Append(s, x))
<1> DEFINE new == Append(s, x)
<1>1. /\ new \in Seq(S) /\ DOMAIN s = 1 .. Len(s) /\ DOMAIN new = 1 .. Len(s) + 1
      /\ Len(s) \in Nat /\ new[Len(s) + 1] = x /\ \A i \in 1 .. Len(s) : new[i] = s[i]
  BY AppendProperties, LenProperties
<1> HIDE DEF new
<1>2. Len(s) + 1 \in DOMAIN new /\ \A i \in DOMAIN s : i \in DOMAIN new
  BY <1>1
<1>3. x \in ToSet(new) /\ ToSet(s) \subseteq ToSet(new)
  BY <1>1, <1>2 DEF ToSet
<1> QED
  BY <1>1, <1>3 DEF new

\* What get takes from a queue, and what it leaves there.
LEMMA TakenItem ==
    ASSUME NEW S, NEW s \in Seq(S), s # <<>>, NEW x \in ToSet(s), x # Head(s)
    PROVE  x \in ToSet(Tail(s))
<1>1. PICK i \in 1 .. Len(s) : s[i] = x
  BY DEF ToSet
<1>2. i # 1 /\ i - 1 \in DOMAIN Tail(s) /\ Tail(s)[i - 1] = s[i]
  BY <1>1, HeadTailProperties
<1> QED
  BY <1>1, <1>2 DEF ToSet

\* The queue a start fills holds every recovered task.
LEMMA FilledQueue ==
    ASSUME NEW S, IsFiniteSet(S), NEW order \in SetToSeqs(S)
    PROVE  ToSet(order) = S
<1> DEFINE D == 1 .. Cardinality(S)
<1>1. order \in Injection(D, S)
  BY DEF SetToSeqs, Injection, IsInjective
<1>2. Cardinality(S) \in Nat /\ IsFiniteSet(D) /\ Cardinality(D) = Cardinality(S)
  BY FS_CardinalityType, FS_Interval
<1>3. order \in Surjection(D, S)
  BY <1>1, <1>2, FS_Injection
<1> QED
  BY <1>3 DEF Surjection, ToSet

----------------------------------------------------------------------------
(* Workers and the rows they own.                                           *)

\* A step of the process keeps every owner at work, or counts it as lost.
LEMMA OwnersProcessStep ==
    ASSUME IInv, OwnersAtWork, NEW p \in Proc, ProcessStep(p)
    PROVE  OwnersAtWork'
<1>1. tasks \in [TaskId -> Row] /\ errors \in Nat
  BY DEF IInv, TypeOK
<1> SUFFICES ASSUME errors' = 0, NEW t \in TaskId, NEW w \in WorkerId, tasks'[t].owner = w
             PROVE  wpc'[w] = "lost" \/ (Working(w)' /\ wtask'[w] = t)
  BY DEF OwnersAtWork
<1>2. errors = 0 /\ tasks'[t].owner \in {tasks[t].owner, NoWorker}
  <2>1. errors' \in {errors, errors + 1} /\ tasks' \in {tasks, RecoverExpired(tasks)}
    BY DEF ProcessStep, Recover, RecoverError, Launch, Close, Exit, Crash, Vanish, RepositoryRaises
  <2>2. RecoverExpired(tasks)[t].owner \in {tasks[t].owner, NoWorker}
    BY <1>1 DEF RecoverExpired, Requeued, Row
  <2> QED
    BY <1>1, <2>1, <2>2
<1>3. tasks[t].owner = w
  BY <1>2
<1>4. wpc[w] = "lost" \/ (Working(w) /\ wtask[w] = t)
  BY <1>2, <1>3 DEF OwnersAtWork
<1>5. CASE Exit(p) \/ Crash(p)
  BY <1>4, <1>5 DEF Exit, Crash, Vanish, Working
<1>6. CASE Recover(p) \/ RecoverError(p) \/ Launch(p) \/ Close(p)
  BY <1>4, <1>6 DEF Recover, RecoverError, Launch, Close, Working, workerVars
<1> QED
  BY <1>5, <1>6 DEF ProcessStep

\* A worker owns a row from its claim to its save.
LEMMA OwnersWorkerStep ==
    ASSUME IInv, OwnersAtWork, NEW v \in WorkerId, WorkerStep(v)
    PROVE  OwnersAtWork'
<1>1. /\ tasks \in [TaskId -> Row] /\ errors \in Nat
      /\ DOMAIN wpc = WorkerId /\ DOMAIN wtask = WorkerId
      /\ wpc[v] \in {"claim", "save"} => wtask[v] \in TaskId /\ wcopy[v] \in Row
  BY DEF IInv, TypeOK, WorkersConsistent, WorkerConsistent, InHand
<1> SUFFICES ASSUME errors' = 0, NEW t \in TaskId, NEW w \in WorkerId, tasks'[t].owner = w
             PROVE  wpc'[w] = "lost" \/ (Working(w)' /\ wtask'[w] = t)
  BY DEF OwnersAtWork
<1>2. errors = 0 /\ ~ClaimError(v) /\ ~SaveError(v)
  BY <1>1 DEF WorkerStep, Get, Claim, ClaimError, Ingest, Save, SaveError, Requeue, RepositoryRaises
<1>3. tasks[t].owner = w => wpc[w] = "lost" \/ (Working(w) /\ wtask[w] = t)
  BY <1>2 DEF OwnersAtWork
<1>4. CASE Get(v)
  BY <1>1, <1>3, <1>4 DEF Get, Working
<1>5. CASE \E ok \in BOOLEAN : Ingest(v, ok)
  BY <1>1, <1>3, <1>5 DEF Ingest, Working
<1>6. CASE Requeue(v)
  BY <1>1, <1>3, <1>6 DEF Requeue, LoopAgain, Working
<1>7. CASE Claim(v)
  <2>1. CASE UNCHANGED tasks
    BY <1>1, <1>3, <1>7, <2>1 DEF Claim, LoopAgain, Working
  <2>2. CASE ~UNCHANGED tasks
    <3>1. /\ Claimable(tasks[wtask[v]])
          /\ tasks' = [tasks EXCEPT ![wtask[v]] = Claimed(tasks[wtask[v]], v)]
          /\ wpc' = [wpc EXCEPT ![v] = "ingest"] /\ wtask' = wtask
      BY <1>7, <2>2 DEF Claim
    <3>2. wtask[v] \in TaskId /\ wpc[v] = "claim" /\ Claimed(tasks[wtask[v]], v).owner = v
      BY <1>1, <1>7 DEF Claim, Claimed, Row
    <3>3. CASE t = wtask[v]
      BY <1>1, <3>1, <3>2, <3>3 DEF Working
    <3>4. CASE t # wtask[v]
      BY <1>1, <1>3, <3>1, <3>2, <3>4 DEF Working
    <3> QED
      BY <3>3, <3>4
  <2> QED
    BY <2>1, <2>2
<1>8. CASE Save(v)
  <2>1. wtask[v] \in TaskId /\ wpc[v] = "save" /\ Saved(wcopy[v]).owner = NoWorker
    BY <1>1, <1>8, SavedRow DEF Save
  <2>2. tasks' = IF tasks[wtask[v]].owner = v
                 THEN [tasks EXCEPT ![wtask[v]] = Saved(wcopy[v])] ELSE tasks
    BY <1>8 DEF Save, SaveTask
  <2>3. tasks'[t] = tasks[t] /\ (w = v => t # wtask[v])
    BY <1>1, <2>1, <2>2
  <2> QED
    BY <1>1, <1>3, <1>8, <2>1, <2>3 DEF Save, LoopAgain, Working
<1> QED
  BY <1>2, <1>4, <1>5, <1>6, <1>7, <1>8 DEF WorkerStep

\* Whoever owns a row works on it, or was lost at it, after every step.
LEMMA OwnersStep ==
    ASSUME IInv, OwnersAtWork, [Next]_vars
    PROVE  OwnersAtWork'
<1>1. ASSUME NEW r \in TaskId, RequestStep(r)
      PROVE  OwnersAtWork'
  <2>1. /\ tasks \in [TaskId -> Row] /\ errors \in Nat
        /\ \A k : Candidate(k).owner = NoWorker
    BY DEF IInv, TypeOK, Candidate, Absent
  <2>2. /\ UNCHANGED workerVars /\ errors' \in {errors, errors + 1}
        /\ \/ UNCHANGED tasks 
           \/ \E k : tasks' = [tasks EXCEPT ![r] = Candidate(k)]
    BY <1>1 DEF RequestStep, Refuse, Submit, CreateOrGet, CreateError, Enqueue, RepositoryRaises
  <2>3. \A t \in TaskId : tasks'[t].owner \in {tasks[t].owner, NoWorker}
    BY <2>1, <2>2
  <2> QED
    BY <2>1, <2>2, <2>3 DEF OwnersAtWork, Working, workerVars
<1>2. ASSUME NEW u \in TaskId, LeaseExpires(u)
      PROVE  OwnersAtWork'
  <2>1. \A t \in TaskId : tasks'[t].owner = tasks[t].owner
    BY <1>2 DEF LeaseExpires, IInv, TypeOK, Row
  <2> QED
    BY <1>2, <2>1 DEF LeaseExpires, OwnersAtWork, Working, workerVars
<1>3. CASE Idle \/ UNCHANGED vars
  BY <1>3 DEF Idle, vars, workerVars, OwnersAtWork, Working
<1> QED
  BY <1>1, <1>2, <1>3, OwnersProcessStep, OwnersWorkerStep DEF Next

----------------------------------------------------------------------------
(* A process that is not up has nobody at home.                             *)

\* Workers and requests come only into a process that is up.
LEMMA EmptyStep ==
    ASSUME IInv, EmptyUntilUp, [Next]_vars
    PROVE  EmptyUntilUp'
<1>1. /\ DOMAIN pstate = Proc /\ DOMAIN wpc = WorkerId /\ DOMAIN whome = WorkerId
      /\ DOMAIN rpc = TaskId /\ DOMAIN rhome = TaskId
      /\ \A w \in WorkerId : wpc[w] \notin {"unborn", "gone", "lost"} => w \in Workers(whome[w])
  BY DEF IInv, TypeOK, Workers
<1> SUFFICES ASSUME NEW q \in Proc, pstate'[q] \in {"down", "starting"}
             PROVE  NobodyHome(q)'
  BY DEF EmptyUntilUp
<1>2. ASSUME pstate[q] \in {"down", "starting"}, UNCHANGED workerVars, UNCHANGED requestVars
      PROVE  NobodyHome(q)'
  BY <1>2 DEF EmptyUntilUp, NobodyHome, Workers, workerVars, requestVars
<1>3. ASSUME NEW p \in Proc, ProcessStep(p)
      PROVE  NobodyHome(q)'
  <2>1. CASE Recover(p) \/ RecoverError(p) \/ Close(p)
    BY <1>1, <1>2, <2>1 DEF Recover, RecoverError, Close, procVars
  <2>2. CASE Launch(p)
    <3>1. pstate[q] \in {"down", "starting"} /\ q # p
      BY <1>1, <2>2 DEF Launch
    <3> QED
      BY <2>2, <3>1 DEF Launch, EmptyUntilUp, NobodyHome, Workers, requestVars
  <2>3. CASE Exit(p) \/ Crash(p)
    <3>1. \A w \in WorkerId : w \in Workers(q)' => w \in Workers(q) /\ q # p
      BY <2>3 DEF Exit, Crash, Vanish, Workers
    <3>2. \A r \in TaskId : /\ rhome'[r] = rhome[r]
                            /\ rpc'[r] \in {"create", "enqueue"} => rpc'[r] = rpc[r] /\ rhome[r] # p
      BY <2>3 DEF Exit, Crash, Vanish
    <3>3. q # p => pstate[q] \in {"down", "starting"}
      BY <1>1, <2>3 DEF Exit, Crash, Vanish
    <3>4. Workers(q)' \subseteq WorkerId
      BY DEF Workers
    <3> QED
      BY <3>1, <3>2, <3>3, <3>4 DEF EmptyUntilUp, NobodyHome
  <2> QED
    BY <1>3, <2>1, <2>2, <2>3 DEF ProcessStep
<1>4. ASSUME NEW v \in WorkerId, WorkerStep(v)
      PROVE  NobodyHome(q)'
  <2>1. /\ pstate' = pstate /\ UNCHANGED <<whome, requestVars>>
        /\ wpc[v] \notin {"unborn", "gone", "lost"}
        /\ \A w \in WorkerId \ {v} : wpc'[w] = wpc[w]
    BY <1>1, <1>4 DEF WorkerStep, Get, Claim, ClaimError, Ingest, Save, SaveError, Requeue,
       LoopAgain, procVars
  <2>2. v \in Workers(whome[v])
    BY <1>1, <2>1
  <2>3. Workers(q) = {} /\ NobodyHome(q)
    BY <2>1 DEF EmptyUntilUp, NobodyHome
  <2> QED
    BY <2>1, <2>2, <2>3 DEF NobodyHome, Workers, requestVars
<1>5. ASSUME NEW r \in TaskId, RequestStep(r)
      PROVE  NobodyHome(q)'
  <2>1. pstate' = pstate /\ UNCHANGED workerVars
    BY <1>5 DEF RequestStep, Refuse, Submit, CreateOrGet, CreateError, Enqueue, procVars
  <2>2. /\ \A s \in TaskId \ {r} : rpc'[s] = rpc[s] /\ rhome'[s] = rhome[s]
        /\ rpc'[r] \in {"create", "enqueue"} =>
              pstate[rhome'[r]] = "up" \/ (rpc[r] = "create" /\ rhome'[r] = rhome[r])
    BY <1>1, <1>5 DEF RequestStep, Refuse, Submit, CreateOrGet, Answered, CreateError, Enqueue
  <2>3. NobodyHome(q)
    BY <2>1 DEF EmptyUntilUp
  <2> QED
    BY <2>1, <2>2, <2>3 DEF NobodyHome, Workers, workerVars
<1>6. ASSUME NEW u \in TaskId, LeaseExpires(u)
      PROVE  NobodyHome(q)'
  BY <1>2, <1>6 DEF LeaseExpires, procVars
<1>7. CASE Idle \/ UNCHANGED vars
  BY <1>2, <1>7 DEF Idle, vars, procVars
<1> QED
  BY <1>3, <1>4, <1>5, <1>6, <1>7 DEF Next

----------------------------------------------------------------------------
(* A queued task of a process that has the table to itself.                 *)

\* What makes a task queued while a process is up: it was, a request stored it,
\* or a worker gave it back.
BecomesQueued(t) ==
    \/ tasks[t].status = "queued"
    \/ rpc[t] = "create" /\ rpc'[t] = "enqueue" /\ rtask'[t] = t /\ rhome'[t] = rhome[t]
    \/ \E w \in WorkerId : /\ wpc[w] = "save" /\ wpc'[w] = "requeue" /\ wtask[w] = t
                           /\ wtask'[w] = t /\ whome'[w] = whome[w]

\* Without errors and starts there is no other way into the queue of the table.
LEMMA QueuedAgain ==
    ASSUME IInv, [Next]_vars, errors' = errors, NEW t \in TaskId, tasks'[t].status = "queued",
           ~(\E p \in Proc : Recover(p))
    PROVE  BecomesQueued(t)
<1>1. /\ tasks \in [TaskId -> Row] /\ errors \in Nat /\ DOMAIN wpc = WorkerId
      /\ DOMAIN rpc = TaskId /\ DOMAIN rtask = TaskId
      /\ \A v \in WorkerId : wpc[v] \in {"claim", "save"} => wtask[v] \in TaskId /\ wcopy[v] \in Row
  BY DEF IInv, TypeOK, WorkersConsistent, WorkerConsistent, InHand
<1>2. ASSUME NEW p \in Proc, ProcessStep(p)
      PROVE  UNCHANGED tasks
  BY <1>1, <1>2 DEF ProcessStep, RecoverError, Launch, Close, Exit, Crash, Vanish, RepositoryRaises
<1>3. ASSUME NEW v \in WorkerId, WorkerStep(v)
      PROVE  BecomesQueued(t)
  <2>1. CASE UNCHANGED tasks
    BY <2>1 DEF BecomesQueued
  <2>2. CASE Claim(v) /\ ~UNCHANGED tasks
    <3>1. /\ tasks' = [tasks EXCEPT ![wtask[v]] = Claimed(tasks[wtask[v]], v)]
          /\ wtask[v] \in TaskId /\ Claimed(tasks[wtask[v]], v).status = "running"
      BY <1>1, <2>2 DEF Claim, Claimed, Row
    <3>2. t # wtask[v] /\ tasks'[t] = tasks[t]
      BY <1>1, <3>1
    <3> QED
      BY <3>2 DEF BecomesQueued
  <2>3. CASE Save(v)
    <3>1. wpc[v] = "save" /\ wtask[v] \in TaskId /\ wcopy[v] \in Row
      BY <1>1, <2>3 DEF Save
    <3>2. tasks' = tasks \/ tasks' = [tasks EXCEPT ![wtask[v]] = Saved(wcopy[v])]
      BY <2>3 DEF Save, SaveTask
    <3>3. CASE tasks'[t] # tasks[t]
      <4>1. t = wtask[v] /\ wcopy[v].status = "queued"
        BY <1>1, <3>1, <3>2, <3>3, SavedRow
      <4> QED
        BY <1>1, <2>3, <3>1, <4>1 DEF Save, LoopAgain, BecomesQueued
    <3> QED
      BY <3>3 DEF BecomesQueued
  <2>4. Get(v) \/ (\E ok \in BOOLEAN : Ingest(v, ok)) \/ Requeue(v) => UNCHANGED tasks
    BY DEF Get, Ingest, Requeue
  <2> QED
    BY <1>1, <1>3, <2>1, <2>2, <2>3, <2>4 DEF WorkerStep, ClaimError, SaveError, RepositoryRaises
<1>4. ASSUME NEW r \in TaskId, RequestStep(r)
      PROVE  BecomesQueued(t)
  <2>1. CASE UNCHANGED tasks
    BY <2>1 DEF BecomesQueued
  <2>2. CASE ~UNCHANGED tasks
    <3>1. CreateOrGet(r)
      BY <1>1, <1>4, <2>2 DEF RequestStep, Refuse, Submit, CreateError, Enqueue, RepositoryRaises
    <3>2. /\ tasks' = [tasks EXCEPT ![r] = Candidate(rkey[r])]
          /\ Answered(r, r, Candidate(rkey[r])) /\ rpc[r] = "create" /\ rhome' = rhome
      BY <2>2, <3>1 DEF CreateOrGet
    <3>3. rpc'[r] = "enqueue" /\ rtask'[r] = r
      BY <1>1, <3>2 DEF Answered, Candidate, Absent
    <3>4. CASE t = r
      BY <3>2, <3>3, <3>4 DEF BecomesQueued
    <3>5. CASE t # r
      BY <1>1, <3>2, <3>5 DEF BecomesQueued
    <3> QED
      BY <3>4, <3>5
  <2> QED
    BY <2>1, <2>2
<1>5. ASSUME NEW u \in TaskId, LeaseExpires(u)
      PROVE  tasks'[t].status = tasks[t].status
  BY <1>1, <1>5 DEF LeaseExpires, Row
<1>6. Idle \/ UNCHANGED vars => UNCHANGED tasks
  BY DEF Idle, vars
<1> QED
  BY <1>2, <1>3, <1>4, <1>5, <1>6 DEF Next, BecomesQueued

\* A process that is starting misses no queued task.
LEMMA StartingKnows ==
    ASSUME AwakeIInv, [Next]_vars, NEW p \in Proc, Proc = {p}, pstate'[p] = "starting",
           NEW t \in TaskId, tasks'[t].status = "queued"
    PROVE  t \in pending'[p]
<1>1. /\ tasks \in [TaskId -> Row] /\ DOMAIN pstate = Proc /\ DOMAIN pending = Proc
      /\ IInv
      /\ \A w \in WorkerId : wpc[w] \notin {"unborn", "gone", "lost"} => w \in Workers(p)
      /\ \A r \in TaskId : rpc[r] \in {"create", "enqueue"} => rhome[r] = p
  BY DEF AwakeIInv, IInv, TypeOK, WorkersConsistent, WorkerConsistent, RequestsConsistent,
     RequestConsistent, Workers
<1>2. CASE Recover(p)
  BY <1>1, <1>2 DEF Recover, Queued
<1>3. CASE ~Recover(p)
  <2>1. ASSUME ProcessStep(p)
        PROVE  FALSE
    BY <1>1, <1>3, <2>1 DEF ProcessStep, RecoverError, Launch, Close, Exit, Crash, Vanish, procVars
  <2>2. pstate' = pstate /\ pending' = pending
    BY <2>1 DEF Next, WorkerStep, Get, Claim, ClaimError, Ingest, Save, SaveError, Requeue,
       RequestStep, Refuse, Submit, CreateOrGet, CreateError, Enqueue, LeaseExpires, Idle,
       procVars, vars
  <2>3. NobodyHome(p)
    BY <2>2 DEF AwakeIInv, EmptyUntilUp
  <2>4. ASSUME NEW w \in WorkerId, WorkerStep(w)
        PROVE  FALSE
    BY <1>1, <2>3, <2>4 DEF NobodyHome, WorkerStep, Get, Claim, ClaimError, Ingest, Save, SaveError,
       Requeue
  <2>5. ASSUME NEW r \in TaskId, RequestStep(r)
        PROVE  FALSE
    BY <1>1, <2>2, <2>3, <2>5 DEF NobodyHome, RequestStep, Refuse, Submit, CreateOrGet, CreateError,
       Enqueue
  <2>6. tasks'[t].status = tasks[t].status
    <3>1. ASSUME NEW u \in TaskId, LeaseExpires(u)
          PROVE  tasks'[t].status = tasks[t].status
      BY <1>1, <3>1 DEF LeaseExpires, Row
    <3>2. Idle \/ UNCHANGED vars => UNCHANGED tasks
      BY DEF Idle, vars
    <3> QED
      BY <2>1, <2>4, <2>5, <3>1, <3>2 DEF Next
  <2> QED
    BY <2>2, <2>6 DEF AwakeIInv, QueuedTaskIsAwake, Queued
<1> QED
  BY <1>2, <1>3

\* What is in the queue of a process that stays up stays there, or a worker takes it.
LEMMA QueueKept ==
    ASSUME IInv, [Next]_vars, NEW p \in Proc, Proc = {p}, pstate[p] = "up", pstate'[p] = "up",
           NEW t \in TaskId, t \in ToSet(queue[p])
    PROVE  \/ t \in ToSet(queue'[p])
           \/ \E w \in Workers(p)' : wpc'[w] = "claim" /\ wtask'[w] = t
<1>1. /\ queue \in [Proc -> Seq(TaskId \cup {Stop})] /\ DOMAIN pstate = Proc
      /\ DOMAIN wpc = WorkerId /\ DOMAIN wtask = WorkerId
      /\ \A w \in WorkerId : wpc[w] # "unborn" => whome[w] = p
      /\ \A w \in WorkerId : wpc[w] = "requeue" => wtask[w] \in TaskId
      /\ \A r \in TaskId : rpc[r] = "enqueue" => rhome[r] = p /\ rtask[r] \in TaskId
  BY DEF IInv, TypeOK, WorkersConsistent, WorkerConsistent, InHand, RequestsConsistent,
     RequestConsistent
<1>2. ASSUME NEW x \in TaskId, queue' = [queue EXCEPT ![p] = Append(@, x)]
      PROVE  t \in ToSet(queue'[p])
  <2>1. queue[p] \in Seq(TaskId \cup {Stop}) /\ queue'[p] = Append(queue[p], x)
    BY <1>1, <1>2
  <2> QED
    BY <2>1, PutItem
<1>3. ASSUME NEW w \in WorkerId, Get(w)
      PROVE  \/ t \in ToSet(queue'[p])
             \/ w \in Workers(p)' /\ wpc'[w] = "claim" /\ wtask'[w] = t
  <2>1. /\ whome[w] = p /\ whome' = whome /\ queue[p] # <<>> /\ queue[p] \in Seq(TaskId \cup {Stop})
        /\ queue'[p] = Tail(queue[p])
    BY <1>1, <1>3 DEF Get
  <2>2. CASE t = Head(queue[p])
    BY <1>1, <1>3, <2>1, <2>2 DEF Get, Workers
  <2>3. CASE t # Head(queue[p])
    BY <2>1, <2>3, TakenItem
  <2> QED
    BY <2>2, <2>3
<1>4. ASSUME NEW w \in WorkerId, Requeue(w)
      PROVE  t \in ToSet(queue'[p])
  BY <1>1, <1>2, <1>4 DEF Requeue, Put
<1>5. ASSUME NEW r \in TaskId, Enqueue(r)
      PROVE  t \in ToSet(queue'[p])
  BY <1>1, <1>2, <1>5 DEF Enqueue, Put
<1>6. ASSUME ProcessStep(p)
      PROVE  UNCHANGED queue
  BY <1>1, <1>6 DEF ProcessStep, Recover, RecoverError, Launch, Close, Exit, Crash, Vanish, procVars
<1>7. CASE UNCHANGED queue
  BY <1>7
<1> QED
  BY <1>3, <1>4, <1>5, <1>6, <1>7 DEF Next, WorkerStep, Claim, ClaimError, Ingest, Save, SaveError,
     RequestStep, Refuse, Submit, CreateOrGet, CreateError, LeaseExpires, Idle, procVars, vars

\* A worker that has a queued task in hand keeps it, or puts it into the queue.
LEMMA HandKept ==
    ASSUME IInv, [Next]_vars, NEW p \in Proc, Proc = {p}, pstate[p] = "up", pstate'[p] = "up",
           errors' = errors, NEW t \in TaskId, tasks[t].status = "queued",
           tasks'[t].status = "queued",
           NEW w \in Workers(p), wpc[w] \in {"claim", "requeue"}, wtask[w] = t
    PROVE  \/ t \in ToSet(queue'[p])
           \/ w \in Workers(p)' /\ wpc'[w] = wpc[w] /\ wtask'[w] = t
<1>1. /\ queue \in [Proc -> Seq(TaskId \cup {Stop})] /\ DOMAIN pstate = Proc
      /\ DOMAIN wpc = WorkerId /\ DOMAIN wtask = WorkerId /\ errors \in Nat
      /\ w \in WorkerId /\ whome[w] = p /\ tasks \in [TaskId -> Row]
  BY DEF IInv, TypeOK, Workers
<1>2. CASE wpc'[w] = wpc[w] /\ wtask'[w] = wtask[w] /\ whome'[w] = whome[w]
  BY <1>1, <1>2 DEF Workers
<1>3. ASSUME NEW v \in WorkerId \ {w}, WorkerStep(v)
      PROVE  wpc'[w] = wpc[w] /\ wtask'[w] = wtask[w] /\ whome'[w] = whome[w]
  BY <1>1, <1>3 DEF WorkerStep, Get, Claim, ClaimError, Ingest, Save, SaveError, Requeue, LoopAgain
<1>4. ~Claim(w)
  <2>1. Claimable(tasks[t])
    BY DEF IInv, RowsConsistent, RowConsistent, Claimable
  <2>2. Claim(w) => tasks' = [tasks EXCEPT ![t] = Claimed(tasks[t], w)]
    BY <2>1 DEF Claim
  <2>3. Claimed(tasks[t], w).status = "running"
    BY <1>1 DEF Claimed, Row
  <2> QED
    BY <1>1, <2>2, <2>3
<1>5. CASE Requeue(w)
  <2>1. queue' = [queue EXCEPT ![p] = Append(@, t)]
    BY <1>1, <1>5 DEF Requeue, Put
  <2>2. queue[p] \in Seq(TaskId \cup {Stop}) /\ queue'[p] = Append(queue[p], t)
    BY <1>1, <2>1
  <2> QED
    BY <2>2, PutItem
<1>6. WorkerStep(w) => Requeue(w)
  BY <1>1, <1>4 DEF WorkerStep, Get, ClaimError, Ingest, Save, SaveError, RepositoryRaises
<1>7. ASSUME ProcessStep(p)
      PROVE  UNCHANGED workerVars
  BY <1>1, <1>7 DEF ProcessStep, Recover, RecoverError, Launch, Close, Exit, Crash, Vanish
<1>8. \/ UNCHANGED workerVars
      \/ \E v \in WorkerId : WorkerStep(v)
  BY <1>7 DEF Next, RequestStep, Refuse, Submit, CreateOrGet, CreateError, Enqueue, LeaseExpires,
     Idle, vars
<1> QED
  BY <1>2, <1>3, <1>5, <1>6, <1>8 DEF workerVars

\* A request that is about to enqueue a task does so, or still is.
LEMMA RequestKept ==
    ASSUME IInv, [Next]_vars, NEW p \in Proc, Proc = {p}, pstate[p] = "up", pstate'[p] = "up",
           NEW r \in TaskId, rpc[r] = "enqueue"
    PROVE  \/ rtask[r] \in ToSet(queue'[p])
           \/ rpc'[r] = "enqueue" /\ rhome'[r] = rhome[r] /\ rtask'[r] = rtask[r]
<1>1. /\ queue \in [Proc -> Seq(TaskId \cup {Stop})] /\ DOMAIN pstate = Proc
      /\ DOMAIN rpc = TaskId /\ DOMAIN rtask = TaskId /\ DOMAIN rhome = TaskId
      /\ rhome[r] = p /\ rtask[r] \in TaskId
  BY DEF IInv, TypeOK, RequestsConsistent, RequestConsistent
<1>2. ASSUME NEW s \in TaskId, RequestStep(s), ~Enqueue(r)
      PROVE  rpc'[r] = "enqueue" /\ rhome'[r] = rhome[r] /\ rtask'[r] = rtask[r]
  BY <1>1, <1>2 DEF RequestStep, Refuse, Submit, CreateOrGet, Answered, CreateError, Enqueue
<1>3. CASE Enqueue(r)
  <2>1. queue[p] \in Seq(TaskId \cup {Stop}) /\ queue'[p] = Append(queue[p], rtask[r])
    BY <1>1, <1>3 DEF Enqueue, Put
  <2> QED
    BY <1>1, <2>1, PutItem
<1>4. ASSUME ProcessStep(p)
      PROVE  UNCHANGED requestVars
  BY <1>1, <1>4 DEF ProcessStep, Recover, RecoverError, Launch, Close, Exit, Crash, Vanish
<1>5. UNCHANGED requestVars \/ \E s \in TaskId : RequestStep(s)
  BY <1>4 DEF Next, WorkerStep, Get, Claim, ClaimError, Ingest, Save, SaveError, Requeue,
     LeaseExpires, Idle, vars
<1> QED
  BY <1>2, <1>3, <1>5 DEF requestVars

\* A process that is up knows of every queued task.
LEMMA UpKnows ==
    ASSUME AwakeIInv, [Next]_vars, NEW p \in Proc, Proc = {p}, pstate'[p] = "up", errors' = 0,
           NEW t \in TaskId, tasks'[t].status = "queued"
    PROVE  Awake(t, p)'
<1>1. /\ IInv /\ errors \in Nat /\ DOMAIN pstate = Proc /\ queue \in [Proc -> Seq(TaskId \cup {Stop})]
      /\ \A w \in WorkerId : wpc[w] # "unborn" => whome[w] = p
      /\ \A r \in TaskId : rpc[r] \in {"create", "enqueue"} => rhome[r] = p
  BY DEF AwakeIInv, IInv, TypeOK, WorkersConsistent, WorkerConsistent, RequestsConsistent,
     RequestConsistent
<1>2. errors' = errors
  <2>1. ~(RepositoryRaises)
    BY <1>1 DEF RepositoryRaises
  <2>2. CASE \E q \in Proc : ProcessStep(q)
    BY <2>1, <2>2 DEF ProcessStep, Recover, RecoverError, Launch, Close, Exit, Crash, Vanish
  <2>3. CASE \E w \in WorkerId : WorkerStep(w)
    BY <2>1, <2>3 DEF WorkerStep, Get, Claim, ClaimError, Ingest, Save, SaveError, Requeue
  <2>4. CASE \E r \in TaskId : RequestStep(r)
    BY <2>1, <2>4 DEF RequestStep, Refuse, Submit, CreateOrGet, CreateError, Enqueue
  <2>5. CASE Idle \/ UNCHANGED vars \/ \E q \in TaskId : LeaseExpires(q)
    BY <2>5 DEF Idle, LeaseExpires, vars
  <2> QED
    BY <2>2, <2>3, <2>4, <2>5 DEF Next
<1>3. CASE Launch(p)
  <2>1. t \in pending[p]
    BY <1>3 DEF Launch, AwakeIInv, QueuedTaskIsAwake, Queued
  <2>2. IsFiniteSet(pending[p])
    BY <1>1, FS_Subset DEF IInv, TypeOK
  <2>3. PICK order \in SetToSeqs(pending[p]) : queue' = [queue EXCEPT ![p] = order]
    BY <1>3 DEF Launch
  <2>4. queue'[p] = order /\ ToSet(order) = pending[p]
    BY <1>1, <2>2, <2>3, FilledQueue
  <2> QED
    BY <2>1, <2>4 DEF Awake
<1>4. CASE ~Launch(p)
  <2>1. pstate[p] = "up" /\ ~Recover(p)
    <3>1. ~ProcessStep(p) \/ pstate' = pstate
      BY <1>1, <1>4 DEF ProcessStep, Recover, RecoverError, Close, Exit, Crash, Vanish, procVars
    <3>2. pstate' = pstate
      BY <3>1 DEF Next, WorkerStep, Get, Claim, ClaimError, Ingest, Save, SaveError, Requeue,
         RequestStep, Refuse, Submit, CreateOrGet, CreateError, Enqueue, LeaseExpires, Idle,
         procVars, vars
    <3> QED
      BY <3>2 DEF Recover
  <2>2. BecomesQueued(t)
    BY <1>1, <1>2, <2>1, QueuedAgain
  <2>3. ASSUME rpc[t] = "create", rpc'[t] = "enqueue", rtask'[t] = t, rhome'[t] = rhome[t]
        PROVE  Awake(t, p)'
    BY <1>1, <2>3 DEF Awake
  <2>4. ASSUME NEW w \in WorkerId, wpc[w] = "save", wpc'[w] = "requeue", wtask'[w] = t,
               whome'[w] = whome[w]
        PROVE  Awake(t, p)'
    BY <1>1, <2>4 DEF Awake, Workers
  <2>5. CASE tasks[t].status = "queued"
    <3>1. Awake(t, p)
      BY <1>2, <2>1, <2>5 DEF AwakeIInv, QueuedTaskIsAwake, Queued
    <3>2. CASE t \in ToSet(queue[p])
      BY <1>1, <2>1, <3>2, QueueKept DEF Awake
    <3>3. ASSUME NEW w \in Workers(p), wpc[w] \in {"claim", "requeue"}, wtask[w] = t
          PROVE  Awake(t, p)'
      BY <1>1, <1>2, <2>1, <2>5, <3>3, HandKept DEF Awake
    <3>4. ASSUME NEW r \in TaskId, rpc[r] = "enqueue", rhome[r] = p, rtask[r] = t
          PROVE  Awake(t, p)'
      BY <1>1, <2>1, <3>4, RequestKept DEF Awake
    <3> QED
      BY <3>1, <3>2, <3>3, <3>4 DEF Awake
  <2> QED
    BY <2>2, <2>3, <2>4, <2>5 DEF BecomesQueued
<1> QED
  BY <1>3, <1>4

----------------------------------------------------------------------------
\* Everything starts with nobody at home and nothing queued.
LEMMA InitAwake == Init => AwakeIInv
<1> SUFFICES ASSUME Init PROVE AwakeIInv
  OBVIOUS
<1>1. IInv
  BY InitIInv
<1>2. OwnersAtWork
  BY DEF Init, Absent, OwnersAtWork
<1>3. EmptyUntilUp
  BY DEF Init, EmptyUntilUp, NobodyHome, Workers
<1>4. QueuedTaskIsAwake
  BY DEF Init, QueuedTaskIsAwake, Queued, Absent
<1> QED
  BY <1>1, <1>2, <1>3, <1>4 DEF AwakeIInv

\* What memory knows of the table stays true through every step.
THEOREM MemoryKnowsTable == Spec => []AwakeIInv
<1>1. AwakeIInv /\ [Next]_vars /\ IInv' => AwakeIInv'
  <2> SUFFICES ASSUME AwakeIInv, [Next]_vars, IInv' PROVE AwakeIInv'
    OBVIOUS
  <2>1. OwnersAtWork' /\ EmptyUntilUp'
    BY OwnersStep, EmptyStep DEF AwakeIInv
  <2>2. QueuedTaskIsAwake'
    BY StartingKnows, UpKnows DEF QueuedTaskIsAwake, Queued
  <2> QED
    BY <2>1, <2>2 DEF AwakeIInv
<1> QED
  BY <1>1, InitAwake, Invariance, PTL DEF Spec

\* In the only process of a table a queued task is in the queue or on its way into it.
THEOREM QueuedTasksAreAwake == Spec => []QueuedTaskIsAwake
<1>1. AwakeIInv => QueuedTaskIsAwake
  BY DEF AwakeIInv
<1> QED
  BY <1>1, MemoryKnowsTable, PTL

\* close leaves no task running in the name of a worker that has returned.
THEOREM WorkersLeaveNothing == Spec => []ExitLeavesNothingRunning
<1>1. AwakeIInv => ExitLeavesNothingRunning
  BY DEF AwakeIInv, OwnersAtWork, Working, ExitLeavesNothingRunning
<1> QED
  BY <1>1, MemoryKnowsTable, PTL

\* A request that is answered with a queued task leaves it in a queue of its process.
THEOREM AnswersWake == Spec => AnswerWakesQueuedTask
<1>1. ASSUME IInv, [Next]_vars, NEW r \in TaskId, rpc[r] # "done", rpc'[r] = "done",
             tasks[rtask'[r]].status = "queued"
      PROVE  Awake(rtask[r], rhome[r])'
  <2>1. /\ queue \in [Proc -> Seq(TaskId \cup {Stop})] /\ tasks \in [TaskId -> Row]
        /\ DOMAIN rpc = TaskId /\ DOMAIN rtask = TaskId /\ DOMAIN rhome = TaskId
        /\ rpc[r] = "enqueue" => rhome[r] \in Proc /\ rtask[r] \in TaskId
    BY <1>1 DEF IInv, TypeOK, RequestsConsistent, RequestConsistent
  <2>2. CASE Enqueue(r)
    <3>1. /\ queue[rhome[r]] \in Seq(TaskId \cup {Stop}) /\ rtask'[r] = rtask[r]
          /\ rtask[r] \in TaskId /\ rhome'[r] = rhome[r]
          /\ queue'[rhome[r]] = Append(queue[rhome[r]], rtask[r])
      BY <2>1, <2>2 DEF Enqueue, Put
    <3> QED
      BY <3>1, PutItem DEF Awake
  <2>3. ~CreateOrGet(r)
    <3>1. Answered(r, r, Candidate(rkey[r])) => rpc'[r] = "enqueue"
      BY <2>1 DEF Answered, Candidate, Absent
    <3>2. ASSUME NEW t \in TaskId, Answered(r, t, tasks[t])
          PROVE  FALSE
      BY <1>1, <2>1, <3>2 DEF Answered
    <3> QED
      BY <1>1, <3>1, <3>2 DEF CreateOrGet, Existing
  <2>4. ASSUME NEW p \in Proc, ProcessStep(p)
        PROVE  FALSE
    BY <1>1, <2>1, <2>4 DEF ProcessStep, Recover, RecoverError, Launch, Close, Exit, Crash, Vanish,
       requestVars
  <2>5. ASSUME NEW s \in TaskId, RequestStep(s)
        PROVE  Enqueue(r)
    BY <1>1, <2>1, <2>3, <2>5 DEF RequestStep, Refuse, Submit, CreateOrGet, Answered, CreateError,
       Enqueue
  <2>6. UNCHANGED requestVars \/ \E s \in TaskId : RequestStep(s)
    BY <1>1, <2>4 DEF Next, WorkerStep, Get, Claim, ClaimError, Ingest, Save, SaveError, Requeue,
       LeaseExpires, Idle, vars
  <2> QED
    BY <1>1, <2>2, <2>5, <2>6 DEF requestVars
<1>2. IInv /\ [Next]_vars =>
         [\A r \in TaskId :
             /\ rpc[r] # "done" /\ rpc'[r] = "done"
             /\ tasks[rtask'[r]].status = "queued"
             => Awake(rtask[r], rhome[r])']_vars
  BY <1>1
<1> QED
  BY <1>2, Invariance, PTL DEF Spec, AnswerWakesQueuedTask
=============================================================================
