---------------------------- MODULE TaskAdapters -----------------------------
(***************************************************************************)
(* How the two adapters do a call of the table of tasks: the JSON adapter   *)
(* (app/repositories/json_store.py) reads the file, writes a temporary one  *)
(* and replaces the first by it, the MySQL adapter                          *)
(* (app/repositories/mysql.py) runs the statements of a transaction on rows *)
(* that others may have locked.  Every step may raise, and processes are    *)
(* killed between any two.                                                  *)
(***************************************************************************)
EXTENDS TaskTable   \* table: the rows that are committed, or the file holds

CONSTANTS
    Process,      \* the clients of each process that shares the database
    Torn, NoFile, \* what a file holds while it is written, and if there is none
    NoClient,
    MaxFailures   \* bound: exceptions and killed processes

ASSUME ClientAssumption ==
    /\ WorkerId \cap Requester = {} /\ WorkerId \cap Starter = {} /\ Requester \cap Starter = {}
    /\ NoClient \notin Client
ASSUME ProcessAssumption == Process \subseteq SUBSET Client
\* Whatever uuids the others have drawn, there is another one.
ASSUME TaskIdAssumption ==
    /\ TaskId # {}
    /\ \A drawn \in [Requester -> TaskId], c \in Requester :
          \E t \in TaskId : \A d \in Requester \ {c} : drawn[d] # t

VARIABLES
    adapter,   \* persistence_backend
    temporary, \* the .tmp file beside the JSON file
    writer,    \* who holds the asyncio lock of the JSON adapter
    locks,     \* the rows and keys that each transaction has locked
    draft,     \* the table as a call is about to make it
    failures

adapterVars == <<tableVars, adapter, temporary, writer, locks, draft, failures>>

NoTable == [t \in TaskId |-> Absent]

AdapterInit ==
    /\ TableInit
    /\ adapter \in {"json", "mysql"}
    /\ temporary = NoFile
    /\ writer = NoClient
    /\ locks = [c \in Client |-> {}]
    /\ draft = [c \in Client |-> NoTable]
    /\ failures = 0

\* Where a call is on its way from "called" to its answer.
Places == {"opening", "writing", "replacing", "updating", "scanning", "looking", "committing"}

OpOf(c) == calls[c].op

At(c, backend, place) == adapter = backend /\ calls[c].pc = place

Begins(c) ==
    /\ Call(c)
    /\ UNCHANGED <<adapter, temporary, writer, locks, draft, failures>>

----------------------------------------------------------------------------
(* The JSON adapter.  One process has the files to itself, and lets go of   *)
(* the event loop nowhere between taking the lock and giving it back.       *)

JsonEffects(c) ==
    IF OpOf(c).name = "recover"
    THEN {<<RecoverExpired(table), Answer(Queued(RecoverExpired(table)), Absent)>>}
    ELSE Effects(c, table, OpOf(c))

\* A call takes the lock, reads the file and computes what it will hold; if that is
\* no change it answers at once, but for a recovery, which always writes.
JsonRead(c) ==
    /\ At(c, "json", "called")
    /\ writer = NoClient
    /\ table # Torn
    /\ \E effect \in JsonEffects(c) :
          IF effect[1] = table /\ OpOf(c).name # "recover"
          THEN calls' = Answered(c, effect[2]) /\ UNCHANGED <<writer, draft>>
          ELSE /\ writer' = c
               /\ draft' = [draft EXCEPT ![c] = effect[1]]
               /\ calls' = [calls EXCEPT ![c].pc = "opening", ![c].answer = effect[2]]
    /\ UNCHANGED <<table, adapter, temporary, locks, failures>>

\* _write opens the temporary file, dumps the rows and puts it in place.
JsonOpen(c) ==
    /\ At(c, "json", "opening")
    /\ temporary' = Torn
    /\ calls' = [calls EXCEPT ![c].pc = "writing"]
    /\ UNCHANGED <<table, adapter, writer, locks, draft, failures>>

JsonWrite(c) ==
    /\ At(c, "json", "writing")
    /\ temporary' = draft[c]
    /\ calls' = [calls EXCEPT ![c].pc = "replacing"]
    /\ UNCHANGED <<table, adapter, writer, locks, draft, failures>>

JsonReplace(c) ==
    /\ At(c, "json", "replacing")
    /\ table' = temporary
    /\ temporary' = NoFile
    /\ writer' = NoClient
    /\ draft' = [draft EXCEPT ![c] = NoTable]
    /\ calls' = Answered(c, calls[c].answer)
    /\ UNCHANGED <<adapter, locks, failures>>

----------------------------------------------------------------------------
(* The MySQL adapter.                                                       *)

\* Mutant: the table has no unique key.
NeedsNoKey(c) == {OpOf(c).task}

\* What the first statement of a call by id locks: the row; of a creation also its key
\* and the row that has it already.
Needs(c) ==
    {OpOf(c).task} \cup
        IF OpOf(c).name = "create" THEN ({OpOf(c).key} \ {NoKey}) \cup Existing(table, OpOf(c).key)
        ELSE {}

IsFree(c, rows) == \A d \in Client \ {c} : locks[d] \cap rows = {}

\* What others will see when c commits.
View(c) == [t \in TaskId |-> IF t \in locks[c] THEN draft[c][t] ELSE table[t]]

\* Mutant: claim_task reads without FOR UPDATE.
SelectUnlocked(c) ==
    /\ At(c, "mysql", "called")
    /\ OpOf(c).name = "claim"
    /\ Claimable(table[OpOf(c).task])
    /\ calls' = [calls EXCEPT ![c].pc = "updating"]
    /\ UNCHANGED <<table, adapter, temporary, writer, locks, draft, failures>>

\* claim_task: SELECT ... FOR UPDATE finds a task to claim, and locks it.
SelectForUpdate(c) ==
    /\ At(c, "mysql", "called")
    /\ OpOf(c).name = "claim"
    /\ IsFree(c, Needs(c))
    /\ Claimable(table[OpOf(c).task])
    /\ locks' = [locks EXCEPT ![c] = Needs(c)]
    /\ draft' = [draft EXCEPT ![c] = table]
    /\ calls' = [calls EXCEPT ![c].pc = "updating"]
    /\ UNCHANGED <<table, adapter, temporary, writer, failures>>

\* Mutant: it returns and leaves the transaction open.
RefuseClaimOpen(c) ==
    /\ At(c, "mysql", "called")
    /\ OpOf(c).name = "claim"
    /\ IsFree(c, Needs(c))
    /\ ~Claimable(table[OpOf(c).task])
    /\ locks' = [locks EXCEPT ![c] = Needs(c)]
    /\ calls' = Answered(c, NoAnswer)
    /\ UNCHANGED <<table, adapter, temporary, writer, draft, failures>>

\* Or it finds nothing to claim, and rolls back.
RefuseClaim(c) ==
    /\ At(c, "mysql", "called")
    /\ OpOf(c).name = "claim"
    /\ IsFree(c, Needs(c))
    /\ ~Claimable(table[OpOf(c).task])
    /\ calls' = Answered(c, NoAnswer)
    /\ UNCHANGED <<table, adapter, temporary, writer, locks, draft, failures>>

\* Its UPDATE counts the attempt in the row, and it reads the row again.
UpdateClaimed(c) ==
    LET t == OpOf(c).task IN
    /\ At(c, "mysql", "updating")
    /\ IsFree(c, {t})
    /\ locks' = [locks EXCEPT ![c] = @ \cup {t}]
    /\ draft' = [draft EXCEPT ![c][t] = Claimed(table[t], c)]
    /\ calls' = [calls EXCEPT ![c].pc = "committing", ![c].answer = Answer({t}, Claimed(table[t], c))]
    /\ UNCHANGED <<table, adapter, temporary, writer, failures>>

\* The UPDATE of a save, or INSERT ... ON DUPLICATE KEY UPDATE.
Changed(c) ==
    LET op == OpOf(c) IN
    CASE op.name = "save" -> IF table[op.task].owner = c
                             THEN [table EXCEPT ![op.task] = MySQLSaved(@, op.copy)] ELSE table
      [] op.name = "create" -> IF Existing(table, op.key) = {}
                               THEN [table EXCEPT ![op.task] = Candidate(op.key)] ELSE table

Change(c) ==
    /\ At(c, "mysql", "called")
    /\ OpOf(c).name \in {"save", "create"}
    /\ IsFree(c, Needs(c))
    /\ locks' = [locks EXCEPT ![c] = Needs(c)]
    /\ draft' = [draft EXCEPT ![c] = Changed(c)]
    /\ calls' = [calls EXCEPT ![c].pc = IF OpOf(c).name = "save" THEN "committing" ELSE "looking"]
    /\ UNCHANGED <<table, adapter, temporary, writer, failures>>

Scans(c) ==
    /\ \E place \in {"called", "scanning"} : At(c, "mysql", place)
    /\ OpOf(c).name = "recover"

\* The UPDATE of a recovery locks the rows it comes by, one after the other, and keeps
\* what it has while it waits for the next; which rows it comes by is up to the index.
RecoverRow(c) ==
    /\ Scans(c)
    /\ \E t \in TaskId \ locks[c] :
          /\ table[t].status # "absent"
          /\ IsFree(c, {t})
          /\ locks' = [locks EXCEPT ![c] = @ \cup {t}]
          /\ draft' = [draft EXCEPT ![c][t] = RecoverExpired(table)[t]]
    /\ calls' = [calls EXCEPT ![c].pc = "scanning"]
    /\ UNCHANGED <<table, adapter, temporary, writer, failures>>

\* It ends when it has come by every row that it is to give back.
EndRecovery(c) ==
    /\ Scans(c)
    /\ \A t \in TaskId : Abandoned(table[t]) => t \in locks[c]
    /\ calls' = [calls EXCEPT ![c].pc = "looking"]
    /\ UNCHANGED <<table, adapter, temporary, writer, locks, draft, failures>>

\* The SELECT that follows: the new row or the one with its key; what is queued.
LookUp(c) ==
    LET op == OpOf(c)
        seen == View(c)
        found == {t \in TaskId : seen[t].status # "absent" /\ (t = op.task \/ t \in Existing(seen, op.key))}
    IN
    /\ At(c, "mysql", "looking")
    /\ \E answer \in IF op.name = "recover" THEN {Answer(Queued(seen), Absent)}
                     ELSE {Answer({t}, seen[t]) : t \in found} :
          calls' = [calls EXCEPT ![c].pc = "committing", ![c].answer = answer]
    /\ UNCHANGED <<table, adapter, temporary, writer, locks, draft, failures>>

\* The database commits; that it did may not become known.
Commit(c) ==
    /\ At(c, "mysql", "committing")
    /\ table' = View(c)
    /\ locks' = [locks EXCEPT ![c] = {}]
    /\ draft' = [draft EXCEPT ![c] = NoTable]
    /\ \/ calls' = Answered(c, calls[c].answer) /\ UNCHANGED failures
       \/ calls' = Raised({c}) /\ failures < MaxFailures /\ failures' = failures + 1
    /\ UNCHANGED <<adapter, temporary, writer>>

----------------------------------------------------------------------------
(* Failures and time.                                                       *)

\* The calls of cs end; a transaction is rolled back, a lock is given back, and the
\* temporary file stays as it is.
Abandon(cs) ==
    /\ failures < MaxFailures
    /\ failures' = failures + 1
    /\ Raise(cs)
    /\ writer' = IF writer \in cs THEN NoClient ELSE writer
    /\ locks' = [c \in Client |-> IF c \in cs THEN {} ELSE locks[c]]
    /\ draft' = [c \in Client |-> IF c \in cs THEN NoTable ELSE draft[c]]
    /\ UNCHANGED <<adapter, temporary>>

\* A step raises: a file or a database that fails, or that breaks a circle of waiting.
StepRaises(c) == ~Resting(c) /\ Abandon({c})

\* The JSON files are those of one process.
Kill == \E p \in IF adapter = "json" THEN {Client} ELSE Process : Abandon(p)

\* Only a recovery looks at leases, and at those that ended before it began; a row
\* that is locked has a lease that ends later.
LeaseEnds(t) ==
    /\ writer = NoClient
    /\ \A c \in Starter : calls[c].pc \notin Places
    /\ \A c \in Client : t \notin locks[c]
    /\ Expire(t)
    /\ UNCHANGED <<adapter, temporary, writer, locks, draft, failures>>

Proceed(c) ==
    \/ JsonRead(c) \/ JsonOpen(c) \/ JsonWrite(c) \/ JsonReplace(c)
    \/ SelectForUpdate(c) \/ RefuseClaim(c) \/ UpdateClaimed(c)
    \/ Change(c) \/ RecoverRow(c) \/ EndRecovery(c) \/ LookUp(c) \/ Commit(c)

AdapterNext ==
    \/ \E c \in Client : Begins(c) \/ Proceed(c) \/ StepRaises(c)
    \/ Kill
    \/ \E t \in TaskId : LeaseEnds(t)

AdapterSpec == AdapterInit /\ [][AdapterNext]_adapterVars

----------------------------------------------------------------------------
(***************************************************************************)
(* Both adapters keep the promise of TaskTable: whatever statements, files  *)
(* and crashes come between, every call takes effect at one moment, with    *)
(* the answer that belongs to it, or ends with an exception.  ("with the    *)
(* same behavior as the MySQL adapter", json_store.py:41)                   *)
(***************************************************************************)
Promise == INSTANCE TaskTable WITH
    calls <- [c \in Client |-> IF calls[c].pc \in Places
                               THEN [calls[c] EXCEPT !.pc = "called", !.answer = NoAnswer]
                               ELSE calls[c]]

PromiseKept == Promise!TableSpec

(***************************************************************************)
(* Two requests that race with one key are told the same task.  ("both      *)
(* callers then read the same task", mysql.py:191)                          *)
(***************************************************************************)
OneKeyOneAnswer ==
    \A c, d \in {q \in Requester : calls[q].pc = "answered" /\ calls[q].op.key # NoKey} :
        calls[c].op.key = calls[d].op.key => calls[c].answer.tasks = calls[d].answer.tasks

(***************************************************************************)
(* Nobody waits for someone who is gone: whoever holds a row, a key or the  *)
(* asyncio lock is in the middle of a call.  A claim that finds nothing to  *)
(* claim, a commit whose answer is lost, an exception at any statement or   *)
(* row and a killed process give back what they held (mysql.py:251-261).    *)
(***************************************************************************)
LocksEndWithCalls ==
    /\ \A c \in Client : locks[c] # {} => calls[c].pc \in Places
    /\ writer # NoClient => calls[writer].pc \in Places

(***************************************************************************)
(* Why these hold: the inductive invariant of the proofs.                   *)
(***************************************************************************)
AnyRow == [status : Statuses, key : Key \cup {NoKey}, attempts : Nat, retries : Nat,
           owner : WorkerId \cup {NoWorker}, lease : {"none", "live", "expired"},
           recovered : BOOLEAN, result : BOOLEAN, error : BOOLEAN]

AdapterTypeOK ==
    /\ table \in [TaskId -> AnyRow]
    /\ calls \in [Client ->
          [pc : {"idle", "called", "answered", "raised"} \cup Places,
           op : [name : {"none", "create", "claim", "save", "recover"}, task : TaskId,
                 key : Key \cup {NoKey}, copy : AnyRow],
           answer : [tasks : SUBSET TaskId, row : AnyRow]]]
    /\ adapter \in {"json", "mysql"}
    /\ writer \in Client \cup {NoClient}
    /\ locks \in [Client -> SUBSET (TaskId \cup Key)]
    /\ draft \in [Client -> [TaskId -> AnyRow]]

UnderWay(c) == calls[c].pc \in {"called"} \cup Places

\* A key is that of one task; only what a request has drawn is stored, and nobody owns
\* a task that is not.
TableConsistent ==
    /\ \A t, u \in TaskId :
          table[t].status # "absent" /\ table[t].key # NoKey /\ u \in Existing(table, table[t].key)
              => t = u
    /\ \A t \in TaskId : IF table[t].status = "absent" THEN table[t].owner = NoWorker
                         ELSE t \in Drawn

\* Everyone calls what is theirs to call.  A request's task is its own, is stored by
\* nobody else, and the task it was told is stored with its key.
CallConsistent(c) ==
    /\ calls[c].pc = "called" => calls[c].answer = NoAnswer
    /\ UnderWay(c) => CASE c \in Requester -> OpOf(c).name = "create"
                         [] c \in Starter   -> OpOf(c).name = "recover"
                         [] c \in WorkerId  -> OpOf(c).name \in {"claim", "save"}

RequestConsistent(c) ==
    /\ calls[c].pc # "idle" =>
          \A d \in Requester \ {c} : calls[d].pc # "idle" => OpOf(d).task # OpOf(c).task
    /\ UnderWay(c) => table[OpOf(c).task].status = "absent"
    /\ calls[c].pc = "answered" =>
          \E t \in TaskId : /\ calls[c].answer.tasks = {t}
                            /\ table[t].status # "absent" /\ table[t].key = OpOf(c).key

\* As long as a worker owns a task, the row is still what it has claimed.
HoldsCopy(w, t, row) ==
    table[t].owner = w =>
        /\ row.key = table[t].key /\ row.attempts = table[t].attempts
        /\ row.recovered = table[t].recovered

WorkerConsistent(w) ==
    /\ UnderWay(w) /\ OpOf(w).name = "save" =>
          /\ HoldsCopy(w, OpOf(w).task, OpOf(w).copy)
          /\ OpOf(w).copy.status \in {"succeeded", "queued", "failed"}
    /\ calls[w].pc = "answered" =>
          \E t \in TaskId : calls[w].answer.tasks = {t} /\ HoldsCopy(w, t, calls[w].answer.row)

\* Who holds the lock is about to make the file what its call makes of it.
JsonConsistent(c) ==
    /\ locks[c] = {}
    /\ writer = c <=> calls[c].pc \in Places
    /\ calls[c].pc \in Places =>
          /\ calls[c].pc \in {"opening", "writing", "replacing"}
          /\ <<draft[c], calls[c].answer>> \in Effects(c, table, OpOf(c))
    /\ calls[c].pc = "replacing" => temporary = draft[c]

\* A transaction is about to make the rows it has locked what its statements make of
\* them, whatever the others have committed since.
ClaimConsistent(c, t) ==
    /\ calls[c].pc \in {"updating", "committing"}
    /\ locks[c] = {t} /\ Claimable(table[t])
    /\ calls[c].pc = "committing" =>
          draft[c][t] = Claimed(table[t], c) /\ calls[c].answer = Answer({t}, draft[c][t])

SaveConsistent(c, t) ==
    /\ calls[c].pc = "committing" /\ calls[c].answer = NoAnswer
    /\ locks[c] = {t}
    /\ draft[c][t] = IF table[t].owner = c THEN MySQLSaved(table[t], OpOf(c).copy) ELSE table[t]

CreateConsistent(c, t, k) ==
    /\ calls[c].pc \in {"looking", "committing"}
    /\ {t} \cup ({k} \ {NoKey}) \cup Existing(table, k) \subseteq locks[c]
    /\ \A u \in TaskId \cap locks[c] :
          draft[c][u] = IF u = t /\ Existing(table, k) = {} THEN Candidate(k) ELSE table[u]
    /\ calls[c].pc = "committing" =>
          \/ Existing(table, k) = {} /\ calls[c].answer = Answer({t}, Candidate(k))
          \/ \E u \in Existing(table, k) : calls[c].answer = Answer({u}, table[u])

RecoverConsistent(c) ==
    /\ calls[c].pc \in {"scanning", "looking", "committing"}
    /\ \A t \in TaskId :
          IF t \in locks[c] THEN draft[c][t] = RecoverExpired(table)[t]
          ELSE calls[c].pc = "scanning" \/ ~Abandoned(table[t])
    /\ calls[c].pc = "committing" =>
          /\ calls[c].answer.row = Absent
          /\ \A t \in TaskId :
                /\ Abandoned(table[t]) => t \in calls[c].answer.tasks
                /\ t \in calls[c].answer.tasks => table[t].status # "absent"

TransactionConsistent(c) ==
    IF calls[c].pc \notin Places THEN locks[c] = {}
    ELSE CASE OpOf(c).name = "claim"   -> ClaimConsistent(c, OpOf(c).task)
           [] OpOf(c).name = "save"    -> SaveConsistent(c, OpOf(c).task)
           [] OpOf(c).name = "create"  -> CreateConsistent(c, OpOf(c).task, OpOf(c).key)
           [] OpOf(c).name = "recover" -> RecoverConsistent(c)

LocksConsistent == \A c, d \in Client : c # d => locks[c] \cap locks[d] = {}

AdapterIInv ==
    /\ AdapterTypeOK
    /\ TableConsistent
    /\ \A c \in Client : CallConsistent(c)
    /\ \A c \in Requester : RequestConsistent(c)
    /\ \A w \in WorkerId : WorkerConsistent(w)
    /\ adapter = "json" => \A c \in Client : JsonConsistent(c)
    /\ adapter = "mysql" =>
          writer = NoClient /\ LocksConsistent /\ \A c \in Client : TransactionConsistent(c)
=============================================================================
