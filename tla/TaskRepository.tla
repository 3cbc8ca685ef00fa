--------------------------- MODULE TaskRepository ---------------------------
(***************************************************************************)
(* The table of ingestion tasks that both repository adapters keep          *)
(* (app/repositories/json_store.py and app/repositories/mysql.py) and the   *)
(* operations on it, as pure operators on rows and tables.  Each operation  *)
(* is one critical section: the asyncio lock of the JSON adapter, or one    *)
(* transaction of the MySQL adapter.                                        *)
(***************************************************************************)
EXTENDS Naturals

CONSTANTS
    TaskId,       \* the uuids that requests draw for their candidate tasks
    WorkerId,     \* the "pid:index:uuid" names of workers
    Key,          \* idempotency keys
    NoKey,        \* a request without a key
    NoWorker,     \* worker_id = NULL
    MaxAttempts   \* max_attempts of a task record

ASSUME NoKeyAssumption == NoKey \notin Key
ASSUME NoWorkerAssumption == NoWorker \notin WorkerId
ASSUME MaxAttemptsAssumption == MaxAttempts \in Nat \ {0}

Statuses == {"absent", "queued", "running", "succeeded", "failed"}
Terminal == {"succeeded", "failed"}

(***************************************************************************)
(* A row.  The lease is abstracted to what recovery tells apart: there is   *)
(* none, its deadline lies ahead ("live"), or it has passed ("expired").    *)
(* result and error say whether the column holds a value.  A task id        *)
(* without a row has status "absent".                                       *)
(***************************************************************************)
Row == [status    : Statuses,
        key       : Key \cup {NoKey},
        attempts  : 0 .. MaxAttempts,
        retries   : 0 .. MaxAttempts - 1,
        owner     : WorkerId \cup {NoWorker},
        lease     : {"none", "live", "expired"},
        recovered : BOOLEAN,
        result    : BOOLEAN,
        error     : BOOLEAN]

Absent == [status |-> "absent", key |-> NoKey, attempts |-> 0, retries |-> 0,
           owner |-> NoWorker, lease |-> "none", recovered |-> FALSE,
           result |-> FALSE, error |-> FALSE]

\* The record a request builds before it asks the repository to store it.
Candidate(k) == [Absent EXCEPT !.status = "queued", !.key = k]

Queued(table) == {t \in TaskId : table[t].status = "queued"}

----------------------------------------------------------------------------
\* create_or_get_task: the tasks that already carry the candidate's key.
Existing(table, k) ==
    {t \in TaskId : /\ k # NoKey
                    /\ table[t].status # "absent"
                    /\ table[t].key = k}

\* Mutant: claiming does not look at the status.
ClaimableWhateverStatus(row) == row.status # "absent" /\ row.attempts < MaxAttempts

\* claim_task
Claimable(row) == row.status = "queued" /\ row.attempts < MaxAttempts

Claimed(row, w) ==
    [row EXCEPT !.status = "running", !.attempts = @ + 1,
                !.owner = w, !.lease = "live"]

\* Mutant: the saved row keeps its worker.
SavedKeepingOwner(copy) == [copy EXCEPT !.lease = "none"]

\* save_task as the JSON adapter does it: the whole row becomes the worker's
\* copy.
Saved(copy) == [copy EXCEPT !.owner = NoWorker, !.lease = "none"]

\* Mutant: nobody checks who owns the row.
SaveTaskUnfenced(table, t, copy, w) == [table EXCEPT ![t] = Saved(copy)]

SaveTask(table, t, copy, w) ==
    IF table[t].owner = w THEN [table EXCEPT ![t] = Saved(copy)] ELSE table

\* save_task as the MySQL adapter does it: an UPDATE of the columns a worker
\* may have changed.
MySQLSaved(row, copy) ==
    [row EXCEPT !.status = copy.status, !.retries = copy.retries,
                !.result = copy.result, !.error = copy.error,
                !.owner = NoWorker, !.lease = "none"]

\* Mutant: recovery gives back tasks that have no attempt left.
AbandonedWhateverAttempts(row) == row.status = "running" /\ row.lease = "expired"

\* recover_expired_tasks
Abandoned(row) ==
    /\ row.status = "running"
    /\ row.lease = "expired"
    /\ row.attempts < MaxAttempts

\* Mutants: the row keeps its worker; the recovery leaves no trace.
RequeuedKeepingOwner(row) == [row EXCEPT !.status = "queued", !.recovered = TRUE, !.lease = "none"]
RequeuedSilently(row) ==
    [row EXCEPT !.status = "queued", !.owner = NoWorker, !.lease = "none"]

Requeued(row) ==
    [row EXCEPT !.status = "queued", !.recovered = TRUE,
                !.owner = NoWorker, !.lease = "none"]

RecoverExpired(table) ==
    [t \in TaskId |-> IF Abandoned(table[t]) THEN Requeued(table[t])
                                             ELSE table[t]]
=============================================================================
