------------------------------ MODULE TaskTable ------------------------------
(***************************************************************************)
(* What a repository adapter promises of the table of tasks to the          *)
(* requests, workers and starts that call it: every call takes effect at    *)
(* one moment between its beginning and its end, or never if it ends with   *)
(* an exception, which need not say which.  IngestionTasks relies on this   *)
(* when it takes a call of the repository for one step.                     *)
(***************************************************************************)
EXTENDS TaskRepository

CONSTANTS
    Requester,  \* requests that submit a task
    KeyOf,      \* the key each brings, or none
    Starter     \* starts of a process

ASSUME KeyOfAssumption == KeyOf \in [Requester -> Key \cup {NoKey}]

VARIABLES
    table,
    calls   \* the last call of each client: where it is, and what it returned

tableVars == <<table, calls>>

Client == WorkerId \cup Requester \cup Starter

\* The tasks and the row a call returned; Absent where it returned none.
Answer(ts, row) == [tasks |-> ts, row |-> row]

NoAnswer == Answer({}, Absent)

Created(tb, op) ==
    IF Existing(tb, op.key) = {}
    THEN {<<[tb EXCEPT ![op.task] = Candidate(op.key)], Answer({op.task}, Candidate(op.key))>>}
    ELSE {<<tb, Answer({t}, tb[t])>> : t \in Existing(tb, op.key)}

ClaimedBy(c, tb, t) ==
    IF Claimable(tb[t])
    THEN {<<[tb EXCEPT ![t] = Claimed(@, c)], Answer({t}, Claimed(tb[t], c))>>}
    ELSE {<<tb, NoAnswer>>}

\* The list may be older or newer than the update, but names every task it gave back.
Recovered(tb) ==
    {<<RecoverExpired(tb), Answer({t \in TaskId : Abandoned(tb[t])} \cup ts, Absent)>> :
        ts \in SUBSET {t \in TaskId : tb[t].status # "absent"}}

\* The table and the answer a call of c may lead to.
Effects(c, tb, op) ==
    CASE op.name = "create"  -> Created(tb, op)
      [] op.name = "claim"   -> ClaimedBy(c, tb, op.task)
      [] op.name = "save"    -> {<<SaveTask(tb, op.task, op.copy, c), NoAnswer>>}
      [] op.name = "recover" -> Recovered(tb)

----------------------------------------------------------------------------
Op(name, t, k, copy) == [name |-> name, task |-> t, key |-> k, copy |-> copy]

NoOp == Op("none", CHOOSE t \in TaskId : TRUE, NoKey, Absent)

Idle == [pc |-> "idle", op |-> NoOp, answer |-> NoAnswer]

Resting(c) == calls[c].pc \in {"idle", "answered", "raised"}

Drawn == {calls[c].op.task : c \in {d \in Requester : calls[d].pc # "idle"}}

\* A uuid that nobody has drawn.
Fresh == CHOOSE t \in TaskId : t \notin Drawn

\* What a worker makes of the row it has claimed.
Outcomes(row) ==
    {[row EXCEPT !.status = "succeeded", !.result = TRUE, !.error = FALSE],
     IF row.attempts < MaxAttempts
     THEN [row EXCEPT !.status = "queued", !.error = TRUE, !.retries = @ + 1]
     ELSE [row EXCEPT !.status = "failed", !.error = TRUE]}

\* A request submits once and a start recovers once; a worker claims, and saves what
\* it has claimed.
CallsOf(c) ==
    CASE c \in Requester -> {Op("create", Fresh, KeyOf[c], Absent)}
      [] c \in Starter   -> {Op("recover", NoOp.task, NoKey, Absent)}
      [] c \in WorkerId /\ calls[c].pc = "idle" -> {Op("claim", t, NoKey, Absent) : t \in Drawn}
      [] c \in WorkerId /\ calls[c].pc # "idle" ->
            {Op("save", t, NoKey, copy) :
                t \in calls[c].answer.tasks, copy \in Outcomes(calls[c].answer.row)}

Call(c) ==
    /\ calls[c].pc = "idle" \/ (c \in WorkerId /\ calls[c].pc = "answered")
    /\ \E op \in CallsOf(c) :
          calls' = [calls EXCEPT ![c] = [pc |-> "called", op |-> op, answer |-> NoAnswer]]
    /\ UNCHANGED table

\* A worker has no call behind it but the claim of what it executes.
Answered(c, answer) ==
    [calls EXCEPT ![c] =
        IF c \notin WorkerId THEN [@ EXCEPT !.pc = "answered", !.answer = answer]
        ELSE IF answer = NoAnswer THEN Idle
        ELSE [pc |-> "answered", op |-> NoOp, answer |-> answer]]

\* Those who wait get an exception, and those who have an answer lose it.
Raised(cs) ==
    [c \in Client |->
        IF c \notin cs \/ calls[c].pc = "idle" THEN calls[c]
        ELSE IF c \in WorkerId THEN Idle
        ELSE [calls[c] EXCEPT !.pc = "raised", !.answer = NoAnswer]]

\* The effect and the answer, which may get lost.
Apply(c) ==
    /\ calls[c].pc = "called"
    /\ \E effect \in Effects(c, table, calls[c].op) :
          /\ table' = effect[1]
          /\ calls' \in {Answered(c, effect[2]), Raised({c})}

\* An exception ends a call, or the end of their process several.
Raise(cs) == calls' = Raised(cs) /\ UNCHANGED table

\* A lease runs out.
Expire(t) ==
    /\ table[t].lease = "live"
    /\ table' = [table EXCEPT ![t].lease = "expired"]
    /\ UNCHANGED calls

TableInit ==
    /\ table = [t \in TaskId |-> Absent]
    /\ calls = [c \in Client |-> Idle]

TableNext ==
    \/ \E c \in Client : Call(c) \/ Apply(c)
    \/ \E cs \in SUBSET Client : Raise(cs)
    \/ \E t \in TaskId : Expire(t)

TableSpec == TableInit /\ [][TableNext]_tableVars
=============================================================================
