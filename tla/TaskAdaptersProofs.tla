------------------------- MODULE TaskAdaptersProofs -------------------------
(***************************************************************************)
(* Proofs about TaskAdapters, for every set of tasks, clients and processes *)
(* and every number of failures: both adapters keep the promise of          *)
(* TaskTable, requests that race with one key are told one task, and every  *)
(* lock is given back when the call that took it ends.                      *)
(***************************************************************************)
EXTENDS TaskAdapters, TLAPS

USE NoKeyAssumption, NoWorkerAssumption, MaxAttemptsAssumption, ClientAssumption,
    ProcessAssumption

Names == {"create", "claim", "save", "recover"}
OpType == [name : {"none"} \cup Names, task : TaskId, key : Key \cup {NoKey}, copy : AnyRow]
AnswerType == [tasks : SUBSET TaskId, row : AnyRow]
CallType == [pc : {"idle", "called", "answered", "raised"} \cup Places, op : OpType,
             answer : AnswerType]

----------------------------------------------------------------------------
(* What a call may do to the table.                                         *)

\* Rows are never removed and keep their keys; only a creation adds one, whose key
\* nobody has, and only a claim gives one to a worker; none is abandoned.
GoesOn(c, op, tb, tb2) ==
    /\ tb2 \in [TaskId -> AnyRow]
    /\ \A t \in TaskId :
          /\ tb[t].status # "absent" => tb2[t].status # "absent" /\ tb2[t].key = tb[t].key
          /\ tb[t].status = "absent" /\ tb2[t].status # "absent" =>
                /\ op.name = "create" /\ t = op.task /\ tb2[t].key = op.key
                /\ Existing(tb, op.key) = {}
          /\ tb2[t].status = "absent" => tb2[t].owner = NoWorker
          /\ \A w \in WorkerId : tb2[t].owner = w =>
                \/ /\ tb[t].owner = w /\ tb2[t].key = tb[t].key
                   /\ tb2[t].attempts = tb[t].attempts /\ tb2[t].recovered = tb[t].recovered
                \/ w = c /\ op.name = "claim" /\ t = op.task
          /\ Abandoned(tb2[t]) => Abandoned(tb[t])

\* The rows that are built from nothing are rows.
LEMMA RowsBuilt ==
    /\ Absent \in AnyRow
    /\ \A k \in Key \cup {NoKey} : Candidate(k) \in AnyRow
    /\ \A row \in AnyRow :
          /\ Requeued(row) \in AnyRow /\ Saved(row) \in AnyRow
          /\ \A w \in WorkerId : Claimed(row, w) \in AnyRow
          /\ \A copy \in AnyRow : MySQLSaved(row, copy) \in AnyRow
<1>1. Absent \in AnyRow
    BY DEF Absent, AnyRow, Statuses
<1>2. ASSUME NEW k \in Key \cup {NoKey} PROVE Candidate(k) \in AnyRow
    BY DEF Candidate, Absent, AnyRow, Statuses
<1>3. ASSUME NEW row \in AnyRow PROVE Requeued(row) \in AnyRow /\ Saved(row) \in AnyRow
    BY DEF Requeued, Saved, AnyRow, Statuses
<1>4. ASSUME NEW row \in AnyRow, NEW w \in WorkerId PROVE Claimed(row, w) \in AnyRow
    <2> DEFINE n == row.attempts + 1
    <2>1. n \in Nat /\ Claimed(row, w) = [row EXCEPT !.status = "running", !.attempts = n,
                                                   !.owner = w, !.lease = "live"]
        BY DEF Claimed, AnyRow
    <2> DEFINE counted == [row EXCEPT !.status = "running", !.attempts = n]
    <2> DEFINE owned == [counted EXCEPT !.owner = w]
    <2>2. Claimed(row, w) = [owned EXCEPT !.lease = "live"]
        BY <2>1
    <2> HIDE DEF n
    <2>3. counted \in AnyRow
        BY <2>1 DEF AnyRow, Statuses
    <2> HIDE DEF counted
    <2>4. owned \in AnyRow
        BY <2>3 DEF AnyRow
    <2> HIDE DEF owned
    <2>5. [owned EXCEPT !.lease = "live"] \in AnyRow
        BY <2>4 DEF AnyRow
    <2> QED
        BY <2>2, <2>5
<1>5. ASSUME NEW row \in AnyRow, NEW copy \in AnyRow PROVE MySQLSaved(row, copy) \in AnyRow
    BY DEF MySQLSaved, AnyRow, Statuses
<1> QED
    BY <1>1, <1>2, <1>3, <1>4, <1>5

\* What an update leaves as it is, and what it sets.
LEMMA RowsUpdated ==
    /\ Absent.status = "absent" /\ Absent.owner = NoWorker
    /\ \A k \in Key \cup {NoKey} :
          /\ Candidate(k).status = "queued" /\ Candidate(k).key = k
          /\ Candidate(k).owner = NoWorker
    /\ \A row \in AnyRow :
          /\ Requeued(row).status = "queued" /\ Requeued(row).key = row.key
          /\ Requeued(row).owner = NoWorker
          /\ Saved(row).status = row.status /\ Saved(row).key = row.key
          /\ Saved(row).owner = NoWorker /\ Saved(row).lease = "none"
          /\ \A w \in WorkerId :
                /\ Claimed(row, w).status = "running" /\ Claimed(row, w).key = row.key
                /\ Claimed(row, w).owner = w /\ Claimed(row, w).lease = "live"
BY DEF Absent, Candidate, Requeued, Saved, Claimed, AnyRow

\* Every effect of a call lets the table go on.
LEMMA EffectGoesOn ==
    ASSUME NEW c \in Client, NEW op \in OpType, op.name \in Names,
           op.name \in {"claim", "save"} => c \in WorkerId,
           NEW tb \in [TaskId -> AnyRow],
           \A t \in TaskId : tb[t].status = "absent" => tb[t].owner = NoWorker,
           op.name = "create" => tb[op.task].status = "absent",
           op.name = "save" =>
               /\ op.copy.status \in {"succeeded", "queued", "failed"}
               /\ tb[op.task].owner = c => op.copy.key = tb[op.task].key,
           NEW effect \in Effects(c, tb, op)
    PROVE  GoesOn(c, op, tb, effect[1]) /\ effect[2] \in AnswerType
<1> DEFINE t0 == op.task
<1> USE DEF Names
<1>0. t0 \in TaskId /\ op.key \in Key \cup {NoKey} /\ op.copy \in AnyRow
    BY DEF OpType
<1>1. CASE op.name = "create"
    <2>1. effect \in Created(tb, op)
        BY <1>1 DEF Effects
    <2>2. CASE Existing(tb, op.key) = {}
        <3>1. effect = <<[tb EXCEPT ![t0] = Candidate(op.key)], Answer({t0}, Candidate(op.key))>>
            BY <2>1, <2>2 DEF Created
        <3>2. Candidate(op.key) \in AnyRow
            BY <1>0, RowsBuilt
        <3>3. effect[1] = [tb EXCEPT ![t0] = Candidate(op.key)] /\ effect[1] \in [TaskId -> AnyRow]
            BY <3>1, <3>2
        <3>4. effect[2] \in AnswerType
            BY <1>0, <3>1, <3>2 DEF Answer, AnswerType
        <3>5. /\ effect[1][t0].status = "queued" /\ effect[1][t0].key = op.key
              /\ effect[1][t0].owner = NoWorker
              /\ \A t \in TaskId \ {t0} : effect[1][t] = tb[t]
            BY <1>0, <3>3, RowsUpdated
        <3> QED
            BY <1>0, <1>1, <2>2, <3>3, <3>4, <3>5 DEF GoesOn, Abandoned
    <2>3. CASE Existing(tb, op.key) # {}
        <3>1. PICK t \in Existing(tb, op.key) : effect = <<tb, Answer({t}, tb[t])>>
            BY <2>1, <2>3 DEF Created
        <3> QED
            BY <3>1 DEF GoesOn, Existing, Answer, AnswerType
    <2> QED
        BY <2>2, <2>3
<1>2. CASE op.name = "claim"
    <2>1. effect \in ClaimedBy(c, tb, t0)
        BY <1>2 DEF Effects
    <2>2. CASE Claimable(tb[t0])
        <3>1. effect = <<[tb EXCEPT ![t0] = Claimed(tb[t0], c)], Answer({t0}, Claimed(tb[t0], c))>>
            BY <1>0, <2>1, <2>2 DEF ClaimedBy
        <3>2. Claimed(tb[t0], c) \in AnyRow
            BY <1>0, <1>2, RowsBuilt
        <3>3. effect[1] = [tb EXCEPT ![t0] = Claimed(tb[t0], c)] /\ effect[1] \in [TaskId -> AnyRow]
            BY <3>1, <3>2
        <3>4. effect[2] \in AnswerType
            BY <1>0, <3>1, <3>2 DEF Answer, AnswerType
        <3>5. /\ tb[t0].status = "queued" /\ Claimed(tb[t0], c).status = "running"
              /\ Claimed(tb[t0], c).key = tb[t0].key
              /\ Claimed(tb[t0], c).owner = c /\ Claimed(tb[t0], c).lease = "live"
            BY <1>0, <1>2, <2>2, RowsUpdated DEF Claimable
        <3> QED
            BY <1>0, <1>2, <3>3, <3>4, <3>5 DEF GoesOn, Abandoned
    <2>3. CASE ~Claimable(tb[t0])
        <3>1. effect = <<tb, NoAnswer>>
            BY <2>1, <2>3 DEF ClaimedBy
        <3> QED
            BY <3>1, RowsBuilt DEF GoesOn, NoAnswer, Answer, AnswerType
    <2> QED
        BY <2>2, <2>3
<1>3. CASE op.name = "save"
    <2>1. effect = <<SaveTask(tb, t0, op.copy, c), NoAnswer>>
        BY <1>3 DEF Effects
    <2>2. effect[2] \in AnswerType
        BY <2>1, RowsBuilt DEF NoAnswer, Answer, AnswerType
    <2>3. CASE tb[t0].owner = c
        <3>1. effect[1] = [tb EXCEPT ![t0] = Saved(op.copy)] /\ Saved(op.copy) \in AnyRow
            BY <1>0, <2>1, <2>3, RowsBuilt DEF SaveTask
        <3>2. /\ Saved(op.copy).status \in {"succeeded", "queued", "failed"}
              /\ Saved(op.copy).key = tb[t0].key /\ Saved(op.copy).owner = NoWorker
              /\ Saved(op.copy).lease = "none"
            BY <1>0, <1>3, <2>3, RowsUpdated
        <3>3. tb[t0].status # "absent"
            BY <1>0, <1>3, <2>3
        <3> QED
            BY <1>0, <1>3, <2>2, <3>1, <3>2, <3>3 DEF GoesOn, Abandoned
    <2>4. CASE tb[t0].owner # c
        <3>1. effect[1] = tb
            BY <2>1, <2>4 DEF SaveTask
        <3> QED
            BY <2>2, <3>1 DEF GoesOn
    <2> QED
        BY <2>3, <2>4
<1>4. CASE op.name = "recover"
    <2>1. effect \in Recovered(tb)
        BY <1>4 DEF Effects
    <2>2. effect[1] = RecoverExpired(tb) /\ effect[2] \in AnswerType
        BY <2>1, RowsBuilt DEF Recovered, Answer, AnswerType
    <2>3. ASSUME NEW t \in TaskId
          PROVE  RecoverExpired(tb)[t] = IF Abandoned(tb[t]) THEN Requeued(tb[t]) ELSE tb[t]
        BY DEF RecoverExpired
    <2>4. RecoverExpired(tb) \in [TaskId -> AnyRow]
        BY <2>3, RowsBuilt DEF RecoverExpired
    <2>5. \A t \in TaskId : Abandoned(tb[t]) => tb[t].status = "running"
        BY DEF Abandoned
    <2>6. \A t \in TaskId : /\ Requeued(tb[t]).status = "queued" /\ Requeued(tb[t]).key = tb[t].key
                            /\ Requeued(tb[t]).owner = NoWorker
        BY RowsUpdated
    <2>7. \A t \in TaskId : ~Abandoned(Requeued(tb[t]))
        BY <2>6 DEF Abandoned
    <2> QED
        BY <2>2, <2>3, <2>4, <2>5, <2>6, <2>7 DEF GoesOn
<1> QED
    BY <1>1, <1>2, <1>3, <1>4

----------------------------------------------------------------------------
(* How the calls of the clients go on.                                      *)

\* The last call of a client that has none is a call.
LEMMA IdleTyped == Idle \in CallType /\ NoAnswer \in AnswerType /\ NoOp \in OpType
<1>1. (CHOOSE t \in TaskId : TRUE) \in TaskId
    BY TaskIdAssumption
<1>2. NoOp \in OpType
    BY <1>1, RowsBuilt DEF NoOp, Op, OpType, Names
<1>3. NoAnswer \in AnswerType
    BY RowsBuilt DEF NoAnswer, Answer, AnswerType
<1> QED
    BY <1>2, <1>3 DEF Idle, CallType

\* The calls are calls.
LEMMA CallsAreCalls ==
    ASSUME AdapterTypeOK
    PROVE  /\ calls \in [Client -> CallType]
           /\ \A c \in Client : OpOf(c) \in OpType /\ calls[c].answer \in AnswerType
<1>1. calls \in [Client -> CallType]
    BY DEF AdapterTypeOK, CallType, OpType, AnswerType, Names
<1> QED
    BY <1>1 DEF CallType, OpOf

\* An answer ends the call of one client.
LEMMA AnswerEnds ==
    ASSUME AdapterTypeOK, NEW c \in Client, NEW answer \in AnswerType
    PROVE  /\ Answered(c, answer) \in [Client -> CallType]
           /\ \A d \in Client \ {c} : Answered(c, answer)[d] = calls[d]
           /\ Answered(c, answer)[c].pc \in {"idle", "answered"}
           /\ Answered(c, answer)[c].pc = "answered" => Answered(c, answer)[c].answer = answer
           /\ c \in WorkerId /\ answer = NoAnswer => Answered(c, answer)[c].pc = "idle"
           /\ c \notin WorkerId => /\ Answered(c, answer)[c].pc = "answered"
                                 /\ Answered(c, answer)[c].op = calls[c].op
<1>1. calls \in [Client -> CallType]
    BY CallsAreCalls
<1>2. [calls[c] EXCEPT !.pc = "answered", !.answer = answer] \in CallType
    <2>1. \A call \in CallType : [call EXCEPT !.pc = "answered", !.answer = answer] \in CallType
        BY DEF CallType
    <2> QED
        BY <1>1, <2>1
<1>3. [pc |-> "answered", op |-> NoOp, answer |-> answer] \in CallType
    BY IdleTyped DEF CallType
<1>4. /\ [calls[c] EXCEPT !.pc = "answered", !.answer = answer].pc = "answered"
      /\ [calls[c] EXCEPT !.pc = "answered", !.answer = answer].op = calls[c].op
      /\ [calls[c] EXCEPT !.pc = "answered", !.answer = answer].answer = answer
    BY <1>1 DEF CallType
<1>5. Idle.pc = "idle"
    BY DEF Idle
<1> DEFINE new == IF c \notin WorkerId THEN [calls[c] EXCEPT !.pc = "answered", !.answer = answer]
                  ELSE IF answer = NoAnswer THEN Idle
                  ELSE [pc |-> "answered", op |-> NoOp, answer |-> answer]
<1>6. Answered(c, answer) = [calls EXCEPT ![c] = new]
    BY DEF Answered
<1>7. new \in CallType
    BY <1>2, <1>3, IdleTyped
<1>8. /\ new.pc \in {"idle", "answered"} /\ (new.pc = "answered" => new.answer = answer)
      /\ c \in WorkerId /\ answer = NoAnswer => new.pc = "idle"
      /\ c \notin WorkerId => new.pc = "answered" /\ new.op = calls[c].op
    BY <1>4, <1>5
<1> HIDE DEF new
<1> QED
    BY <1>1, <1>6, <1>7, <1>8

\* An exception ends the calls of several.
LEMMA ExceptionEnds ==
    ASSUME AdapterTypeOK, NEW cs \in SUBSET Client
    PROVE  /\ Raised(cs) \in [Client -> CallType]
           /\ \A d \in Client :
                 /\ d \notin cs \/ calls[d].pc = "idle" => Raised(cs)[d] = calls[d]
                 /\ d \in cs => Raised(cs)[d].pc \in {"idle", "raised"}
                 /\ d \in cs /\ d \notin WorkerId /\ calls[d].pc # "idle" =>
                       Raised(cs)[d].pc = "raised" /\ Raised(cs)[d].op = calls[d].op
<1>1. calls \in [Client -> CallType]
    BY CallsAreCalls
<1>2. ASSUME NEW d \in Client
      PROVE  /\ [calls[d] EXCEPT !.pc = "raised", !.answer = NoAnswer] \in CallType
             /\ [calls[d] EXCEPT !.pc = "raised", !.answer = NoAnswer].pc = "raised"
             /\ [calls[d] EXCEPT !.pc = "raised", !.answer = NoAnswer].op = calls[d].op
    BY <1>1, IdleTyped DEF CallType
<1>3. Idle.pc = "idle"
    BY DEF Idle
<1>4. ASSUME NEW d \in Client
      PROVE  Raised(cs)[d] = IF d \notin cs \/ calls[d].pc = "idle" THEN calls[d]
                             ELSE IF d \in WorkerId THEN Idle
                             ELSE [calls[d] EXCEPT !.pc = "raised", !.answer = NoAnswer]
    BY DEF Raised
<1>5. Raised(cs) \in [Client -> CallType]
    BY <1>1, <1>2, <1>4, IdleTyped DEF Raised
<1> QED
    BY <1>2, <1>3, <1>4, <1>5

\* The uuid a request draws is that of no other.
LEMMA FreshIsFresh ==
    ASSUME AdapterTypeOK, NEW c \in Requester, calls[c].pc = "idle"
    PROVE  Fresh \in TaskId /\ Fresh \notin Drawn
<1> DEFINE drawn == [d \in Requester |-> calls[d].op.task]
<1>1. Requester \subseteq Client
    BY DEF Client
<1>2. drawn \in [Requester -> TaskId]
    BY <1>1, CallsAreCalls DEF CallType, OpType
<1> HIDE DEF drawn
<1>3. PICK t \in TaskId : \A d \in Requester \ {c} : drawn[d] # t
    BY <1>2, TaskIdAssumption, Zenon
<1>4. t \notin Drawn
    BY <1>3 DEF Drawn, drawn
<1> QED
    BY <1>4 DEF Fresh

\* What a client calls.
LEMMA CallsBegun ==
    ASSUME AdapterTypeOK, NEW c \in Client, Call(c)
    PROVE  /\ calls[c].pc \in {"idle", "answered"} /\ table' = table
           /\ \E op \in CallsOf(c) :
                 /\ calls' = [calls EXCEPT ![c] = [pc |-> "called", op |-> op, answer |-> NoAnswer]]
                 /\ OpOf(c)' = op /\ calls'[c].pc = "called" /\ calls'[c].answer = NoAnswer
                 /\ op.name \in Names
                 /\ c \in Requester => op.name = "create" /\ op.task = Fresh /\ calls[c].pc = "idle"
                 /\ c \in Starter => op.name = "recover"
                 /\ c \in WorkerId => op.name \in {"claim", "save"}
                 /\ op.name = "save" =>
                       /\ calls[c].pc = "answered" /\ op.task \in calls[c].answer.tasks
                       /\ op.copy.status \in {"succeeded", "queued", "failed"}
                       /\ op.copy.key = calls[c].answer.row.key
                       /\ op.copy.attempts = calls[c].answer.row.attempts
                       /\ op.copy.recovered = calls[c].answer.row.recovered
           /\ calls' \in [Client -> CallType]
<1>1. calls \in [Client -> CallType]
    BY CallsAreCalls
<1>2. /\ calls[c].pc = "idle" \/ (c \in WorkerId /\ calls[c].pc = "answered")
      /\ table' = table
    BY DEF Call
<1>3. PICK op \in CallsOf(c) :
          calls' = [calls EXCEPT ![c] = [pc |-> "called", op |-> op, answer |-> NoAnswer]]
    BY DEF Call
<1>4. OpOf(c)' = op /\ calls'[c].pc = "called" /\ calls'[c].answer = NoAnswer
    BY <1>1, <1>3 DEF OpOf
<1>5. c \in WorkerId => c \notin Requester /\ c \notin Starter
    OBVIOUS
<1>6. CASE c \in Requester
    <2>1. op = Op("create", Fresh, KeyOf[c], Absent)
        BY <1>3, <1>6 DEF CallsOf
    <2>2. Fresh \in TaskId /\ KeyOf[c] \in Key \cup {NoKey}
        BY <1>2, <1>5, <1>6, FreshIsFresh, KeyOfAssumption
    <2>3. op \in OpType
        BY <2>1, <2>2, RowsBuilt DEF Op, OpType, Names
    <2>4. op.name = "create" /\ op.task = Fresh /\ calls[c].pc = "idle"
        BY <1>2, <1>5, <1>6, <2>1 DEF Op
    <2>5. calls' \in [Client -> CallType]
        BY <1>1, <1>3, <2>3, IdleTyped DEF CallType
    <2> QED
        BY <1>2, <1>3, <1>4, <1>5, <1>6, <2>4, <2>5 DEF Names
<1>7. CASE c \in Starter
    <2>1. op = Op("recover", NoOp.task, NoKey, Absent)
        BY <1>3, <1>7 DEF CallsOf
    <2>2. op \in OpType /\ op.name = "recover"
        BY <2>1, RowsBuilt, IdleTyped DEF Op, OpType, Names
    <2>3. calls' \in [Client -> CallType]
        BY <1>1, <1>3, <2>2, IdleTyped DEF CallType
    <2> QED
        BY <1>2, <1>3, <1>4, <1>5, <1>7, <2>2, <2>3 DEF Names
<1>8. CASE c \in WorkerId /\ calls[c].pc = "idle"
    <2>1. PICK t \in Drawn : op = Op("claim", t, NoKey, Absent)
        BY <1>3, <1>5, <1>8 DEF CallsOf
    <2>2. t \in TaskId
        BY <1>1 DEF Drawn, CallType, OpType, Client
    <2>3. op \in OpType /\ op.name = "claim"
        BY <2>1, <2>2, RowsBuilt DEF Op, OpType, Names
    <2>4. calls' \in [Client -> CallType]
        BY <1>1, <1>3, <2>3, IdleTyped DEF CallType
    <2> QED
        BY <1>2, <1>3, <1>4, <1>5, <1>8, <2>3, <2>4 DEF Names
<1>9. CASE c \in WorkerId /\ calls[c].pc = "answered"
    <2>1. PICK t \in calls[c].answer.tasks, copy \in Outcomes(calls[c].answer.row) :
              op = Op("save", t, NoKey, copy)
        BY <1>3, <1>5, <1>9 DEF CallsOf
    <2> DEFINE row == calls[c].answer.row
    <2>2. t \in TaskId /\ row \in AnyRow
        BY <1>1 DEF CallType, AnswerType
    <2> HIDE DEF row
    <2>3. /\ copy \in AnyRow
          /\ copy.status \in {"succeeded", "queued", "failed"} /\ copy.key = row.key
          /\ copy.attempts = row.attempts /\ copy.recovered = row.recovered
        <3> DEFINE n == row.retries + 1
        <3>1. n \in Nat
            BY <2>2 DEF AnyRow
        <3> HIDE DEF n
        <3>2. \/ copy = [row EXCEPT !.status = "succeeded", !.result = TRUE, !.error = FALSE]
              \/ copy = [row EXCEPT !.status = "queued", !.error = TRUE, !.retries = n]
              \/ copy = [row EXCEPT !.status = "failed", !.error = TRUE]
            BY <2>1, <2>2 DEF Outcomes, row, n, AnyRow
        <3> USE <2>2 DEF AnyRow, Statuses
        <3>3. CASE copy = [row EXCEPT !.status = "succeeded", !.result = TRUE, !.error = FALSE]
            BY <3>3
        <3>4. CASE copy = [row EXCEPT !.status = "queued", !.error = TRUE, !.retries = n]
            BY <3>1, <3>4
        <3>5. CASE copy = [row EXCEPT !.status = "failed", !.error = TRUE]
            BY <3>5
        <3> QED
            BY <3>2, <3>3, <3>4, <3>5
    <2>4. op \in OpType /\ op.name = "save" /\ op.task = t /\ op.copy = copy
        BY <2>1, <2>2, <2>3 DEF Op, OpType, Names
    <2>5. calls' \in [Client -> CallType]
        BY <1>1, <1>3, <2>4, IdleTyped DEF CallType
    <2> QED
        BY <1>2, <1>3, <1>4, <1>5, <1>9, <2>3, <2>4, <2>5 DEF Names, row
<1> QED
    BY <1>2, <1>6, <1>7, <1>8, <1>9 DEF Client

----------------------------------------------------------------------------
(* What clients see of a step: a call begins, goes on, takes effect at once *)
(* or ends with an exception, or a lease runs out.                          *)

Progresses(c) ==
    /\ UnderWay(c) /\ table' = table
    /\ calls' \in [Client -> CallType] /\ \A d \in Client \ {c} : calls'[d] = calls[d]
    /\ calls'[c].pc \in Places /\ calls'[c].op = calls[c].op

TakesEffect(c) ==
    /\ UnderWay(c)
    /\ \E effect \in Effects(c, table, OpOf(c)) :
          /\ table' = effect[1]
          /\ calls' \in {Answered(c, effect[2]), Raised({c})}

Moves ==
    \/ \E c \in Client : Call(c) \/ Progresses(c) \/ TakesEffect(c)
    \/ \E cs \in SUBSET Client : Raise(cs)
    \/ \E t \in TaskId : Expire(t)

\* A worker is no request and no start.
LEMMA ClientKinds ==
    /\ \A c \in Client : c \in WorkerId \/ c \in Requester \/ c \in Starter
    /\ \A c \in WorkerId : c \in Client /\ c \notin Requester /\ c \notin Starter
    /\ \A c \in Requester : c \in Client /\ c \notin WorkerId /\ c \notin Starter
    /\ \A c \in Starter : c \in Client /\ c \notin WorkerId /\ c \notin Requester
BY DEF Client

\* Clients call what is theirs to call.
LEMMA OpsFit ==
    ASSUME AdapterIInv, NEW c \in Client, UnderWay(c)
    PROVE  /\ OpOf(c).name \in Names /\ OpOf(c) \in OpType
           /\ c \in Requester <=> OpOf(c).name = "create"
           /\ c \in Starter <=> OpOf(c).name = "recover"
           /\ c \in WorkerId <=> OpOf(c).name \in {"claim", "save"}
<1>1. CASE c \in Requester
    BY <1>1, ClientKinds, CallsAreCalls DEF AdapterIInv, CallConsistent, Names
<1>2. CASE c \in Starter
    BY <1>2, ClientKinds, CallsAreCalls DEF AdapterIInv, CallConsistent, Names
<1>3. CASE c \in WorkerId
    BY <1>3, ClientKinds, CallsAreCalls DEF AdapterIInv, CallConsistent, Names
<1> QED
    BY <1>1, <1>2, <1>3, ClientKinds

\* The table goes on when a call takes effect.
LEMMA TableAfterEffect ==
    ASSUME AdapterIInv, NEW c \in Client, UnderWay(c), NEW effect \in Effects(c, table, OpOf(c))
    PROVE  GoesOn(c, OpOf(c), table, effect[1]) /\ effect[2] \in AnswerType
<1>1. table \in [TaskId -> AnyRow]
    BY DEF AdapterIInv, AdapterTypeOK
<1>2. \A t \in TaskId : table[t].status = "absent" => table[t].owner = NoWorker
    BY DEF AdapterIInv, TableConsistent
<1>3. OpOf(c).name = "create" => table[OpOf(c).task].status = "absent"
    BY OpsFit DEF AdapterIInv, RequestConsistent
<1>4. OpOf(c).name = "save" =>
          /\ OpOf(c).copy.status \in {"succeeded", "queued", "failed"}
          /\ table[OpOf(c).task].owner = c => OpOf(c).copy.key = table[OpOf(c).task].key
    BY OpsFit DEF AdapterIInv, WorkerConsistent, HoldsCopy
<1> QED
    BY <1>1, <1>2, <1>3, <1>4, OpsFit, EffectGoesOn

\* How rows move.
LEMMA RowsMove ==
    ASSUME AdapterIInv, Moves
    PROVE  /\ table' \in [TaskId -> AnyRow]
           /\ \A t \in TaskId :
                 /\ table[t].status # "absent" =>
                       table'[t].status # "absent" /\ table'[t].key = table[t].key
                 /\ table'[t].status = "absent" => table'[t].owner = NoWorker
                 /\ \A w \in WorkerId : table'[t].owner = w =>
                       \/ /\ table[t].owner = w /\ table'[t].key = table[t].key
                          /\ table'[t].attempts = table[t].attempts
                          /\ table'[t].recovered = table[t].recovered
                       \/ TakesEffect(w) /\ OpOf(w).name = "claim"
           /\ \A t \in TaskId : table[t].status = "absent" /\ table'[t].status # "absent" =>
                 \E c \in Requester :
                    /\ TakesEffect(c) /\ t = OpOf(c).task
                    /\ table'[t].key = OpOf(c).key /\ Existing(table, OpOf(c).key) = {}
                    /\ \A u \in TaskId \ {t} :
                          table[u].status = "absent" => table'[u].status = "absent"
<1>1. table \in [TaskId -> AnyRow]
      /\ \A t \in TaskId : table[t].status = "absent" => table[t].owner = NoWorker
    BY DEF AdapterIInv, AdapterTypeOK, TableConsistent
<1>2. CASE table' = table
    BY <1>1, <1>2
<1>3. ASSUME NEW c \in Client, TakesEffect(c)
      PROVE  GoesOn(c, OpOf(c), table, table') /\ (OpOf(c).name = "create" => c \in Requester)
    BY <1>3, TableAfterEffect, OpsFit DEF TakesEffect
<1>4. CASE \E c \in Client : TakesEffect(c)
    BY <1>3, <1>4 DEF GoesOn
<1>5. ASSUME NEW t \in TaskId, Expire(t)
      PROVE  /\ table' = [table EXCEPT ![t].lease = "expired"] /\ table' \in [TaskId -> AnyRow]
             /\ \A u \in TaskId : /\ table'[u].status = table[u].status /\ table'[u].key = table[u].key
                                  /\ table'[u].owner = table[u].owner
                                  /\ table'[u].attempts = table[u].attempts
                                  /\ table'[u].recovered = table[u].recovered
    BY <1>1, <1>5 DEF Expire, AnyRow
<1>6. CASE \E t \in TaskId : Expire(t)
    BY <1>1, <1>5, <1>6
<1> QED
    BY <1>2, <1>4, <1>6 DEF Moves, Call, Progresses, Raise

\* How calls move.
LEMMA CallsMove ==
    ASSUME AdapterIInv, Moves
    PROVE  /\ calls' \in [Client -> CallType]
           /\ \A d \in Client :
                 /\ d \in Requester /\ calls[d].pc # "idle" =>
                       calls'[d].pc # "idle" /\ OpOf(d)' = OpOf(d)
                 /\ UnderWay(d)' => \/ /\ UnderWay(d) /\ ~TakesEffect(d) /\ OpOf(d)' = OpOf(d)
                                       /\ calls'[d].pc = "called" => calls'[d] = calls[d]
                                    \/ Call(d)
                 /\ calls'[d].pc = "answered" => \/ calls'[d] = calls[d] /\ ~TakesEffect(d)
                                                \/ TakesEffect(d)
                 /\ calls'[d].pc # "idle" /\ calls[d].pc = "idle" => Call(d)
<1>1. calls \in [Client -> CallType] /\ AdapterTypeOK
    BY CallsAreCalls DEF AdapterIInv
<1>2. ASSUME NEW d \in Client, TakesEffect(d) PROVE calls'[d].pc \in {"idle", "answered", "raised"}
    BY <1>1, <1>2, TableAfterEffect, AnswerEnds, ExceptionEnds DEF TakesEffect
<1>3. ASSUME NEW c \in Client, Call(c)
      PROVE  /\ calls' \in [Client -> CallType] /\ calls[c].pc \in {"idle", "answered"}
             /\ calls'[c].pc = "called" /\ \A d \in Client \ {c} : calls'[d] = calls[d]
             /\ c \in Requester => calls[c].pc = "idle"
    BY <1>1, <1>3, CallsBegun
<1>4. ASSUME NEW c \in Client, TakesEffect(c)
      PROVE  /\ calls' \in [Client -> CallType] /\ \A d \in Client \ {c} : calls'[d] = calls[d]
             /\ calls[c].pc \in {"called"} \cup Places
             /\ c \in Requester => calls'[c].pc # "idle" /\ OpOf(c)' = OpOf(c)
    <2>1. PICK effect \in Effects(c, table, OpOf(c)) : calls' \in {Answered(c, effect[2]), Raised({c})}
        BY <1>4 DEF TakesEffect
    <2>2. effect[2] \in AnswerType /\ calls[c].pc \in {"called"} \cup Places /\ calls[c].pc # "idle"
        BY <1>4, TableAfterEffect DEF TakesEffect, UnderWay, Places
    <2>3. CASE calls' = Answered(c, effect[2])
        BY <1>1, <2>2, <2>3, AnswerEnds, ClientKinds DEF OpOf
    <2>4. CASE calls' = Raised({c})
        BY <1>1, <2>2, <2>4, ExceptionEnds, ClientKinds DEF OpOf
    <2> QED
        BY <2>1, <2>3, <2>4
<1> USE DEF UnderWay, OpOf, Places
<1>5. CASE \E c \in Client : Call(c)
    BY <1>2, <1>3, <1>5
<1>6. CASE \E c \in Client : Progresses(c)
    BY <1>1, <1>2, <1>6 DEF Progresses
<1>7. CASE \E c \in Client : TakesEffect(c)
    BY <1>2, <1>4, <1>7
<1>8. CASE \E cs \in SUBSET Client : Raise(cs)
    BY <1>1, <1>2, <1>8, ExceptionEnds, ClientKinds DEF Raise
<1>9. CASE \E t \in TaskId : Expire(t)
    BY <1>1, <1>2, <1>9 DEF Expire
<1> QED
    BY <1>5, <1>6, <1>7, <1>8, <1>9 DEF Moves

\* What a client is told belongs to the table it left behind.
LEMMA AnswersFit ==
    ASSUME AdapterIInv, NEW c \in Client, TakesEffect(c), calls'[c].pc = "answered"
    PROVE  \E t \in TaskId :
              /\ c \in Requester => /\ calls'[c].answer.tasks = {t} /\ table'[t].status # "absent"
                                    /\ table'[t].key = OpOf(c).key
              /\ c \in WorkerId => calls'[c].answer.tasks = {t} /\ calls'[c].answer.row = table'[t]
<1> USE DEF AdapterIInv
<1>1. PICK effect \in Effects(c, table, OpOf(c)) :
          table' = effect[1] /\ calls' \in {Answered(c, effect[2]), Raised({c})}
    BY DEF TakesEffect
<1>2. UnderWay(c) /\ effect[2] \in AnswerType /\ OpOf(c) \in OpType /\ table \in [TaskId -> AnyRow]
    BY TableAfterEffect, CallsAreCalls DEF TakesEffect, AdapterTypeOK
<1>3. calls' = Answered(c, effect[2]) /\ calls'[c].answer = effect[2]
      /\ (c \in WorkerId => effect[2] # NoAnswer)
    BY <1>1, <1>2, AnswerEnds, ExceptionEnds
<1>4. CASE c \in Requester
    <2>1. effect \in Created(table, OpOf(c)) /\ c \notin WorkerId
        BY <1>2, <1>4, OpsFit, ClientKinds DEF Effects
    <2> DEFINE t0 == OpOf(c).task
               k == OpOf(c).key
    <2>2. t0 \in TaskId /\ k \in Key \cup {NoKey}
        BY <1>2 DEF OpType
    <2>3. CASE Existing(table, k) = {}
        <3>1. effect = <<[table EXCEPT ![t0] = Candidate(k)], Answer({t0}, Candidate(k))>>
            BY <2>1, <2>3 DEF Created
        <3>2. table'[t0] = Candidate(k) /\ calls'[c].answer.tasks = {t0}
            BY <1>1, <1>2, <1>3, <2>2, <3>1 DEF Answer
        <3> QED
            BY <2>1, <2>2, <3>2, RowsUpdated
    <2>4. CASE Existing(table, k) # {}
        <3>1. PICK t \in Existing(table, k) : effect = <<table, Answer({t}, table[t])>>
            BY <2>1, <2>4 DEF Created
        <3> QED
            BY <1>1, <1>3, <2>1, <3>1 DEF Existing, Answer
    <2> QED
        BY <2>3, <2>4
<1>5. CASE c \in WorkerId
    <2> DEFINE t0 == OpOf(c).task
    <2>1. t0 \in TaskId /\ c \notin Requester /\ OpOf(c).name \in {"claim", "save"}
        BY <1>2, <1>5, OpsFit, ClientKinds DEF OpType
    <2>2. CASE OpOf(c).name = "save"
        BY <1>1, <1>3, <1>5, <2>2 DEF Effects
    <2>3. CASE OpOf(c).name = "claim"
        <3>1. effect \in ClaimedBy(c, table, t0)
            BY <2>3 DEF Effects
        <3>2. effect = <<[table EXCEPT ![t0] = Claimed(table[t0], c)], Answer({t0}, Claimed(table[t0], c))>>
            BY <1>2, <1>3, <1>5, <2>1, <3>1 DEF ClaimedBy
        <3> QED
            BY <1>1, <1>2, <1>3, <2>1, <3>2 DEF Answer
    <2> QED
        BY <2>1, <2>2, <2>3
<1>6. CASE c \in Starter
    BY <1>6, ClientKinds, TaskIdAssumption
<1> QED
    BY <1>4, <1>5, <1>6, ClientKinds

\* The table stays consistent.
LEMMA TableStaysConsistent ==
    ASSUME AdapterIInv, Moves
    PROVE  TableConsistent'
<1> USE DEF AdapterIInv
<1>1. Drawn \subseteq Drawn'
    <2> SUFFICES ASSUME NEW d \in Requester, calls[d].pc # "idle" PROVE calls[d].op.task \in Drawn'
        BY DEF Drawn
    <2> QED
        BY CallsMove, ClientKinds DEF Drawn, OpOf
<1>2. ASSUME NEW t \in TaskId, table[t].status = "absent", table'[t].status # "absent"
      PROVE  t \in Drawn'
    <2>1. PICK c \in Requester : TakesEffect(c) /\ t = OpOf(c).task
        BY <1>2, RowsMove
    <2>2. calls[c].pc # "idle" /\ t = calls[c].op.task
        BY <2>1 DEF TakesEffect, UnderWay, OpOf, Places
    <2> QED
        BY <1>1, <2>2 DEF Drawn
<1>3. ASSUME NEW t \in TaskId
      PROVE  IF table'[t].status = "absent" THEN table'[t].owner = NoWorker ELSE t \in Drawn'
    BY <1>1, <1>2, RowsMove DEF TableConsistent
<1>4. ASSUME NEW t \in TaskId, NEW u \in TaskId, t # u, table'[t].status # "absent",
             table'[u].status # "absent", table'[t].key # NoKey
      PROVE  table'[u].key # table'[t].key
    <2>1. CASE table[t].status # "absent" /\ table[u].status # "absent"
        BY <1>4, <2>1, RowsMove DEF TableConsistent, Existing
    <2>2. ASSUME NEW v \in TaskId, NEW x \in TaskId, v # x, table[v].status = "absent",
                 table'[v].status # "absent", table'[x].status # "absent", table'[v].key # NoKey
          PROVE  table'[x].key # table'[v].key
        <3>1. PICK c \in Requester :
                 /\ table'[v].key = OpOf(c).key /\ Existing(table, OpOf(c).key) = {}
                 /\ \A y \in TaskId \ {v} : table[y].status = "absent" => table'[y].status = "absent"
            BY <2>2, RowsMove
        <3>2. table[x].status # "absent" /\ table'[x].key = table[x].key
            BY <2>2, <3>1, RowsMove
        <3> QED
            BY <2>2, <3>1, <3>2 DEF Existing
    <2> QED
        BY <1>4, <2>1, <2>2
<1> QED
    BY <1>3, <1>4 DEF TableConsistent, Existing

\* Calls stay consistent.
LEMMA CallsStayConsistent ==
    ASSUME AdapterIInv, Moves, NEW d \in Client
    PROVE  CallConsistent(d)'
<1> USE DEF AdapterIInv
<1>1. CASE Call(d)
    <2>1. /\ calls'[d].pc = "called" /\ calls'[d].answer = NoAnswer
          /\ d \in Requester => OpOf(d)'.name = "create"
          /\ d \in Starter => OpOf(d)'.name = "recover"
          /\ d \in WorkerId => OpOf(d)'.name \in {"claim", "save"}
        BY <1>1, CallsBegun
    <2> QED
        BY <2>1, ClientKinds DEF CallConsistent
<1>2. CASE ~Call(d)
    <2>1. UnderWay(d)' => /\ UnderWay(d) /\ OpOf(d)' = OpOf(d)
                          /\ calls'[d].pc = "called" => calls'[d] = calls[d]
        BY <1>2, CallsMove
    <2> QED
        BY <2>1, OpsFit, ClientKinds DEF CallConsistent, UnderWay
<1> QED
    BY <1>1, <1>2

\* Requests stay consistent.
LEMMA RequestsStayConsistent ==
    ASSUME AdapterIInv, Moves, NEW c \in Requester
    PROVE  RequestConsistent(c)'
<1> USE DEF AdapterIInv
<1>1. ASSUME NEW d \in Requester, calls'[d].pc # "idle"
      PROVE  \/ calls[d].pc # "idle" /\ OpOf(d)' = OpOf(d) /\ OpOf(d).task \in Drawn
             \/ /\ calls[d].pc = "idle" /\ Call(d) /\ OpOf(d)'.task = Fresh /\ Fresh \notin Drawn
                /\ table' = table /\ calls'[d].pc = "called" /\ Fresh \in TaskId
                /\ \A x \in Client \ {d} : calls'[x] = calls[x]
    <2>1. CASE calls[d].pc # "idle"
        BY <2>1, CallsMove, ClientKinds DEF Drawn, OpOf
    <2>2. CASE calls[d].pc = "idle"
        BY <1>1, <2>2, CallsMove, CallsBegun, FreshIsFresh, ClientKinds, CallsAreCalls
    <2> QED
        BY <2>1, <2>2
<1>2. ASSUME calls'[c].pc # "idle", NEW d \in Requester \ {c}, calls'[d].pc # "idle"
      PROVE  OpOf(d)'.task # OpOf(c)'.task
    <2>1. CASE calls[c].pc # "idle" /\ calls[d].pc # "idle"
        BY <1>1, <1>2, <2>1 DEF RequestConsistent
    <2>2. CASE calls[c].pc = "idle"
        BY <1>1, <1>2, <2>2, ClientKinds
    <2>3. CASE calls[d].pc = "idle"
        BY <1>1, <1>2, <2>3, ClientKinds
    <2> QED
        BY <2>1, <2>2, <2>3
<1>3. ASSUME UnderWay(c)' PROVE table'[OpOf(c)'.task].status = "absent"
    <2>1. CASE calls[c].pc = "idle"
        BY <1>1, <1>3, <2>1 DEF TableConsistent, UnderWay, Places
    <2>2. CASE calls[c].pc # "idle"
        <3>1. UnderWay(c) /\ ~TakesEffect(c) /\ OpOf(c)' = OpOf(c)
            BY <1>3, <2>2, CallsMove, CallsBegun, ClientKinds
        <3>2. table[OpOf(c).task].status = "absent" /\ OpOf(c).task \in TaskId
            BY <3>1, CallsAreCalls, ClientKinds DEF RequestConsistent, OpType
        <3>3. ASSUME table'[OpOf(c).task].status # "absent" PROVE FALSE
            <4>1. PICK d \in Requester : TakesEffect(d) /\ OpOf(c).task = OpOf(d).task
                BY <3>2, <3>3, RowsMove
            <4>2. c # d /\ calls[d].pc # "idle" /\ calls[c].pc # "idle"
                BY <3>1, <4>1 DEF TakesEffect, UnderWay, Places
            <4> QED
                BY <4>1, <4>2 DEF RequestConsistent
        <3> QED
            BY <3>1, <3>3
    <2> QED
        BY <2>1, <2>2
<1>4. ASSUME calls'[c].pc = "answered"
      PROVE  \E t \in TaskId : /\ calls'[c].answer.tasks = {t}
                               /\ table'[t].status # "absent" /\ table'[t].key = OpOf(c)'.key
    <2>1. CASE TakesEffect(c)
        <3>1. calls[c].pc # "idle"
            BY <2>1 DEF TakesEffect, UnderWay, Places
        <3> QED
            BY <1>4, <2>1, <3>1, AnswersFit, CallsMove, ClientKinds
    <2>2. CASE ~TakesEffect(c)
        <3>1. calls'[c] = calls[c] /\ OpOf(c)' = OpOf(c)
            BY <1>4, <2>2, CallsMove, ClientKinds DEF OpOf
        <3> QED
            BY <1>4, <3>1, RowsMove DEF RequestConsistent
    <2> QED
        BY <2>1, <2>2
<1> QED
    BY <1>2, <1>3, <1>4 DEF RequestConsistent

\* Workers stay consistent.
LEMMA WorkersStayConsistent ==
    ASSUME AdapterIInv, Moves, NEW w \in WorkerId
    PROVE  WorkerConsistent(w)'
<1> USE DEF AdapterIInv
<1>1. ASSUME UnderWay(w)', OpOf(w)'.name = "save"
      PROVE  /\ HoldsCopy(w, OpOf(w).task, OpOf(w).copy)'
             /\ OpOf(w)'.copy.status \in {"succeeded", "queued", "failed"}
    <2>1. CASE Call(w)
        <3>1. /\ table' = table /\ calls[w].pc = "answered"
              /\ OpOf(w)'.task \in calls[w].answer.tasks
              /\ OpOf(w)'.copy.status \in {"succeeded", "queued", "failed"}
              /\ OpOf(w)'.copy.key = calls[w].answer.row.key
              /\ OpOf(w)'.copy.attempts = calls[w].answer.row.attempts
              /\ OpOf(w)'.copy.recovered = calls[w].answer.row.recovered
            BY <1>1, <2>1, CallsBegun, ClientKinds
        <3>2. HoldsCopy(w, OpOf(w)'.task, calls[w].answer.row)
            BY <3>1 DEF WorkerConsistent
        <3> QED
            BY <3>1, <3>2 DEF HoldsCopy
    <2>2. CASE ~Call(w)
        <3>1. UnderWay(w) /\ ~TakesEffect(w) /\ OpOf(w)' = OpOf(w)
            BY <1>1, <2>2, CallsMove, ClientKinds
        <3>2. /\ HoldsCopy(w, OpOf(w).task, OpOf(w).copy) /\ OpOf(w).task \in TaskId
              /\ OpOf(w).copy.status \in {"succeeded", "queued", "failed"}
            BY <1>1, <3>1, CallsAreCalls, ClientKinds DEF WorkerConsistent, OpType
        <3> QED
            BY <3>1, <3>2, RowsMove DEF HoldsCopy
    <2> QED
        BY <2>1, <2>2
<1>2. ASSUME calls'[w].pc = "answered"
      PROVE  \E t \in TaskId : calls'[w].answer.tasks = {t} /\ HoldsCopy(w, t, calls[w].answer.row)'
    <2>1. CASE TakesEffect(w)
        <3>1. PICK t \in TaskId : calls'[w].answer.tasks = {t} /\ calls'[w].answer.row = table'[t]
            BY <1>2, <2>1, AnswersFit, ClientKinds
        <3> QED
            BY <3>1 DEF HoldsCopy
    <2>2. CASE ~TakesEffect(w)
        <3>1. calls'[w] = calls[w]
            BY <1>2, <2>2, CallsMove, ClientKinds
        <3>2. PICK t \in TaskId : calls[w].answer.tasks = {t} /\ HoldsCopy(w, t, calls[w].answer.row)
            BY <1>2, <3>1 DEF WorkerConsistent
        <3> QED
            BY <2>2, <3>1, <3>2, RowsMove DEF HoldsCopy
    <2> QED
        BY <2>1, <2>2
<1> QED
    BY <1>1, <1>2 DEF WorkerConsistent

----------------------------------------------------------------------------
(* What the steps of an adapter are to its clients.                         *)

\* A call that goes on to another place.
LEMMA PlaceChanged ==
    ASSUME AdapterTypeOK, NEW c \in Client, NEW p \in Places, NEW answer \in AnswerType,
           UnderWay(c), table' = table,
           \/ calls' = [calls EXCEPT ![c].pc = p]
           \/ calls' = [calls EXCEPT ![c].pc = p, ![c].answer = answer]
    PROVE  /\ Progresses(c) /\ calls'[c].pc = p
           /\ calls' = [calls EXCEPT ![c].pc = p] => calls'[c].answer = calls[c].answer
           /\ calls' = [calls EXCEPT ![c].pc = p, ![c].answer = answer] => calls'[c].answer = answer
<1>1. calls \in [Client -> CallType]
    BY CallsAreCalls
<1>2. \A call \in CallType :
          /\ [call EXCEPT !.pc = p] \in CallType /\ [call EXCEPT !.pc = p].pc = p
          /\ [call EXCEPT !.pc = p].op = call.op /\ [call EXCEPT !.pc = p].answer = call.answer
          /\ [call EXCEPT !.pc = p, !.answer = answer] \in CallType
          /\ [call EXCEPT !.pc = p, !.answer = answer].pc = p
          /\ [call EXCEPT !.pc = p, !.answer = answer].op = call.op
          /\ [call EXCEPT !.pc = p, !.answer = answer].answer = answer
    BY DEF CallType
<1> DEFINE gone == [calls[c] EXCEPT !.pc = p]
           answered == [calls[c] EXCEPT !.pc = p, !.answer = answer]
<1>3. /\ gone \in CallType /\ gone.pc = p /\ gone.op = calls[c].op
      /\ gone.answer = calls[c].answer
      /\ answered \in CallType /\ answered.pc = p /\ answered.op = calls[c].op
      /\ answered.answer = answer
    BY <1>1, <1>2
<1>4. [calls EXCEPT ![c].pc = p] = [calls EXCEPT ![c] = gone]
    BY <1>1
<1>5. [calls EXCEPT ![c].pc = p, ![c].answer = answer] = [calls EXCEPT ![c] = answered]
    BY <1>1
<1> HIDE DEF gone, answered
<1>6. CASE calls' = [calls EXCEPT ![c] = gone]
    BY <1>1, <1>3, <1>4, <1>5, <1>6 DEF Progresses
<1>7. CASE calls' = [calls EXCEPT ![c] = answered]
    BY <1>1, <1>3, <1>4, <1>5, <1>7 DEF Progresses
<1> QED
    BY <1>4, <1>5, <1>6, <1>7

\* An effect is a table and an answer.
LEMMA EffectsArePairs ==
    ASSUME NEW c, NEW tb, NEW op, op.name \in Names, NEW effect \in Effects(c, tb, op)
    PROVE  effect = <<effect[1], effect[2]>>
<1>1. CASE op.name = "create"
    <2>1. effect \in Created(tb, op)
        BY <1>1 DEF Effects
    <2>2. CASE Existing(tb, op.key) = {}
        BY <2>1, <2>2 DEF Created
    <2>3. CASE Existing(tb, op.key) # {}
        <3>1. PICK t \in Existing(tb, op.key) : effect = <<tb, Answer({t}, tb[t])>>
            BY <2>1, <2>3 DEF Created
        <3> QED
            BY <3>1
    <2> QED
        BY <2>2, <2>3
<1>2. CASE op.name = "claim"
    BY <1>2 DEF Effects, ClaimedBy
<1>3. CASE op.name = "save"
    BY <1>3 DEF Effects
<1>4. CASE op.name = "recover"
    <2>1. effect \in Recovered(tb)
        BY <1>4 DEF Effects
    <2>2. \E x, y : effect = <<x, y>>
        BY <2>1 DEF Recovered
    <2> QED
        BY <2>2
<1> QED
    BY <1>1, <1>2, <1>3, <1>4 DEF Names

\* The JSON adapter's answer to a recovery is one of those the promise allows.
LEMMA JsonEffectsFit ==
    ASSUME AdapterIInv, NEW c \in Client, UnderWay(c)
    PROVE  JsonEffects(c) \subseteq Effects(c, table, OpOf(c))
<1>1. CASE OpOf(c).name # "recover"
    BY <1>1 DEF JsonEffects
<1>2. CASE OpOf(c).name = "recover"
    <2> DEFINE after == RecoverExpired(table)
               queued == {t \in TaskId : after[t].status = "queued"}
    <2>1. JsonEffects(c) = {<<after, Answer(queued, Absent)>>}
        BY <1>2 DEF JsonEffects, Queued
    <2>2. \A t \in TaskId : after[t] = IF Abandoned(table[t]) THEN Requeued(table[t]) ELSE table[t]
        BY DEF RecoverExpired
    <2>3. queued \in SUBSET {t \in TaskId : table[t].status # "absent"}
        BY <2>2 DEF Abandoned
    <2>4. {t \in TaskId : Abandoned(table[t])} \cup queued = queued
        BY <2>2, RowsUpdated DEF AdapterIInv, AdapterTypeOK
    <2> HIDE DEF queued, after
    <2>5. <<RecoverExpired(table), Answer({t \in TaskId : Abandoned(table[t])} \cup queued, Absent)>>
              \in Recovered(table)
        BY <2>3 DEF Recovered
    <2>6. <<after, Answer(queued, Absent)>> \in Recovered(table)
        BY <2>4, <2>5 DEF after
    <2> QED
        BY <1>2, <2>1, <2>6 DEF Effects
<1> QED
    BY <1>1, <1>2

\* A transaction that is about to commit has the effect of its call.
LEMMA TransactionFits ==
    ASSUME AdapterIInv, adapter = "mysql", NEW c \in Client, calls[c].pc = "committing"
    PROVE  /\ View(c) \in [TaskId -> AnyRow]
           /\ <<View(c), calls[c].answer>> \in Effects(c, table, OpOf(c))
<1> USE DEF AdapterIInv
<1> DEFINE t0 == OpOf(c).task
           k == OpOf(c).key
           copy == OpOf(c).copy
           answer == calls[c].answer
<1>1. /\ UnderWay(c) /\ TransactionConsistent(c) /\ calls[c].pc \in Places
      /\ OpOf(c) \in OpType /\ OpOf(c).name \in Names
    BY OpsFit, CallsAreCalls DEF UnderWay, Places
<1>2. /\ t0 \in TaskId /\ copy \in AnyRow /\ k \in Key \cup {NoKey}
      /\ table \in [TaskId -> AnyRow] /\ draft[c] \in [TaskId -> AnyRow]
    BY <1>1 DEF OpType, AdapterTypeOK
<1>3. View(c) \in [TaskId -> AnyRow]
      /\ \A t \in TaskId : View(c)[t] = IF t \in locks[c] THEN draft[c][t] ELSE table[t]
    BY <1>2 DEF View
<1>4. CASE OpOf(c).name = "claim"
    <2>1. /\ locks[c] = {t0} /\ Claimable(table[t0]) /\ draft[c][t0] = Claimed(table[t0], c)
          /\ answer = Answer({t0}, Claimed(table[t0], c))
        BY <1>1, <1>4 DEF TransactionConsistent, ClaimConsistent
    <2>2. View(c) = [table EXCEPT ![t0] = Claimed(table[t0], c)]
        BY <1>2, <1>3, <2>1
    <2>3. <<View(c), answer>> \in ClaimedBy(c, table, t0)
        BY <1>2, <2>1, <2>2 DEF ClaimedBy
    <2> QED
        BY <1>3, <1>4, <2>3 DEF Effects
<1>5. CASE OpOf(c).name = "save"
    <2>1. /\ locks[c] = {t0} /\ answer = NoAnswer
          /\ draft[c][t0] = IF table[t0].owner = c THEN MySQLSaved(table[t0], copy) ELSE table[t0]
        BY <1>1, <1>5 DEF TransactionConsistent, SaveConsistent
    <2>2. c \in WorkerId /\ HoldsCopy(c, t0, copy)
        BY <1>1, <1>5, OpsFit DEF WorkerConsistent
    <2>3. ASSUME table[t0].owner = c PROVE MySQLSaved(table[t0], copy) = Saved(copy)
        <3>1. \A row \in AnyRow, new \in AnyRow :
                 /\ new.key = row.key /\ new.attempts = row.attempts
                 /\ new.recovered = row.recovered
                 => MySQLSaved(row, new) = Saved(new)
            <4> SUFFICES ASSUME NEW row \in AnyRow, NEW new \in AnyRow,
                                new.key = row.key, new.attempts = row.attempts,
                                new.recovered = row.recovered
                         PROVE  MySQLSaved(row, new) = Saved(new)
                OBVIOUS
            <4> DEFINE a == MySQLSaved(row, new)
                       b == Saved(new)
            <4>1. a \in AnyRow /\ b \in AnyRow
                BY RowsBuilt
            <4>2. /\ a.status = b.status /\ a.key = b.key /\ a.attempts = b.attempts
                  /\ a.retries = b.retries /\ a.owner = b.owner /\ a.lease = b.lease
                  /\ a.recovered = b.recovered /\ a.result = b.result /\ a.error = b.error
                BY DEF MySQLSaved, Saved, AnyRow
            <4> HIDE DEF a, b
            <4>3. a = b
                BY <4>1, <4>2 DEF AnyRow
            <4> QED
                BY <4>3 DEF a, b
        <3> QED
            BY <1>2, <2>2, <2>3, <3>1 DEF HoldsCopy
    <2>4. View(c) = SaveTask(table, t0, copy, c)
        <3>1. CASE table[t0].owner = c
            BY <1>2, <1>3, <2>1, <2>3, <3>1 DEF SaveTask
        <3>2. CASE table[t0].owner # c
            BY <1>2, <1>3, <2>1, <3>2 DEF SaveTask
        <3> QED
            BY <3>1, <3>2
    <2> QED
        BY <1>3, <1>5, <2>1, <2>4 DEF Effects
<1>6. CASE OpOf(c).name = "create"
    <2>1. CreateConsistent(c, t0, k) /\ table[t0].status = "absent"
        BY <1>1, <1>6, OpsFit DEF TransactionConsistent, RequestConsistent
    <2>2. CASE Existing(table, k) = {}
        <3>1. /\ t0 \in locks[c] /\ answer = Answer({t0}, Candidate(k))
              /\ \A u \in TaskId \cap locks[c] :
                    draft[c][u] = IF u = t0 THEN Candidate(k) ELSE table[u]
            BY <2>1, <2>2 DEF CreateConsistent
        <3>2. View(c) = [table EXCEPT ![t0] = Candidate(k)]
            BY <1>2, <1>3, <3>1
        <3> QED
            BY <1>3, <1>6, <2>2, <3>1, <3>2 DEF Effects, Created
    <2>3. CASE Existing(table, k) # {}
        <3>1. /\ \E u \in Existing(table, k) : answer = Answer({u}, table[u])
              /\ \A u \in TaskId \cap locks[c] : draft[c][u] = table[u]
            BY <2>1, <2>3 DEF CreateConsistent
        <3>2. View(c) = table
            BY <1>2, <1>3, <3>1
        <3> QED
            BY <1>3, <1>6, <2>3, <3>1, <3>2 DEF Effects, Created
    <2> QED
        BY <2>2, <2>3
<1>7. CASE OpOf(c).name = "recover"
    <2>1. RecoverConsistent(c)
        BY <1>1, <1>7 DEF TransactionConsistent
    <2> DEFINE after == RecoverExpired(table)
    <2>2. /\ after = [t \in TaskId |-> after[t]]
          /\ \A t \in TaskId : ~Abandoned(table[t]) => after[t] = table[t]
        BY DEF RecoverExpired
    <2>3. \A t \in TaskId : View(c)[t] = after[t]
        BY <1>3, <2>1, <2>2 DEF RecoverConsistent
    <2>4. View(c) = after
        BY <1>3, <2>2, <2>3
    <2>5. /\ answer.row = Absent /\ answer \in AnswerType
          /\ answer.tasks \in SUBSET {t \in TaskId : table[t].status # "absent"}
          /\ {t \in TaskId : Abandoned(table[t])} \cup answer.tasks = answer.tasks
        BY <2>1, CallsAreCalls DEF RecoverConsistent, AnswerType
    <2>6. answer = Answer({t \in TaskId : Abandoned(table[t])} \cup answer.tasks, Absent)
        BY <2>5 DEF Answer, AnswerType
    <2> HIDE DEF after, answer
    <2>7. <<after, answer>> \in Recovered(table)
        BY <2>5, <2>6 DEF Recovered, after
    <2> QED
        BY <1>3, <1>7, <2>4, <2>7 DEF Effects, answer
<1> QED
    BY <1>1, <1>4, <1>5, <1>6, <1>7 DEF Names

\* Who ends with an exception are clients.
LEMMA WhoAbandons ==
    ASSUME (\E c \in Client : StepRaises(c)) \/ Kill
    PROVE  \E cs \in SUBSET Client : Abandon(cs)
<1>1. ASSUME NEW c \in Client, StepRaises(c) PROVE \E cs \in SUBSET Client : Abandon(cs)
    <2>1. {c} \in SUBSET Client /\ Abandon({c})
        BY <1>1 DEF StepRaises
    <2> QED
        BY <2>1
<1>2. CASE Kill
    <2>1. PICK p \in IF adapter = "json" THEN {Client} ELSE Process : Abandon(p)
        BY <1>2 DEF Kill
    <2>2. p \in SUBSET Client
        BY <2>1
    <2> QED
        BY <2>1, <2>2
<1> QED
    BY <1>1, <1>2

\* The state of the adapter keeps its types when calls are abandoned.
LEMMA AbandonTyped ==
    ASSUME AdapterTypeOK, NEW cs \in SUBSET Client, Abandon(cs)
    PROVE  /\ writer' \in Client \cup {NoClient}
           /\ locks' \in [Client -> SUBSET (TaskId \cup Key)]
           /\ draft' \in [Client -> [TaskId -> AnyRow]]
           /\ adapter' = adapter
<1>1. NoTable \in [TaskId -> AnyRow]
    BY RowsBuilt DEF NoTable
<1> QED
    BY <1>1 DEF Abandon, AdapterTypeOK

\* A step of the JSON adapter is one its clients may see, and what the call that has
\* the lock is about to write stays what its call makes of the file.
LEMMA JsonStep ==
    ASSUME AdapterIInv, adapter = "json", AdapterNext
    PROVE  /\ Moves /\ adapter' = adapter
           /\ writer' \in Client \cup {NoClient}
           /\ locks' \in [Client -> SUBSET (TaskId \cup Key)]
           /\ draft' \in [Client -> [TaskId -> AnyRow]]
           /\ \A d \in Client : JsonConsistent(d)'
<1> USE DEF AdapterIInv
<1>0. /\ AdapterTypeOK /\ calls \in [Client -> CallType] /\ NoTable \in [TaskId -> AnyRow]
      /\ writer \in Client \cup {NoClient} /\ draft \in [Client -> [TaskId -> AnyRow]]
      /\ locks \in [Client -> SUBSET (TaskId \cup Key)]
      /\ \A d \in Client : JsonConsistent(d)
    BY CallsAreCalls, RowsBuilt DEF AdapterTypeOK, NoTable
<1>1. ASSUME NEW c \in Client, writer # c, calls'[c].pc \notin Places, writer' = writer,
             locks' = locks, draft' = draft, temporary' = temporary, table' = table,
             \A d \in Client \ {c} : calls'[d] = calls[d]
      PROVE  \A d \in Client : JsonConsistent(d)'
    BY <1>0, <1>1 DEF JsonConsistent, OpOf, Places
<1>2. ASSUME NEW c \in Client, Begins(c)
      PROVE  Moves /\ \A d \in Client : JsonConsistent(d)'
    <2>1. Call(c) /\ calls[c].pc \notin Places /\ calls'[c].pc = "called" /\ table' = table
          /\ \A d \in Client \ {c} : calls'[d] = calls[d]
        BY <1>0, <1>2, CallsBegun DEF Begins, Places
    <2> QED
        BY <1>0, <1>1, <1>2, <2>1 DEF Begins, Moves, JsonConsistent, Places
<1>3. ASSUME NEW c \in Client, JsonRead(c)
      PROVE  Moves /\ draft' \in [Client -> [TaskId -> AnyRow]]
             /\ \A d \in Client : JsonConsistent(d)'
    <2>1. UnderWay(c) /\ writer = NoClient /\ calls[c].pc \notin Places
        BY <1>3 DEF JsonRead, At, UnderWay, Places
    <2>2. PICK effect \in JsonEffects(c) :
             \/ table = effect[1] /\ calls' = Answered(c, effect[2]) /\ writer' = writer /\ draft' = draft
             \/ /\ writer' = c /\ draft' = [draft EXCEPT ![c] = effect[1]]
                /\ calls' = [calls EXCEPT ![c].pc = "opening", ![c].answer = effect[2]]
        BY <1>3 DEF JsonRead
    <2>3. /\ effect \in Effects(c, table, OpOf(c)) /\ effect[2] \in AnswerType
          /\ effect[1] \in [TaskId -> AnyRow] /\ effect = <<effect[1], effect[2]>>
        <3>1. effect \in Effects(c, table, OpOf(c))
            BY <2>1, <2>2, JsonEffectsFit
        <3>2. effect = <<effect[1], effect[2]>>
            BY <2>1, <3>1, OpsFit, EffectsArePairs
        <3> QED
            BY <2>1, <3>1, <3>2, TableAfterEffect DEF GoesOn
    <2>4. /\ table' = table /\ locks' = locks /\ temporary' = temporary
        BY <1>3 DEF JsonRead
    <2>5. CASE /\ table = effect[1] /\ calls' = Answered(c, effect[2]) /\ writer' = writer
               /\ draft' = draft
        <3>1. TakesEffect(c)
            BY <2>1, <2>3, <2>4, <2>5 DEF TakesEffect
        <3>2. calls'[c].pc \notin Places /\ \A d \in Client \ {c} : calls'[d] = calls[d]
            <4> DEFINE answer == effect[2]
            <4>1. answer \in AnswerType /\ calls' = Answered(c, answer)
                BY <2>3, <2>5
            <4> HIDE DEF answer
            <4>2. calls'[c].pc \in {"idle", "answered"} /\ \A d \in Client \ {c} : calls'[d] = calls[d]
                BY <1>0, <4>1, AnswerEnds
            <4> QED
                BY <4>2 DEF Places
        <3> QED
            BY <1>0, <1>1, <2>1, <2>4, <2>5, <3>1, <3>2 DEF Moves
    <2>6. CASE /\ writer' = c /\ draft' = [draft EXCEPT ![c] = effect[1]]
               /\ calls' = [calls EXCEPT ![c].pc = "opening", ![c].answer = effect[2]]
        <3>1. Progresses(c) /\ calls'[c].pc = "opening" /\ calls'[c].answer = effect[2]
            <4> DEFINE answer == effect[2]
            <4>1. answer \in AnswerType /\ "opening" \in Places
                  /\ calls' = [calls EXCEPT ![c].pc = "opening", ![c].answer = answer]
                BY <2>3, <2>6 DEF Places
            <4> HIDE DEF answer
            <4>2. Progresses(c) /\ calls'[c].pc = "opening" /\ calls'[c].answer = answer
                BY <1>0, <2>1, <2>4, <4>1, PlaceChanged
            <4> QED
                BY <4>2 DEF answer
        <3>2. draft' \in [Client -> [TaskId -> AnyRow]] /\ draft'[c] = effect[1]
            BY <1>0, <2>3, <2>6
        <3>3. JsonConsistent(c)'
            <4>1. <<draft'[c], calls'[c].answer>> = effect /\ OpOf(c)' = OpOf(c)
                BY <2>3, <3>1, <3>2 DEF OpOf, Progresses
            <4>2. locks'[c] = {} /\ writer' = c
                BY <1>0, <2>4, <2>6 DEF JsonConsistent
            <4> QED
                BY <2>3, <2>4, <3>1, <4>1, <4>2 DEF JsonConsistent, Places
        <3>4. ASSUME NEW d \in Client \ {c} PROVE JsonConsistent(d)'
            BY <1>0, <2>1, <2>4, <2>6, <3>1 DEF JsonConsistent, Progresses, Places
        <3> QED
            BY <3>1, <3>2, <3>3, <3>4 DEF Moves
    <2> QED
        BY <2>2, <2>4, <2>5, <2>6
<1>4. ASSUME NEW c \in Client, JsonOpen(c) \/ JsonWrite(c)
      PROVE  Moves /\ \A d \in Client : JsonConsistent(d)'
    <2>1. /\ writer' = writer /\ locks' = locks /\ draft' = draft /\ table' = table
          /\ calls[c].pc \in {"opening", "writing"}
          /\ calls[c].pc = "opening" => calls' = [calls EXCEPT ![c].pc = "writing"]
          /\ calls[c].pc = "writing" => calls' = [calls EXCEPT ![c].pc = "replacing"]
          /\ calls[c].pc = "writing" => temporary' = draft[c]
        BY <1>4 DEF JsonOpen, JsonWrite, At
    <2>2. UnderWay(c) /\ writer = c
        BY <1>0, <2>1 DEF JsonConsistent, UnderWay, Places
    <2>3. /\ Progresses(c) /\ calls'[c].answer = calls[c].answer
          /\ calls'[c].pc \in {"writing", "replacing"}
          /\ calls'[c].pc = "replacing" => calls[c].pc = "writing"
        BY <1>0, <2>1, <2>2, PlaceChanged, IdleTyped DEF Places
    <2>4. JsonConsistent(c)'
        BY <1>0, <2>1, <2>2, <2>3 DEF JsonConsistent, Progresses, OpOf, Places
    <2>5. ASSUME NEW d \in Client \ {c} PROVE JsonConsistent(d)'
        BY <1>0, <2>1, <2>2, <2>3 DEF JsonConsistent, Progresses, OpOf, Places
    <2> QED
        BY <2>3, <2>4, <2>5 DEF Moves
<1>5. ASSUME NEW c \in Client, JsonReplace(c)
      PROVE  Moves /\ \A d \in Client : JsonConsistent(d)'
    <2>1. /\ table' = temporary /\ writer' = NoClient /\ locks' = locks
          /\ calls' = Answered(c, calls[c].answer) /\ calls[c].pc = "replacing"
        BY <1>5 DEF JsonReplace, At
    <2>2. /\ writer = c /\ UnderWay(c) /\ temporary = draft[c]
          /\ <<draft[c], calls[c].answer>> \in Effects(c, table, OpOf(c))
        BY <1>0, <2>1 DEF JsonConsistent, UnderWay, Places
    <2>3. calls'[c].pc \notin Places /\ \A d \in Client \ {c} : calls'[d] = calls[d]
        <3> DEFINE answer == calls[c].answer
        <3>1. answer \in AnswerType /\ calls' = Answered(c, answer)
            BY <1>0, <2>1, CallsAreCalls
        <3> HIDE DEF answer
        <3>2. /\ calls'[c].pc \in {"idle", "answered"}
              /\ \A d \in Client \ {c} : calls'[d] = calls[d]
            BY <1>0, <3>1, AnswerEnds
        <3> QED
            BY <3>2 DEF Places
    <2>4. TakesEffect(c)
        BY <2>1, <2>2 DEF TakesEffect
    <2>5. \A d \in Client : calls'[d].pc \notin Places
        BY <1>0, <2>2, <2>3 DEF JsonConsistent
    <2> QED
        BY <1>0, <2>1, <2>4, <2>5 DEF Moves, JsonConsistent, Places
<1>6. ASSUME NEW cs \in SUBSET Client, Abandon(cs)
      PROVE  Moves /\ \A d \in Client : JsonConsistent(d)'
    <2>1. /\ Raise(cs) /\ calls' = Raised(cs) /\ table' = table /\ temporary' = temporary
          /\ writer' = IF writer \in cs THEN NoClient ELSE writer
          /\ \A d \in Client : locks'[d] = IF d \in cs THEN {} ELSE locks[d]
          /\ \A d \in Client : d \notin cs => draft'[d] = draft[d]
        BY <1>6 DEF Abandon, Raise
    <2>2. ASSUME NEW d \in Client \ cs PROVE JsonConsistent(d)'
        <3>1. calls'[d] = calls[d]
            BY <1>0, <2>1, ExceptionEnds
        <3>2. writer' = d <=> writer = d
            BY <2>1
        <3> QED
            BY <1>0, <2>1, <3>1, <3>2 DEF JsonConsistent, OpOf
    <2>3. ASSUME NEW d \in cs PROVE JsonConsistent(d)'
        <3>1. calls'[d].pc \in {"idle", "raised"} /\ d \in Client
            BY <1>0, <2>1, ExceptionEnds
        <3>2. writer' # d
            BY <2>1, <3>1
        <3> QED
            BY <2>1, <3>1, <3>2 DEF JsonConsistent, Places
    <2> QED
        BY <2>1, <2>2, <2>3 DEF Moves
<1>7. ASSUME NEW t \in TaskId, LeaseEnds(t)
      PROVE  Moves /\ \A d \in Client : JsonConsistent(d)'
    <2>1. /\ Expire(t) /\ calls' = calls /\ writer = NoClient /\ writer' = writer /\ locks' = locks
        BY <1>7 DEF LeaseEnds, Expire
    <2> QED
        BY <1>0, <2>1 DEF Moves, JsonConsistent, Places
<1>8. ASSUME NEW c \in Client, Proceed(c)
      PROVE  JsonRead(c) \/ JsonOpen(c) \/ JsonWrite(c) \/ JsonReplace(c)
    BY <1>8 DEF Proceed, At, SelectForUpdate, RefuseClaim, UpdateClaimed, Change, RecoverRow,
                    EndRecovery, Scans, LookUp, Commit
<1>9. CASE \E c \in Client : Begins(c)
    BY <1>0, <1>2, <1>9 DEF Begins
<1>10. CASE \E c \in Client : JsonRead(c)
    <2>1. PICK c \in Client : JsonRead(c)
        BY <1>10
    <2>2. adapter' = adapter /\ locks' = locks /\ writer' \in Client \cup {NoClient}
        BY <1>0, <2>1 DEF JsonRead
    <2> QED
        BY <1>0, <1>3, <2>1, <2>2
<1>11. CASE \E c \in Client : JsonOpen(c) \/ JsonWrite(c)
    BY <1>0, <1>4, <1>11 DEF JsonOpen, JsonWrite
<1>12. CASE \E c \in Client : JsonReplace(c)
    <2>1. PICK c \in Client : JsonReplace(c)
        BY <1>12
    <2>2. adapter' = adapter /\ locks' = locks /\ writer' = NoClient
          /\ draft' = [draft EXCEPT ![c] = NoTable]
        BY <2>1 DEF JsonReplace
    <2> QED
        BY <1>0, <1>5, <2>1, <2>2
<1>13. CASE (\E c \in Client : StepRaises(c)) \/ Kill
    BY <1>0, <1>6, <1>13, WhoAbandons, AbandonTyped
<1>14. CASE \E t \in TaskId : LeaseEnds(t)
    BY <1>0, <1>7, <1>14 DEF LeaseEnds
<1> QED
    BY <1>8, <1>9, <1>10, <1>11, <1>12, <1>13, <1>14 DEF AdapterNext

----------------------------------------------------------------------------
(* The transactions of the MySQL adapter.                                   *)

\* A transaction is left as it is by what touches neither it nor the table.
LEMMA TransactionKept ==
    ASSUME NEW d \in Client, TransactionConsistent(d), calls'[d] = calls[d],
           calls[d].pc \in Places => OpOf(d).name \in Names,
           locks'[d] = locks[d], draft'[d] = draft[d], table' = table
    PROVE  TransactionConsistent(d)'
<1> DEFINE t0 == OpOf(d).task
           k == OpOf(d).key
<1>1. OpOf(d)' = OpOf(d)
    BY DEF OpOf
<1>2. ClaimConsistent(d, t0) => ClaimConsistent(d, t0)'
    BY <1>1 DEF ClaimConsistent
<1>3. SaveConsistent(d, t0) => SaveConsistent(d, t0)'
    BY <1>1 DEF SaveConsistent
<1>4. CreateConsistent(d, t0, k) => CreateConsistent(d, t0, k)'
    BY <1>1 DEF CreateConsistent
<1>5. RecoverConsistent(d) => RecoverConsistent(d)'
    BY DEF RecoverConsistent
<1>6. CASE calls[d].pc \notin Places
    BY <1>6 DEF TransactionConsistent
<1>7. CASE calls[d].pc \in Places
    <2>1. OpOf(d).name = "claim" => TransactionConsistent(d)'
        BY <1>1, <1>2, <1>7 DEF TransactionConsistent
    <2>2. OpOf(d).name = "save" => TransactionConsistent(d)'
        BY <1>1, <1>3, <1>7 DEF TransactionConsistent
    <2>3. OpOf(d).name = "create" => TransactionConsistent(d)'
        BY <1>1, <1>4, <1>7 DEF TransactionConsistent
    <2>4. OpOf(d).name = "recover" => TransactionConsistent(d)'
        BY <1>1, <1>5, <1>7 DEF TransactionConsistent
    <2> QED
        BY <1>7, <2>1, <2>2, <2>3, <2>4 DEF Names
<1> QED
    BY <1>6, <1>7

\* Locks stay apart if only one client takes more, and those are free.
LEMMA LocksStayApart ==
    ASSUME LocksConsistent, NEW c \in Client, NEW rows, IsFree(c, rows),
           locks \in [Client -> SUBSET (TaskId \cup Key)], locks' = [locks EXCEPT ![c] = rows]
    PROVE  LocksConsistent'
<1>1. locks'[c] = rows /\ \A d \in Client \ {c} : locks'[d] = locks[d]
    OBVIOUS
<1> QED
    BY <1>1 DEF LocksConsistent, IsFree

\* What a call locks is rows and keys.
LEMMA NeedsTyped ==
    ASSUME AdapterIInv, NEW c \in Client, UnderWay(c)
    PROVE  Needs(c) \subseteq TaskId \cup Key
<1>1. OpOf(c) \in OpType /\ OpOf(c).name \in Names
    BY OpsFit
<1> QED
    BY <1>1 DEF Needs, OpType, Names, Existing

\* The clients that look up a key that is locked find the same tasks after a commit.
LEMMA KeyStays ==
    ASSUME AdapterIInv, adapter = "mysql", NEW c \in Client, calls[c].pc = "committing",
           GoesOn(c, OpOf(c), table, table'), NEW d \in Client \ {c}, calls[d].pc \in Places,
           OpOf(d).name = "create", calls'[d] = calls[d]
    PROVE  Existing(table, OpOf(d).key)' = Existing(table, OpOf(d).key)
<1> DEFINE k == OpOf(d).key
<1>0. OpOf(d)' = OpOf(d)
    BY DEF OpOf
<1>1. CASE k = NoKey
    BY <1>0, <1>1 DEF Existing
<1>2. CASE k # NoKey
    <2>1. k \in locks[d]
        BY <1>2 DEF AdapterIInv, TransactionConsistent, CreateConsistent
    <2>2. k \notin locks[c]
        BY <2>1 DEF AdapterIInv, LocksConsistent
    <2>3. OpOf(c).name = "create" => OpOf(c).key # k
        BY <1>2, <2>2 DEF AdapterIInv, TransactionConsistent, CreateConsistent, Places
    <2> QED
        BY <1>0, <2>3 DEF GoesOn, Existing
<1> QED
    BY <1>1, <1>2

\* A commit changes nothing that another transaction has locked or relies on.
LEMMA CommitKeepsOthers ==
    ASSUME AdapterIInv, adapter = "mysql", NEW c \in Client, Commit(c),
           GoesOn(c, OpOf(c), table, table'), NEW d \in Client \ {c}, calls'[d] = calls[d]
    PROVE  TransactionConsistent(d)'
<1> USE DEF AdapterIInv
<1>1. /\ table' = View(c) /\ calls[c].pc = "committing" /\ locks'[d] = locks[d]
      /\ draft'[d] = draft[d] /\ OpOf(d)' = OpOf(d)
    BY DEF Commit, At, OpOf, AdapterTypeOK
<1>2. \A t \in TaskId \cap locks[d] : table'[t] = table[t]
    BY <1>1 DEF LocksConsistent, View
<1>3. CASE calls[d].pc \notin Places
    BY <1>1, <1>3 DEF TransactionConsistent
<1>4. CASE calls[d].pc \in Places
    <2> DEFINE t0 == OpOf(d).task
               k == OpOf(d).key
    <2>1. /\ OpOf(d).name \in Names /\ OpOf(d) \in OpType /\ t0 \in TaskId
        BY <1>4, OpsFit DEF UnderWay, OpType
    <2>2. CASE OpOf(d).name = "claim"
        <3>1. ClaimConsistent(d, t0)
            BY <1>4, <2>2 DEF TransactionConsistent
        <3>2. table'[t0] = table[t0]
            BY <1>2, <2>1, <3>1 DEF ClaimConsistent
        <3>3. ClaimConsistent(d, t0)'
            BY <1>1, <3>1, <3>2 DEF ClaimConsistent
        <3> QED
            BY <1>1, <1>4, <2>2, <3>3 DEF TransactionConsistent
    <2>3. CASE OpOf(d).name = "save"
        <3>1. SaveConsistent(d, t0)
            BY <1>4, <2>3 DEF TransactionConsistent
        <3>2. table'[t0] = table[t0]
            BY <1>2, <2>1, <3>1 DEF SaveConsistent
        <3>3. SaveConsistent(d, t0)'
            BY <1>1, <3>1, <3>2 DEF SaveConsistent
        <3> QED
            BY <1>1, <1>4, <2>3, <3>3 DEF TransactionConsistent
    <2>4. CASE OpOf(d).name = "create"
        <3>1. CreateConsistent(d, t0, k) /\ Existing(table, k)' = Existing(table, k)
            BY <1>1, <1>4, <2>4, KeyStays DEF TransactionConsistent
        <3>2. \A u \in Existing(table, k) : table'[u] = table[u]
            BY <1>2, <3>1 DEF CreateConsistent, Existing
        <3>3. CreateConsistent(d, t0, k)'
            BY <1>1, <1>2, <3>1, <3>2 DEF CreateConsistent
        <3> QED
            BY <1>1, <1>4, <2>4, <3>3 DEF TransactionConsistent
    <2>5. CASE OpOf(d).name = "recover"
        <3>1. RecoverConsistent(d)
            BY <1>4, <2>5 DEF TransactionConsistent
        <3>2. \A t \in TaskId : Abandoned(table'[t]) => Abandoned(table[t])
            BY DEF GoesOn
        <3>3. \A t \in TaskId : table[t].status # "absent" => table'[t].status # "absent"
            BY DEF GoesOn
        <3>4. \A t \in TaskId \cap locks[d] : RecoverExpired(table)[t]' = RecoverExpired(table)[t]
            BY <1>2 DEF RecoverExpired
        <3>5. RecoverConsistent(d)'
            BY <1>1, <3>1, <3>2, <3>3, <3>4 DEF RecoverConsistent
        <3> QED
            BY <1>1, <1>4, <2>5, <3>5 DEF TransactionConsistent
    <2> QED
        BY <2>1, <2>2, <2>3, <2>4, <2>5 DEF Names
<1> QED
    BY <1>3, <1>4

\* A lease that ends is no business of a transaction.
LEMMA LeaseKeepsTransactions ==
    ASSUME AdapterIInv, adapter = "mysql", NEW t \in TaskId, LeaseEnds(t), NEW d \in Client
    PROVE  TransactionConsistent(d)'
<1> USE DEF AdapterIInv
<1>1. /\ calls' = calls /\ locks' = locks /\ draft' = draft /\ OpOf(d)' = OpOf(d)
      /\ t \notin locks[d] /\ table' = [table EXCEPT ![t].lease = "expired"]
      /\ d \in Starter => calls[d].pc \notin Places
    BY DEF LeaseEnds, Expire, OpOf
<1>2. /\ \A u \in TaskId \cap locks[d] : table'[u] = table[u]
      /\ \A u \in TaskId : table'[u].status = table[u].status /\ table'[u].key = table[u].key
    BY <1>1 DEF AdapterTypeOK, AnyRow
<1>3. CASE calls[d].pc \notin Places
    BY <1>1, <1>3 DEF TransactionConsistent
<1>4. CASE calls[d].pc \in Places
    <2> DEFINE t0 == OpOf(d).task
               k == OpOf(d).key
    <2>1. /\ OpOf(d).name \in Names /\ t0 \in TaskId /\ OpOf(d).name # "recover"
        BY <1>1, <1>4, OpsFit DEF UnderWay, OpType
    <2>2. CASE OpOf(d).name = "claim"
        <3>1. ClaimConsistent(d, t0)
            BY <1>4, <2>2 DEF TransactionConsistent
        <3>2. table'[t0] = table[t0]
            BY <1>2, <2>1, <3>1 DEF ClaimConsistent
        <3>3. ClaimConsistent(d, t0)'
            BY <1>1, <3>1, <3>2 DEF ClaimConsistent
        <3> QED
            BY <1>1, <1>4, <2>2, <3>3 DEF TransactionConsistent
    <2>3. CASE OpOf(d).name = "save"
        <3>1. SaveConsistent(d, t0)
            BY <1>4, <2>3 DEF TransactionConsistent
        <3>2. table'[t0] = table[t0]
            BY <1>2, <2>1, <3>1 DEF SaveConsistent
        <3>3. SaveConsistent(d, t0)'
            BY <1>1, <3>1, <3>2 DEF SaveConsistent
        <3> QED
            BY <1>1, <1>4, <2>3, <3>3 DEF TransactionConsistent
    <2>4. CASE OpOf(d).name = "create"
        <3>0. Existing(table, k)' = Existing(table, k)
            BY <1>1, <1>2 DEF Existing
        <3>1. CreateConsistent(d, t0, k) /\ Existing(table, k)' = Existing(table, k)
            BY <1>4, <2>4, <3>0 DEF TransactionConsistent
        <3>2. \A u \in Existing(table, k) : table'[u] = table[u]
            BY <1>2, <3>1 DEF CreateConsistent, Existing
        <3>3. /\ calls'[d] = calls[d] /\ locks'[d] = locks[d] /\ draft'[d] = draft[d]
              /\ \A u \in TaskId \cap locks[d] : table'[u] = table[u]
            BY <1>1, <1>2
        <3>4. \A u \in TaskId \cap locks'[d] :
                 draft'[d][u] = IF u = t0 /\ Existing(table, k)' = {} THEN Candidate(k)
                                ELSE table'[u]
            BY <3>1, <3>3 DEF CreateConsistent
        <3>5. calls'[d].pc = "committing" =>
                 \/ Existing(table, k)' = {} /\ calls'[d].answer = Answer({t0}, Candidate(k))
                 \/ \E u \in Existing(table, k)' : calls'[d].answer = Answer({u}, table'[u])
            BY <3>1, <3>2, <3>3 DEF CreateConsistent
        <3>6. CreateConsistent(d, t0, k)'
            BY <1>1, <3>1, <3>3, <3>4, <3>5 DEF CreateConsistent
        <3> QED
            BY <1>1, <1>4, <2>4, <3>6 DEF TransactionConsistent
    <2> QED
        BY <2>1, <2>2, <2>3, <2>4 DEF Names
<1> QED
    BY <1>3, <1>4

\* A claim that found its task, or did not.
LEMMA ClaimSteps ==
    ASSUME AdapterIInv, adapter = "mysql", NEW c \in Client,
           SelectForUpdate(c) \/ RefuseClaim(c) \/ UpdateClaimed(c)
    PROVE  /\ Progresses(c) \/ TakesEffect(c)
           /\ TransactionConsistent(c)' /\ table' = table
           /\ locks' \in [Client -> SUBSET (TaskId \cup Key)] /\ LocksConsistent'
           /\ \A d \in Client \ {c} : locks'[d] = locks[d] /\ draft'[d] = draft[d]
           /\ draft' \in [Client -> [TaskId -> AnyRow]]
<1> USE DEF AdapterIInv
<1> DEFINE t0 == OpOf(c).task
<1>1. /\ UnderWay(c) /\ table' = table /\ calls[c].pc \in {"called", "updating"}
      /\ calls \in [Client -> CallType] /\ table \in [TaskId -> AnyRow]
      /\ locks \in [Client -> SUBSET (TaskId \cup Key)]
      /\ draft \in [Client -> [TaskId -> AnyRow]] /\ OpOf(c) \in OpType /\ t0 \in TaskId
    BY CallsAreCalls DEF SelectForUpdate, RefuseClaim, UpdateClaimed, At, UnderWay, Places,
                         AdapterTypeOK, OpType
<1>2. CASE SelectForUpdate(c)
    <2>1. /\ OpOf(c).name = "claim" /\ Needs(c) = {t0} /\ IsFree(c, Needs(c)) /\ Claimable(table[t0])
          /\ locks' = [locks EXCEPT ![c] = Needs(c)] /\ draft' = [draft EXCEPT ![c] = table]
          /\ calls' = [calls EXCEPT ![c].pc = "updating"]
        BY <1>2 DEF SelectForUpdate, Needs
    <2>2. Progresses(c) /\ calls'[c].pc = "updating" /\ OpOf(c)' = OpOf(c)
        BY <1>1, <2>1, PlaceChanged, IdleTyped DEF Places, Progresses, OpOf
    <2>3. ClaimConsistent(c, t0)'
        BY <1>1, <2>1, <2>2 DEF ClaimConsistent
    <2>4. TransactionConsistent(c)'
        BY <2>1, <2>2, <2>3 DEF TransactionConsistent, Places
    <2>5. locks' \in [Client -> SUBSET (TaskId \cup Key)]
        BY <1>1, <2>1, NeedsTyped
    <2> QED
        BY <1>1, <2>1, <2>2, <2>4, <2>5, LocksStayApart
<1>3. CASE RefuseClaim(c)
    <2>1. /\ OpOf(c).name = "claim" /\ ~Claimable(table[t0]) /\ calls[c].pc = "called"
          /\ locks' = locks /\ draft' = draft /\ calls' = Answered(c, NoAnswer)
        BY <1>3 DEF RefuseClaim, At
    <2>2. <<table, NoAnswer>> \in Effects(c, table, OpOf(c))
        BY <2>1 DEF Effects, ClaimedBy
    <2>3. TakesEffect(c)
        BY <1>1, <2>1, <2>2 DEF TakesEffect
    <2>4. calls'[c].pc \notin Places
        BY <2>1, IdleTyped, AnswerEnds DEF Places
    <2>5. locks[c] = {}
        BY <2>1 DEF TransactionConsistent, Places
    <2> QED
        BY <1>1, <2>1, <2>3, <2>4, <2>5 DEF TransactionConsistent, LocksConsistent
<1>4. CASE UpdateClaimed(c)
    <2> DEFINE row == Claimed(table[t0], c)
               answer == Answer({t0}, row)
    <2>1. /\ calls[c].pc = "updating" /\ locks' = [locks EXCEPT ![c] = @ \cup {t0}]
          /\ draft' = [draft EXCEPT ![c][t0] = row]
          /\ calls' = [calls EXCEPT ![c].pc = "committing", ![c].answer = answer]
        BY <1>4 DEF UpdateClaimed, At
    <2>2. OpOf(c).name = "claim"
        <3>1. OpOf(c).name \in Names /\ TransactionConsistent(c)
            BY <1>1, OpsFit
        <3> QED
            BY <2>1, <3>1 DEF TransactionConsistent, SaveConsistent, CreateConsistent,
                              RecoverConsistent, Names, Places
    <2>3. locks[c] = {t0} /\ Claimable(table[t0]) /\ c \in WorkerId
        BY <1>1, <2>1, <2>2, OpsFit DEF TransactionConsistent, ClaimConsistent, Places
    <2>4. row \in AnyRow /\ answer \in AnswerType
        BY <1>1, <2>3, RowsBuilt DEF Answer, AnswerType
    <2>5. locks' = locks
        BY <1>1, <2>1, <2>3
    <2> HIDE DEF row
    <2>6. draft' \in [Client -> [TaskId -> AnyRow]] /\ draft'[c][t0] = row
        BY <1>1, <2>1, <2>4
    <2> HIDE DEF answer
    <2>7. Progresses(c) /\ calls'[c].pc = "committing" /\ OpOf(c)' = OpOf(c)
          /\ calls'[c].answer = answer
        BY <1>1, <2>1, <2>4, PlaceChanged DEF Places, Progresses, OpOf
    <2>8. ClaimConsistent(c, t0)'
        BY <1>1, <2>3, <2>5, <2>6, <2>7 DEF ClaimConsistent, answer, row
    <2>9. TransactionConsistent(c)'
        BY <2>2, <2>7, <2>8 DEF TransactionConsistent, Places
    <2> QED
        BY <1>1, <2>1, <2>5, <2>6, <2>7, <2>9 DEF LocksConsistent
<1> QED
    BY <1>2, <1>3, <1>4

\* The first statement of a save or a creation.
LEMMA ChangeStep ==
    ASSUME AdapterIInv, adapter = "mysql", NEW c \in Client, Change(c)
    PROVE  /\ Progresses(c)
           /\ TransactionConsistent(c)' /\ table' = table
           /\ locks' \in [Client -> SUBSET (TaskId \cup Key)] /\ LocksConsistent'
           /\ \A d \in Client \ {c} : locks'[d] = locks[d] /\ draft'[d] = draft[d]
           /\ draft' \in [Client -> [TaskId -> AnyRow]]
<1> USE DEF AdapterIInv
<1> DEFINE t0 == OpOf(c).task
           k == OpOf(c).key
           copy == OpOf(c).copy
<1>1. /\ UnderWay(c) /\ table' = table /\ calls[c].pc = "called" /\ calls[c].answer = NoAnswer
      /\ OpOf(c).name \in {"save", "create"} /\ IsFree(c, Needs(c))
      /\ locks' = [locks EXCEPT ![c] = Needs(c)]
      /\ draft' = [draft EXCEPT ![c] = Changed(c)]
    BY DEF Change, At, UnderWay, CallConsistent
<1>2. /\ calls \in [Client -> CallType] /\ table \in [TaskId -> AnyRow]
      /\ locks \in [Client -> SUBSET (TaskId \cup Key)]
      /\ draft \in [Client -> [TaskId -> AnyRow]] /\ OpOf(c) \in OpType /\ OpOf(c).name \in Names
      /\ t0 \in TaskId /\ k \in Key \cup {NoKey} /\ copy \in AnyRow
    BY <1>1, CallsAreCalls, OpsFit DEF AdapterTypeOK, OpType
<1>3. /\ OpOf(c).name = "save" => calls' = [calls EXCEPT ![c].pc = "committing"]
      /\ OpOf(c).name # "save" => calls' = [calls EXCEPT ![c].pc = "looking"]
    BY DEF Change
<1>4. /\ Progresses(c) /\ calls'[c].answer = NoAnswer /\ OpOf(c)' = OpOf(c)
      /\ calls'[c].pc = IF OpOf(c).name = "save" THEN "committing" ELSE "looking"
    <2> DEFINE p == IF OpOf(c).name = "save" THEN "committing" ELSE "looking"
    <2>1. calls' = [calls EXCEPT ![c].pc = p] /\ p \in Places
        BY <1>3 DEF Places
    <2> HIDE DEF p
    <2>2. Progresses(c) /\ calls'[c].pc = p /\ calls'[c].answer = NoAnswer
        BY <1>1, <2>1, PlaceChanged, IdleTyped
    <2>3. OpOf(c)' = OpOf(c)
        BY <2>2 DEF Progresses, OpOf
    <2> QED
        BY <2>2, <2>3 DEF p
<1>5. locks' \in [Client -> SUBSET (TaskId \cup Key)] /\ LocksConsistent' /\ locks'[c] = Needs(c)
    BY <1>1, <1>2, NeedsTyped, LocksStayApart
<1>6. Changed(c) \in [TaskId -> AnyRow]
      /\ (Changed(c) \in [TaskId -> AnyRow] => TransactionConsistent(c)')
    <2> DEFINE new == draft'[c]
    <2>1. ASSUME Changed(c) \in [TaskId -> AnyRow] PROVE new = Changed(c)
        BY <1>1, <1>2
    <2>2. CASE OpOf(c).name = "save"
        <3>1. Changed(c) = IF table[t0].owner = c
                           THEN [table EXCEPT ![t0] = MySQLSaved(table[t0], copy)] ELSE table
            BY <1>2, <2>2 DEF Changed
        <3>2. MySQLSaved(table[t0], copy) \in AnyRow
            BY <1>2, RowsBuilt
        <3>3. Changed(c) \in [TaskId -> AnyRow] /\ Needs(c) = {t0}
              /\ Changed(c)[t0] = IF table[t0].owner = c THEN MySQLSaved(table[t0], copy) ELSE table[t0]
            BY <1>2, <2>2, <3>1, <3>2 DEF Needs
        <3>4. SaveConsistent(c, t0)'
            BY <1>1, <1>4, <1>5, <2>1, <2>2, <3>3 DEF SaveConsistent
        <3> QED
            BY <1>4, <2>2, <3>3, <3>4 DEF TransactionConsistent, Places
    <2>3. CASE OpOf(c).name = "create"
        <3>1. Changed(c) = IF Existing(table, k) = {}
                           THEN [table EXCEPT ![t0] = Candidate(k)] ELSE table
            BY <1>2, <2>3 DEF Changed
        <3>2. Candidate(k) \in AnyRow
            BY <1>2, RowsBuilt
        <3>3. /\ Changed(c) \in [TaskId -> AnyRow]
              /\ Needs(c) = {t0} \cup ({k} \ {NoKey}) \cup Existing(table, k)
              /\ \A u \in TaskId : Changed(c)[u] =
                    IF u = t0 /\ Existing(table, k) = {} THEN Candidate(k) ELSE table[u]
            BY <1>2, <2>3, <3>1, <3>2 DEF Needs
        <3>4. Existing(table, k)' = Existing(table, k)
            BY <1>1, <1>4 DEF Existing
        <3>5. CreateConsistent(c, t0, k)'
            BY <1>1, <1>4, <1>5, <2>1, <2>3, <3>3, <3>4 DEF CreateConsistent
        <3> QED
            BY <1>4, <2>3, <3>3, <3>5 DEF TransactionConsistent, Places
    <2> QED
        BY <1>1, <2>2, <2>3
<1>7. draft' \in [Client -> [TaskId -> AnyRow]]
      /\ \A d \in Client \ {c} : locks'[d] = locks[d] /\ draft'[d] = draft[d]
    BY <1>1, <1>2, <1>6
<1> QED
    BY <1>1, <1>4, <1>5, <1>6, <1>7

\* The statement of a recovery: a row more, or the end of its scan.
LEMMA RecoverySteps ==
    ASSUME AdapterIInv, adapter = "mysql", NEW c \in Client, RecoverRow(c) \/ EndRecovery(c)
    PROVE  /\ Progresses(c)
           /\ TransactionConsistent(c)' /\ table' = table
           /\ locks' \in [Client -> SUBSET (TaskId \cup Key)] /\ LocksConsistent'
           /\ \A d \in Client \ {c} : locks'[d] = locks[d] /\ draft'[d] = draft[d]
           /\ draft' \in [Client -> [TaskId -> AnyRow]]
<1> USE DEF AdapterIInv
<1>1. /\ OpOf(c).name = "recover" /\ calls[c].pc \in {"called", "scanning"} /\ table' = table
      /\ calls \in [Client -> CallType] /\ table \in [TaskId -> AnyRow] /\ UnderWay(c)
      /\ locks \in [Client -> SUBSET (TaskId \cup Key)]
      /\ draft \in [Client -> [TaskId -> AnyRow]]
    BY CallsAreCalls DEF RecoverRow, EndRecovery, Scans, At, AdapterTypeOK, UnderWay, Places
\* The rows it has locked are drafted, and before the first there are none.
<1>2. \A t \in TaskId \cap locks[c] : draft[c][t] = RecoverExpired(table)[t]
    <2>1. CASE calls[c].pc = "called"
        BY <2>1 DEF TransactionConsistent, Places
    <2>2. CASE calls[c].pc = "scanning"
        BY <1>1, <2>2 DEF TransactionConsistent, RecoverConsistent, Places
    <2> QED
        BY <1>1, <2>1, <2>2
<1>3. \A t \in TaskId : RecoverExpired(table)[t] \in AnyRow
    BY <1>1, RowsBuilt DEF RecoverExpired
<1>4. RecoverExpired(table)' = RecoverExpired(table)
    BY <1>1 DEF RecoverExpired
<1>5. CASE RecoverRow(c)
    <2>1. PICK t \in TaskId \ locks[c] :
              /\ IsFree(c, {t}) /\ locks' = [locks EXCEPT ![c] = @ \cup {t}]
              /\ draft' = [draft EXCEPT ![c][t] = RecoverExpired(table)[t]]
        BY <1>5 DEF RecoverRow
    <2> DEFINE row == RecoverExpired(table)[t]
               held == locks[c] \cup {t}
    <2>2. calls' = [calls EXCEPT ![c].pc = "scanning"]
        BY <1>5 DEF RecoverRow
    <2>3. Progresses(c) /\ calls'[c].pc = "scanning" /\ OpOf(c)' = OpOf(c)
        BY <1>1, <2>2, PlaceChanged, IdleTyped DEF Places, Progresses, OpOf
    <2>4. held \subseteq TaskId \cup Key /\ row \in AnyRow /\ IsFree(c, held)
        BY <1>1, <1>3, <2>1 DEF IsFree, LocksConsistent
    <2>5. locks' = [locks EXCEPT ![c] = held]
        BY <2>1
    <2> HIDE DEF held
    <2>6. /\ locks' \in [Client -> SUBSET (TaskId \cup Key)] /\ locks'[c] = held
          /\ LocksConsistent' /\ \A d \in Client \ {c} : locks'[d] = locks[d]
        BY <1>1, <2>4, <2>5, LocksStayApart
    <2>7. draft' = [draft EXCEPT ![c][t] = row]
        BY <2>1
    <2> HIDE DEF row
    <2>8. /\ draft' \in [Client -> [TaskId -> AnyRow]] /\ draft'[c][t] = row
          /\ \A u \in TaskId \ {t} : draft'[c][u] = draft[c][u]
          /\ \A d \in Client \ {c} : draft'[d] = draft[d]
        BY <1>1, <2>4, <2>7
    <2>9. \A u \in TaskId \cap held : draft'[c][u] = RecoverExpired(table)[u]
        BY <1>2, <2>8 DEF row, held
    <2>10. RecoverConsistent(c)'
        BY <1>4, <2>3, <2>6, <2>9 DEF RecoverConsistent
    <2>11. TransactionConsistent(c)'
        BY <1>1, <2>3, <2>10 DEF TransactionConsistent, Places
    <2> QED
        BY <1>1, <2>3, <2>6, <2>8, <2>11
<1>6. CASE EndRecovery(c)
    <2>1. /\ calls' = [calls EXCEPT ![c].pc = "looking"] /\ locks' = locks /\ draft' = draft
          /\ \A t \in TaskId : Abandoned(table[t]) => t \in locks[c]
        BY <1>6 DEF EndRecovery
    <2>2. Progresses(c) /\ calls'[c].pc = "looking" /\ OpOf(c)' = OpOf(c)
        BY <1>1, <2>1, PlaceChanged, IdleTyped DEF Places, Progresses, OpOf
    <2>3. RecoverConsistent(c)'
        BY <1>1, <1>2, <1>4, <2>1, <2>2 DEF RecoverConsistent
    <2>4. TransactionConsistent(c)'
        BY <1>1, <2>2, <2>3 DEF TransactionConsistent, Places
    <2> QED
        BY <1>1, <2>1, <2>2, <2>4 DEF LocksConsistent
<1> QED
    BY <1>5, <1>6

\* The statement that looks up what a creation or a recovery answers.
LEMMA LookUpStep ==
    ASSUME AdapterIInv, adapter = "mysql", NEW c \in Client, LookUp(c)
    PROVE  /\ Progresses(c)
           /\ TransactionConsistent(c)' /\ table' = table
           /\ locks' = locks /\ draft' = draft
<1> USE DEF AdapterIInv
<1> DEFINE t0 == OpOf(c).task
           k == OpOf(c).key
           seen == View(c)
           found == {t \in TaskId : seen[t].status # "absent" /\ (t = t0 \/ t \in Existing(seen, k))}
<1>1. /\ calls[c].pc = "looking" /\ UnderWay(c) /\ table' = table /\ locks' = locks /\ draft' = draft
      /\ OpOf(c).name \in Names /\ OpOf(c) \in OpType /\ TransactionConsistent(c)
      /\ calls[c].pc \in Places
    BY CallsAreCalls, OpsFit DEF LookUp, At, UnderWay, Places
<1>2. /\ t0 \in TaskId /\ k \in Key \cup {NoKey} /\ table \in [TaskId -> AnyRow]
      /\ draft[c] \in [TaskId -> AnyRow]
    BY <1>1 DEF OpType, AdapterTypeOK
<1>3. seen \in [TaskId -> AnyRow]
      /\ \A t \in TaskId : seen[t] = IF t \in locks[c] THEN draft[c][t] ELSE table[t]
    BY <1>2 DEF View
<1>4. CASE OpOf(c).name = "create"
    <2>1. CreateConsistent(c, t0, k) /\ table[t0].status = "absent"
        BY <1>1, <1>4, OpsFit DEF TransactionConsistent, RequestConsistent
    <2>2. PICK answer \in {Answer({t}, seen[t]) : t \in found} :
              calls' = [calls EXCEPT ![c].pc = "committing", ![c].answer = answer]
        BY <1>4 DEF LookUp
    <2>3. PICK t \in found : answer = Answer({t}, seen[t])
        BY <2>2
    <2> HIDE DEF seen
    <2>4. answer \in AnswerType
        BY <1>3, <2>3 DEF Answer, AnswerType
    <2>5. Progresses(c) /\ calls'[c].pc = "committing" /\ calls'[c].answer = answer /\ OpOf(c)' = OpOf(c)
        BY <1>1, <2>2, <2>4, PlaceChanged DEF Places, Progresses, OpOf
    <2>6. \/ Existing(table, k) = {} /\ answer = Answer({t0}, Candidate(k))
          \/ \E u \in Existing(table, k) : answer = Answer({u}, table[u])
        <3>1. \A u \in TaskId :
                 seen[u] = IF u = t0 /\ Existing(table, k) = {} THEN Candidate(k) ELSE table[u]
            BY <1>3, <2>1 DEF CreateConsistent
        <3>2. CASE Existing(table, k) = {}
            <4>1. \A u \in TaskId \ {t0} : u \notin Existing(seen, k)
                BY <3>1, <3>2 DEF Existing
            <4>2. t = t0
                BY <4>1
            <4> QED
                BY <1>2, <2>3, <3>1, <3>2, <4>2
        <3>3. CASE Existing(table, k) # {}
            <4>1. seen[t] = table[t] /\ t # t0 /\ t \in Existing(seen, k)
                BY <2>1, <3>1, <3>3
            <4>2. t \in Existing(table, k)
                BY <4>1 DEF Existing
            <4> QED
                BY <2>3, <4>1, <4>2
        <3> QED
            BY <3>2, <3>3
    <2>7. Existing(table, k)' = Existing(table, k)
        BY <1>1, <2>5 DEF Existing
    <2>8. CreateConsistent(c, t0, k)'
        BY <1>1, <2>1, <2>5, <2>6, <2>7 DEF CreateConsistent
    <2> QED
        BY <1>1, <1>4, <2>5, <2>8 DEF TransactionConsistent, Places
<1>5. CASE OpOf(c).name = "recover"
    <2> DEFINE answer == Answer(Queued(seen), Absent)
    <2>1. RecoverConsistent(c) /\ calls' = [calls EXCEPT ![c].pc = "committing", ![c].answer = answer]
        BY <1>1, <1>5 DEF TransactionConsistent, LookUp
    <2>2. answer \in AnswerType /\ answer.row = Absent
          /\ answer.tasks = {t \in TaskId : seen[t].status = "queued"}
        BY RowsBuilt DEF Answer, AnswerType, Queued
    <2> HIDE DEF answer, seen
    <2>3. Progresses(c) /\ calls'[c].pc = "committing" /\ calls'[c].answer = answer /\ OpOf(c)' = OpOf(c)
        BY <1>1, <2>1, <2>2, PlaceChanged DEF Places, Progresses, OpOf
    <2>4. ASSUME NEW t \in TaskId
          PROVE  /\ Abandoned(table[t]) => t \in answer.tasks
                 /\ t \in answer.tasks => table[t].status # "absent"
        <3>1. RecoverExpired(table)[t] = IF Abandoned(table[t]) THEN Requeued(table[t]) ELSE table[t]
            BY DEF RecoverExpired
        <3>2. seen[t] = RecoverExpired(table)[t]
            BY <1>1, <1>3, <2>1, <3>1 DEF RecoverConsistent
        <3>3. Requeued(table[t]).status = "queued"
            BY <1>2, RowsUpdated
        <3>4. Abandoned(table[t]) => table[t].status = "running"
            BY DEF Abandoned
        <3> QED
            BY <2>2, <3>1, <3>2, <3>3, <3>4
    <2>5. RecoverConsistent(c)'
        BY <1>1, <2>1, <2>2, <2>3, <2>4 DEF RecoverConsistent
    <2> QED
        BY <1>1, <1>5, <2>3, <2>5 DEF TransactionConsistent, Places
<1>6. OpOf(c).name \in {"create", "recover"}
    BY <1>1 DEF TransactionConsistent, ClaimConsistent, SaveConsistent, Names
<1> QED
    BY <1>4, <1>5, <1>6

\* A step of the MySQL adapter is one its clients may see, and every transaction stays
\* about to do what its call does.
LEMMA MySQLStep ==
    ASSUME AdapterIInv, adapter = "mysql", AdapterNext
    PROVE  /\ Moves /\ adapter' = adapter /\ writer' = NoClient
           /\ locks' \in [Client -> SUBSET (TaskId \cup Key)]
           /\ draft' \in [Client -> [TaskId -> AnyRow]]
           /\ LocksConsistent' /\ \A d \in Client : TransactionConsistent(d)'
<1> USE DEF AdapterIInv
<1>0. /\ AdapterTypeOK /\ calls \in [Client -> CallType] /\ NoTable \in [TaskId -> AnyRow]
      /\ writer = NoClient /\ draft \in [Client -> [TaskId -> AnyRow]]
      /\ locks \in [Client -> SUBSET (TaskId \cup Key)] /\ LocksConsistent
      /\ \A d \in Client : TransactionConsistent(d)
      /\ \A d \in Client : calls[d].pc \in Places => OpOf(d).name \in Names
    BY CallsAreCalls, RowsBuilt, OpsFit DEF AdapterTypeOK, NoTable, UnderWay
<1>1. ASSUME NEW c \in Client, Begins(c)
      PROVE  Moves /\ \A d \in Client : TransactionConsistent(d)'
    <2>1. /\ Call(c) /\ calls[c].pc \notin Places /\ calls'[c].pc = "called" /\ table' = table
          /\ locks' = locks /\ draft' = draft
          /\ \A d \in Client \ {c} : calls'[d] = calls[d]
        BY <1>0, <1>1, CallsBegun DEF Begins, Places
    <2>2. TransactionConsistent(c)'
        BY <1>0, <2>1 DEF TransactionConsistent, Places
    <2>3. ASSUME NEW d \in Client \ {c} PROVE TransactionConsistent(d)'
        BY <1>0, <2>1, TransactionKept
    <2> QED
        BY <2>1, <2>2, <2>3 DEF Moves
<1>2. ASSUME NEW c \in Client, SelectForUpdate(c) \/ RefuseClaim(c) \/ UpdateClaimed(c)
                              \/ Change(c) \/ RecoverRow(c) \/ EndRecovery(c) \/ LookUp(c)
      PROVE  /\ Moves /\ adapter' = adapter /\ writer' = writer
             /\ locks' \in [Client -> SUBSET (TaskId \cup Key)]
             /\ draft' \in [Client -> [TaskId -> AnyRow]]
             /\ LocksConsistent' /\ \A d \in Client : TransactionConsistent(d)'
    <2>1. /\ adapter' = adapter /\ writer' = writer
        BY <1>2 DEF SelectForUpdate, RefuseClaim, UpdateClaimed, Change, RecoverRow, EndRecovery,
                    LookUp
    <2>2. /\ Progresses(c) \/ TakesEffect(c)
          /\ TransactionConsistent(c)' /\ table' = table
          /\ locks' \in [Client -> SUBSET (TaskId \cup Key)] /\ LocksConsistent'
          /\ \A d \in Client \ {c} : locks'[d] = locks[d] /\ draft'[d] = draft[d]
          /\ draft' \in [Client -> [TaskId -> AnyRow]]
        <3>1. CASE SelectForUpdate(c) \/ RefuseClaim(c) \/ UpdateClaimed(c)
            BY <3>1, ClaimSteps
        <3>2. CASE Change(c)
            BY <3>2, ChangeStep
        <3>3. CASE LookUp(c)
            BY <1>0, <3>3, LookUpStep DEF LocksConsistent
        <3>4. CASE RecoverRow(c) \/ EndRecovery(c)
            BY <3>4, RecoverySteps
        <3> QED
            BY <1>2, <3>1, <3>2, <3>3, <3>4
    <2>3. Moves
        BY <2>2 DEF Moves
    <2>4. \A d \in Client \ {c} : calls'[d] = calls[d]
        <3>1. CASE Progresses(c)
            BY <3>1 DEF Progresses
        <3>2. CASE TakesEffect(c)
            <4>1. PICK effect \in Effects(c, table, OpOf(c)) :
                      calls' \in {Answered(c, effect[2]), Raised({c})}
                BY <3>2 DEF TakesEffect
            <4>2. effect[2] \in AnswerType
                BY <3>2, <4>1, TableAfterEffect DEF TakesEffect
            <4> QED
                BY <1>0, <4>1, <4>2, AnswerEnds, ExceptionEnds
        <3> QED
            BY <2>2, <3>1, <3>2
    <2>5. ASSUME NEW d \in Client \ {c} PROVE TransactionConsistent(d)'
        BY <1>0, <2>2, <2>4, TransactionKept
    <2> QED
        BY <2>1, <2>2, <2>3, <2>5
<1>3. ASSUME NEW c \in Client, Commit(c)
      PROVE  /\ Moves /\ adapter' = adapter /\ writer' = writer
             /\ locks' \in [Client -> SUBSET (TaskId \cup Key)]
             /\ draft' \in [Client -> [TaskId -> AnyRow]]
             /\ LocksConsistent' /\ \A d \in Client : TransactionConsistent(d)'
    <2>1. /\ calls[c].pc = "committing" /\ table' = View(c) /\ locks' = [locks EXCEPT ![c] = {}]
          /\ draft' = [draft EXCEPT ![c] = NoTable] /\ adapter' = adapter /\ writer' = writer
          /\ calls' \in {Answered(c, calls[c].answer), Raised({c})}
        BY <1>3 DEF Commit, At
    <2>2. UnderWay(c) /\ <<View(c), calls[c].answer>> \in Effects(c, table, OpOf(c))
          /\ calls[c].answer \in AnswerType
        BY <2>1, TransactionFits, CallsAreCalls DEF UnderWay, Places
    <2>3. TakesEffect(c)
        BY <2>1, <2>2 DEF TakesEffect
    <2>4. GoesOn(c, OpOf(c), table, table')
        BY <2>1, <2>2, TableAfterEffect
    <2>5. calls'[c].pc \notin Places /\ \A d \in Client \ {c} : calls'[d] = calls[d]
        <3>1. CASE calls' = Answered(c, calls[c].answer)
            BY <1>0, <2>2, <3>1, AnswerEnds DEF Places
        <3>2. CASE calls' = Raised({c})
            <4> DEFINE cs == {c}
            <4>1. cs \in SUBSET Client /\ c \in cs /\ calls' = Raised(cs)
                BY <3>2
            <4> HIDE DEF cs
            <4>2. \A d \in Client :
                     /\ d \notin cs => Raised(cs)[d] = calls[d]
                     /\ d \in cs => Raised(cs)[d].pc \in {"idle", "raised"}
                BY <1>0, <4>1, ExceptionEnds
            <4>3. calls'[c].pc \in {"idle", "raised"}
                BY <4>1, <4>2
            <4>4. \A d \in Client \ {c} : d \notin cs
                BY DEF cs
            <4> QED
                BY <4>1, <4>2, <4>3, <4>4 DEF Places
        <3> QED
            BY <2>1, <3>1, <3>2
    <2>6. TransactionConsistent(c)'
        BY <1>0, <2>1, <2>5 DEF TransactionConsistent
    <2>7. ASSUME NEW d \in Client \ {c} PROVE TransactionConsistent(d)'
        BY <1>3, <2>4, <2>5, CommitKeepsOthers
    <2>8. LocksConsistent'
        BY <1>0, <2>1 DEF LocksConsistent
    <2> QED
        BY <1>0, <2>1, <2>3, <2>6, <2>7, <2>8 DEF Moves
<1>4. ASSUME NEW cs \in SUBSET Client, Abandon(cs)
      PROVE  Moves /\ LocksConsistent' /\ writer' = NoClient /\ \A d \in Client : TransactionConsistent(d)'
    <2>1. /\ Raise(cs) /\ calls' = Raised(cs) /\ table' = table
          /\ writer' = NoClient
          /\ \A d \in Client : locks'[d] = IF d \in cs THEN {} ELSE locks[d]
          /\ \A d \in Client : d \notin cs => draft'[d] = draft[d]
        BY <1>0, <1>4 DEF Abandon, Raise
    <2>2. ASSUME NEW d \in Client \ cs PROVE TransactionConsistent(d)'
        BY <1>0, <2>1, ExceptionEnds, TransactionKept
    <2>3. ASSUME NEW d \in cs PROVE TransactionConsistent(d)'
        <3>1. calls'[d].pc \in {"idle", "raised"} /\ d \in Client
            BY <1>0, <2>1, ExceptionEnds
        <3> QED
            BY <2>1, <3>1 DEF TransactionConsistent, Places
    <2>4. LocksConsistent'
        BY <1>0, <2>1 DEF LocksConsistent
    <2> QED
        BY <2>1, <2>2, <2>3, <2>4 DEF Moves
<1>5. ASSUME NEW c \in Client, Proceed(c)
      PROVE  \/ SelectForUpdate(c) \/ RefuseClaim(c) \/ UpdateClaimed(c) \/ Change(c)
             \/ RecoverRow(c) \/ EndRecovery(c) \/ LookUp(c) \/ Commit(c)
    BY <1>5 DEF Proceed, At, JsonRead, JsonOpen, JsonWrite, JsonReplace
<1>6. CASE \E c \in Client : Begins(c)
    BY <1>0, <1>1, <1>6 DEF Begins, LocksConsistent
<1>7. CASE \E c \in Client : Proceed(c)
    BY <1>0, <1>2, <1>3, <1>5, <1>7
<1>8. CASE (\E c \in Client : StepRaises(c)) \/ Kill
    BY <1>0, <1>4, <1>8, WhoAbandons, AbandonTyped
<1>9. CASE \E t \in TaskId : LeaseEnds(t)
    <2>1. PICK t \in TaskId : LeaseEnds(t)
        BY <1>9
    <2>2. /\ Expire(t) /\ locks' = locks /\ draft' = draft /\ adapter' = adapter /\ writer' = writer
        BY <2>1 DEF LeaseEnds
    <2> QED
        BY <1>0, <2>1, <2>2, LeaseKeepsTransactions DEF Moves, LocksConsistent
<1> QED
    BY <1>6, <1>7, <1>8, <1>9 DEF AdapterNext

----------------------------------------------------------------------------
(* Theorems.                                                                *)

\* The invariant holds initially.
LEMMA InitAdapter == AdapterInit => AdapterIInv
<1> SUFFICES ASSUME AdapterInit PROVE AdapterIInv
    OBVIOUS
<1> USE DEF AdapterInit, TableInit
<1>1. AdapterTypeOK
    <2>1. NoTable \in [TaskId -> AnyRow] /\ Idle \in CallType
        BY RowsBuilt, IdleTyped DEF NoTable
    <2>2. table \in [TaskId -> AnyRow] /\ calls \in [Client -> CallType]
        BY <2>1, RowsBuilt
    <2>3. /\ adapter \in {"json", "mysql"} /\ writer \in Client \cup {NoClient}
          /\ locks \in [Client -> SUBSET (TaskId \cup Key)]
          /\ draft \in [Client -> [TaskId -> AnyRow]]
        BY <2>1
    <2> QED
        BY <2>2, <2>3 DEF AdapterTypeOK, CallType, OpType, AnswerType, Names
<1>2. \A c \in Client : calls[c].pc = "idle"
    BY DEF Idle
<1>3. \A t \in TaskId : table[t].status = "absent" /\ table[t].owner = NoWorker
    BY DEF Absent
<1>4. TableConsistent
    BY <1>3 DEF TableConsistent
<1>5. ASSUME NEW c \in Client
      PROVE  /\ CallConsistent(c) /\ JsonConsistent(c) /\ TransactionConsistent(c)
             /\ c \in Requester => RequestConsistent(c)
             /\ c \in WorkerId => WorkerConsistent(c)
    BY <1>2 DEF CallConsistent, JsonConsistent, TransactionConsistent, RequestConsistent,
                WorkerConsistent, UnderWay, Places
<1>6. LocksConsistent
    BY DEF LocksConsistent
<1> QED
    BY <1>1, <1>4, <1>5, <1>6, ClientKinds DEF AdapterIInv

\* Every step is one that clients may see, and keeps the invariant.
LEMMA NextAdapter ==
    ASSUME AdapterIInv, AdapterNext
    PROVE  AdapterIInv' /\ Moves
<1>1. /\ Moves /\ adapter' = adapter /\ writer' \in Client \cup {NoClient}
      /\ locks' \in [Client -> SUBSET (TaskId \cup Key)]
      /\ draft' \in [Client -> [TaskId -> AnyRow]]
      /\ adapter = "json" => \A d \in Client : JsonConsistent(d)'
      /\ adapter = "mysql" => /\ writer' = NoClient /\ LocksConsistent'
                              /\ \A d \in Client : TransactionConsistent(d)'
    <2>1. adapter \in {"json", "mysql"}
        BY DEF AdapterIInv, AdapterTypeOK
    <2>2. CASE adapter = "json"
        BY <2>2, JsonStep
    <2>3. CASE adapter = "mysql"
        BY <2>3, MySQLStep
    <2> QED
        BY <2>1, <2>2, <2>3
<1>2. AdapterTypeOK'
    <2>1. table' \in [TaskId -> AnyRow] /\ calls' \in [Client -> CallType]
        BY <1>1, RowsMove, CallsMove
    <2>2. adapter' \in {"json", "mysql"}
        BY <1>1 DEF AdapterIInv, AdapterTypeOK
    <2> QED
        BY <1>1, <2>1, <2>2 DEF AdapterTypeOK, CallType, OpType, AnswerType, Names
<1>3. TableConsistent' /\ \A c \in Client : CallConsistent(c)'
    BY <1>1, TableStaysConsistent, CallsStayConsistent
<1>4. /\ \A c \in Requester : RequestConsistent(c)'
      /\ \A w \in WorkerId : WorkerConsistent(w)'
    BY <1>1, RequestsStayConsistent, WorkersStayConsistent
<1> QED
    BY <1>1, <1>2, <1>3, <1>4 DEF AdapterIInv

\* The invariant stays when nothing changes.
LEMMA StutterKeepsInvariant ==
    ASSUME AdapterIInv, UNCHANGED adapterVars
    PROVE  AdapterIInv'
<1> USE DEF AdapterIInv
<1>1. /\ table' = table /\ calls' = calls /\ adapter' = adapter /\ temporary' = temporary
      /\ writer' = writer /\ locks' = locks /\ draft' = draft
    BY DEF adapterVars, tableVars
<1>2. AdapterTypeOK'
    BY <1>1 DEF AdapterTypeOK
<1>3. TableConsistent'
    BY <1>1 DEF TableConsistent, Drawn
<1>4. ASSUME NEW c \in Client PROVE CallConsistent(c)'
    BY <1>1 DEF CallConsistent, UnderWay, OpOf
<1>5. ASSUME NEW c \in Requester PROVE RequestConsistent(c)'
    BY <1>1 DEF RequestConsistent, UnderWay, OpOf
<1>6. ASSUME NEW w \in WorkerId PROVE WorkerConsistent(w)'
    BY <1>1 DEF WorkerConsistent, UnderWay, OpOf, HoldsCopy
<1>7. ASSUME adapter = "json", NEW c \in Client PROVE JsonConsistent(c)'
    BY <1>1, <1>7 DEF JsonConsistent, OpOf
<1>8. ASSUME adapter = "mysql", NEW c \in Client PROVE TransactionConsistent(c)'
    BY <1>1, <1>8, OpsFit, TransactionKept DEF UnderWay
<1>9. adapter = "mysql" => writer' = NoClient /\ LocksConsistent'
    BY <1>1 DEF LocksConsistent
<1> QED
    BY <1>1, <1>2, <1>3, <1>4, <1>5, <1>6, <1>7, <1>8, <1>9

\* The strengthened invariant of both adapters, for every set of tasks and clients and
\* every number of failures.
THEOREM AdaptersInvariance == AdapterSpec => []AdapterIInv
<1>1. AdapterIInv /\ [AdapterNext]_adapterVars => AdapterIInv'
    <2> SUFFICES ASSUME AdapterIInv, [AdapterNext]_adapterVars PROVE AdapterIInv'
        OBVIOUS
    <2>1. CASE AdapterNext
        BY <2>1, NextAdapter
    <2>2. CASE UNCHANGED adapterVars
        BY <2>2, StutterKeepsInvariant
    <2> QED
        BY <2>1, <2>2
<1> QED
    BY <1>1, InitAdapter, PTL DEF AdapterSpec

\* Two requests that race with one key are told the same task: a task they were told is
\* stored with their key, and no key is that of two tasks.
THEOREM RacersAreToldOneTask == AdapterSpec => []OneKeyOneAnswer
<1>1. AdapterIInv => OneKeyOneAnswer
    <2> SUFFICES ASSUME AdapterIInv,
                        NEW c \in {q \in Requester : calls[q].pc = "answered" /\ calls[q].op.key # NoKey},
                        NEW d \in {q \in Requester : calls[q].pc = "answered" /\ calls[q].op.key # NoKey},
                        calls[c].op.key = calls[d].op.key
                 PROVE  calls[c].answer.tasks = calls[d].answer.tasks
        BY DEF OneKeyOneAnswer
    <2>1. PICK t \in TaskId : /\ calls[c].answer.tasks = {t} /\ table[t].status # "absent"
                              /\ table[t].key = calls[c].op.key
        BY DEF AdapterIInv, RequestConsistent, OpOf
    <2>2. PICK u \in TaskId : /\ calls[d].answer.tasks = {u} /\ table[u].status # "absent"
                              /\ table[u].key = calls[d].op.key
        BY DEF AdapterIInv, RequestConsistent, OpOf
    <2>3. u \in Existing(table, table[t].key) /\ table[t].key # NoKey
        BY <2>1, <2>2 DEF Existing
    <2>4. t = u
        BY <2>1, <2>3 DEF AdapterIInv, TableConsistent
    <2> QED
        BY <2>1, <2>2, <2>4
<1> QED
    BY <1>1, AdaptersInvariance, PTL

\* Every row, key and file is free again when the call that has locked it is over, however
\* it ends.
THEOREM LocksAreGivenBack == AdapterSpec => []LocksEndWithCalls
<1>1. AdapterIInv => LocksEndWithCalls
    <2> SUFFICES ASSUME AdapterIInv PROVE LocksEndWithCalls
        OBVIOUS
    <2>1. adapter \in {"json", "mysql"} /\ writer \in Client \cup {NoClient}
        BY DEF AdapterIInv, AdapterTypeOK
    <2>2. CASE adapter = "json"
        <3>1. \A c \in Client : JsonConsistent(c)
            BY <2>2 DEF AdapterIInv
        <3> QED
            BY <2>1, <3>1 DEF JsonConsistent, LocksEndWithCalls
    <2>3. CASE adapter = "mysql"
        <3>1. writer = NoClient /\ \A c \in Client : TransactionConsistent(c)
            BY <2>3 DEF AdapterIInv
        <3> QED
            BY <3>1 DEF TransactionConsistent, LocksEndWithCalls
    <2> QED
        BY <2>1, <2>2, <2>3
<1> QED
    BY <1>1, AdaptersInvariance, PTL

----------------------------------------------------------------------------
(* The promise: a call that is on its way has not begun to have an effect.  *)

\* The calls as the promise sees them.
Seen == [c \in Client |-> IF calls[c].pc \in Places
                          THEN [calls[c] EXCEPT !.pc = "called", !.answer = NoAnswer]
                          ELSE calls[c]]

\* What the promise says of tables and rows is what the adapters say.
LEMMA PromiseSpeaksOfTables ==
    /\ Promise!Client = Client /\ Promise!NoAnswer = NoAnswer /\ Promise!NoOp = NoOp
    /\ Promise!Idle = Idle
    /\ \A ts, row : Promise!Answer(ts, row) = Answer(ts, row)
    /\ \A name, t, k, copy : Promise!Op(name, t, k, copy) = Op(name, t, k, copy)
    /\ Promise!Absent = Absent
    /\ \A row : Promise!Outcomes(row) = Outcomes(row)
BY DEF Promise!Client, Promise!NoAnswer, Promise!NoOp, Promise!Idle, Promise!Answer, Promise!Op,
       Promise!Outcomes, Promise!Absent, Client, NoAnswer, NoOp, Idle, Answer, Op, Outcomes, Absent

\* Nor does it allow a call another effect.
LEMMA PromiseAllowsTheEffects ==
    ASSUME NEW c, NEW tb, NEW op, op.name \in Names
    PROVE  Promise!Effects(c, tb, op) = Effects(c, tb, op)
<1>1. CASE op.name = "create"
    <2>1. Promise!Existing(tb, op.key) = Existing(tb, op.key)
        BY DEF Existing, Promise!Existing
    <2>2. Promise!Candidate(op.key) = Candidate(op.key)
        BY DEF Candidate, Promise!Candidate, Absent, Promise!Absent
    <2>3. Promise!Created(tb, op) = Created(tb, op)
        BY <2>1, <2>2, Zenon DEF Created, Promise!Created, Answer, Promise!Answer
    <2> QED
        BY <1>1, <2>3 DEF Effects, Promise!Effects
<1>2. CASE op.name = "claim"
    BY <1>2, PromiseSpeaksOfTables
       DEF Effects, ClaimedBy, Promise!Effects, Promise!ClaimedBy, Claimable, Promise!Claimable,
           Claimed, Promise!Claimed
<1>3. CASE op.name = "save"
    BY <1>3, PromiseSpeaksOfTables
       DEF Effects, Promise!Effects, SaveTask, Promise!SaveTask, Saved, Promise!Saved
<1>4. CASE op.name = "recover"
    <2>1. Promise!RecoverExpired(tb) = RecoverExpired(tb)
        BY DEF RecoverExpired, Promise!RecoverExpired, Abandoned, Promise!Abandoned, Requeued,
               Promise!Requeued
    <2>2. \A t \in TaskId : Promise!Abandoned(tb[t]) = Abandoned(tb[t])
        BY DEF Abandoned, Promise!Abandoned
    <2>3. Promise!Absent = Absent
        BY DEF Absent, Promise!Absent
    <2>4. {t \in TaskId : Promise!Abandoned(tb[t])} = {t \in TaskId : Abandoned(tb[t])}
        BY <2>2
    <2> DEFINE given(after, back, row) ==
                   {<<after, [tasks |-> back \cup ts, row |-> row]>> :
                       ts \in SUBSET {t \in TaskId : tb[t].status # "absent"}}
    <2>5. Recovered(tb) = given(RecoverExpired(tb), {t \in TaskId : Abandoned(tb[t])}, Absent)
        BY Zenon DEF Recovered, Answer
    <2>6. Promise!Recovered(tb) = given(Promise!RecoverExpired(tb),
                                        {t \in TaskId : Promise!Abandoned(tb[t])}, Promise!Absent)
        BY Zenon DEF Promise!Recovered, Promise!Answer
    <2> HIDE DEF given
    <2>7. Promise!Recovered(tb) = Recovered(tb)
        BY <2>1, <2>3, <2>4, <2>5, <2>6, Zenon
    <2> QED
        BY <1>4, <2>7 DEF Effects, Promise!Effects
<1> QED
    BY <1>1, <1>2, <1>3, <1>4 DEF Names

\* A call whose place and answer are replaced.
LEMMA CallWith ==
    ASSUME NEW call \in CallType,
           NEW p \in {"idle", "called", "answered", "raised"} \cup Places, NEW answer \in AnswerType
    PROVE  /\ [call EXCEPT !.pc = p, !.answer = answer]
                  = [pc |-> p, op |-> call.op, answer |-> answer]
           /\ [pc |-> p, op |-> call.op, answer |-> answer] \in CallType
           /\ call.pc = p /\ call.answer = answer
                  => call = [pc |-> p, op |-> call.op, answer |-> answer]
<1> DEFINE new == [call EXCEPT !.pc = p, !.answer = answer]
<1>1. \A x \in CallType : x = [pc |-> x.pc, op |-> x.op, answer |-> x.answer]
    BY DEF CallType
<1>2. ASSUME call.pc = p, call.answer = answer
      PROVE  call = [pc |-> p, op |-> call.op, answer |-> answer]
    BY <1>1, <1>2, Zenon
<1>3. new \in CallType /\ new.pc = p /\ new.op = call.op /\ new.answer = answer
    BY DEF CallType
<1> HIDE DEF new
<1>4. new = [pc |-> p, op |-> call.op, answer |-> answer]
    BY <1>1, <1>3, Zenon
<1> QED
    BY <1>2, <1>3, <1>4 DEF new

\* What the promise sees of a call.
LEMMA SeenCalls ==
    ASSUME AdapterTypeOK, \A c \in Client : CallConsistent(c)
    PROVE  /\ Seen \in [Client -> CallType]
           /\ \A c \in Client :
                 /\ Seen[c].op = calls[c].op
                 /\ ~UnderWay(c) => Seen[c] = calls[c]
                 /\ UnderWay(c) => Seen[c] = [pc |-> "called", op |-> OpOf(c), answer |-> NoAnswer]
                 /\ calls[c].pc = "idle" <=> Seen[c].pc = "idle"
<1>1. calls \in [Client -> CallType]
    BY CallsAreCalls
<1>2. ASSUME NEW call \in CallType
      PROVE  /\ [call EXCEPT !.pc = "called", !.answer = NoAnswer]
                    = [pc |-> "called", op |-> call.op, answer |-> NoAnswer]
             /\ [pc |-> "called", op |-> call.op, answer |-> NoAnswer] \in CallType
             /\ call.pc = "called" /\ call.answer = NoAnswer
                    => call = [pc |-> "called", op |-> call.op, answer |-> NoAnswer]
    BY IdleTyped, CallWith
<1>4. ASSUME NEW c \in Client
      PROVE  /\ Seen[c] \in CallType /\ Seen[c].op = calls[c].op
             /\ ~UnderWay(c) => Seen[c] = calls[c]
             /\ UnderWay(c) => Seen[c] = [pc |-> "called", op |-> OpOf(c), answer |-> NoAnswer]
             /\ calls[c].pc = "idle" <=> Seen[c].pc = "idle"
    <2>1. CASE calls[c].pc \in Places
        <3>1. Seen[c] = [pc |-> "called", op |-> calls[c].op, answer |-> NoAnswer]
            BY <1>1, <1>2, <2>1 DEF Seen
        <3>2. [pc |-> "called", op |-> calls[c].op, answer |-> NoAnswer] \in CallType
            BY <1>1, <1>2
        <3> QED
            BY <2>1, <3>1, <3>2 DEF UnderWay, Places, OpOf
    <2>2. CASE calls[c].pc \notin Places
        <3>1. Seen[c] = calls[c]
            BY <2>2 DEF Seen
        <3>2. UnderWay(c) => calls[c] = [pc |-> "called", op |-> calls[c].op, answer |-> NoAnswer]
            BY <1>1, <1>2, <2>2 DEF UnderWay, CallConsistent
        <3> QED
            BY <1>1, <3>1, <3>2 DEF OpOf
    <2> QED
        BY <2>1, <2>2
<1> QED
    BY <1>4 DEF Seen

\* The promise sees nothing of a call that goes on.
LEMMA ProgressIsUnseen ==
    ASSUME AdapterIInv, NEW c \in Client, Progresses(c)
    PROVE  Seen' = Seen
<1> USE DEF AdapterIInv
<1>1. calls \in [Client -> CallType] /\ calls' \in [Client -> CallType]
    BY CallsAreCalls DEF Progresses
<1>2. /\ UnderWay(c) /\ calls'[c].pc \in Places /\ calls'[c].op = calls[c].op
      /\ \A d \in Client \ {c} : calls'[d] = calls[d]
    BY DEF Progresses
<1>3. Seen[c] = [pc |-> "called", op |-> calls[c].op, answer |-> NoAnswer]
    BY <1>2, SeenCalls DEF OpOf
<1>4. Seen'[c] = [pc |-> "called", op |-> calls'[c].op, answer |-> NoAnswer]
    <2>1. Seen'[c] = [calls'[c] EXCEPT !.pc = "called", !.answer = NoAnswer]
        BY <1>2 DEF Seen
    <2> DEFINE call == calls'[c]
    <2>2. call \in CallType
        BY <1>1
    <2> HIDE DEF call
    <2>3. [call EXCEPT !.pc = "called", !.answer = NoAnswer]
              = [pc |-> "called", op |-> call.op, answer |-> NoAnswer]
        BY <2>2, CallWith, IdleTyped
    <2> QED
        BY <2>1, <2>3 DEF call
<1>5. \A d \in Client \ {c} : Seen'[d] = Seen[d]
    BY <1>2 DEF Seen
<1>6. Seen' = [d \in Client |-> Seen'[d]] /\ Seen = [d \in Client |-> Seen[d]]
    BY DEF Seen
<1> HIDE DEF Seen
<1> QED
    BY <1>2, <1>3, <1>4, <1>5, <1>6

\* A call of the adapters is one of the promise.
LEMMA CallIsPromised ==
    ASSUME AdapterIInv, NEW c \in Client, Call(c)
    PROVE  Promise!Call(c)
<1> USE DEF AdapterIInv
<1>1. PICK op \in CallsOf(c) :
          calls' = [calls EXCEPT ![c] = [pc |-> "called", op |-> op, answer |-> NoAnswer]]
    BY DEF Call
<1>2. /\ table' = table /\ ~UnderWay(c) /\ Seen[c] = calls[c]
      /\ calls[c].pc = "idle" \/ (c \in WorkerId /\ calls[c].pc = "answered")
    BY SeenCalls DEF Call, UnderWay, Places
<1>3. Promise!Drawn = Drawn
    <2>1. \A d \in Requester : Seen[d].op = calls[d].op /\ (Seen[d].pc = "idle" <=> calls[d].pc = "idle")
        BY SeenCalls, ClientKinds
    <2>2. {d \in Requester : Seen[d].pc # "idle"} = {d \in Requester : calls[d].pc # "idle"}
        BY <2>1
    <2>3. Promise!Drawn = {Seen[d].op.task : d \in {q \in Requester : Seen[q].pc # "idle"}}
        BY Zenon DEF Promise!Drawn, Seen
    <2> QED
        BY <2>1, <2>2, <2>3 DEF Drawn
<1>4. Promise!Fresh = Fresh
    BY <1>3 DEF Promise!Fresh, Fresh
<1>5. op \in Promise!CallsOf(c)
    <2>1. CASE c \in Requester
        <3>1. CallsOf(c) = {Op("create", Fresh, KeyOf[c], Absent)}
            BY <2>1, ClientKinds DEF CallsOf
        <3>2. Promise!CallsOf(c) = {Promise!Op("create", Promise!Fresh, KeyOf[c], Promise!Absent)}
            BY <2>1, ClientKinds DEF Promise!CallsOf
        <3> QED
            BY <1>1, <1>4, <3>1, <3>2, PromiseSpeaksOfTables
    <2>2. CASE c \in Starter
        <3>1. CallsOf(c) = {Op("recover", NoOp.task, NoKey, Absent)}
            BY <2>2, ClientKinds DEF CallsOf
        <3>2. Promise!CallsOf(c) = {Promise!Op("recover", Promise!NoOp.task, NoKey, Promise!Absent)}
            BY <2>2, ClientKinds DEF Promise!CallsOf
        <3> QED
            BY <1>1, <3>1, <3>2, PromiseSpeaksOfTables
    <2>3. CASE c \in WorkerId /\ calls[c].pc = "idle"
        <3>1. CallsOf(c) = {Op("claim", t, NoKey, Absent) : t \in Drawn}
            BY <2>3, ClientKinds DEF CallsOf
        <3>2. PICK t \in Promise!Drawn : op = Promise!Op("claim", t, NoKey, Promise!Absent)
            BY <1>1, <1>3, <3>1, PromiseSpeaksOfTables
        <3>3. Seen[c].pc = "idle" /\ c \notin Requester /\ c \notin Starter
            BY <1>2, <2>3, ClientKinds
        <3> QED
            BY <2>3, <3>2, <3>3 DEF Promise!CallsOf, Seen
    <2>4. CASE c \in WorkerId /\ calls[c].pc # "idle"
        <3>1. CallsOf(c) = {Op("save", t, NoKey, copy) :
                              t \in calls[c].answer.tasks, copy \in Outcomes(calls[c].answer.row)}
            BY <2>4, ClientKinds DEF CallsOf
        <3>2. Promise!CallsOf(c) = {Promise!Op("save", t, NoKey, copy) :
                    t \in Seen[c].answer.tasks, copy \in Promise!Outcomes(Seen[c].answer.row)}
            BY <1>2, <2>4, ClientKinds DEF Promise!CallsOf, Seen
        <3> QED
            BY <1>1, <1>2, <3>1, <3>2, PromiseSpeaksOfTables
    <2> QED
        BY <2>1, <2>2, <2>3, <2>4, ClientKinds
<1>6. Seen' = [Seen EXCEPT ![c] = [pc |-> "called", op |-> op, answer |-> NoAnswer]]
    <2>1. calls \in [Client -> CallType] /\ Seen \in [Client -> CallType]
        BY CallsAreCalls, SeenCalls
    <2>2. /\ calls'[c] = [pc |-> "called", op |-> op, answer |-> NoAnswer]
          /\ \A d \in Client \ {c} : calls'[d] = calls[d]
        BY <1>1, <2>1
    <2>3. Seen'[c] = [pc |-> "called", op |-> op, answer |-> NoAnswer]
        BY <2>2 DEF Seen, Places
    <2>4. \A d \in Client \ {c} : Seen'[d] = Seen[d]
        BY <2>2 DEF Seen
    <2>5. Seen' = [d \in Client |-> Seen'[d]]
        BY DEF Seen
    <2> HIDE DEF Seen
    <2> QED
        BY <2>1, <2>3, <2>4, <2>5
<1> QED
    BY <1>2, <1>5, <1>6, PromiseSpeaksOfTables, Zenon DEF Promise!Call, Seen

\* An exception ends the calls the promise sees.
LEMMA ExceptionIsPromised ==
    ASSUME AdapterIInv, NEW cs \in SUBSET Client, calls' = Raised(cs)
    PROVE  Seen' = Promise!Raised(cs)
<1> USE DEF AdapterIInv
<1>1. calls \in [Client -> CallType] /\ Seen \in [Client -> CallType]
    BY CallsAreCalls, SeenCalls
<1> DEFINE ended(d) == IF d \notin cs \/ Seen[d].pc = "idle" THEN Seen[d]
                       ELSE IF d \in WorkerId THEN Idle
                       ELSE [Seen[d] EXCEPT !.pc = "raised", !.answer = NoAnswer]
<1>2. Promise!Raised(cs) = [d \in Client |-> ended(d)]
    BY PromiseSpeaksOfTables, Zenon DEF Promise!Raised, Seen
<1>3. ASSUME NEW d \in Client PROVE Seen'[d] = ended(d)
    <2>1. calls'[d] = IF d \notin cs \/ calls[d].pc = "idle" THEN calls[d]
                      ELSE IF d \in WorkerId THEN Idle
                      ELSE [calls[d] EXCEPT !.pc = "raised", !.answer = NoAnswer]
        BY DEF Raised
    <2>2. Seen[d].op = calls[d].op /\ (Seen[d].pc = "idle" <=> calls[d].pc = "idle")
        BY SeenCalls
    <2>3. CASE d \notin cs \/ calls[d].pc = "idle"
        BY <2>1, <2>2, <2>3 DEF Seen
    <2>4. CASE d \in cs /\ calls[d].pc # "idle" /\ d \in WorkerId
        <3>1. calls'[d] = Idle /\ Idle.pc \notin Places
            BY <2>1, <2>4 DEF Idle, Places
        <3>2. Seen'[d] = Idle
            BY <3>1 DEF Seen
        <3> QED
            BY <2>2, <2>4, <3>2
    <2>5. CASE d \in cs /\ calls[d].pc # "idle" /\ d \notin WorkerId
        <3> DEFINE before == calls[d]
                   seen == Seen[d]
        <3>1. before \in CallType /\ seen \in CallType /\ seen.op = before.op
            BY <1>1, <2>2
        <3>2. calls'[d] = [before EXCEPT !.pc = "raised", !.answer = NoAnswer]
            BY <2>1, <2>5
        <3>3. ended(d) = [seen EXCEPT !.pc = "raised", !.answer = NoAnswer]
            BY <2>2, <2>5
        <3> HIDE DEF before, seen, ended, Seen
        <3>4. [before EXCEPT !.pc = "raised", !.answer = NoAnswer]
                  = [pc |-> "raised", op |-> before.op, answer |-> NoAnswer]
            BY <3>1, CallWith, IdleTyped
        <3>5. [seen EXCEPT !.pc = "raised", !.answer = NoAnswer]
                  = [pc |-> "raised", op |-> seen.op, answer |-> NoAnswer]
            BY <3>1, CallWith, IdleTyped
        <3>6. calls'[d].pc \notin Places
            BY <3>2, <3>4 DEF Places
        <3>7. Seen'[d] = calls'[d]
            BY <3>6 DEF Seen
        <3> QED
            BY <3>1, <3>2, <3>3, <3>4, <3>5, <3>7
    <2> QED
        BY <2>3, <2>4, <2>5
<1>4. Seen' = [d \in Client |-> Seen'[d]]
    BY DEF Seen
<1> HIDE DEF Seen, ended
<1> QED
    BY <1>2, <1>3, <1>4

\* An answer ends the call the promise sees.
LEMMA AnswerIsPromised ==
    ASSUME AdapterIInv, NEW c \in Client, UnderWay(c), NEW answer \in AnswerType,
           calls' = Answered(c, answer)
    PROVE  Seen' = Promise!Answered(c, answer)
<1>0. ASSUME NEW call \in CallType
      PROVE  [call EXCEPT !.pc = "answered", !.answer = answer]
                 = [pc |-> "answered", op |-> call.op, answer |-> answer]
    BY CallWith
<1> USE DEF AdapterIInv
<1> DEFINE before == calls[c]
           seen == Seen[c]
           new(call) == IF c \notin WorkerId THEN [call EXCEPT !.pc = "answered", !.answer = answer]
                        ELSE IF answer = NoAnswer THEN Idle
                        ELSE [pc |-> "answered", op |-> NoOp, answer |-> answer]
<1>1. /\ calls \in [Client -> CallType] /\ Seen \in [Client -> CallType]
      /\ before \in CallType /\ seen \in CallType /\ seen.op = before.op
    BY CallsAreCalls, SeenCalls
<1>2. calls' = [calls EXCEPT ![c] = new(before)]
    BY DEF Answered
<1>3. Promise!Answered(c, answer) = [Seen EXCEPT ![c] = new(seen)]
    BY PromiseSpeaksOfTables, Zenon DEF Promise!Answered, Seen
<1>4. calls'[c] = new(before) /\ \A d \in Client \ {c} : calls'[d] = calls[d]
    BY <1>1, <1>2
<1> HIDE DEF before, seen
<1>5. new(seen) = new(before) /\ new(before).pc \notin Places
    <2>1. [before EXCEPT !.pc = "answered", !.answer = answer]
              = [pc |-> "answered", op |-> before.op, answer |-> answer]
        BY <1>0, <1>1
    <2>2. [seen EXCEPT !.pc = "answered", !.answer = answer]
              = [pc |-> "answered", op |-> seen.op, answer |-> answer]
        BY <1>0, <1>1
    <2>3. Idle.pc \notin Places
        BY DEF Idle, Places
    <2> QED
        BY <1>1, <2>1, <2>2, <2>3 DEF Places
<1> HIDE DEF new
<1>6. Seen'[c] = new(seen) /\ \A d \in Client \ {c} : Seen'[d] = Seen[d]
    BY <1>4, <1>5 DEF Seen
<1>7. Seen' = [d \in Client |-> Seen'[d]]
    BY DEF Seen
<1> HIDE DEF Seen
<1>8. Seen = [d \in Client |-> Seen[d]]
    BY <1>1
<1>9. Seen' = [Seen EXCEPT ![c] = new(seen)]
    BY <1>6, <1>7, <1>8
<1> QED
    BY <1>3, <1>9

\* Every step of the adapters is one the promise allows, or one it does not see.
LEMMA PromiseStep ==
    ASSUME AdapterIInv, AdapterNext
    PROVE  [Promise!TableNext]_(Promise!tableVars)
<1> USE DEF AdapterIInv
<1>1. Moves
    BY NextAdapter
<1>2. ASSUME NEW c \in Client, Call(c) PROVE Promise!TableNext
    BY <1>2, CallIsPromised, PromiseSpeaksOfTables DEF Promise!TableNext
<1>3. ASSUME NEW c \in Client, Progresses(c) PROVE UNCHANGED Promise!tableVars
    BY <1>3, ProgressIsUnseen, Zenon DEF Promise!tableVars, Progresses, Seen
<1>4. ASSUME NEW c \in Client, TakesEffect(c) PROVE Promise!TableNext
    <2>1. PICK effect \in Effects(c, table, OpOf(c)) :
              table' = effect[1] /\ calls' \in {Answered(c, effect[2]), Raised({c})}
        BY <1>4 DEF TakesEffect
    <2>2. effect[2] \in AnswerType /\ UnderWay(c) /\ OpOf(c).name \in Names
        BY <1>4, <2>1, TableAfterEffect, OpsFit DEF TakesEffect
    <2>3. Seen[c] = [pc |-> "called", op |-> OpOf(c), answer |-> NoAnswer]
        BY <2>2, SeenCalls
    <2>4. Seen[c].pc = "called" /\ Seen[c].op = OpOf(c)
        BY <2>3
    <2>5. effect \in Promise!Effects(c, table, Seen[c].op)
        BY <2>2, <2>4, PromiseAllowsTheEffects
    <2>6. Seen' \in {Promise!Answered(c, effect[2]), Promise!Raised({c})}
        <3>1. CASE calls' = Answered(c, effect[2])
            BY <2>2, <3>1, AnswerIsPromised
        <3>2. CASE calls' = Raised({c})
            BY <3>2, ExceptionIsPromised
        <3> QED
            BY <2>1, <3>1, <3>2
    <2>7. Promise!Apply(c)
        BY <2>1, <2>4, <2>5, <2>6, Zenon DEF Promise!Apply, Seen
    <2> QED
        BY <2>7, PromiseSpeaksOfTables DEF Promise!TableNext
<1>5. ASSUME NEW cs \in SUBSET Client, Raise(cs) PROVE Promise!TableNext
    <2>1. Promise!Raise(cs)
        BY <1>5, ExceptionIsPromised, Zenon DEF Raise, Promise!Raise, Seen
    <2> QED
        BY <2>1, PromiseSpeaksOfTables DEF Promise!TableNext
<1>6. ASSUME NEW t \in TaskId, Expire(t) PROVE Promise!TableNext
    <2>1. Seen' = Seen
        BY <1>6 DEF Expire, Seen
    <2>2. Promise!Expire(t)
        BY <1>6, <2>1, Zenon DEF Expire, Promise!Expire, Seen
    <2> QED
        BY <2>2 DEF Promise!TableNext
<1> QED
    BY <1>1, <1>2, <1>3, <1>4, <1>5, <1>6 DEF Moves

\* Both adapters implement the table of tasks the rest of the system relies on: every
\* call takes effect at one moment or ends with an exception, whatever comes between.
THEOREM AdaptersKeepThePromise == AdapterSpec => PromiseKept
<1>1. AdapterInit => Promise!TableInit
    <2> SUFFICES ASSUME AdapterInit PROVE Promise!TableInit
        OBVIOUS
    <2>1. table = [t \in TaskId |-> Absent] /\ calls = [c \in Client |-> Idle]
        BY DEF AdapterInit, TableInit
    <2>2. \A c \in Client : Seen[c] = Idle
        BY <2>1 DEF Seen, Idle, Places
    <2>3. Seen = [c \in Client |-> Idle]
        BY <2>2 DEF Seen
    <2> QED
        BY <2>1, <2>3, PromiseSpeaksOfTables, Zenon DEF Promise!TableInit, Seen
<1>2. AdapterIInv /\ [AdapterNext]_adapterVars => [Promise!TableNext]_(Promise!tableVars)
    <2> SUFFICES ASSUME AdapterIInv, [AdapterNext]_adapterVars
                 PROVE  [Promise!TableNext]_(Promise!tableVars)
        OBVIOUS
    <2>1. CASE AdapterNext
        BY <2>1, PromiseStep
    <2>2. CASE UNCHANGED adapterVars
        BY <2>2 DEF adapterVars, tableVars, Promise!tableVars
    <2> QED
        BY <2>1, <2>2
<1> QED
    BY <1>1, <1>2, AdaptersInvariance, PTL DEF AdapterSpec, PromiseKept, Promise!TableSpec
=============================================================================
