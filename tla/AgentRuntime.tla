---------------------------- MODULE AgentRuntime ----------------------------
(***************************************************************************)
(* The agent runtime (app/services/agent_runtime.py, class AgentRuntime):  *)
(* bounded tool-calling runs that share sessions and the repository.       *)
(*                                                                         *)
(* A run opens its session, stores the question, loads the conversation,   *)
(* creates its row, and then asks the model at most MaxSteps times.  The   *)
(* model answers or requests tools; every call is executed, audited, and   *)
(* stored as a message.  Events are streamed to the client all along.  Each*)
(* action is one repository call, model decision or tool execution, with   *)
(* the code that follows it up to the next await or yield.  The runs of    *)
(* one event loop, or of several processes, interleave between them.       *)
(*                                                                         *)
(* A repository call may raise, with or without effect.  A client may go   *)
(* away, or the process stop, at any of these points: the run is then cut  *)
(* off, and nothing in the code comes back to it.                          *)
(***************************************************************************)
EXTENDS Naturals, Sequences, FiniteSets

CONSTANTS
    Run,           \* requests, each of which draws one run id
    NoSession,     \* a run without a session yet; a session is named by the
                   \* run whose request created it
    Feedback,      \* record_feedback calls, told apart by their arguments
    OtherTool,     \* a call of any other tool, known or not
    MaxSteps,      \* agent_max_steps
    HistoryLimit,  \* agent_history_limit
    MaxCalls,      \* bound: tool calls in one decision
    MaxErrors      \* bound: repository calls that raise

ASSUME NoSessionAssumption == NoSession \notin Run
ASSUME OtherToolAssumption == OtherTool \notin Feedback
ASSUME RunAssumption == IsFiniteSet(Run)
ASSUME BoundsAssumption ==
    /\ MaxSteps \in Nat /\ HistoryLimit \in Nat
    /\ MaxCalls \in Nat \ {0} /\ MaxErrors \in Nat

VARIABLES
    sessions,   \* the sessions table
    messages,   \* the messages table, in the order of its rows
    runs,       \* the agent runs table
    audit,      \* the tool calls table: per run, its calls in order
    feedback,   \* the feedback table: how often each run stored each feedback
    pc,         \* where a run stands
    session,    \* its session
    context,    \* the messages it loaded for the model, by their positions
    record,     \* its AgentRunRecord
    plan,       \* tool requests of the current decision that are left
    call,       \* the call record of the first of them, once executed
    signatures, \* side_effect_signatures
    event,      \* the last event its client was sent
    company,    \* auxiliary: the runs of its session in progress with it since
                \* it stored its question
    errors      \* repository calls that have raised so far

tables == <<sessions, messages, runs, audit, feedback>>
local == <<session, context, record, plan, call, signatures>>
vars == <<tables, pc, local, event, company, errors>>

Tool == Feedback \cup {OtherTool}
Ends == {"succeeded", "failed", "max_steps"}
CallStatus == {"succeeded", "failed", "timed_out"}

Record == [status : {"absent", "running"} \cup Ends, step : 0 .. MaxSteps, answer : BOOLEAN]
Message == [run : Run, role : {"user", "tool", "assistant"}]
Call == [tool : Tool, status : {"running"} \cup CallStatus]

Absent == [status |-> "absent", step |-> 0, answer |-> FALSE]
NoCall == [tool |-> OtherTool, status |-> "running"]

Ended == {"told", "raised", "left"}
Bare == {"new", "ask", "load", "create"}
Guarded == {"decide", "call", "tool", "audit", "note", "answer", "store"}

TypeOK ==
    /\ sessions \subseteq Run
    /\ messages \in Seq(Message)
    /\ runs \in [Run -> Record]
    /\ audit \in [Run -> Seq(Call)]
    /\ feedback \in [Run -> [Feedback -> Nat]]
    /\ pc \in [Run -> Bare \cup Guarded \cup {"finalize", "tell"} \cup Ended]
    /\ session \in [Run -> Run \cup {NoSession}]
    /\ context \in [Run -> SUBSET (Nat \ {0})]
    /\ record \in [Run -> Record]
    /\ plan \in [Run -> Seq(Tool)]
    /\ call \in [Run -> Call]
    /\ signatures \in [Run -> SUBSET Feedback]
    /\ event \in [Run -> {"none", "session", "run_started", "tool_started",
                          "tool_finished", "answer", "error", "done"}]
    /\ company \in [Run -> SUBSET Run]
    /\ errors \in 0 .. MaxErrors

Init ==
    /\ sessions = {}
    /\ messages = <<>>
    /\ runs = [r \in Run |-> Absent]
    /\ audit = [r \in Run |-> <<>>]
    /\ feedback = [r \in Run |-> [f \in Feedback |-> 0]]
    /\ pc = [r \in Run |-> "new"]
    /\ session = [r \in Run |-> NoSession]
    /\ context = [r \in Run |-> {}]
    /\ record = [r \in Run |-> Absent]
    /\ plan = [r \in Run |-> <<>>]
    /\ call = [r \in Run |-> NoCall]
    /\ signatures = [r \in Run |-> {}]
    /\ event = [r \in Run |-> "none"]
    /\ company = [r \in Run |-> {}]
    /\ errors = 0

Goto(r, at) == pc' = [pc EXCEPT ![r] = at]
Emit(r, name) == event' = [event EXCEPT ![r] = name]

AddMessage(r, role) == messages' = Append(messages, [run |-> r, role |-> role])
SaveRun(r, row) == runs' = [runs EXCEPT ![r] = row]
SaveToolCall(r) == audit' = [audit EXCEPT ![r] = Append(@, call[r])]

RepositoryRaises == errors < MaxErrors /\ errors' = errors + 1

\* Runs of r's session that have stored their question and not ended.
Running(r) == pc[r] \notin {"new", "ask"} \cup Ended
InProgress(r) == {q \in Run : session[q] = session[r] /\ Running(q)}

----------------------------------------------------------------------------
(* stream, up to the row of the run.  An exception here reaches the caller: *)
(* no event follows it.                                                     *)

\* A new session, or one that exists.
OpenSession(r) ==
    /\ pc[r] = "new"
    /\ \E s \in {r} \cup sessions :
          /\ sessions' = sessions \cup {s}
          /\ session' = [session EXCEPT ![r] = s]
    /\ Emit(r, "session")
    /\ Goto(r, "ask")
    /\ UNCHANGED <<messages, runs, audit, feedback, context, record, plan, call,
                   signatures, company, errors>>

\* The request names a session that does not exist.
SessionNotFound(r) ==
    /\ pc[r] = "new"
    /\ Goto(r, "raised")
    /\ UNCHANGED <<tables, local, event, company, errors>>

\* From here on r and the other runs of its session keep company.
StoreQuestion(r) ==
    /\ AddMessage(r, "user")
    /\ company' = [q \in Run |-> IF q = r THEN InProgress(r)
                                 ELSE IF q \in InProgress(r) THEN company[q] \cup {r}
                                 ELSE company[q]]

Ask(r) ==
    /\ pc[r] = "ask"
    /\ StoreQuestion(r)
    /\ Goto(r, "load")
    /\ UNCHANGED <<sessions, runs, audit, feedback, local, event, errors>>

\* The n newest of a set of positions in the messages table.
Newest(n, positions) == {i \in positions : Cardinality({j \in positions : j >= i}) <= n}

LoadLimit == IF HistoryLimit * 3 > 20 THEN HistoryLimit * 3 ELSE 20

\* The user and assistant messages among the newest of r's session.
Turns(r) ==
    {i \in Newest(LoadLimit, {j \in DOMAIN messages : session[messages[j].run] = session[r]}) :
        messages[i].role # "tool"}

\* Mutant: the oldest turns are kept.
RecentTurnsOldest(r) ==
    {i \in Turns(r) : Cardinality({j \in Turns(r) : j <= i}) <= HistoryLimit}

\* At most HistoryLimit turns; a limit of 0 is no limit (a slice from -0).
RecentTurns(r) == IF HistoryLimit = 0 THEN Turns(r) ELSE Newest(HistoryLimit, Turns(r))

\* The newest turns that fit the character limit, and the last one even if it
\* does not.
BuildContext(r) ==
    {Newest(n, RecentTurns(r)) : n \in 1 .. Cardinality(RecentTurns(r)) + 1}

Load(r) ==
    /\ pc[r] = "load"
    /\ \E selected \in BuildContext(r) : context' = [context EXCEPT ![r] = selected]
    /\ record' = [record EXCEPT ![r].status = "running"]
    /\ Goto(r, "create")
    /\ UNCHANGED <<tables, session, plan, call, signatures, event, company, errors>>

CreateRun(r) ==
    /\ pc[r] = "create"
    /\ SaveRun(r, record[r])
    /\ Emit(r, "run_started")
    /\ Goto(r, "decide")
    /\ UNCHANGED <<sessions, messages, audit, feedback, local, company, errors>>

----------------------------------------------------------------------------
(* The loop.  An exception from here on fails the run.                      *)

Plans == UNION {[1 .. n -> Tool] : n \in 1 .. MaxCalls}

\* Mutant: a failing model is not handled.
DecideUnhandled(r) ==
    /\ pc[r] = "decide"
    /\ record[r].step < MaxSteps
    /\ Goto(r, "raised")
    /\ record' = [record EXCEPT ![r].step = @ + 1]
    /\ UNCHANGED <<tables, session, context, plan, call, signatures, event, company, errors>>

\* The next step: the model answers, requests tools, or fails (an error, a
\* timeout, a decision that holds neither).
Decide(r) ==
    /\ pc[r] = "decide"
    /\ record[r].step < MaxSteps
    /\ \/ /\ Goto(r, "answer")
          /\ record' = [record EXCEPT ![r].step = @ + 1]
          /\ UNCHANGED plan
       \/ /\ Goto(r, "call")
          /\ record' = [record EXCEPT ![r].step = @ + 1]
          /\ \E requests \in Plans : plan' = [plan EXCEPT ![r] = requests]
       \/ /\ Goto(r, "finalize")
          /\ record' = [record EXCEPT ![r].step = @ + 1, ![r].status = "failed"]
          /\ UNCHANGED plan
    /\ UNCHANGED <<tables, session, context, call, signatures, event, company, errors>>

\* Mutant: the limit is noticed one step too late.
ReachStepLimitLate(r) ==
    /\ pc[r] = "decide"
    /\ record[r].step > MaxSteps
    /\ record' = [record EXCEPT ![r].status = "max_steps"]
    /\ Goto(r, "finalize")
    /\ UNCHANGED <<tables, session, context, plan, call, signatures, event, company, errors>>

ReachStepLimit(r) ==
    /\ pc[r] = "decide"
    /\ record[r].step = MaxSteps
    /\ record' = [record EXCEPT ![r].status = "max_steps"]
    /\ Goto(r, "finalize")
    /\ UNCHANGED <<tables, session, context, plan, call, signatures, event, company, errors>>

StartCall(r) ==
    /\ pc[r] = "call"
    /\ Emit(r, "tool_started")
    /\ Goto(r, "tool")
    /\ UNCHANGED <<tables, local, company, errors>>

\* The tool succeeds, fails, or is cancelled at its timeout.  Feedback whose
\* insert was under way may have been stored all the same.
Execute(r, tool) ==
    \E status \in CallStatus, stored \in BOOLEAN :
        /\ call' = [call EXCEPT ![r] = [tool |-> tool, status |-> status]]
        /\ stored => tool \in Feedback
        /\ status = "succeeded" /\ tool \in Feedback => stored
        /\ IF status = "failed" /\ stored THEN RepositoryRaises ELSE UNCHANGED errors
        /\ feedback' = IF stored THEN [feedback EXCEPT ![r][tool] = @ + 1] ELSE feedback

\* Mutant: the duplicate of a call is reported as done.
DuplicateDone(r, tool) ==
    /\ tool \in signatures[r]
    /\ call' = [call EXCEPT ![r] = [tool |-> tool, status |-> "succeeded"]]
    /\ UNCHANGED <<feedback, signatures, errors>>

\* Feedback the run has tried before is not tried again, whatever came of it.
Duplicate(r, tool) ==
    /\ tool \in signatures[r]
    /\ call' = [call EXCEPT ![r] = [tool |-> tool, status |-> "failed"]]
    /\ UNCHANGED <<feedback, signatures, errors>>

\* Mutant: a signature is remembered only when the call succeeded.
FirstTimeRememberingSuccess(r, tool) ==
    /\ tool \notin signatures[r]
    /\ Execute(r, tool)
    /\ signatures' = [signatures EXCEPT ![r] =
          IF call'[r].status = "succeeded" THEN @ \cup ({tool} \cap Feedback) ELSE @]

FirstTime(r, tool) ==
    /\ tool \notin signatures[r]
    /\ Execute(r, tool)
    /\ signatures' = [signatures EXCEPT ![r] = @ \cup ({tool} \cap Feedback)]

RunTool(r) ==
    /\ pc[r] = "tool"
    /\ LET tool == Head(plan[r]) IN Duplicate(r, tool) \/ FirstTime(r, tool)
    /\ Goto(r, "audit")
    /\ UNCHANGED <<sessions, messages, runs, audit, session, context, record, plan, event,
                   company>>

\* Mutant: a call that timed out is not reported.
AuditQuietOnTimeout(r) ==
    /\ pc[r] = "audit"
    /\ SaveToolCall(r)
    /\ IF call[r].status = "timed_out" THEN UNCHANGED event ELSE Emit(r, "tool_finished")
    /\ Goto(r, "note")
    /\ UNCHANGED <<sessions, messages, runs, feedback, local, company, errors>>

Audit(r) ==
    /\ pc[r] = "audit"
    /\ SaveToolCall(r)
    /\ Emit(r, "tool_finished")
    /\ Goto(r, "note")
    /\ UNCHANGED <<sessions, messages, runs, feedback, local, company, errors>>

\* The result becomes a message; then the next call, or the next step.
Note(r) ==
    /\ pc[r] = "note"
    /\ AddMessage(r, "tool")
    /\ plan' = [plan EXCEPT ![r] = Tail(@)]
    /\ Goto(r, IF Tail(plan[r]) = <<>> THEN "decide" ELSE "call")
    /\ UNCHANGED <<sessions, runs, audit, feedback, session, context, record, call,
                   signatures, event, company, errors>>

----------------------------------------------------------------------------
(* _finish and _finalize_run.                                               *)

\* The answer becomes a message before the row of the run says so.
StoreAnswer(r) ==
    /\ pc[r] = "answer"
    /\ AddMessage(r, "assistant")
    /\ record' = [record EXCEPT ![r].status = "succeeded", ![r].answer = TRUE]
    /\ Goto(r, "store")
    /\ UNCHANGED <<sessions, runs, audit, feedback, session, context, plan, call, signatures,
                   event, company, errors>>

Finish(r) ==
    /\ pc[r] = "store"
    /\ SaveRun(r, record[r])
    /\ Emit(r, "answer")
    /\ Goto(r, "tell")
    /\ UNCHANGED <<sessions, messages, audit, feedback, local, company, errors>>

Finalize(r) ==
    /\ pc[r] = "finalize"
    /\ SaveRun(r, record[r])
    /\ Emit(r, "error")
    /\ Goto(r, "tell")
    /\ UNCHANGED <<sessions, messages, audit, feedback, local, company, errors>>

Tell(r) ==
    /\ pc[r] = "tell"
    /\ Emit(r, "done")
    /\ Goto(r, "told")
    /\ UNCHANGED <<tables, local, company, errors>>

----------------------------------------------------------------------------
(* Repository errors and runs that are cut off.                             *)

\* What the call that raised may have done to the tables.
Effect(r) ==
    \/ /\ UNCHANGED <<tables, company>>
    \/ /\ pc[r] = "new"
       /\ sessions' = sessions \cup {r}
       /\ UNCHANGED <<messages, runs, audit, feedback, company>>
    \/ /\ pc[r] = "ask"
       /\ StoreQuestion(r)
       /\ UNCHANGED <<sessions, runs, audit, feedback>>
    \/ /\ pc[r] \in {"create", "store", "finalize"}
       /\ SaveRun(r, record[r])
       /\ UNCHANGED <<sessions, messages, audit, feedback, company>>
    \/ /\ pc[r] = "audit"
       /\ SaveToolCall(r)
       /\ UNCHANGED <<sessions, messages, runs, feedback, company>>
    \/ /\ pc[r] \in {"note", "answer"}
       /\ AddMessage(r, IF pc[r] = "note" THEN "tool" ELSE "assistant")
       /\ UNCHANGED <<sessions, runs, audit, feedback, company>>

\* Inside the try: in the loop, in _finish, and in the _finalize_run of a run
\* that reached its step limit.
InTry(r) == pc[r] \in Guarded \/ (pc[r] = "finalize" /\ record[r].status = "max_steps")

\* Mutants: an error while the row is finalized, or the answer is stored, is
\* ignored.
RaisedIgnoredInFinalize(r) ==
    \/ /\ InTry(r)
       /\ Goto(r, "finalize")
       /\ record' = [record EXCEPT ![r].status = "failed"]
    \/ /\ ~InTry(r)
       /\ Goto(r, IF pc[r] = "finalize" THEN "tell" ELSE "raised")
       /\ UNCHANGED record
RaisedIgnoredForAnswer(r) ==
    /\ InTry(r)
    /\ Goto(r, IF pc[r] = "answer" THEN "store" ELSE "finalize")
    /\ record' = [record EXCEPT ![r].status = IF pc[r] = "answer" THEN "succeeded" ELSE "failed"]

\* Inside the try the run fails and is finalized; before it, and while it is
\* finalized as a failure, the exception goes to the caller.
Raised(r) ==
    \/ /\ InTry(r)
       /\ Goto(r, "finalize")
       /\ record' = [record EXCEPT ![r].status = "failed"]
    \/ /\ ~InTry(r)
       /\ Goto(r, "raised")
       /\ UNCHANGED record

RepositoryError(r) ==
    /\ pc[r] \in {"new", "ask", "load", "create", "audit", "note", "answer", "store",
                  "finalize"}
    /\ RepositoryRaises
    /\ Effect(r)
    /\ Raised(r)
    /\ UNCHANGED <<session, context, plan, call, signatures, event>>

\* The client disconnects, or the process stops: the coroutine is cancelled,
\* which no handler catches, and the run stays as it is.
Leave(r) ==
    /\ pc[r] \notin {"new"} \cup Ended
    /\ Goto(r, "left")
    /\ UNCHANGED <<tables, local, event, company, errors>>

\* Every request has been served: not a deadlock.
Idle ==
    /\ \A r \in Run : pc[r] \in Ended
    /\ UNCHANGED vars

----------------------------------------------------------------------------
\* What a run does of its own accord.
Proceed(r) ==
    \/ Ask(r) \/ Load(r) \/ CreateRun(r)
    \/ Decide(r) \/ ReachStepLimit(r) \/ StartCall(r) \/ RunTool(r) \/ Audit(r) \/ Note(r)
    \/ StoreAnswer(r) \/ Finish(r) \/ Finalize(r) \/ Tell(r)

RunStep(r) ==
    OpenSession(r) \/ SessionNotFound(r) \/ Proceed(r) \/ RepositoryError(r) \/ Leave(r)

Next == (\E r \in Run : RunStep(r)) \/ Idle

Spec == Init /\ [][Next]_vars

(***************************************************************************)
(* The event loop resumes every coroutine that is ready, repository calls  *)
(* answer, a client that stays reads the stream, and wait_for bounds the   *)
(* model and the tools: a run that is not cut off goes on.                 *)
(***************************************************************************)
FairSpec == Spec /\ \A r \in Run : WF_vars(Proceed(r))

----------------------------------------------------------------------------
(* What makes the runtime correct.                                          *)

(***************************************************************************)
(* A client that was told "done" was told what the store says, at most     *)
(* once, and the row never changes again; until then a row only settles on *)
(* an end.  (the done events of _finish and _finalize_run)                 *)
(***************************************************************************)
Told(r) == IF event[r] = "done" THEN record[r].status ELSE "nothing"

Promise == INSTANCE AgentRunPromise
    WITH row <- [r \in Run |-> runs[r].status], told <- [r \in Run |-> Told(r)]

PromiseSpec == Promise!Spec

(***************************************************************************)
(* The events of a stream come in the order the API promises: session,     *)
(* run_started, a tool_finished after each tool_started, then one answer   *)
(* or one error, then done, also when calls raise; after a tool_started    *)
(* only a failure keeps the tool_finished from the client.                 *)
(***************************************************************************)
Follows(last, next) ==
    <<last, next>> \in
        {<<"none", "session">>, <<"session", "run_started">>,
         <<"tool_started", "tool_finished">>, <<"tool_finished", "tool_started">>,
         <<"answer", "done">>, <<"error", "done">>}
        \cup {"run_started"} \X {"tool_started", "answer", "error"}
        \cup {"tool_finished"} \X {"answer", "error"}
        \cup {<<"tool_started", "error">>}

EventsInOrder ==
    [][\A r \in Run :
          event'[r] # event[r] =>
              /\ Follows(event[r], event'[r])
              /\ <<event[r], event'[r]>> = <<"tool_started", "error">> => errors > 0]_vars

(***************************************************************************)
(* A feedback call is carried out at most once in a run, however often the *)
(* model repeats it and even if it timed out or failed after its row was   *)
(* committed.  (side_effect_signatures)                                    *)
(***************************************************************************)
FeedbackStoredOnce == \A r \in Run, f \in Feedback : feedback[r][f] <= 1

(***************************************************************************)
(* The audit trail and the feedback table agree: a call is audited as      *)
(* succeeded exactly once per stored row it reports, and a stored row that *)
(* no audited call accounts for belongs to a run that is about to audit it,*)
(* was cut off, or met a repository error.                                 *)
(***************************************************************************)
AuditedAs(r, f, statuses) ==
    {i \in 1 .. Len(audit[r]) : audit[r][i].tool = f /\ audit[r][i].status \in statuses}

AuditMatchesFeedback ==
    \A r \in Run, f \in Feedback :
        /\ Cardinality(AuditedAs(r, f, {"succeeded"})) <= feedback[r][f]
        /\ feedback[r][f] > 0 /\ AuditedAs(r, f, CallStatus) = {} =>
              pc[r] \in {"audit", "left"} \/ errors > 0

(***************************************************************************)
(* A row that says "succeeded" has exactly one answer, and the session     *)
(* holds it as a message; a run that was told to have failed has put no    *)
(* answer into the session unless a repository call raised.                *)
(***************************************************************************)
Answers(r) == {i \in DOMAIN messages : messages[i] = [run |-> r, role |-> "assistant"]}

AnswerIsInSession ==
    \A r \in Run :
        /\ runs[r].status = "succeeded" => Cardinality(Answers(r)) = 1
        /\ Told(r) \in {"failed", "max_steps"} /\ errors = 0 => Answers(r) = {}

(***************************************************************************)
(* A row stays "running" after its run has ended only if the run was cut   *)
(* off or a repository call raised.                                        *)
(***************************************************************************)
RunningRowExplained ==
    \A r \in Run :
        pc[r] \in {"told", "raised"} /\ runs[r].status = "running" => errors > 0

(***************************************************************************)
(* A run that shares its session with no other run in progress asks the    *)
(* model its own question: nothing a run that ended, failed or was cut off *)
(* left behind, and no limit of the context, comes after it.               *)
(* (DeterministicModel answers the last message, app/model_provider.py:61) *)
(***************************************************************************)
AsksItsOwnQuestion ==
    \A r \in Run :
        record[r].status # "absent" /\ company[r] = {} =>
            \E i \in context[r] :
                /\ messages[i] = [run |-> r, role |-> "user"]
                /\ \A j \in context[r] : j <= i

(***************************************************************************)
(* Why these hold: the inductive invariant of the proofs.                   *)
(***************************************************************************)

\* A row exists from CreateRun on and is what the client is about to be told,
\* or was told; only an error ends a run between the two.
RowConsistent(r) ==
    /\ pc[r] # "told" => event[r] # "done"
    /\ pc[r] \in Bare => runs[r].status = "absent"
    /\ pc[r] \in {"new", "ask", "load"} => record[r].status = "absent"
    /\ pc[r] = "create" => record[r].status = "running"
    /\ pc[r] \in Guarded \cup {"finalize"} =>
          runs[r].status # "absent" /\ record[r].status # "absent"
    /\ pc[r] = "store" => record[r].status = "succeeded"
    /\ pc[r] = "finalize" => record[r].status \in {"failed", "max_steps"}
    /\ pc[r] \in {"tell", "told"} => runs[r] = record[r] /\ record[r].status \in Ends
    /\ pc[r] = "raised" /\ runs[r].status # "absent" => errors > 0

\* Feedback that may have been stored is remembered.
CallsConsistent(r) ==
    /\ pc[r] \in {"call", "tool", "audit", "note"} => plan[r] # <<>>
    /\ \A f \in Feedback :
          /\ feedback[r][f] <= 1
          /\ feedback[r][f] > 0 => f \in signatures[r]

\* Runs of one session in progress together are company, and a run that has
\* stored its question and has none has the newest message of the session.
SessionConsistent(r) ==
    /\ pc[r] \in {"ask", "load"} => session[r] \in Run
    /\ Running(r) =>
          \A q \in Run \ {r} : Running(q) /\ session[q] = session[r] => q \in company[r]
    /\ pc[r] = "load" /\ company[r] = {} =>
          \E i \in DOMAIN messages :
              /\ messages[i] = [run |-> r, role |-> "user"]
              /\ \A j \in DOMAIN messages : session[messages[j].run] = session[r] => j <= i
    /\ context[r] \subseteq DOMAIN messages

MessagesConsistent == \A i \in DOMAIN messages : pc[messages[i].run] \notin {"new", "ask"}

IInv ==
    /\ TypeOK
    /\ MessagesConsistent
    /\ \A r \in Run : RowConsistent(r) /\ CallsConsistent(r) /\ SessionConsistent(r)
    /\ AsksItsOwnQuestion

\* A run puts its answer into the session just before its row says so; what failed
\* without an error had none.
AnswersConsistent(r) ==
    /\ pc[r] \in Bare \cup (Guarded \ {"store"}) => Answers(r) = {}
    /\ pc[r] = "store" \/ runs[r].status = "succeeded" => \E i \in DOMAIN messages : Answers(r) = {i}
    /\ record[r].status \in {"failed", "max_steps"} /\ errors = 0 => Answers(r) = {}

\* A call that is about to be audited as succeeded has stored a row that no audited
\* call has reported, and only such a call leaves a row unaccounted for.
AuditConsistent(r) ==
    /\ pc[r] = "audit" => call[r].status \in CallStatus
    /\ \A f \in Feedback :
          /\ Cardinality(AuditedAs(r, f, {"succeeded"})) <= feedback[r][f]
          /\ pc[r] = "audit" /\ call[r].tool = f /\ call[r].status = "succeeded" =>
                feedback[r][f] > 0 /\ AuditedAs(r, f, {"succeeded"}) = {}
          /\ feedback[r][f] > 0 /\ AuditedAs(r, f, CallStatus) = {} =>
                pc[r] = "left" \/ errors > 0 \/ (pc[r] = "audit" /\ call[r].tool = f)

\* The last event tells where in its code a run stands.
EventConsistent(r) ==
    /\ pc[r] = "new" => event[r] = "none"
    /\ pc[r] \in {"ask", "load", "create"} => event[r] = "session"
    /\ pc[r] \in {"decide", "call", "answer", "store"} =>
          event[r] \in {"run_started", "tool_finished"}
    /\ pc[r] \in {"tool", "audit"} => event[r] = "tool_started"
    /\ pc[r] = "note" => event[r] = "tool_finished"
    /\ pc[r] = "finalize" => \/ event[r] \in {"run_started", "tool_finished"}
                             \/ event[r] = "tool_started" /\ errors > 0
    /\ pc[r] = "tell" => event[r] \in {"answer", "error"}

TrailIInv ==
    /\ IInv
    /\ \A r \in Run : AnswersConsistent(r) /\ AuditConsistent(r) /\ EventConsistent(r)

\* Every run that opened its session ends: it is bounded by its steps, and by
\* the timeouts of the model and the tools.
RunEnds == \A r \in Run : pc[r] = "ask" ~> pc[r] \in Ended
=============================================================================
