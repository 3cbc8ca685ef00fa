------------------------- MODULE AgentRuntimeProofs -------------------------
(***************************************************************************)
(* Proofs about AgentRuntime, for every number of runs, steps, tool calls   *)
(* and repository errors: type correctness, the inductive invariant IInv,   *)
(* and the promises of the runtime that follow from it; then TrailIInv, and  *)
(* what a run leaves in its session, in the audit trail and on its stream.  *)
(***************************************************************************)
EXTENDS AgentRuntime, FiniteSetTheorems, SequenceTheorems, TLAPS

----------------------------------------------------------------------------
(* Helpers.                                                                 *)

\* A decision's tool requests form a sequence that is not empty.
LEMMA PlansAreSequences == Plans \subseteq Seq(Tool) \ {<<>>}
<1> SUFFICES ASSUME NEW n \in 1 .. MaxCalls, NEW s \in [1 .. n -> Tool]
             PROVE  s \in Seq(Tool) /\ s # <<>>
    BY DEF Plans
<1>1. n \in Nat /\ n > 0
    BY BoundsAssumption
<1>2. s \in Seq(Tool) /\ Len(s) = n
    BY <1>1
<1> QED
    BY <1>1, <1>2

\* The newest of a set of positions is among its n newest.
LEMMA NewestKeepsLast ==
    ASSUME NEW S \in SUBSET Nat, NEW i \in S, \A j \in S : j <= i,
           NEW n \in Nat \ {0}
    PROVE  i \in Newest(n, S)
<1>1. \A j \in S : j >= i <=> j = i
    OBVIOUS
<1>2. {j \in S : j >= i} = {i}
    BY <1>1
<1>3. Cardinality({i}) = 1
    BY FS_Singleton
<1> QED
    BY <1>2, <1>3 DEF Newest

\* A record that differs in its status, its answer or its step is a record.
LEMMA RecordUpdates ==
    ASSUME NEW row \in Record, NEW s \in {"running"} \cup Ends
    PROVE  /\ [row EXCEPT !.status = s] \in Record
           /\ [row EXCEPT !.status = s, !.answer = TRUE] \in Record
BY DEF Record, Ends

\* One more step stays within the limit.
LEMMA RecordSteps ==
    ASSUME NEW row \in Record, row.step < MaxSteps
    PROVE  [row EXCEPT !.step = @ + 1] \in Record
<1>1. row.step + 1 \in 0 .. MaxSteps
    BY BoundsAssumption DEF Record
<1> DEFINE n == row.step + 1
<1> HIDE DEF n
<1>2. [row EXCEPT !.step = n] \in Record
    BY <1>1 DEF Record, n
<1> QED
    BY <1>2 DEF n

\* A stored message keeps the type of the messages table.
LEMMA MessagesTyped ==
    ASSUME messages \in Seq(Message), NEW r \in Run,
           NEW role \in {"user", "tool", "assistant"}, AddMessage(r, role)
    PROVE  messages' \in Seq(Message)
BY AppendProperties DEF AddMessage, Message

\* A stored tool call keeps the type of the tool calls table.
LEMMA AuditTyped ==
    ASSUME TypeOK, NEW r \in Run, SaveToolCall(r)
    PROVE  audit' \in [Run -> Seq(Call)]
<1>1. Append(audit[r], call[r]) \in Seq(Call)
    BY AppendProperties DEF TypeOK
<1> QED
    BY <1>1 DEF TypeOK, SaveToolCall

\* Storing a question keeps the type of company.
LEMMA CompanyTyped ==
    ASSUME TypeOK, NEW r \in Run, StoreQuestion(r)
    PROVE  company' \in [Run -> SUBSET Run]
BY DEF TypeOK, StoreQuestion, InProgress

\* A call that raises is within the bound.
LEMMA ErrorsTyped ==
    ASSUME errors \in 0 .. MaxErrors, RepositoryRaises
    PROVE  errors' \in 0 .. MaxErrors
BY BoundsAssumption DEF RepositoryRaises

\* Executing a tool keeps the types of what it may change.
LEMMA ExecuteTyped ==
    ASSUME TypeOK, NEW r \in Run, NEW tool \in Tool, Execute(r, tool)
    PROVE  /\ call' \in [Run -> Call]
           /\ feedback' \in [Run -> [Feedback -> Nat]]
           /\ errors' \in 0 .. MaxErrors
<1>1. PICK status \in CallStatus, stored \in BOOLEAN :
        /\ call' = [call EXCEPT ![r] = [tool |-> tool, status |-> status]]
        /\ stored => tool \in Feedback
        /\ IF status = "failed" /\ stored THEN RepositoryRaises ELSE UNCHANGED errors
        /\ feedback' = IF stored THEN [feedback EXCEPT ![r][tool] = @ + 1] ELSE feedback
    BY DEF Execute
<1>2. call' \in [Run -> Call]
    BY <1>1 DEF TypeOK, Call
<1>3. feedback' \in [Run -> [Feedback -> Nat]]
    <2>1. CASE ~stored
        BY <1>1, <2>1 DEF TypeOK
    <2>2. CASE stored
        <3>1. feedback[r][tool] + 1 \in Nat
            BY <1>1, <2>2 DEF TypeOK
        <3> DEFINE n == feedback[r][tool] + 1
        <3> HIDE DEF n
        <3>2. [feedback EXCEPT ![r][tool] = n] \in [Run -> [Feedback -> Nat]]
            BY <3>1, <2>2 DEF TypeOK, n
        <3> QED
            BY <1>1, <2>2, <3>2 DEF n
    <2> QED
        BY <2>1, <2>2
<1>4. errors' \in 0 .. MaxErrors
    BY <1>1, ErrorsTyped DEF TypeOK
<1> QED
    BY <1>2, <1>3, <1>4

\* The context consists of messages of the session.
LEMMA ContextSelected ==
    ASSUME messages \in Seq(Message), NEW r \in Run
    PROVE  /\ Turns(r) \subseteq {j \in DOMAIN messages : session[messages[j].run] = session[r]}
           /\ RecentTurns(r) \subseteq Turns(r)
           /\ \A c \in BuildContext(r) : c \subseteq RecentTurns(r)
           /\ DOMAIN messages \subseteq Nat \ {0}
<1>1. ASSUME NEW n, NEW S PROVE Newest(n, S) \subseteq S
    BY DEF Newest
<1>2. Turns(r) \subseteq {j \in DOMAIN messages : session[messages[j].run] = session[r]}
    BY <1>1 DEF Turns
<1>3. RecentTurns(r) \subseteq Turns(r)
    BY <1>1 DEF RecentTurns
<1>4. \A c \in BuildContext(r) : c \subseteq RecentTurns(r)
    BY <1>1 DEF BuildContext
<1>5. DOMAIN messages = 1 .. Len(messages) /\ Len(messages) \in Nat
    BY LenProperties
<1> QED
    BY <1>2, <1>3, <1>4, <1>5

\* Every step of a run keeps the types.
LEMMA TypeStep ==
    ASSUME TypeOK, NEW r \in Run, CallsConsistent(r), RunStep(r)
    PROVE  TypeOK'
<1> USE DEF TypeOK, Goto, Emit, tables, local, Bare, Guarded, Ended
<1>1. CASE OpenSession(r)
    BY <1>1 DEF OpenSession
<1>2. CASE SessionNotFound(r)
    BY <1>2 DEF SessionNotFound
<1>3. CASE Ask(r)
    BY <1>3, MessagesTyped, CompanyTyped DEF Ask, StoreQuestion
<1>4. CASE Load(r)
    <2>1. context' \in [Run -> SUBSET (Nat \ {0})]
        BY <1>4, ContextSelected DEF Load
    <2>2. record' \in [Run -> Record]
        BY <1>4, RecordUpdates DEF Load
    <2> QED
        BY <1>4, <2>1, <2>2 DEF Load
<1>5. CASE CreateRun(r)
    BY <1>5 DEF CreateRun, SaveRun
<1>6. CASE Decide(r)
    <2> DEFINE n == record[r].step + 1
    <2>1. [record[r] EXCEPT !.step = n] \in Record
        BY <1>6, RecordSteps DEF Decide
    <2>2. /\ pc'[r] # "finalize" => record' = [record EXCEPT ![r].step = n]
          /\ pc'[r] = "finalize" =>
                record' = [record EXCEPT ![r].step = n, ![r].status = "failed"]
        BY <1>6 DEF Decide
    <2> HIDE DEF n
    <2>3. record' \in [Run -> Record]
        <3>1. CASE pc'[r] # "finalize"
            BY <3>1, <2>1, <2>2
        <3>2. CASE pc'[r] = "finalize"
            <4>1. [[record[r] EXCEPT !.step = n] EXCEPT !.status = "failed"] \in Record
                BY <2>1, RecordUpdates DEF Ends
            <4>2. record' = [record EXCEPT ![r] =
                              [[record[r] EXCEPT !.step = n] EXCEPT !.status = "failed"]]
                BY <3>2, <2>2
            <4> QED
                BY <4>1, <4>2
        <3> QED
            BY <3>1, <3>2
    <2>4. plan' \in [Run -> Seq(Tool)]
        BY <1>6, PlansAreSequences DEF Decide
    <2>5. pc' \in [Run -> Bare \cup Guarded \cup {"finalize", "tell"} \cup Ended]
        BY <1>6 DEF Decide
    <2> QED
        BY <1>6, <2>3, <2>4, <2>5 DEF Decide
<1>7. CASE ReachStepLimit(r)
    BY <1>7, RecordUpdates DEF ReachStepLimit, Ends
<1>8. CASE StartCall(r)
    BY <1>8 DEF StartCall
<1>9. CASE RunTool(r)
    <2> DEFINE tool == Head(plan[r])
    <2>1. tool \in Tool
        BY <1>9, HeadTailProperties DEF RunTool, CallsConsistent
    <2> HIDE DEF tool
    <2>2. CASE Duplicate(r, tool)
        BY <1>9, <2>1, <2>2 DEF RunTool, Duplicate, Call, CallStatus
    <2>3. CASE FirstTime(r, tool)
        <3>1. signatures' \in [Run -> SUBSET Feedback]
            BY <2>3 DEF FirstTime
        <3> QED
            BY <1>9, <2>1, <2>3, <3>1, ExecuteTyped DEF RunTool, FirstTime
    <2> QED
        BY <1>9, <2>2, <2>3 DEF RunTool, tool
<1>10. CASE Audit(r)
    BY <1>10, AuditTyped DEF Audit
<1>11. CASE Note(r)
    BY <1>11, MessagesTyped DEF Note, CallsConsistent
<1>12. CASE StoreAnswer(r)
    BY <1>12, MessagesTyped, RecordUpdates DEF StoreAnswer, Ends
<1>13. CASE Finish(r)
    BY <1>13 DEF Finish, SaveRun
<1>14. CASE Finalize(r)
    BY <1>14 DEF Finalize, SaveRun
<1>15. CASE Tell(r)
    BY <1>15 DEF Tell
<1>16. CASE RepositoryError(r)
    <2>1. record' \in [Run -> Record]
        <3>1. [record[r] EXCEPT !.status = "failed"] \in Record
            BY RecordUpdates DEF Ends
        <3>2. [record EXCEPT ![r].status = "failed"] \in [Run -> Record]
            BY <3>1
        <3>3. record' = record \/ record' = [record EXCEPT ![r].status = "failed"]
            BY <1>16 DEF RepositoryError, Raised
        <3> QED
            BY <3>2, <3>3
    <2>2. pc' \in [Run -> Bare \cup Guarded \cup {"finalize", "tell"} \cup Ended]
        BY <1>16 DEF RepositoryError, Raised
    <2>3. errors' \in 0 .. MaxErrors
        BY <1>16, ErrorsTyped DEF RepositoryError
    <2>4. sessions' \subseteq Run /\ runs' \in [Run -> Record] /\ feedback' = feedback
        BY <1>16 DEF RepositoryError, Effect, SaveRun
    <2>5. messages' \in Seq(Message)
        BY <1>16, MessagesTyped DEF RepositoryError, Effect, StoreQuestion
    <2>6. audit' \in [Run -> Seq(Call)]
        BY <1>16, AuditTyped DEF RepositoryError, Effect
    <2>7. company' \in [Run -> SUBSET Run]
        BY <1>16, CompanyTyped DEF RepositoryError, Effect
    <2> QED
        BY <1>16, <2>1, <2>2, <2>3, <2>4, <2>5, <2>6, <2>7 DEF RepositoryError
<1>17. CASE Leave(r)
    BY <1>17 DEF Leave
<1> QED
    BY <1>1, <1>2, <1>3, <1>4, <1>5, <1>6, <1>7, <1>8, <1>9, <1>10, <1>11, <1>12, <1>13,
       <1>14, <1>15, <1>16, <1>17 DEF RunStep, Proceed

----------------------------------------------------------------------------
(* Steps of one run and the state of the others.                            *)

\* A run changes nothing of another run but its company.
LEMMA OthersLeftAlone ==
    ASSUME TypeOK, NEW r \in Run, NEW q \in Run \ {r}, RunStep(r)
    PROVE  /\ pc'[q] = pc[q] /\ event'[q] = event[q] /\ runs'[q] = runs[q]
           /\ record'[q] = record[q] /\ session'[q] = session[q] /\ plan'[q] = plan[q]
           /\ feedback'[q] = feedback[q] /\ signatures'[q] = signatures[q]
           /\ context'[q] = context[q]
<1> USE DEF TypeOK, Goto, Emit, tables, local
<1>1. CASE OpenSession(r) \/ SessionNotFound(r) \/ Leave(r) \/ Tell(r)
    BY <1>1 DEF OpenSession, SessionNotFound, Leave, Tell
<1>2. CASE Ask(r) \/ Load(r) \/ CreateRun(r)
    BY <1>2 DEF Ask, Load, CreateRun, SaveRun
<1>3. CASE Decide(r) \/ ReachStepLimit(r) \/ StartCall(r)
    BY <1>3 DEF Decide, ReachStepLimit, StartCall
<1>4. CASE RunTool(r)
    BY <1>4 DEF RunTool, Duplicate, FirstTime, Execute
<1>5. CASE Audit(r) \/ Note(r) \/ StoreAnswer(r)
    BY <1>5 DEF Audit, Note, StoreAnswer
<1>6. CASE Finish(r) \/ Finalize(r)
    BY <1>6 DEF Finish, Finalize, SaveRun
<1>7. CASE RepositoryError(r)
    <2>1. runs'[q] = runs[q] /\ feedback'[q] = feedback[q]
        BY <1>7 DEF RepositoryError, Effect, SaveRun
    <2>2. pc'[q] = pc[q] /\ record'[q] = record[q]
        BY <1>7 DEF RepositoryError, Raised
    <2> QED
        BY <1>7, <2>1, <2>2 DEF RepositoryError
<1> QED
    BY <1>1, <1>2, <1>3, <1>4, <1>5, <1>6, <1>7 DEF RunStep, Proceed

\* Only the error counter is shared, and it never goes down.
LEMMA ErrorsGrow ==
    ASSUME TypeOK, NEW r \in Run, RunStep(r)
    PROVE  errors' \in Nat /\ errors' >= errors
<1> USE DEF TypeOK
<1>1. errors' = errors \/ errors' = errors + 1
    BY DEF RunStep, Proceed, OpenSession, SessionNotFound, Ask, Load, CreateRun, Decide,
           ReachStepLimit, StartCall, RunTool, Duplicate, FirstTime, Execute, Audit, Note,
           StoreAnswer, Finish, Finalize, Tell, RepositoryError, RepositoryRaises, Leave
<1> QED
    BY <1>1

\* The run that makes a step keeps its row, its record and what its client was
\* told consistent.
LEMMA OwnRowStep ==
    ASSUME TypeOK, NEW r \in Run, RowConsistent(r), RunStep(r)
    PROVE  RowConsistent(r)'
<1> USE DEF TypeOK, Goto, Emit, tables, local, Bare, Guarded, Ended, Ends, RowConsistent, SaveRun
<1>1. CASE OpenSession(r) \/ SessionNotFound(r) \/ Leave(r)
    BY <1>1 DEF OpenSession, SessionNotFound, Leave
<1>2. CASE Ask(r) \/ Load(r)
    BY <1>2 DEF Ask, Load, Record
<1>3. CASE CreateRun(r)
    BY <1>3 DEF CreateRun
<1>4. CASE Decide(r)
    <2>1. pc'[r] \in {"answer", "call"} \/ (pc'[r] = "finalize" /\ record'[r].status = "failed")
        BY <1>4 DEF Decide, Record
    <2>2. /\ pc[r] = "decide" /\ runs' = runs /\ event' = event
          /\ record'[r].status # "absent"
        BY <1>4 DEF Decide, Record
    <2> QED
        BY <2>1, <2>2
<1>5. CASE ReachStepLimit(r) \/ StartCall(r)
    BY <1>5 DEF ReachStepLimit, StartCall, Record
<1>6. CASE RunTool(r)
    BY <1>6 DEF RunTool
<1>7. CASE Audit(r) \/ Note(r) \/ StoreAnswer(r)
    BY <1>7 DEF Audit, Note, StoreAnswer, Record
<1>8. CASE Finish(r) \/ Finalize(r) \/ Tell(r)
    BY <1>8 DEF Finish, Finalize, Tell
<1>9. CASE RepositoryError(r)
    <2>1. errors' > 0
        BY <1>9 DEF RepositoryError, RepositoryRaises
    <2>2. (pc'[r] = "finalize" /\ record'[r].status = "failed") \/ pc'[r] = "raised"
        BY <1>9 DEF RepositoryError, Raised, Record
    <2>3. InTry(r) => runs'[r].status # "absent"
        BY <1>9 DEF RepositoryError, Effect, InTry
    <2>4. pc'[r] = "finalize" => InTry(r)
        BY <1>9 DEF RepositoryError, Raised
    <2>5. event'[r] # "done"
        BY <1>9 DEF RepositoryError
    <2> QED
        BY <2>1, <2>2, <2>3, <2>4, <2>5
<1> QED
    BY <1>1, <1>2, <1>3, <1>4, <1>5, <1>6, <1>7, <1>8, <1>9 DEF RunStep, Proceed

\* Every row is consistent after every step.
LEMMA RowsStep ==
    ASSUME TypeOK, \A q \in Run : RowConsistent(q), NEW r \in Run, RunStep(r)
    PROVE  \A q \in Run : RowConsistent(q)'
<1> SUFFICES ASSUME NEW q \in Run PROVE RowConsistent(q)'
    OBVIOUS
<1>1. CASE q = r
    BY <1>1, OwnRowStep
<1>2. CASE q # r
    BY <1>2, OthersLeftAlone, ErrorsGrow DEF RowConsistent, TypeOK
<1> QED
    BY <1>1, <1>2

\* A call of the run in hand, and the feedback it has stored so far.
LEMMA CallsStep ==
    ASSUME TypeOK, \A q \in Run : CallsConsistent(q), NEW r \in Run, RunStep(r)
    PROVE  \A q \in Run : CallsConsistent(q)'
<1> SUFFICES ASSUME NEW q \in Run PROVE CallsConsistent(q)'
    OBVIOUS
<1> USE DEF CallsConsistent
<1>1. CASE q # r
    BY <1>1, OthersLeftAlone
<1>2. CASE q = r
    <2> USE DEF TypeOK, Goto, tables, local
    <2>1. CASE OpenSession(r) \/ SessionNotFound(r) \/ Leave(r) \/ Tell(r)
        BY <1>2, <2>1 DEF OpenSession, SessionNotFound, Leave, Tell
    <2>2. CASE Ask(r) \/ Load(r) \/ CreateRun(r)
        BY <1>2, <2>2 DEF Ask, Load, CreateRun
    <2>3. CASE Decide(r)
        BY <1>2, <2>3, PlansAreSequences DEF Decide
    <2>4. CASE ReachStepLimit(r) \/ StartCall(r)
        BY <1>2, <2>4 DEF ReachStepLimit, StartCall
    <2>5. CASE RunTool(r)
        <3> DEFINE tool == Head(plan[r])
        <3>1. tool \in Tool
            BY <2>5, HeadTailProperties DEF RunTool
        <3> HIDE DEF tool
        <3>2. plan' = plan /\ (Duplicate(r, tool) \/ FirstTime(r, tool))
            BY <2>5 DEF RunTool, tool
        <3>3. CASE Duplicate(r, tool)
            BY <1>2, <2>5, <3>2, <3>3 DEF Duplicate, RunTool
        <3>4. CASE FirstTime(r, tool)
            <4>1. signatures'[r] = signatures[r] \cup ({tool} \cap Feedback)
                BY <3>4 DEF FirstTime
            <4>2. feedback'[r] = feedback[r]
                  \/ /\ tool \in Feedback
                     /\ feedback'[r] = [feedback[r] EXCEPT ![tool] = @ + 1]
                BY <3>4 DEF FirstTime, Execute
            <4>3. tool \in Feedback => feedback[r][tool] = 0
                BY <3>4 DEF FirstTime
            <4>4. \A f \in Feedback : feedback'[r][f] <= 1 /\ (feedback'[r][f] > 0 => f \in signatures'[r])
                BY <4>1, <4>2, <4>3
            <4> QED
                BY <1>2, <2>5, <3>2, <4>4 DEF RunTool
        <3> QED
            BY <3>2, <3>3, <3>4
    <2>6. CASE Audit(r) \/ Note(r) \/ StoreAnswer(r)
        BY <1>2, <2>6 DEF Audit, Note, StoreAnswer
    <2>7. CASE Finish(r) \/ Finalize(r)
        BY <1>2, <2>7 DEF Finish, Finalize
    <2>8. CASE RepositoryError(r)
        BY <1>2, <2>8 DEF RepositoryError, Raised, Effect
    <2> QED
        BY <2>1, <2>2, <2>3, <2>4, <2>5, <2>6, <2>7, <2>8 DEF RunStep, Proceed
<1> QED
    BY <1>1, <1>2

----------------------------------------------------------------------------
(* Sessions: who stores messages, and who keeps company with whom.          *)

\* Messages stay where they are; a step adds at most one, of its own run, at
\* the end, and a run that stored its question has done so together with the
\* company it keeps.
LEMMA MessagesGrow ==
    ASSUME TypeOK, NEW r \in Run, RunStep(r)
    PROVE  /\ \A i \in DOMAIN messages : i \in DOMAIN messages' /\ messages'[i] = messages[i]
           /\ \A i \in DOMAIN messages' \ DOMAIN messages :
                 /\ messages'[i].run = r
                 /\ \A j \in DOMAIN messages' : j <= i
                 /\ pc[r] \in {"ask", "note", "answer"} /\ pc'[r] \notin {"new", "ask"}
                 /\ pc[r] = "ask" => StoreQuestion(r)
<1> USE DEF TypeOK, Goto, tables
<1>1. \/ messages' = messages
      \/ /\ \E role \in {"user", "tool", "assistant"} : AddMessage(r, role)
         /\ pc[r] \in {"ask", "note", "answer"} /\ pc'[r] \notin {"new", "ask"}
         /\ pc[r] = "ask" => StoreQuestion(r)
    <2>1. CASE Ask(r) \/ Note(r) \/ StoreAnswer(r)
        BY <2>1 DEF Ask, Note, StoreAnswer, StoreQuestion
    <2>2. CASE RepositoryError(r)
        BY <2>2 DEF RepositoryError, Effect, Raised, StoreQuestion
    <2>3. CASE ~(Ask(r) \/ Note(r) \/ StoreAnswer(r) \/ RepositoryError(r))
        BY <2>3 DEF RunStep, Proceed, OpenSession, SessionNotFound, Load, CreateRun, Decide,
                    ReachStepLimit, StartCall, RunTool, Audit, Finish, Finalize, Tell, Leave
    <2> QED
        BY <2>1, <2>2, <2>3
<1>2. CASE messages' = messages
    BY <1>2
<1>3. CASE messages' # messages
    <2>1. PICK role \in {"user", "tool", "assistant"} : AddMessage(r, role)
        BY <1>1, <1>3
    <2> DEFINE m == [run |-> r, role |-> role]
    <2>2. m \in Message /\ m.run = r /\ messages' = Append(messages, m)
        BY <2>1 DEF Message, AddMessage
    <2> HIDE DEF m
    <2>3. /\ DOMAIN messages = 1 .. Len(messages) /\ Len(messages) \in Nat
          /\ DOMAIN messages' = 1 .. (Len(messages) + 1)
          /\ \A i \in 1 .. Len(messages) : messages'[i] = messages[i]
          /\ messages'[Len(messages) + 1] = m
        BY <2>2, AppendProperties, LenProperties
    <2>4. \A i \in DOMAIN messages' \ DOMAIN messages : i = Len(messages) + 1
        BY <2>3
    <2>5. \A i \in DOMAIN messages : i \in DOMAIN messages' /\ messages'[i] = messages[i]
        BY <2>3
    <2>6. \A j \in DOMAIN messages' : j <= Len(messages) + 1
        BY <2>3
    <2> QED
        BY ZenonT(60), <1>1, <1>3, <2>2, <2>3, <2>4, <2>5, <2>6
<1> QED
    BY <1>2, <1>3

\* Only a run that stores its question changes company.
LEMMA CompanyGrows ==
    ASSUME TypeOK, NEW r \in Run, RunStep(r)
    PROVE  company' = company \/ (pc[r] = "ask" /\ StoreQuestion(r))
BY DEF RunStep, Proceed, OpenSession, SessionNotFound, Ask, Load, CreateRun, Decide,
       ReachStepLimit, StartCall, RunTool, Audit, Note, StoreAnswer, Finish, Finalize, Tell,
       RepositoryError, Effect, Leave

\* How the run that makes a step moves on.
LEMMA OwnMove ==
    ASSUME TypeOK, NEW r \in Run, RunStep(r)
    PROVE  /\ pc'[r] # "new" /\ pc[r] \notin Ended
           /\ pc'[r] = "ask" => OpenSession(r)
           /\ pc'[r] = "load" => Ask(r)
           /\ Running(r)' => Running(r) \/ Ask(r)
           /\ pc[r] # "new" => session'[r] = session[r]
           /\ ~Load(r) => context'[r] = context[r]
           /\ record[r].status = "absent" /\ ~Load(r) /\ pc[r] \in {"new", "ask", "load"} =>
                 record'[r].status = "absent"
<1> USE DEF TypeOK, Goto, tables, local, Running, Ended
<1>1. CASE OpenSession(r) \/ SessionNotFound(r) \/ Ask(r) \/ Load(r) \/ CreateRun(r) \/ Leave(r)
    BY <1>1 DEF OpenSession, SessionNotFound, Ask, Load, CreateRun, Leave
<1>2. CASE Decide(r) \/ ReachStepLimit(r) \/ StartCall(r) \/ RunTool(r)
    BY <1>2 DEF Decide, ReachStepLimit, StartCall, RunTool
<1>3. CASE Audit(r) \/ Note(r) \/ StoreAnswer(r) \/ Finish(r) \/ Finalize(r) \/ Tell(r)
    BY <1>3 DEF Audit, Note, StoreAnswer, Finish, Finalize, Tell
<1>4. CASE RepositoryError(r)
    BY <1>4 DEF RepositoryError, Raised, InTry, Guarded
<1> QED
    BY <1>1, <1>2, <1>3, <1>4 DEF RunStep, Proceed

\* Every message was stored by a run.
LEMMA SentByRuns ==
    ASSUME TypeOK
    PROVE  \A i \in DOMAIN messages : messages[i].run \in Run
<1>1. messages \in [1 .. Len(messages) -> Message]
    BY LenProperties DEF TypeOK
<1> QED
    BY <1>1 DEF Message

\* A run without its session yet has no message.
LEMMA MessagesStep ==
    ASSUME TypeOK, MessagesConsistent, NEW r \in Run, RunStep(r)
    PROVE  MessagesConsistent'
<1> SUFFICES ASSUME NEW i \in DOMAIN messages' PROVE pc'[messages'[i].run] \notin {"new", "ask"}
    BY DEF MessagesConsistent
<1>1. CASE i \notin DOMAIN messages
    BY <1>1, MessagesGrow
<1>2. CASE i \in DOMAIN messages
    <2>1. messages'[i] = messages[i] /\ messages[i].run \in Run
        BY <1>2, MessagesGrow, SentByRuns
    <2>2. pc[messages[i].run] \notin {"new", "ask"}
        BY <1>2 DEF MessagesConsistent
    <2>3. CASE messages[i].run = r
        BY <2>1, <2>2, <2>3, OwnMove DEF OpenSession
    <2>4. CASE messages[i].run # r
        BY <2>1, <2>2, <2>4, OthersLeftAlone
    <2> QED
        BY <2>3, <2>4
<1> QED
    BY <1>1, <1>2

\* Two runs of a session that are in progress together know of each other: the
\* one that stored its question last has seen to it.
LEMMA CompanyStep ==
    ASSUME TypeOK, \A p \in Run : SessionConsistent(p), NEW r \in Run, RunStep(r),
           NEW q \in Run, NEW p \in Run \ {q}, Running(q)', Running(p)',
           session'[p] = session'[q]
    PROVE  p \in company'[q]
<1> USE DEF Running, Ended
<1>1. ASSUME NEW x \in Run, Running(x)' PROVE session'[x] = session[x]
    <2>1. CASE x = r
        BY <1>1, <2>1, OwnMove DEF Ask
    <2>2. CASE x # r
        BY <2>2, OthersLeftAlone
    <2> QED
        BY <2>1, <2>2
<1>2. ASSUME NEW x \in Run, Running(x)' PROVE Running(x) \/ (x = r /\ Ask(r))
    <2>1. CASE x = r
        BY <1>2, <2>1, OwnMove
    <2>2. CASE x # r
        BY <1>2, <2>2, OthersLeftAlone
    <2> QED
        BY <2>1, <2>2
<1>3. session[p] = session[q]
    BY <1>1
<1>4. CASE Running(p) /\ Running(q)
    <2>1. p \in company[q]
        BY <1>3, <1>4 DEF SessionConsistent
    <2>2. CASE company' = company
        BY <2>1, <2>2
    <2>3. CASE pc[r] = "ask" /\ StoreQuestion(r)
        BY <1>4, <2>1, <2>3 DEF StoreQuestion
    <2> QED
        BY <2>2, <2>3, CompanyGrows
<1>5. CASE p = r /\ Ask(r) /\ Running(q)
    BY <1>3, <1>5 DEF Ask, StoreQuestion, InProgress
<1>6. CASE q = r /\ Ask(r) /\ Running(p)
    BY <1>3, <1>6 DEF Ask, StoreQuestion, InProgress
<1> QED
    BY <1>2, <1>4, <1>5, <1>6

\* The messages of a session stay its messages, and gain only those that the
\* run in progress adds.
LEMMA SessionMessages ==
    ASSUME TypeOK, MessagesConsistent, NEW r \in Run, RunStep(r), NEW q \in Run \ {r},
           NEW j \in DOMAIN messages', session'[messages'[j].run] = session'[q]
    PROVE  \/ j \in DOMAIN messages /\ session[messages[j].run] = session[q]
           \/ /\ j \notin DOMAIN messages /\ session[r] = session[q]
              /\ pc[r] \in {"ask", "note", "answer"}
              /\ pc[r] = "ask" => StoreQuestion(r)
<1>1. session'[q] = session[q]
    BY OthersLeftAlone
<1>2. CASE j \notin DOMAIN messages
    <2>1. messages'[j].run = r /\ pc[r] \in {"ask", "note", "answer"}
          /\ (pc[r] = "ask" => StoreQuestion(r))
        BY <1>2, MessagesGrow
    <2>2. session'[r] = session[r]
        BY <2>1, OwnMove
    <2> QED
        BY <1>1, <1>2, <2>1, <2>2
<1>3. CASE j \in DOMAIN messages
    <2>1. messages'[j] = messages[j] /\ messages[j].run \in Run
        BY <1>3, MessagesGrow, SentByRuns
    <2>2. pc[messages[j].run] # "new"
        BY <1>3 DEF MessagesConsistent
    <2>3. session'[messages[j].run] = session[messages[j].run]
        BY <2>1, <2>2, OwnMove, OthersLeftAlone
    <2> QED
        BY <1>1, <1>3, <2>1, <2>3
<1> QED
    BY <1>2, <1>3

\* A run that has stored its question and has no company still has the newest
\* message of its session.
LEMMA QuestionStaysNewest ==
    ASSUME TypeOK, MessagesConsistent, \A p \in Run : SessionConsistent(p),
           NEW r \in Run, RunStep(r), NEW q \in Run, pc'[q] = "load", company'[q] = {}
    PROVE  \E i \in DOMAIN messages' :
              /\ messages'[i] = [run |-> q, role |-> "user"]
              /\ \A j \in DOMAIN messages' : session'[messages'[j].run] = session'[q] => j <= i
<1>1. CASE q = r
    <2>1. AddMessage(r, "user")
        BY <1>1, OwnMove DEF Ask, StoreQuestion
    <2>2. /\ DOMAIN messages' = 1 .. (Len(messages) + 1) /\ Len(messages) \in Nat
          /\ messages'[Len(messages) + 1] = [run |-> r, role |-> "user"]
        BY <2>1, AppendProperties, LenProperties DEF AddMessage, TypeOK, Message
    <2> QED
        BY <1>1, <2>2
<1>2. CASE q # r
    <2>1. pc[q] = "load"
        BY <1>2, OthersLeftAlone
    <2>2. company[q] = {} /\ r \notin company'[q]
        <3>1. CASE company' = company
            BY <3>1
        <3>2. CASE StoreQuestion(r)
            <4>1. company[q] \subseteq company'[q]
                BY <1>2, <3>2 DEF StoreQuestion
            <4> QED
                BY <4>1
        <3> QED
            BY <3>1, <3>2, CompanyGrows
    <2>3. PICK i \in DOMAIN messages :
              /\ messages[i] = [run |-> q, role |-> "user"]
              /\ \A j \in DOMAIN messages : session[messages[j].run] = session[q] => j <= i
        BY <2>1, <2>2 DEF SessionConsistent
    <2>4. i \in DOMAIN messages' /\ messages'[i] = [run |-> q, role |-> "user"]
        BY <2>3, MessagesGrow
    <2>5. ASSUME NEW j \in DOMAIN messages', session'[messages'[j].run] = session'[q]
          PROVE  j <= i
        <3>1. CASE j \in DOMAIN messages
            BY <1>2, <2>3, <2>5, <3>1, SessionMessages
        <3>2. CASE j \notin DOMAIN messages
            <4>1. /\ session[r] = session[q] /\ pc[r] \in {"ask", "note", "answer"}
                  /\ pc[r] = "ask" => StoreQuestion(r)
                BY <1>2, <2>5, <3>2, SessionMessages
            <4>2. CASE pc[r] = "ask"
                <5>1. q \in InProgress(r)
                    BY <2>1, <4>1 DEF InProgress, Running, Ended
                <5> QED
                    BY <1>2, <2>2, <4>1, <4>2, <5>1 DEF StoreQuestion
            <4>3. CASE pc[r] \in {"note", "answer"}
                <5>1. r \in company[q]
                    BY <1>2, <2>1, <4>1, <4>3 DEF SessionConsistent, Running, Ended
                <5> QED
                    BY <2>2, <5>1
            <4> QED
                BY <4>1, <4>2, <4>3
        <3> QED
            BY <3>1, <3>2
    <2> QED
        BY <2>4, <2>5
<1> QED
    BY <1>1, <1>2

\* Sessions stay consistent.
LEMMA SessionsStep ==
    ASSUME TypeOK, MessagesConsistent, \A p \in Run : SessionConsistent(p),
           NEW r \in Run, RunStep(r), NEW q \in Run
    PROVE  SessionConsistent(q)'
<1>1. pc'[q] \in {"ask", "load"} => session'[q] \in Run
    <2>1. CASE q = r
        BY <2>1, OwnMove DEF OpenSession, Ask, TypeOK, SessionConsistent, local
    <2>2. CASE q # r
        BY <2>2, OthersLeftAlone DEF SessionConsistent
    <2> QED
        BY <2>1, <2>2
<1>2. Running(q)' =>
          \A p \in Run \ {q} : Running(p)' /\ session'[p] = session'[q] => p \in company'[q]
    BY CompanyStep
<1>3. pc'[q] = "load" /\ company'[q] = {} =>
          \E i \in DOMAIN messages' :
              /\ messages'[i] = [run |-> q, role |-> "user"]
              /\ \A j \in DOMAIN messages' : session'[messages'[j].run] = session'[q] => j <= i
    BY QuestionStaysNewest
<1>4. context'[q] \subseteq DOMAIN messages'
    <2>1. DOMAIN messages \subseteq DOMAIN messages'
        BY MessagesGrow
    <2>2. CASE q = r /\ Load(r)
        <3>1. context'[r] \in BuildContext(r)
            BY <2>2 DEF Load, TypeOK
        <3> QED
            BY <2>1, <2>2, <3>1, ContextSelected DEF TypeOK
    <2>3. CASE ~(q = r /\ Load(r))
        <3>1. context'[q] = context[q]
            BY <2>3, OwnMove, OthersLeftAlone
        <3> QED
            BY <2>1, <3>1 DEF SessionConsistent
    <2> QED
        BY <2>2, <2>3
<1> QED
    BY <1>1, <1>2, <1>3, <1>4 DEF SessionConsistent

\* A run without company loads its own question last.
LEMMA LoadsItsOwnQuestion ==
    ASSUME TypeOK, NEW r \in Run, SessionConsistent(r), Load(r), company[r] = {}
    PROVE  \E i \in context'[r] :
              /\ messages'[i] = [run |-> r, role |-> "user"]
              /\ \A j \in context'[r] : j <= i
<1> DEFINE ours == {j \in DOMAIN messages : session[messages[j].run] = session[r]}
<1>1. PICK i \in DOMAIN messages :
          /\ messages[i] = [run |-> r, role |-> "user"]
          /\ \A j \in DOMAIN messages : session[messages[j].run] = session[r] => j <= i
    BY DEF Load, SessionConsistent
<1>2. ours \subseteq Nat /\ IsFiniteSet(ours) /\ i \in ours /\ \A j \in ours : j <= i
    <2>1. DOMAIN messages = 1 .. Len(messages) /\ Len(messages) \in Nat
        BY LenProperties DEF TypeOK
    <2>2. IsFiniteSet(DOMAIN messages)
        BY <2>1, FS_Interval
    <2> QED
        BY <1>1, <2>1, <2>2, FS_Subset
<1>3. i \in Turns(r) /\ Turns(r) \subseteq ours
    <2>1. LoadLimit \in Nat \ {0}
        BY BoundsAssumption DEF LoadLimit
    <2>2. i \in Newest(LoadLimit, ours)
        BY <1>2, <2>1, NewestKeepsLast
    <2> QED
        BY <1>1, <2>2, ContextSelected DEF Turns, TypeOK
<1>4. i \in RecentTurns(r) /\ RecentTurns(r) \subseteq ours
    <2>1. CASE HistoryLimit = 0
        BY <1>3, <2>1 DEF RecentTurns
    <2>2. CASE HistoryLimit # 0
        <3>1. HistoryLimit \in Nat \ {0}
            BY <2>2, BoundsAssumption
        <3>2. i \in Newest(HistoryLimit, Turns(r))
            BY <1>2, <1>3, <3>1, NewestKeepsLast
        <3> QED
            BY <1>3, <2>2, <3>2, ContextSelected DEF RecentTurns, TypeOK
    <2> QED
        BY <2>1, <2>2
<1>5. Cardinality(RecentTurns(r)) \in Nat
    BY <1>2, <1>4, FS_Subset, FS_CardinalityType
<1>6. \A n \in 1 .. Cardinality(RecentTurns(r)) + 1 : i \in Newest(n, RecentTurns(r))
    BY <1>2, <1>4, <1>5, NewestKeepsLast
<1>7. i \in context'[r] /\ context'[r] \subseteq ours
    BY <1>4, <1>6, ContextSelected DEF Load, BuildContext, TypeOK
<1> QED
    BY <1>1, <1>2, <1>7 DEF Load, tables

\* What a run without company asks, once it has loaded it.
LEMMA QuestionsStep ==
    ASSUME IInv, NEW r \in Run, RunStep(r)
    PROVE  AsksItsOwnQuestion'
<1> SUFFICES ASSUME NEW q \in Run, record'[q].status # "absent", company'[q] = {}
             PROVE  \E i \in context'[q] :
                        /\ messages'[i] = [run |-> q, role |-> "user"]
                        /\ \A j \in context'[q] : j <= i
    BY DEF AsksItsOwnQuestion
<1> USE DEF IInv
<1>1. CASE q = r /\ Load(r)
    <2>1. company[r] = {}
        BY <1>1 DEF Load
    <2> QED
        BY <1>1, <2>1, LoadsItsOwnQuestion
<1>2. CASE ~(q = r /\ Load(r))
    <2>1. record[q].status # "absent" /\ context'[q] = context[q]
        <3>1. CASE q # r
            BY <3>1, OthersLeftAlone
        <3>2. CASE q = r
            <4>1. context'[r] = context[r]
                BY <1>2, <3>2, OwnMove
            <4>2. CASE pc[r] \in {"new", "ask", "load"}
                BY <1>2, <3>2, <4>1, <4>2, OwnMove DEF RowConsistent
            <4>3. CASE pc[r] \notin {"new", "ask", "load"}
                <5>1. pc[r] \in {"create", "tell"} \cup Guarded \cup {"finalize"}
                    BY <4>3, OwnMove DEF TypeOK, Bare
                <5>2. record[r].status # "absent"
                    BY <5>1 DEF RowConsistent, Ends
                <5> QED
                    BY <3>2, <4>1, <5>2
            <4> QED
                BY <4>2, <4>3
        <3> QED
            BY <3>1, <3>2
    <2>2. company[q] = {}
        <3>1. CASE company' = company
            BY <3>1
        <3>2. CASE pc[r] = "ask" /\ StoreQuestion(r)
            <4>1. q # r
                BY <2>1, <3>2 DEF RowConsistent
            <4>2. company[q] \subseteq company'[q]
                BY <3>2, <4>1 DEF StoreQuestion
            <4> QED
                BY <4>2
        <3> QED
            BY <3>1, <3>2, CompanyGrows
    <2>3. PICK i \in context[q] :
              /\ messages[i] = [run |-> q, role |-> "user"]
              /\ \A j \in context[q] : j <= i
        BY <2>1, <2>2 DEF AsksItsOwnQuestion
    <2>4. messages'[i] = messages[i]
        BY <2>3, MessagesGrow DEF SessionConsistent
    <2> QED
        BY <2>1, <2>3, <2>4
<1> QED
    BY <1>1, <1>2

----------------------------------------------------------------------------
(* Theorems.                                                                *)

\* The invariant holds initially.
LEMMA InitIInv == Init => IInv
<1> SUFFICES ASSUME Init PROVE IInv
    OBVIOUS
<1> USE DEF Init
<1>1. TypeOK
    <2>1. <<>> \in Seq(Message) /\ <<>> \in Seq(Call) /\ <<>> \in Seq(Tool)
        OBVIOUS
    <2>2. Absent \in Record /\ NoCall \in Call /\ 0 \in 0 .. MaxErrors
        BY BoundsAssumption DEF Absent, Record, NoCall, Call, Tool
    <2> QED
        BY <2>1, <2>2 DEF TypeOK, Bare
<1>2. MessagesConsistent
    BY DEF MessagesConsistent
<1>3. ASSUME NEW r \in Run PROVE RowConsistent(r) /\ CallsConsistent(r) /\ SessionConsistent(r)
    BY DEF RowConsistent, CallsConsistent, SessionConsistent, Absent, Bare, Guarded, Running, Ended
<1>4. AsksItsOwnQuestion
    BY DEF AsksItsOwnQuestion, Absent
<1> QED
    BY <1>1, <1>2, <1>3, <1>4 DEF IInv

\* Every step keeps the invariant.
LEMMA NextIInv == IInv /\ [Next]_vars => IInv'
<1> SUFFICES ASSUME IInv, [Next]_vars PROVE IInv'
    OBVIOUS
<1>1. CASE UNCHANGED vars
    BY ZenonT(60), <1>1 DEF vars, tables, local, IInv, TypeOK, MessagesConsistent, RowConsistent,
                CallsConsistent, SessionConsistent, Running, AsksItsOwnQuestion
<1>2. ASSUME NEW r \in Run, RunStep(r) PROVE IInv'
    <2>1. TypeOK'
        BY <1>2, TypeStep DEF IInv
    <2>2. MessagesConsistent'
        BY <1>2, MessagesStep DEF IInv
    <2>3. \A q \in Run : RowConsistent(q)'
        BY <1>2, RowsStep DEF IInv
    <2>4. \A q \in Run : CallsConsistent(q)'
        BY <1>2, CallsStep DEF IInv
    <2>5. \A q \in Run : SessionConsistent(q)'
        BY <1>2, SessionsStep DEF IInv
    <2>6. AsksItsOwnQuestion'
        BY <1>2, QuestionsStep
    <2> QED
        BY <2>1, <2>2, <2>3, <2>4, <2>5, <2>6 DEF IInv
<1> QED
    BY <1>1, <1>2 DEF Next, Idle

\* The strengthened invariant of the agent runtime, for every number of runs,
\* steps, calls and repository errors.
THEOREM Invariance == Spec => []IInv
BY InitIInv, NextIInv, PTL DEF Spec

\* Type correctness of the agent runtime.
THEOREM TypeCorrect == Spec => []TypeOK
<1>1. IInv => TypeOK
    BY DEF IInv
<1> QED
    BY <1>1, Invariance, PTL

\* No feedback call is carried out twice in a run.  (side_effect_signatures)
THEOREM NoFeedbackTwice == Spec => []FeedbackStoredOnce
<1>1. IInv => FeedbackStoredOnce
    BY DEF IInv, CallsConsistent, FeedbackStoredOnce
<1> QED
    BY <1>1, Invariance, PTL

\* A run that is alone in its session asks the model its own question.
THEOREM OwnQuestionAsked == Spec => []AsksItsOwnQuestion
<1>1. IInv => AsksItsOwnQuestion
    BY DEF IInv
<1> QED
    BY <1>1, Invariance, PTL

\* A row is left running only by a run that was cut off or met an error.
THEOREM RunningRowsAreExplained == Spec => []RunningRowExplained
<1>1. IInv => RunningRowExplained
    BY DEF IInv, RowConsistent, RunningRowExplained, Ends, TypeOK
<1> QED
    BY <1>1, Invariance, PTL

\* A step of a run is a step of its promise, or changes neither the status of
\* a row nor what a client was told.
LEMMA PromiseStep ==
    ASSUME IInv, [Next]_vars
    PROVE  [Promise!Next]_(Promise!vars)
<1> DEFINE status == [r \in Run |-> runs[r].status]
           told == [r \in Run |-> Told(r)]
<1>1. CASE UNCHANGED vars
    BY <1>1 DEF vars, tables, local, Promise!vars, Told
<1>2. ASSUME NEW r \in Run, RunStep(r) PROVE [Promise!Next]_(Promise!vars)
    <2> USE DEF IInv, TypeOK
    <2>1. \A q \in Run \ {r} : status'[q] = status[q] /\ told'[q] = told[q]
        BY <1>2, OthersLeftAlone DEF Told
    <2>2. CASE runs'[r].status = runs[r].status /\ Told(r)' = Told(r)
        BY <2>1, <2>2 DEF Promise!vars
    <2>3. CASE /\ Told(r)' = Told(r) /\ Told(r) = "nothing" /\ runs[r].status = "absent"
               /\ runs'[r].status = "running"
        <3>1. status' = [status EXCEPT ![r] = "running"] /\ told' = told
            BY <2>1, <2>3
        <3> QED
            BY <2>3, <3>1 DEF Promise!Next, Promise!Begin
    <2>4. CASE /\ Told(r)' = Told(r) /\ Told(r) = "nothing" /\ runs[r].status # "absent"
               /\ runs'[r].status \in Ends
        <3>1. status' = [status EXCEPT ![r] = runs'[r].status] /\ told' = told
            BY <2>1, <2>4
        <3> QED
            BY <2>4, <3>1 DEF Promise!Next, Promise!Settle, Promise!Ends, Ends
    <2>5. CASE /\ Told(r) = "nothing" /\ runs[r].status \in Ends
               /\ Told(r)' = runs[r].status /\ runs'[r] = runs[r]
        <3>1. told' = [told EXCEPT ![r] = status[r]] /\ status' = status
            BY <2>1, <2>5
        <3> QED
            BY <2>5, <3>1 DEF Promise!Next, Promise!Tell, Promise!Ends, Ends
    <2>6. \/ runs'[r].status = runs[r].status /\ Told(r)' = Told(r)
          \/ /\ Told(r)' = Told(r) /\ Told(r) = "nothing" /\ runs[r].status = "absent"
             /\ runs'[r].status = "running"
          \/ /\ Told(r)' = Told(r) /\ Told(r) = "nothing" /\ runs[r].status # "absent"
             /\ runs'[r].status \in Ends
          \/ /\ Told(r) = "nothing" /\ runs[r].status \in Ends
             /\ Told(r)' = runs[r].status /\ runs'[r] = runs[r]
        <3>1. pc[r] # "told" /\ event[r] # "done" /\ Told(r) = "nothing"
            BY <1>2 DEF RowConsistent, Told, RunStep, Proceed, OpenSession, SessionNotFound, Ask,
                  Load, CreateRun, Decide, ReachStepLimit, StartCall, RunTool, Audit, Note,
                  StoreAnswer, Finish, Finalize, Tell, RepositoryError, Leave, Ended
        <3>2. CASE Tell(r)
            BY <3>1, <3>2 DEF Tell, Emit, Told, RowConsistent, tables, local
        <3>3. CASE ~Tell(r)
            <4>1. event'[r] # "done"
                BY <1>2, <3>1, <3>3 DEF RunStep, Proceed, OpenSession, SessionNotFound, Ask,
                  Load, CreateRun, Decide, ReachStepLimit, StartCall, RunTool, Audit, Note,
                  StoreAnswer, Finish, Finalize, RepositoryError, Leave, Emit
            <4>2. \/ runs' = runs
                  \/ runs'[r] = record[r] /\ pc[r] \in {"create", "store", "finalize"}
                BY <1>2, <3>3 DEF RunStep, Proceed, OpenSession, SessionNotFound, Ask,
                  Load, CreateRun, Decide, ReachStepLimit, StartCall, RunTool, Audit, Note,
                  StoreAnswer, Finish, Finalize, RepositoryError, Effect, Leave, SaveRun, tables
            <4> QED
                BY <3>1, <4>1, <4>2 DEF RowConsistent, Told, Bare, Guarded, Ends
        <3> QED
            BY <3>2, <3>3
    <2> QED
        BY <2>2, <2>3, <2>4, <2>5, <2>6
<1> QED
    BY <1>1, <1>2 DEF Next, Idle

\* The runtime keeps its promise: what a client was told is what the store
\* says, for ever.
THEOREM RuntimeKeepsPromise == Spec => PromiseSpec
<1>1. Init => Promise!Init
    BY DEF Init, Promise!Init, Absent, Told
<1>2. IInv /\ [Next]_vars => [Promise!Next]_(Promise!vars)
    BY PromiseStep
<1> QED
    BY <1>1, <1>2, Invariance, PTL DEF Spec, PromiseSpec, Promise!Spec

----------------------------------------------------------------------------
(* What a run leaves behind: its answer in the session, its audited calls,  *)
(* and the events of its stream.                                            *)

\* The pc a run can be at while it still makes steps, one step at a time.
LEMMA WhoMoves ==
    ASSUME NEW r \in Run, RunStep(r)
    PROVE  /\ pc[r] = "answer" => StoreAnswer(r) \/ RepositoryError(r) \/ Leave(r)
           /\ pc[r] = "audit" => Audit(r) \/ RepositoryError(r) \/ Leave(r)
<1>1. ASSUME OpenSession(r) \/ SessionNotFound(r) \/ Ask(r) \/ Load(r) \/ CreateRun(r)
             \/ Decide(r) \/ ReachStepLimit(r) \/ StartCall(r) \/ RunTool(r) \/ Note(r)
             \/ Finish(r) \/ Finalize(r) \/ Tell(r)
      PROVE  pc[r] \notin {"answer", "audit"}
    BY <1>1 DEF OpenSession, SessionNotFound, Ask, Load, CreateRun, Decide,
       ReachStepLimit, StartCall, RunTool, Note, Finish, Finalize, Tell
<1>2. Audit(r) => pc[r] = "audit"
    BY DEF Audit
<1>3. StoreAnswer(r) => pc[r] = "answer"
    BY DEF StoreAnswer
<1> QED
    BY <1>1, <1>2, <1>3 DEF RunStep, Proceed

\* Where the run that makes a step stands after it.
LEMMA OwnPlace ==
    ASSUME TypeOK, NEW r \in Run, RunStep(r)
    PROVE  /\ pc'[r] \in Bare \cup (Guarded \ {"store"}) =>
                 pc[r] \in Bare \cup (Guarded \ {"store"})
           /\ pc'[r] = "store" => StoreAnswer(r)
           /\ pc'[r] = "audit" => RunTool(r)
<1> USE DEF TypeOK, Goto, Bare, Guarded
<1>1. CASE OpenSession(r) \/ SessionNotFound(r) \/ Ask(r) \/ Load(r) \/ CreateRun(r) \/ Leave(r)
    BY <1>1 DEF OpenSession, SessionNotFound, Ask, Load, CreateRun, Leave
<1>2. CASE Decide(r) \/ ReachStepLimit(r) \/ StartCall(r) \/ RunTool(r)
    BY <1>2 DEF Decide, ReachStepLimit, StartCall, RunTool
<1>3. CASE Audit(r) \/ Note(r) \/ StoreAnswer(r) \/ Finish(r) \/ Finalize(r) \/ Tell(r)
    BY <1>3 DEF Audit, Note, StoreAnswer, Finish, Finalize, Tell
<1>4. CASE RepositoryError(r)
    BY <1>4 DEF RepositoryError, Raised
<1> QED
    BY <1>1, <1>2, <1>3, <1>4 DEF RunStep, Proceed

\* How its row and its record may change.
LEMMA OwnRow ==
    ASSUME TypeOK, NEW r \in Run, RunStep(r)
    PROVE  /\ \/ runs'[r] = runs[r]
              \/ pc[r] \in {"create", "store", "finalize"} /\ runs'[r] = record[r]
           /\ record'[r].status \in {"failed", "max_steps"} /\ errors' = 0 =>
                 \/ record[r].status \in {"failed", "max_steps"} /\ errors = 0
                 \/ pc[r] = "decide"
<1>1. \/ runs' = runs
      \/ pc[r] \in {"create", "store", "finalize"} /\ SaveRun(r, record[r])
    <2>1. CASE RepositoryError(r)
        BY <2>1 DEF RepositoryError, Effect, tables
    <2>2. CASE CreateRun(r) \/ Finish(r) \/ Finalize(r)
        BY <2>2 DEF CreateRun, Finish, Finalize
    <2>3. CASE ~(RepositoryError(r) \/ CreateRun(r) \/ Finish(r) \/ Finalize(r))
        BY <2>3 DEF RunStep, Proceed, OpenSession, SessionNotFound, Ask, Load, Decide,
                    ReachStepLimit, StartCall, RunTool, Audit, Note, StoreAnswer, Tell,
                    Leave, tables
    <2> QED
        BY <2>1, <2>2, <2>3
<1>2. CASE RepositoryError(r)
    BY <1>1, <1>2 DEF RepositoryError, RepositoryRaises, SaveRun, TypeOK
<1>3. CASE Load(r) \/ StoreAnswer(r) \/ Decide(r) \/ ReachStepLimit(r)
    <2>1. errors' = errors
        BY <1>3 DEF Load, StoreAnswer, Decide, ReachStepLimit
    <2>2. pc[r] = "decide" \/ record'[r].status \in {"running", "succeeded"}
        BY <1>3 DEF Load, StoreAnswer, Decide, ReachStepLimit, TypeOK, Record
    <2> QED
        BY <1>1, <2>1, <2>2 DEF SaveRun, TypeOK
<1>4. CASE ~(Load(r) \/ StoreAnswer(r) \/ Decide(r) \/ ReachStepLimit(r) \/ RepositoryError(r))
    <2>1. record' = record
        BY <1>4 DEF RunStep, Proceed, OpenSession, SessionNotFound, Ask, CreateRun,
           StartCall, RunTool, Audit, Note, Finish, Finalize, Tell, Leave, local
    <2>2. errors' = 0 => errors = 0
        BY ErrorsGrow DEF TypeOK
    <2> QED
        BY <1>1, <2>1, <2>2 DEF SaveRun, TypeOK
<1> QED
    BY <1>2, <1>3, <1>4

\* A run touches neither the calls nor the audit trail of another.
LEMMA OthersAuditLeftAlone ==
    ASSUME TypeOK, NEW r \in Run, NEW q \in Run \ {r}, RunStep(r)
    PROVE  call'[q] = call[q] /\ audit'[q] = audit[q]
<1>1. call'[q] = call[q]
    BY DEF TypeOK, tables, local, RunStep, Proceed, OpenSession, SessionNotFound, Ask, Load,
           CreateRun, Decide, ReachStepLimit, StartCall, RunTool, Duplicate, FirstTime, Execute,
           Audit, Note, StoreAnswer, Finish, Finalize, Tell, RepositoryError, Leave
<1>2. audit' = audit \/ audit' = [audit EXCEPT ![r] = Append(@, call[r])]
    BY DEF tables, local, RunStep, Proceed, OpenSession, SessionNotFound, Ask, Load,
           CreateRun, Decide, ReachStepLimit, StartCall, RunTool, Audit, SaveToolCall, Note,
           StoreAnswer, Finish, Finalize, Tell, RepositoryError, Effect, Leave
<1> QED
    BY <1>1, <1>2 DEF TypeOK

\* A new message is an answer of its run if it is the assistant's.
LEMMA AnswerAdded ==
    ASSUME TypeOK, NEW r \in Run, NEW role \in {"user", "tool", "assistant"},
           AddMessage(r, role), NEW q \in Run
    PROVE  /\ Len(messages) + 1 \in DOMAIN messages'
           /\ q = r /\ role = "assistant" =>
                 Answers(q)' = Answers(q) \cup {Len(messages) + 1}
           /\ ~(q = r /\ role = "assistant") => Answers(q)' = Answers(q)
<1> DEFINE m == [run |-> r, role |-> role]
<1>1. m \in Message /\ messages' = Append(messages, m)
    BY DEF Message, AddMessage
<1>2. m = [run |-> q, role |-> "assistant"] <=> q = r /\ role = "assistant"
    OBVIOUS
<1> HIDE DEF m
<1>3. /\ DOMAIN messages = 1 .. Len(messages) /\ Len(messages) \in Nat
      /\ DOMAIN messages' = 1 .. (Len(messages) + 1)
      /\ \A i \in 1 .. Len(messages) : messages'[i] = messages[i]
      /\ messages'[Len(messages) + 1] = m
    BY <1>1, AppendProperties, LenProperties DEF TypeOK
<1>4. Answers(q)' = {i \in DOMAIN messages' : messages'[i] = [run |-> q, role |-> "assistant"]}
    BY DEF Answers
<1> DEFINE answer == [run |-> q, role |-> "assistant"]
<1> HIDE DEF answer
<1>5. Answers(q)' = Answers(q) \cup {i \in {Len(messages) + 1} : m = answer}
    BY <1>3, <1>4 DEF Answers, answer
<1>6. m = answer <=> q = r /\ role = "assistant"
    BY <1>2 DEF answer
<1> QED
    BY <1>3, <1>5, <1>6

\* Only a run that is about to answer gains an answer.
LEMMA AnswersStep ==
    ASSUME TypeOK, NEW r \in Run, RunStep(r), NEW q \in Run
    PROVE  /\ q # r \/ pc[r] # "answer" => Answers(q)' = Answers(q)
           /\ StoreAnswer(r) => /\ Len(messages) + 1 \in DOMAIN messages'
                                /\ Answers(r)' = Answers(r) \cup {Len(messages) + 1}
<1>1. ASSUME StoreAnswer(r)
      PROVE  /\ Len(messages) + 1 \in DOMAIN messages'
             /\ Answers(r)' = Answers(r) \cup {Len(messages) + 1}
    BY <1>1, AnswerAdded DEF StoreAnswer
<1>2. ASSUME q # r \/ pc[r] # "answer"
      PROVE  Answers(q)' = Answers(q)
    <2>1. \/ messages' = messages
          \/ \E role \in {"user", "tool", "assistant"} :
                AddMessage(r, role) /\ ~(q = r /\ role = "assistant")
        <3>1. CASE Ask(r) \/ Note(r) \/ StoreAnswer(r)
            BY <1>2, <3>1 DEF Ask, Note, StoreAnswer, StoreQuestion
        <3>2. CASE RepositoryError(r)
            BY <1>2, <3>2 DEF RepositoryError, Effect, StoreQuestion, tables
        <3>3. CASE ~(Ask(r) \/ Note(r) \/ StoreAnswer(r) \/ RepositoryError(r))
            BY <3>3 DEF RunStep, Proceed, OpenSession, SessionNotFound, Load, CreateRun, Decide,
                        ReachStepLimit, StartCall, RunTool, Audit, Finish, Finalize, Tell,
                        Leave, tables
        <3> QED
            BY <3>1, <3>2, <3>3
    <2>2. CASE messages' = messages
        BY <2>2 DEF Answers
    <2> QED
        BY <2>1, <2>2, AnswerAdded
<1> QED
    BY <1>1, <1>2

\* The run that makes a step keeps its answers consistent.
LEMMA OwnAnswersStep ==
    ASSUME TypeOK, NEW r \in Run, RowConsistent(r), AnswersConsistent(r), RunStep(r)
    PROVE  AnswersConsistent(r)'
<1>1. CASE StoreAnswer(r)
    <2>1. /\ pc[r] = "answer" /\ pc'[r] = "store" /\ record'[r].status = "succeeded"
        BY <1>1 DEF StoreAnswer, Goto, TypeOK, Record
    <2>2. Answers(r) = {}
        BY <2>1 DEF AnswersConsistent, Guarded
    <2>3. Answers(r)' = {Len(messages) + 1} /\ Len(messages) + 1 \in DOMAIN messages'
        BY <1>1, <2>2, AnswersStep
    <2> QED
        BY <2>1, <2>3 DEF AnswersConsistent, Bare, Guarded
<1>2. CASE pc[r] = "answer" /\ ~StoreAnswer(r)
    <2>1. RepositoryError(r) \/ Leave(r)
        BY <1>2, WhoMoves
    <2>2. runs' = runs /\ pc'[r] \in {"finalize", "left"}
        BY <1>2, <2>1 DEF RepositoryError, Raised, InTry, Guarded, Goto, Effect, SaveRun,
                          Leave, tables, TypeOK
    <2>3. runs[r].status # "succeeded" /\ Answers(r) = {}
        BY <1>2 DEF AnswersConsistent, Guarded
    <2>4. errors' = 0 => Leave(r) /\ errors = 0
        BY <2>1 DEF RepositoryError, RepositoryRaises, Leave, TypeOK
    <2>5. Leave(r) => Answers(r)' = Answers(r)
        BY DEF Leave, Answers, tables
    <2> QED
        BY <2>2, <2>3, <2>4, <2>5 DEF AnswersConsistent, Bare, Guarded
<1>3. CASE pc[r] # "answer"
    <2>1. Answers(r)' = Answers(r) /\ DOMAIN messages \subseteq DOMAIN messages'
        BY <1>3, AnswersStep, MessagesGrow
    <2>2. pc'[r] \in Bare \cup (Guarded \ {"store"}) => pc[r] \in Bare \cup (Guarded \ {"store"})
        BY OwnPlace DEF Bare, Guarded
    <2>3. pc'[r] # "store"
        BY <1>3, OwnPlace DEF StoreAnswer
    <2>4. runs'[r].status = "succeeded" => runs[r].status = "succeeded" \/ pc[r] = "store"
        BY OwnRow DEF RowConsistent
    <2>5. record'[r].status \in {"failed", "max_steps"} /\ errors' = 0 =>
             \/ record[r].status \in {"failed", "max_steps"} /\ errors = 0
             \/ pc[r] = "decide"
        BY OwnRow
    <2> QED
        BY <2>1, <2>2, <2>3, <2>4, <2>5 DEF AnswersConsistent, Guarded
<1> QED
    BY <1>1, <1>2, <1>3

\* One more audited call counts for its tool and its status.
LEMMA CallAudited ==
    ASSUME TypeOK, NEW r \in Run, SaveToolCall(r), NEW f, NEW statuses
    PROVE  /\ call[r].tool = f /\ call[r].status \in statuses =>
                 AuditedAs(r, f, statuses)' = AuditedAs(r, f, statuses) \cup {Len(audit[r]) + 1}
           /\ ~(call[r].tool = f /\ call[r].status \in statuses) =>
                 AuditedAs(r, f, statuses)' = AuditedAs(r, f, statuses)
<1>1. call[r] \in Call /\ audit[r] \in Seq(Call)
    BY DEF TypeOK
<1>2. audit'[r] = Append(audit[r], call[r])
    BY DEF TypeOK, SaveToolCall
<1>3. /\ Len(audit[r]) \in Nat /\ Len(audit'[r]) = Len(audit[r]) + 1
      /\ \A i \in 1 .. Len(audit[r]) : audit'[r][i] = audit[r][i]
      /\ audit'[r][Len(audit[r]) + 1] = call[r]
    BY <1>1, <1>2, AppendProperties, LenProperties
<1> DEFINE n == Len(audit[r]) + 1
<1>4. n = Len(audit[r]) + 1
    OBVIOUS
<1> HIDE DEF n
<1>5. 1 .. n = (1 .. Len(audit[r])) \cup {n} /\ n \notin 1 .. Len(audit[r])
    BY <1>3, <1>4
<1>6. AuditedAs(r, f, statuses)' =
          {i \in 1 .. n : audit'[r][i].tool = f /\ audit'[r][i].status \in statuses}
    BY <1>3, <1>4 DEF AuditedAs
<1>7. AuditedAs(r, f, statuses)' = AuditedAs(r, f, statuses)
          \cup {i \in {n} : call[r].tool = f /\ call[r].status \in statuses}
    BY <1>3, <1>4, <1>5, <1>6 DEF AuditedAs
<1> QED
    BY <1>4, <1>7

\* The audited calls of a run are a finite set.
LEMMA AuditedFinite ==
    ASSUME TypeOK, NEW r \in Run, NEW f, NEW statuses
    PROVE  IsFiniteSet(AuditedAs(r, f, statuses))
<1>1. Len(audit[r]) \in Nat
    BY LenProperties DEF TypeOK
<1>2. IsFiniteSet(1 .. Len(audit[r]))
    BY <1>1, FS_Interval
<1> QED
    BY <1>2, FS_Subset DEF AuditedAs

\* Executing a tool: what it stores, and that it is audited next.
LEMMA ToolExecuted ==
    ASSUME TypeOK, NEW r \in Run, CallsConsistent(r), AuditConsistent(r), RunTool(r)
    PROVE  AuditConsistent(r)'
<1> DEFINE tool == Head(plan[r])
<1>1. tool \in Tool
    BY HeadTailProperties DEF RunTool, CallsConsistent, TypeOK
<1> HIDE DEF tool
<1>2. /\ pc[r] = "tool" /\ pc'[r] = "audit" /\ audit' = audit
      /\ Duplicate(r, tool) \/ FirstTime(r, tool)
    BY DEF RunTool, Goto, TypeOK, tool
<1>3. ASSUME NEW f, NEW statuses PROVE AuditedAs(r, f, statuses)' = AuditedAs(r, f, statuses)
    BY <1>2 DEF AuditedAs
<1>4. CASE Duplicate(r, tool)
    <2>1. call'[r].tool = tool /\ call'[r].status = "failed" /\ feedback' = feedback
          /\ errors' = errors
        BY <1>4 DEF Duplicate, TypeOK
    <2> QED
        BY <1>2, <1>3, <2>1 DEF AuditConsistent, CallStatus
<1>5. CASE FirstTime(r, tool)
    <2>1. PICK status \in CallStatus, stored \in BOOLEAN :
            /\ call' = [call EXCEPT ![r] = [tool |-> tool, status |-> status]]
            /\ stored => tool \in Feedback
            /\ status = "succeeded" /\ tool \in Feedback => stored
            /\ IF status = "failed" /\ stored THEN RepositoryRaises ELSE UNCHANGED errors
            /\ feedback' = IF stored THEN [feedback EXCEPT ![r][tool] = @ + 1] ELSE feedback
        BY <1>5 DEF FirstTime, Execute
    <2>2. call'[r].tool = tool /\ call'[r].status = status
        BY <2>1 DEF TypeOK
    <2>3. errors \in Nat /\ errors' \in Nat /\ errors' >= errors
        BY <2>1 DEF RepositoryRaises, TypeOK
    <2>4. \A f \in Feedback : f # tool => feedback'[r][f] = feedback[r][f]
        BY <2>1 DEF TypeOK
    <2>5. tool \in Feedback => /\ feedback[r][tool] = 0
                               /\ feedback'[r][tool] = IF stored THEN 1 ELSE 0
        BY <1>5, <2>1 DEF FirstTime, CallsConsistent, TypeOK
    <2>6. tool \in Feedback => AuditedAs(r, tool, {"succeeded"}) = {}
        <3>1. tool \in Feedback => Cardinality(AuditedAs(r, tool, {"succeeded"})) <= 0
            BY <2>5 DEF AuditConsistent
        <3>2. Cardinality(AuditedAs(r, tool, {"succeeded"})) \in Nat
            BY AuditedFinite, FS_CardinalityType
        <3> QED
            BY <3>1, <3>2, AuditedFinite, FS_EmptySet
    <2>7. ASSUME NEW f \in Feedback, f = tool
          PROVE  /\ Cardinality(AuditedAs(r, f, {"succeeded"})') <= feedback'[r][f]
                 /\ call'[r].status = "succeeded" =>
                       feedback'[r][f] > 0 /\ AuditedAs(r, f, {"succeeded"})' = {}
        <3>1. AuditedAs(r, f, {"succeeded"})' = {} /\ Cardinality(AuditedAs(r, f, {"succeeded"})') = 0
            BY <1>3, <2>6, <2>7, FS_EmptySet
        <3> QED
            BY <2>1, <2>2, <2>5, <2>7, <3>1
    <2>8. ASSUME NEW f \in Feedback, f # tool
          PROVE  /\ Cardinality(AuditedAs(r, f, {"succeeded"})') <= feedback'[r][f]
                 /\ feedback'[r][f] > 0 /\ AuditedAs(r, f, CallStatus)' = {} => errors' > 0
        BY <1>2, <1>3, <2>3, <2>4, <2>8 DEF AuditConsistent
    <2> QED
        BY <1>2, <2>1, <2>2, <2>7, <2>8 DEF AuditConsistent
<1> QED
    BY <1>2, <1>4, <1>5

\* Auditing a call: it accounts for the row it stored.
LEMMA ToolAudited ==
    ASSUME TypeOK, NEW r \in Run, CallsConsistent(r), AuditConsistent(r), pc[r] = "audit",
           SaveToolCall(r), pc'[r] # "audit", feedback' = feedback, errors' >= errors,
           errors' \in Nat
    PROVE  AuditConsistent(r)'
<1> SUFFICES ASSUME NEW f \in Feedback
             PROVE  /\ Cardinality(AuditedAs(r, f, {"succeeded"})') <= feedback[r][f]
                    /\ feedback[r][f] > 0 /\ AuditedAs(r, f, CallStatus)' = {} =>
                          pc'[r] = "left" \/ errors' > 0
    BY DEF AuditConsistent
<1>1. CASE call[r].tool = f
    <2>1. AuditedAs(r, f, CallStatus)' # {}
        <3>1. call[r].status \in CallStatus
            BY DEF AuditConsistent
        <3>2. AuditedAs(r, f, CallStatus)' = AuditedAs(r, f, CallStatus) \cup {Len(audit[r]) + 1}
            BY <1>1, <3>1, CallAudited
        <3> QED
            BY <3>2
    <2>2. CASE call[r].status = "succeeded"
        <3>1. feedback[r][f] > 0 /\ AuditedAs(r, f, {"succeeded"}) = {} /\ feedback[r][f] \in Nat
            BY <1>1, <2>2 DEF AuditConsistent, TypeOK
        <3>2. AuditedAs(r, f, {"succeeded"})' = {Len(audit[r]) + 1}
            BY <1>1, <2>2, <3>1, CallAudited
        <3>3. Cardinality(AuditedAs(r, f, {"succeeded"})') = 1
            BY <3>2, FS_Singleton
        <3> QED
            BY <2>1, <3>1, <3>3
    <2>3. CASE call[r].status # "succeeded"
        BY <2>1, <2>3, CallAudited DEF AuditConsistent
    <2> QED
        BY <2>2, <2>3
<1>2. CASE call[r].tool # f
    BY <1>2, CallAudited DEF AuditConsistent, TypeOK
<1> QED
    BY <1>1, <1>2

\* The run that makes a step keeps its audit trail consistent.
LEMMA OwnAuditStep ==
    ASSUME TypeOK, NEW r \in Run, CallsConsistent(r), AuditConsistent(r), RunStep(r)
    PROVE  AuditConsistent(r)'
<1>1. CASE RunTool(r)
    BY <1>1, ToolExecuted
<1>2. CASE pc[r] = "audit" /\ SaveToolCall(r)
    <2>1. pc'[r] # "audit"
        BY <1>2, OwnPlace DEF RunTool
    <2>2. feedback' = feedback
        BY <1>2, WhoMoves DEF Audit, RepositoryError, Effect, Leave, tables
    <2> QED
        BY <1>2, <2>1, <2>2, ErrorsGrow, ToolAudited
<1>3. CASE ~RunTool(r) /\ ~(pc[r] = "audit" /\ SaveToolCall(r))
    <2>1. audit' = audit /\ feedback' = feedback
        <3>1. CASE RepositoryError(r)
            BY <1>3, <3>1 DEF RepositoryError, Effect, tables
        <3>2. CASE ~RepositoryError(r)
            BY <1>3, <3>2 DEF RunStep, Proceed, OpenSession, SessionNotFound, Ask, Load,
                  CreateRun, Decide, ReachStepLimit, StartCall, Audit, Note, StoreAnswer, Finish,
                  Finalize, Tell, Leave, tables
        <3> QED
            BY <3>1, <3>2
    <2>2. pc'[r] # "audit"
        BY <1>3, OwnPlace
    <2>3. pc[r] = "audit" => pc'[r] = "left" \/ errors' > 0
        BY <1>3, WhoMoves DEF Audit, RepositoryError, RepositoryRaises, Leave, Goto, TypeOK
    <2>4. pc[r] # "left"
        BY OwnMove DEF Ended
    <2>5. errors' \in Nat /\ errors' >= errors /\ errors \in Nat
        BY ErrorsGrow DEF TypeOK
    <2>6. ASSUME NEW f, NEW statuses PROVE AuditedAs(r, f, statuses)' = AuditedAs(r, f, statuses)
        BY <2>1 DEF AuditedAs
    <2> QED
        BY <2>1, <2>2, <2>3, <2>4, <2>5, <2>6 DEF AuditConsistent
<1> QED
    BY <1>1, <1>2, <1>3

\* The run that makes a step sends its client the event that is due, and stands
\* where that event says.
LEMMA OwnEventStep ==
    ASSUME TypeOK, NEW r \in Run, EventConsistent(r), RunStep(r)
    PROVE  /\ EventConsistent(r)'
           /\ event'[r] # event[r] =>
                 /\ Follows(event[r], event'[r])
                 /\ <<event[r], event'[r]>> = <<"tool_started", "error">> => errors > 0
<1> USE DEF TypeOK, Goto, Emit, EventConsistent, Follows
<1>1. CASE OpenSession(r) \/ SessionNotFound(r) \/ Leave(r)
    BY <1>1 DEF OpenSession, SessionNotFound, Leave
<1>2. CASE Ask(r) \/ Load(r) \/ CreateRun(r)
    BY <1>2 DEF Ask, Load, CreateRun
<1>3. CASE Decide(r) \/ ReachStepLimit(r)
    BY <1>3 DEF Decide, ReachStepLimit
<1>4. CASE StartCall(r) \/ RunTool(r)
    BY <1>4 DEF StartCall, RunTool
<1>5. CASE Audit(r) \/ Note(r) \/ StoreAnswer(r)
    BY <1>5 DEF Audit, Note, StoreAnswer
<1>6. CASE Finish(r) \/ Finalize(r) \/ Tell(r)
    BY <1>6 DEF Finish, Finalize, Tell
<1>7. CASE RepositoryError(r)
    <2>1. event' = event /\ errors' > 0
        BY <1>7 DEF RepositoryError, RepositoryRaises
    <2>2. \/ pc'[r] = "raised"
          \/ pc'[r] = "finalize" /\ pc[r] \in {"audit", "note", "answer", "store", "finalize"}
        BY <1>7 DEF RepositoryError, Raised, InTry, Guarded
    <2> QED
        BY <2>1, <2>2
<1> QED
    BY <1>1, <1>2, <1>3, <1>4, <1>5, <1>6, <1>7 DEF RunStep, Proceed

\* The invariant holds initially.
LEMMA InitTrail == Init => TrailIInv
<1> SUFFICES ASSUME Init, NEW r \in Run
             PROVE  AnswersConsistent(r) /\ AuditConsistent(r) /\ EventConsistent(r)
    BY InitIInv DEF TrailIInv
<1> USE DEF Init
<1>1. AnswersConsistent(r)
    BY DEF AnswersConsistent, Answers, Absent
<1>2. ASSUME NEW f, NEW statuses PROVE AuditedAs(r, f, statuses) = {}
    BY DEF AuditedAs
<1>3. AuditConsistent(r)
    <2>1. pc[r] = "new" /\ \A f \in Feedback : feedback[r][f] = 0
        OBVIOUS
    <2>2. ASSUME NEW f \in Feedback PROVE Cardinality(AuditedAs(r, f, {"succeeded"})) = 0
        BY <1>2, FS_EmptySet
    <2> QED
        BY <2>1, <2>2 DEF AuditConsistent
<1>4. EventConsistent(r)
    BY DEF EventConsistent
<1> QED
    BY <1>1, <1>3, <1>4

\* Every step of a run keeps the trail of every run consistent.
LEMMA TrailStep ==
    ASSUME TrailIInv, NEW r \in Run, RunStep(r), NEW q \in Run
    PROVE  AnswersConsistent(q)' /\ AuditConsistent(q)' /\ EventConsistent(q)'
<1> USE DEF TrailIInv, IInv
<1>1. CASE q = r
    BY <1>1, OwnAnswersStep, OwnAuditStep, OwnEventStep
<1>2. CASE q # r
    <2>1. /\ pc'[q] = pc[q] /\ event'[q] = event[q] /\ runs'[q] = runs[q]
          /\ record'[q] = record[q] /\ feedback'[q] = feedback[q]
          /\ call'[q] = call[q] /\ audit'[q] = audit[q]
        BY <1>2, OthersLeftAlone, OthersAuditLeftAlone
    <2>2. errors' \in Nat /\ errors' >= errors /\ errors \in Nat
        BY ErrorsGrow DEF TypeOK
    <2>3. AnswersConsistent(q)'
        <3>1. Answers(q)' = Answers(q) /\ DOMAIN messages \subseteq DOMAIN messages'
            BY <1>2, AnswersStep, MessagesGrow
        <3> QED
            BY <2>1, <2>2, <3>1 DEF AnswersConsistent
    <2>4. AuditConsistent(q)'
        <3>1. ASSUME NEW f, NEW statuses PROVE AuditedAs(q, f, statuses)' = AuditedAs(q, f, statuses)
            BY <2>1 DEF AuditedAs
        <3> QED
            BY <2>1, <2>2, <3>1 DEF AuditConsistent
    <2>5. EventConsistent(q)'
        BY <2>1, <2>2 DEF EventConsistent
    <2> QED
        BY <2>3, <2>4, <2>5
<1> QED
    BY <1>1, <1>2

\* Every step keeps the invariant.
LEMMA NextTrail == TrailIInv /\ [Next]_vars => TrailIInv'
<1> SUFFICES ASSUME TrailIInv, [Next]_vars PROVE TrailIInv'
    OBVIOUS
<1>1. IInv'
    BY NextIInv DEF TrailIInv
<1>2. CASE UNCHANGED vars
    <2> SUFFICES ASSUME NEW r \in Run
                 PROVE  AnswersConsistent(r)' /\ AuditConsistent(r)' /\ EventConsistent(r)'
        BY <1>1 DEF TrailIInv
    <2> USE <1>2 DEF vars, tables, local, TrailIInv
    <2>1. AnswersConsistent(r)'
        BY DEF AnswersConsistent, Answers
    <2>2. AuditConsistent(r)'
        BY DEF AuditConsistent, AuditedAs
    <2>3. EventConsistent(r)'
        BY DEF EventConsistent
    <2> QED
        BY <2>1, <2>2, <2>3
<1>3. ASSUME NEW r \in Run, RunStep(r) PROVE TrailIInv'
    BY <1>1, <1>3, TrailStep DEF TrailIInv
<1> QED
    BY <1>2, <1>3 DEF Next, Idle

\* The trail of every run stays consistent: its answer, its audited calls and the
\* events of its stream, for every number of runs, steps, calls and errors.
THEOREM TrailInvariance == Spec => []TrailIInv
BY InitTrail, NextTrail, PTL DEF Spec

\* A row that says "succeeded" has its answer in the session, once, and a run that
\* failed without a repository error has put none there.
\* (_finish stores the message before the row)
THEOREM AnswersAreInSession == Spec => []AnswerIsInSession
<1>1. TrailIInv => AnswerIsInSession
    <2> SUFFICES ASSUME TrailIInv, NEW r \in Run
                 PROVE  /\ runs[r].status = "succeeded" => Cardinality(Answers(r)) = 1
                        /\ Told(r) \in {"failed", "max_steps"} /\ errors = 0 => Answers(r) = {}
        BY DEF AnswerIsInSession
    <2>1. AnswersConsistent(r)
        BY DEF TrailIInv
    <2> QED
        BY <2>1, FS_Singleton DEF AnswersConsistent, Told
<1> QED
    BY <1>1, TrailInvariance, PTL

\* The audit trail and the feedback table agree.  (save_tool_call after execute)
THEOREM AuditAgreesWithFeedback == Spec => []AuditMatchesFeedback
<1>1. TrailIInv => AuditMatchesFeedback
    BY DEF TrailIInv, AuditConsistent, AuditMatchesFeedback
<1> QED
    BY <1>1, TrailInvariance, PTL

\* Events reach the client in the order the API promises.  (the yields of stream)
THEOREM EventsComeInOrder == Spec => EventsInOrder
<1>1. ASSUME TrailIInv, [Next]_vars, NEW r \in Run, event'[r] # event[r]
      PROVE  /\ Follows(event[r], event'[r])
             /\ <<event[r], event'[r]>> = <<"tool_started", "error">> => errors > 0
    <2>1. PICK q \in Run : RunStep(q)
        BY <1>1 DEF Next, Idle, vars
    <2>2. q = r
        BY <1>1, <2>1, OthersLeftAlone DEF TrailIInv, IInv
    <2> QED
        BY <1>1, <2>1, <2>2, OwnEventStep DEF TrailIInv, IInv
<1>2. TrailIInv /\ [Next]_vars =>
         [\A r \in Run :
             event'[r] # event[r] =>
                 /\ Follows(event[r], event'[r])
                 /\ <<event[r], event'[r]>> = <<"tool_started", "error">> => errors > 0]_vars
    BY <1>1
<1> QED
    BY <1>2, TrailInvariance, PTL DEF Spec, EventsInOrder
=============================================================================
