----------------------------- MODULE Application -----------------------------
(***************************************************************************)
(* The process that serves the HTTP API (app/main.py, app/routes.py): its   *)
(* lifespan, which opens and closes the repository, the task service and    *)
(* the rate limiter around the requests, the middleware before them and     *)
(* what the handlers answer, while the database comes and goes and the      *)
(* process may crash.  The deque limiter is MemoryRateLimiter's; a crash or *)
(* a close empties it, and its history is that of the running process.      *)
(***************************************************************************)
EXTENDS MemoryRateLimiter

CONSTANTS
    Request,     \* requests, each sent once
    Attempts,    \* mysql_connect_retry_attempts
    RetryDelay,  \* mysql_connect_retry_delay_seconds
    DelayCap,    \* 5.0 seconds
    MaxOutages   \* bound: times the database goes down or the process crashes

ASSUME RetryAssumption ==
    /\ Attempts \in Nat \ {0}
    /\ RetryDelay \in Nat \ {0}
    /\ DelayCap \in Nat \ {0}

\* One client; the middleware counts the parts of the API apart.
ASSUME KeyAssumption == {"chat", "search", "agent"} \subseteq Key

VARIABLES
    database,  \* whether the store answers; the JSON files always do
    outages,
    phase,     \* where the process is in its lifespan
    startup,   \* the connection attempt, when it began, when the next one is due
    pool,      \* the repository: "none", "open" or "closed"
    workers,   \* the task service: "none", "idle", "busy" or "stopped"
    queue,     \* the tasks in its asyncio.Queue
    calls,     \* what became of each request; when it came, if it is a question
    stored,    \* the requests whose task row is committed
    tried,     \* the tasks a worker of this process has taken
    orphans    \* the rows a crash has left to the recovery of the next start

limiter == <<windows, accepted, answer>>
process == <<phase, startup, pool, workers, queue>>
world == <<database, outages, stored, tried, orphans>>
appVars == <<vars, process, world, calls>>

Unsent == [route |-> "none", pc |-> "unsent", status |-> 0, at |-> 0]

AppInit ==
    /\ Init
    /\ database \in {"up", "down"}
    /\ outages = 0
    /\ phase = "starting"
    /\ startup = [attempt |-> 1, began |-> 0, due |-> 0]
    /\ pool = "none"
    /\ workers = "none"
    /\ queue = {}
    /\ calls = [r \in Request |-> Unsent]
    /\ stored = {}
    /\ tried = {}
    /\ orphans = {}

Reachable == database = "up"

Smaller(a, b) == IF a <= b THEN a ELSE b

----------------------------------------------------------------------------
(* Startup and shutdown.                                                    *)

Pause(attempt) == Smaller(RetryDelay * attempt, DelayCap)

\* repository.start: one attempt to create the pool.
Connect ==
    /\ phase = "starting"
    /\ now >= startup.due
    /\ IF Reachable
       THEN /\ phase' = "recovering"
            /\ pool' = "open"
            /\ startup' = [startup EXCEPT !.attempt = 1, !.due = 0]
       ELSE /\ IF startup.attempt = Attempts
               THEN phase' = "gaveUp" /\ UNCHANGED startup
               ELSE /\ startup' = [startup EXCEPT !.attempt = @ + 1,
                                                  !.due = now + Pause(startup.attempt)]
                    /\ UNCHANGED phase
            /\ UNCHANGED pool
    /\ UNCHANGED <<workers, queue, vars, world, calls>>

\* task_service.start: what is recovered depends on leases and attempts, which are
\* those of IngestionTasks.  If recover_expired_tasks raises, the exception passes the
\* lifespan by: there is no try around it yet, and the pool stays open.
StartTaskService ==
    /\ phase = "recovering"
    /\ \/ Reachable /\ phase' = "serving" /\ workers' = "idle" /\ queue' \in SUBSET stored
       \/ ~Reachable /\ phase' = "gaveUp" /\ UNCHANGED <<workers, queue>>
    /\ UNCHANGED <<startup, pool, vars, world, calls>>

InFlight == {r \in Request : calls[r].pc \in {"handling", "committed", "streaming"}}

\* The server is told to stop: it takes no more requests.
Stop ==
    /\ phase = "serving"
    /\ phase' = "draining"
    /\ UNCHANGED <<startup, pool, workers, queue, vars, world, calls>>

\* The server has answered what it took, and the lifespan goes on.
Drained ==
    /\ phase = "draining"
    /\ InFlight = {}
    /\ phase' = "closing"
    /\ UNCHANGED <<startup, pool, workers, queue, vars, world, calls>>

\* task_service.close: the workers finish what is queued, then meet a sentinel.
CloseTaskService ==
    /\ phase = "closing"
    /\ workers = "idle"
    /\ queue = {}
    /\ workers' = "stopped"
    /\ UNCHANGED <<phase, startup, pool, queue, vars, world, calls>>

\* Mutant: the pool is closed first.
CloseRepositoryFirst ==
    /\ phase = "closing"
    /\ pool' = "closed"
    /\ phase' = IF workers = "stopped" THEN "closingLimiter" ELSE phase
    /\ UNCHANGED <<startup, workers, queue, vars, world, calls>>

CloseRepository ==
    /\ phase = "closing"
    /\ workers = "stopped"
    /\ pool' = "closed"
    /\ phase' = "closingLimiter"
    /\ UNCHANGED <<startup, workers, queue, vars, world, calls>>

ResetLimiter ==
    /\ windows' = [k \in Key |-> <<>>]
    /\ accepted' = [k \in Key |-> <<>>]
    /\ answer' = [k \in Key |-> [allowed |-> TRUE, at |-> 0]]
    /\ UNCHANGED now

CloseLimiter ==
    /\ phase = "closingLimiter"
    /\ phase' = "exited"
    /\ ResetLimiter
    /\ UNCHANGED <<startup, pool, workers, queue, world, calls>>

----------------------------------------------------------------------------
(* A request.  400 stands for every refusal by a handler, 401 and 404 too.  *)

\* Mutant: only the runs of the agent are limited.
LimitedWithoutStreams == {"chat", "search", "agent"}

\* rate_limited_prefixes: "/api/agent/" are the runs and the streams.
Limited == {"chat", "search", "agent", "stream"}

Routes == {"chat", "search", "agent", "stream", "tool", "task", "lookup", "ready"}

\* The part of the path behind "/api/".
KeyOf(route) == IF route = "stream" THEN "agent" ELSE route

\* What is asked of each part of the API.
Questions == [chat |-> {"chat"}, search |-> {"search"}, agent |-> {"agent", "stream"}]

Taken(r, route, pc, status) ==
    calls' = [calls EXCEPT ![r] = [route |-> route, pc |-> pc, status |-> status,
                                   at |-> IF route \in UNION {Questions[p] : p \in DOMAIN Questions}
                                          THEN now ELSE 0]]

\* Both middlewares: a refused request is answered before any handler.
Receive(r, route) ==
    /\ phase = "serving"
    /\ calls[r].pc = "unsent"
    /\ IF route \in Limited
       THEN LET k == KeyOf(route)
                window == DropExpired(windows[k], now - Window)
            IN \/ Allow(k, window) /\ Taken(r, route, "handling", 0)
               \/ Refuse(k, window) /\ Taken(r, route, "done", 429)
       ELSE Taken(r, route, "handling", 0) /\ UNCHANGED limiter
    /\ UNCHANGED <<now, process, world>>

Handling(r, routes) == calls[r].pc = "handling" /\ calls[r].route \in routes

Respond(r, pc, status) ==
    calls' = [calls EXCEPT ![r].pc = pc, ![r].status = status]

\* chat and search: the event is recorded if it can be.
AnswerQuery(r) ==
    /\ Handling(r, {"chat", "search"})
    /\ Respond(r, "done", 200)
    /\ UNCHANGED <<vars, process, world>>

\* agent_run: an error of the runtime has a code, any other exception is an internal
\* error; without the database there is no session and no answer.
AnswerAgent(r) ==
    /\ Handling(r, {"agent"})
    /\ \E status \in {400, 500} \cup (IF Reachable THEN {200} ELSE {}) :
          Respond(r, "done", status)
    /\ UNCHANGED <<vars, process, world>>

\* tool_call: searching and reading need no database; what record_feedback leaves in it
\* is AgentRuntime's.
CallTool(r) ==
    /\ Handling(r, {"tool"})
    /\ \E status \in {200, 400, 500} : Respond(r, "done", status)
    /\ UNCHANGED <<vars, process, world>>

\* agent_stream: the status is sent before the first event.
BeginStream(r) ==
    /\ Handling(r, {"stream"})
    /\ Respond(r, "streaming", 200)
    /\ UNCHANGED <<vars, process, world>>

\* An exception after the status can only cut the stream off.
EndStream(r) ==
    /\ calls[r].pc = "streaming"
    /\ \E pc \in {"cut"} \cup (IF Reachable THEN {"done"} ELSE {}) : Respond(r, pc, 200)
    /\ UNCHANGED <<vars, process, world>>

\* create_ingestion_task up to the commit: no credentials; a row; an error that may hide
\* a row, whose id is in no queue.
StoreTask(r) ==
    /\ Handling(r, {"task"})
    /\ \/ Respond(r, "done", 400) /\ UNCHANGED stored
       \/ /\ Reachable
          /\ Respond(r, "committed", 0)
          /\ stored' = stored \cup {r}
       \/ /\ ~Reachable
          /\ Respond(r, "done", 500)
          /\ stored' \in {stored, stored \cup {r}}
    /\ UNCHANGED <<vars, process, database, outages, tried, orphans>>

\* Mutant: nothing is queued any more once the server was told to stop.
AnswerTaskWhileServing(r) ==
    /\ calls[r].pc = "committed"
    /\ queue' = IF phase = "serving" THEN queue \cup {r} ELSE queue
    /\ Respond(r, "done", 202)
    /\ UNCHANGED <<vars, phase, startup, pool, workers, world>>

\* The id is put into the queue and the client is told, which needs no database.
AnswerTask(r) ==
    /\ calls[r].pc = "committed"
    /\ queue' = queue \cup {r}
    /\ Respond(r, "done", 202)
    /\ UNCHANGED <<vars, phase, startup, pool, workers, world>>

LookUpTask(r) ==
    /\ Handling(r, {"lookup"})
    /\ \E status \in {400} \cup (IF Reachable THEN {200} ELSE {500}) :
          Respond(r, "done", status)
    /\ UNCHANGED <<vars, process, world>>

\* ready, by health_check: an error is an answer.
CheckReady(r) ==
    /\ Handling(r, {"ready"})
    /\ Respond(r, "done", IF pool = "open" /\ Reachable THEN 200 ELSE 503)
    /\ UNCHANGED <<vars, process, world>>

Handle(r) ==
    \/ AnswerQuery(r) \/ AnswerAgent(r) \/ CallTool(r) \/ BeginStream(r) \/ EndStream(r)
    \/ StoreTask(r) \/ AnswerTask(r) \/ LookUpTask(r) \/ CheckReady(r)

\* Mutant: nothing is taken from the queue any more once close was called.
WorkerTakesTaskWhileOpen ==
    /\ workers = "idle"
    /\ phase # "closing"
    /\ \E t \in queue : queue' = queue \ {t} /\ tried' = tried \cup {t}
    /\ workers' = "busy"
    /\ UNCHANGED <<phase, startup, pool, vars, database, outages, stored, orphans, calls>>

\* A worker executes a task; retries and their outcomes are those of IngestionTasks.
WorkerTakesTask ==
    /\ workers = "idle"
    /\ \E t \in queue : queue' = queue \ {t} /\ tried' = tried \cup {t}
    /\ workers' = "busy"
    /\ UNCHANGED <<phase, startup, pool, vars, database, outages, stored, orphans, calls>>

WorkerFinishesTask ==
    /\ workers = "busy"
    /\ workers' = "idle"
    /\ UNCHANGED <<phase, startup, pool, queue, vars, world, calls>>

----------------------------------------------------------------------------
(* The world.                                                               *)

DatabaseChanges ==
    /\ \/ database = "down" /\ database' = "up" /\ UNCHANGED outages
       \/ database = "up" /\ outages < MaxOutages /\ database' = "down"
              /\ outages' = outages + 1
    /\ UNCHANGED <<vars, process, calls, stored, tried, orphans>>

Crash ==
    /\ phase \notin {"down", "exited", "gaveUp"}
    /\ outages < MaxOutages
    /\ outages' = outages + 1
    /\ phase' = "down"
    /\ pool' = "none"
    /\ workers' = "none"
    /\ queue' = {}
    /\ calls' = [r \in Request |->
                    IF r \in InFlight THEN [calls[r] EXCEPT !.pc = "lost"] ELSE calls[r]]
    /\ tried' = {}
    /\ orphans' = stored
    /\ ResetLimiter
    /\ UNCHANGED <<startup, database, stored>>

\* The container is started again.
Restart ==
    /\ phase \in {"down", "gaveUp"}
    /\ phase' = "starting"
    /\ startup' = [attempt |-> 1, began |-> now, due |-> now]
    /\ pool' = "none"
    /\ UNCHANGED <<workers, queue, vars, world, calls>>

Time == Tick /\ UNCHANGED <<process, world, calls>>

Lifespan ==
    \/ Connect \/ StartTaskService \/ Drained \/ CloseTaskService \/ CloseRepository
    \/ CloseLimiter \/ WorkerTakesTask \/ WorkerFinishesTask

AppNext ==
    \/ Lifespan \/ Stop \/ DatabaseChanges \/ Crash \/ Restart \/ Time
    \/ \E r \in Request : Handle(r) \/ \E route \in Routes : Receive(r, route)

(***************************************************************************)
(* The event loop runs what can run, and a call of the database ends, well  *)
(* or with an error.  Nobody owes a request, a stop, a crash or a restart.  *)
(***************************************************************************)
AppSpec ==
    /\ AppInit
    /\ [][AppNext]_appVars
    /\ WF_appVars(Lifespan)
    /\ \A r \in Request : WF_appVars(Handle(r))

----------------------------------------------------------------------------
(***************************************************************************)
(* Whoever uses the repository finds it open: a request that is being       *)
(* handled or streamed, and a worker that has not stopped, however startup, *)
(* stop and crash fall between them (the order of main.py:40-58).           *)
(***************************************************************************)
RepositoryOutlivesItsUsers ==
    InFlight # {} \/ workers \in {"idle", "busy"} => pool = "open"

\* The questions to a part of the API that reached a handler of this process in the
\* window that ends at t.
Worked(part, t) ==
    {r \in Request :
        /\ calls[r].route \in Questions[part]
        /\ calls[r].status # 429
        /\ calls[r].at > startup.began
        /\ t - Window < calls[r].at
        /\ calls[r].at <= t}

(***************************************************************************)
(* Of the questions of one client that reached a handler of this process,   *)
(* no window holds more than the limit for the chat, for the search, or for *)
(* the runs and streams of the agent together: the middleware asks the      *)
(* limiter for all of them, and no two routes of a part are counted apart.  *)
(***************************************************************************)
WorkKeptWithinLimit ==
    \A part \in DOMAIN Questions, t \in 0 .. MaxTime : Cardinality(Worked(part, t)) <= Limit

(***************************************************************************)
(* Who was told that a task is accepted finds its row in the table ever     *)
(* after; its id waits for a worker, a worker has taken it, or a crash has  *)
(* left the row to the next start.  Workers that have met their sentinels   *)
(* leave no accepted task behind, also not one that was accepted while the  *)
(* server was told to stop.                                                 *)
(***************************************************************************)
AcceptedTaskIsKept ==
    \A r \in Request : calls[r].status = 202 =>
        /\ r \in stored
        /\ r \in tried \cup orphans \cup (IF workers = "stopped" THEN {} ELSE queue)

(***************************************************************************)
(* A process that is told to stop does stop: its requests are answered, the *)
(* workers finish what is queued, and the sentinels reach them.             *)
(***************************************************************************)
ShutdownCompletes == phase \in {"draining", "closing"} ~> phase \in {"exited", "down"}

----------------------------------------------------------------------------
(***************************************************************************)
(* Why the safety properties hold: the repository and the workers follow    *)
(* the phases of the lifespan, requests are in flight only while the        *)
(* process serves or drains, a call that is not answered yet has no status  *)
(* of refusal or acceptance, and its task, once committed, has a row; every *)
(* question that reached a handler is among those the limiter of this       *)
(* process let through, and a process without workers has an empty queue.   *)
(***************************************************************************)
CallRecord == [route : Routes \cup {"none"},
               pc : {"unsent", "handling", "committed", "streaming", "done", "cut", "lost"},
               status : Nat, at : 0 .. MaxTime]

AppTypeOK ==
    /\ phase \in {"starting", "recovering", "serving", "draining", "closing",
                  "closingLimiter", "exited", "gaveUp", "down"}
    /\ startup \in [attempt : Nat, began : Nat, due : Nat]
    /\ calls \in [Request -> CallRecord]

FollowsPhases ==
    /\ phase = "starting" => pool = "none"
    /\ phase \in {"recovering", "serving", "draining", "closing"} => pool = "open"
    /\ phase \in {"serving", "draining"} => workers \in {"idle", "busy"}
    /\ workers \in {"idle", "busy"} => phase \in {"serving", "draining", "closing"}
    /\ InFlight # {} => phase \in {"serving", "draining"}

CallsConsistent ==
    \A r \in Request :
        /\ calls[r].pc = "unsent" => calls[r].route = "none"
        /\ calls[r].pc \in {"handling", "committed"} => calls[r].status = 0
        /\ calls[r].pc = "committed" => r \in stored
        /\ calls[r].pc = "streaming" => calls[r].status = 200
        /\ calls[r].at <= now

\* A process that has ended has no limiter, but what it worked on is still told of it.
WorkIsCounted ==
    \A part \in DOMAIN Questions, t \in 0 .. MaxTime :
        /\ IsFiniteSet(Worked(part, t))
        /\ phase \notin {"down", "exited"} =>
               Cardinality(Worked(part, t)) <= Cardinality(Through(part, t))

\* Before a start no id is queued; then only those of rows are.
QueueConsistent ==
    /\ queue \subseteq stored
    /\ phase \in {"starting", "recovering", "gaveUp", "down"} => queue = {}

AppIInv ==
    /\ IInv
    /\ AppTypeOK
    /\ FollowsPhases
    /\ CallsConsistent
    /\ WorkIsCounted
    /\ WorkKeptWithinLimit
    /\ QueueConsistent
    /\ AcceptedTaskIsKept
=============================================================================
