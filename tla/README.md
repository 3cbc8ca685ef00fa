# A TLA+ development of CampusGuide (SUFEGuide FastAPI backend)

CampusGuide answers questions about campus rules with evidence from a small
knowledge base. It is a FastAPI application (`app/`) with a bounded
tool-calling agent, an ingestion task service with leases and retries, two
interchangeable repositories (JSON files, MySQL), a rate limiter with two
backends, lexical and semantic retrieval, and a static frontend
(`frontend/app.js`).

These modules model its stateful core, TLC checks them on small instances, and
TLAPS proves the properties that matter most for every value of the constants.
Source paths below are relative to the root of the repository.

## 1. Inventory

| component | state it keeps | operations | talks to |
|---|---|---|---|
| **Ingestion task service** `app/services/tasks.py` | `queue`, `workers`, `closing`, all in memory | `start` (recover, fill the queue, create workers), `create_task`, `_worker`/`_execute`/`_perform_ingestion`, `close` | task repository; routes; lifespan |
| **Task repository** `app/repositories/{base,json_store,mysql}.py`, `docs/schema.mysql.sql` | the table of tasks: status, attempts, retry count, owner, lease, result, error, key | `create_or_get_task`, `claim_task`, `save_task`, `get_task`, `recover_expired_tasks` | JSON files under one asyncio lock, or MySQL transactions |
| **Agent runtime** `app/services/agent_runtime.py` | none of its own; per run: session, context, run record, call signatures | `stream` with `_get_or_create_session`, `_build_context`, `_execute_tool`, `_finish`, `_finalize_run` | repository; model provider; tools; the client's event stream |
| **Conversation, run, audit and feedback persistence** (same repositories) | sessions, messages, agent runs, tool calls, feedback | `create_session`, `add_message`, `list_messages`, `create_agent_run`, `save_agent_run`, `save_tool_call`, `save_feedback` | agent runtime; tools |
| **Tools** `app/tools.py`, `app/services/feedback.py` | none | search, document, date tools (read only); `record_feedback` (inserts a row) | knowledge base; repository |
| **Model providers** `app/model_provider.py`, `app/prompts.py` | none | `decide`: an answer or a tool plan | messages and tool results |
| **Rate limiter** `app/rate_limiter.py` | a window of request times per client key (a deque, or a Redis ZSET) | `allow`, `close` | HTTP middleware; Redis |
| **HTTP application and lifespan** `app/main.py`, `app/routes.py`, `app/security.py`, `app/dependencies.py` | `app.state` | startup, shutdown, middleware, routes | all of the above |
| **Retrieval** `app/retrieval.py`, `app/embeddings.py`, `app/build_vector_index.py`, `app/knowledge_base.py` | static documents, a vector index file | lexical and semantic search, coverage, merging | tools; chat workflow |
| **Chat workflow and question policy** `app/agent.py`, `app/question_policy.py` | none | policy, retrieval, threshold, answer | retrieval |
| **Evaluation** `app/evaluate.py` | none | metrics over a question set | retrieval; chat workflow |
| **Frontend** `frontend/app.js` | `state.lastQuestion`, pending messages | submit, render, feedback, library | HTTP API |
| **Configuration, request models, logging** | settings | validation | everything |
| **Scripts, container files, data** | - | deployment | - |

How they interact: the lifespan starts the repository, then the task service
(which recovers the table), and closes them in the opposite order. A request for
ingestion stores a task and hands its id to the in-memory queue; workers claim
rows by id. The agent runtime calls the repository between any two steps, so runs
of one session interleave there, and streams events to a client that may leave at
any time. Several API processes may share one MySQL database.

What is hard, and what makes each component correct:

- *Task service and task table.* Two stores of one truth (the queue in memory, the
  rows in the table) that a crash, a raised repository call or a second process
  can pull apart. Correct means: one task per idempotency key; a task is executed
  by one worker at a time unless its lease expired and a restart gave it back; a
  finished row is final; attempts are accounted for; a queued row is known to
  somebody; `close` loses nothing and returns; every task finishes in the end.
- *Agent runtime.* Side effects under timeouts, audit rows, messages, the row of
  the run and the event stream are written in separate steps with failures in
  between. Correct means: feedback is stored at most once per run; the audit trail
  agrees with it; an answer is in the session exactly when the row says
  "succeeded"; the client is told what the store says; events come in order; the
  model is asked the run's own question; every run ends.
- *Persistence.* The two adapters must agree, each call must take effect at one
  moment or not at all, and a file must survive a crash during its replacement;
  messages must come back in the order they were stored.
- *Rate limiter.* No window may hold more accepted requests than the limit, and a
  refused request must not count, at the boundary of the window too; with Redis,
  readings of several clocks reach the script late and out of order.
- *HTTP application and lifespan.* Whoever uses the repository finds it open;
  the limiter is asked for every question, under the key of its part of the API; a
  task a client was told of is worked off or found by the next start; a shutdown
  ends whatever the database does.
- *Retrieval, chat, evaluation.* Computations that three callers repeat with
  different cuts and thresholds, next to a script that replaces the vector index:
  a better source must not fall to an earlier cut, the fallback must be the plain
  search and a search that fails no evidence, the agent must not be bolder than the chat, the evaluation must judge as
  the agent does, and the index must change as a whole.
- *Frontend.* An answer belongs to its question even when answers arrive out of
  order, and feedback is attributed to the question it is about.

`PROJECT.json` lists every component with its status, and the hazards at the line
where each bites with the properties that cover it; those that no property can show
are in section 11.

## 2. Modules

| module | what it is |
|---|---|
| `TaskRepository` | the table of tasks and the operations both adapters implement, as operators on rows and tables |
| `IngestionTasks` | `TaskService` of any number of processes on one table; EXTENDS `TaskRepository` |
| `TaskLifecycle` | abstract specification: the life of a task; `IngestionTasks` implements it |
| `MCIngestionTasks` + 5 cfgs | instances for TLC |
| `IngestionTasksProofs`, `IngestionQueueProofs` | theorems about the rows; theorems about what memory knows of them |
| `TaskTable` | abstract specification: what an adapter promises of the table of tasks; EXTENDS `TaskRepository` |
| `TaskAdapters` | how the JSON and the MySQL adapter do it: files and locks, statements and transactions; implements `TaskTable` |
| `MCTaskAdapters` + 1 cfg, `TaskAdaptersProofs` | its instance; theorems, the refinement among them |
| `AgentRuntime` | `AgentRuntime.stream` of any number of runs that share sessions and tables |
| `AgentRunPromise` | abstract specification: what a client may rely on; `AgentRuntime` implements it |
| `MCAgentRuntime` + 2 cfgs, `AgentRuntimeProofs` | instances; theorems |
| `MemoryRateLimiter`, `MemoryRateLimiterProofs` | the rate limiter of one process; theorems |
| `Application` | the process: lifespan, middleware, handlers; composes `MemoryRateLimiter` with them (EXTENDS) |
| `MCApplication` + 1 cfg, `ApplicationProofs` | its instance; theorems |
| `RedisRateLimiter`, `MCRedisRateLimiter` + 2 cfgs, `RedisRateLimiterProofs` | the rate limiter that replicas share |
| `Retrieval` | tokens, coverage, lexical scores, ranking and merging, as operators on texts |
| `ChatWorkflow` | search, chat, the lexical agent and the script that builds the index; EXTENDS `Retrieval` |
| `Evaluation` | the offline evaluation; EXTENDS `ChatWorkflow` |
| `MCEvaluation` + 1 cfg, `EvaluationProofs` | a knowledge base, questions and cases; theorems about all three |

How the modules stand to each other: `IngestionTasks` takes a call of the
repository for one step, which `TaskAdapters` shows of both adapters; `Application`
takes a request's handler for one step, or two where the status or a commit comes
before the end, which `IngestionTasks`, `AgentRuntime` and
`ChatWorkflow` take apart; `AgentRuntime` takes a decision of the model for any
answer or plan, and `ChatWorkflow` says which the deterministic one takes.

Planned, in this order:

1. `ContextWindow`: `_build_context` with character counts, as folds over
   sequences, against a reference definition.
2. The order of messages by `created_at` (`app/repositories/mysql.py:363`), and
   `RedisRateLimiter` with a coarse clock.
3. Proofs of what the first two add. Every safety and action property of the
   passing runs of today has its theorem.

Operators whose comment begins with "Mutant" are plausible defects of the
operator they stand next to. No specification uses them; putting one in the place
of the original must make TLC report a violation of a property, which shows that
the property depends on that code.

## 3. IngestionTasks

**State and code.** `tasks` is the table; a row keeps status, key, attempts, retry
count, owner, `recovered_after_restart`, and whether result and error are set. Its
lease is reduced to what recovery tells apart (none, live, expired), so time is
the single action `LeaseExpires`. Per process: `pstate` (with `closing` for
`self.closing`), `queue` (`self.queue`), `pending` (what recovery returned and
`start` has yet to enqueue). Per worker: where it stands (`wpc`), the id it took
(`wtask`) and its copy of the record (`wcopy`), which the code keeps across
awaits. Per request: `rpc`, its process, key and the task it was answered with. A
worker belongs to one start of one process, and its name is never used again (the
code draws a uuid).

An action is what one coroutine does between two suspension points, or one
critical section of the repository: the asyncio lock of the JSON adapter, one
transaction of the MySQL adapter. `queue.put` never suspends on an unbounded queue
and belongs to the step that reaches it. Hence `Enqueue` is a step of its own,
after `CreateOrGet` and without a second look at `closing`, as in the code.

| action | code |
|---|---|
| `Recover`, `RecoverError`, `Launch` | `TaskService.start`, `recover_expired_tasks` |
| `Submit`, `Refuse`, `CreateOrGet`, `CreateError`, `Enqueue` | `TaskService.create_task`, `create_or_get_task` |
| `Get` | the top of `_worker` |
| `Claim`, `ClaimError`, `Ingest`, `Save`, `SaveError`, `Requeue` | `_execute`, `_perform_ingestion`, `claim_task`, `save_task`, and `_worker`'s handler |
| `Close`, `Exit` | `TaskService.close` and the end of the process |
| `Crash`, `LeaseExpires` | the environment |

A repository call that raises (`*Error`) may have taken effect or not: a lost
connection after the commit looks the same to the caller.

**Runs.**

| run | instance | what it shows |
|---|---|---|
| `ingestion_one_process` | 1 process, 2 workers, 2 tasks, 2 starts, 1 error | `QueuedTaskIsAwake`: as long as no call raised, a queued row is in the queue, in a worker's or request's hand, or recovered by the next start; `ExitLeavesNothingRunning`: a worker that returned owns no row; `AttemptsAccounted`: every attempt is in progress, ended the task, was counted as a retry, or is the one `recovered_after_restart` reports; `AnswerWakesQueuedTask`: resubmitting a key wakes a task an error has orphaned |
| `ingestion_pair` | 2 processes, 1 task, 3 attempts, 2 starts each, crashes, 1 error | `ExecutedTwiceOnlyAfterRecovery`, `TerminalIsFinal` (the late worker is fenced off by the owner check of `save_task`), `SaveAgreesAcrossAdapters` (replacing the row and updating its columns leave the same row); `IInv` (the invariant of the proofs); `LifecycleSpec` (refinement of `TaskLifecycle`) |
| `ingestion_live` | 1 process, 2 workers, crashes and closes | `QueuedTaskIsClaimed` across stops; `CloseTerminates`; `TaskFinishes`, also when a crash took another worker |
| `ingestion_exhausted` | expected violation | finding 1 |
| `ingestion_early_restart` | expected violation | finding 2 |

**Bounds.** `MaxStarts` bounds the starts of a process (its last one does not stop,
so that liveness can be asked at all), `MaxErrors` the calls that raise,
`MaxAttempts` is `max_attempts`, and `WorkerCount` the number of workers. Two tasks
with one key cover duplicates, retries that overtake each other and the collision
of keys; two workers cover every race between workers (the code relates at most
two to one row); two starts cover a crash, recovery and what recovery missed;
three attempts in `ingestion_pair` let a lost attempt, a failed one and a
last one follow each other. One error is enough to lose any single call, with or
without effect; the proofs cover any number.

**Fairness.** The event loop runs every ready coroutine, `asyncio.Queue` serves in
order and a repository call answers: weak fairness of each worker as a whole (its
steps are sequential) and of each admitted request. `Ingest` may fail each time;
liveness holds because attempts run out. A stopped process is started again:
`docker-compose.yml` restarts a failed backend up to five times and otherwise an
operator does, and the run states liveness for the last of `MaxStarts` starts. Nothing makes a
client submit, a process stop or a lease expire: those actions have no fairness.

**Scope.** With several processes a queue is memory of one of them: a row given back
by process A's restart is known to A only, and a row whose process stopped waits
for a start or a resubmission. `QueuedTaskIsAwake`, `QueuedTaskIsClaimed` and
`AbandonedRecoveredBeforeWork` are therefore stated for a process that has the
table to itself.

## 4. AgentRuntime

**State and code.** The five tables are `sessions`, `messages` (one sequence in the
order of insertion, as the JSON adapter keeps it), `runs`, `audit` (tool calls per
run) and `feedback` (how often a run has stored each feedback). A run has `pc`, its
`session`, the `context` it loaded (positions in `messages`), its `record`
(status, step, whether it has an answer), the rest of the current `plan`, the
`call` just executed, `signatures` (`side_effect_signatures`) and the last `event`
its client was sent. `company` is an auxiliary variable: the runs of the same
session that were in progress together with this one. No action depends on it; one
property speaks of it.

| action | code of `stream` |
|---|---|
| `OpenSession`, `SessionNotFound` | `_get_or_create_session`, the `session` event |
| `Ask`, `Load`, `CreateRun` | `add_message` of the question; `list_messages` and `_build_context`; `create_agent_run` and `run_started` |
| `Decide`, `ReachStepLimit` | the top of the loop: `wait_for(model.decide)`, and the loop's end |
| `StartCall`, `RunTool` (`Duplicate` or `FirstTime`), `Audit`, `Note` | one tool call: event, `_duplicate_side_effect_call` or `_execute_tool`, `save_tool_call`, the tool message |
| `StoreAnswer`, `Finish`, `Finalize`, `Tell` | `_finish`, `_finalize_run`, the `done` event |
| `RepositoryError` | any repository call raises, with or without effect; `Raised` says where the exception goes |
| `Leave` | the client disconnects or the process stops: the coroutine is cancelled, which `except Exception` does not catch |

A decision is any answer, any plan of tools, or a failure, so both providers are
covered. Tools other than `record_feedback` change nothing and are one value.
`Execute` includes the case of feedback whose row was committed while `wait_for`
timed out. Context limits are kept as what they select: the window of
`list_messages`, the window of `HistoryLimit` turns (a limit of 0 keeps all, since
the code slices from `-0`), and any cut the character limit may make, which always
keeps the last turn.

**Runs.**

| run | instance | what it shows |
|---|---|---|
| `agent_one_run` | 1 run, 2 steps of up to 2 calls, 2 errors, fair | `FeedbackStoredOnce`; `AuditMatchesFeedback`: each "succeeded" call in the audit trail has its row, and a row nobody audited belongs to a run that was about to, was cut off or met an error; `EventsInOrder`; `RunEnds` |
| `agent_two_runs` | 2 runs, possibly one session, 1 step, a context of one turn, 1 error, runs cut off anywhere | `AnswerIsInSession`; `PromiseSpec` (refinement of `AgentRunPromise`); `IInv`; `AsksItsOwnQuestion` for a run without company; `RunningRowExplained` |

`AgentRunPromise` allows a row to settle twice before the client was told: when a
save raises after its commit, the handler saves a failure over the success. It
does not allow the client to be told something else than the final row.

**Bounds.** `MaxSteps` is `agent_max_steps` (a loop with one step reaches every path
once; two steps repeat a call), `MaxCalls` bounds the calls of one decision (two: a
duplicate within one plan), `HistoryLimit` is `agent_history_limit` (one turn is
the tightest window), `MaxErrors` the calls that raise (two in `agent_one_run`: one
in the try and one in its handler). One feedback value suffices for duplicates, as
signatures of different calls do not meet; two runs suffice for company.

**Fairness.** Weak fairness of each run's own steps: the event loop resumes it,
repository calls answer, the client that stays reads the stream, and `wait_for`
bounds the model and the tools. `Leave`, errors and the arrival of a request have
none.

**What holds less than one might think.** With two requests of one session in
flight, a run may load a context that ends with the other's question
(`agent_runtime.py:65`); `AsksItsOwnQuestion` needs an empty `company`. A client
that leaves turns its run's row into one that says "running" for ever;
`RunningRowExplained` says that this and an error are the only causes.

## 5. MemoryRateLimiter and RedisRateLimiter

**State and code.** Both keep, per client key, the times of the requests that were
let through (`app/rate_limiter.py`); the middleware answers 429 to the others
(`app/main.py:78`).

`MemoryRateLimiter`: `windows` is `self._windows`. `allow` never suspends, so a call
is one action (`Call`: `DropExpired`, then `Allow` or `Refuse`). `accepted` is the
history of what was let through and `answer` the last answer to each client; no
action depends on either.

`RedisRateLimiter`: a request reads the clock of its replica (`Arrive`) and then
waits for the script, which Redis runs atomically (`Script`: what `Kept` keeps of
the ZSET, then `ScriptAllows` or `ScriptRefuses`). In between other requests pass
it, and `Tick` passes time. The clock of a replica is behind the time by a constant
`offset`. The answer of the script may be lost, or the script not be reached
(`Fail`): the request ends "failed". Redis forgets a key at its `expiry` (`Live`). A
member is its score and the replica that named it, as `f"{now}:{id(self)}"` has it.

| run | instance | what it shows |
|---|---|---|
| `application` (section 7) | 2 requests, a limit of 1, a window of 2, within the process | `LimitKept`: no window, wherever it lies, holds more than the limit; `RefusedOnlyAtLimit`: the window that ends with a refused request is full |
| `rate_shared` | 2 replicas, 4 requests of one client, a limit of 2, a window of 4, delay and skew of 1 | `ShortWindowsKeepLimit`: no window shorter by delay and skew holds more than the limit; `RefusedOnlyAtLimit`: refused requests and those out of the window do not count, lost answers may |
| `rate_skewed` | as above, a window of 2, no delay, skew of 1 | finding 3 |

`ShortWindowsKeepLimit` is the guarantee the code gives when readings are disordered:
a request that reaches Redis now may bear a reading that is older by the delay, and
another one of the same moment a reading that is older by the skew, so the script
sees every request of a window only if the window is shorter by both (`Disorder`).
With neither it is the limiter's own window.

**Bounds.** `Limit`, `Window` and `Slack` are parameters of the code (`limit`,
`window_seconds`, the 5 seconds of `EXPIRE`), small so that a window fills, slides
and empties before `MaxTime`, which bounds the clock. `MaxDelay` bounds the time a
call takes to reach Redis and `MaxSkew` how far clocks are apart; the guarantee is
stated in terms of both. A limit of 2 with four requests allows two to be let
through, one to be refused and one to follow when the window has slid. One client
suffices: keys do not meet.

**Assumption.** `Arrive` requires a clock that never reads the same twice on one
replica. `time.time()` is a float and normally does not, but the code relies on it:
two requests with one reading would share a member (`rate_limiter.py:70`).

There is no liveness to state: `allow` answers in one call, and no fairness is
assumed.

## 6. TaskTable and TaskAdapters

`TaskTable` is the promise: a client (a request, a worker by its `worker_id`, a
start) calls an operation, and the call takes effect at one moment before it
answers, or before its answer is lost, or never if it raises. The effects are those
of `TaskRepository`, on which `IngestionTasks` is built.

`TaskAdapters` is the code. `adapter` is chosen once. For the JSON adapter `table`
is what the file holds and `temporary` what is in the `.tmp` file; `writer` holds
the asyncio lock. For the MySQL adapter `table` is the committed rows, `locks` the
rows and keys that a transaction has locked, and `draft` the table as it will be;
others see of it only what is committed.

| action | code |
|---|---|
| `JsonRead` | taking the lock, `_read`, and what a method makes of the rows (no method suspends here) |
| `JsonOpen`, `JsonWrite`, `JsonReplace` | `_write`: the temporary file is truncated, written, put in place |
| `SelectForUpdate`, `RefuseClaim`, `UpdateClaimed` | the statements of `claim_task`, and its early return with a rollback |
| `Change` | the first statement of a creation or a save: `INSERT ... ON DUPLICATE KEY UPDATE`, an `UPDATE` by id |
| `RecoverRow`, `EndRecovery` | the `UPDATE` of a recovery, which locks row after row and keeps what it has while it waits for the next |
| `LookUp`, `Commit` | the `SELECT` of a creation or a recovery; the commit, whose answer may be lost |
| `StepRaises`, `Kill` | an exception in any place, the end of a process; transactions are rolled back, files stay as they are |
| `LeaseEnds` | time |

Run `adapters`: 2 requests with one key, 2 workers and a start of another process
on one table, 2 attempts, 2 failures. `PromiseKept`: both adapters implement
`TaskTable`, and so the file is whole after any crash, two workers do not claim one
queued row, and what a client was told is committed. `OneKeyOneAnswer`: both
requests are told one task. `LocksEndWithCalls`: whoever holds a row, a key or the
asyncio lock is in the middle of a call, so refusals, lost answers, exceptions between
any two rows and killed processes leave no lock behind that others would wait for.

That nobody waits in a circle is not claimed. The rows a recovery comes by depend on
the index MySQL chooses, and it waits for the next one while it holds those before;
entries of the index and gaps, which InnoDB locks besides the rows, are not in the
model, and through them a save and a recovery may come to wait for each other. The
database then ends one of the calls with an exception, which is `StepRaises`; to a
worker that is a failed save, to a start a failed recovery (`SaveError`, `RecoverError`
of `IngestionTasks`). A creation locks its row, its key and the row that has it in one
step: nobody else knows the new row.

**What the promise leaves open.** The list `recover_expired_tasks` returns in MySQL
comes from a `SELECT` that locks nothing: it may name a task that another process
has claimed by the time of the commit. `TaskTable` therefore allows any list that
names every row the call gave back; `claim_task` answers a stale name with nothing.

**Bounds and abstractions.** Both requests bring one key, the case in which they
meet; so one row is contended by five clients. A request submits once and a start
recovers once. Requests and workers are told apart by nothing (symmetry). Two
failures let a worker vanish between claim and save and the recovery fail too. A
lease ends only while nobody recovers and the row is not locked: a recovery
compares with the time before its call. The files belong to one process, as in the
offline mode of the JSON adapter: its lock covers one process only, and with two of
them one would lose the other's update.

## 7. Application

**State and code.** `phase` is where the lifespan of `app/main.py:36` stands,
`startup` the attempt to connect (`app/repositories/mysql.py:63`), `pool` and
`workers` whether repository and task service are open, `calls` what became of each
request, `stored` and `queue` the tasks in the table and in memory, `tried` those that
a worker of this process has taken, and `orphans` the rows a crash has left to the
next start. `database` says
whether MySQL answers; the JSON adapter behaves as a database that always does. The
limiter is `MemoryRateLimiter`'s, with a key for each client and part of the API: one
client asks, under the keys of the chat, of the search and of the agent, the last of
which its runs and streams share.

| action | code |
|---|---|
| `Connect`, `StartTaskService` | `repository.start` with its pauses, `task_service.start`; an exception of either ends the process |
| `Stop`, `Drained`, `CloseTaskService`, `CloseRepository`, `CloseLimiter` | the server waits for its requests (uvicorn), then the `finally` block in its order |
| `Receive` | both middlewares: a request under a limited prefix asks the limiter first |
| `AnswerQuery`, `AnswerAgent`, `CallTool`, `BeginStream`, `EndStream`, `LookUpTask`, `CheckReady` | the handlers of `app/routes.py`, with what they answer when the database is away |
| `StoreTask`, `AnswerTask` | `create_ingestion_task` up to the commit of its row; the id is queued and the client is told 202 |
| `WorkerTakesTask`, `WorkerFinishesTask` | a worker uses the repository |
| `DatabaseChanges`, `Crash`, `Restart`, `Time` | the environment |

Run `application`: 2 requests of any routes, 3 attempts to connect with pauses of 1
and 2, a database that may be down from the start, 2 outages or crashes.
`RepositoryOutlivesItsUsers`: a request in progress and a worker that has not
stopped find the pool open. `WorkKeptWithinLimit`: of the questions of one client that
reached a handler, no window holds more than the limit for the chat, for the search, or
for the runs and streams of the agent together. What belongs together is said by the
property (`Questions`) and not by the list of prefixes and keys the middleware uses
(`Limited`, `KeyOf`), so a route that is left out or counted apart shows.
`AcceptedTaskIsKept`: a task whose client was told 202 has a row and waits for a worker,
was taken by one, or was left to the next start by a crash; workers that have met their
sentinels have left none behind, though a request may commit its row before the
server is told to stop and queue the id after that. `LimitKept` and
`RefusedOnlyAtLimit` hold of the limiter in its place. `ShutdownCompletes`: a process
that is told to stop stops.

**Bounds.** Two requests are enough to fill a window of one, to stop with one in a
stream and one in the queue, and to crash between a commit and its answer. That
refused requests do not count needs more of them; `LimiterSurvivesRestarts` and the
theorems of `MemoryRateLimiter` are about any number. Three
seconds let a window pass and all attempts fail. A process is restarted any number
of times, outages and crashes together happen twice.

**Fairness.** The event loop runs what can run, and a call of the database ends, well
or with an error (aiomysql raises when the connection is gone): weak fairness of
the lifespan with the workers, and of each handler. Nothing owes a request, a stop,
an outage, a crash or a restart. That a start ends is not stated: its clock is
bounded.

If `task_service.start` raises, the `try` of the lifespan is not reached and the pool
stays open (`app/main.py:45`). Nothing uses it and the server ends the process, so
no property is violated. `POST /api/tools/call` is under none of the limited
prefixes, though it runs the tools of the agent: `WorkKeptWithinLimit` speaks of
questions only. Nor is it under the time limit the runtime gives a tool
(`app/services/agent_runtime.py:208`): what it does lasts as long as its database or the
embedding service. That a request ends is not stated, as its fairness would already
say so.

## 8. Retrieval, ChatWorkflow and Evaluation

`Retrieval` translates `app/retrieval.py`: runs of Chinese characters and their
pairs and quadruples (`tokenize`), the focused question, its coverage by windows
(`_query_coverage`), the weights of the four presets, context and quality bonuses,
the ranking with its cut, and the merging of lexical and semantic results. Scores
are natural numbers in units of 1/4000, which makes every weight exact; logarithms
are a table (`LogRatio`). Similarities are in units of 1/100000, and the blend of words
and vector is rounded to four decimals as in the code (`Rounded`, `Blended`;
`app/retrieval.py:435`) before the ranking sorts by it, stably. A half is rounded up;
Python rounds it to where the binary fraction lies.

`ChatWorkflow` puts it to work: `/api/search` and `/api/chat` answer in one step
(`Search`, `Chat`); the agent's tool searches hybridly, and waits for the embedding
of its question after it has loaded the index (`Ask`, `EmbeddingArrives`). The wait
may also end in the fallback (`FallBack`, an error of the client or of the status), in
an exception nothing catches (`SearchRaises`: a torn index, rows of the answer without
their field, `app/embeddings.py:33`), or in the time limit of the tool
(`ToolTimesOut`: five seconds, `app/config.py:53`, where the client of the service has
thirty, so a service that hangs never leads to the fallback); in the last two the
agent goes on without results; the script embeds batches, writes the temporary file and
replaces the index (`EmbedBatch`, `OpenDraft`, `WriteDraft`, `ReplaceIndex`), and
may be stopped anywhere (`BuildEnds`). `Evaluation` adds the offline evaluation, one
case at a time in each version (`JudgeCase`, `FinishVersion`).

Run `answers`: five documents over six characters, 18 questions, 3 contexts, 6
cases, 3 plans of versions, and an index that is missing, torn, or old with a row of
a document that is gone.

| property | what it shows |
|---|---|
| `CoverageIsExact` | skipped windows and the order of window sizes neither lose nor double a character |
| `AgentNeverBolderThanChat` | what the lexical agent answers from evidence, chat does not refuse |
| `FallbackLosesNothing` | a tool that falls back returns the plain search, and the agent answers on it; one that raised or ran out of time leaves nothing to cite |
| `HybridKeepsTheBest` | a hybrid list has no duplicates and is as long as it can be, and no candidate better in words and vector by what the fourth decimal shows (`Discernible`) falls behind; similarities are those of the index loaded before the wait |
| `IndexChangesWhole` | the index changes to complete ones only, wherever the script stops |
| `EvaluationRefusesAsAgent` | the evaluation counts as refused what the agent would refuse on the same results |
| `UnavailableHybridChangesNothing` | a hybrid version that falls back is neither better nor worse than the one it falls back to |

**Abstractions.** Words of Latin letters and digits are left out, as are latencies
and topics. Two strings stand for the fields of a document the code joins
(`important`, `body`); similarity is a table, with two documents that a rounded blend cannot tell apart. The limits are smaller
than the code's (`ChatLimit` 4 for 8, `ToolLimit` 3 for 5, `FetchLimit` 4 for 20) so
that every cut bites with five documents. What each search finds is computed once
(`Found`, which an assumption equates with the searches). One request is on its way
at a time: requests share only files and static data.

**What holds less than one might think.** The context bonus alone can lift a
document over the threshold of chat: with a category that matches (5 points) a
question none of whose terms occur is answered as "grounded", although the comment
at `app/agent.py:69` takes a score of 4 for a matched term. `AgentNeverBolderThanChat` holds
nevertheless: the agent looks at the lexical part. The evaluation searches without a
time limit, so a slow embedding service makes the agent refuse where the evaluation
does not.

## 9. What is proved

TLAPS checks these for all values of the constants that satisfy the named
assumptions. TLC evaluates the same assumptions in every run. They say that

- names that stand for "nothing" lie outside their sets, sets of requests and runs are
  finite, bounds are natural numbers, and limits that the code requires to be
  positive are;
- fresh names exist: every start can draw new worker names
  (`IngestionTasks!WorkerAssumption`), and a request a uuid no other has drawn
  (`TaskAdapters!TaskIdAssumption`); requests, workers and starts are different
  clients, and a process is a set of them (`ClientAssumption`, `ProcessAssumption`);
- questions to the chat, the search and the agent are counted under keys of the limiter
  (`Application!KeyAssumption`);
- documents, their texts, questions, phrases and cases are sequences, ids of documents
  differ, dates can be compared, similarities are numbers, a phrase has finitely many
  synonyms, and a context has finitely many fields, each of which has a weight
  (`DocumentsAssumption`, `QuestionsAssumption`, `IntentPhrasesAssumption`,
  `SynonymsAssumption`, `ContextsAssumption` and so on);
- the tool asks for no more documents than chat does (5 and 8 in the code,
  `LimitsAssumption`), and only version v4 is evaluated hybridly
  (`PlansAssumption`, `app/evaluate.py:201`).

| theorem | says |
|---|---|
| `IngestionTasksProofs!Invariance`, `TypeCorrect` | `IInv` and `TypeOK` always hold |
| `AttemptsAreAccounted`, `AdaptersSaveAlike`, `NoDoubleExecution` | `AttemptsAccounted`, `SaveAgreesAcrossAdapters`, `ExecutedTwiceOnlyAfterRecovery` |
| `FinishedForGood` | `TerminalIsFinal`, an action property |
| `ServiceImplementsLifecycle` | `IngestionTasks` implements `TaskLifecycle` |
| `IngestionQueueProofs!MemoryKnowsTable` | `AwakeIInv` always holds |
| `QueuedTasksAreAwake`, `WorkersLeaveNothing` | `QueuedTaskIsAwake`, `ExitLeavesNothingRunning` |
| `AnswersWake` | `AnswerWakesQueuedTask`, an action property |
| `TaskAdaptersProofs!AdaptersInvariance` | `AdapterIInv` always holds |
| `RacersAreToldOneTask`, `LocksAreGivenBack` | `OneKeyOneAnswer`, `LocksEndWithCalls` |
| `AdaptersKeepThePromise` | `TaskAdapters` implements `TaskTable` (`PromiseKept`) |
| `AgentRuntimeProofs!Invariance`, `TypeCorrect` | `IInv` and `TypeOK` always hold |
| `NoFeedbackTwice`, `OwnQuestionAsked`, `RunningRowsAreExplained` | `FeedbackStoredOnce`, `AsksItsOwnQuestion`, `RunningRowExplained` |
| `RuntimeKeepsPromise` | `AgentRuntime` implements `AgentRunPromise` |
| `TrailInvariance` | `TrailIInv` always holds |
| `AnswersAreInSession`, `AuditAgreesWithFeedback` | `AnswerIsInSession`, `AuditMatchesFeedback` |
| `EventsComeInOrder` | `EventsInOrder`, an action property |
| `MemoryRateLimiterProofs!Invariance`, `LimitIsKept`, `NobodyRefusedBelowLimit` | `IInv`, `LimitKept`, `RefusedOnlyAtLimit` of the deque |
| `RedisRateLimiterProofs!Invariance`, `ShortWindowsKept`, `NobodyRefusedBelowLimit` | `IInv`, `ShortWindowsKeepLimit`, `RefusedOnlyAtLimit` of the ZSET |
| `ApplicationProofs!ApplicationInvariance` | `AppIInv` always holds |
| `RepositoryIsOpenForUsers`, `AcceptedTasksAreKept`, `WorkStaysWithinLimit` | `RepositoryOutlivesItsUsers`, `AcceptedTaskIsKept`, `WorkKeptWithinLimit` |
| `LimiterSurvivesRestarts` | `LimitKept` and `RefusedOnlyAtLimit` within the application |
| `EvaluationProofs!EvaluationInvariance` | `EvalIInv` always holds |
| `IndexIsReplacedWhole` | `IndexChangesWhole`, an action property |
| `FallbackIsPlainSearch`, `ChatFollowsAgent`, `HybridIsInOrder` | `FallbackLosesNothing`, `AgentNeverBolderThanChat`, `HybridKeepsTheBest` |
| `CoverageCountsPairs` | `CoverageIsExact` |
| `RefusalsAreThoseOfAgent`, `UnavailableHybridIsPlain` | `EvaluationRefusesAsAgent`, `UnavailableHybridChangesNothing` |

*Task service.* None of its properties is inductive: that a late save changes
nothing depends on what the worker remembers. `IInv` says that a row is owned
under a lease exactly while it runs and that a queued row has an attempt left
(`RowConsistent`); that a request which has not reached the repository has no row
(`RequestConsistent`); and, the heart of it, that a working worker either owns its
row, whose other columns are then those of its copy, or has lost it to a recovery
(`WorkerConsistent`). The proof follows what a step can do to the table
(`TableSteps`): create, claim, save or recover rows, or let a lease expire. Each
keeps rows consistent (`RowsKept`) and each is seen by a worker in one of few ways
(`RowSeenByWorker`). Finality and refinement follow by the same cases.

`AwakeIInv` adds what memory knows. An owner works on its row, or was lost at it
(`OwnersAtWork`): so `close`, which waits for its workers, leaves no owner behind.
A process that is not up has no worker and no request that could store or give
back a task (`EmptyUntilUp`): so what it recovers is all there is to know, and
`QueuedTaskIsAwake` is inductive together with the two. Its proof follows an id from
hand to hand: recovered, enqueued, taken, claimed, given back (`StartingKnows` for a
process that is starting, `UpKnows` for one that is up).

*Task adapters.* `PromiseKept` maps a call in progress to "called" until its one
moment of effect: the replacement of the file, or the commit. So the invariant has
to say, of every call between two statements, that this effect is still right
when the moment comes. For JSON that is easy: who holds the lock has computed a
table from one nobody else can have changed (`JsonConsistent`). For MySQL others
commit in between, and each kind of transaction has a conjunct of its own
(`ClaimConsistent`, `SaveConsistent`, `CreateConsistent`, `RecoverConsistent`): the
draft of the rows it has locked is what the promised effect makes of the committed
ones, locks are disjoint (`LocksConsistent`), and a row that is not locked cannot turn
into one the call should have seen. A creation rests on the key's lock. A recovery is right row by row while it scans
(`RecoverySteps`), and when it has come by every row that is abandoned the others
cannot become so before it commits, since nobody's commit abandons a row. That a late save is fenced off in both adapters
alike needs `HoldsCopy`: as long as a worker owns a row, the row is what it claimed.
`OneKeyOneAnswer` follows from `TableConsistent` (one key, one row) and
`RequestConsistent` (what was told is stored).

*Agent runtime.* `RowConsistent` ties the row, the record and the last event to
where the run stands, `CallsConsistent` says that feedback which may have been
stored is remembered as a signature, and `SessionConsistent` says that runs of a
session in progress together are each other's company, and that the question of a
run without company is the session's newest message until it is loaded. The step
lemmas use that a run changes nothing of another one but its company
(`OthersLeftAlone`) and that messages are only added (`MessagesGrow`).
`LoadsItsOwnQuestion` then follows the question through the three windows of the
context: the newest element of a set is among its n newest (`NewestKeepsLast`).

`TrailIInv` adds, of each run, where its answer is (`AnswersConsistent`: none before it
is stored, exactly one from then until its row says so), how audit and feedback
differ while a call is in between (`AuditConsistent`), and which event was the last at
each place of the code (`EventConsistent`). Messages and records are only appended,
so a step changes the set of answers or of audited calls by at most one element.

*Rate limiters.* `IInv` of the deque says that it is the tail of all requests that
were let through, that those are in order, and that what was dropped is out of the
window (`WindowConsistent`). Then what remains after dropping is exactly the window
that ends now (`RemainingAreThrough`), and a window that ends elsewhere gains
nothing. For the ZSET, `IInv` says that a request that was let through is a live
member until it is out of every window to come, that names differ, and that a
member has a request and time to live. A request that is let through finds all
others of its short window among the members the script counts, under different
names (`ShortWindowIsKept`, an injection), and a request that is refused is refused
because of members that are named by as many requests (`KeptMembers`, a
surjection).

*Application.* `FollowsPhases` says which phases have the pool open, workers at work and
requests in flight; `RepositoryOutlivesItsUsers` follows. `AcceptedTaskIsKept` needs that
a committed call has its row (`CallsConsistent`), that a queue is empty before a start
fills it and holds ids of rows only (`QueueConsistent`), and that no request is in
flight once the workers may have stopped. `WorkKeptWithinLimit` is not
inductive: `WorkIsCounted` adds that the questions of this process that reached a
handler of a part are no more than the requests its limiter let through under the key of
that part, window by window (each step adds at most one to both; `PartsAreKeys` says
that the middleware's prefixes and keys are those of the parts), and the limiter's own invariant, carried
through `Close` and `Crash` by `LimiterSurvivesRestarts`, bounds the latter.

*Retrieval, chat and evaluation.* `EvalIInv` says what a request, a reply, a measurement
and the file of the script were computed from (`RequestConsistent`, `ReplyConsistent`,
`EvaluationConsistent`, `DetailConsistent`, `BuilderConsistent`), so that the theorems
become statements about the computations. Those rest on lemmas about the operators: a
list sorted by a score is in its order and complete (`RankedInOrder`,
`SortedByScore`), a rounded blend keeps apart what differs by more than
`Discernible` (`RoundingKeepsUnits`, `Blend`), a model without results has nothing to
cite (`NothingToCite`), a cut of a longer cut is the shorter cut (`CutTwice`), a sum over a
finite set of terms is a number (`WeightIsNumber`), what stands between the cut and the
candidates (`CandidatesCut`), and what the agent requires of its evidence exceeds the
threshold of chat (`GroundedInBoth`). Induction over data is out of reach as a rule, but
where a definition is a fold over a finite set or a table over `0 .. n`, an argument by
the least number without a value does (`LeastNumber`, used by `WeightIsNumber` and
`CourseExists`). A fold over a sequence is a function on the sets of its positions, which
exists (`FoldingExists`) and goes through the positions one by one (`FoldedInSteps`),
whichever such function `CHOOSE` took. For the same reason a ranking is `Sorted`, which
gives the n-th element by how many come before it, the gaps of a question are dropped
by a fold, and tables such as `Found` and `Similarity` are functions of one argument
after the other: the provers expand neither `SelectSeq` nor functions of pairs.

`CoverageIsExact` compares the loops of `_query_coverage` with a set. Each round of one
window size marks just what its windows find, though it skips those that are covered
already (`MarkedBySize`); where a piece of three or four characters occurs, its pairs do
(`PairsOfPiece`), so the longer sizes add nothing to the pairs (`CoveredByPairs`); the
focus has no gaps, whatever phrases were taken out of the question (`FocusHasNoGaps`),
and therefore no pair of it lies across a joint of the document (`PairBesideJoint`,
`PairInCorpus`). What a search found is scored for the document it names
(`FoundIsScored`, `ScoredParts`), with or without a context (`BonusIsNumber`).

**Only model-checked:** liveness (`TaskFinishes`, `QueuedTaskIsClaimed`,
`CloseTerminates`, `RunEnds`, `ShutdownCompletes`), which is out of the
prover's reach, and the expected violations.

## 10. Findings

1. **A task whose last attempt is lost stays "running" for ever.**
   `recover_expired_tasks` skips rows whose attempts have reached `max_attempts`
   (`app/repositories/json_store.py:165`, and likewise in MySQL), while
   `docs/TROUBLESHOOTING.md:30` says that a restart after the lease expired takes
   a stuck task back. Run `ingestion_exhausted`: of two attempts the first
   fails, the second is lost in a crash, and the recovery of the next start leaves the
   row as it is (`RestartRecoversExpired`).
2. **A quick restart recovers nothing.** `TaskService.start` recovers once, and only
   rows whose lease has already passed (`app/services/tasks.py:44`). A process that
   is back before that accepts new work next to the abandoned row and never looks
   again, while the docstring at line 41 reads "Recover abandoned tasks before
   accepting new work". Run `ingestion_early_restart`
   (`AbandonedRecoveredBeforeWork`).
3. **Clocks that differ widen the shared limit.** Each replica passes its own
   `time.time()` to the script (`app/rate_limiter.py:67`), so a replica whose clock is
   ahead drops requests that are younger than the window, and a window then holds
   more than the limit. The docstring at line 45 reads "Atomic Redis ZSET limiter
   safe to share across API replicas". Run `rate_skewed`
   (`LimitKeptAcrossReplicas`): a skew of one second is enough, and `ShortWindowsKeepLimit` says how much is lost.

## 11. What is not modelled, and why

- Embeddings themselves, prompts, HTML, logging, formatting of events and errors:
  data that no property above tells apart. The compatible model provider is any
  decision of `AgentRuntime`.
- `GET` routes, health and metrics beyond `ready`: they read.
- Configuration and request validation: declarative; limits are CONSTANTS.
- The order of messages by `created_at`, pooled connections and their limits,
  character counts of the context: section 2.
- The frontend: its hazards (answers rendered as they arrive, feedback on an older
  answer recorded for the last question) are about the state of a page in one
  browser, which is mostly the document it renders.
- Two scripts that build the index at a time (`app/embeddings.py:68`: they share the
  temporary file), and two processes on the JSON files (`app/repositories/json_store.py:53`:
  each would lose the other's updates): nothing provides for either.
- Memory: the table of windows (`app/rate_limiter.py:23`) grows with every client key
  and is never pruned, which a model with a fixed set of keys cannot show.
- An index file that is no index raises `ValueError` outside the `try`
  (`app/retrieval.py:372`), and the search fails although its docstring promises a
  fallback. Only a file that was written by other means can be torn
  (`IndexChangesWhole`); the model keeps the exception as a failed call.
- The counters of telemetry: a question is answered whatever becomes of them
  (`app/routes.py:60`), and `AnswerQuery` therefore does not look at the database.
- Scripts, containers and the knowledge base: no behaviour over time. Of
  `docker-compose.yml` only the restart policy matters (section 3).
