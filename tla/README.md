# Verification of the RangerAI agent back end

TLA+ models of the task-handling core of this repository (`agent/`), checked with
TLC on small instances and, for the safety of the core modules, proved with TLAPS
for every value of the constants. Paths below are relative to `agent/` in the
repository unless they start with `web/`.

## 1. Inventory

A message of a user passes three processes: the API process (HTTP), the WebSocket
process, and a worker process forked by the latter. The first two talk through
Redis publish/subscribe, the last two through the IPC channel of
`child_process.fork`; the worker talks to the model gateway over a WebSocket.

| Component | State it keeps | Operations | Talks to | What is hard, and what makes it correct |
|---|---|---|---|---|
| Worker manager (`modules/worker-manager.mjs`) | pendingTasks, taskQueue, retryQueue, workerReady, degraded, restartHistory, timers | sendTask, worker messages, task timers, exit / retry / respawn, restartWorker | worker (IPC), clients, event buffer, task store | awaits in the middle of sendTask and task_complete, deaths at any point, timers that race answers. Every task settles once and is held once, bounded executions, one worker, the cap |
| Worker pool (`modules/worker-pool.mjs`) | one manager (poolSize 1), session affinity | a capacity test in front of sendTask, pendingTasks (a merged copy) | manager, handlers | copies that are written to, methods the pool lacks |
| Worker process (`worker/index.mjs`) | _activeTaskCount, _draining | user_message, drain, shutdown, abort | manager, gateway | exits with tasks in the channel, refuses while draining |
| Circuit breaker (`worker/circuit-breaker.mjs`), used by `worker/context-injector.mjs` and `worker/user-message-handler.mjs` | state, two failure counts, deadlines, probe count | canRequest, recordSuccess / Failure / SoftFailure, forceReset | gateway connector | several tasks between asking and reporting; answers that arrive in a later state; overrides. Thresholds, bounded probes, cooldowns |
| Gateway connector (`gateway-connector.mjs`) | socket, state, reconnect timer, pending requests, event handlers | connect, close, connect response, reconnect timer, forceReconnect, requests | gateway, breaker | timers of old attempts act on new connections. The lock is never left behind, the loop keeps its turn |
| Chat orchestrator (`services/chat-service.mjs`, `api/chat-api.mjs`, `api-server.mjs`) | activeTasksBySession of the API process, a copy of pendingTasks that is seconds old | start of a message, pipeline, guard timer, stale cleaner, finally | Redis IPC | timers and `finally` of an old message act on the entry of a newer one. An entry belongs to a pipeline that runs, every pipeline ends |
| Redis IPC (`lib/redis-ipc.mjs`) | pending requests | sendCommand, publishResponse, notifications | both processes | lost and late messages, timeouts. The caller learns what the task ended with, or nothing |
| WebSocket handlers (`modules/ws-handler.mjs`, `modules/ws-chat-handlers.mjs`) | busy flag of a connection, activeTasksBySession of this process, guard and grace timers | message, close | manager, event buffer, database | two records of "a task is under way", each written by timers, other handlers and the manager. The flag keeps handlers apart, the entry belongs to one that waits |
| Control handlers and realtime server (`modules/ws-control-handlers.mjs`, `ws-realtime.mjs`) | - | bind_chat, recover_task, cancel, abort_task, force_reset, dispatch_task, SIGTERM | the above | they write the records of others, and stop half-way where the pool lacks a method |
| Event buffer (`modules/event-buffer.mjs`) | buffers and session index of each of two processes, one directory of files | startTask, addEvent, completeTask, markCompleted, getActiveTask, getEvents | handlers, manager | overflow, completion of an old task, reload, a stop. A client that replays sees events once and in order; a completed task stays completed |
| Task store (`task-store.mjs`, `redis-pool.mjs`) | in Redis: task records, tasks:active, a key per session | startTask, addEvent, completeTask, failTask, getActiveTask, cleanupStaleTasks, getResumableTasks, resumeTask | Redis | two processes without a lock, keys that expire, reads before awaits, a client that gives up. No key names a task that has ended, the active set drains while a process is left that cleans |
| Autonomous queue (`api/autonomous-task-api.mjs`, `services/background-jobs.mjs`) | rows in SQLite, _taskPollerRunning | submit, cancel, poll, recovery at the start | WebSocket process | cancels, stops, a refusing database and late answers. Bounded dispatches, settled rows stay, the queue moves |
| Signals (`lib/signals.mjs`) | - | drain on SIGTERM | manager | shutdown with tasks running |
| LLM bridge breaker (`worker/llm-bridge.mjs`) | breaker per provider, shared in Redis | as above, plus fallback | Redis | stale copies |
| Human approval (`worker/human-approval.mjs`) | pending approvals | request, answer, timeout | client | answer after timeout |
| Plans and task state (`worker/plan-storage.mjs`, `worker/task-state-manager.mjs`, `worker/run-tracker.mjs`) | step states | step transitions | tools | - |
| Workflow scheduler (`workflow-scheduler.mjs`) | workflows, runs | cron, steps, retry, loops | API | never started, see section 6 |
| Tool orchestration, prompt and memory, HTTP routes, accounts, web client | - | - | - | answers of language models, text, CRUD |

`archive`, `scripts/archive`, `.DEPRECATED`, `.r98-backup`, `api/backups-iter4` and
`*.pre-*` files are dead code and left aside. `PROJECT.json` lists every component
with its status, and under `hazards` what in this code is hard to test, line by line.

## 2. Plan

| Step | Modules | State |
|---|---|---|
| 1 | `WorkerManager`, which implements the abstract `TaskLifecycle` | done, with the pool's capacity test and the rebinding of clients |
| 2 | `CircuitBreaker`, with the tasks around it | done |
| 3 | `GatewayConnector`, which implements `GatewayLink`, on which `CircuitBreaker` is built | done for the life of the connection; left: pending requests and the routing of run events |
| 4 | `ChatPipeline`, on `TaskLifecycle`, which implements `RemoteCall` | done |
| 5 | `EventBuffer` | done |
| 6 | `WsSession`, on what `TaskLifecycle` says of a task | done; left: the state a reconnecting client is sent |
| 7 | `TaskStore` | done |
| 8 | `AutonomousQueue`, on `RemoteCall` | done |
| 9 | the breaker of `llm-bridge.mjs` with its copy in Redis | left |
| 10 | human approval; workflow runs begun by hand | left |

Every core module has a module of proofs, except that liveness stays with TLC. How the
modules fit together:

```
CircuitBreaker --> GatewayLink <-- implemented by -- GatewayConnector
ChatPipeline ----> TaskLifecycle <-- implemented by -- WorkerManager
WsSession -- (phases of) --^
AutonomousQueue --> RemoteCall <-- implemented by -- ChatPipeline
EventBuffer, TaskStore: written by all of these, read back by returning clients
```

## 3. The modules

### WorkerManager

One action is one uninterrupted run of JavaScript in the WebSocket process - a handler
up to its first `await`, the continuation after it, a timer callback - or one step of
the worker process or of a client. The correspondence:

| Action or operator | Code |
|---|---|
| `Submit`, `PoolSendTask` | the callers of sendTask, and the pool's capacity test in front of it (modules/worker-pool.mjs) |
| `SendTask`, `Unavailable`, `AtCap`, `QueueFull`, `Superseded`, `Admit` | sendTask, 1523-1643: refusal, queueing, superseding, timers, send |
| `Enqueue` | the part of sendTask after `await import('../worker/event-stream.mjs')`, 1552-1562 |
| `OnReady`, `OnComplete`, `LateResult`, `OnError`, `WorkerEvent` | cases worker_ready, task_complete, task_error, frontend_event of _handleWorkerMessage |
| `Dequeue` | the part of task_complete after its import: sendTask for the dequeued task, then resolve |
| `TaskTimeout` | the idle and maximum timers, 1595-1614 |
| `OnExit`, `FailAllPending`, `ScheduleRespawn` | exit handler of spawn, 324-350; 1312-1398; 1472-1492 |
| `RetryFailedTasks`, `RespawnTimer`, `DegradedTimer` | their timer callbacks |
| `LifetimeRestart`, `RestartWorker`, `KillTimer` | 1279-1309, 1645-1668 |
| `BootDone`, `WorkerFinish`, `WorkerRefuse`, `Crash`, `Die` | worker/index.mjs: init, user_message, drain; a crash or the SIGKILL after missed pings |
| `Disconnect`, `Reconnect`, `Recover` | the task entries at a close (modules/ws-chat-handlers.mjs), bind_chat and recover_task (modules/ws-control-handlers.mjs) |

Abstractions. Messages are their msgIds. The channel *from* the worker is a queue
(`up`), read to its end before the exit event, as Node does; the channel *to* it
delivers at once, or loses the message if the process is dead or still booting
(sendTask does not send before worker_ready), and a draining worker answers later
(`refused`). `ChildProcess.send` does not throw for these messages, so its catch
branches are left out. Timers may fire in any order: nothing in the model relies on
durations. restartHistory is its length; `_scheduleRespawn` keeps any number of entries
in its window. A session has one client; several are the matter of `WsSession`. The event
buffer, the task store and activeTasksBySession do not influence this state and have
modules of their own. The pool has one worker, as configured. resumeTask and
_recoverInterruptedTasks, which nothing calls, rotate_session, announcements, db_query and a
missing worker file are not modelled. In the code the cap is 2 tasks (MAX_CONCURRENT_TASKS),
the queue 50, the pool's limit 3 per worker.

`TaskLifecycle` is what a caller of sendTask may rely on, and `ImplementsLifecycle` maps the
manager's collections to its phases.

### CircuitBreaker

The breaker's methods with `checkCircuitBreaker` in front of them and the ways out of
`handleUserMessage` behind. `Pass`, `PassReset`, `PassStale` and `Block` are the four results of
checkCircuitBreaker; `Succeed`, `FailHard`, `FailSoft`, `Leave` are the ways a task ends, and
`SucceedAndRetry` a success whose follow-up throws, so that the retry loop goes on. `Grants` and
`Denies` are canRequest after `_applyDecay`. Time is a counter, and `Tick` may jump, so that
decay, cooldowns and the two overrides interleave. `n >> k` is modelled by what JavaScript
computes (`Shr`). The gateway connects, disconnects and reconnects as `GatewayLink` allows; the
first connection does not reset the breaker, later ones do. Logging and status texts are left out. The browser
breaker is a second instance that nothing asks.

### GatewayConnector and GatewayLink

`GatewayLink` is what the users of the connector see: a link that comes up, goes down and comes
up again, with onReconnected at every connection but the first. `CircuitBreaker` takes its three
actions from it, and `ImplementsLink` shows that the connector has no others.

| Action or operator | Code |
|---|---|
| `Call` | connect() from init() and from gateway_api_request in worker/index.mjs |
| `DoConnect` | _doConnect: the single-flight test, the old socket dropped, a new one with its timeout |
| `ConnectTimeout` | the 15 s timer of an attempt, which the response clears and a close does not |
| `Rejected`, `Schedule` | what the rejection of an attempt leads to, by who started it; _scheduleReconnect |
| `ReconnectTimer`, `ForceReconnect`, `ForceTimer` | the reconnect timer; _forceReconnect and its 500 ms timer |
| `OnConnected`, `OnRefused`, `OnClose` | the connect response, ok or not; the close handler |
| `TickExpired` | the interval of _startTickMonitor after 120 s without a message |
| `GatewayCloses`, `GatewayChanges` | the gateway |

Abstractions. A replaced socket has no listeners and no effect, so that only the last one is
kept, with the armed timeouts of all attempts. The challenge, the connect request and the response
are one step. Replies and timeouts race, except that a gateway that is "up" answers an attempt
within 15 s. Delays of the reconnect timer, which change with the phase of ReconnectStrategy, are
arbitrary. `leaked` is the interval that outlives a CONNECTED socket replaced by another attempt: it
acts on whatever socket is current. The promise of an attempt and its timeout end together; a
socket that closes ends neither.

### ChatPipeline and RemoteCall

A message that comes over HTTP: the API process with its request handler, the pipeline that goes
on after the 202, and the timers; the channels of Redis; the dispatch handler of the WebSocket
process in front of the manager. The manager is `TaskLifecycle`, step for step (`StartTask` and
`ManagerStep` are steps of it), which `WorkerManager` is shown to implement.

| Action or operator | Code |
|---|---|
| `Refuse`, `Accept`, `Trigger`, `Register`, `StoreFails` | POST of a message in api/chat-api.mjs with checkRateAndActiveTask, and the trigger of the administrator |
| `Dispatch`, `DispatchFails`, `OnResponse`, `IgnoreResponse`, `RequestTimeout`, `Finish` | executeMessagePipeline from sendTask of the proxy (api-server.mjs) to its finally; sendCommand and onResponse of lib/redis-ipc.mjs |
| `GuardFires`, `StaleCleaner`, `OnWsRestarted` | processingGuardTimer, the interval of 30 s, the notice of a restart |
| `OnDispatch` ... `FallbackEnds` | case dispatch_task of ws-realtime.mjs, with the awaits of the database in between |
| `Terminate`, `DrainEnds`, `WsCrash`, `WsStart`, `ApiRestart` | SIGTERM and the drain, stops and starts of both processes |

Abstractions. A channel is the set of messages under way; a publish may be lost (nobody is
subscribed), arrives in any order and once. Time is the age of a session's entry in the three
classes the code tests, and that the guard (5 min) fires before the request times out (11 min). The
copy of pendingTasks may lack any task. The content of a reply is its kind. `RemoteCall` is the
abstract call: the task runs only when asked for, and the caller learns its outcome or nothing.

### WsSession

The connections of one session in the WebSocket process with the handlers of their messages.
Its two records of "a task is under way", the busy flag of a connection and the session's entry in
activeTasksBySession, are written by handlers, guard timers, the manager's messages and exits,
the stale cleaner and the control messages.

| Action or operator | Code |
|---|---|
| `Connect`, `BindChat`, `Close`, `Age` | modules/ws-handler.mjs, bind_chat, the close handler, processingStartedAt |
| `Send`, `Register`, `Ask`, `Finish`, `GuardTimer` | handleSendMessage of modules/ws-chat-handlers.mjs, cut at its awaits |
| `Followup`, `FollowupEnds` | auto_followup of the worker manager |
| `Dispatch` | dispatch_task, for the bound client |
| `SendTask`, `Dequeue`, `Answer`, `LateAnswer`, `TaskTimeout`, `WorkerEvent`, `WorkerExit`, `Retry` | what the manager writes of these records, task by task |
| `StaleCleaner` | the cleaner of the orchestrator in this process |
| `Recover`, `Cancel`, `AbortTask`, `ForceReset` | modules/ws-control-handlers.mjs, up to the point where they throw |

Abstractions. The manager may queue, send, refuse, retry or reject a task as `TaskLifecycle`
allows; how often is `WorkerManager`'s matter. `unset` is a history variable: the flag was reset
under handlers that went on. cancel, abort_task, force_reset and the grace timer call a method that
the pool lacks (`_clearTaskTimers`): with a task to cancel they end in a TypeError, force_reset after
it has reset the flag. They are modelled as they behave.

### EventBuffer

The buffers of a session's events: one instance in each process, one directory between them.

| Action or operator | Code |
|---|---|
| `Start`, `Emit`, `Add`, `Overflow`, `Persists` | startTask, addEvent with its cut at 5000 events and its write at every tenth |
| `Complete`, `Forget`, `Unlink` | completeTask and its two timers |
| `RecoverActive`, `RecoverOther`, `Poll`, `Active`, `Loaded` | getActiveTask and getEvents, as recover_task and the session's state use them |
| `MarkedMem`, `MarkedDisk` | markCompleted, which writes the memory, reads the file back and writes that |
| `Reject`, `End`, `RetryRefused`, `LateResult` | what the worker manager does with a task and its buffer |
| `Crash` | the stop and start of a process |

An event is its number in the stream and a kind; time stamps are left out, so that what depends
on them (a buffer that is "young") may go either way. In the code a task over HTTP is started in
the API process's instance and its events arrive in the other one, which ignores them; the model
does the same. `ReplayInOrder` speaks of every copy of every task; `DiskLag`, `UnfinishedIsFound` and
`CompletionSticks` of tasks started where their events arrive.

### TaskStore

The records in Redis, one step per command or MULTI; what a process read before an await is kept
in `cleaner`, `poll` and `resuming`. Each process has a client of its own (`conn`): it is connected,
reconnecting, or has given up, which redis-pool.mjs does after 50 attempts (about 9 minutes); connect()
has nothing but the promise of the first connection to return, so that the process is without Redis
until it restarts. The WebSocket process arms its cleanup only if it is connected when it tests that at
its start (`armed`); the API process always does.

| Action or operator | Code |
|---|---|
| `Start`, `AddEvent`, `End` | startTask, addEvent, completeTask and failTask of task-store.mjs |
| `WorkerEnds`, `HandlerEnds` | their callers: the manager's messages and exits; the finally blocks, guards and cleaners |
| `CleanBegin`, `Visit`, `CleanFails` | cleanupStaleTasks |
| `Poll`, `PollEnds` | getActiveTask |
| `Restart(p)` | a stop and start of either process |
| `ResumeScan`, `ResumeRead`, `ResumeWrite` | the recovery of ws-realtime.mjs: getResumableTasks and resumeTask |
| `Age`, `Expire` | the TTL of 40 min of a session's key and of a record, which its last event prolongs |
| `RedisLost(p)`, `RedisReady(p)`, `GivesUp(p)` | the error and ready events of the client and the end of its reconnectStrategy (redis-pool.mjs) |
| `Sweeps` | where the interval of the cleanup is armed (ws-realtime.mjs, services/background-jobs.mjs) |

### AutonomousQueue

The rows of autonomous_tasks: `Submit` and `Cancel` are the HTTP handlers of
api/autonomous-task-api.mjs, `Poll`, `Answered`, `Unanswered` pollTaskQueue of
services/background-jobs.mjs with each way its dispatch ends, `Stop` and `Start` the process with
the recovery at its start. The dispatch is `RemoteCall`: the poller sends the request whose
implementation `ChatPipeline` shows. SQLite statements, the default of db-adapter.mjs, are synchronous,
so that those without an await between them are one step; with the deprecated DB_TYPE=mysql every
statement is an await, which the model does not cover; `Fault` is a statement refused because the database is busy.

Operators named `X_Y` are `X` with a plausible bug `Y`. The specifications do not use
them; they show that the properties can fail.

## 4. The runs

| Run | Properties | Bounds, and why they are enough |
|---|---|---|
| `lifecycle` | TypeOK, NoTaskLost, PendingHasExecutor, ExecutionsBounded, OneWorker, FreshWithinCap, ImplementsLifecycle, AdmittedSettles, WorkerReturns | 2 tasks of a session, 1 slot, a queue of 1, 2 per worker, 1 retry, 2 deaths (all retries used, and degraded mode entered), 1 restartWorker, 1 lost client: queueing, refusal, a dequeue into a taken slot, a retry beside a fresh task all occur. 0.4 M states, under `FairSpec` |
| `breaker` | TypeOK, ProbesBounded, CooldownRespected, OpenDeadline, NoEarlyTrip | 2 concurrent tasks, thresholds 2 and 3, 6 questions, 14 units of time with steps of 1 and 9: a double soft cooldown, decay and the maximum open time all pass. 2.5 M states |
| `gateway` | TypeOK, LockIsGuarded, OnlyCallsGiveUp, Stabilises, ImplementsLink | 3 timeouts armed at a time (an old one, the current one and one in between), 2 calls of connect(), 1 port change, 1 expiry, 3 changes of the gateway between up, slow and down: two outages, or an outage with a refusal. 0.2 M states, under `FairSpec` |
| `chat` | TypeOK, EntryOfPipeline, ImplementsCall, PipelineEnds | 2 messages of a session (an old one and the one it interferes with), 1 lost IPC message, 1 stop of each process: a lost request, a lost answer, a late answer to a restarted process, a late guard. 0.5 M states, under `FairSpec` |
| `session` | TypeOK, FlagExcludes, EntryOfHandler, EntryFrees, HandlersEnd | 2 connections, 2 messages of which one may also be posted or the worker's own, 1 exit of the worker: two tabs, a reconnect, a handler that outlives its connection beside a newer one. 0.4 M states, under `FairSpec` |
| `buffer` | TypeOK, DiskLag, ReplayInOrder, UnfinishedIsFound, CompletionSticks | a task of each process in one session, 5 events against a capacity of 3 of which 2 are kept, writes at every second: an overflow while it streams, two reloads in a row, the idle events of a completion after an overflow or while it streams; 1 stop. 2.4 M states. The other task, started over HTTP, has only the events that close it: the order of a longer stream there rests on the theorem |
| `store` | TypeOK, NamedAreUnfinished, ActiveDrains | 2 tasks of a session, one from each process; the cleanup runs in the WebSocket process, which may also be without Redis at its start or lose it; 1 fault (a restart of either process or a lost connection): a task whose end nobody reports, a recovery beside a cleanup, a cleanup never armed, a client that gives up. What a second cleanup adds is the safety of two sweeps over one set, which the theorems cover. 0.6 M states, under `FairSpec` |
| `jobs` | TypeOK, TriesBounded, SettledStays, QueueMoves | 3 tasks of a user, one of them urgent, a limit of 2, 1 stop, 1 refused write: a row that waits behind two others, an abandoned row, a row queued again. 0.08 M states, under `FairSpec` |
| `stranded` (violated) | QueuedSettles | a task queued behind a failing one waits for ever |
| `unsaved` (violated) | ReplySaved | the reply of the fallback is never saved |
| `busy` (violated) | BusyEnds | a connection that recovered a running task stays busy for ever |
| `blocked` (violated) | QueueRecovers | a restart soon after a stop leaves a running row, which blocks the queue |

The last four state what a comment or a message of the program says and the code does not do;
`findings` in `PROJECT.json` quotes the lines. The runs `stranded`, `busy` and `blocked` are under
`FairSpec`, without deaths or faults beyond those they need. MaxCrashes, MaxRestartCalls, MaxDrops,
MaxNow, MaxAsks, Steps, MaxTimeouts, MaxFlaps, MaxCalls, MaxForces, MaxExpiries, MaxLost,
MaxWsStops, MaxApiStops, MaxEvents, MaxExits, MaxFaults, MaxStops, NumConns, Cleaners and
Fallible are bounds of the model, not of the code; the proofs hold for every value of them. The cfgs say
`CHECK_DEADLOCK FALSE` because a system whose tasks are settled and whose bounds are used up may
stop.

Liveness of a phase that is never entered again is stated as []<>~P rather than P ~> ~P, which is
the same and cheaper to check.

### What else the models show of the code

No run states these, since no comment promises the contrary, or a property that holds implies the
weaker fact:

- the breaker's decay shifts by the low five bits of the number of intervals, so that after 32 of
  them the counts are whole again; two probes pass where the limit is one (`ProbesBounded`);
- retries exceed the manager's cap, fresh tasks do not (`FreshWithinCap`); a superseded task gets
  a client back from its next event or from bind_chat;
- the timeout of the worker's first connect may take down a later connection with nothing
  scheduled (`OnlyCallsGiveUp`, and the second alternative of `Stabilises`);
- the events of a message over HTTP are never buffered; every reload of a buffer from its file
  loses as many events as the file lacks, and several reloads add up; markCompleted adds one idle
  event to the memory and two to the file;
- the error of a failed task is overwritten by "completed" in Redis, by the handler's finally;
  the end of an older task of a session, or a poll that read the key before, deletes the key of the one
  that runs; resumeTask sends nothing, and may write "running" into the record of a task that has left
  tasks:active (a completion between its read and its write), which then says so for a day;
- a process whose client of Redis has given up, or a WebSocket process that is without Redis when it
  starts, never cleans again before it restarts; if that is both, tasks:active keeps what nobody
  reports (the alternative of `ActiveDrains`);
- recover_task completes the buffer of a task that waits in the queue or for a retry, if it is over two
  minutes old;
- when the publisher is down the fallback of the API process throws, so that the guard of 5 min
  stays armed and may take the entry of a later message;
- cancel, abort_task, force_reset and the grace timer of a closed connection end in a TypeError
  when there is a task to cancel;
- a cancelled autonomous task is overwritten by its answer, errors are recorded as completed
  ("Task completed (no output)"), and the next task may start while a late one still runs.

### Fairness

`FairSpec` of WorkerManager: timers fire, suspended handlers resume, the channel is read, an
exit is reported, a started process ends `init()` (it catches a failing gateway connection).
These are what Node guarantees. Nothing obliges a worker to answer, a client to return or a user
to submit. AdmittedSettles therefore rests on the task timers, which is what they are for.

`FairSpec` of GatewayConnector: init() calls connect(), timers fire, close events are delivered,
the sockets of a gateway that is down close, and a gateway that is up answers. The last two are
assumptions about TCP and the gateway; a gateway need not stay up, and Stabilises claims something
only of behaviours in which it does.

`FairSpec` of ChatPipeline: the API process runs its handlers and timers, and time passes. Nothing
is assumed of the IPC, the WebSocket process or the database: PipelineEnds rests on the request
timeout.

`FairSpec` of WsSession: handlers go on after their awaits, the timers of tasks and retries and
the cleaner fire. Nothing obliges a queued task to be dequeued (see `stranded`), a worker to answer
or a client to do anything.

`FairSpec` of TaskStore: commands are answered, the interval of an armed cleanup fires, a client that
lost Redis comes back or gives up, tasks grow old. Nothing obliges Redis to be there before the client
gives up, nor a worker or a handler to report an end, so that ActiveDrains rests on cleanupStaleTasks
alone, and claims nothing once no process is left that cleans. Connections are lost finitely often
(MaxFaults): a connection that drops in every sweep would keep a task in the set.

`FairSpec` of AutonomousQueue: the interval of the poller fires, a request is answered or times out,
and a stopped process is started again. Rows need not grow old, workers need not answer.

## 5. The proofs

Each theorem holds for every value of the constants that the assumptions below allow. The named
parts of an inductive invariant come one paragraph per module; why it takes more than the properties
it proves is said there.

`WorkerManagerProofs` proves `IInv`, for every set of tasks, cap, queue size, number of retries
and of deaths. It joins the type invariant with what a process that is not up cannot have
(`ProcShape`), `OneWorker`, `PendingHasExecutor`, `OneExecution`, the accounting of tasks
(`NoTaskLost`, `HeldOnce`), the relation of sends and retries (`SendsCounted`: a pending task
was sent once more than it was retried, a queued one never) and `FreshWithinCap`. The bound on
executions is not inductive alone: it needs `SendsCounted`, which needs to know that no task is
in two collections. That a worker never has a task twice (`OneExecution`) rests on a retry coming
only after the exit of the worker that had it, which rests in turn on one worker at a time
(`OneRespawn`) with one report of readiness (`ReportsOnce`). From the same invariant follow, step by
step, the refinement of `TaskLifecycle` and `SettledStays`: no late answer, timer, exit or resumed
handler changes a settled promise or sends its task again.

`CircuitBreakerProofs` proves `BInv`: the type invariant, `ClosedBelowThreshold`, that decay
only lowers the counts (`CountsBelowHistory`), that every probe but the first is counted
(`ProbesCounted`), and that only a failure brings the breaker out of CLOSED, the deadline of an OPEN
one lying within two reset timeouts of the last (`DeadlineSet`). The action properties follow from it;
`OpenDeadline` holds for HALF_OPEN too, whose probes may never report, because the override by age
does not ask for the state.

`GatewayConnectorProofs` proves `GInv`: the type invariant, `LockIsGuarded` and
`ConnectedMeansOpen`, which need each other (a close may find the connector in any state), that
forced reconnects are counted (`ForcedCounted`, for the type of `forced`), and that a CONNECTED
connector was connected before (`ConnectedMeansEver`, without which a disconnection could look like
a link that was never up). `OnlyCallsGiveUp` uses `LockIsGuarded` for a refusal that arrives after
the timeout of its attempt.

`ChatPipelineProofs` proves its `IInv`: the type invariant, `EntryOfPipeline`, that whatever is under
way in Redis or in the other process was asked for (`AskedFor`), that every answer under way agrees
with the outcome of its task and, if it says so, with the database (`Agreement`), that a reply
belongs to a pipeline that has ended (`Ended`), that a message is in one place of its handover at a
time (`HandedOnce`: the request, the handler, the answer or the reply), and the count of notices
(`Stops`). The refinement of `RemoteCall` (`DispatchImplementsCall`) needs `Agreement`: an answer may
be read long after the task. `EntryOfPipeline` says of an entry's guard
that it is still armed: guards, cleaners and notices remove entries of other messages, but whatever
they leave has a timer of its own.

`WsSessionProofs` proves `SInv`: the type invariant, that a message has a task exactly from its
handler's request on and that the task of one whose handler has ended is settled (`PhaseOfStage`),
that a handler's connection is one that was opened (`ViaConnected`), that a connection whose flag was
not reset under its handlers has one at most, for which the flag is set while the connection is open
(`FlagOfHandler`, from which `FlagExcludes` follows), and `EntryOfHandler`.

`EventBufferProofs` proves `EInv`. For every task started in the WebSocket process its buffer and
file are `Good` - the file of an unfinished task is a prefix of the buffer, of a length that is a
multiple of PersistEvery -, its timers run only when it is completed in memory and on disk, and a
task that is not started has left nothing. DiskLag alone is not inductive: that the next write comes
before the file lags by PersistEvery needs the length of the file, and that an overflow leaves Keep
events, which is a multiple of it. For every task, of either process, each copy is `Sorted`: its
events are in order and among those emitted so far, so that the next one follows them all, whichever
copy was loaded in between; the closing idle event is the one exception, since markCompleted adds
it to the memory, writes that, reads it back and adds it again.

`TaskStoreProofs` proves `StInv`: the type invariant, that a task that has not begun has left nothing
(`Unbegun`), that a session's key names a task of the session that runs, is not old, and whose record
still knows the session (`KeyOfRunning`: whoever ends it finds the key), and `NamedAreUnfinished`.
`SweepsDrain` is the part of `ActiveDrains` that is not fairness: a cleanup that has visited an old or
expired member leaves it outside tasks:active unless the connection or the process went away meanwhile, and
nothing brings a task back that has left, neither the recovery that writes "running" into its record
nor an event that comes late.

`AutonomousQueueProofs` proves `QInv`: the type invariant, that the poll under way is of a row that
is running or was cancelled since (`PollerOfRow`), that a queued row was dispatched at most once
per stop (`TriesCounted`), that no two rows are running and the dispatch awaited is the latest of its
task (`OneAtATime`), and that a completed row is of a task whose outcome the poller learned
(`CompletedRan`). The bound and `SettledStays` follow.

### Composition

Where one component relies on another, the two meet in an abstract specification, and both sides are
proved: the provider implements it, and the client's steps upon its variables are steps of it.

| Abstract specification | The provider implements it | The client stays within it |
|---|---|---|
| `GatewayLink` | `ConnectorImplementsLink` | `BreakerUsesLink` (CircuitBreaker) |
| `TaskLifecycle` | `Refinement` (WorkerManager) | `PipelineUsesManager` (ChatPipeline); `TasksFollowLifecycle` (WsSession, the edges alone) |
| `RemoteCall` | `DispatchImplementsCall` (ChatPipeline) | `QueueUsesCall` (AutonomousQueue) |

So a behaviour of a client with its provider put in its place is one that the client's model allows
as far as these variables go; no product of two models is built. WsSession does not count attempts
(it knows a retry, not its number), hence the edges alone.

### Assumptions and what is not proved

Assumptions: `ConstantsAssumption` and `FiniteMsgs` (a finite set of tasks, a cap of at least one),
`BreakerAssumption` (positive thresholds and durations; the longest cooldown does not exceed the age
at which the overrides apply, as with the values in the code: 60 s, against 60 s and 5 min),
`ConnectorAssumption` (one timeout at least, a gateway that may be down), `ChatAssumption`,
`SessionAssumption`, `StoreAssumption`, `QueueAssumption` (the types of the constants),
`BufferAssumption` (the number of events an overflow keeps is a multiple of the distance between two
writes, as 4000 and 10 are) and `NoneIsNoBuffer`.

Only model-checked: liveness under fairness (`AdmittedSettles`, `WorkerReturns`, `Stabilises`,
`PipelineEnds`, `EntryFrees`, `HandlersEnd`, `ActiveDrains`, `QueueMoves`), which TLAPS does not reach
(nor ENABLED, nor induction over data), and the violations. Every other property of a passing run is
a theorem.

## 6. Not modelled

See the components with status `not_modelled` or `partly` in `PROJECT.json`; the notes say what is
left out of each.

- Pending requests of the gateway connector and the routing of run events to handlers; its port
  discovery and delays.
- The workflow scheduler: `startBackgroundJobs` gets a context without db (api-server.mjs), so that
  it is never started and rows with a schedule are never taken up; runs begun by hand through its
  routes are left.
- The breaker of `llm-bridge.mjs` (the same protocol as `CircuitBreaker`, with a copy in Redis) and
  human approval (one map, one timer per entry).
- acquireLock, the checkpoints and touchTask of the task store, startPeriodicCleanup of the event
  buffer, _recoverInterruptedTasks of the manager: nothing calls them.
- The rows that SIGTERM salvages, titles, suggestions, attachments, history compression.
- Tool orchestration, prompts, memory, routes, accounts, reports and the web client, by far the
  largest part of the repository: their control is decided by language models or is a query per
  request, and what state they share is held by the components above. The models cover the task-handling
  core, a small share of the lines.
