--------------------------- MODULE WorkerManager ---------------------------
(***************************************************************************)
(* The life of a task inside the WebSocket process of the agent:           *)
(* agent/modules/worker-manager.mjs (class WorkerManager), the pool of one *)
(* manager in front of it (agent/modules/worker-pool.mjs), the child       *)
(* process it forks (agent/worker/index.mjs) and the WebSocket handlers    *)
(* that write the manager's task entries (agent/modules/ws-chat-handlers   *)
(* and ws-control-handlers.mjs).                                           *)
(*                                                                         *)
(* A task is named by its msgId.  sendTask hands it to the worker process  *)
(* (pending), parks it (taskQueue), or refuses it; a worker exit moves it  *)
(* to the retry queue; its promise is settled once.  One action is one     *)
(* uninterrupted run of JavaScript: a handler up to its first await, the   *)
(* continuation after an await, a timer callback.                          *)
(***************************************************************************)
EXTENDS Naturals, Sequences, FiniteSets

CONSTANTS
  Msgs,             \* the msgIds of the tasks that may be submitted
  Sessions,         \* the session keys
  SessionOf,        \* the session each task is submitted in
  MaxConcurrent,    \* MAX_CONCURRENT_TASKS
  MaxQueue,         \* MAX_QUEUE_SIZE
  MaxPerWorker,     \* maxTasksPerWorker of the pool
  MaxRetry,         \* retries of a task after a worker exit ("retryCount < 2")
  MaxRestart,       \* MAX_RESTART_COUNT
  MaxCrashes,       \* bound of the model: unprovoked worker deaths
  MaxRestartCalls,  \* bound of the model: calls of restartWorker
  MaxDrops          \* bound of the model: lost client connections

ASSUME ConstantsAssumption ==
  /\ SessionOf \in [Msgs -> Sessions]
  /\ MaxConcurrent \in Nat \ {0}
  /\ MaxQueue \in Nat
  /\ MaxPerWorker \in Nat
  /\ MaxRetry \in Nat
  /\ MaxRestart \in Nat
  /\ MaxCrashes \in Nat
  /\ MaxRestartCalls \in Nat
  /\ MaxDrops \in Nat

\* Needed where tasks are counted; TLC's sets are finite in any case.
ASSUME FiniteMsgs == IsFiniteSet(Msgs)

VARIABLES
  \* ---- the manager (this.* and _deps.taskQueue)
  ready,        \* workerReady
  degraded,     \* degraded
  pending,      \* keys of pendingTasks
  taskQueue,    \* _deps.taskQueue, the msgIds in order
  retryQueue,   \* msgIds of retryQueue
  enqueuing,    \* tasks whose sendTask is suspended between the cap test and the push
  resuming,     \* task_complete handlers suspended between the shift and the sendTask
  retryCount,   \* retryCount of the entry in pendingTasks or retryQueue
  ws,           \* the entry's client: "open", "closed" (closed object) or "null"
  promise,      \* the promise sendTask returned: "none", "open", "resolved", "rejected"
  history,      \* restartHistory.length
  respawn,      \* the respawn timer: "none", "backoff", "degraded"
  retryTimers,  \* outstanding timers of _retryFailedTasks
  killTimers,   \* outstanding SIGKILL timers of restartWorker
  \* ---- the worker process and the channel from it
  proc,         \* "boot", "up", "dead" (exit event not handled yet), "gone"
  draining,     \* _draining
  running,      \* tasks in handleUserMessage (_activeTaskCount of them)
  refused,      \* user_messages that reached a draining worker
  up,           \* messages of the worker the manager has not handled yet
  \* ---- the clients, the bounds and the history the properties read
  conn,         \* does the session have a connected client?
  crashes, restarts, drops,
  sends         \* how often the task's user_message was sent

mgrVars  == <<ready, degraded, history, respawn, retryTimers, killTimers>>
taskVars == <<pending, taskQueue, retryQueue, enqueuing, resuming, retryCount, ws, promise, sends>>
procVars == <<proc, draining, running, refused, up>>
envVars  == <<conn, crashes, restarts, drops>>
vars     == <<mgrVars, taskVars, procVars, envVars>>

Kinds   == {"worker_ready", "task_complete", "task_error"}
Uplinks == {[type |-> "worker_ready"]} \cup
           [type : {"task_complete", "task_error"}, msg : Msgs]

Queued == {taskQueue[i] : i \in 1..Len(taskQueue)}
Nexts  == {r.next : r \in resuming}     \* dequeued, sendTask not yet called again
Dones  == {r.done : r \in resuming}     \* completed, promise not yet resolved

TypeOK ==
  /\ ready \in BOOLEAN /\ degraded \in BOOLEAN
  /\ pending \subseteq Msgs /\ retryQueue \subseteq Msgs /\ enqueuing \subseteq Msgs
  /\ taskQueue \in Seq(Msgs)
  /\ resuming \subseteq [done : Msgs, next : Msgs]
  /\ retryCount \in [Msgs -> 0..MaxRetry]
  /\ ws \in [Msgs -> {"open", "closed", "null"}]
  /\ promise \in [Msgs -> {"none", "open", "resolved", "rejected"}]
  /\ history \in 0..MaxRestart
  /\ respawn \in {"none", "backoff", "degraded"}
  /\ retryTimers \in Nat /\ killTimers \in Nat
  /\ proc \in {"boot", "up", "dead", "gone"}
  /\ draining \in BOOLEAN
  /\ running \subseteq Msgs /\ refused \subseteq Msgs
  /\ up \in Seq(Uplinks)
  /\ conn \in [Sessions -> BOOLEAN]
  /\ crashes \in 0..MaxCrashes /\ restarts \in 0..MaxRestartCalls /\ drops \in 0..MaxDrops
  /\ sends \in [Msgs -> Nat]

(***************************************************************************)
(* The constructor, and the first spawn by the pool.                       *)
(***************************************************************************)
Init ==
  /\ ready = FALSE /\ degraded = FALSE
  /\ pending = {} /\ taskQueue = <<>> /\ retryQueue = {}
  /\ enqueuing = {} /\ resuming = {}
  /\ retryCount = [m \in Msgs |-> 0]
  /\ ws = [m \in Msgs |-> "null"]
  /\ promise = [m \in Msgs |-> "none"]
  /\ history = 0 /\ respawn = "none" /\ retryTimers = 0 /\ killTimers = 0
  /\ proc = "boot" /\ draining = FALSE /\ running = {} /\ refused = {} /\ up = <<>>
  /\ conn = [s \in Sessions |-> TRUE]
  /\ crashes = 0 /\ restarts = 0 /\ drops = 0
  /\ sends = [m \in Msgs |-> 0]

----------------------------------------------------------------------------
(* sendTask                                                                *)

\* The operators named X_Y are X with a plausible bug Y; nothing uses them here.
Unavailable_IgnoresReady == degraded
Unavailable == degraded \/ ~ready

AtCap_OffByOne == Cardinality(pending) > MaxConcurrent
AtCap          == Cardinality(pending) >= MaxConcurrent

QueueFull == Len(taskQueue) >= MaxQueue

SetAll(f, S, v) == [m \in Msgs |-> IF m \in S THEN v ELSE f[m]]

\* worker.send(user_message) to every task of S.  A dead process loses it.
Deliver(S) ==
  /\ sends'   = [m \in Msgs |-> IF m \in S THEN sends[m] + 1 ELSE sends[m]]
  /\ running' = IF proc = "up" /\ ~draining THEN running \cup S ELSE running
  /\ refused' = IF proc = "up" /\ draining THEN refused \cup S ELSE refused

\* The pending tasks of m's session lose their client.
Superseded(m) == {o \in pending \ {m} : SessionOf[o] = SessionOf[m]}

Admit(m) ==
  /\ pending'    = pending \cup {m}
  /\ retryCount' = [retryCount EXCEPT ![m] = 0]
  /\ Deliver({m})

Refuse(m, w, p) ==
  /\ promise' = [p EXCEPT ![m] = "rejected"]
  /\ ws' = w
  /\ UNCHANGED <<pending, enqueuing, retryCount, sends, running, refused>>

\* The run of sendTask up to its first await or its return.  w and p are ws and
\* promise with what the caller writes: m's client, and m's promise open.
SendTask(m, w, p) ==
  \/ (Unavailable \/ (AtCap /\ QueueFull)) /\ Refuse(m, w, p)
  \/ /\ ~Unavailable /\ AtCap /\ ~QueueFull
     /\ promise' = p
     /\ enqueuing' = enqueuing \cup {m}
     /\ ws' = w
     /\ UNCHANGED <<pending, retryCount, sends, running, refused>>
  \/ /\ ~Unavailable /\ ~AtCap
     /\ promise' = p
     /\ ws' = SetAll(w, Superseded(m), "null")
     /\ Admit(m)
     /\ UNCHANGED enqueuing

\* The pool's sendTask, which the handlers call: its only worker must have room.
\* (The queue is drained past this test.)
PoolSendTask(m, w, p) ==
  \/ Cardinality(pending) >= MaxPerWorker /\ Refuse(m, w, p)
  \/ Cardinality(pending) < MaxPerWorker /\ SendTask(m, w, p)

\* A handler calls sendTask for a new message of the session's client, or,
\* with no client connected, for a task dispatched by the API process.
Submit(m) ==
  /\ promise[m] = "none"
  /\ PoolSendTask(m, [ws EXCEPT ![m] = IF conn[SessionOf[m]] THEN "open" ELSE "null"],
                     [promise EXCEPT ![m] = "open"])
  /\ UNCHANGED <<mgrVars, envVars, taskQueue, retryQueue, resuming, proc, draining, up>>

\* After the import: the push.  Nothing is tested again.
Enqueue(m) ==
  /\ m \in enqueuing
  /\ enqueuing' = enqueuing \ {m}
  /\ taskQueue' = Append(taskQueue, m)
  /\ UNCHANGED <<mgrVars, procVars, envVars,
                 pending, retryQueue, resuming, retryCount, ws, promise, sends>>

----------------------------------------------------------------------------
(* Messages of the worker                                                  *)

Receive(kind) == up # <<>> /\ Head(up).type = kind /\ up' = Tail(up)

OnReady ==
  /\ Receive("worker_ready")
  /\ ready' = TRUE
  /\ UNCHANGED <<taskVars, envVars, degraded, history, respawn, retryTimers, killTimers,
                 proc, draining, running, refused>>

\* taskQueue.shift()
Shift(q) == Tail(q)

\* A result for a task that is not pending any more: it goes to the event buffer
\* and to a client, and changes nothing of the manager.
LateResult_Resolves(m) == promise' = [promise EXCEPT ![m] = "resolved"]
LateResult(m) == UNCHANGED promise

\* task_complete of a pending task frees its slot and, when the queue is not
\* empty, takes the first entry off and suspends at the import; the promise is
\* resolved by the continuation.
OnComplete ==
  /\ Receive("task_complete")
  /\ LET m == Head(up).msg
     IN IF m \notin pending
        THEN LateResult(m) /\ UNCHANGED <<pending, taskQueue, resuming>>
        ELSE /\ pending' = pending \ {m}
             /\ IF taskQueue = <<>>
                THEN /\ promise' = [promise EXCEPT ![m] = "resolved"]
                     /\ UNCHANGED <<taskQueue, resuming>>
                ELSE /\ resuming'  = resuming \cup {[done |-> m, next |-> Head(taskQueue)]}
                     /\ taskQueue' = Shift(taskQueue)
                     /\ UNCHANGED promise
  /\ UNCHANGED <<mgrVars, envVars, retryQueue, enqueuing, retryCount, ws, sends,
                 proc, draining, running, refused>>

\* The continuation: sendTask for the dequeued task, then task.resolve.
Dequeue(r) ==
  /\ r \in resuming
  /\ resuming' = resuming \ {r}
  /\ SendTask(r.next, ws, [promise EXCEPT ![r.done] = "resolved"])
  /\ UNCHANGED <<mgrVars, envVars, taskQueue, retryQueue, proc, draining, up>>

\* task_error frees the slot but takes nothing off the queue.
OnError ==
  /\ Receive("task_error")
  /\ LET m == Head(up).msg
     IN IF m \notin pending
        THEN UNCHANGED <<pending, promise>>
        ELSE /\ pending' = pending \ {m}
             /\ promise' = [promise EXCEPT ![m] = "rejected"]
  /\ UNCHANGED <<mgrVars, envVars, taskQueue, retryQueue, enqueuing, resuming, retryCount,
                 ws, sends, proc, draining, running, refused>>

\* frontend_event of a task in the worker: a pending task without an open
\* client gets the client its session has now.
WorkerEvent(m) ==
  /\ proc = "up" /\ m \in running
  /\ m \in pending /\ ws[m] # "open" /\ conn[SessionOf[m]]
  /\ ws' = [ws EXCEPT ![m] = "open"]
  /\ UNCHANGED <<mgrVars, procVars, envVars, pending, taskQueue, retryQueue, enqueuing,
                 resuming, retryCount, promise, sends>>

----------------------------------------------------------------------------
(* Timers of a task: idleTimer and maxTimer of sendTask, of a retry, and    *)
(* the one _resetIdleTimeout arms.  The worker is not told.                 *)

TaskTimeout_LeavesPromise(m) ==
  /\ m \in pending
  /\ pending' = pending \ {m}
  /\ UNCHANGED <<mgrVars, procVars, envVars, taskQueue, retryQueue, enqueuing, resuming,
                 retryCount, promise, ws, sends>>

TaskTimeout_FreshOnly(m) ==
  /\ m \in pending /\ retryCount[m] = 0
  /\ pending' = pending \ {m}
  /\ promise' = [promise EXCEPT ![m] = "rejected"]
  /\ UNCHANGED <<mgrVars, procVars, envVars, taskQueue, retryQueue, enqueuing, resuming,
                 retryCount, ws, sends>>

TaskTimeout(m) ==
  /\ m \in pending
  /\ pending' = pending \ {m}
  /\ promise' = [promise EXCEPT ![m] = "rejected"]
  /\ UNCHANGED <<mgrVars, procVars, envVars, taskQueue, retryQueue, enqueuing, resuming,
                 retryCount, ws, sends>>

----------------------------------------------------------------------------
(* The exit of the worker and its recovery                                  *)

\* "task.retryCount < 2"
MayRetry_OffByOne(m) == retryCount[m] <= MaxRetry
MayRetry_Always(m) == TRUE
MayRetry(m) == retryCount[m] < MaxRetry

\* _failAllPending: retried at most MaxRetry times, then rejected.
FailAllPending ==
  LET again == {m \in pending : MayRetry(m)}
  IN  /\ retryQueue' = retryQueue \cup again
      /\ retryCount' = [m \in Msgs |-> IF m \in again THEN retryCount[m] + 1 ELSE retryCount[m]]
      /\ promise'    = SetAll(promise, pending \ again, "rejected")
      /\ pending'    = {}
      /\ retryTimers' = retryTimers + 1

ScheduleRespawn_StaysDegraded ==
  \E k \in 0..history :
    IF k >= MaxRestart
    THEN degraded' = TRUE /\ history' = k /\ UNCHANGED respawn
    ELSE history' = k + 1 /\ respawn' = "backoff" /\ UNCHANGED degraded

\* _scheduleRespawn: k restarts are left in the window of the last 5 minutes.
ScheduleRespawn ==
  \E k \in 0..history :
    IF k >= MaxRestart
    THEN degraded' = TRUE /\ history' = k /\ respawn' = "degraded"
    ELSE history' = k + 1 /\ respawn' = "backoff" /\ UNCHANGED degraded

\* The exit event.  The channel has been read to its end by then.
OnExit ==
  /\ proc = "dead" /\ up = <<>>
  /\ proc' = "gone"
  /\ ready' = FALSE
  /\ FailAllPending
  /\ ScheduleRespawn
  /\ UNCHANGED <<envVars, killTimers, taskQueue, enqueuing, resuming, ws, sends,
                 draining, running, refused, up>>

\* Which entries of the retry queue are sent again: those whose client has not
\* closed, if the worker is ready.
Resendable == IF ready THEN {m \in retryQueue : ws[m] # "closed"} ELSE {}

\* _retryFailedTasks: past the cap, and without superseding.
RetryFailedTasks ==
  /\ retryTimers > 0
  /\ retryTimers' = retryTimers - 1
  /\ retryQueue' = {}
  /\ pending' = pending \cup Resendable
  /\ promise' = SetAll(promise, retryQueue \ Resendable, "rejected")
  /\ Deliver(Resendable)
  /\ UNCHANGED <<envVars, ready, degraded, history, respawn, killTimers, taskQueue,
                 enqueuing, resuming, retryCount, ws, proc, draining, up>>

\* spawn: a new process, with a channel of its own.
Spawn ==
  /\ proc' = "boot" /\ draining' = FALSE /\ running' = {} /\ refused' = {} /\ up' = <<>>
  /\ ready' = FALSE
  /\ respawn' = "none"

RespawnTimer ==
  /\ respawn = "backoff"
  /\ Spawn
  /\ UNCHANGED <<taskVars, envVars, degraded, history, retryTimers, killTimers>>

DegradedTimer ==
  /\ respawn = "degraded"
  /\ degraded' = FALSE /\ history' = 0
  /\ Spawn
  /\ UNCHANGED <<taskVars, envVars, retryTimers, killTimers>>

----------------------------------------------------------------------------
(* The worker process                                                       *)

Die == proc' = "dead" /\ running' = {} /\ refused' = {} /\ draining' = FALSE

\* init() ends: with worker_ready, or with exit(1).
BootDone ==
  /\ proc = "boot"
  /\ proc' = "up"
  /\ up' = Append(up, [type |-> "worker_ready"])
  /\ UNCHANGED <<mgrVars, taskVars, envVars, draining, running, refused>>

\* handleUserMessage returns or throws; a draining worker exits with its last task.
WorkerFinish(m, kind) ==
  /\ proc = "up" /\ m \in running
  /\ kind \in {"task_complete", "task_error"}
  /\ up' = Append(up, [type |-> kind, msg |-> m])
  /\ IF draining /\ running = {m}
     THEN Die
     ELSE running' = running \ {m} /\ UNCHANGED <<proc, draining, refused>>
  /\ UNCHANGED <<mgrVars, taskVars, envVars>>

\* "Worker draining"
WorkerRefuse(m) ==
  /\ proc = "up" /\ m \in refused
  /\ refused' = refused \ {m}
  /\ up' = Append(up, [type |-> "task_error", msg |-> m])
  /\ UNCHANGED <<mgrVars, taskVars, envVars, proc, draining, running>>

\* A crash, the exit(1) of a failed init, or the SIGKILL after missed pings.
Crash ==
  /\ proc \in {"boot", "up"} /\ crashes < MaxCrashes
  /\ crashes' = crashes + 1
  /\ Die
  /\ UNCHANGED <<mgrVars, taskVars, conn, restarts, drops, up>>

\* The lifetime check: SIGTERM to a worker of MAX_WORKER_LIFETIME_MS with nothing pending.
LifetimeRestart ==
  /\ ready /\ pending = {} /\ proc = "up" /\ crashes < MaxCrashes
  /\ crashes' = crashes + 1
  /\ Die
  /\ UNCHANGED <<mgrVars, taskVars, conn, restarts, drops, up>>

\* restartWorker: every pending task is rejected, the worker is asked to shut
\* down (it drains if it has tasks) and a SIGKILL is armed for this.worker.
RestartWorker ==
  /\ restarts < MaxRestartCalls
  /\ restarts' = restarts + 1
  /\ promise' = SetAll(promise, pending, "rejected")
  /\ pending' = {}
  /\ killTimers' = killTimers + 1
  /\ \/ /\ proc = "boot" \/ (proc = "up" /\ running = {})
        /\ Die
     \/ /\ proc = "up" /\ running # {}
        /\ draining' = TRUE
        /\ UNCHANGED <<proc, running, refused>>
     \/ /\ proc \in {"dead", "gone"}
        /\ UNCHANGED <<proc, draining, running, refused>>
  /\ UNCHANGED <<ready, degraded, history, respawn, retryTimers, taskQueue, retryQueue,
                 enqueuing, resuming, retryCount, ws, sends, up, conn, crashes, drops>>

\* The SIGKILL, for whatever process this.worker is by then.
KillTimer ==
  /\ killTimers > 0
  /\ killTimers' = killTimers - 1
  /\ IF proc \in {"boot", "up"} THEN Die ELSE UNCHANGED <<proc, draining, running, refused>>
  /\ UNCHANGED <<taskVars, envVars, ready, degraded, history, respawn, retryTimers, up>>

----------------------------------------------------------------------------
(* The clients                                                              *)

\* The close handler: pending tasks lose the client, other entries keep the
\* closed object.
Disconnect(s) ==
  /\ conn[s] /\ drops < MaxDrops
  /\ drops' = drops + 1
  /\ conn' = [conn EXCEPT ![s] = FALSE]
  /\ ws' = [m \in Msgs |->
              IF SessionOf[m] # s \/ ws[m] # "open" THEN ws[m]
              ELSE IF m \in pending THEN "null" ELSE "closed"]
  /\ UNCHANGED <<mgrVars, procVars, crashes, restarts, pending, taskQueue, retryQueue,
                 enqueuing, resuming, retryCount, promise, sends>>

\* bind_chat of a new connection takes every pending task of the session that has
\* no client, the superseded ones included.
Reconnect(s) ==
  /\ ~conn[s]
  /\ conn' = [conn EXCEPT ![s] = TRUE]
  /\ ws' = SetAll(ws, {m \in pending : SessionOf[m] = s /\ ws[m] = "null"}, "open")
  /\ UNCHANGED <<mgrVars, procVars, crashes, restarts, drops, pending, taskQueue, retryQueue,
                 enqueuing, resuming, retryCount, promise, sends>>

\* recover_task gives the session's client one pending task: the one the event
\* buffer calls active, or the first.
Recover(m) ==
  /\ conn[SessionOf[m]] /\ m \in pending /\ ws[m] # "open"
  /\ ws' = [ws EXCEPT ![m] = "open"]
  /\ UNCHANGED <<mgrVars, procVars, envVars, pending, taskQueue, retryQueue, enqueuing,
                 resuming, retryCount, promise, sends>>

----------------------------------------------------------------------------
Next ==
  \/ \E m \in Msgs : Submit(m) \/ Enqueue(m) \/ TaskTimeout(m) \/ WorkerEvent(m)
                    \/ WorkerRefuse(m) \/ Recover(m)
  \/ \E m \in Msgs, k \in {"task_complete", "task_error"} : WorkerFinish(m, k)
  \/ \E r \in resuming : Dequeue(r)
  \/ \E s \in Sessions : Disconnect(s) \/ Reconnect(s)
  \/ OnReady \/ OnComplete \/ OnError \/ OnExit
  \/ RetryFailedTasks \/ RespawnTimer \/ DegradedTimer \/ KillTimer
  \/ BootDone \/ Crash \/ LifetimeRestart \/ RestartWorker

Spec == Init /\ [][Next]_vars

\* Timers fire, suspended handlers resume, the channel is read and the exit of
\* a process is reported; a started process ends init().  Nothing obliges a
\* worker to finish a task, a client to come back or anyone to submit.
Fairness ==
  /\ \A m \in Msgs : WF_vars(Enqueue(m)) /\ WF_vars(TaskTimeout(m))
  /\ \A m, n \in Msgs : WF_vars(Dequeue([done |-> m, next |-> n]))
  /\ WF_vars(OnReady) /\ WF_vars(OnComplete) /\ WF_vars(OnError) /\ WF_vars(OnExit)
  /\ WF_vars(RetryFailedTasks) /\ WF_vars(RespawnTimer) /\ WF_vars(DegradedTimer)
  /\ WF_vars(KillTimer) /\ WF_vars(BootDone)

FairSpec == Spec /\ Fairness

----------------------------------------------------------------------------
(* Properties                                                               *)

Answers(m) == {i \in 1..Len(up) : up[i].type # "worker_ready" /\ up[i].msg = m}

\* No task is lost and none is held twice: an unsettled promise is exactly one
\* that pendingTasks, taskQueue, retryQueue or a suspended handler will settle,
\* whatever exits, timeouts, restarts and awaits come between.
NoTaskLost ==
  {m \in Msgs : promise[m] = "open"} =
    pending \cup retryQueue \cup enqueuing \cup Queued \cup Nexts \cup Dones

HeldOnce ==
  /\ pending \cap (retryQueue \cup enqueuing \cup Queued \cup Nexts \cup Dones) = {}
  /\ retryQueue \cap (enqueuing \cup Queued \cup Nexts \cup Dones) = {}
  /\ enqueuing \cap (Queued \cup Nexts \cup Dones) = {}
  /\ Queued \cap (Nexts \cup Dones) = {}
  /\ Nexts \cap Dones = {}
  /\ \A i, j \in 1..Len(taskQueue) : taskQueue[i] = taskQueue[j] => i = j
  /\ \A q, r \in resuming : q.done = r.done \/ q.next = r.next => q = r

\* A pending task is never one the worker does not know: it is being worked on,
\* its answer is on the way, or the exit that fails it has still to be handled.
\* (Its idle timer is not the only thing that can end it.)
ExecutorOfPending ==
  \A m \in pending : m \in running \cup refused \/ Answers(m) # {} \/ proc = "dead"

\* Nothing the manager has given to others waits for nobody: a pending task has an
\* executor, and the tasks of the retry queue have a timer that will take them out, though
\* exits that come close together share the queue and each timer empties it.
PendingHasExecutor ==
  /\ ExecutorOfPending
  /\ retryQueue # {} => retryTimers > 0

\* The tasks that are not retries stay within the concurrency cap, though the
\* retries of _retryFailedTasks are added past it.
FreshWithinCap == Cardinality({m \in pending : retryCount[m] = 0}) <= MaxConcurrent

\* A task is with the worker process once at most - worked on, refused, or answered by a
\* message under way -, and not at all before it is sent or while its retry is to come.
InWorker(m) == m \in running \cup refused \/ Answers(m) # {}
OneExecution ==
  \A m \in Msgs :
    /\ m \notin running \cap refused
    /\ m \in running \cup refused => Answers(m) = {}
    /\ \A i, j \in Answers(m) : i = j
    /\ sends[m] = 0 \/ m \in retryQueue => ~InWorker(m)

\* A task is given to at most 1 + MaxRetry workers, however often it is queued, dequeued,
\* queued again, superseded and retried, to one after the other, and no worker has it twice.
ExecutionsBounded == OneExecution /\ \A m \in Msgs : sends[m] <= MaxRetry + 1

\* There is always exactly one thing that will bring a worker back when none
\* runs, and none that would start a second one: a respawn timer is armed
\* exactly while the exit of the last worker has been handled, and degraded
\* mode is never entered without the timer that leaves it.
OneRespawn ==
  /\ (respawn # "none") <=> (proc = "gone")
  /\ degraded <=> (respawn = "degraded")
  /\ ready => proc \in {"up", "dead"}

\* A worker that is up is known to be ready, or its one worker_ready is under way.
ReadyMessages == {i \in 1..Len(up) : up[i].type = "worker_ready"}
ReportsOnce ==
  /\ \A i, j \in ReadyMessages : i = j
  /\ ready => ReadyMessages = {}
  /\ proc = "up" => ready \/ ReadyMessages # {}

\* The manager never waits for a worker that will not come: one that boots, one that has
\* reported, an exit event or a respawn timer is there; and a worker that refuses tasks
\* because it drains has a last task to exit with, and a SIGKILL armed against it.
OneWorker ==
  /\ OneRespawn /\ ReportsOnce
  /\ draining => running # {} /\ killTimers > 0

\* No task stays in the hands of the worker or of the retry timer for ever, even if the
\* worker never answers, dies, or comes back late: it settles (TaskLifecycle's order of
\* phases leaves nothing else).
AdmittedSettles ==
  \A m \in Msgs : []<>(m \notin pending \cup retryQueue \cup Dones)

\* The manager implements TaskLifecycle.
Phase == [m \in Msgs |->
  CASE m \in pending -> "running"
    [] m \in retryQueue -> "retrying"
    [] m \in enqueuing \cup Queued \cup Nexts -> "waiting"
    [] m \in Dones -> "answered"
    [] promise[m] \in {"resolved", "rejected"} -> promise[m]
    [] OTHER -> "unsent"]

Lifecycle == INSTANCE TaskLifecycle
  WITH Tasks <- Msgs, MaxAttempts <- MaxRetry + 1, phase <- Phase, attempts <- sends

\* Every task goes through the phases of TaskLifecycle: at most 1 + MaxRetry
\* workers, one answer, and no worker after the answer.
ImplementsLifecycle == Lifecycle!Spec

\* The manager finds its way back to a ready worker, also out of degraded mode.
WorkerReturns == []<>ready

----------------------------------------------------------------------------
(* What makes the safety properties inductive                               *)

\* A process that has not started or is gone has no channel content, and only a
\* process that is up works on tasks.
ProcShape ==
  /\ proc \in {"boot", "gone"} => up = <<>>
  /\ proc # "up" => running = {} /\ refused = {} /\ ~draining

\* The tasks no worker has been given yet.
Unsent == {m \in Msgs : promise[m] = "none"} \cup enqueuing \cup Queued \cup Nexts

\* The retry count of an entry says how often the task was sent: a pending task
\* once more than it was retried, and a task not yet admitted never.
SendsCounted ==
  /\ \A m \in pending : sends[m] = retryCount[m] + 1
  /\ \A m \in retryQueue : sends[m] = retryCount[m] /\ retryCount[m] > 0
  /\ \A m \in Unsent : sends[m] = 0
  /\ \A m \in Msgs : sends[m] <= MaxRetry + 1

IInv ==
  /\ TypeOK /\ ProcShape /\ OneWorker /\ PendingHasExecutor /\ OneExecution
  /\ NoTaskLost /\ HeldOnce /\ SendsCounted /\ FreshWithinCap

----------------------------------------------------------------------------
(* What the comments of worker-manager.mjs say and the code does not do     *)

\* "FIFO task queue for backpressure", "your request is queued (position #N),
\* estimated wait ...": a queued task is eventually run or refused.
QueuedSettles ==
  \A m \in Msgs : m \in Queued ~> promise[m] \in {"resolved", "rejected"}

=============================================================================
