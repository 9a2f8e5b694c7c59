------------------------ MODULE WorkerManagerProofs ------------------------
(***************************************************************************)
(* The safety properties of WorkerManager, for any number of tasks and     *)
(* sessions and any values of the limits.                                  *)
(*                                                                         *)
(* IInv is inductive.  Its parts are proved to be preserved one after      *)
(* another, each from the invariant before the step: the types, the        *)
(* process and its respawn, its report and the timers, where each task is  *)
(* held, how often it was sent, who works on it, that only one does, and   *)
(* the cap.                                                                *)
(***************************************************************************)
EXTENDS WorkerManager, FiniteSetTheorems, SequenceTheorems, TLAPS

----------------------------------------------------------------------------
(* Types                                                                    *)

\* What a call of sendTask comes to, with or without the pool in front: a run of
\* the manager's sendTask, or the pool's refusal.
Sent(m, w, p) == SendTask(m, w, p) \/ Refuse(m, w, p)

\* What Deliver does to the types of the three variables it writes.
LEMMA DeliverType ==
  ASSUME TypeOK, NEW S \in SUBSET Msgs, Deliver(S)
  PROVE  sends' \in [Msgs -> Nat] /\ running' \subseteq Msgs /\ refused' \subseteq Msgs
BY DEF TypeOK, Deliver

\* One run of sendTask keeps the types of everything it writes.
LEMMA SendTaskType ==
  ASSUME TypeOK, NEW m \in Msgs,
         NEW w \in [Msgs -> {"open", "closed", "null"}],
         NEW p \in [Msgs -> {"none", "open", "resolved", "rejected"}],
         Sent(m, w, p)
  PROVE  /\ pending' \subseteq Msgs /\ enqueuing' \subseteq Msgs
         /\ retryCount' \in [Msgs -> 0..MaxRetry]
         /\ ws' \in [Msgs -> {"open", "closed", "null"}]
         /\ promise' \in [Msgs -> {"none", "open", "resolved", "rejected"}]
         /\ sends' \in [Msgs -> Nat]
         /\ running' \subseteq Msgs /\ refused' \subseteq Msgs
<1>1. CASE Refuse(m, w, p)
  BY <1>1 DEF Refuse, TypeOK
<1>2. CASE SendTask(m, w, p) /\ AtCap /\ ~Refuse(m, w, p)
  BY <1>2 DEF SendTask, TypeOK
<1>3. CASE SendTask(m, w, p) /\ ~AtCap /\ ~Refuse(m, w, p)
  <2>1. Deliver({m}) /\ pending' = pending \cup {m}
        /\ retryCount' = [retryCount EXCEPT ![m] = 0]
        /\ ws' = SetAll(w, Superseded(m), "null") /\ promise' = p /\ enqueuing' = enqueuing
    BY <1>3 DEF Sent, SendTask, Refuse, Admit
  <2>2. {m} \in SUBSET Msgs
    OBVIOUS
  <2>3. sends' \in [Msgs -> Nat] /\ running' \subseteq Msgs /\ refused' \subseteq Msgs
    BY <2>1, <2>2, DeliverType
  <2>4. SetAll(w, Superseded(m), "null") \in [Msgs -> {"open", "closed", "null"}]
    BY DEF SetAll
  <2>5. 0 \in 0..MaxRetry
    BY ConstantsAssumption DEF ConstantsAssumption
  <2> QED
    BY <2>1, <2>3, <2>4, <2>5 DEF TypeOK
<1> QED
  BY <1>1, <1>2, <1>3 DEF Sent

\* Taking a message off the channel keeps its type.
LEMMA ReceiveType ==
  ASSUME TypeOK, NEW kind \in Kinds, Receive(kind)
  PROVE  /\ up' \in Seq(Uplinks) /\ Head(up) \in Uplinks
         /\ kind # "worker_ready" => Head(up).msg \in Msgs
<1>1. up \in Seq(Uplinks) /\ up # <<>> /\ up' = Tail(up) /\ Head(up).type = kind
  BY DEF TypeOK, Receive
<1>2. Head(up) \in Uplinks /\ Tail(up) \in Seq(Uplinks)
  BY <1>1, HeadTailProperties
<1> QED
  BY <1>1, <1>2 DEF Uplinks, Kinds

\* The state of a new manager, its first worker still to be spawned, is well typed.
LEMMA TypeInit == Init => TypeOK
<1> SUFFICES ASSUME Init PROVE TypeOK
  OBVIOUS
<1>1. ready \in BOOLEAN /\ degraded \in BOOLEAN /\ draining \in BOOLEAN /\ conn \in [Sessions -> BOOLEAN]
  BY Zenon DEF Init
<1>2. /\ 0 \in 0..MaxRetry /\ 0 \in 0..MaxRestart /\ 0 \in 0..MaxCrashes
      /\ 0 \in 0..MaxRestartCalls /\ 0 \in 0..MaxDrops
  BY ConstantsAssumption DEF ConstantsAssumption
<1>3. taskQueue \in Seq(Msgs) /\ up \in Seq(Uplinks)
  BY EmptySeq DEF Init
<1> QED
  BY <1>1, <1>2, <1>3 DEF Init, TypeOK

\* Every step keeps the types; TypeOK is inductive on its own.
LEMMA TypeNext ==
  ASSUME TypeOK, [Next]_vars
  PROVE  TypeOK'
<1> USE DEF TypeOK, mgrVars, taskVars, procVars, envVars
<1>1. ASSUME NEW m \in Msgs, Submit(m) PROVE TypeOK'
  <2>1. Sent(m, [ws EXCEPT ![m] = IF conn[SessionOf[m]] THEN "open" ELSE "null"],
                    [promise EXCEPT ![m] = "open"])
    BY <1>1 DEF Submit, PoolSendTask, Sent
  <2> QED
    BY <1>1, <2>1, SendTaskType DEF Submit
<1>2. ASSUME NEW m \in Msgs, Enqueue(m) PROVE TypeOK'
  BY <1>2, AppendProperties DEF Enqueue
<1>3. ASSUME NEW m \in Msgs, TaskTimeout(m) PROVE TypeOK'
  BY <1>3 DEF TaskTimeout
<1>4. ASSUME NEW m \in Msgs, WorkerEvent(m) \/ Recover(m) PROVE TypeOK'
  BY <1>4 DEF WorkerEvent, Recover
<1>5. ASSUME NEW m \in Msgs, WorkerRefuse(m) PROVE TypeOK'
  BY <1>5, AppendProperties DEF WorkerRefuse, Uplinks
<1>6. ASSUME NEW m \in Msgs, NEW k \in {"task_complete", "task_error"}, WorkerFinish(m, k)
      PROVE  TypeOK'
  <2>1. [type |-> k, msg |-> m] \in Uplinks
    BY <1>6 DEF Uplinks
  <2> QED
    BY <1>6, <2>1, AppendProperties DEF WorkerFinish, Die
<1>7. ASSUME NEW r \in resuming, Dequeue(r) PROVE TypeOK'
  <2>1. r.next \in Msgs /\ r.done \in Msgs
    OBVIOUS
  <2>2. Sent(r.next, ws, [promise EXCEPT ![r.done] = "resolved"])
    BY <1>7 DEF Dequeue, Sent
  <2> QED
    BY <1>7, <2>1, <2>2, SendTaskType DEF Dequeue
<1>8. ASSUME NEW s \in Sessions, Disconnect(s) PROVE TypeOK'
  <2>1. conn' \in [Sessions -> BOOLEAN]
    BY <1>8 DEF Disconnect
  <2>2. drops' \in 0..MaxDrops
    BY <1>8, ConstantsAssumption DEF Disconnect, ConstantsAssumption
  <2>3. ws' \in [Msgs -> {"open", "closed", "null"}]
    BY <1>8 DEF Disconnect
  <2> QED
    BY <1>8, <2>1, <2>2, <2>3 DEF Disconnect
<1>9. ASSUME NEW s \in Sessions, Reconnect(s) PROVE TypeOK'
  BY <1>9 DEF Reconnect, SetAll
<1>10. CASE OnReady
  BY <1>10, ReceiveType DEF OnReady, Kinds
<1>11. CASE OnComplete
  <2>1. /\ up' \in Seq(Uplinks) /\ Head(up).msg \in Msgs
    BY <1>11, ReceiveType DEF OnComplete, Kinds
  <2>2. CASE taskQueue = <<>> \/ Head(up).msg \notin pending
    BY <1>11, <2>1, <2>2 DEF OnComplete, LateResult
  <2>3. CASE taskQueue # <<>> /\ Head(up).msg \in pending
    <3>1. Head(taskQueue) \in Msgs /\ Tail(taskQueue) \in Seq(Msgs)
      BY <2>3, HeadTailProperties
    <3>2. [done |-> Head(up).msg, next |-> Head(taskQueue)] \in [done : Msgs, next : Msgs]
      BY <2>1, <3>1
    <3>3. /\ pending' \subseteq Msgs /\ taskQueue' = Tail(taskQueue)
          /\ resuming' = resuming \cup {[done |-> Head(up).msg, next |-> Head(taskQueue)]}
      BY <1>11, <2>3 DEF OnComplete, Shift
    <3> QED
      BY <1>11, <2>1, <2>3, <3>1, <3>2, <3>3 DEF OnComplete
  <2> QED
    BY <2>2, <2>3
<1>12. CASE OnError
  <2>1. /\ up' \in Seq(Uplinks) /\ Head(up).msg \in Msgs
    BY <1>12, ReceiveType DEF OnError, Kinds
  <2> QED
    BY <1>12, <2>1 DEF OnError
<1>13. CASE OnExit
  <2>1. ready' \in BOOLEAN /\ degraded' \in BOOLEAN
    BY <1>13, Zenon DEF OnExit, ScheduleRespawn
  <2>2. /\ history' \in 0..MaxRestart /\ respawn' \in {"none", "backoff", "degraded"}
    BY <1>13, ConstantsAssumption DEF OnExit, ScheduleRespawn, ConstantsAssumption
  <2>3. /\ retryQueue' \subseteq Msgs /\ pending' \subseteq Msgs /\ retryTimers' \in Nat
        /\ retryCount' \in [Msgs -> 0..MaxRetry]
        /\ promise' \in [Msgs -> {"none", "open", "resolved", "rejected"}]
    BY <1>13, ConstantsAssumption
    DEF OnExit, FailAllPending, MayRetry, SetAll, ConstantsAssumption
  <2> QED
    BY <1>13, <2>1, <2>2, <2>3 DEF OnExit
<1>14. CASE RetryFailedTasks
  <2>1. Resendable \in SUBSET Msgs
    BY DEF Resendable
  <2>2. Deliver(Resendable)
    BY <1>14 DEF RetryFailedTasks
  <2>3. sends' \in [Msgs -> Nat] /\ running' \subseteq Msgs /\ refused' \subseteq Msgs
    BY <2>1, <2>2, DeliverType
  <2>4. promise' \in [Msgs -> {"none", "open", "resolved", "rejected"}]
    BY <1>14 DEF RetryFailedTasks, SetAll
  <2>5. retryTimers' \in Nat /\ pending' \subseteq Msgs /\ retryQueue' \subseteq Msgs
    BY <1>14, <2>1 DEF RetryFailedTasks
  <2> QED
    BY <1>14, <2>3, <2>4, <2>5 DEF RetryFailedTasks
<1>15. CASE RespawnTimer
  <2>1. ready' \in BOOLEAN /\ draining' \in BOOLEAN
    BY <1>15, Zenon DEF RespawnTimer, Spawn
  <2> QED
    BY <1>15, <2>1, EmptySeq DEF RespawnTimer, Spawn
<1>16. CASE DegradedTimer
  <2>1. ready' \in BOOLEAN /\ draining' \in BOOLEAN /\ degraded' \in BOOLEAN
    BY <1>16, Zenon DEF DegradedTimer, Spawn
  <2> QED
    BY <1>16, <2>1, EmptySeq, ConstantsAssumption DEF DegradedTimer, Spawn, ConstantsAssumption
<1>17. CASE KillTimer
  <2>1. draining' \in BOOLEAN
    BY <1>17, Zenon DEF KillTimer, Die
  <2> QED
    BY <1>17, <2>1 DEF KillTimer, Die
<1>18. CASE BootDone
  <2>1. [type |-> "worker_ready"] \in Uplinks
    BY DEF Uplinks
  <2> QED
    BY <1>18, <2>1, AppendProperties DEF BootDone
<1>19. CASE Crash
  <2>1. draining' \in BOOLEAN
    BY <1>19, Zenon DEF Crash, Die
  <2> QED
    BY <1>19, <2>1, ConstantsAssumption DEF Crash, Die, ConstantsAssumption
<1>20. CASE LifetimeRestart
  <2>1. draining' \in BOOLEAN
    BY <1>20, Zenon DEF LifetimeRestart, Die
  <2> QED
    BY <1>20, <2>1, ConstantsAssumption DEF LifetimeRestart, Die, ConstantsAssumption
<1>21. CASE RestartWorker
  <2>1. draining' \in BOOLEAN
    BY <1>21, Zenon DEF RestartWorker, Die
  <2> QED
    BY <1>21, <2>1, ConstantsAssumption DEF RestartWorker, Die, SetAll, ConstantsAssumption
<1>22. CASE UNCHANGED vars
  BY <1>22 DEF vars
<1> QED
  BY <1>1, <1>2, <1>3, <1>4, <1>5, <1>6, <1>7, <1>8, <1>9, <1>10, <1>11, <1>12, <1>13,
     <1>14, <1>15, <1>16, <1>17, <1>18, <1>19, <1>20, <1>21, <1>22 DEF Next

\* Type correctness of the manager, the channel and the worker process.
THEOREM TypeCorrect == Spec => []TypeOK
<1>1. Init => TypeOK
  BY TypeInit
<1>2. TypeOK /\ [Next]_vars => TypeOK'
  BY TypeNext
<1> QED
  BY <1>1, <1>2, PTL DEF Spec

----------------------------------------------------------------------------
(* The process and its respawn                                              *)

\* sendTask reaches the worker only through Deliver, and only a process that is
\* up takes what is delivered.
LEMMA SendTaskProc ==
  ASSUME NEW m, NEW w, NEW p, Sent(m, w, p)
  PROVE  proc # "up" => running' = running /\ refused' = refused
BY DEF Sent, SendTask, Refuse, Admit, Deliver

\* The manager-side facts a step that touches neither the process nor a timer keeps.
LEMMA ProcSame ==
  ASSUME ProcShape, OneRespawn,
         UNCHANGED <<proc, draining, up, ready, degraded, respawn>>,
         proc # "up" => running' = running /\ refused' = refused
  PROVE  ProcShape' /\ OneRespawn'
BY DEF ProcShape, OneRespawn

\* Every step keeps one source of a ready worker: a process, its exit event, or one timer.
LEMMA ProcNext ==
  ASSUME TypeOK, ProcShape, OneRespawn, [Next]_vars
  PROVE  ProcShape' /\ OneRespawn'
<1> USE DEF mgrVars, taskVars, procVars, envVars
<1>1. ASSUME NEW m \in Msgs, Submit(m) PROVE ProcShape' /\ OneRespawn'
  BY <1>1, SendTaskProc, ProcSame DEF Submit, PoolSendTask, Sent
<1>2. ASSUME NEW m \in Msgs, Enqueue(m) \/ TaskTimeout(m) \/ WorkerEvent(m) \/ Recover(m)
      PROVE  ProcShape' /\ OneRespawn'
  BY <1>2, ProcSame DEF Enqueue, TaskTimeout, WorkerEvent, Recover
<1>3. ASSUME NEW m \in Msgs, WorkerRefuse(m) PROVE ProcShape' /\ OneRespawn'
  BY <1>3 DEF WorkerRefuse, ProcShape, OneRespawn
<1>4. ASSUME NEW m \in Msgs, NEW k \in {"task_complete", "task_error"}, WorkerFinish(m, k)
      PROVE  ProcShape' /\ OneRespawn'
  BY <1>4 DEF WorkerFinish, Die, ProcShape, OneRespawn
<1>5. ASSUME NEW r \in resuming, Dequeue(r) PROVE ProcShape' /\ OneRespawn'
  BY <1>5, SendTaskProc, ProcSame DEF Dequeue, Sent
<1>6. ASSUME NEW s \in Sessions, Disconnect(s) \/ Reconnect(s) PROVE ProcShape' /\ OneRespawn'
  BY <1>6, ProcSame DEF Disconnect, Reconnect
<1>7. CASE OnReady
  <2>1. up # <<>> /\ proc \in {"up", "dead"}
    BY <1>7 DEF OnReady, Receive, ProcShape, TypeOK
  <2>2. ProcShape'
    BY <1>7, <2>1 DEF OnReady, ProcShape
  <2>3. OneRespawn'
    BY <1>7, <2>1 DEF OnReady, OneRespawn
  <2> QED
    BY <2>2, <2>3
<1>8. CASE OnComplete \/ OnError
  <2>1. up # <<>> /\ proc \in {"up", "dead"}
    BY <1>8 DEF OnComplete, OnError, Receive, ProcShape, TypeOK
  <2> QED
    BY <1>8, <2>1 DEF OnComplete, OnError, ProcShape, OneRespawn
<1>9. CASE OnExit
  BY <1>9 DEF OnExit, FailAllPending, ScheduleRespawn, ProcShape, OneRespawn
<1>10. CASE RetryFailedTasks
  BY <1>10, ProcSame DEF RetryFailedTasks, Deliver
<1>11. CASE RespawnTimer \/ DegradedTimer
  BY <1>11 DEF RespawnTimer, DegradedTimer, Spawn, ProcShape, OneRespawn
<1>12. CASE KillTimer
  BY <1>12 DEF KillTimer, Die, ProcShape, OneRespawn
<1>13. CASE BootDone
  BY <1>13 DEF BootDone, ProcShape, OneRespawn
<1>14. CASE Crash \/ LifetimeRestart
  BY <1>14 DEF Crash, LifetimeRestart, Die, ProcShape, OneRespawn
<1>15. CASE RestartWorker
  BY <1>15 DEF RestartWorker, Die, ProcShape, OneRespawn
<1>16. CASE UNCHANGED vars
  BY <1>16, ProcSame DEF vars
<1> QED
  BY <1>1, <1>2, <1>3, <1>4, <1>5, <1>6, <1>7, <1>8, <1>9, <1>10, <1>11, <1>12, <1>13,
     <1>14, <1>15, <1>16 DEF Next

----------------------------------------------------------------------------
(* One report, one drain, one retry timer                                   *)

\* Reading a message takes the report off the channel only if the message is the report.
LEMMA ReportsTail ==
  ASSUME up \in Seq(Uplinks), up # <<>>, up' = Tail(up), \A i, j \in ReadyMessages : i = j
  PROVE  /\ \A i, j \in ReadyMessages' : i = j
         /\ Head(up).type = "worker_ready" => ReadyMessages' = {}
         /\ Head(up).type # "worker_ready" => (ReadyMessages' = {} <=> ReadyMessages = {})
<1>1. /\ Len(up') = Len(up) - 1 /\ Len(up) \in Nat /\ Len(up) > 0 /\ Head(up) = up[1]
      /\ \A i \in 1..Len(up') : up'[i] = up[i + 1]
  BY HeadTailProperties, LenProperties, EmptySeq
<1>2. \A i \in ReadyMessages' : i \in Int /\ i > 0 /\ i + 1 \in ReadyMessages
  BY <1>1 DEF ReadyMessages
<1>3. \A i \in ReadyMessages : i = 1 \/ i - 1 \in ReadyMessages'
  BY <1>1 DEF ReadyMessages
<1>4. 1 \in ReadyMessages <=> Head(up).type = "worker_ready"
  BY <1>1 DEF ReadyMessages
<1>5. \A i, j \in ReadyMessages' : i = j
  BY <1>2
<1>6. Head(up).type = "worker_ready" => ReadyMessages' = {}
  BY <1>2, <1>4
<1>7. Head(up).type # "worker_ready" => (ReadyMessages' = {} <=> ReadyMessages = {})
  BY <1>2, <1>3, <1>4
<1> QED
  BY <1>5, <1>6, <1>7

\* Sending one adds a report only if it is one.
LEMMA ReportsAppend ==
  ASSUME up \in Seq(Uplinks), NEW u \in Uplinks, up' = Append(up, u)
  PROVE  ReadyMessages' = IF u.type = "worker_ready" THEN ReadyMessages \cup {Len(up) + 1}
                                                     ELSE ReadyMessages
<1>1. /\ Len(up') = Len(up) + 1 /\ Len(up) \in Nat /\ up'[Len(up) + 1] = u
      /\ \A i \in 1..Len(up) : up'[i] = up[i]
  BY AppendProperties, LenProperties
<1>2. 1..Len(up') = 1..Len(up) \cup {Len(up) + 1} /\ Len(up) + 1 \notin 1..Len(up)
  BY <1>1
<1> QED
  BY <1>1, <1>2 DEF ReadyMessages

\* A worker reports once, and the manager believes it ready exactly from then on.
LEMMA ReportsNext ==
  ASSUME TypeOK, ProcShape, OneRespawn, ReportsOnce, [Next]_vars
  PROVE  ReportsOnce'
<1> USE DEF mgrVars, taskVars, procVars, envVars
<1>0. ASSUME up' = up, ready' = ready, proc' = "up" => proc = "up" PROVE ReportsOnce'
  BY <1>0 DEF ReportsOnce, ReadyMessages
<1>1. ASSUME NEW m \in Msgs, Submit(m) \/ Enqueue(m) \/ TaskTimeout(m) \/ WorkerEvent(m) \/ Recover(m)
      PROVE  ReportsOnce'
  BY <1>0, <1>1 DEF Submit, Enqueue, TaskTimeout, WorkerEvent, Recover
<1>2. ASSUME NEW u \in Uplinks, up' = Append(up, u), u.type # "worker_ready", ready' = ready,
             proc' = "up" => proc = "up"
      PROVE  ReportsOnce'
  BY <1>2, ReportsAppend DEF ReportsOnce, TypeOK
<1>3. ASSUME NEW m \in Msgs, WorkerRefuse(m) PROVE ReportsOnce'
  BY <1>2, <1>3 DEF WorkerRefuse, Uplinks
<1>4. ASSUME NEW m \in Msgs, NEW k \in {"task_complete", "task_error"}, WorkerFinish(m, k)
      PROVE  ReportsOnce'
  <2>1. [type |-> k, msg |-> m] \in Uplinks /\ [type |-> k, msg |-> m].type # "worker_ready"
    BY DEF Uplinks
  <2> QED
    BY <1>2, <1>4, <2>1 DEF WorkerFinish, Die
<1>5. ASSUME NEW r \in resuming, Dequeue(r) PROVE ReportsOnce'
  BY <1>0, <1>5 DEF Dequeue
<1>6. ASSUME NEW s \in Sessions, Disconnect(s) \/ Reconnect(s) PROVE ReportsOnce'
  BY <1>0, <1>6 DEF Disconnect, Reconnect
<1>7. CASE OnReady
  <2>1. up # <<>> /\ up' = Tail(up) /\ Head(up).type = "worker_ready" /\ ready' = TRUE /\ proc' = proc
    BY <1>7 DEF OnReady, Receive
  <2> QED
    BY <2>1, ReportsTail DEF ReportsOnce, TypeOK
<1>8. CASE OnComplete \/ OnError
  <2>1. up # <<>> /\ up' = Tail(up) /\ Head(up).type # "worker_ready" /\ ready' = ready /\ proc' = proc
    BY <1>8 DEF OnComplete, OnError, Receive
  <2> QED
    BY <2>1, ReportsTail DEF ReportsOnce, TypeOK
<1>9. ASSUME up' = <<>>, ready' = FALSE, proc' # "up" PROVE ReportsOnce'
  BY <1>9, EmptySeq DEF ReportsOnce, ReadyMessages
<1>10. CASE OnExit
  BY <1>9, <1>10 DEF OnExit
<1>11. CASE RespawnTimer \/ DegradedTimer
  BY <1>9, <1>11 DEF RespawnTimer, DegradedTimer, Spawn
<1>12. CASE BootDone
  <2>1. up = <<>> /\ ready = FALSE /\ ready' = ready /\ up' = Append(up, [type |-> "worker_ready"])
    BY <1>12 DEF BootDone, ProcShape, OneRespawn, TypeOK
  <2>2. ReadyMessages = {}
    BY <2>1, EmptySeq DEF ReadyMessages
  <2>3. ReadyMessages' = {Len(up) + 1}
    BY <2>1, <2>2, ReportsAppend DEF TypeOK, Uplinks
  <2> QED
    BY <2>1, <2>3 DEF ReportsOnce
<1>13. CASE RetryFailedTasks \/ KillTimer \/ Crash \/ LifetimeRestart \/ RestartWorker
  BY <1>0, <1>13 DEF RetryFailedTasks, KillTimer, Crash, LifetimeRestart, RestartWorker, Die
<1>14. CASE UNCHANGED vars
  BY <1>0, <1>14 DEF vars
<1> QED
  BY <1>1, <1>3, <1>4, <1>5, <1>6, <1>7, <1>8, <1>10, <1>11, <1>12, <1>13, <1>14 DEF Next

DrainEnds == draining => running # {} /\ killTimers > 0
RetryComes == retryQueue # {} => retryTimers > 0

\* A worker drains only with a task to end and a SIGKILL to come, and a retry queue
\* has its timer, whichever of several timers empties it.
LEMMA TimersNext ==
  ASSUME TypeOK, ProcShape, DrainEnds, RetryComes, [Next]_vars
  PROVE  DrainEnds' /\ RetryComes'
<1> USE DEF mgrVars, taskVars, procVars, envVars
<1>0. ASSUME UNCHANGED <<draining, killTimers, retryQueue, retryTimers>>, running \subseteq running'
      PROVE  DrainEnds' /\ RetryComes'
  BY <1>0 DEF DrainEnds, RetryComes
<1>1. ASSUME NEW m, NEW w, NEW p, Sent(m, w, p) PROVE running \subseteq running'
  BY <1>1 DEF Sent, SendTask, Refuse, Admit, Deliver
<1>2. ASSUME NEW m \in Msgs, Submit(m) PROVE DrainEnds' /\ RetryComes'
  BY <1>0, <1>1, <1>2 DEF Submit, PoolSendTask, Sent
<1>3. ASSUME NEW r \in resuming, Dequeue(r) PROVE DrainEnds' /\ RetryComes'
  BY <1>0, <1>1, <1>3 DEF Dequeue, Sent
<1>4. ASSUME NEW m \in Msgs, Enqueue(m) \/ TaskTimeout(m) \/ WorkerEvent(m) \/ Recover(m) \/ WorkerRefuse(m)
      PROVE  DrainEnds' /\ RetryComes'
  BY <1>0, <1>4 DEF Enqueue, TaskTimeout, WorkerEvent, Recover, WorkerRefuse
<1>5. ASSUME NEW m \in Msgs, NEW k \in {"task_complete", "task_error"}, WorkerFinish(m, k)
      PROVE  DrainEnds' /\ RetryComes'
  BY <1>5 DEF WorkerFinish, Die, DrainEnds, RetryComes
<1>6. ASSUME NEW s \in Sessions, Disconnect(s) \/ Reconnect(s) PROVE DrainEnds' /\ RetryComes'
  BY <1>0, <1>6 DEF Disconnect, Reconnect
<1>7. CASE OnReady \/ OnComplete \/ OnError \/ BootDone
  BY <1>0, <1>7 DEF OnReady, OnComplete, OnError, BootDone
<1>8. CASE OnExit
  BY <1>8 DEF OnExit, FailAllPending, ProcShape, DrainEnds, RetryComes, TypeOK
<1>9. CASE RetryFailedTasks
  BY <1>9 DEF RetryFailedTasks, Deliver, DrainEnds, RetryComes
<1>10. CASE RespawnTimer \/ DegradedTimer
  BY <1>10 DEF RespawnTimer, DegradedTimer, Spawn, DrainEnds, RetryComes
<1>11. CASE KillTimer
  BY <1>11 DEF KillTimer, Die, ProcShape, DrainEnds, RetryComes
<1>12. CASE Crash \/ LifetimeRestart
  BY <1>12 DEF Crash, LifetimeRestart, Die, DrainEnds, RetryComes
<1>13. CASE RestartWorker
  BY <1>13 DEF RestartWorker, Die, DrainEnds, RetryComes, TypeOK
<1>14. CASE UNCHANGED vars
  BY <1>0, <1>14 DEF vars
<1> QED
  BY <1>2, <1>3, <1>4, <1>5, <1>6, <1>7, <1>8, <1>9, <1>10, <1>11, <1>12, <1>13, <1>14 DEF Next

----------------------------------------------------------------------------
(* Where each task is held                                                  *)

\* The push makes the queue hold one more task, and keeps it free of duplicates.
LEMMA QueuedAppend ==
  ASSUME taskQueue \in Seq(Msgs), NEW m \in Msgs, taskQueue' = Append(taskQueue, m),
         m \notin Queued,
         \A i, j \in 1..Len(taskQueue) : taskQueue[i] = taskQueue[j] => i = j
  PROVE  /\ Queued' = Queued \cup {m}
         /\ \A i, j \in 1..Len(taskQueue') : taskQueue'[i] = taskQueue'[j] => i = j
<1>1. /\ Len(taskQueue') = Len(taskQueue) + 1 /\ taskQueue'[Len(taskQueue) + 1] = m
      /\ \A i \in 1..Len(taskQueue) : taskQueue'[i] = taskQueue[i]
      /\ Len(taskQueue) \in Nat
  BY AppendProperties, LenProperties
<1>2. \A i \in 1..Len(taskQueue') : i \in 1..Len(taskQueue) \/ i = Len(taskQueue) + 1
  BY <1>1
<1> QED
  BY <1>1, <1>2 DEF Queued

\* The shift takes the head, and only the head, out of the queue.
LEMMA QueuedTail ==
  ASSUME taskQueue \in Seq(Msgs), taskQueue # <<>>, taskQueue' = Tail(taskQueue),
         \A i, j \in 1..Len(taskQueue) : taskQueue[i] = taskQueue[j] => i = j
  PROVE  /\ Head(taskQueue) \in Queued /\ Queued' = Queued \ {Head(taskQueue)}
         /\ \A i, j \in 1..Len(taskQueue') : taskQueue'[i] = taskQueue'[j] => i = j
<1>1. /\ Len(taskQueue) \in Nat /\ Len(taskQueue) > 0 /\ Len(taskQueue') = Len(taskQueue) - 1
      /\ Head(taskQueue) = taskQueue[1]
      /\ \A i \in 1..Len(taskQueue') : taskQueue'[i] = taskQueue[i + 1]
  BY HeadTailProperties, LenProperties, EmptySeq
<1>2. \A i \in 1..Len(taskQueue') : i + 1 \in 1..Len(taskQueue)
  BY <1>1
<1>3. \A i \in 1..Len(taskQueue) : i = 1 \/ i - 1 \in 1..Len(taskQueue')
  BY <1>1
<1>4. \A x : x \in Queued' => x \in Queued /\ x # Head(taskQueue)
  BY <1>1, <1>2 DEF Queued
<1>5. \A x : x \in Queued /\ x # Head(taskQueue) => x \in Queued'
  <2>1. ASSUME NEW i \in 1..Len(taskQueue), taskQueue[i] # Head(taskQueue)
        PROVE  taskQueue[i] \in Queued'
    <3>1. i - 1 \in 1..Len(taskQueue') /\ taskQueue'[i - 1] = taskQueue[i]
      BY <1>1, <1>3, <2>1
    <3> QED
      BY <3>1 DEF Queued
  <2> QED
    BY <2>1 DEF Queued
<1>6. Head(taskQueue) \in Queued
  BY <1>1 DEF Queued
<1>7. \A i, j \in 1..Len(taskQueue') : taskQueue'[i] = taskQueue'[j] => i = j
  BY <1>1, <1>2
<1> QED
  BY <1>4, <1>5, <1>6, <1>7

\* The three outcomes of sendTask: refused, suspended before the push, admitted.
LEMMA SendTaskOutcome ==
  ASSUME NEW m, NEW w, NEW p, Sent(m, w, p)
  PROVE  \/ pending' = pending /\ enqueuing' = enqueuing /\ promise' = [p EXCEPT ![m] = "rejected"]
         \/ pending' = pending /\ enqueuing' = enqueuing \cup {m} /\ promise' = p
         \/ pending' = pending \cup {m} /\ enqueuing' = enqueuing /\ promise' = p
BY DEF Sent, SendTask, Refuse, Admit

\* Every step keeps each unsettled task in one place: a suspended call, the queue, pendingTasks
\* or failedTaskRetries.
LEMMA LocNext ==
  ASSUME TypeOK, NoTaskLost, HeldOnce, [Next]_vars
  PROVE  NoTaskLost' /\ HeldOnce'
<1> USE DEF mgrVars, taskVars, procVars, envVars
<1> DEFINE Same == UNCHANGED <<pending, taskQueue, retryQueue, enqueuing, resuming, promise>>
<1>0. Same => NoTaskLost' /\ HeldOnce'
  <2> SUFFICES ASSUME Same PROVE NoTaskLost' /\ HeldOnce'
    OBVIOUS
  <2>1. Queued' = Queued /\ Nexts' = Nexts /\ Dones' = Dones
    BY DEF Queued, Nexts, Dones
  <2> QED
    BY <2>1 DEF NoTaskLost, HeldOnce
<1>1. ASSUME NEW m \in Msgs, Submit(m) PROVE NoTaskLost' /\ HeldOnce'
  <2>1. Sent(m, [ws EXCEPT ![m] = IF conn[SessionOf[m]] THEN "open" ELSE "null"],
                    [promise EXCEPT ![m] = "open"])
    BY <1>1 DEF Submit, PoolSendTask, Sent
  <2>2. /\ taskQueue' = taskQueue /\ retryQueue' = retryQueue /\ resuming' = resuming
        /\ promise[m] = "none"
    BY <1>1 DEF Submit, PoolSendTask, Sent
  <2>3. Queued' = Queued /\ Nexts' = Nexts /\ Dones' = Dones
    BY <2>2 DEF Queued, Nexts, Dones
  <2>4. m \notin pending \cup retryQueue \cup enqueuing \cup Queued \cup Nexts \cup Dones
    BY <2>2 DEF NoTaskLost
  <2>5. NoTaskLost'
    <3> DEFINE open == [promise EXCEPT ![m] = "open"]
    <3>1. /\ open \in [Msgs -> {"none", "open", "resolved", "rejected"}] /\ open[m] = "open"
          /\ \A n \in Msgs \ {m} : open[n] = promise[n] /\ [open EXCEPT ![m] = "rejected"][n] = promise[n]
          /\ [open EXCEPT ![m] = "rejected"][m] = "rejected"
      BY DEF TypeOK
    <3>2. \/ pending' = pending /\ enqueuing' = enqueuing /\ promise' = [open EXCEPT ![m] = "rejected"]
          \/ pending' = pending /\ enqueuing' = enqueuing \cup {m} /\ promise' = open
          \/ pending' = pending \cup {m} /\ enqueuing' = enqueuing /\ promise' = open
      BY <2>1, SendTaskOutcome
    <3> HIDE DEF open
    <3> QED
      BY <2>2, <2>3, <2>4, <3>1, <3>2 DEF NoTaskLost
  <2>6. HeldOnce'
    BY <2>1, <2>2, <2>3, <2>4, SendTaskOutcome DEF HeldOnce
  <2> QED
    BY <2>5, <2>6
<1>2. ASSUME NEW m \in Msgs, Enqueue(m) PROVE NoTaskLost' /\ HeldOnce'
  <2>1. m \in enqueuing /\ m \notin Queued
    BY <1>2 DEF Enqueue, HeldOnce
  <2>2. /\ Queued' = Queued \cup {m}
        /\ \A i, j \in 1..Len(taskQueue') : taskQueue'[i] = taskQueue'[j] => i = j
    BY <1>2, <2>1, QueuedAppend DEF Enqueue, HeldOnce, TypeOK
  <2>3. Nexts' = Nexts /\ Dones' = Dones
    BY <1>2 DEF Enqueue, Nexts, Dones
  <2>4. NoTaskLost'
    BY <1>2, <2>2, <2>3 DEF Enqueue, NoTaskLost
  <2>5. HeldOnce'
    BY <1>2, <2>1, <2>2, <2>3 DEF Enqueue, HeldOnce
  <2> QED
    BY <2>4, <2>5
<1>3. ASSUME NEW m \in Msgs, TaskTimeout(m) PROVE NoTaskLost' /\ HeldOnce'
  <2>1. Queued' = Queued /\ Nexts' = Nexts /\ Dones' = Dones
    BY <1>3 DEF TaskTimeout, Queued, Nexts, Dones
  <2>2. NoTaskLost'
    BY <1>3, <2>1 DEF TaskTimeout, NoTaskLost, HeldOnce, TypeOK
  <2>3. HeldOnce'
    BY <1>3, <2>1 DEF TaskTimeout, HeldOnce
  <2> QED
    BY <2>2, <2>3
<1>4. ASSUME NEW m \in Msgs, WorkerEvent(m) \/ Recover(m) \/ WorkerRefuse(m) PROVE NoTaskLost' /\ HeldOnce'
  BY <1>0, <1>4 DEF WorkerEvent, Recover, WorkerRefuse
<1>5. ASSUME NEW m \in Msgs, NEW k \in {"task_complete", "task_error"}, WorkerFinish(m, k)
      PROVE  NoTaskLost' /\ HeldOnce'
  BY <1>0, <1>5 DEF WorkerFinish
<1>6. ASSUME NEW r \in resuming, Dequeue(r) PROVE NoTaskLost' /\ HeldOnce'
  <2>1. Sent(r.next, ws, [promise EXCEPT ![r.done] = "resolved"])
    BY <1>6 DEF Dequeue, Sent
  <2>2. /\ taskQueue' = taskQueue /\ retryQueue' = retryQueue /\ resuming' = resuming \ {r}
        /\ Queued' = Queued
    BY <1>6 DEF Dequeue, Queued
  <2>3. /\ r.next \in Nexts /\ r.done \in Dones /\ r.next # r.done
        /\ r.next \in Msgs /\ r.done \in Msgs
    <3>1. r.next \in Nexts /\ r.done \in Dones
      BY DEF Nexts, Dones
    <3>2. r.next # r.done
      BY <3>1 DEF HeldOnce
    <3> QED
      BY <3>1, <3>2 DEF TypeOK
  <2>4. Nexts' = Nexts \ {r.next} /\ Dones' = Dones \ {r.done}
    BY <2>2 DEF Nexts, Dones, HeldOnce
  <2>5. NoTaskLost'
    <3> DEFINE done == [promise EXCEPT ![r.done] = "resolved"]
    <3>1. /\ done[r.done] = "resolved" /\ [done EXCEPT ![r.next] = "rejected"][r.done] = "resolved"
          /\ done[r.next] = promise[r.next]
          /\ [done EXCEPT ![r.next] = "rejected"][r.next] = "rejected"
          /\ \A n \in Msgs \ {r.done, r.next} :
               done[n] = promise[n] /\ [done EXCEPT ![r.next] = "rejected"][n] = promise[n]
      BY <2>3 DEF TypeOK
    <3>2. \/ pending' = pending /\ enqueuing' = enqueuing /\ promise' = [done EXCEPT ![r.next] = "rejected"]
          \/ pending' = pending /\ enqueuing' = enqueuing \cup {r.next} /\ promise' = done
          \/ pending' = pending \cup {r.next} /\ enqueuing' = enqueuing /\ promise' = done
      BY <2>1, SendTaskOutcome
    <3>3. /\ r.next \notin pending \cup retryQueue \cup enqueuing \cup Queued \cup Dones
          /\ r.done \notin pending \cup retryQueue \cup enqueuing \cup Queued \cup Nexts
          /\ promise[r.next] = "open"
      BY <2>3 DEF HeldOnce, NoTaskLost
    <3> HIDE DEF done
    <3>4. CASE promise' = [done EXCEPT ![r.next] = "rejected"]
      <4>1. \A n \in Msgs : promise'[n] = "open" <=> promise[n] = "open" /\ n # r.next /\ n # r.done
        BY <2>3, <3>1, <3>4
      <4> QED
        BY <2>2, <2>3, <2>4, <3>1, <3>2, <3>3, <4>1 DEF NoTaskLost
    <3>5. CASE promise' = done
      <4>1. \A n \in Msgs : promise'[n] = "open" <=> promise[n] = "open" /\ n # r.done
        BY <2>3, <3>1, <3>3, <3>5
      <4>2. pending' \cup enqueuing' = pending \cup enqueuing \cup {r.next}
        BY <3>1, <3>2, <3>3, <3>5, <2>3
      <4> QED
        BY <2>2, <2>3, <2>4, <3>3, <4>1, <4>2 DEF NoTaskLost
    <3> QED
      BY <3>2, <3>4, <3>5
  <2>6. HeldOnce'
    BY <2>1, <2>2, <2>3, <2>4, SendTaskOutcome DEF HeldOnce
  <2> QED
    BY <2>5, <2>6
<1>7. ASSUME NEW s \in Sessions, Disconnect(s) \/ Reconnect(s) PROVE NoTaskLost' /\ HeldOnce'
  BY <1>0, <1>7 DEF Disconnect, Reconnect
<1>8. CASE OnComplete
  <2> DEFINE m == Head(up).msg
  <2>1. CASE m \notin pending
    BY <1>0, <1>8, <2>1 DEF OnComplete, LateResult
  <2>2. CASE m \in pending /\ taskQueue = <<>>
    <3>1. /\ pending' = pending \ {m} /\ promise' = [promise EXCEPT ![m] = "resolved"]
          /\ UNCHANGED <<taskQueue, resuming, retryQueue, enqueuing>>
      BY <1>8, <2>2 DEF OnComplete
    <3>2. Queued' = Queued /\ Nexts' = Nexts /\ Dones' = Dones
      BY <3>1 DEF Queued, Nexts, Dones
    <3>3. NoTaskLost'
      BY <2>2, <3>1, <3>2 DEF NoTaskLost, HeldOnce, TypeOK
    <3>4. HeldOnce'
      BY <3>1, <3>2 DEF HeldOnce
    <3> QED
      BY <3>3, <3>4
  <2>3. CASE m \in pending /\ taskQueue # <<>>
    <3> DEFINE r == [done |-> m, next |-> Head(taskQueue)]
    <3>1. /\ pending' = pending \ {m} /\ resuming' = resuming \cup {r}
          /\ taskQueue' = Tail(taskQueue)
          /\ UNCHANGED <<promise, retryQueue, enqueuing>>
      BY <1>8, <2>3 DEF OnComplete, Shift
    <3>2. /\ Head(taskQueue) \in Queued /\ Queued' = Queued \ {Head(taskQueue)}
          /\ \A i, j \in 1..Len(taskQueue') : taskQueue'[i] = taskQueue'[j] => i = j
      BY <2>3, <3>1, QueuedTail DEF HeldOnce, TypeOK
    <3>3. Nexts' = Nexts \cup {Head(taskQueue)} /\ Dones' = Dones \cup {m}
      <4>1. r.done = m /\ r.next = Head(taskQueue)
        OBVIOUS
      <4> HIDE DEF r
      <4> QED
        BY <3>1, <4>1 DEF Nexts, Dones
    <3>4. NoTaskLost'
      BY <2>3, <3>1, <3>2, <3>3 DEF NoTaskLost, HeldOnce
    <3>5. \A q \in resuming : q.done # m /\ q.next # Head(taskQueue)
      BY <2>3, <3>2 DEF HeldOnce, Nexts, Dones
    <3>6. \A p, q \in resuming' : p.done = q.done \/ p.next = q.next => p = q
      BY <3>1, <3>5 DEF HeldOnce
    <3>7. HeldOnce'
      BY <2>3, <3>1, <3>2, <3>3, <3>6 DEF HeldOnce
    <3> QED
      BY <3>4, <3>7
  <2> QED
    BY <2>1, <2>2, <2>3
<1>9. CASE OnError
  <2>1. Queued' = Queued /\ Nexts' = Nexts /\ Dones' = Dones
    BY <1>9 DEF OnError, Queued, Nexts, Dones
  <2>2. NoTaskLost'
    <3>1. CASE Head(up).msg \notin pending
      BY <1>9, <2>1, <3>1 DEF OnError, NoTaskLost
    <3>2. CASE Head(up).msg \in pending
      <4> DEFINE m == Head(up).msg
      <4>1. m \in Msgs /\ pending' = pending \ {m} /\ promise' = [promise EXCEPT ![m] = "rejected"]
            /\ retryQueue' = retryQueue /\ enqueuing' = enqueuing
        BY <1>9, <3>2 DEF OnError, TypeOK
      <4> HIDE DEF m
      <4> QED
        BY <2>1, <3>2, <4>1 DEF m, NoTaskLost, HeldOnce, TypeOK
    <3> QED
      BY <3>1, <3>2
  <2>3. HeldOnce'
    BY <1>9, <2>1 DEF OnError, HeldOnce
  <2> QED
    BY <2>2, <2>3
<1>10. CASE OnExit
  <2>1. Queued' = Queued /\ Nexts' = Nexts /\ Dones' = Dones
    BY <1>10 DEF OnExit, Queued, Nexts, Dones
  <2>2. NoTaskLost'
    BY <1>10, <2>1 DEF OnExit, FailAllPending, SetAll, NoTaskLost, HeldOnce, TypeOK
  <2>3. HeldOnce'
    BY <1>10, <2>1 DEF OnExit, FailAllPending, HeldOnce
  <2> QED
    BY <2>2, <2>3
<1>11. CASE RetryFailedTasks
  <2>1. Queued' = Queued /\ Nexts' = Nexts /\ Dones' = Dones /\ Resendable \subseteq retryQueue
    BY <1>11 DEF RetryFailedTasks, Queued, Nexts, Dones, Resendable
  <2>2. NoTaskLost'
    BY <1>11, <2>1 DEF RetryFailedTasks, SetAll, NoTaskLost, HeldOnce, TypeOK
  <2>3. HeldOnce'
    BY <1>11, <2>1 DEF RetryFailedTasks, HeldOnce
  <2> QED
    BY <2>2, <2>3
<1>12. CASE RestartWorker
  <2>1. Queued' = Queued /\ Nexts' = Nexts /\ Dones' = Dones
    BY <1>12 DEF RestartWorker, Queued, Nexts, Dones
  <2>2. NoTaskLost'
    BY <1>12, <2>1 DEF RestartWorker, SetAll, NoTaskLost, HeldOnce, TypeOK
  <2>3. HeldOnce'
    BY <1>12, <2>1 DEF RestartWorker, HeldOnce
  <2> QED
    BY <2>2, <2>3
<1>13. CASE OnReady \/ RespawnTimer \/ DegradedTimer \/ KillTimer \/ BootDone \/ Crash
            \/ LifetimeRestart
  BY <1>0, <1>13
  DEF OnReady, RespawnTimer, DegradedTimer, KillTimer, BootDone, Crash, LifetimeRestart
<1>14. CASE UNCHANGED vars
  BY <1>0, <1>14 DEF vars
<1> QED
  BY <1>1, <1>2, <1>3, <1>4, <1>5, <1>6, <1>7, <1>8, <1>9, <1>10, <1>11, <1>12, <1>13,
     <1>14 DEF Next

----------------------------------------------------------------------------
(* How often each task is sent                                              *)

\* sendTask either sends nothing or sends its own task, once, as a fresh one.
LEMMA SendTaskSends ==
  ASSUME TypeOK, NEW m \in Msgs, NEW w, NEW p, Sent(m, w, p)
  PROVE  \/ pending' = pending /\ sends' = sends /\ retryCount' = retryCount
         \/ /\ pending' = pending \cup {m} /\ enqueuing' = enqueuing /\ promise' = p
            /\ sends'[m] = sends[m] + 1 /\ retryCount'[m] = 0
            /\ \A n \in Msgs \ {m} : sends'[n] = sends[n] /\ retryCount'[n] = retryCount[n]
BY DEF Sent, SendTask, Refuse, Admit, Deliver, TypeOK

\* A step that sends nothing and moves no task into pendingTasks, the retry queue
\* or the unsent ones.
LEMMA SendsSame ==
  ASSUME TypeOK, SendsCounted, sends' = sends, retryCount' = retryCount,
         pending' \subseteq pending, retryQueue' \subseteq retryQueue, Unsent' \subseteq Unsent
  PROVE  SendsCounted'
BY DEF SendsCounted

\* A step that admits m, a task no worker was given before.
LEMMA AdmitSends ==
  ASSUME TypeOK, NoTaskLost, SendsCounted, NEW m \in Msgs, m \in Unsent, m \notin Unsent',
         m \notin pending, m \notin retryQueue,
         pending' = pending \cup {m}, retryQueue' = retryQueue, Unsent' \subseteq Unsent,
         sends'[m] = sends[m] + 1, retryCount'[m] = 0,
         \A n \in Msgs \ {m} : sends'[n] = sends[n] /\ retryCount'[n] = retryCount[n]
  PROVE  SendsCounted'
<1>1. sends'[m] = 1 /\ MaxRetry + 1 >= 1
  BY ConstantsAssumption DEF SendsCounted, ConstantsAssumption
<1>2. pending \subseteq Msgs /\ retryQueue \subseteq Msgs /\ Unsent \subseteq Msgs
  BY DEF TypeOK, Unsent, NoTaskLost
<1>3. \A n \in pending' : sends'[n] = retryCount'[n] + 1
  BY <1>1, <1>2 DEF SendsCounted
<1>4. \A n \in retryQueue' : sends'[n] = retryCount'[n] /\ retryCount'[n] > 0
  BY <1>2 DEF SendsCounted
<1>5. \A n \in Unsent' : sends'[n] = 0
  BY <1>2 DEF SendsCounted
<1>6. \A n \in Msgs : sends'[n] <= MaxRetry + 1
  BY <1>1 DEF SendsCounted
<1> QED
  BY <1>3, <1>4, <1>5, <1>6 DEF SendsCounted

\* Every step keeps the number of sends of a task bounded by its retry count.
LEMMA SendsNext ==
  ASSUME TypeOK, NoTaskLost, HeldOnce, SendsCounted, [Next]_vars
  PROVE  SendsCounted'
<1> USE DEF mgrVars, taskVars, procVars, envVars
<1>1. ASSUME NEW m \in Msgs, Submit(m) PROVE SendsCounted'
  <2> DEFINE open == [promise EXCEPT ![m] = "open"]
  <2>1. Sent(m, [ws EXCEPT ![m] = IF conn[SessionOf[m]] THEN "open" ELSE "null"], open)
        /\ promise[m] = "none" /\ UNCHANGED <<taskQueue, retryQueue, resuming>>
    BY <1>1 DEF Submit, PoolSendTask, Sent
  <2>2. Queued' = Queued /\ Nexts' = Nexts
    BY <2>1 DEF Queued, Nexts
  <2>3. m \in Unsent /\ m \notin pending \cup retryQueue \cup enqueuing \cup Queued \cup Nexts
    BY <2>1 DEF Unsent, NoTaskLost
  <2>5. /\ \A n \in Msgs : promise'[n] = "none" => n # m /\ promise[n] = "none"
        /\ enqueuing' \subseteq enqueuing \cup {m}
    <3>1. /\ \A n \in Msgs : open[n] = "none" => n # m /\ promise[n] = "none"
          /\ \A n \in Msgs : [open EXCEPT ![m] = "rejected"][n] = "none" => n # m /\ promise[n] = "none"
      BY DEF TypeOK
    <3> HIDE DEF open
    <3> QED
      BY <2>1, <3>1, SendTaskOutcome
  <2>6. Unsent' \subseteq Unsent
    BY <2>2, <2>3, <2>5 DEF Unsent
  <2>7. CASE pending' = pending /\ sends' = sends /\ retryCount' = retryCount
    BY <2>1, <2>6, <2>7, SendsSame
  <2>8. CASE /\ pending' = pending \cup {m} /\ enqueuing' = enqueuing
             /\ sends'[m] = sends[m] + 1 /\ retryCount'[m] = 0
             /\ \A n \in Msgs \ {m} : sends'[n] = sends[n] /\ retryCount'[n] = retryCount[n]
    <3>1. m \notin Unsent'
      BY <2>2, <2>3, <2>5, <2>8 DEF Unsent
    <3> QED
      BY <2>1, <2>3, <2>6, <2>8, <3>1, AdmitSends
  <2> HIDE DEF open
  <2> QED
    BY <2>1, <2>7, <2>8, SendTaskSends
<1>2. ASSUME NEW m \in Msgs, Enqueue(m) PROVE SendsCounted'
  <2>1. m \in enqueuing /\ m \notin Queued
    BY <1>2 DEF Enqueue, HeldOnce
  <2>2. Queued' = Queued \cup {m}
    BY <1>2, <2>1, QueuedAppend DEF Enqueue, HeldOnce, TypeOK
  <2>3. Nexts' = Nexts /\ promise' = promise /\ enqueuing' \subseteq enqueuing
    BY <1>2 DEF Enqueue, Nexts
  <2>4. Unsent' \subseteq Unsent
    BY <2>1, <2>2, <2>3 DEF Unsent
  <2> QED
    BY <1>2, <2>4, SendsSame DEF Enqueue
<1>3. ASSUME NEW m \in Msgs, TaskTimeout(m) PROVE SendsCounted'
  <2>1. Unsent' \subseteq Unsent
    BY <1>3 DEF TaskTimeout, Unsent, Queued, Nexts, TypeOK
  <2> QED
    BY <1>3, <2>1, SendsSame DEF TaskTimeout
<1>4. ASSUME UNCHANGED <<pending, taskQueue, retryQueue, enqueuing, resuming, retryCount, promise, sends>>
      PROVE  SendsCounted'
  <2>1. Unsent' = Unsent
    BY <1>4 DEF Unsent, Queued, Nexts
  <2> QED
    BY <1>4, <2>1, SendsSame
<1>5. ASSUME NEW m \in Msgs, WorkerEvent(m) \/ Recover(m) \/ WorkerRefuse(m) PROVE SendsCounted'
  BY <1>4, <1>5 DEF WorkerEvent, Recover, WorkerRefuse
<1>6. ASSUME NEW m \in Msgs, NEW k \in {"task_complete", "task_error"}, WorkerFinish(m, k)
      PROVE  SendsCounted'
  BY <1>4, <1>6 DEF WorkerFinish
<1>7. ASSUME NEW r \in resuming, Dequeue(r) PROVE SendsCounted'
  <2> DEFINE done == [promise EXCEPT ![r.done] = "resolved"]
  <2>1. Sent(r.next, ws, done) /\ resuming' = resuming \ {r} /\ UNCHANGED <<taskQueue, retryQueue>>
    BY <1>7 DEF Dequeue, Sent
  <2>2. r.next \in Nexts /\ r.done \in Dones /\ r.next \in Msgs /\ r.done \in Msgs
    BY DEF Nexts, Dones, TypeOK
  <2>3. Queued' = Queued /\ Nexts' = Nexts \ {r.next}
    BY <2>1 DEF Queued, Nexts, HeldOnce
  <2>4. /\ r.next \in Unsent /\ r.next \notin pending \cup retryQueue \cup enqueuing \cup Queued
        /\ promise[r.next] = "open"
    BY <2>2 DEF Unsent, HeldOnce, NoTaskLost
  <2>5. /\ \A n \in Msgs : promise'[n] = "none" => n # r.next /\ promise[n] = "none"
        /\ enqueuing' \subseteq enqueuing \cup {r.next}
    <3>1. /\ \A n \in Msgs : done[n] = "none" => n # r.next /\ promise[n] = "none"
          /\ \A n \in Msgs : [done EXCEPT ![r.next] = "rejected"][n] = "none"
                           => n # r.next /\ promise[n] = "none"
      BY <2>2, <2>4 DEF TypeOK
    <3> HIDE DEF done
    <3> QED
      BY <2>1, <3>1, SendTaskOutcome
  <2>6. Unsent' \subseteq Unsent
    BY <2>2, <2>3, <2>5 DEF Unsent
  <2>7. CASE pending' = pending /\ sends' = sends /\ retryCount' = retryCount
    BY <2>1, <2>6, <2>7, SendsSame
  <2>8. CASE /\ pending' = pending \cup {r.next} /\ enqueuing' = enqueuing
             /\ sends'[r.next] = sends[r.next] + 1 /\ retryCount'[r.next] = 0
             /\ \A n \in Msgs \ {r.next} : sends'[n] = sends[n] /\ retryCount'[n] = retryCount[n]
    <3>1. r.next \notin Unsent'
      BY <2>2, <2>3, <2>4, <2>5, <2>8 DEF Unsent
    <3> QED
      BY <2>1, <2>2, <2>4, <2>6, <2>8, <3>1, AdmitSends
  <2> HIDE DEF done
  <2> QED
    BY <2>1, <2>2, <2>7, <2>8, SendTaskSends
<1>8. ASSUME NEW s \in Sessions, Disconnect(s) \/ Reconnect(s) PROVE SendsCounted'
  BY <1>4, <1>8 DEF Disconnect, Reconnect
<1>9. CASE OnComplete
  <2>1. /\ sends' = sends /\ retryCount' = retryCount /\ retryQueue' = retryQueue
        /\ enqueuing' = enqueuing /\ pending' \subseteq pending
        /\ \A n \in Msgs : promise'[n] = "none" => promise[n] = "none"
    BY <1>9 DEF OnComplete, LateResult, TypeOK
  <2>2. CASE taskQueue' = taskQueue /\ resuming' = resuming
    <3>1. Unsent' \subseteq Unsent
      BY <2>1, <2>2 DEF Unsent, Queued, Nexts
    <3> QED
      BY <2>1, <3>1, SendsSame
  <2>3. CASE /\ taskQueue # <<>> /\ taskQueue' = Tail(taskQueue)
             /\ resuming' = resuming \cup {[done |-> Head(up).msg, next |-> Head(taskQueue)]}
    <3>1. Head(taskQueue) \in Queued /\ Queued' \subseteq Queued
      BY <2>3, QueuedTail DEF HeldOnce, TypeOK
    <3>2. Nexts' = Nexts \cup {Head(taskQueue)}
      <4> DEFINE r == [done |-> Head(up).msg, next |-> Head(taskQueue)]
      <4>1. r.next = Head(taskQueue) /\ resuming' = resuming \cup {r}
        BY <2>3
      <4> HIDE DEF r
      <4> QED
        BY <4>1 DEF Nexts
    <3>3. Unsent' \subseteq Unsent
      BY <2>1, <3>1, <3>2 DEF Unsent
    <3> QED
      BY <2>1, <3>3, SendsSame
  <2> QED
    BY <1>9, <2>2, <2>3 DEF OnComplete, Shift
<1>10. CASE OnError
  <2>1. \A n \in Msgs : promise'[n] = "none" => promise[n] = "none"
    BY <1>10 DEF OnError, TypeOK
  <2>2. Unsent' \subseteq Unsent
    BY <1>10, <2>1 DEF OnError, Unsent, Queued, Nexts
  <2> QED
    BY <1>10, <2>2, SendsSame DEF OnError
<1>11. CASE OnExit
  <2>1. Unsent' \subseteq Unsent
    BY <1>11 DEF OnExit, FailAllPending, SetAll, Unsent, Queued, Nexts, TypeOK
  <2>2. /\ sends' = sends /\ pending' = {}
        /\ \A m \in Msgs : retryCount'[m] = IF m \in pending /\ MayRetry(m)
                                            THEN retryCount[m] + 1 ELSE retryCount[m]
        /\ retryQueue' = retryQueue \cup {m \in pending : MayRetry(m)}
    BY <1>11 DEF OnExit, FailAllPending, TypeOK
  <2>3. \A m \in retryQueue : m \notin pending /\ m \in Msgs
    BY DEF HeldOnce, TypeOK
  <2>4. \A m \in pending : m \in Msgs /\ retryCount[m] \in Nat
    BY DEF TypeOK
  <2>5. \A m \in retryQueue' : sends'[m] = retryCount'[m] /\ retryCount'[m] > 0
    BY <2>2, <2>3, <2>4 DEF SendsCounted
  <2> QED
    BY <2>1, <2>2, <2>5 DEF SendsCounted
<1>12. CASE RetryFailedTasks
  <2>1. Resendable \subseteq retryQueue /\ retryQueue \subseteq Msgs
    BY DEF Resendable, TypeOK
  <2>2. Unsent' \subseteq Unsent
    BY <1>12 DEF RetryFailedTasks, SetAll, Unsent, Queued, Nexts, TypeOK
  <2>3. /\ pending' = pending \cup Resendable /\ retryQueue' = {} /\ retryCount' = retryCount
        /\ \A m \in Msgs : sends'[m] = IF m \in Resendable THEN sends[m] + 1 ELSE sends[m]
    BY <1>12 DEF RetryFailedTasks, Deliver
  <2>4. \A m \in Resendable : m \notin pending /\ m \notin Unsent /\ m \in Msgs
                             /\ retryCount[m] \in 0..MaxRetry
    BY <2>1 DEF HeldOnce, NoTaskLost, Unsent, TypeOK
  <2>5. \A m \in Resendable : sends'[m] = retryCount[m] + 1 /\ sends'[m] <= MaxRetry + 1
    BY <2>1, <2>3, <2>4, ConstantsAssumption DEF SendsCounted, ConstantsAssumption
  <2>6. \A m \in Msgs \ Resendable : sends'[m] = sends[m]
    BY <2>3
  <2>7. pending \subseteq Msgs /\ Unsent \subseteq Msgs
    BY DEF TypeOK, Unsent, NoTaskLost
  <2> QED
    BY <2>2, <2>3, <2>4, <2>5, <2>6, <2>7 DEF SendsCounted
<1>13. CASE RestartWorker
  <2>1. Unsent' \subseteq Unsent
    BY <1>13 DEF RestartWorker, SetAll, Unsent, Queued, Nexts, TypeOK
  <2> QED
    BY <1>13, <2>1, SendsSame DEF RestartWorker
<1>14. CASE OnReady \/ RespawnTimer \/ DegradedTimer \/ KillTimer \/ BootDone \/ Crash
            \/ LifetimeRestart
  BY <1>4, <1>14
  DEF OnReady, RespawnTimer, DegradedTimer, KillTimer, BootDone, Crash, LifetimeRestart
<1>15. CASE UNCHANGED vars
  BY <1>4, <1>15 DEF vars
<1> QED
  BY <1>1, <1>2, <1>3, <1>5, <1>6, <1>7, <1>8, <1>9, <1>10, <1>11, <1>12, <1>13,
     <1>14, <1>15 DEF Next

----------------------------------------------------------------------------
(* Who works on a pending task                                              *)

\* Reading a message loses the answers of no other task.
LEMMA AnswersTail ==
  ASSUME up \in Seq(Uplinks), up # <<>>, up' = Tail(up), NEW m, Answers(m) # {},
         Head(up).type = "worker_ready" \/ Head(up).msg # m
  PROVE  Answers(m)' # {}
<1>1. /\ Len(up') = Len(up) - 1 /\ Len(up) \in Nat /\ Head(up) = up[1]
      /\ \A i \in 1..Len(up') : up'[i] = up[i + 1]
  BY HeadTailProperties, LenProperties
<1>2. PICK i \in 1..Len(up) : up[i].type # "worker_ready" /\ up[i].msg = m
  BY DEF Answers
<1>3. i # 1 /\ i - 1 \in 1..Len(up') /\ up'[i - 1] = up[i]
  BY <1>1, <1>2
<1> QED
  BY <1>2, <1>3 DEF Answers

\* Sending one loses none, and adds the answer it carries.
LEMMA AnswersAppend ==
  ASSUME up \in Seq(Uplinks), NEW u \in Uplinks, up' = Append(up, u)
  PROVE  /\ \A m : Answers(m) # {} => Answers(m)' # {}
         /\ u.type # "worker_ready" => Answers(u.msg)' # {}
<1>1. /\ Len(up') = Len(up) + 1 /\ Len(up) \in Nat /\ up'[Len(up) + 1] = u
      /\ \A i \in 1..Len(up) : up'[i] = up[i]
  BY AppendProperties, LenProperties
<1>2. \A i \in 1..Len(up) : i \in 1..Len(up')
  BY <1>1
<1>3. Len(up) + 1 \in 1..Len(up')
  BY <1>1
<1> QED
  BY <1>1, <1>2, <1>3 DEF Answers

\* Whatever is delivered while the worker is ready has an executor.
LEMMA DeliverExecutes ==
  ASSUME OneRespawn, TypeOK, ready, NEW S, Deliver(S), UNCHANGED <<proc, up>>
  PROVE  /\ \A m \in S : m \in running' \cup refused' \/ proc' = "dead"
         /\ running \subseteq running' /\ refused \subseteq refused'
BY DEF OneRespawn, TypeOK, Deliver

\* A step that takes nothing from the worker and adds nothing to pendingTasks.
LEMMA ExecSame ==
  ASSUME ExecutorOfPending, pending' \subseteq pending, running \subseteq running',
         refused \subseteq refused', UNCHANGED <<up, proc>>
  PROVE  ExecutorOfPending'
BY DEF ExecutorOfPending, Answers

\* A run of sendTask leaves every pending task with an executor.
LEMMA SendTaskExec ==
  ASSUME TypeOK, OneRespawn, ExecutorOfPending, NEW m, NEW w, NEW p, Sent(m, w, p),
         UNCHANGED <<proc, draining, up>>
  PROVE  ExecutorOfPending'
<1>1. CASE pending' = pending /\ running' = running /\ refused' = refused
  BY <1>1, ExecSame
<1>2. CASE ready /\ pending' = pending \cup {m} /\ Deliver({m})
  BY <1>2, DeliverExecutes DEF ExecutorOfPending, Answers
<1> QED
  BY <1>1, <1>2 DEF Sent, SendTask, Refuse, Admit, Unavailable

\* So does every step, a crash, a kill and a lifetime restart included.
LEMMA ExecNext ==
  ASSUME TypeOK, ProcShape, OneRespawn, ExecutorOfPending, [Next]_vars
  PROVE  ExecutorOfPending'
<1> USE DEF mgrVars, taskVars, procVars, envVars
<1>1. ASSUME NEW m \in Msgs, Submit(m) PROVE ExecutorOfPending'
  BY <1>1, SendTaskExec DEF Submit, PoolSendTask, Sent
<1>2. ASSUME NEW m \in Msgs, Enqueue(m) \/ TaskTimeout(m) \/ WorkerEvent(m) \/ Recover(m)
      PROVE  ExecutorOfPending'
  BY <1>2, ExecSame DEF Enqueue, TaskTimeout, WorkerEvent, Recover
<1>3. ASSUME NEW m \in Msgs, WorkerRefuse(m) PROVE ExecutorOfPending'
  <2> DEFINE u == [type |-> "task_error", msg |-> m]
  <2>1. u \in Uplinks /\ u.type # "worker_ready" /\ u.msg = m
    BY DEF Uplinks
  <2>2. up' = Append(up, u) /\ refused' = refused \ {m} /\ UNCHANGED <<running, pending, proc>>
    BY <1>3 DEF WorkerRefuse
  <2> HIDE DEF u
  <2>3. \A n : Answers(n) # {} \/ n = m => Answers(n)' # {}
    BY <2>1, <2>2, AnswersAppend DEF TypeOK
  <2> QED
    BY <2>2, <2>3 DEF ExecutorOfPending
<1>4. ASSUME NEW m \in Msgs, NEW k \in {"task_complete", "task_error"}, WorkerFinish(m, k)
      PROVE  ExecutorOfPending'
  <2> DEFINE u == [type |-> k, msg |-> m]
  <2>1. u \in Uplinks /\ u.type # "worker_ready" /\ u.msg = m
    BY DEF Uplinks
  <2>2. /\ up' = Append(up, u) /\ pending' = pending
        /\ proc' = "dead" \/ (running' = running \ {m} /\ refused' = refused /\ proc' = proc)
    BY <1>4 DEF WorkerFinish, Die
  <2> HIDE DEF u
  <2>3. \A n : Answers(n) # {} \/ n = m => Answers(n)' # {}
    BY <2>1, <2>2, AnswersAppend DEF TypeOK
  <2> QED
    BY <2>2, <2>3 DEF ExecutorOfPending
<1>5. ASSUME NEW r \in resuming, Dequeue(r) PROVE ExecutorOfPending'
  BY <1>5, SendTaskExec DEF Dequeue, Sent
<1>6. ASSUME NEW s \in Sessions, Disconnect(s) \/ Reconnect(s) PROVE ExecutorOfPending'
  BY <1>6, ExecSame DEF Disconnect, Reconnect
<1>7. CASE OnReady
  <2>1. \A m : Answers(m) # {} => Answers(m)' # {}
    BY <1>7, AnswersTail DEF OnReady, Receive, TypeOK
  <2> QED
    BY <1>7, <2>1 DEF OnReady, ExecutorOfPending
<1>8. CASE OnComplete \/ OnError
  <2>1. up # <<>> /\ up' = Tail(up) /\ UNCHANGED <<running, refused, proc>>
        /\ Head(up).msg \notin pending' /\ pending' \subseteq pending
    BY <1>8 DEF OnComplete, OnError, Receive
  <2>2. \A m \in pending' : Answers(m) # {} => Answers(m)' # {}
    BY <2>1, AnswersTail DEF TypeOK
  <2> QED
    BY <2>1, <2>2 DEF ExecutorOfPending
<1>9. CASE OnExit
  BY <1>9 DEF OnExit, FailAllPending, ExecutorOfPending
<1>10. CASE RetryFailedTasks
  <2>1. CASE Resendable = {}
    BY <1>10, <2>1, ExecSame DEF RetryFailedTasks, Deliver
  <2>2. CASE ready
    BY <1>10, <2>2, DeliverExecutes DEF RetryFailedTasks, ExecutorOfPending, Answers
  <2> QED
    BY <2>1, <2>2 DEF Resendable
<1>11. CASE RespawnTimer \/ DegradedTimer
  <2>1. proc = "gone"
    BY <1>11 DEF RespawnTimer, DegradedTimer, OneRespawn
  <2>2. pending = {}
    BY <2>1, EmptySeq DEF ProcShape, ExecutorOfPending, Answers
  <2> QED
    BY <1>11, <2>2 DEF RespawnTimer, DegradedTimer, ExecutorOfPending
<1>12. CASE KillTimer
  BY <1>12 DEF KillTimer, Die, ExecutorOfPending, Answers
<1>13. CASE BootDone
  <2>1. [type |-> "worker_ready"] \in Uplinks
    BY DEF Uplinks
  <2>2. \A n : Answers(n) # {} => Answers(n)' # {}
    BY <1>13, <2>1, AnswersAppend DEF BootDone, TypeOK
  <2> QED
    BY <1>13, <2>2 DEF BootDone, ExecutorOfPending
<1>14. CASE Crash \/ LifetimeRestart
  BY <1>14 DEF Crash, LifetimeRestart, Die, ExecutorOfPending
<1>15. CASE RestartWorker
  BY <1>15 DEF RestartWorker, ExecutorOfPending
<1>16. CASE UNCHANGED vars
  BY <1>16, ExecSame DEF vars
<1> QED
  BY <1>1, <1>2, <1>3, <1>4, <1>5, <1>6, <1>7, <1>8, <1>9, <1>10, <1>11, <1>12, <1>13,
     <1>14, <1>15, <1>16 DEF Next

----------------------------------------------------------------------------
(* One execution of a task at a time                                        *)

\* What OneExecution says of one task.
Sole(m) ==
  /\ m \notin running \cap refused
  /\ m \in running \cup refused => Answers(m) = {}
  /\ \A i, j \in Answers(m) : i = j
  /\ sends[m] = 0 \/ m \in retryQueue => ~InWorker(m)

\* The step adds nothing to what the worker has of m, or has to say of it.
NoMore(m) ==
  /\ m \in running' => m \in running
  /\ m \in refused' => m \in refused
  /\ \E d \in {0, 1} : \A i \in Answers(m)' : i \in Int /\ i + d \in Answers(m)

\* Reading a message adds no answer: each one left was one place further back.
LEMMA AnswersShift ==
  ASSUME up \in Seq(Uplinks), up # <<>>, up' = Tail(up), NEW m
  PROVE  \A i \in Answers(m)' : i \in Int /\ i + 1 \in Answers(m)
<1>1. /\ Len(up') = Len(up) - 1 /\ Len(up) \in Nat
      /\ \A i \in 1..Len(up') : up'[i] = up[i + 1]
  BY HeadTailProperties, LenProperties
<1> QED
  BY <1>1 DEF Answers

\* Sending a message adds an answer to its own task only.
LEMMA AnswersGrow ==
  ASSUME up \in Seq(Uplinks), NEW u \in Uplinks, up' = Append(up, u), NEW m
  PROVE  Answers(m)' = IF u.type # "worker_ready" /\ u.msg = m THEN Answers(m) \cup {Len(up) + 1}
                                                               ELSE Answers(m)
<1>1. /\ Len(up') = Len(up) + 1 /\ Len(up) \in Nat /\ up'[Len(up) + 1] = u
      /\ \A i \in 1..Len(up) : up'[i] = up[i]
  BY AppendProperties, LenProperties
<1>2. 1..Len(up') = 1..Len(up) \cup {Len(up) + 1} /\ Len(up) + 1 \notin 1..Len(up)
  BY <1>1
<1> QED
  BY <1>1, <1>2 DEF Answers

\* A task of which the worker has no more than before stays at one execution, if the
\* step makes it neither unsent nor one to be retried.
LEMMA SoleKept ==
  ASSUME NEW m \in Msgs, Sole(m), NoMore(m),
         sends'[m] = 0 \/ m \in retryQueue' => sends[m] = 0 \/ m \in retryQueue
  PROVE  Sole(m)'
<1>1. InWorker(m)' => InWorker(m)
  BY DEF InWorker, NoMore
<1>2. m \in running' \cup refused' => Answers(m)' = {}
  BY DEF Sole, NoMore
<1>3. \A i, j \in Answers(m)' : i = j
  BY DEF Sole, NoMore
<1> QED
  BY <1>1, <1>2, <1>3 DEF Sole, NoMore

\* What is delivered is a task the worker has nothing of.
LEMMA DeliverSole ==
  ASSUME TypeOK, NEW m \in Msgs, Sole(m), NEW S, Deliver(S), up' = up,
         m \in S => (sends[m] = 0 \/ m \in retryQueue) /\ m \notin retryQueue',
         m \in retryQueue' => m \in retryQueue
  PROVE  Sole(m)'
<1>0. Answers(m)' = Answers(m) /\ Answers(m) \subseteq Int
  BY DEF Answers
<1>1. CASE m \notin S
  <2>1. NoMore(m) /\ sends'[m] = sends[m]
    BY <1>0, <1>1 DEF NoMore, Deliver
  <2> QED
    BY <2>1, SoleKept
<1>2. CASE m \in S
  <2>1. ~InWorker(m) /\ sends'[m] = sends[m] + 1 /\ sends[m] \in Nat
    BY <1>2 DEF Sole, Deliver, TypeOK
  <2>2. m \notin running' \cap refused'
    BY <2>1 DEF InWorker, Deliver
  <2> QED
    BY <1>0, <1>2, <2>1, <2>2 DEF Sole, InWorker
<1> QED
  BY <1>1, <1>2

\* A run of sendTask for a task no worker was given yet.
LEMMA SendTaskSole ==
  ASSUME TypeOK, NEW m, NEW w, NEW p, Sent(m, w, p), UNCHANGED <<up, retryQueue>>,
         m \in Unsent, m \notin retryQueue, SendsCounted, NEW n \in Msgs, Sole(n)
  PROVE  Sole(n)'
<1>1. CASE UNCHANGED <<sends, running, refused>>
  BY <1>1 DEF Sole, InWorker, Answers
<1>2. CASE Deliver({m})
  BY <1>2, DeliverSole DEF SendsCounted
<1> QED
  BY <1>1, <1>2 DEF Sent, SendTask, Refuse, Admit

\* A worker that answers m is done with m: whatever it does next, it has m no more.
LEMMA AnswerSole ==
  ASSUME TypeOK, NEW m \in Msgs, NEW k \in {"task_complete", "task_error"}, NEW n \in Msgs, Sole(n),
         Sole(m), InWorker(m), Answers(m) = {}, up' = Append(up, [type |-> k, msg |-> m]),
         running' \subseteq running, refused' \subseteq refused, m \notin running' \cup refused',
         UNCHANGED <<sends, retryQueue>>
  PROVE  Sole(n)'
<1> DEFINE u == [type |-> k, msg |-> m]
<1>1. u \in Uplinks /\ u.type # "worker_ready" /\ u.msg = m /\ up' = Append(up, u)
  BY DEF Uplinks
<1> HIDE DEF u
<1>2. CASE n # m
  <2>1. Answers(n)' = Answers(n) /\ Answers(n) \subseteq Int
    <3>1. Answers(n)' = Answers(n)
      BY <1>1, <1>2, AnswersGrow DEF TypeOK
    <3> QED
      BY <3>1 DEF Answers
  <2> QED
    BY <2>1, SoleKept DEF NoMore
<1>3. CASE n = m
  <2>1. Answers(m)' = {Len(up) + 1}
    BY <1>1, AnswersGrow DEF TypeOK
  <2>2. ~(sends[m] = 0 \/ m \in retryQueue)
    BY DEF Sole
  <2> QED
    BY <1>3, <2>1, <2>2 DEF Sole
<1> QED
  BY <1>2, <1>3

\* Every step keeps every task at one execution.
LEMMA SoleNext ==
  ASSUME TypeOK, ProcShape, OneRespawn, NoTaskLost, HeldOnce, SendsCounted, OneExecution, [Next]_vars
  PROVE  OneExecution'
<1> SUFFICES ASSUME NEW n \in Msgs PROVE Sole(n)'
  BY DEF OneExecution, Sole
<1> USE DEF mgrVars, taskVars, procVars, envVars
<1>0. \A m \in Msgs : Sole(m)
  BY DEF OneExecution, Sole
<1>a. ASSUME up' = up, running' \subseteq running, refused' \subseteq refused,
             UNCHANGED <<sends, retryQueue>>
      PROVE  Sole(n)'
  BY <1>0, <1>a, SoleKept DEF NoMore, Answers
<1>b. ASSUME running' = {}, refused' = {}, up' = <<>> PROVE Sole(n)'
  BY <1>b, EmptySeq DEF Sole, InWorker, Answers
<1>1. ASSUME NEW m \in Msgs, Submit(m) PROVE Sole(n)'
  <2>1. m \in Unsent /\ m \notin retryQueue
    BY <1>1 DEF Submit, Unsent, NoTaskLost
  <2> QED
    BY <1>0, <1>1, <2>1, SendTaskSole DEF Submit, PoolSendTask, Sent
<1>2. ASSUME NEW m \in Msgs, Enqueue(m) \/ TaskTimeout(m) \/ WorkerEvent(m) \/ Recover(m)
      PROVE  Sole(n)'
  BY <1>a, <1>2 DEF Enqueue, TaskTimeout, WorkerEvent, Recover
<1>3. ASSUME NEW m \in Msgs, WorkerRefuse(m) PROVE Sole(n)'
  <2>1. InWorker(m) /\ Answers(m) = {} /\ m \notin running
    BY <1>0, <1>3 DEF WorkerRefuse, Sole, InWorker
  <2> QED
    BY <1>0, <1>3, <2>1, AnswerSole DEF WorkerRefuse
<1>4. ASSUME NEW m \in Msgs, NEW k \in {"task_complete", "task_error"}, WorkerFinish(m, k)
      PROVE  Sole(n)'
  <2>1. InWorker(m) /\ Answers(m) = {} /\ m \notin refused
    BY <1>0, <1>4 DEF WorkerFinish, Sole, InWorker
  <2>2. running' \subseteq running /\ refused' \subseteq refused /\ m \notin running' \cup refused'
    BY <1>4, <2>1 DEF WorkerFinish, Die
  <2> QED
    BY <1>0, <1>4, <2>1, <2>2, AnswerSole DEF WorkerFinish
<1>5. ASSUME NEW r \in resuming, Dequeue(r) PROVE Sole(n)'
  <2>1. r.next \in Unsent /\ r.next \notin retryQueue
    BY DEF Unsent, Nexts, HeldOnce
  <2> QED
    BY <1>0, <1>5, <2>1, SendTaskSole DEF Dequeue, Sent
<1>6. ASSUME NEW s \in Sessions, Disconnect(s) \/ Reconnect(s) PROVE Sole(n)'
  BY <1>a, <1>6 DEF Disconnect, Reconnect
<1>7. CASE OnReady \/ OnComplete \/ OnError
  <2>1. up # <<>> /\ up' = Tail(up) /\ UNCHANGED <<running, refused, sends, retryQueue>>
    BY <1>7 DEF OnReady, OnComplete, OnError, Receive
  <2>2. \A i \in Answers(n)' : i \in Int /\ i + 1 \in Answers(n)
    BY <2>1, AnswersShift DEF TypeOK
  <2>3. NoMore(n)
    BY <2>1, <2>2 DEF NoMore
  <2> QED
    BY <1>0, <2>1, <2>3, SoleKept
<1>8. CASE OnExit
  BY <1>b, <1>8 DEF OnExit, ProcShape
<1>9. CASE RetryFailedTasks
  <2>1. Resendable \subseteq retryQueue /\ retryQueue' = {} /\ Deliver(Resendable) /\ up' = up
    BY <1>9 DEF RetryFailedTasks, Resendable
  <2> QED
    BY <1>0, <2>1, DeliverSole
<1>10. CASE RespawnTimer \/ DegradedTimer
  BY <1>b, <1>10 DEF RespawnTimer, DegradedTimer, Spawn
<1>11. CASE BootDone
  <2>1. up = <<>> /\ running = {} /\ refused = {} /\ up' = Append(up, [type |-> "worker_ready"])
        /\ UNCHANGED <<running, refused, sends, retryQueue>>
    BY <1>11 DEF BootDone, ProcShape
  <2>2. Answers(n)' = {}
    <3> DEFINE u == [type |-> "worker_ready"]
    <3>1. u \in Uplinks /\ u.type = "worker_ready" /\ up' = Append(up, u)
      BY <2>1 DEF Uplinks
    <3>2. Answers(n) = {}
      BY <2>1, EmptySeq DEF Answers
    <3> HIDE DEF u
    <3> QED
      BY <3>1, <3>2, AnswersGrow DEF TypeOK
  <2> QED
    BY <2>1, <2>2 DEF Sole, InWorker
<1>12. CASE KillTimer \/ Crash \/ LifetimeRestart \/ RestartWorker
  BY <1>a, <1>12 DEF KillTimer, Crash, LifetimeRestart, RestartWorker, Die
<1>13. CASE UNCHANGED vars
  BY <1>a, <1>13 DEF vars
<1> QED
  BY <1>1, <1>2, <1>3, <1>4, <1>5, <1>6, <1>7, <1>8, <1>9, <1>10, <1>11, <1>12, <1>13 DEF Next

----------------------------------------------------------------------------
(* The cap                                                                  *)

Fresh == {m \in pending : retryCount[m] = 0}

\* A step that makes no task fresh.
LEMMA CapSame ==
  ASSUME TypeOK, FreshWithinCap, Fresh' \subseteq Fresh
  PROVE  FreshWithinCap'
<1>1. IsFiniteSet(Fresh)
  BY FiniteMsgs, FS_Subset DEF TypeOK, Fresh, FiniteMsgs
<1>2. Cardinality(Fresh') <= Cardinality(Fresh) /\ Cardinality(Fresh) \in Nat
      /\ Cardinality(Fresh') \in Nat
  BY <1>1, FS_Subset, FS_CardinalityType
<1>3. Cardinality(Fresh) <= MaxConcurrent
  BY DEF FreshWithinCap, Fresh
<1> QED
  BY <1>2, <1>3, ConstantsAssumption DEF FreshWithinCap, Fresh, ConstantsAssumption

\* A run of sendTask adds a fresh task below the cap only.
LEMMA SendTaskCap ==
  ASSUME TypeOK, FreshWithinCap, NEW m \in Msgs, NEW w, NEW p, Sent(m, w, p)
  PROVE  FreshWithinCap'
<1>1. CASE pending' = pending /\ retryCount' = retryCount
  BY <1>1, CapSame DEF Fresh
<1>2. CASE ~AtCap /\ pending' = pending \cup {m}
  <2>1. IsFiniteSet(pending)
    BY FiniteMsgs, FS_Subset DEF TypeOK, FiniteMsgs
  <2>2. Cardinality(pending) \in Nat /\ Cardinality(pending) < MaxConcurrent
    BY <1>2, <2>1, FS_CardinalityType, ConstantsAssumption DEF AtCap, ConstantsAssumption
  <2>3. IsFiniteSet(pending \cup {m}) /\ Cardinality(pending \cup {m}) <= Cardinality(pending) + 1
    <3>1. /\ IsFiniteSet(pending \cup {m})
          /\ Cardinality(pending \cup {m})
               = IF m \in pending THEN Cardinality(pending) ELSE Cardinality(pending) + 1
      BY <2>1, FS_AddElement, Zenon
    <3> QED
      BY <2>2, <3>1
  <2>4. Fresh' \subseteq pending \cup {m}
    BY <1>2 DEF Fresh
  <2>5. Cardinality(Fresh') <= Cardinality(pending \cup {m})
        /\ Cardinality(Fresh') \in Nat /\ Cardinality(pending \cup {m}) \in Nat
    BY <2>3, <2>4, FS_Subset, FS_CardinalityType
  <2> QED
    BY <2>2, <2>3, <2>5, ConstantsAssumption DEF FreshWithinCap, Fresh, ConstantsAssumption
<1> QED
  BY <1>1, <1>2 DEF Sent, SendTask, Refuse, Admit

\* No step lets the fresh tasks exceed the cap.
LEMMA CapNext ==
  ASSUME TypeOK, HeldOnce, SendsCounted, FreshWithinCap, [Next]_vars
  PROVE  FreshWithinCap'
<1> USE DEF mgrVars, taskVars, procVars, envVars
<1>1. ASSUME pending' \subseteq pending, retryCount' = retryCount PROVE FreshWithinCap'
  BY <1>1, CapSame DEF Fresh
<1>2. ASSUME NEW m \in Msgs, Submit(m) PROVE FreshWithinCap'
  BY <1>2, SendTaskCap DEF Submit, PoolSendTask, Sent
<1>3. ASSUME NEW r \in resuming, Dequeue(r) PROVE FreshWithinCap'
  BY <1>3, SendTaskCap DEF Dequeue, Sent, TypeOK
<1>4. CASE OnExit
  <2>1. pending' = {}
    BY <1>4 DEF OnExit, FailAllPending
  <2> QED
    BY <2>1, CapSame DEF Fresh
<1>5. CASE RetryFailedTasks
  <2>1. pending' = pending \cup Resendable /\ retryCount' = retryCount /\ Resendable \subseteq retryQueue
    BY <1>5 DEF RetryFailedTasks, Resendable
  <2>2. \A m \in Resendable : retryCount[m] # 0
    BY <2>1 DEF SendsCounted, TypeOK
  <2> QED
    BY <2>1, <2>2, CapSame DEF Fresh
<1>6. ASSUME NEW m \in Msgs, Enqueue(m) \/ TaskTimeout(m) \/ WorkerEvent(m) \/ Recover(m)
                              \/ WorkerRefuse(m)
      PROVE  FreshWithinCap'
  BY <1>1, <1>6 DEF Enqueue, TaskTimeout, WorkerEvent, Recover, WorkerRefuse
<1>7. ASSUME NEW m \in Msgs, NEW k \in {"task_complete", "task_error"}, WorkerFinish(m, k)
      PROVE  FreshWithinCap'
  BY <1>1, <1>7 DEF WorkerFinish
<1>8. ASSUME NEW s \in Sessions, Disconnect(s) \/ Reconnect(s) PROVE FreshWithinCap'
  BY <1>1, <1>8 DEF Disconnect, Reconnect
<1>9. CASE OnComplete \/ OnError \/ RestartWorker
  BY <1>1, <1>9 DEF OnComplete, OnError, RestartWorker
<1>10. CASE OnReady \/ RespawnTimer \/ DegradedTimer \/ KillTimer \/ BootDone \/ Crash
            \/ LifetimeRestart
  BY <1>1, <1>10
  DEF OnReady, RespawnTimer, DegradedTimer, KillTimer, BootDone, Crash, LifetimeRestart
<1>11. CASE UNCHANGED vars
  BY <1>1, <1>11 DEF vars
<1> QED
  BY <1>2, <1>3, <1>4, <1>5, <1>6, <1>7, <1>8, <1>9, <1>10, <1>11 DEF Next

----------------------------------------------------------------------------
(* The inductive invariant and what follows from it                         *)

\* The inductive invariant holds initially ...
LEMMA InvInit == Init => IInv
<1> SUFFICES ASSUME Init PROVE IInv
  OBVIOUS
<1>1. TypeOK
  BY TypeInit
<1>2. Queued = {} /\ Nexts = {} /\ Dones = {}
  BY EmptySeq DEF Init, Queued, Nexts, Dones
<1>3. ProcShape /\ OneWorker /\ PendingHasExecutor
  BY EmptySeq
  DEF Init, ProcShape, OneWorker, OneRespawn, ReportsOnce, ReadyMessages,
      PendingHasExecutor, ExecutorOfPending
<1>4. NoTaskLost /\ HeldOnce
  BY <1>2, EmptySeq DEF Init, NoTaskLost, HeldOnce
<1>5. SendsCounted
  BY <1>2, ConstantsAssumption DEF Init, SendsCounted, Unsent, ConstantsAssumption
<1>6. FreshWithinCap
  <2>1. {m \in pending : retryCount[m] = 0} = {}
    BY DEF Init
  <2> QED
    BY <2>1, FS_EmptySet, ConstantsAssumption DEF FreshWithinCap, ConstantsAssumption
<1>7. OneExecution
  BY EmptySeq DEF Init, OneExecution, InWorker, Answers
<1> QED
  BY <1>1, <1>3, <1>4, <1>5, <1>6, <1>7 DEF IInv

\* ... and every step keeps it: the parts above, together.
LEMMA InvNext == IInv /\ [Next]_vars => IInv'
<1> SUFFICES ASSUME IInv, [Next]_vars PROVE IInv'
  OBVIOUS
<1> USE DEF IInv
<1>1. OneRespawn /\ ReportsOnce /\ DrainEnds /\ ExecutorOfPending /\ RetryComes
  BY DEF OneWorker, PendingHasExecutor, DrainEnds, RetryComes
<1>2. TypeOK' /\ ProcShape' /\ OneRespawn'
  BY <1>1, TypeNext, ProcNext
<1>3. ReportsOnce' /\ DrainEnds' /\ RetryComes'
  BY <1>1, ReportsNext, TimersNext
<1>4. ExecutorOfPending' /\ OneExecution'
  BY <1>1, ExecNext, SoleNext
<1>5. NoTaskLost' /\ HeldOnce' /\ SendsCounted' /\ FreshWithinCap'
  BY LocNext, SendsNext, CapNext
<1>6. OneWorker' /\ PendingHasExecutor'
  BY <1>2, <1>3, <1>4 DEF OneWorker, PendingHasExecutor, DrainEnds, RetryComes
<1> QED
  BY <1>2, <1>4, <1>5, <1>6

\* The inductive invariant holds in every reachable state; the theorems below project it.
THEOREM Invariant == Spec => []IInv
<1>1. Init => IInv
  BY InvInit
<1>2. IInv /\ [Next]_vars => IInv'
  BY InvNext
<1> QED
  BY <1>1, <1>2, PTL DEF Spec

\* No task's promise is ever dropped, and no task is held in two places: of
\* pendingTasks, the retry queue, taskQueue and the suspended handlers, exactly
\* one holds each unsettled task.
THEOREM TaskAccounting == Spec => [](NoTaskLost /\ HeldOnce)
<1>1. IInv => NoTaskLost /\ HeldOnce
  BY DEF IInv
<1> QED
  BY <1>1, Invariant, PTL

\* No task is in two of the manager's collections at once, so that no answer and
\* no exit can settle it twice.
THEOREM HeldOnceAlways == Spec => []HeldOnce
<1>1. IInv => HeldOnce
  BY DEF IInv
<1> QED
  BY <1>1, Invariant, PTL

\* Crashes, restarts and requeues together give a task to at most MaxRetry + 1 workers, and
\* none has it twice: it is worked on once, or refused, or its one answer is under way.
THEOREM BoundedExecutions == Spec => []ExecutionsBounded
<1>1. IInv => ExecutionsBounded
  BY DEF IInv, SendsCounted, ExecutionsBounded
<1> QED
  BY <1>1, Invariant, PTL

\* A worker process is running or reported dead, or exactly one timer will bring one; one
\* that is up is believed ready or has reported; one that drains has a SIGKILL to come.
THEOREM OneWorkerAlways == Spec => []OneWorker
<1>1. IInv => OneWorker
  BY DEF IInv
<1> QED
  BY <1>1, Invariant, PTL

\* Every pending task is in the worker, or answered, or about to be failed by an exit event,
\* and the tasks to be retried have a timer that will take them out.
THEOREM ExecutorAlways == Spec => []PendingHasExecutor
<1>1. IInv => PendingHasExecutor
  BY DEF IInv
<1> QED
  BY <1>1, Invariant, PTL

\* The cap test holds back every task that is not a retry.
THEOREM CapForFreshTasks == Spec => []FreshWithinCap
<1>1. IInv => FreshWithinCap
  BY DEF IInv
<1> QED
  BY <1>1, Invariant, PTL

----------------------------------------------------------------------------
(* The manager implements TaskLifecycle                                     *)

Waiting == enqueuing \cup Queued \cup Nexts

\* Under the invariant the cases of Phase exclude one another, so each phase says
\* where the task is, in the state before the step ...
LEMMA PhaseMeans ==
  ASSUME TypeOK, NoTaskLost, HeldOnce, NEW t \in Msgs
  PROVE  /\ Phase[t] = "running" <=> t \in pending
         /\ Phase[t] = "retrying" <=> t \in retryQueue
         /\ Phase[t] = "waiting" <=> t \in Waiting
         /\ Phase[t] = "answered" <=> t \in Dones
         /\ Phase[t] = "resolved" <=> promise[t] = "resolved"
         /\ Phase[t] = "rejected" <=> promise[t] = "rejected"
         /\ Phase[t] = "unsent" <=> promise[t] = "none"
<1>1. promise[t] = "open" <=> t \in pending \cup retryQueue \cup Waiting \cup Dones
  BY DEF NoTaskLost, Waiting
<1>2. promise[t] \in {"none", "open", "resolved", "rejected"}
  BY DEF TypeOK
<1>3. /\ pending \cap (retryQueue \cup Waiting \cup Dones) = {}
      /\ retryQueue \cap (Waiting \cup Dones) = {} /\ Waiting \cap Dones = {}
  BY DEF HeldOnce, Waiting
<1> QED
  BY <1>1, <1>2, <1>3 DEF Phase, Waiting

\* ... and in the state after it.
LEMMA PhaseMeansNext ==
  ASSUME TypeOK', NoTaskLost', HeldOnce', NEW t \in Msgs
  PROVE  /\ Phase'[t] = "running" <=> t \in pending'
         /\ Phase'[t] = "retrying" <=> t \in retryQueue'
         /\ Phase'[t] = "waiting" <=> t \in Waiting'
         /\ Phase'[t] = "answered" <=> t \in Dones'
         /\ Phase'[t] = "resolved" <=> promise'[t] = "resolved"
         /\ Phase'[t] = "rejected" <=> promise'[t] = "rejected"
         /\ Phase'[t] = "unsent" <=> promise'[t] = "none"
<1>1. promise'[t] = "open" <=> t \in pending' \cup retryQueue' \cup Waiting' \cup Dones'
  BY DEF NoTaskLost, Waiting
<1>2. promise'[t] \in {"none", "open", "resolved", "rejected"}
  BY DEF TypeOK
<1>3. /\ pending' \cap (retryQueue' \cup Waiting' \cup Dones') = {}
      /\ retryQueue' \cap (Waiting' \cup Dones') = {} /\ Waiting' \cap Dones' = {}
  BY DEF HeldOnce, Waiting
<1> QED
  BY <1>1, <1>2, <1>3 DEF Phase, Waiting

\* What a step may do to one task, told by where the task is held.
Stays(t) ==
  /\ t \in pending' <=> t \in pending
  /\ t \in retryQueue' <=> t \in retryQueue
  /\ t \in Waiting' <=> t \in Waiting
  /\ t \in Dones' <=> t \in Dones
  /\ promise'[t] = promise[t]
  /\ sends'[t] = sends[t]

Moves(t) ==
  \/ /\ promise[t] = "none" \/ t \in Waiting \/ t \in retryQueue
     /\ t \in pending' /\ sends'[t] = sends[t] + 1
  \/ /\ promise[t] = "none" /\ t \in Waiting' /\ sends'[t] = sends[t]
  \/ /\ t \in Waiting /\ t \in Waiting' /\ sends'[t] = sends[t]
  \/ /\ promise[t] = "none" \/ t \in Waiting \cup pending \cup retryQueue
     /\ promise'[t] = "rejected" /\ sends'[t] = sends[t]
  \/ /\ t \in pending /\ t \in Dones' \cup retryQueue' /\ sends'[t] = sends[t]
  \/ /\ t \in pending \cup Dones /\ promise'[t] = "resolved" /\ sends'[t] = sends[t]

\* Each such move is a step of TaskLifecycle for that task.
LEMMA MoveRefines ==
  ASSUME IInv, IInv', NEW t \in Msgs, Stays(t) \/ Moves(t)
  PROVE  /\ Phase'[t] = Phase[t] \/ <<Phase[t], Phase'[t]>> \in Lifecycle!Edges
         /\ Lifecycle!Starts(t) => sends[t] < MaxRetry + 1
         /\ sends'[t] = IF Lifecycle!Starts(t) THEN sends[t] + 1 ELSE sends[t]
<1>1. /\ Phase[t] = "running" <=> t \in pending
      /\ Phase[t] = "retrying" <=> t \in retryQueue
      /\ Phase[t] = "waiting" <=> t \in Waiting
      /\ Phase[t] = "answered" <=> t \in Dones
      /\ Phase[t] = "resolved" <=> promise[t] = "resolved"
      /\ Phase[t] = "rejected" <=> promise[t] = "rejected"
      /\ Phase[t] = "unsent" <=> promise[t] = "none"
  BY PhaseMeans DEF IInv
<1>2. /\ Phase'[t] = "running" <=> t \in pending'
      /\ Phase'[t] = "retrying" <=> t \in retryQueue'
      /\ Phase'[t] = "waiting" <=> t \in Waiting'
      /\ Phase'[t] = "answered" <=> t \in Dones'
      /\ Phase'[t] = "resolved" <=> promise'[t] = "resolved"
      /\ Phase'[t] = "rejected" <=> promise'[t] = "rejected"
      /\ Phase'[t] = "unsent" <=> promise'[t] = "none"
  BY PhaseMeansNext DEF IInv
<1>3. /\ Phase[t] \in Lifecycle!Phases /\ Phase'[t] \in Lifecycle!Phases
  BY DEF Phase, Lifecycle!Phases, IInv, TypeOK
<1>4. sends[t] \in Nat /\ sends'[t] <= MaxRetry + 1 /\ MaxRetry \in Nat
  BY ConstantsAssumption DEF IInv, TypeOK, SendsCounted, ConstantsAssumption
<1>5. CASE Stays(t)
  BY <1>1, <1>2, <1>3, <1>5 DEF Stays, Lifecycle!Phases, Lifecycle!Starts
<1>6. CASE Moves(t)
  BY <1>1, <1>2, <1>4, <1>6 DEF Moves, Lifecycle!Edges, Lifecycle!Starts
<1> QED
  BY <1>5, <1>6

\* A run of sendTask for m, called when m is new or has just been dequeued.
LEMMA SendTaskMoves ==
  ASSUME TypeOK, NEW m \in Msgs, NEW w, NEW p \in [Msgs -> {"none", "open", "resolved", "rejected"}],
         Sent(m, w, p), promise[m] = "none" \/ m \in Waiting,
         taskQueue' = taskQueue, retryQueue' = retryQueue,
         NEW t \in Msgs
  PROVE  /\ t = m => Moves(t)
         /\ t # m => /\ t \in pending' <=> t \in pending
                     /\ t \in enqueuing' <=> t \in enqueuing
                     /\ promise'[t] = p[t] /\ sends'[t] = sends[t]
<1>1. \/ pending' = pending /\ enqueuing' = enqueuing /\ promise' = [p EXCEPT ![m] = "rejected"]
      \/ pending' = pending /\ enqueuing' = enqueuing \cup {m} /\ promise' = p
      \/ pending' = pending \cup {m} /\ enqueuing' = enqueuing /\ promise' = p
  BY SendTaskOutcome
<1>2. \/ sends' = sends /\ (promise' = [p EXCEPT ![m] = "rejected"] \/ m \in enqueuing')
      \/ m \in pending' /\ sends' = [n \in Msgs |-> IF n = m THEN sends[n] + 1 ELSE sends[n]]
  BY DEF Sent, SendTask, Refuse, Admit, Deliver
<1>3. m \in enqueuing' => m \in Waiting'
  BY DEF Waiting
<1>4. [p EXCEPT ![m] = "rejected"][m] = "rejected"
      /\ \A n \in Msgs \ {m} : [p EXCEPT ![m] = "rejected"][n] = p[n]
  OBVIOUS
<1>5. t = m => Moves(t)
  BY <1>2, <1>3, <1>4 DEF Moves
<1>6. t # m => /\ t \in pending' <=> t \in pending
               /\ t \in enqueuing' <=> t \in enqueuing
               /\ promise'[t] = p[t]
  BY <1>1, <1>4
<1>7. t # m => sends'[t] = sends[t]
  BY <1>2
<1> QED
  BY <1>5, <1>6, <1>7

\* Every step of the manager stays or moves, for every task.
LEMMA StepMoves ==
  ASSUME IInv, [Next]_vars, NEW t \in Msgs
  PROVE  Stays(t) \/ Moves(t)
<1> USE DEF mgrVars, taskVars, procVars, envVars
<1>0. TypeOK /\ NoTaskLost /\ HeldOnce
  BY DEF IInv
<1>1. ASSUME UNCHANGED <<pending, taskQueue, retryQueue, enqueuing, resuming, promise, sends>>
      PROVE  Stays(t)
  BY <1>1 DEF Stays, Waiting, Queued, Nexts, Dones
<1>2. ASSUME NEW m \in Msgs, Submit(m) PROVE Stays(t) \/ Moves(t)
  <2> DEFINE open == [promise EXCEPT ![m] = "open"]
             client == [ws EXCEPT ![m] = IF conn[SessionOf[m]] THEN "open" ELSE "null"]
  <2>1. /\ Sent(m, client, open) /\ promise[m] = "none"
        /\ UNCHANGED <<taskQueue, retryQueue, resuming>>
    BY <1>2 DEF Submit, PoolSendTask, Sent
  <2>2. Queued' = Queued /\ Nexts' = Nexts /\ Dones' = Dones
    BY <2>1 DEF Queued, Nexts, Dones
  <2>3. open \in [Msgs -> {"none", "open", "resolved", "rejected"}] /\ (t # m => open[t] = promise[t])
    BY <1>0 DEF TypeOK
  <2> HIDE DEF open, client
  <2>4. /\ t = m => Moves(t)
        /\ t # m => /\ t \in pending' <=> t \in pending
                    /\ t \in enqueuing' <=> t \in enqueuing
                    /\ promise'[t] = open[t] /\ sends'[t] = sends[t]
    BY <1>0, <2>1, <2>3, SendTaskMoves
  <2> QED
    BY <2>1, <2>2, <2>3, <2>4 DEF Stays, Waiting
<1>3. ASSUME NEW m \in Msgs, Enqueue(m) PROVE Stays(t) \/ Moves(t)
  <2>1. m \in enqueuing /\ m \notin Queued
    BY <1>0, <1>3 DEF Enqueue, HeldOnce
  <2>2. Queued' = Queued \cup {m} /\ Nexts' = Nexts /\ Dones' = Dones
    BY <1>0, <1>3, <2>1, QueuedAppend DEF Enqueue, HeldOnce, TypeOK, Nexts, Dones
  <2> QED
    BY <1>3, <2>1, <2>2 DEF Enqueue, Stays, Waiting
<1>4. ASSUME NEW m \in Msgs, TaskTimeout(m) PROVE Stays(t) \/ Moves(t)
  <2>1. Waiting' = Waiting /\ Dones' = Dones
    BY <1>4 DEF TaskTimeout, Waiting, Queued, Nexts, Dones
  <2> QED
    BY <1>0, <1>4, <2>1 DEF TaskTimeout, TypeOK, Stays, Moves
<1>5. ASSUME NEW m \in Msgs, WorkerEvent(m) \/ Recover(m) \/ WorkerRefuse(m) PROVE Stays(t)
  BY <1>1, <1>5 DEF WorkerEvent, Recover, WorkerRefuse
<1>6. ASSUME NEW m \in Msgs, NEW k \in {"task_complete", "task_error"}, WorkerFinish(m, k)
      PROVE  Stays(t)
  BY <1>1, <1>6 DEF WorkerFinish
<1>7. ASSUME NEW r \in resuming, Dequeue(r) PROVE Stays(t) \/ Moves(t)
  <2> DEFINE done == [promise EXCEPT ![r.done] = "resolved"]
  <2>1. /\ Sent(r.next, ws, done) /\ resuming' = resuming \ {r}
        /\ UNCHANGED <<taskQueue, retryQueue>>
    BY <1>7 DEF Dequeue, Sent
  <2>2. r.next \in Nexts /\ r.done \in Dones /\ r.next \in Msgs /\ r.done \in Msgs
    BY <1>0 DEF Nexts, Dones, TypeOK
  <2>3. Queued' = Queued /\ Nexts' = Nexts \ {r.next} /\ Dones' = Dones \ {r.done}
    BY <1>0, <2>1 DEF Queued, Nexts, Dones, HeldOnce
  <2>4. /\ done \in [Msgs -> {"none", "open", "resolved", "rejected"}] /\ done[r.done] = "resolved"
        /\ t # r.done => done[t] = promise[t]
    BY <1>0, <2>2 DEF TypeOK
  <2>5. r.next \in Waiting /\ r.next # r.done
    BY <1>0, <2>2 DEF Waiting, HeldOnce
  <2> HIDE DEF done
  <2>6. /\ t = r.next => Moves(t)
        /\ t # r.next => /\ t \in pending' <=> t \in pending
                         /\ t \in enqueuing' <=> t \in enqueuing
                         /\ promise'[t] = done[t] /\ sends'[t] = sends[t]
    BY <1>0, <2>1, <2>2, <2>4, <2>5, SendTaskMoves
  <2>7. CASE t = r.done
    BY <2>2, <2>4, <2>5, <2>6, <2>7 DEF Moves
  <2>8. CASE t # r.done /\ t # r.next
    BY <2>1, <2>3, <2>4, <2>6, <2>8 DEF Stays, Waiting
  <2> QED
    BY <2>6, <2>7, <2>8
<1>8. ASSUME NEW s \in Sessions, Disconnect(s) \/ Reconnect(s) PROVE Stays(t)
  BY <1>1, <1>8 DEF Disconnect, Reconnect
<1>9. CASE OnComplete
  <2> DEFINE m == Head(up).msg
  <2>1. CASE m \notin pending
    BY <1>1, <1>9, <2>1 DEF OnComplete, LateResult
  <2>2. CASE m \in pending /\ taskQueue = <<>>
    <3>1. /\ pending' = pending \ {m} /\ promise' = [promise EXCEPT ![m] = "resolved"]
          /\ UNCHANGED <<taskQueue, resuming, retryQueue, enqueuing, sends>>
      BY <1>9, <2>2 DEF OnComplete
    <3>2. Waiting' = Waiting /\ Dones' = Dones
      BY <3>1 DEF Waiting, Queued, Nexts, Dones
    <3> HIDE DEF m
    <3> QED
      BY <1>0, <2>2, <3>1, <3>2 DEF Stays, Moves, TypeOK
  <2>3. CASE m \in pending /\ taskQueue # <<>>
    <3> DEFINE r == [done |-> m, next |-> Head(taskQueue)]
    <3>1. /\ pending' = pending \ {m} /\ resuming' = resuming \cup {r}
          /\ taskQueue' = Tail(taskQueue)
          /\ UNCHANGED <<promise, retryQueue, enqueuing, sends>>
      BY <1>9, <2>3 DEF OnComplete, Shift
    <3>2. Head(taskQueue) \in Queued /\ Queued' = Queued \ {Head(taskQueue)}
      BY <1>0, <2>3, <3>1, QueuedTail DEF HeldOnce, TypeOK
    <3>3. r.done = m /\ r.next = Head(taskQueue)
      OBVIOUS
    <3> HIDE DEF r, m
    <3>4. Nexts' = Nexts \cup {Head(taskQueue)} /\ Dones' = Dones \cup {m}
      BY <3>1, <3>3 DEF Nexts, Dones
    <3> QED
      BY <2>3, <3>1, <3>2, <3>4 DEF Stays, Moves, Waiting
  <2> QED
    BY <2>1, <2>2, <2>3
<1>10. CASE OnError
  <2> DEFINE m == Head(up).msg
  <2>1. Waiting' = Waiting /\ Dones' = Dones
    BY <1>10 DEF OnError, Waiting, Queued, Nexts, Dones
  <2>2. CASE m \notin pending
    BY <1>1, <1>10, <2>2 DEF OnError
  <2>3. CASE m \in pending
    <3>1. /\ pending' = pending \ {m} /\ promise' = [promise EXCEPT ![m] = "rejected"]
          /\ UNCHANGED <<retryQueue, sends>>
      BY <1>10, <2>3 DEF OnError
    <3> HIDE DEF m
    <3> QED
      BY <1>0, <2>1, <2>3, <3>1 DEF Stays, Moves, TypeOK
  <2> QED
    BY <2>2, <2>3
<1>11. CASE OnExit
  <2>1. Waiting' = Waiting /\ Dones' = Dones
    BY <1>11 DEF OnExit, Waiting, Queued, Nexts, Dones
  <2> QED
    BY <1>0, <1>11, <2>1 DEF OnExit, FailAllPending, SetAll, Stays, Moves, TypeOK
<1>12. CASE RetryFailedTasks
  <2>1. Waiting' = Waiting /\ Dones' = Dones /\ Resendable \subseteq retryQueue
    BY <1>12 DEF RetryFailedTasks, Waiting, Queued, Nexts, Dones, Resendable
  <2> QED
    BY <1>0, <1>12, <2>1 DEF RetryFailedTasks, Deliver, SetAll, Stays, Moves, TypeOK
<1>13. CASE RestartWorker
  <2>1. Waiting' = Waiting /\ Dones' = Dones
    BY <1>13 DEF RestartWorker, Waiting, Queued, Nexts, Dones
  <2> QED
    BY <1>0, <1>13, <2>1 DEF RestartWorker, SetAll, Stays, Moves, TypeOK
<1>14. CASE OnReady \/ RespawnTimer \/ DegradedTimer \/ KillTimer \/ BootDone \/ Crash
            \/ LifetimeRestart
  BY <1>1, <1>14
  DEF OnReady, RespawnTimer, DegradedTimer, KillTimer, BootDone, Crash, LifetimeRestart
<1>15. CASE UNCHANGED vars
  BY <1>1, <1>15 DEF vars
<1> QED
  BY <1>2, <1>3, <1>4, <1>5, <1>6, <1>7, <1>8, <1>9, <1>10, <1>11, <1>12, <1>13,
     <1>14, <1>15 DEF Next

\* Every task starts in the first phase of its lifecycle.
LEMMA RefineInit == Init => Lifecycle!Init
<1> SUFFICES ASSUME Init PROVE Lifecycle!Init
  OBVIOUS
<1>1. Queued = {} /\ Nexts = {} /\ Dones = {}
  BY EmptySeq DEF Init, Queued, Nexts, Dones
<1> QED
  BY <1>1 DEF Init, Phase, Lifecycle!Init

\* Every step of the manager is, for every task, a step of its lifecycle or a stutter.
LEMMA RefineNext ==
  ASSUME IInv, IInv', [Next]_vars
  PROVE  [Lifecycle!Next]_Lifecycle!vars
<1>1. \A t \in Msgs :
        /\ Phase'[t] = Phase[t] \/ <<Phase[t], Phase'[t]>> \in Lifecycle!Edges
        /\ Lifecycle!Starts(t) => sends[t] < MaxRetry + 1
        /\ sends'[t] = IF Lifecycle!Starts(t) THEN sends[t] + 1 ELSE sends[t]
  BY StepMoves, MoveRefines
<1>2. Phase' \in [Msgs -> Lifecycle!Phases]
  BY DEF IInv, TypeOK, Phase, Lifecycle!Phases
<1>3. sends' \in [Msgs -> Nat]
  BY DEF IInv, TypeOK
<1>4. sends' = [t \in Msgs |-> IF Lifecycle!Starts(t) THEN sends[t] + 1 ELSE sends[t]]
  BY <1>1, <1>3
<1> QED
  BY <1>1, <1>2, <1>4 DEF Lifecycle!Next, Lifecycle!Move, Lifecycle!vars

\* The manager implements TaskLifecycle: every task, in every execution, goes
\* through the phases sendTask promises.
THEOREM Refinement == Spec => ImplementsLifecycle
<1>1. Init => Lifecycle!Init
  BY RefineInit
<1>2. IInv /\ IInv' /\ [Next]_vars => [Lifecycle!Next]_Lifecycle!vars
  BY RefineNext
<1> QED
  BY <1>1, <1>2, Invariant, PTL DEF Spec, ImplementsLifecycle, Lifecycle!Spec

\* A settled promise is final: whatever answer, timeout, exit, restart or resumed handler
\* comes for the task later, it neither changes the outcome nor sends the task again.
SettledFinal ==
  [][\A m \in Msgs : promise[m] \in {"resolved", "rejected"} =>
                        promise'[m] = promise[m] /\ sends'[m] = sends[m]]_vars

\* No step of the manager touches a task whose promise is settled.
THEOREM SettledStays == Spec => SettledFinal
<1>1. ASSUME IInv, [Next]_vars, NEW m \in Msgs, promise[m] \in {"resolved", "rejected"}
      PROVE  promise'[m] = promise[m] /\ sends'[m] = sends[m]
  <2>1. m \notin pending \cup retryQueue \cup Waiting \cup Dones
    BY <1>1 DEF IInv, NoTaskLost, Waiting
  <2>2. Stays(m) \/ Moves(m)
    BY <1>1, StepMoves
  <2> QED
    BY <1>1, <2>1, <2>2 DEF Stays, Moves
<1>2. IInv /\ [Next]_vars =>
        [\A m \in Msgs : promise[m] \in {"resolved", "rejected"} =>
                            promise'[m] = promise[m] /\ sends'[m] = sends[m]]_vars
  BY <1>1
<1> QED
  BY <1>2, Invariant, PTL DEF Spec, SettledFinal

=============================================================================
