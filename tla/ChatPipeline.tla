---------------------------- MODULE ChatPipeline ----------------------------
(***************************************************************************)
(* A message sent over HTTP: the API process (agent/api/chat-api.mjs, the  *)
(* ChatOrchestrator of agent/services/chat-service.mjs and the worker      *)
(* proxy of agent/api-server.mjs), the lossy publish/subscribe IPC         *)
(* (agent/lib/redis-ipc.mjs), and the dispatch handler of the WebSocket    *)
(* process (agent/ws-realtime.mjs) in front of the worker manager, which   *)
(* is what TaskLifecycle promises.                                         *)
(*                                                                         *)
(* One action is one uninterrupted run of JavaScript in one process.  Time *)
(* is kept as far as the code compares it: the age of a session's entry in *)
(* activeTasksBySession (young, over 30 s, over 45 s), and that the 5 min  *)
(* guard of a message fires before its 11 min request timeout.             *)
(***************************************************************************)
EXTENDS Naturals, FiniteSets

CONSTANTS
  Msgs, Sessions, SessionOf,  \* the messages and the session of each
  None,                       \* no entry
  MaxAttempts,                \* workers a task may be given to, see WorkerManager
  MaxLost,                    \* bound of the model: messages lost by the IPC
  MaxWsStops, MaxApiStops     \* bounds of the model: stops of each process

ASSUME ChatAssumption ==
  /\ SessionOf \in [Msgs -> Sessions]
  /\ None \notin Msgs
  /\ MaxAttempts \in Nat /\ MaxLost \in Nat /\ MaxWsStops \in Nat /\ MaxApiStops \in Nat

VARIABLES
  \* ---- the API process
  stage,      \* where the request and its pipeline are
  entry,      \* activeTasksBySession: the msgId of the session's entry
  age,        \* its age: 0, 1 (over STALE_THRESHOLD) or 2 (over TASK_TIMEOUT)
  guard,      \* processingGuardTimer: "off", "armed" or "fired"
  reply,      \* what the pipeline of the message ended with
  \* ---- Redis
  requests,   \* dispatch_task messages under way
  responses,  \* answers under way: [msg, kind]
  notices,    \* ws_restarted messages under way
  \* ---- the WebSocket process
  wsState,    \* "up", "draining" (after SIGTERM) or "down"
  handler,    \* the dispatch handler of the message
  phase, attempts,  \* the task in the worker manager: TaskLifecycle
  \* ---- the database, and the bounds
  saved,      \* messages with the row of their reply
  dbFailed,   \* messages whose row the database refused
  lost, wsStops, apiStops

apiVars == <<stage, entry, age, guard, reply>>
ipcVars == <<requests, responses, notices>>
wsVars  == <<wsState, handler, phase, attempts>>
dbVars  == <<saved, dbFailed>>
bounds  == <<lost, wsStops, apiStops>>
vars    == <<apiVars, ipcVars, wsVars, dbVars, bounds>>

Manager == INSTANCE TaskLifecycle WITH Tasks <- Msgs

\* "prepare": from the 202 to the request; "asked": awaiting the response.
Stages   == {"new", "refused", "storing", "prepare", "asked", "done", "gone"}
Handlers == {"none", "lookup", "working", "saving", "fallback", "done", "gone"}
Kinds    == {"saved", "empty", "fallback", "error"}
InPipeline(m) == stage[m] \in {"prepare", "asked"}

TypeOK ==
  /\ stage \in [Msgs -> Stages]
  /\ entry \in [Sessions -> Msgs \cup {None}]
  /\ age \in [Sessions -> 0..2]
  /\ guard \in [Msgs -> {"off", "armed", "fired"}]
  /\ reply \in [Msgs -> Kinds \cup {"none"}]
  /\ requests \subseteq Msgs
  /\ responses \subseteq [msg : Msgs, kind : Kinds]
  /\ notices \in 0..MaxWsStops
  /\ wsState \in {"up", "draining", "down"}
  /\ handler \in [Msgs -> Handlers]
  /\ phase \in [Msgs -> Manager!Phases] /\ attempts \in [Msgs -> Nat]
  /\ saved \subseteq Msgs /\ dbFailed \subseteq Msgs
  /\ lost \in 0..MaxLost /\ wsStops \in 0..MaxWsStops /\ apiStops \in 0..MaxApiStops

Init ==
  /\ stage = [m \in Msgs |-> "new"]
  /\ entry = [s \in Sessions |-> None] /\ age = [s \in Sessions |-> 0]
  /\ guard = [m \in Msgs |-> "off"]
  /\ reply = [m \in Msgs |-> "none"]
  /\ requests = {} /\ responses = {} /\ notices = 0
  /\ wsState = "up"
  /\ handler = [m \in Msgs |-> "none"]
  /\ Manager!Init
  /\ saved = {} /\ dbFailed = {}
  /\ lost = 0 /\ wsStops = 0 /\ apiStops = 0

\* activeTasksBySession.delete(sessionKey), whoever's entry it is.
Drop(s) == entry' = [entry EXCEPT ![s] = None] /\ age' = [age EXCEPT ![s] = 0]

\* A publish: it arrives, or nobody is subscribed at that moment.
Sent(channel, new) ==
  \/ channel' = channel \cup {new} /\ UNCHANGED lost
  \/ lost < MaxLost /\ lost' = lost + 1 /\ UNCHANGED channel

----------------------------------------------------------------------------
(* The API process: POST /api/chats/:id/messages                            *)

\* Refused by the rate limit or the budget, or 409 because of an entry of at most 45 s.
Refuse(m) ==
  /\ stage[m] = "new"
  /\ stage' = [stage EXCEPT ![m] = "refused"]
  /\ UNCHANGED <<entry, age, guard, reply, ipcVars, wsVars, dbVars, bounds>>

\* checkRateAndActiveTask lets the message pass, and removes an entry of over 45 s.
Accept(m) ==
  /\ stage[m] = "new"
  /\ LET s == SessionOf[m]
     IN  \/ entry[s] = None /\ UNCHANGED <<entry, age>>
         \/ entry[s] # None /\ age[s] = 2 /\ Drop(s)
  /\ stage' = [stage EXCEPT ![m] = "storing"]
  /\ UNCHANGED <<guard, reply, ipcVars, wsVars, dbVars, bounds>>

\* The trigger of the administrator does not ask.
Trigger(m) ==
  /\ stage[m] = "new"
  /\ stage' = [stage EXCEPT ![m] = "storing"]
  /\ UNCHANGED <<entry, age, guard, reply, ipcVars, wsVars, dbVars, bounds>>

\* After the awaits of createMessage and getConversationHistory: the entry, the
\* 202, and the start of executeMessagePipeline with its guard.  The entry is set
\* without a second look.
Register(m) ==
  /\ stage[m] = "storing"
  /\ stage' = [stage EXCEPT ![m] = "prepare"]
  /\ entry' = [entry EXCEPT ![SessionOf[m]] = m]
  /\ age' = [age EXCEPT ![SessionOf[m]] = 0]
  /\ guard' = [guard EXCEPT ![m] = "armed"]
  /\ UNCHANGED <<reply, ipcVars, wsVars, dbVars, bounds>>

\* The database refuses the user's message: 500, nothing registered.
StoreFails(m) ==
  /\ stage[m] = "storing"
  /\ stage' = [stage EXCEPT ![m] = "refused"]
  /\ UNCHANGED <<entry, age, guard, reply, ipcVars, wsVars, dbVars, bounds>>

----------------------------------------------------------------------------
(* The pipeline                                                              *)

Finish_KeepsEntry(m, kind) ==
  /\ stage' = [stage EXCEPT ![m] = "done"]
  /\ reply' = [reply EXCEPT ![m] = kind]
  /\ IF kind = "none" THEN UNCHANGED <<entry, age>> ELSE Drop(SessionOf[m])

\* What is left once sendTask has settled: a reference to taskResult outside its
\* block throws before the reply would be saved, and the finally block deletes the
\* session's entry.
Finish(m, kind) ==
  /\ stage' = [stage EXCEPT ![m] = "done"]
  /\ reply' = [reply EXCEPT ![m] = kind]
  /\ Drop(SessionOf[m])

\* sendTask of the proxy: the request is published, for a process that may be down.
Dispatch(m) ==
  /\ stage[m] = "prepare"
  /\ stage' = [stage EXCEPT ![m] = "asked"]
  /\ IF wsState = "down" THEN UNCHANGED <<requests, lost>> ELSE Sent(requests, m)
  /\ UNCHANGED <<entry, age, guard, reply, responses, notices,
                 wsVars, dbVars, wsStops, apiStops>>

\* The publisher is not connected.  The fallback throws (there is no client here to
\* stream to), so that the guard stays armed.
DispatchFails(m) ==
  /\ stage[m] = "prepare"
  /\ lost < MaxLost /\ lost' = lost + 1
  /\ Finish(m, "none")
  /\ UNCHANGED <<guard, ipcVars, wsVars, dbVars, wsStops, apiStops>>

Matches_AnyRequest(m, r) == SessionOf[r.msg] = SessionOf[m]
\* pendingRequests.has(reqId)
Matches(m, r) == r.msg = m

OnResponse(m, r) ==
  /\ r \in responses /\ stage[m] = "asked" /\ Matches(m, r)
  /\ responses' = responses \ {r}
  /\ guard' = [guard EXCEPT ![m] = IF @ = "armed" THEN "off" ELSE @]
  /\ Finish(m, r.kind)
  /\ UNCHANGED <<requests, notices, wsVars, dbVars, bounds>>

\* A response nobody waits for.
IgnoreResponse(r) ==
  /\ r \in responses /\ \A m \in Msgs : ~(stage[m] = "asked" /\ Matches(m, r))
  /\ responses' = responses \ {r}
  /\ UNCHANGED <<apiVars, requests, notices, wsVars, dbVars, bounds>>

RequestTimeout_WaitsForGuard(m) ==
  /\ stage[m] = "asked" /\ guard[m] = "off"
  /\ Finish(m, "none")
  /\ UNCHANGED <<guard, ipcVars, wsVars, dbVars, bounds>>

\* 11 minutes, in which the guard has fired.
RequestTimeout(m) ==
  /\ stage[m] = "asked" /\ guard[m] = "fired"
  /\ Finish(m, "none")
  /\ UNCHANGED <<guard, ipcVars, wsVars, dbVars, bounds>>

\* 5 minutes after the start of the pipeline: the session's entry goes, whoever's it
\* is.  Its own entry is over 45 s old by then.
GuardFires(m) ==
  /\ guard[m] = "armed"
  /\ entry[SessionOf[m]] = m => age[SessionOf[m]] = 2
  /\ guard' = [guard EXCEPT ![m] = "fired"]
  /\ Drop(SessionOf[m])
  /\ UNCHANGED <<stage, reply, ipcVars, wsVars, dbVars, bounds>>

Ages_OffByOne(s) ==
  /\ entry[s] # None /\ age[s] <= 2
  /\ age' = [age EXCEPT ![s] = @ + 1]
  /\ UNCHANGED <<stage, entry, guard, reply, ipcVars, wsVars, dbVars, bounds>>

\* Time passes: 30 s and 45 s are the ages the code compares with.
Ages(s) ==
  /\ entry[s] # None /\ age[s] < 2
  /\ age' = [age EXCEPT ![s] = @ + 1]
  /\ UNCHANGED <<stage, entry, guard, reply, ipcVars, wsVars, dbVars, bounds>>

\* The interval of 30 s: entries of over 30 s whose task is not in the proxy's copy of
\* pendingTasks.  The copy is up to 10 s old, empty when Redis fails, and never has a
\* queued task: it may miss any task.
StaleCleaner ==
  \E stale \in SUBSET {s \in Sessions : entry[s] # None /\ age[s] > 0} :
    /\ stale # {}
    /\ entry' = [s \in Sessions |-> IF s \in stale THEN None ELSE entry[s]]
    /\ age' = [s \in Sessions |-> IF s \in stale THEN 0 ELSE age[s]]
    /\ UNCHANGED <<stage, guard, reply, ipcVars, wsVars, dbVars, bounds>>

\* onNotification: ws_restarted clears every entry.
OnWsRestarted ==
  /\ notices > 0
  /\ notices' = notices - 1
  /\ entry' = [s \in Sessions |-> None] /\ age' = [s \in Sessions |-> 0]
  /\ UNCHANGED <<stage, guard, reply, requests, responses, wsVars, dbVars, bounds>>

\* The API process stops and starts again: its memory is gone, and what was on the way to it.
ApiRestart ==
  /\ apiStops < MaxApiStops /\ apiStops' = apiStops + 1
  /\ stage' = [m \in Msgs |-> IF stage[m] \in {"storing", "prepare", "asked"} THEN "gone" ELSE stage[m]]
  /\ entry' = [s \in Sessions |-> None] /\ age' = [s \in Sessions |-> 0]
  /\ guard' = [m \in Msgs |-> "off"]
  /\ responses' = {} /\ notices' = 0
  /\ UNCHANGED <<reply, requests, wsVars, dbVars, lost, wsStops>>

----------------------------------------------------------------------------
(* The WebSocket process: case dispatch_task                                 *)

Set(m, h) == handler' = [handler EXCEPT ![m] = h]

Running == wsState # "down"

\* onCommand; the handler awaits the database to find the session's client.
OnDispatch(m) ==
  /\ Running /\ m \in requests
  /\ requests' = requests \ {m}
  /\ Set(m, "lookup")
  /\ UNCHANGED <<apiVars, responses, notices, wsState, phase, attempts, dbVars, bounds>>

\* workerManager.sendTask.
StartTask(m) ==
  /\ Running /\ handler[m] = "lookup"
  /\ Set(m, "working")
  /\ \E p \in {"waiting", "running", "rejected"} : phase' = [phase EXCEPT ![m] = p]
  /\ Manager!Next
  /\ UNCHANGED <<apiVars, ipcVars, wsState, dbVars, bounds>>

\* The manager goes on with a task it was given.
ManagerStep(m) ==
  /\ Running /\ handler[m] = "working"
  /\ \E p \in Manager!Phases \ {phase[m]} : phase' = [phase EXCEPT ![m] = p]
  /\ Manager!Next
  /\ UNCHANGED <<apiVars, ipcVars, wsState, handler, dbVars, bounds>>

Answer(m, kind) ==
  /\ Set(m, "done")
  /\ Sent(responses, [msg |-> m, kind |-> kind])
  /\ UNCHANGED <<apiVars, requests, notices, wsState, phase, attempts, wsStops, apiStops>>

\* The promise resolved: first the reply is saved, then the answer is published.
\* An empty reply is answered only.
Resolved(m) ==
  /\ Running /\ handler[m] = "working" /\ phase[m] = "resolved"
  /\ UNCHANGED dbVars
  /\ \/ Answer(m, "empty")
     \/ /\ Set(m, "saving")
        /\ UNCHANGED <<apiVars, ipcVars, wsState, phase, attempts, bounds>>

Save(m) ==
  /\ Running /\ handler[m] = "saving"
  /\ saved' = saved \cup {m} /\ UNCHANGED dbFailed
  /\ Answer(m, "saved")

\* The error of the database (or that the chat is gone) is logged, and the answer still
\* says dbSaved.
SaveFails(m) ==
  /\ Running /\ handler[m] = "saving"
  /\ dbFailed' = dbFailed \cup {m} /\ UNCHANGED saved
  /\ Answer(m, "saved")

\* The promise rejected: the answer is the error, or, if the session's client is
\* open, a reply of inlineFallback, which is streamed to the client only.
Rejected(m) ==
  /\ Running /\ handler[m] = "working" /\ phase[m] = "rejected"
  /\ \/ Answer(m, "error") /\ UNCHANGED dbVars
     \/ /\ Set(m, "fallback")
        /\ UNCHANGED <<apiVars, ipcVars, wsState, phase, attempts, dbVars, bounds>>

FallbackEnds(m) ==
  /\ Running /\ handler[m] = "fallback"
  /\ \E kind \in {"fallback", "error"} : Answer(m, kind)
  /\ UNCHANGED dbVars

\* SIGTERM: partial replies are saved (not modelled); the process goes on, at most
\* 25 s, until its worker has drained.
Terminate ==
  /\ wsState = "up" /\ wsStops < MaxWsStops
  /\ wsState' = "draining"
  /\ UNCHANGED <<apiVars, ipcVars, handler, phase, attempts, dbVars, bounds>>

\* The process is gone, with its handlers and what was on the way to it.
WsGone ==
  /\ wsState' = "down" /\ wsStops' = wsStops + 1
  /\ handler' = [m \in Msgs |-> IF handler[m] \in {"none", "done"} THEN handler[m] ELSE "gone"]
  /\ requests' = {}
  /\ UNCHANGED <<apiVars, responses, notices, phase, attempts, dbVars, lost, apiStops>>

DrainEnds == wsState = "draining" /\ WsGone
WsCrash   == wsState = "up" /\ wsStops < MaxWsStops /\ WsGone

\* start(): ws_restarted is published.
WsStart ==
  /\ wsState = "down" /\ wsState' = "up"
  /\ \/ notices' = notices + 1 /\ UNCHANGED lost
     \/ lost < MaxLost /\ lost' = lost + 1 /\ UNCHANGED notices
  /\ UNCHANGED <<apiVars, requests, responses, handler, phase, attempts, dbVars,
                 wsStops, apiStops>>

----------------------------------------------------------------------------
Post(m) == Refuse(m) \/ Accept(m) \/ Trigger(m)

Api(m) ==
  \/ Register(m) \/ StoreFails(m) \/ Dispatch(m) \/ DispatchFails(m)
  \/ RequestTimeout(m) \/ GuardFires(m) \/ \E r \in responses : OnResponse(m, r)

Dispatched(m) ==
  \/ OnDispatch(m) \/ StartTask(m) \/ Resolved(m) \/ Save(m) \/ SaveFails(m)
  \/ Rejected(m) \/ FallbackEnds(m)

Next ==
  \/ \E m \in Msgs : Post(m) \/ Api(m) \/ Dispatched(m) \/ ManagerStep(m)
  \/ \E r \in responses : IgnoreResponse(r)
  \/ \E s \in Sessions : Ages(s)
  \/ StaleCleaner \/ OnWsRestarted \/ ApiRestart
  \/ Terminate \/ DrainEnds \/ WsCrash \/ WsStart

Spec == Init /\ [][Next]_vars

\* The API process runs its handlers and timers, and time passes.  Nothing is assumed
\* of the IPC, of the WebSocket process or of the database.
Fairness ==
  /\ \A m \in Msgs :
       /\ WF_vars(Register(m) \/ StoreFails(m))
       /\ WF_vars(Dispatch(m) \/ DispatchFails(m))
       /\ WF_vars(GuardFires(m)) /\ WF_vars(RequestTimeout(m))
  /\ \A s \in Sessions : WF_vars(Ages(s))

FairSpec == Spec /\ Fairness

----------------------------------------------------------------------------
(* Properties                                                                *)

\* A session is blocked (409) only by a message whose pipeline is still under way and whose
\* guard has still to fire: a pipeline that has ended, by whatever path, leaves no entry
\* behind, no timer, cleaner or notice puts one there, and no block outlives its guard.
\* A pipeline whose entry is gone has its guard, or the request timeout the guard precedes.
EntryOfPipeline ==
  /\ \A s \in Sessions : entry[s] # None =>
       SessionOf[entry[s]] = s /\ InPipeline(entry[s]) /\ guard[entry[s]] = "armed"
  /\ \A m \in Msgs : InPipeline(m) => guard[m] # "off"

\* "dbSaved: true" is true, or the database has refused the row: a reply that the
\* pipeline takes as saved by the other process was handed to the database before.
SavedIsTrue == \A m \in Msgs : reply[m] = "saved" => m \in saved \cup dbFailed

\* What the caller of sendTask knows of a message, and what became of it.
CallOf(m) ==
  CASE stage[m] = "asked" -> "waiting"
    [] stage[m] = "gone" \/ (stage[m] = "done" /\ reply[m] = "none") -> "unknown"
    [] stage[m] = "done" /\ reply[m] \in {"saved", "empty"} -> "resolved"
    [] stage[m] = "done" /\ reply[m] \in {"fallback", "error"} -> "rejected"
    [] OTHER -> "idle"
OutcomeOf(m) == IF phase[m] \in {"resolved", "rejected"} THEN phase[m] ELSE "none"

Call == INSTANCE RemoteCall WITH
  Calls <- Msgs,
  call <- [m \in Msgs |-> CallOf(m)], outcome <- [m \in Msgs |-> OutcomeOf(m)]

\* The dispatch over the lossy IPC, with restarts of both processes, timeouts and late
\* answers, implements RemoteCall: no task runs unasked, and no pipeline takes an
\* answer for what its task did not end with.
ImplementsCall == Call!Spec

\* Every pipeline ends, even if its request or its answer is lost or the other process
\* never comes back, unless its own process stops.
PipelineEnds == \A m \in Msgs : InPipeline(m) ~> stage[m] \in {"done", "gone"}

\* "Save assistant reply": a reply the pipeline got, the fallback's included, is in the
\* database when the pipeline has ended, unless the database refused it.
ReplySaved ==
  \A m \in Msgs : reply[m] \in {"saved", "fallback"} => m \in saved \cup dbFailed

=============================================================================
