----------------------------- MODULE WsSession -----------------------------
(***************************************************************************)
(* One session in the WebSocket process: its connections, the handlers of  *)
(* the messages they send (agent/modules/ws-chat-handlers.mjs), the        *)
(* control messages (ws-control-handlers.mjs), the life of a connection    *)
(* (ws-handler.mjs), and the tasks the API process dispatches into it.     *)
(* Two records of "a task is under way" are kept apart here, and each is   *)
(* written by several of these: the busy flag of a connection              *)
(* (state.isProcessing) and the entry of the session                       *)
(* (activeTasksBySession).  The events of the tasks are EventBuffer's.     *)
(*                                                                         *)
(* The manager of the tasks is only what TaskLifecycle says of it, with    *)
(* what it writes of these records; which tasks it queues and how often it *)
(* retries one is WorkerManager's matter.                                  *)
(***************************************************************************)
EXTENDS Naturals, FiniteSets

CONSTANTS
  NumConns,   \* the connections, one after the other or at once (tabs)
  Msgs,       \* the messages of the session, which may come
  Typed,      \*   over a connection,
  Posted,     \*   from the API process, or
  Own,        \*   from the worker itself
  None,       \* no connection, no entry
  MaxExits    \* bound of the model: exits of the worker process

Conns == 1..NumConns

ASSUME SessionAssumption ==
  /\ NumConns \in Nat
  /\ None \notin Msgs /\ None \notin Conns
  /\ Typed \subseteq Msgs /\ Posted \subseteq Msgs /\ Own \subseteq Msgs
  /\ IsFiniteSet(Msgs)
  /\ MaxExits \in Nat

VARIABLES
  conn,       \* "new", "open", "closed"
  bound,      \* wsClients: the connection bound to the chat, or None
  busy,       \* state.isProcessing of the connection
  since,      \* state.processingStartedAt: "null", "fresh", "stale" (over 120 s ago)
  stage,      \* how far the handler of the message is
  via,        \* the connection it came over
  entry,      \* activeTasksBySession of the session
  phase,      \* the task in the manager, as in TaskLifecycle
  client,     \* ws of the task in the manager
  unset,      \* was the flag of the connection reset under the handlers it has?
  exits

connVars == <<conn, bound, busy, since, unset>>
taskVars == <<phase, client, exits>>
vars     == <<connVars, taskVars, stage, via, entry>>

Stages ==
  {"new", "refused",
   "sending", "asking", "waiting", "ended",  \* handleSendMessage
   "followup", "over",                       \* auto_followup
   "dispatched"}                             \* dispatch_task

Phases == {"unsent", "waiting", "running", "retrying", "resolved", "rejected"}

TypeOK ==
  /\ conn \in [Conns -> {"new", "open", "closed"}]
  /\ bound \in Conns \cup {None}
  /\ busy \in [Conns -> BOOLEAN]
  /\ since \in [Conns -> {"null", "fresh", "stale"}]
  /\ stage \in [Msgs -> Stages]
  /\ via \in [Msgs -> Conns \cup {None}]
  /\ entry \in Msgs \cup {None}
  /\ phase \in [Msgs -> Phases]
  /\ client \in [Msgs -> Conns \cup {None}]
  /\ unset \in [Conns -> BOOLEAN]
  /\ exits \in 0..MaxExits

Init ==
  /\ conn = [c \in Conns |-> "new"] /\ bound = None
  /\ busy = [c \in Conns |-> FALSE] /\ since = [c \in Conns |-> "null"]
  /\ stage = [m \in Msgs |-> "new"] /\ via = [m \in Msgs |-> None]
  /\ entry = None
  /\ phase = [m \in Msgs |-> "unsent"] /\ client = [m \in Msgs |-> None]
  /\ unset = [c \in Conns |-> FALSE] /\ exits = 0

\* ws of the entries of S goes with them.
WithoutClient(S) == [m \in Msgs |-> IF m \in S THEN None ELSE client[m]]

Running == {m \in Msgs : phase[m] = "running"}
Open(c) == c # None /\ conn[c] = "open"

\* The handlers a connection's flag stands for.
Handling(c) ==
  {m \in Msgs : via[m] = c /\
                stage[m] \in {"sending", "asking", "waiting", "followup"}}

\* state.isProcessing = false, under whatever handler the connection has.
ResetFlag(c) ==
  /\ busy' = [busy EXCEPT ![c] = FALSE]
  /\ unset' = [unset EXCEPT ![c] = Handling(c) # {}]

----------------------------------------------------------------------------
(* The connections                                                           *)

Connect(c) ==
  /\ conn[c] = "new" /\ \A d \in Conns : d < c => conn[d] # "new"
  /\ conn' = [conn EXCEPT ![c] = "open"]
  /\ UNCHANGED <<bound, busy, since, unset, taskVars, stage, via, entry>>

\* bind_chat, which also hands every running task without a client to the connection.
BindChat(c) ==
  /\ conn[c] = "open"
  /\ bound' = c
  /\ client' = [m \in Msgs |-> IF m \in Running /\ client[m] = None THEN c ELSE client[m]]
  /\ UNCHANGED <<conn, busy, since, unset, phase, exits, stage, via, entry>>

\* The close handler.  Nothing reads the state of the connection again.  Its grace timer
\* ends in an error before it changes anything: the pool has no _clearTaskTimers.
Close(c) ==
  /\ conn[c] = "open"
  /\ conn' = [conn EXCEPT ![c] = "closed"]
  /\ bound' = IF bound = c THEN None ELSE bound
  /\ busy' = [busy EXCEPT ![c] = FALSE] /\ since' = [since EXCEPT ![c] = "null"]
  /\ client' = [m \in Msgs |-> IF m \in Running /\ client[m] = c THEN None ELSE client[m]]
  /\ UNCHANGED <<unset, phase, exits, stage, via, entry>>

\* 120 s have passed since processingStartedAt.
Age(c) ==
  /\ conn[c] = "open" /\ since[c] = "fresh"
  /\ since' = [since EXCEPT ![c] = "stale"]
  /\ UNCHANGED <<conn, bound, busy, unset, taskVars, stage, via, entry>>

----------------------------------------------------------------------------
(* handleSendMessage, and the calls of sendTask                              *)

\* The operators named X_Y are X with a plausible bug Y; nothing uses them here.
Send_FlagsLater(c, m) ==
  /\ conn[c] = "open" /\ stage[m] = "new" /\ m \in Typed
  /\ via' = [via EXCEPT ![m] = c]
  /\ stage' = [stage EXCEPT ![m] = IF busy[c] THEN "refused" ELSE "sending"]
  /\ UNCHANGED <<connVars, taskVars, entry>>

\* A message over the connection: refused while the flag is set and not stale.
Send(c, m) ==
  /\ conn[c] = "open" /\ stage[m] = "new" /\ m \in Typed
  /\ \/ /\ busy[c] /\ since[c] # "stale"
        /\ stage' = [stage EXCEPT ![m] = "refused"]
        /\ UNCHANGED <<busy, since, unset, via>>
     \/ /\ ~busy[c] \/ since[c] = "stale"
        /\ stage' = [stage EXCEPT ![m] = "sending"]
        /\ via' = [via EXCEPT ![m] = c]
        /\ busy' = [busy EXCEPT ![c] = TRUE]
        /\ since' = [since EXCEPT ![c] = "fresh"]
        /\ unset' = [unset EXCEPT ![c] = Handling(c) # {}]
  /\ UNCHANGED <<conn, bound, taskVars, entry>>

\* After the attachments and the user's message: the guard timer, the entry and the buffer.
Register(m) ==
  /\ stage[m] = "sending"
  /\ stage' = [stage EXCEPT ![m] = "asking"]
  /\ entry' = m
  /\ UNCHANGED <<connVars, taskVars, via>>

SendTask_SwapsArguments(m, c) ==
  \/ /\ phase' = [phase EXCEPT ![m] = "rejected"]
     /\ client' = WithoutClient({m})
  \/ /\ phase' = [phase EXCEPT ![m] = "waiting"]
     /\ client' = [client EXCEPT ![m] = m]
  \/ /\ phase' = [phase EXCEPT ![m] = "running"]
     /\ client' = [o \in Msgs |-> IF o = m THEN m ELSE IF o \in Running THEN None ELSE client[o]]

\* sendTask refuses the task, queues it, or sends it to the worker, and then the
\* session's other tasks lose their clients.
SendTask(m, c) ==
  \/ /\ phase' = [phase EXCEPT ![m] = "rejected"]
     /\ client' = WithoutClient({m})
  \/ /\ phase' = [phase EXCEPT ![m] = "waiting"]
     /\ client' = [client EXCEPT ![m] = c]
  \/ /\ phase' = [phase EXCEPT ![m] = "running"]
     /\ client' = [o \in Msgs |-> IF o = m THEN c ELSE IF o \in Running THEN None ELSE client[o]]

Ask(m) ==
  /\ stage[m] = "asking"
  /\ stage' = [stage EXCEPT ![m] = "waiting"]
  /\ SendTask(m, via[m])
  /\ UNCHANGED <<connVars, exits, via, entry>>

Settled_IfResolved(m) == phase[m] = "resolved"
Settled(m) == phase[m] \in {"resolved", "rejected"}

Finish_KeepsEntry(m) ==
  LET c == via[m]
  IN  /\ stage[m] = "waiting" /\ Settled(m)
      /\ stage' = [stage EXCEPT ![m] = "ended"]
      /\ busy' = [busy EXCEPT ![c] = FALSE] /\ since' = [since EXCEPT ![c] = "null"]
      /\ unset' = [unset EXCEPT ![c] = @ /\ Handling(c) # {m}]
      /\ UNCHANGED <<conn, bound, taskVars, entry, via>>

\* The reply or the inline fallback has been saved.  finally: the flag of the
\* connection, and the session's entry, whatever task it names.
Finish(m) ==
  LET c == via[m]
  IN  /\ stage[m] = "waiting" /\ Settled(m)
      /\ stage' = [stage EXCEPT ![m] = "ended"]
      /\ busy' = [busy EXCEPT ![c] = FALSE] /\ since' = [since EXCEPT ![c] = "null"]
      /\ entry' = None
      /\ unset' = [unset EXCEPT ![c] = @ /\ Handling(c) # {m}]
      /\ UNCHANGED <<conn, bound, taskVars, via>>

\* processingGuardTimer, armed as long as the handler is in its try block, resets the
\* flag, whichever handler set it.
GuardTimer(m) ==
  /\ stage[m] \in {"asking", "waiting"} /\ busy[via[m]]
  /\ ResetFlag(via[m]) /\ since' = [since EXCEPT ![via[m]] = "null"]
  /\ UNCHANGED <<conn, bound, taskVars, stage, via, entry>>

\* auto_followup: a task of the worker's own, for the session's first connection.
Followup(c, m) ==
  /\ stage[m] = "new" /\ m \in Own
  /\ conn[c] = "open" /\ ~busy[c] /\ \A d \in Conns : d < c => conn[d] # "open"
  /\ via' = [via EXCEPT ![m] = c]
  /\ stage' = [stage EXCEPT ![m] = "followup"]
  /\ busy' = [busy EXCEPT ![c] = TRUE]
  /\ SendTask(m, c)
  /\ UNCHANGED <<conn, bound, since, unset, exits, entry>>

FollowupEnds(m) ==
  /\ stage[m] = "followup" /\ Settled(m)
  /\ stage' = [stage EXCEPT ![m] = "over"]
  /\ busy' = [busy EXCEPT ![via[m]] = FALSE]
  /\ unset' = [unset EXCEPT ![via[m]] = @ /\ Handling(via[m]) # {m}]
  /\ UNCHANGED <<conn, bound, since, taskVars, via, entry>>

\* dispatch_task of the API process, for the bound client if there is one.
Dispatch(m) ==
  /\ stage[m] = "new" /\ m \in Posted
  /\ stage' = [stage EXCEPT ![m] = "dispatched"]
  /\ SendTask(m, bound)
  /\ UNCHANGED <<connVars, exits, via, entry>>

----------------------------------------------------------------------------
(* The manager                                                               *)

\* A queued task is dequeued (and refused, sent, or queued again).
Dequeue(m) ==
  /\ phase[m] = "waiting"
  /\ SendTask(m, client[m])
  /\ UNCHANGED <<connVars, exits, stage, via, entry>>

\* task_complete, task_error
Answer(m, p) ==
  /\ m \in Running /\ p \in {"resolved", "rejected"}
  /\ phase' = [phase EXCEPT ![m] = p]
  /\ client' = WithoutClient({m})
  /\ entry' = IF entry = m THEN None ELSE entry
  /\ UNCHANGED <<connVars, exits, stage, via>>

\* The worker answers a task that is not pending any more.
LateAnswer(m) ==
  /\ phase[m] = "rejected" /\ entry = m
  /\ entry' = None
  /\ UNCHANGED <<connVars, taskVars, stage, via>>

\* idleTimer, maxTimer, and restartWorker, which does this to every task.
TaskTimeout(m) ==
  /\ m \in Running
  /\ phase' = [phase EXCEPT ![m] = "rejected"]
  /\ client' = WithoutClient({m})
  /\ UNCHANGED <<connVars, exits, stage, via, entry>>

\* frontend_event of a task whose client is gone.
WorkerEvent(m) ==
  /\ m \in Running /\ ~Open(client[m]) /\ Open(bound)
  /\ client' = [client EXCEPT ![m] = bound]
  /\ UNCHANGED <<connVars, phase, exits, stage, via, entry>>

\* The exit of the worker: every connection's flag is reset, and the tasks are to be
\* retried (again) or rejected.
WorkerExit ==
  /\ exits < MaxExits
  /\ exits' = exits + 1
  /\ busy' = [c \in Conns |-> FALSE]
  /\ since' = [c \in Conns |-> IF busy[c] THEN "null" ELSE since[c]]
  /\ unset' = [c \in Conns |-> Handling(c) # {} /\ (unset[c] \/ busy[c])]
  /\ \E again \in SUBSET Running :
       /\ phase' = [m \in Msgs |-> IF m \in again THEN "retrying"
                                   ELSE IF m \in Running THEN "rejected" ELSE phase[m]]
       /\ client' = WithoutClient(Running \ again)
  /\ entry' = IF Running # {} THEN None ELSE entry
  /\ UNCHANGED <<conn, bound, stage, via>>

\* The retry timer: to the new worker, with the entry taken again, or rejected.
Retry(m) ==
  /\ phase[m] = "retrying"
  /\ \/ /\ client[m] = None \/ Open(client[m])
        /\ phase' = [phase EXCEPT ![m] = "running"] /\ entry' = m
        /\ UNCHANGED client
     \/ /\ phase' = [phase EXCEPT ![m] = "rejected"]
        /\ client' = WithoutClient({m})
        /\ UNCHANGED entry
  /\ UNCHANGED <<connVars, exits, stage, via>>

StaleCleaner_OnlySettled ==
  /\ entry # None /\ phase[entry] = "resolved"
  /\ entry' = None
  /\ UNCHANGED <<connVars, taskVars, stage, via>>

\* The orchestrator's cleaner: an entry of over 30 s whose task is not pending.
StaleCleaner ==
  /\ entry # None /\ entry \notin Running
  /\ entry' = None
  /\ UNCHANGED <<connVars, taskVars, stage, via>>

----------------------------------------------------------------------------
(* The control messages                                                      *)

\* recover_task: the client of a running task takes it over and is busy; so is one that
\* finds a task, under way or ended, which no worker has, if its buffer is young and not
\* completed.
Recover(c, m) ==
  /\ conn[c] = "open"
  /\ \/ /\ m \in Running
        /\ client' = [client EXCEPT ![m] = c]
     \/ /\ m \notin Running /\ stage[m] \notin {"new", "refused", "sending"}
        /\ UNCHANGED client
  /\ busy' = [busy EXCEPT ![c] = TRUE]
  /\ UNCHANGED <<conn, bound, since, unset, phase, exits, stage, via, entry>>

\* The tasks a handler finds in pendingTasks as its connection's own.
Mine(c) == {m \in Running : client[m] = c}

\* cancel.  With a task of its own to cancel the handler ends in the TypeError of
\* workerManager._clearTaskTimers before anything is done: no step.
Cancel(c) ==
  /\ conn[c] = "open" /\ Mine(c) = {}
  /\ entry' = None
  /\ ResetFlag(c)
  /\ UNCHANGED <<conn, bound, since, taskVars, stage, via>>

\* abort_task, which ends so with any task of the session.
AbortTask(c) ==
  /\ conn[c] = "open" /\ Running = {}
  /\ entry' = None
  /\ ResetFlag(c)
  /\ UNCHANGED <<conn, bound, since, taskVars, stage, via>>

\* force_reset has reset the flag by the time it ends so.
ForceReset(c) ==
  /\ conn[c] = "open"
  /\ ResetFlag(c) /\ since' = [since EXCEPT ![c] = "null"]
  /\ IF Mine(c) # {}
     THEN UNCHANGED entry
     ELSE entry' = None
  /\ UNCHANGED <<conn, bound, taskVars, stage, via>>

----------------------------------------------------------------------------
Handler(m) == Register(m) \/ Ask(m) \/ Finish(m) \/ FollowupEnds(m)

Next ==
  \/ \E c \in Conns : \/ Connect(c) \/ BindChat(c) \/ Close(c) \/ Age(c)
                      \/ Cancel(c) \/ AbortTask(c) \/ ForceReset(c)
  \/ \E c \in Conns, m \in Msgs : Send(c, m) \/ Followup(c, m) \/ Recover(c, m)
  \/ \E m \in Msgs : \/ Handler(m) \/ GuardTimer(m) \/ Dispatch(m)
                     \/ Dequeue(m) \/ LateAnswer(m) \/ TaskTimeout(m) \/ WorkerEvent(m) \/ Retry(m)
                     \/ Answer(m, "resolved") \/ Answer(m, "rejected")
  \/ WorkerExit \/ StaleCleaner

Spec == Init /\ [][Next]_vars

\* Handlers get on, and the timers of a task, of a retry and of the cleaner fire.  Nothing
\* obliges a queued task to be dequeued, or a client to do anything.
Fairness ==
  /\ \A m \in Msgs : WF_vars(Handler(m)) /\ WF_vars(TaskTimeout(m) \/ Retry(m))
  /\ WF_vars(StaleCleaner)

FairSpec == Spec /\ Fairness

----------------------------------------------------------------------------
(* Properties                                                                *)

\* The busy flag of a connection keeps its handlers apart, unless it was reset under the
\* handlers the connection has (stale, guard timer, cancel, reset, exit of the worker), and
\* again once they have ended: neither the awaits before the entry is written, nor a
\* recovery, nor the finally of a handler that ends while another runs lets a further one in.
FlagExcludes == \A c \in Conns : ~unset[c] => Cardinality(Handling(c)) <= 1

\* A handler that has ended, or was refused, never holds the session's entry again: a
\* retry by the manager takes the entry only for a task whose handler still waits.
EntryOfHandler ==
  entry # None => stage[entry] \notin {"new", "refused", "sending", "ended"}

\* No entry stays for ever, though the finally of another handler, a retry, a cancel and
\* a cleaner all write it, and a timeout leaves it.
EntryFrees == []<>(entry = None)

\* A handler whose task is not parked in the queue (where it never gets back to) does not
\* wait for ever, whatever becomes of its connection, of the flag and of the worker.
HandlersEnd == \A m \in Msgs : []<>~(stage[m] = "waiting" /\ phase[m] # "waiting")

----------------------------------------------------------------------------
(* What the comments say and the code does not do                            *)

\* "Handle task recovery after client reconnection ... and restores processing state",
\* "isProcessing was stale ..., force-resetting": no connection stays busy for ever.
BusyEnds == \A c \in Conns : busy[c] ~> ~busy[c]

=============================================================================
