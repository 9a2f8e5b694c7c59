----------------------------- MODULE TaskStore -----------------------------
(* The task records in Redis (task-store.mjs): a hash per task, the set of *)
(* active tasks, and per session the key of its current task. (The key of  *)
(* its last completed task only answers polls and is left out.) Two        *)
(* processes write them without a lock: the API process and the WebSocket  *)
(* process with its worker. A step is one command or one MULTI as Redis    *)
(* executes it, or what a process does between two commands; what a        *)
(* process read before an await is kept in the operation under way.        *)
(*                                                                         *)
(* Time: a task is old when 40 minutes (ACTIVE_TASK_TTL and the age that   *)
(* cleanupStaleTasks tests) have passed since its start. Keys kept for a   *)
(* day do not expire in the model.                                         *)
EXTENDS Naturals

CONSTANTS
  Tasks, Sessions, SessionOf,
  HomeOf,       \* the process whose handler started a task
  None,
  Cleaners,     \* bound: the processes whose cleanup runs (both do)
  Fallible,     \* bound: the processes that may be without Redis (both may)
  MaxFaults     \* bound: restarts of a process and lost connections

Procs == {"ws", "api"}
Links == {"up", "down", "gone"}
Status == {"absent", "bare", "running", "completed", "error"}
Final == {"completed", "error"}

ASSUME StoreAssumption ==
  /\ SessionOf \in [Tasks -> Sessions] /\ HomeOf \in [Tasks -> Procs]
  /\ Cleaners \subseteq Procs /\ Fallible \subseteq Procs
  /\ None \notin Tasks /\ MaxFaults \in Nat

VARIABLES
  \* Redis
  status,     \* of the record of a task: "bare" is a hash without a status
  named,      \* the records that name their session
  short,      \* the records with the TTL of 40 minutes
  live,       \* tasks:active
  active,     \* session:{key}
  old,        \* the tasks started more than 40 minutes ago
  \* the processes
  conn,       \* the client of a process: connected, reconnecting, or given up
  armed,      \* has the WebSocket process armed its cleanup?
  begun,      \* the tasks that have begun
  working,    \* the tasks whose worker may still report something
  handled,    \* the tasks whose handler may still complete them
  cleaner,    \* cleanupStaleTasks of a process: the members it has yet to visit
  poll,       \* getActiveTask: the key it read, and the task that named
  waits,      \* is the recovery of the startup still to come?
  resumable,  \* the tasks it has yet to resume
  resuming,   \* the task it has read and not yet written
  faults

ready(p) == conn[p] = "up"
LinksOf(p) == IF p \in Fallible THEN Links ELSE {"up"}

record == <<status, named, short>>
redis == <<record, live, active, old>>
links == <<conn, armed>>
recovery == <<waits, resumable, resuming>>
callers == <<begun, working, handled>>
vars == <<redis, links, callers, cleaner, poll, recovery, faults>>

TypeOK ==
  /\ status \in [Tasks -> Status]
  /\ named \subseteq Tasks /\ short \subseteq Tasks
  /\ live \subseteq Tasks /\ old \subseteq Tasks
  /\ active \in [Sessions -> Tasks \cup {None}]
  /\ conn \in [Procs -> Links] /\ armed \in BOOLEAN
  /\ begun \subseteq Tasks /\ working \subseteq begun /\ handled \subseteq begun
  /\ cleaner \in [Procs -> SUBSET Tasks]
  /\ poll \in (Sessions \X Tasks) \cup {<<>>}
  /\ waits \in BOOLEAN /\ resumable \subseteq Tasks
  /\ resuming \in Tasks \cup {None}
  /\ faults \in 0..MaxFaults

\* Both processes wait for their first connection, or until it is given up, before
\* they serve (redisPool.connect); it may be lost again before the WebSocket process
\* tests it, which then never arms its cleanup.
Init ==
  /\ status = [t \in Tasks |-> "absent"] /\ named = {} /\ short = {}
  /\ live = {} /\ old = {}
  /\ active = [s \in Sessions |-> None]
  /\ conn \in {c \in [Procs -> Links] : \A p \in Procs : c[p] \in LinksOf(p)}
  /\ armed = ready("ws")
  /\ begun = {} /\ working = {} /\ handled = {}
  /\ cleaner = [p \in Procs |-> {}] /\ poll = <<>>
  /\ waits = FALSE /\ resumable = {} /\ resuming = None /\ faults = 0

-----------------------------------------------------------------------------
(* The life of a task.                                                       *)

Start_SwapsArguments(t) ==
  LET s == SessionOf[t] IN
  /\ t \notin begun /\ begun' = begun \cup {t}
  /\ working' = working \cup {t} /\ handled' = handled \cup {t}
  /\ status' = [status EXCEPT ![t] = "running"]
  /\ named' = named \cup {t} /\ short' = short \cup {t}
  /\ active' = [active EXCEPT ![s] = s]
  /\ live' = live \cup {t}
  /\ UNCHANGED <<old, links, cleaner, poll, recovery, faults>>

\* A task begins: its handler and its worker will report the end.  startTask
\* is one MULTI, and does nothing without Redis.
Start(t) ==
  LET s == SessionOf[t] IN
  /\ t \notin begun /\ begun' = begun \cup {t}
  /\ working' = working \cup {t} /\ handled' = handled \cup {t}
  /\ IF ready(HomeOf[t])
     THEN /\ status' = [status EXCEPT ![t] = "running"]
          /\ named' = named \cup {t} /\ short' = short \cup {t}
          /\ active' = [active EXCEPT ![s] = t]
          /\ live' = live \cup {t}
     ELSE UNCHANGED <<record, live, active>>
  /\ UNCHANGED <<old, links, cleaner, poll, recovery, faults>>

\* addEvent, in the WebSocket process: the hash gets a time stamp, also when it had
\* expired, and the short TTL, also when the task is over.
AddEvent(t) ==
  /\ t \in working /\ ready("ws")
  /\ short' = short \cup {t}
  /\ status' = [status EXCEPT ![t] = IF @ = "absent" THEN "bare" ELSE @]
  /\ UNCHANGED <<named, live, active, old, links, callers, cleaner, poll, recovery, faults>>

\* completeTask and failTask: the keys of the session go, whichever task they
\* name.  The session of a record never changes, so that reading it (HGET) and
\* the MULTI that follows are one step.
End(t, as) ==
  LET s == SessionOf[t] IN
  /\ status' = [status EXCEPT ![t] = as]
  /\ short' = short \ {t} /\ UNCHANGED named
  /\ live' = live \ {t}
  /\ active' = IF t \in named THEN [active EXCEPT ![s] = None] ELSE active

\* The worker's answer, or its death, is reported by the WebSocket process;
\* without Redis the report is lost.  A worker may go on after a task's error or
\* timeout: events and another end may follow, until the process restarts.
WorkerEnds(t, as) ==
  /\ t \in working
  /\ IF ready("ws") THEN End(t, as) ELSE UNCHANGED <<record, live, active>>
  /\ UNCHANGED <<old, callers, links, cleaner, poll, recovery, faults>>

\* The handler of a message - its finally block, its guard timer or the stale
\* cleaner - completes the task, or finds that another one has done so.
HandlerEnds(t) ==
  /\ t \in handled /\ handled' = handled \ {t}
  /\ \/ ready(HomeOf[t]) /\ End(t, "completed")
     \/ UNCHANGED <<record, live, active>>
  /\ UNCHANGED <<old, begun, working, links, cleaner, poll, recovery, faults>>

-----------------------------------------------------------------------------
(* The cleanup, every five minutes in each process and at the start of one.  *)

\* The API process always arms its cleanup.
Sweeps(p) == p \in Cleaners /\ (p = "api" \/ armed)

CleanBegin(p) ==
  /\ Sweeps(p) /\ cleaner[p] = {} /\ ready(p)
  /\ cleaner' = [cleaner EXCEPT ![p] = live]
  /\ UNCHANGED <<redis, links, callers, poll, recovery, faults>>

Visit_SkipsExpired(p, t) ==
  /\ t \in cleaner[p] /\ ready(p)
  /\ cleaner' = [cleaner EXCEPT ![p] = @ \ {t}]
  /\ IF status[t] \notin {"absent", "bare"} /\ t \in old
     THEN End(t, "error") ELSE UNCHANGED <<record, live, active>>
  /\ UNCHANGED <<old, links, callers, poll, recovery, faults>>

\* A member that was read before: one whose record has expired is dropped, an
\* old one fails, whatever its status is by now.  Reading the record and
\* writing are one step: what may come between may as well come before.
Visit(p, t) ==
  /\ t \in cleaner[p] /\ ready(p)
  /\ cleaner' = [cleaner EXCEPT ![p] = @ \ {t}]
  /\ CASE status[t] \in {"absent", "bare"} ->
            live' = live \ {t} /\ UNCHANGED <<record, active>>
       [] status[t] \notin {"absent", "bare"} /\ t \in old -> End(t, "error")
       [] OTHER -> UNCHANGED <<record, live, active>>
  /\ UNCHANGED <<old, links, callers, poll, recovery, faults>>

\* Without Redis the loop ends in a TypeError.
CleanFails(p) ==
  /\ cleaner[p] # {} /\ ~ready(p)
  /\ cleaner' = [cleaner EXCEPT ![p] = {}]
  /\ UNCHANGED <<redis, links, callers, poll, recovery, faults>>

-----------------------------------------------------------------------------
(* A client polls the session over HTTP or reconnects (getSessionState).     *)

\* The key is read, then the record it names, and if that is not running the
\* key is deleted, though it may name another task by now; or the process has lost
\* Redis or stopped in between.
Poll(s) ==
  /\ poll = <<>> /\ active[s] # None
  /\ \E p \in Procs : ready(p)
  /\ poll' = <<s, active[s]>>
  /\ UNCHANGED <<redis, links, callers, cleaner, recovery, faults>>

PollEnds ==
  /\ poll # <<>> /\ poll' = <<>>
  /\ \/ /\ \E p \in Procs : ready(p)
        /\ status[poll[2]] # "running"
        /\ active' = [active EXCEPT ![poll[1]] = None]
     \/ UNCHANGED active
  /\ UNCHANGED <<record, live, old, links, callers, cleaner, recovery, faults>>

-----------------------------------------------------------------------------
(* Restart of a process, and the recovery of the WebSocket process ten       *)
(* seconds later.                                                            *)

\* The handlers of the process and its operations under way are gone, with the
\* WebSocket process the worker too.  A new client connects, or gives up.
Restart(p) ==
  /\ faults < MaxFaults /\ faults' = faults + 1
  /\ handled' = {t \in handled : HomeOf[t] # p}
  /\ cleaner' = [cleaner EXCEPT ![p] = {}]
  /\ \E c \in LinksOf(p) : conn' = [conn EXCEPT ![p] = c]
  /\ \/ /\ p = "ws"
        /\ armed' = (conn'[p] = "up") /\ working' = {}
        /\ waits' = TRUE /\ resumable' = {} /\ resuming' = None
     \/ p = "api" /\ UNCHANGED <<armed, working, recovery>>
  /\ UNCHANGED <<redis, begun, poll>>

\* getResumableTasks: the members whose record says running.
ResumeScan ==
  /\ waits /\ waits' = FALSE
  /\ resumable' = IF ready("ws") THEN {t \in live : status[t] = "running"} ELSE {}
  /\ UNCHANGED <<redis, links, callers, cleaner, poll, resuming, faults>>

\* resumeTask reads the record again, and goes on unless it is completed.
ResumeRead(t) ==
  /\ t \in resumable /\ resuming = None
  /\ resumable' = resumable \ {t}
  /\ resuming' = IF ready("ws") /\ status[t] \in {"running", "error"} THEN t ELSE None
  /\ UNCHANGED <<redis, links, callers, cleaner, poll, waits, faults>>

\* The record says running again, and by another command, which may come late or be
\* lost, for a day; nothing is sent to a worker, and neither the set nor the
\* session's key is touched.
ResumeWrite ==
  /\ resuming # None /\ resuming' = None
  /\ IF ready("ws")
     THEN /\ status' = [status EXCEPT ![resuming] = "running"]
          /\ short' \in {short, short \ {resuming}}
     ELSE UNCHANGED <<status, short>>
  /\ UNCHANGED <<named, live, active, old, links, callers, cleaner, poll, waits,
                 resumable, faults>>

-----------------------------------------------------------------------------
(* Time and the connections.                                                 *)

Age_KeepsKey(t) ==
  /\ t \in begun \ old
  /\ old' = old \cup {t}
  /\ UNCHANGED <<record, live, active, links, callers, cleaner, poll, recovery, faults>>

\* Forty minutes after its start the key that a task gave its session expires.
Age(t) ==
  /\ t \in begun \ old
  /\ old' = old \cup {t}
  /\ active' = [s \in Sessions |-> IF active[s] = t THEN None ELSE active[s]]
  /\ UNCHANGED <<record, live, links, callers, cleaner, poll, recovery, faults>>

\* The hash lives as long after its last event, so it outlives that key.
Expire(t) ==
  /\ t \in old \cap short
  /\ status' = [status EXCEPT ![t] = "absent"]
  /\ named' = named \ {t} /\ short' = short \ {t}
  /\ UNCHANGED <<live, active, old, links, callers, cleaner, poll, recovery, faults>>

RedisLost(p) ==
  /\ p \in Fallible /\ ready(p) /\ conn' = [conn EXCEPT ![p] = "down"]
  /\ faults < MaxFaults /\ faults' = faults + 1
  /\ UNCHANGED <<redis, armed, callers, cleaner, poll, recovery>>

RedisReady(p) ==
  /\ conn[p] = "down" /\ conn' = [conn EXCEPT ![p] = "up"]
  /\ UNCHANGED <<redis, armed, callers, cleaner, poll, recovery, faults>>

\* After 50 attempts the client ends its retries, and connect() has only the promise
\* of the first connection to return: the process is without Redis until it restarts.
GivesUp(p) ==
  /\ conn[p] = "down" /\ conn' = [conn EXCEPT ![p] = "gone"]
  /\ UNCHANGED <<redis, armed, callers, cleaner, poll, recovery, faults>>

-----------------------------------------------------------------------------
Clean(p) ==
  \/ CleanBegin(p) \/ CleanFails(p)
  \/ \E t \in Tasks : Visit(p, t)

Reconnect(p) == RedisReady(p) \/ GivesUp(p)

Next ==
  \/ \E t \in Tasks : Start(t) \/ AddEvent(t) \/ HandlerEnds(t)
  \/ \E t \in Tasks, as \in Final : WorkerEnds(t, as)
  \/ \E p \in Procs : Clean(p) \/ Restart(p) \/ RedisLost(p) \/ Reconnect(p)
  \/ \E s \in Sessions : Poll(s)
  \/ PollEnds \/ ResumeScan \/ ResumeWrite
  \/ \E t \in Tasks : ResumeRead(t) \/ Age(t) \/ Expire(t)

Spec == Init /\ [][Next]_vars

\* Commands are answered, the timers of a cleanup fire, a client that lost Redis is
\* back or gives up after its 50 attempts, and time passes: less than what Node
\* guarantees each process, and enough.  Nothing obliges Redis to be there in time, nor
\* a worker or a handler to report an end.
Fairness ==
  /\ WF_vars(\E p \in Procs : Clean(p))
  /\ WF_vars(\E p \in Procs : Reconnect(p))
  /\ WF_vars(\E t \in Tasks : Age(t))

FairSpec == Spec /\ Fairness

-----------------------------------------------------------------------------
(* Properties.                                                               *)

\* Neither tasks:active nor the key of a session names a task that has ended:
\* the MULTI that ends a task removes it from the set and deletes the key, and
\* where it cannot know the session any more, because the record has expired,
\* the key has expired before (startTask, completeTask, failTask and their
\* TTLs).
NamedAreUnfinished ==
  /\ \A t \in live : status[t] \notin Final
  /\ \A s \in Sessions : active[s] # None => status[active[s]] \notin Final

\* No process cleans: its client has given up, or its cleanup was never armed.
Unswept == \A p \in Procs : conn[p] = "gone" \/ ~Sweeps(p)

\* A task leaves tasks:active, whoever fails to report its end: the cleanup of
\* either process fails it when it is old, or drops it when its record has
\* expired, through restarts and lost connections, as long as one process is left
\* that cleans and whose client has not given up (cleanupStaleTasks).
ActiveDrains == \A t \in Tasks : []<>(t \notin live \/ Unswept)
=============================================================================
