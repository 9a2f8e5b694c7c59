-------------------------- MODULE AutonomousQueue --------------------------
(***************************************************************************)
(* The queue of autonomous tasks: rows of the table autonomous_tasks,      *)
(* written by the HTTP handlers (agent/api/autonomous-task-api.mjs) and by *)
(* the poller of the API process (agent/services/background-jobs.mjs),     *)
(* which gives one task at a time to the WebSocket process.                *)
(*                                                                         *)
(* The dispatch is what RemoteCall promises: ImplementsCall of             *)
(* ChatPipeline shows it for a message, and the poller sends the same      *)
(* request.  The database is SQLite, whose statements are synchronous:     *)
(* statements that follow each other with nothing else to wait for are one *)
(* step.  The cron scheduler, which would add rows, is never started:      *)
(* api-server.mjs starts the jobs without a db (README).                   *)
(***************************************************************************)
EXTENDS Naturals, FiniteSets

CONSTANTS
  Tasks,        \* the tasks, numbered in the order of their creation
  Urgent,       \* those with a priority before the others'
  UserOf, Users,
  UserLimit,    \* maxConcurrent: unfinished tasks of a user
  None,         \* no task
  MaxStops,     \* bound of the model: stops of the API process
  MaxFaults     \* bound of the model: times the database refuses to write (busy)

ASSUME QueueAssumption ==
  /\ Tasks \subseteq Nat /\ IsFiniteSet(Tasks) /\ None \notin Tasks
  /\ Urgent \subseteq Tasks
  /\ UserOf \in [Tasks -> Users]
  /\ UserLimit \in Nat /\ MaxStops \in Nat /\ MaxFaults \in Nat

VARIABLES
  status,    \* of the row: "none" before its insertion, "refused" if there is none
  old,       \* the rows whose startedAt is more than 15 minutes ago
  api,       \* the API process: "up", "down"
  poller,    \* the task whose answer pollTaskQueue awaits (_taskPollerRunning)
  tries,     \* how often the task was dispatched
  call,      \* what the poller knows of a dispatch, as in RemoteCall
  outcome,   \*   and what became of the task in the WebSocket process
  stops, faults

rows  == <<status, old>>
calls == <<call, outcome>>
vars  == <<rows, api, poller, tries, calls, stops, faults>>

\* The dispatches: the n-th of a task.
Calls == Tasks \X (1..MaxStops + 1)
Dispatch == INSTANCE RemoteCall

Status  == {"none", "refused", "queued", "running", "completed", "failed", "cancelled"}
Settled == {"completed", "failed"}

TypeOK ==
  /\ status \in [Tasks -> Status] /\ old \subseteq Tasks
  /\ api \in {"up", "down"} /\ poller \in Tasks \cup {None}
  /\ tries \in [Tasks -> 0..MaxStops + 1]
  /\ call \in [Calls -> {"idle", "waiting", "unknown"} \cup Dispatch!Outcomes]
  /\ outcome \in [Calls -> {"none"} \cup Dispatch!Outcomes]
  /\ stops \in 0..MaxStops /\ faults \in 0..MaxFaults

Init ==
  /\ status = [t \in Tasks |-> "none"] /\ old = {}
  /\ api = "up" /\ poller = None
  /\ tries = [t \in Tasks |-> 0]
  /\ Dispatch!Init
  /\ stops = 0 /\ faults = 0

Running == {t \in Tasks : status[t] = "running"}
Queue   == {t \in Tasks : status[t] = "queued"}

\* A statement fails: the database stays busy for more than 5 s.
Fault == faults < MaxFaults /\ faults' = faults + 1

SetStatus(t, s) == status' = [status EXCEPT ![t] = s]

----------------------------------------------------------------------------
(* The HTTP handlers                                                         *)

Unfinished(u) == {t \in Tasks : UserOf[t] = u /\ status[t] \in {"running", "queued"}}

\* POST: refused by role, daily quota, or the number of the user's unfinished tasks;
\* a row otherwise, also when these could not be counted.
Submit(t) ==
  /\ api = "up" /\ status[t] = "none"
  /\ \A u \in Tasks : u < t => status[u] # "none"
  /\ \/ SetStatus(t, "refused") /\ UNCHANGED faults
     \/ /\ Cardinality(Unfinished(UserOf[t])) < UserLimit
        /\ SetStatus(t, "queued") /\ UNCHANGED faults
     \/ Fault /\ SetStatus(t, "queued")
  /\ UNCHANGED <<old, api, poller, tries, calls, stops>>

\* The operators named X_Y are X with a plausible bug Y; nothing uses them here.
Cancel_Unchecked(t) ==
  /\ api = "up" /\ status[t] \notin {"none", "refused"}
  /\ SetStatus(t, "cancelled")
  /\ UNCHANGED <<old, api, poller, tries, calls, stops, faults>>

\* POST cancel: of the row only.  Nobody tells the worker or the poller.
Cancel(t) ==
  /\ api = "up" /\ status[t] \in {"running", "queued"}
  /\ SetStatus(t, "cancelled")
  /\ UNCHANGED <<old, api, poller, tries, calls, stops, faults>>

----------------------------------------------------------------------------
(* pollTaskQueue                                                             *)

\* ORDER BY priority ASC, createdAt ASC
Before(t, u) == (t \in Urgent /\ u \notin Urgent) \/ ((t \in Urgent <=> u \in Urgent) /\ t < u)
First(t)     == t \in Queue /\ \A u \in Queue \ {t} : Before(t, u)

Asked(t) == <<t, tries[t]>>    \* the dispatch the poller awaits

\* With no row running the first queued one is marked and dispatched.
Poll(t) ==
  /\ api = "up" /\ poller = None
  /\ Cardinality(Running) < 1 /\ First(t)
  /\ SetStatus(t, "running") /\ old' = old \ {t}
  /\ poller' = t
  /\ tries' = [tries EXCEPT ![t] = @ + 1]
  /\ call' = [call EXCEPT ![<<t, tries[t] + 1>>] = "waiting"]
  /\ UNCHANGED <<api, outcome, stops, faults>>

\* The end of a poll: the row is written, whatever it says by now.
EndPoll(t, s) ==
  /\ poller = t /\ poller' = None
  /\ SetStatus(t, s)
  /\ UNCHANGED <<old, api, tries, outcome, stops>>

\* The answer.  An error is an answer too: the row says completed, with "no output".
\* If that cannot be written, failed is tried, and if that cannot either, the row stays.
Answered(t) ==
  /\ poller = t
  /\ call' = [call EXCEPT ![Asked(t)] = outcome[Asked(t)]] /\ Dispatch!Learn(Asked(t))
  /\ \/ EndPoll(t, "completed") /\ UNCHANGED faults
     \/ EndPoll(t, "failed") /\ Fault
     \/ EndPoll(t, status[t]) /\ Fault

Unanswered_Requeues(t) ==
  /\ poller = t
  /\ call' = [call EXCEPT ![Asked(t)] = "unknown"] /\ Dispatch!Lose(Asked(t))
  /\ EndPoll(t, "queued") /\ UNCHANGED faults

Unanswered_KeepsFlag(t) ==
  /\ poller = t
  /\ call' = [call EXCEPT ![Asked(t)] = "unknown"] /\ Dispatch!Lose(Asked(t))
  /\ SetStatus(t, "failed")
  /\ UNCHANGED <<old, api, poller, tries, outcome, stops, faults>>

\* No answer within 11 minutes, or the request could not be published.
Unanswered(t) ==
  /\ poller = t
  /\ call' = [call EXCEPT ![Asked(t)] = "unknown"] /\ Dispatch!Lose(Asked(t))
  /\ \/ EndPoll(t, "failed") /\ UNCHANGED faults
     \/ EndPoll(t, status[t]) /\ Fault

\* 15 minutes pass; an answer is awaited for 11 at most.
Ages(t) ==
  /\ t \in Running \ old /\ poller # t
  /\ old' = old \cup {t}
  /\ UNCHANGED <<status, api, poller, tries, calls, stops, faults>>

----------------------------------------------------------------------------
(* The processes                                                             *)

\* The task in the WebSocket process, asked for and not answered for yet.
WorkerEnds(c) ==
  /\ \E o \in Dispatch!Outcomes : outcome' = [outcome EXCEPT ![c] = o]
  /\ Dispatch!Run(c)
  /\ UNCHANGED <<rows, api, poller, tries, call, stops, faults>>

\* SIGTERM or a crash: rows stay as they are.
Stop ==
  /\ api = "up" /\ stops < MaxStops
  /\ stops' = stops + 1 /\ api' = "down" /\ poller' = None
  /\ call' = [c \in Calls |-> IF call[c] = "waiting" THEN "unknown" ELSE call[c]]
  /\ UNCHANGED <<rows, tries, outcome, faults>>

\* startBackgroundJobs: rows that have been running for over 15 minutes are queued again.
Start ==
  /\ api = "down" /\ api' = "up"
  /\ \/ /\ status' = [t \in Tasks |-> IF t \in Running \cap old THEN "queued" ELSE status[t]]
        /\ UNCHANGED faults
     \/ Fault /\ UNCHANGED status
  /\ UNCHANGED <<old, poller, tries, calls, stops>>

Next ==
  \/ \E t \in Tasks : \/ Submit(t) \/ Cancel(t) \/ Poll(t) \/ Answered(t) \/ Unanswered(t)
                      \/ Ages(t)
  \/ \E c \in Calls : WorkerEnds(c)
  \/ Stop \/ Start

Spec == Init /\ [][Next]_vars

\* The interval fires, the request times out, and a stopped process is started again.
\* Nothing is assumed of the worker, the users or the age of rows.
Fairness ==
  /\ WF_vars(\E t \in Tasks : Poll(t))
  /\ \A t \in Tasks : WF_vars(Answered(t) \/ Unanswered(t))
  /\ WF_vars(Start)

FairSpec == Spec /\ Fairness

----------------------------------------------------------------------------
(* Properties                                                                *)

\* A row that has completed or failed stays so: neither a cancel that comes late, nor
\* the recovery at a start, nor another poll brings it back.
SettledStays ==
  [][\A t \in Tasks : status[t] \in Settled => status'[t] = status[t]]_vars

\* A task is given to the worker once, and once more for each start of the API process:
\* a failed, lost, or cancelled dispatch is never repeated by the poller itself.
TriesBounded == \A t \in Tasks : tries[t] <= 1 + stops

\* A row that is running and that no poll will end: left by a stop, or by a database that
\* refused the end of a poll.
Abandoned == \E t \in Running : poller # t

\* A queued task leaves the queue, however the tasks before it end, unless there is an
\* abandoned row.
QueueMoves == \A t \in Tasks : status[t] = "queued" ~> status[t] # "queued" \/ Abandoned

\* "Also recover stale "running" tasks on startup (stuck from previous crash)": a task
\* that is queued leaves the queue, also after a stop.
QueueRecovers == \A t \in Tasks : status[t] = "queued" ~> status[t] # "queued"

----------------------------------------------------------------------------
(* What makes the safety properties inductive                                *)

\* A poll awaits an answer to a dispatch of a row that is running, or was cancelled since.
PollerOfRow ==
  poller # None =>
    /\ api = "up" /\ tries[poller] > 0
    /\ status[poller] \in {"running", "cancelled"}

\* A queued row, and one a start may queue again, was dispatched at most once per stop.
TriesCounted ==
  \A t \in Tasks :
    /\ tries[t] <= 1 + stops
    /\ status[t] \in {"none", "queued"} \/ (status[t] = "running" /\ api = "down")
         => tries[t] <= stops

\* One task at a time: no two rows are running, whatever stops, faults and recoveries
\* leave behind, and the one dispatch awaited is the poller's latest of its task.
OneAtATime ==
  /\ \A t, u \in Running : t = u
  /\ \A c \in Calls : call[c] = "waiting" <=> poller # None /\ c = Asked(poller)
  /\ \A c \in Calls : call[c] = "idle" <=> c[2] > tries[c[1]]

\* A row that says completed is of a task the worker has ended, with a result or an error:
\* "completed" is never written after a timeout, a lost dispatch or a stop.
CompletedRan ==
  \A t \in Tasks : status[t] = "completed" =>
    \E n \in 1..MaxStops + 1 : call[<<t, n>>] \in Dispatch!Outcomes /\ outcome[<<t, n>>] = call[<<t, n>>]

QInv == TypeOK /\ PollerOfRow /\ TriesCounted /\ OneAtATime /\ CompletedRan

=============================================================================
