---------------------------- MODULE EventBuffer ----------------------------
(***************************************************************************)
(* The buffers of a session's stream events, from which a client that      *)
(* comes back is served (agent/modules/event-buffer.mjs): one instance in  *)
(* the API process and one in the WebSocket process, with one directory of *)
(* copies on disk between them.  The worker's events always arrive in the  *)
(* WebSocket process; startTask runs where the message came in.            *)
(*                                                                         *)
(* An event is its number in the task's stream and a kind; what the code   *)
(* decides by timestamps of events is not modelled.  All tasks are of one  *)
(* session.                                                                *)
(***************************************************************************)
EXTENDS Integers, Sequences, FiniteSets

CONSTANTS
  Tasks, HomeOf,   \* the tasks, and the process each is started in
  None,            \* no buffer, no file, no task
  Cap, Keep,       \* 5000 events, of which an overflow keeps 4000
  PersistEvery,    \* 10
  MaxEvents,       \* bound of the model: events of each task
  MaxCrashes       \* bound of the model: stops of a process

Procs == {"api", "ws"}

ASSUME BufferAssumption ==
  /\ HomeOf \in [Tasks -> Procs]
  /\ None \notin Tasks
  /\ PersistEvery \in Nat \ {0} /\ Keep \in Nat /\ Cap \in Nat
  /\ Keep <= Cap /\ Keep % PersistEvery = 0
  /\ MaxEvents \in [Tasks -> Nat] /\ MaxCrashes \in Nat

VARIABLES
  mem,      \* buffers of each process
  index,    \* sessionIndex of each process: its task of the session
  disk,     \* the files
  timers,   \* of completeTask: <<"memory" or "file", process, task>>
  work,     \* the task in the worker manager
  emitted,  \* number of events of the task so far
  crashes

vars == <<mem, index, disk, timers, work, emitted, crashes>>

Events == [n : Nat, kind : {"chunk", "end", "idle"}]
\* known: the buffer has its session (a late result may be buffered under "unknown").
Buffers == [events : Seq(Events), completed : BOOLEAN, known : BOOLEAN]

ASSUME NoneIsNoBuffer == None \notin Buffers

Fresh_Partial == [events |-> <<>>, known |-> TRUE]
Fresh == [events |-> <<>>, completed |-> FALSE, known |-> TRUE]

TypeOK ==
  /\ DOMAIN mem = Procs /\ \A p \in Procs : mem[p] \in [Tasks -> Buffers \cup {None}]
  /\ index \in [Procs -> Tasks \cup {None}]
  /\ disk \in [Tasks -> Buffers \cup {None}]
  /\ timers \subseteq {"memory", "file"} \X Procs \X Tasks
  \* "late": rejected, but the worker goes on; "over": no more events.
  /\ work \in [Tasks -> {"new", "running", "late", "over"}]
  /\ emitted \in [Tasks -> Nat] /\ \A t \in Tasks : emitted[t] <= MaxEvents[t]
  /\ crashes \in 0..MaxCrashes

Init ==
  /\ mem = [p \in Procs |-> [t \in Tasks |-> None]]
  /\ index = [p \in Procs |-> None]
  /\ disk = [t \in Tasks |-> None]
  /\ timers = {}
  /\ work = [t \in Tasks |-> "new"]
  /\ emitted = [t \in Tasks |-> 0]
  /\ crashes = 0

----------------------------------------------------------------------------
(* Operations on a buffer                                                    *)

Event(t, kind) == [n |-> emitted[t] + 1, kind |-> kind]

Overflow(s) == IF Len(s) > Cap THEN SubSeq(s, Len(s) - Keep + 1, Len(s)) ELSE s

\* addEvent, without its write.
Add(b, e) == [b EXCEPT !.events = Overflow(Append(@, e))]
Done(b)   == [b EXCEPT !.completed = TRUE]
HasKind(b, kinds) == \E i \in DOMAIN b.events : b.events[i].kind \in kinds

SetMem(p, t, b) == mem' = [mem EXCEPT ![p][t] = b]
Write(t, b)     == disk' = [disk EXCEPT ![t] = b]

Start_NoWrite(t) ==
  LET p == HomeOf[t]
  IN  /\ work[t] = "new" /\ work' = [work EXCEPT ![t] = "running"]
      /\ SetMem(p, t, Fresh) /\ index' = [index EXCEPT ![p] = t]
      /\ UNCHANGED <<disk, timers, emitted, crashes>>

\* startTask, in the process that took the message.
Start(t) ==
  LET p == HomeOf[t]
  IN  /\ work[t] = "new" /\ work' = [work EXCEPT ![t] = "running"]
      /\ SetMem(p, t, Fresh) /\ index' = [index EXCEPT ![p] = t]
      /\ Write(t, Fresh)
      /\ UNCHANGED <<timers, emitted, crashes>>

Persists_OffByOne(b) == Len(b.events) % PersistEvery = 1
Persists(b) == Len(b.events) % PersistEvery = 0

\* frontend_event: addEvent in the WebSocket process, ignored without a buffer.
Emit(t, kind) ==
  /\ work[t] \in {"running", "late"} /\ emitted[t] < MaxEvents[t]
  /\ emitted' = [emitted EXCEPT ![t] = @ + 1]
  /\ IF mem["ws"][t] = None
     THEN UNCHANGED <<mem, disk>>
     ELSE LET b == Add(mem["ws"][t], Event(t, kind))
          IN  SetMem("ws", t, b) /\ IF Persists(b) THEN Write(t, b) ELSE UNCHANGED disk
  /\ UNCHANGED <<index, timers, work, crashes>>

\* completeTask: by the end of the handler or pipeline, a guard, a cleaner, a reset, a
\* cancel, or the death of the worker.  The session's index goes, whatever task it names.
Complete(p, t) ==
  /\ mem[p][t] # None /\ (p = "ws" \/ HomeOf[t] = p)
  /\ LET b == Done(mem[p][t]) IN SetMem(p, t, b) /\ Write(t, b)
  /\ index' = [index EXCEPT ![p] = IF mem[p][t].known THEN None ELSE @]
  /\ timers' = timers \cup {<<"memory", p, t>>, <<"file", p, t>>}
  /\ UNCHANGED <<work, emitted, crashes>>

\* 300 s and 1800 s later.
Forget(p, t) ==
  /\ <<"memory", p, t>> \in timers /\ timers' = timers \ {<<"memory", p, t>>}
  /\ SetMem(p, t, None)
  /\ UNCHANGED <<index, disk, work, emitted, crashes>>

Unlink(p, t) ==
  /\ <<"file", p, t>> \in timers /\ <<"memory", p, t>> \notin timers
  /\ timers' = timers \ {<<"file", p, t>>}
  /\ Write(t, None)
  /\ UNCHANGED <<mem, index, work, emitted, crashes>>

\* markCompleted, in the WebSocket process: the memory gets an idle event and is written,
\* then the file is read back and gets another.
MarkedMem(t, b)  == IF b = None THEN None ELSE Done([b EXCEPT !.events = Append(@, Event(t, "idle"))])
MarkedDisk(t, b) == MarkedMem(t, IF b = None THEN disk[t] ELSE MarkedMem(t, b))

----------------------------------------------------------------------------
(* The session's task                                                        *)

\* getActiveTask: the index, or any unfinished file, which then replaces the buffer.
Unfinished == {t \in Tasks : disk[t] # None /\ disk[t].known /\ ~disk[t].completed}
Indexed(p) == {t \in Tasks : t = index[p] /\ mem[p][t] # None /\ ~mem[p][t].completed}
Active(p)  == IF Indexed(p) # {} THEN Indexed(p) ELSE Unfinished
Loaded_Merges(p, t) ==
  IF t \in Indexed(p) THEN mem[p][t]
  ELSE [disk[t] EXCEPT !.events = @ \o (IF mem[p][t] = None THEN <<>> ELSE mem[p][t].events)]
Loaded(p, t) == IF t \in Indexed(p) THEN mem[p][t] ELSE disk[t]

\* A poll of the session's state, in the API process.  (It may load tasks of the other
\* process too; what it loads of those it never writes.)
Poll ==
  /\ \E t \in {u \in Active("api") : HomeOf[u] = "api"} :
       SetMem("api", t, Loaded("api", t)) /\ index' = [index EXCEPT !["api"] = t]
  /\ UNCHANGED <<disk, timers, work, emitted, crashes>>

\* recover_task with an active task: a worker has it, or its file says how it ended, or
\* it is old (over 2 min), or it is left as it is.  A task that runs but waits in the
\* queue, for a retry, or for sendTask is completed like one that has ended.
RecoverActive(t) ==
  /\ t \in Active("ws")
  /\ index' = [index EXCEPT !["ws"] = t]
  /\ LET b == Loaded("ws", t)
     IN  \/ /\ work[t] = "running" \/ ~HasKind(b, {"end", "idle"})
            /\ SetMem("ws", t, b) /\ UNCHANGED <<disk, emitted>>
         \/ /\ emitted[t] < MaxEvents[t]
            /\ SetMem("ws", t, MarkedMem(t, b)) /\ Write(t, MarkedDisk(t, b))
            /\ emitted' = [emitted EXCEPT ![t] = @ + 1]
  /\ UNCHANGED <<timers, work, crashes>>

\* recover_task without one: the events of a pending or of a completed task are read,
\* from the file if there is no buffer.
RecoverOther(t) ==
  /\ Active("ws") = {}
  /\ mem["ws"][t] = None /\ disk[t] # None
  /\ \/ work[t] = "running"
     \/ (\A u \in Tasks : work[u] # "running") /\ disk[t].completed /\ disk[t].known
  /\ SetMem("ws", t, disk[t])
  /\ UNCHANGED <<index, disk, timers, work, emitted, crashes>>

----------------------------------------------------------------------------
(* The worker manager                                                        *)

Work(t, from, to) == work[t] \in from /\ work' = [work EXCEPT ![t] = to]

\* Settled by its timeout, while the worker goes on.
Reject(t) == Work(t, {"running"}, "late") /\ UNCHANGED <<mem, index, disk, timers, emitted, crashes>>

\* The last message of the worker about the task, or the death of the worker.
End(t) == Work(t, {"running", "late"}, "over") /\ UNCHANGED <<mem, index, disk, timers, emitted, crashes>>

\* _retryFailedTasks without a ready worker.
RetryRefused(t) ==
  /\ Work(t, {"running"}, "over") /\ emitted[t] < MaxEvents[t]
  /\ SetMem("ws", t, MarkedMem(t, mem["ws"][t])) /\ Write(t, MarkedDisk(t, mem["ws"][t]))
  /\ emitted' = [emitted EXCEPT ![t] = @ + 1]
  /\ UNCHANGED <<index, timers, crashes>>

LateResult_Reopens(t) ==
  /\ Work(t, {"late"}, "over") /\ emitted[t] < MaxEvents[t]
  /\ mem["ws"][t] # None
  /\ LET b == Add([mem["ws"][t] EXCEPT !.completed = FALSE], Event(t, "end"))
     IN  SetMem("ws", t, b) /\ Write(t, b)
  /\ emitted' = [emitted EXCEPT ![t] = @ + 1]
  /\ UNCHANGED <<index, timers, crashes>>

\* The result of a task nobody waits for: its buffer, or a new one of an unknown session,
\* gets the result as a stream (its last event stands for all four).
LateResult(t) ==
  /\ Work(t, {"late"}, "over") /\ emitted[t] < MaxEvents[t]
  /\ LET old == mem["ws"][t]
         b   == Done(Add(IF old = None THEN [Fresh EXCEPT !.known = FALSE] ELSE old, Event(t, "end")))
     IN  /\ old # None => ~HasKind(old, {"end"})
         /\ SetMem("ws", t, b) /\ Write(t, b)
         /\ timers' = IF old = None THEN timers \cup {<<"memory", "ws", t>>, <<"file", "ws", t>>}
                      ELSE timers
  /\ emitted' = [emitted EXCEPT ![t] = @ + 1]
  /\ UNCHANGED <<index, crashes>>

\* A process stops and starts again: its buffers, index and timers are gone; with the
\* WebSocket process the worker goes too.
Crash(p) ==
  /\ crashes < MaxCrashes /\ crashes' = crashes + 1
  /\ mem' = [mem EXCEPT ![p] = [t \in Tasks |-> None]]
  /\ index' = [index EXCEPT ![p] = None]
  /\ timers' = {x \in timers : x[2] # p}
  /\ work' = [t \in Tasks |-> IF p = "ws" /\ work[t] # "new" THEN "over" ELSE work[t]]
  /\ UNCHANGED <<disk, emitted>>

Next ==
  \/ \E t \in Tasks :
       \/ Start(t) \/ Reject(t) \/ End(t) \/ RetryRefused(t) \/ LateResult(t)
       \/ RecoverActive(t) \/ RecoverOther(t)
       \/ \E kind \in {"chunk", "end"} : Emit(t, kind)
       \/ \E p \in Procs : Complete(p, t) \/ Forget(p, t) \/ Unlink(p, t)
  \/ Poll
  \/ \E p \in Procs : Crash(p)

Spec == Init /\ [][Next]_vars

----------------------------------------------------------------------------
(* Properties                                                                *)

Streaming(t) == HomeOf[t] = "ws" /\ mem["ws"][t] # None /\ ~mem["ws"][t].completed

\* "Fallback: scan disk for recovery after restart": the file of an unfinished task of
\* this process is its buffer up to less than PersistEvery events, overflow or not, so a
\* crash loses no more than those.
DiskLag ==
  \A t \in Tasks : Streaming(t) =>
    /\ disk[t] # None
    /\ LET m == mem["ws"][t].events  d == disk[t].events
       IN  Len(m) - Len(d) \in 0..PersistEvery - 1 /\ d = SubSeq(m, 1, Len(d))

\* What there is of a task: its buffers and its file.
Copies(t) == ({mem[p][t] : p \in Procs} \cup {disk[t]}) \ {None}

\* Whichever copy a client that comes back is served from, of either process or the file,
\* running or completed: it is given an event once at most, and in the order they came,
\* though an overflow cuts a buffer, a reload replaces one by its file while it streams (its
\* index was deleted by the end of an older task), and events of a worker that goes on
\* follow those of a late result.  Only the idle event by which markCompleted closes a
\* stream may be there twice.
ReplayInOrder ==
  \A t \in Tasks : \A b \in Copies(t) :
    LET s == b.events
    IN  \A i, j \in DOMAIN s : i < j =>
          s[i].n < s[j].n \/ (b.completed /\ s[i].kind = "idle" /\ s[j] = s[i])

\* A client that comes back finds an unfinished task, though completing another task of
\* the session deletes the index that names it.
UnfinishedIsFound == \A t \in Tasks : Streaming(t) => t \in Indexed("ws") \cup Unfinished

\* A task started in the WebSocket process that was completed on disk is never found as
\* unfinished again: neither events of a worker that goes on, nor a late result, nor a
\* reload reopen it.
CompletionSticks ==
  [][\A t \in Tasks :
       HomeOf[t] = "ws" /\ disk[t] # None /\ disk[t].completed /\ disk'[t] # None
         => disk'[t].completed]_vars

=============================================================================
