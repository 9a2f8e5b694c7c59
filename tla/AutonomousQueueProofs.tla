----------------------- MODULE AutonomousQueueProofs -----------------------
(* The safety properties of AutonomousQueue, for every set of tasks, every   *)
(* limit and every number of stops and faults.                               *)
EXTENDS AutonomousQueue, FiniteSetTheorems, TLAPS

LEMMA InitInv == Init => QInv
<1> SUFFICES ASSUME Init PROVE QInv
  OBVIOUS
<1> USE QueueAssumption DEF Init
<1>1. TypeOK
  <2>1. call \in [Calls -> {"idle", "waiting", "unknown"} \cup Dispatch!Outcomes]
    BY DEF Dispatch!Init
  <2>2. outcome \in [Calls -> {"none"} \cup Dispatch!Outcomes]
    BY DEF Dispatch!Init
  <2>3. tries \in [Tasks -> 0..MaxStops + 1] /\ status \in [Tasks -> Status]
    BY DEF Status
  <2>4. stops \in 0..MaxStops /\ faults \in 0..MaxFaults /\ old \subseteq Tasks
    OBVIOUS
  <2> QED BY <2>1, <2>2, <2>3, <2>4 DEF TypeOK
<1>2. PollerOfRow /\ TriesCounted
  BY DEF PollerOfRow, TriesCounted
<1>3. OneAtATime /\ CompletedRan
  BY DEF OneAtATime, CompletedRan, Running, Calls, Dispatch!Init
<1> QED BY <1>1, <1>2, <1>3 DEF QInv

\* A poll that ends leaves its row in any state but "queued", and no poll under way.
LEMMA EndKeeps ==
  ASSUME QInv, NEW t \in Tasks, EndPoll(t, "completed") \/ EndPoll(t, "failed")
                                \/ EndPoll(t, status[t])
  PROVE  /\ status' \in [Tasks -> Status] /\ PollerOfRow' /\ TriesCounted'
         /\ UNCHANGED <<old, api, tries, outcome, stops>> /\ poller' = None
<1>1. PICK s \in {"completed", "failed", status[t]} : EndPoll(t, s)
  OBVIOUS
<1>2. status' = [status EXCEPT ![t] = s]
  BY <1>1 DEF EndPoll, SetStatus
<1>3. poller = t /\ poller # None /\ status[t] \in {"running", "cancelled"} /\ api = "up"
  BY <1>1, QueueAssumption DEF EndPoll, QInv, PollerOfRow
<1>4. s \in {"completed", "failed", "running", "cancelled"}
  BY <1>3
<1>5. status' \in [Tasks -> Status]
  BY <1>2, <1>4 DEF QInv, TypeOK, Status
<1>6. PollerOfRow' /\ UNCHANGED <<old, api, tries, outcome, stops>> /\ poller' = None
  BY <1>1 DEF EndPoll, PollerOfRow
<1>7. TriesCounted'
  BY <1>2, <1>3, <1>4, <1>6 DEF QInv, TypeOK, TriesCounted
<1> QED BY <1>5, <1>6, <1>7

\* A fault is counted within its bound.
LEMMA FaultKeeps == TypeOK /\ (Fault \/ UNCHANGED faults) => faults' \in 0..MaxFaults
BY QueueAssumption DEF TypeOK, Fault

\* What is inductive by itself: the types, the poll and the count of dispatches.
Basic == TypeOK /\ PollerOfRow /\ TriesCounted

LEMMA StepBasic == QInv /\ [Next]_vars => Basic'
<1> SUFFICES ASSUME QInv, [Next]_vars PROVE Basic'
  OBVIOUS
<1> USE QueueAssumption DEF rows, calls
<1>1. ASSUME NEW t \in Tasks, Submit(t) PROVE Basic'
  <2>1. /\ status' = [status EXCEPT ![t] = "refused"] \/ status' = [status EXCEPT ![t] = "queued"]
        /\ status[t] = "none"
    BY <1>1 DEF Submit, SetStatus
  <2>2. faults' \in 0..MaxFaults
    BY <1>1, FaultKeeps DEF Submit, QInv
  <2>3. TypeOK'
    BY <1>1, <2>1, <2>2 DEF QInv, TypeOK, Submit, Status
  <2>4. PollerOfRow'
    BY <1>1, <2>1 DEF QInv, TypeOK, PollerOfRow, Submit
  <2>5. TriesCounted'
    BY <1>1, <2>1 DEF QInv, TypeOK, TriesCounted, Submit
  <2> QED BY <2>3, <2>4, <2>5 DEF Basic
<1>2. ASSUME NEW t \in Tasks, Cancel(t) PROVE Basic'
  <2>1. TypeOK'
    BY <1>2 DEF QInv, TypeOK, Cancel, SetStatus, Status
  <2>2. PollerOfRow'
    BY <1>2 DEF QInv, TypeOK, PollerOfRow, Cancel, SetStatus
  <2>3. TriesCounted'
    BY <1>2 DEF QInv, TypeOK, TriesCounted, Cancel, SetStatus
  <2> QED BY <2>1, <2>2, <2>3 DEF Basic
<1>3. ASSUME NEW t \in Tasks, Poll(t) PROVE Basic'
  <2>1. status[t] = "queued" /\ tries[t] <= stops /\ api = "up"
    BY <1>3 DEF QInv, TriesCounted, Poll, First, Queue
  <2>2. tries' \in [Tasks -> 0..MaxStops + 1]
    BY <1>3, <2>1 DEF QInv, TypeOK, Poll
  <2>3. call' \in [Calls -> {"idle", "waiting", "unknown"} \cup Dispatch!Outcomes]
    BY <1>3 DEF QInv, TypeOK, Poll
  <2>4. TypeOK'
    BY <1>3, <2>2, <2>3 DEF QInv, TypeOK, Poll, SetStatus, Status
  <2>5. PollerOfRow'
    BY <1>3, <2>1 DEF QInv, TypeOK, PollerOfRow, Poll, SetStatus
  <2>6. TriesCounted'
    BY <1>3, <2>1 DEF QInv, TypeOK, TriesCounted, Poll, SetStatus
  <2> QED BY <2>4, <2>5, <2>6 DEF Basic
<1>4. ASSUME NEW t \in Tasks, Answered(t) PROVE Basic'
  <2>1. EndPoll(t, "completed") \/ EndPoll(t, "failed") \/ EndPoll(t, status[t])
    BY <1>4 DEF Answered
  <2>2. faults' \in 0..MaxFaults
    BY <1>4, FaultKeeps DEF Answered, QInv
  <2>3. tries[t] \in 1..MaxStops + 1
    BY <1>4 DEF Answered, QInv, TypeOK, PollerOfRow
  <2>4. Asked(t) \in Calls /\ outcome[Asked(t)] \in Dispatch!Outcomes
    BY <1>4, <2>3 DEF Answered, Asked, Calls, QInv, TypeOK, Dispatch!Learn
  <2>5. call' \in [Calls -> {"idle", "waiting", "unknown"} \cup Dispatch!Outcomes]
    BY <1>4, <2>4 DEF Answered, QInv, TypeOK
  <2>6. TypeOK'
    BY <2>1, <2>2, <2>5, EndKeeps DEF QInv, TypeOK
  <2> QED BY <2>1, <2>6, EndKeeps DEF Basic
<1>5. ASSUME NEW t \in Tasks, Unanswered(t) PROVE Basic'
  <2>1. EndPoll(t, "completed") \/ EndPoll(t, "failed") \/ EndPoll(t, status[t])
    BY <1>5 DEF Unanswered
  <2>2. faults' \in 0..MaxFaults
    BY <1>5, FaultKeeps DEF Unanswered, QInv
  <2>3. call' \in [Calls -> {"idle", "waiting", "unknown"} \cup Dispatch!Outcomes]
    BY <1>5 DEF Unanswered, QInv, TypeOK
  <2>4. TypeOK'
    BY <2>1, <2>2, <2>3, EndKeeps DEF QInv, TypeOK
  <2> QED BY <2>1, <2>4, EndKeeps DEF Basic
<1>6. ASSUME NEW t \in Tasks, Ages(t) PROVE Basic'
  BY <1>6 DEF Basic, QInv, TypeOK, PollerOfRow, TriesCounted, Ages
<1>7. ASSUME NEW c \in Calls, WorkerEnds(c) PROVE Basic'
  <2>1. TypeOK'
    BY <1>7 DEF QInv, TypeOK, WorkerEnds
  <2> QED BY <1>7, <2>1 DEF Basic, QInv, PollerOfRow, TriesCounted, WorkerEnds
<1>8. CASE Stop
  <2>1. call' \in [Calls -> {"idle", "waiting", "unknown"} \cup Dispatch!Outcomes]
    BY <1>8 DEF QInv, TypeOK, Stop
  <2>2. TypeOK'
    BY <1>8, <2>1 DEF QInv, TypeOK, Stop
  <2>3. PollerOfRow'
    BY <1>8 DEF PollerOfRow, Stop
  <2>4. TriesCounted'
    BY <1>8 DEF QInv, TypeOK, TriesCounted, Stop
  <2> QED BY <2>2, <2>3, <2>4 DEF Basic
<1>9. CASE Start
  <2>1. /\ status' \in [Tasks -> Status]
        /\ \A t \in Tasks : status'[t] = status[t] \/ (status[t] = "running" /\ status'[t] = "queued")
    BY <1>9 DEF QInv, TypeOK, Start, Running, Status
  <2>2. faults' \in 0..MaxFaults
    BY <1>9, FaultKeeps DEF Start, QInv
  <2>3. TypeOK'
    BY <1>9, <2>1, <2>2 DEF QInv, TypeOK, Start
  <2>4. PollerOfRow'
    BY <1>9 DEF QInv, PollerOfRow, Start
  <2>5. TriesCounted'
    BY <1>9, <2>1 DEF QInv, TypeOK, TriesCounted, Start
  <2> QED BY <2>3, <2>4, <2>5 DEF Basic
<1>10. CASE UNCHANGED vars
  BY <1>10 DEF Basic, QInv, TypeOK, PollerOfRow, TriesCounted, vars
<1> QED
  BY <1>1, <1>2, <1>3, <1>4, <1>5, <1>6, <1>7, <1>8, <1>9, <1>10 DEF Next

\* A dispatch is a task and a number.
LEMMA CallParts ==
  ASSUME NEW c \in Calls
  PROVE  c[1] \in Tasks /\ c[2] \in 1..MaxStops + 1 /\ c = <<c[1], c[2]>>
BY DEF Calls

\* The dispatch the poller awaits is one of Calls.
LEMMA AskedIsCall ==
  ASSUME QInv, NEW t \in Tasks, poller = t
  PROVE  Asked(t) \in Calls /\ call[Asked(t)] = "waiting" /\ Asked(t)[1] = t /\ Asked(t)[2] = tries[t]
<1>1. tries[t] \in 1..MaxStops + 1
  BY QueueAssumption DEF QInv, TypeOK, PollerOfRow
<1> QED BY <1>1, QueueAssumption DEF QInv, OneAtATime, Asked, Calls

\* A step that leaves the poll and the dispatches alone and makes no row running.
LEMMA SameDispatch ==
  ASSUME QInv, Running' \subseteq Running, UNCHANGED <<poller, tries, call>>
  PROVE  OneAtATime'
BY DEF QInv, OneAtATime, Asked

\* A poll that ends, with what is known of its dispatch.
LEMMA EndOne ==
  ASSUME QInv, NEW t \in Tasks, NEW s \in {"completed", "failed", status[t]}, EndPoll(t, s),
         NEW k \in {"unknown"} \cup Dispatch!Outcomes, call' = [call EXCEPT ![Asked(t)] = k]
  PROVE  OneAtATime'
<1>1. /\ poller = t /\ poller' = None /\ tries' = tries /\ poller # None
      /\ status' = [status EXCEPT ![t] = s]
  BY QueueAssumption DEF EndPoll, SetStatus
<1>2. Running' \subseteq Running
  BY <1>1 DEF Running, QInv, TypeOK
<1>3. Asked(t) \in Calls /\ call[Asked(t)] = "waiting"
  BY <1>1, AskedIsCall
<1>4. k # "waiting" /\ k # "idle"
  BY DEF Dispatch!Outcomes
<1>5. \A c \in Calls : call'[c] # "waiting" /\ (call'[c] = "idle" <=> call[c] = "idle")
  BY <1>1, <1>3, <1>4 DEF QInv, TypeOK, OneAtATime
<1> QED BY <1>1, <1>2, <1>5 DEF QInv, OneAtATime

\* One row runs and one dispatch is awaited, through every step.
LEMMA StepOne == QInv /\ [Next]_vars => OneAtATime'
<1> SUFFICES ASSUME QInv, [Next]_vars PROVE OneAtATime'
  OBVIOUS
<1> USE DEF rows, calls
<1>1. ASSUME NEW t \in Tasks, Submit(t) \/ Cancel(t) PROVE OneAtATime'
  <2>1. Running' \subseteq Running
    BY <1>1 DEF Submit, Cancel, SetStatus, Running, QInv, TypeOK
  <2> QED BY <1>1, <2>1, SameDispatch DEF Submit, Cancel
<1>2. ASSUME NEW t \in Tasks, Poll(t) PROVE OneAtATime'
  <2>1. Running = {}
    <3>1. IsFiniteSet(Running) /\ Cardinality(Running) \in Nat /\ Cardinality(Running) < 1
      BY <1>2, QueueAssumption, FS_Subset, FS_CardinalityType DEF Poll, Running
    <3> QED BY <3>1, FS_EmptySet
  <2>2. Running' = {t}
    BY <1>2, <2>1 DEF Poll, SetStatus, Running, QInv, TypeOK
  <2> DEFINE n == tries[t] + 1
  <2>3. n \in 1..MaxStops + 1 /\ tries' = [tries EXCEPT ![t] = n]
        /\ call' = [call EXCEPT ![<<t, n>>] = "waiting"] /\ poller' = t /\ poller = None
    <3>1. tries[t] <= stops /\ tries[t] \in Nat
      BY <1>2 DEF QInv, TypeOK, TriesCounted, Poll, First, Queue
    <3> QED BY <1>2, <3>1, QueueAssumption DEF Poll, QInv, TypeOK
  <2>4. <<t, n>> \in Calls /\ Asked(t)' = <<t, n>> /\ t # None /\ tries[t] \in Nat
    BY <2>3, QueueAssumption DEF Calls, Asked, QInv, TypeOK
  <2>5. \A c \in Calls : c = <<t, n>> \/ (call'[c] = call[c] /\ call[c] # "waiting")
    BY <2>3 DEF QInv, TypeOK, OneAtATime
  <2>6. \A c \in Calls : call'[c] = "waiting" <=> c = <<t, n>>
    BY <2>3, <2>4, <2>5 DEF QInv, TypeOK
  <2>7. \A c \in Calls : call'[c] = "idle" <=> c[2] > tries'[c[1]]
    <3> SUFFICES ASSUME NEW c \in Calls PROVE call'[c] = "idle" <=> c[2] > tries'[c[1]]
      OBVIOUS
    <3>1. c[1] \in Tasks /\ c[2] \in Nat /\ c = <<c[1], c[2]>> /\ tries[c[1]] \in Nat
      <4>1. c[1] \in Tasks /\ c[2] \in 1..MaxStops + 1 /\ c = <<c[1], c[2]>>
        BY CallParts
      <4>2. tries[c[1]] \in 0..MaxStops + 1
        BY <4>1 DEF QInv, TypeOK
      <4> QED BY <4>1, <4>2, QueueAssumption
    <3>2. call[c] = "idle" <=> c[2] > tries[c[1]]
      BY DEF QInv, OneAtATime
    <3>3. CASE c[1] = t
      <4>1. tries'[c[1]] = n
        BY <2>3, <3>3 DEF QInv, TypeOK
      <4>2. CASE c[2] = n
        <5>1. c = <<t, n>> /\ ~(c[2] > tries'[c[1]])
          BY <2>3, <3>1, <3>3, <4>1, <4>2
        <5>2. call'[c] = "waiting"
          BY <2>6, <5>1
        <5> QED BY <5>1, <5>2
      <4>3. CASE c[2] # n
        <5>1. c # <<t, n>>
          BY <4>3
        <5> HIDE DEF n
        <5>2. call'[c] = call[c]
          BY <2>5, <5>1
        <5> QED BY <3>1, <3>2, <3>3, <4>1, <4>3, <5>2 DEF n
      <4> QED BY <4>2, <4>3
    <3>4. CASE c[1] # t
      <4>1. c # <<t, n>> /\ tries'[c[1]] = tries[c[1]]
        BY <2>3, <3>1, <3>4 DEF QInv, TypeOK
      <4> QED BY <2>5, <3>2, <4>1
    <3> QED BY <3>3, <3>4
  <2> QED BY <2>2, <2>3, <2>4, <2>6, <2>7 DEF OneAtATime
<1>3. ASSUME NEW t \in Tasks, Answered(t) PROVE OneAtATime'
  <2>1. PICK s \in {"completed", "failed", status[t]} : EndPoll(t, s)
    BY <1>3 DEF Answered
  <2>2. outcome[Asked(t)] \in Dispatch!Outcomes
    BY <1>3, AskedIsCall DEF Answered, Dispatch!Learn, QInv, TypeOK
  <2> QED BY <1>3, <2>1, <2>2, EndOne DEF Answered
<1>4. ASSUME NEW t \in Tasks, Unanswered(t) PROVE OneAtATime'
  <2>1. PICK s \in {"completed", "failed", status[t]} : EndPoll(t, s)
    BY <1>4 DEF Unanswered
  <2> QED BY <1>4, <2>1, EndOne DEF Unanswered
<1>5. ASSUME NEW t \in Tasks, Ages(t) PROVE OneAtATime'
  BY <1>5, SameDispatch DEF Ages, Running
<1>6. ASSUME NEW c \in Calls, WorkerEnds(c) PROVE OneAtATime'
  BY <1>6, SameDispatch DEF WorkerEnds, Running
<1>7. CASE Stop
  <2>1. \A c \in Calls : call'[c] # "waiting" /\ (call'[c] = "idle" <=> call[c] = "idle")
    BY <1>7 DEF Stop
  <2> QED BY <1>7, <2>1 DEF Stop, Running, QInv, OneAtATime
<1>8. CASE Start
  <2>1. Running' \subseteq Running
    BY <1>8 DEF Start, Running
  <2> QED BY <1>8, <2>1, SameDispatch DEF Start
<1>9. CASE UNCHANGED vars
  BY <1>9, SameDispatch DEF vars, Running
<1> QED BY <1>1, <1>2, <1>3, <1>4, <1>5, <1>6, <1>7, <1>8, <1>9 DEF Next

\* A row becomes completed only with the outcome of its dispatch, which stays known.
LEMMA StepRan == QInv /\ [Next]_vars => CompletedRan'
<1> SUFFICES ASSUME QInv, [Next]_vars, NEW u \in Tasks, status'[u] = "completed"
             PROVE  \E n \in 1..MaxStops + 1 : /\ call'[<<u, n>>] \in Dispatch!Outcomes
                                              /\ outcome'[<<u, n>>] = call'[<<u, n>>]
  BY DEF CompletedRan
<1> USE DEF rows, calls
<1> DEFINE Known(n) == call[<<u, n>>] \in Dispatch!Outcomes /\ outcome[<<u, n>>] = call[<<u, n>>]
\* What is known of a dispatch that has ended stays so, if it is not the one written.
<1>1. ASSUME status[u] = "completed", outcome' = outcome,
             \A c \in Calls : call[c] \in Dispatch!Outcomes => call'[c] = call[c]
      PROVE  \E n \in 1..MaxStops + 1 : /\ call'[<<u, n>>] \in Dispatch!Outcomes
                                       /\ outcome'[<<u, n>>] = call'[<<u, n>>]
  <2>1. PICK n \in 1..MaxStops + 1 : Known(n)
    BY <1>1 DEF QInv, CompletedRan
  <2>2. <<u, n>> \in Calls
    BY DEF Calls
  <2> QED BY <1>1, <2>1, <2>2
<1>2. ASSUME NEW t \in Tasks, Submit(t) \/ Cancel(t) \/ Ages(t)
      PROVE  status[u] = "completed" /\ call' = call /\ outcome' = outcome
  BY <1>2 DEF Submit, Cancel, Ages, SetStatus, QInv, TypeOK
<1>3. ASSUME NEW t \in Tasks, Poll(t)
      PROVE  /\ status[u] = "completed" /\ outcome' = outcome
             /\ \A c \in Calls : call[c] \in Dispatch!Outcomes => call'[c] = call[c]
  <2>1. status[u] = "completed" /\ outcome' = outcome /\ tries[t] \in Nat
        /\ call' = [call EXCEPT ![<<t, tries[t] + 1>>] = "waiting"]
    BY <1>3, QueueAssumption DEF Poll, SetStatus, QInv, TypeOK
  <2>2. ASSUME NEW c \in Calls, c = <<t, tries[t] + 1>> PROVE call[c] = "idle"
    BY <2>1, <2>2 DEF QInv, OneAtATime
  <2>3. \A c \in Calls : call[c] \in Dispatch!Outcomes => c # <<t, tries[t] + 1>>
    BY <2>2 DEF Dispatch!Outcomes
  <2> QED BY <2>1, <2>3 DEF QInv, TypeOK
<1>4. ASSUME NEW t \in Tasks, NEW k, poller = t, call' = [call EXCEPT ![Asked(t)] = k]
      PROVE  \A c \in Calls : call[c] \in Dispatch!Outcomes => call'[c] = call[c]
  BY <1>4, AskedIsCall DEF QInv, TypeOK, Dispatch!Outcomes
<1>5. ASSUME NEW t \in Tasks, Unanswered(t)
      PROVE  /\ status[u] = "completed" /\ outcome' = outcome
             /\ \A c \in Calls : call[c] \in Dispatch!Outcomes => call'[c] = call[c]
  <2>1. status[u] = "completed" /\ outcome' = outcome
    BY <1>5 DEF Unanswered, EndPoll, SetStatus, QInv, TypeOK
  <2> QED BY <1>4, <1>5, <2>1 DEF Unanswered
<1>6. ASSUME NEW t \in Tasks, Answered(t)
      PROVE  \E n \in 1..MaxStops + 1 : /\ call'[<<u, n>>] \in Dispatch!Outcomes
                                       /\ outcome'[<<u, n>>] = call'[<<u, n>>]
  <2>1. /\ poller = t /\ outcome' = outcome /\ call' = [call EXCEPT ![Asked(t)] = outcome[Asked(t)]]
        /\ outcome[Asked(t)] # "none" /\ \A v \in Tasks \ {t} : status'[v] = status[v]
    BY <1>6 DEF Answered, EndPoll, SetStatus, Dispatch!Learn, QInv, TypeOK
  <2>2. CASE u # t
    BY <1>1, <1>4, <2>1, <2>2
  <2>3. CASE u = t
    <3>1. Asked(t) \in Calls /\ tries[t] \in 1..MaxStops + 1
      BY <2>1, AskedIsCall, QueueAssumption DEF QInv, TypeOK, PollerOfRow
    <3>2. call'[<<u, tries[t]>>] = outcome[<<u, tries[t]>>]
          /\ outcome[<<u, tries[t]>>] \in Dispatch!Outcomes
      BY <2>1, <2>3, <3>1 DEF Asked, QInv, TypeOK
    <3> QED BY <2>1, <3>1, <3>2
  <2> QED BY <2>2, <2>3
<1>7. ASSUME NEW d \in Calls, WorkerEnds(d)
      PROVE  \E n \in 1..MaxStops + 1 : /\ call'[<<u, n>>] \in Dispatch!Outcomes
                                       /\ outcome'[<<u, n>>] = call'[<<u, n>>]
  <2>1. /\ status[u] = "completed" /\ call' = call /\ outcome[d] = "none"
        /\ \A c \in Calls \ {d} : outcome'[c] = outcome[c]
    BY <1>7 DEF WorkerEnds, Dispatch!Run, QInv, TypeOK
  <2>2. PICK n \in 1..MaxStops + 1 : Known(n)
    BY <2>1 DEF QInv, CompletedRan
  <2>3. <<u, n>> \in Calls /\ <<u, n>> # d
    BY <2>1, <2>2 DEF Calls, Dispatch!Outcomes
  <2> QED BY <2>1, <2>2, <2>3
<1>8. CASE Stop
  <2>1. status[u] = "completed" /\ outcome' = outcome
        /\ \A c \in Calls : call[c] \in Dispatch!Outcomes => call'[c] = call[c]
    BY <1>8 DEF Stop, Dispatch!Outcomes
  <2> QED BY <1>1, <2>1
<1>9. CASE Start
  <2>1. status[u] = "completed" /\ call' = call /\ outcome' = outcome
    BY <1>9 DEF Start, QInv, TypeOK
  <2> QED BY <1>1, <2>1
<1>10. CASE UNCHANGED vars
  BY <1>1, <1>10 DEF vars
<1> QED BY <1>1, <1>2, <1>3, <1>5, <1>6, <1>7, <1>8, <1>9, <1>10 DEF Next

LEMMA StepInv == QInv /\ [Next]_vars => QInv'
BY StepBasic, StepOne, StepRan DEF QInv, Basic

\* The inductive invariant of the queue holds in every reachable state.
THEOREM QueueInvariant == Spec => []QInv
BY InitInv, StepInv, PTL DEF Spec

\* Rows, the poll under way and the dispatches keep their types.
THEOREM QueueTypes == Spec => []TypeOK
<1>1. QInv => TypeOK
  BY DEF QInv
<1> QED BY <1>1, QueueInvariant, PTL

\* No two rows are running, and the poller awaits one dispatch at a time, its latest.
THEOREM OneTaskAtATime == Spec => []OneAtATime
<1>1. QInv => OneAtATime
  BY DEF QInv
<1> QED BY <1>1, QueueInvariant, PTL

\* A row says completed only of a task whose worker has ended it and whose poller knew.
THEOREM CompletedHaveRun == Spec => []CompletedRan
<1>1. QInv => CompletedRan
  BY DEF QInv
<1> QED BY <1>1, QueueInvariant, PTL

\* The poller gives a task to the worker once, and once more per stop at most.
THEOREM TriesAreBounded == Spec => []TriesBounded
<1>1. QInv => TriesBounded
  BY DEF QInv, TriesCounted, TriesBounded
<1> QED BY <1>1, QueueInvariant, PTL

LEMMA StepSettled ==
  QInv /\ [Next]_vars => \A t \in Tasks : status[t] \in Settled => status'[t] = status[t]
<1> SUFFICES ASSUME QInv, [Next]_vars, NEW u \in Tasks, status[u] \in Settled
             PROVE  status'[u] = status[u]
  OBVIOUS
<1> USE DEF rows, Settled
<1>1. ASSUME NEW t \in Tasks, Submit(t) \/ Cancel(t) PROVE status'[u] = status[u]
  BY <1>1 DEF QInv, TypeOK, Submit, Cancel, SetStatus
<1>2. ASSUME NEW t \in Tasks, Poll(t) PROVE status'[u] = status[u]
  BY <1>2 DEF QInv, TypeOK, Poll, SetStatus, First, Queue
<1>3. ASSUME NEW t \in Tasks, NEW s, EndPoll(t, s) PROVE status'[u] = status[u]
  <2>1. t # u
    BY <1>3, QueueAssumption DEF QInv, PollerOfRow, EndPoll
  <2> QED BY <1>3, <2>1 DEF QInv, TypeOK, EndPoll, SetStatus
<1>4. ASSUME NEW t \in Tasks, Answered(t) \/ Unanswered(t) PROVE status'[u] = status[u]
  BY <1>3, <1>4 DEF Answered, Unanswered
<1>5. CASE Start
  BY <1>5 DEF QInv, TypeOK, Start, Running
<1>6. ASSUME NEW t \in Tasks, Ages(t) PROVE status'[u] = status[u]
  BY <1>6 DEF Ages
<1>7. CASE Stop \/ (\E c \in Calls : WorkerEnds(c)) \/ UNCHANGED vars
  BY <1>7 DEF Stop, WorkerEnds, vars
<1> QED BY <1>1, <1>2, <1>4, <1>5, <1>6, <1>7 DEF Next

\* A completed or failed row keeps its status, whatever cancels, polls and starts follow.
THEOREM SettledRowsStay == Spec => SettledStays
<1>1. QInv /\ [Next]_vars => [\A t \in Tasks : status[t] \in Settled => status'[t] = status[t]]_vars
  BY StepSettled
<1> QED BY <1>1, QueueInvariant, PTL DEF Spec, SettledStays

----------------------------------------------------------------------------
(* The poller uses the dispatch as RemoteCall says                           *)

\* A step that changes one dispatch as RemoteCall allows, or none.
LEMMA OneCallMoves ==
  ASSUME QInv, QInv', NEW c \in Calls, NEW k, call' = [call EXCEPT ![c] = k], outcome' = outcome,
         Dispatch!Ask(c) \/ Dispatch!Learn(c) \/ Dispatch!Lose(c)
  PROVE  Dispatch!Next
<1>1. \A d \in Calls : d # c => call'[d] = call[d]
  BY DEF QInv, TypeOK
<1> QED BY <1>1 DEF Dispatch!Next, QInv, TypeOK

\* Polls ask, their ends learn or lose, a stop loses, and the worker runs what was asked.
LEMMA StepDispatch ==
  ASSUME QInv, QInv', [Next]_vars PROVE [Dispatch!Next]_(Dispatch!vars)
<1> USE DEF Dispatch!vars, rows, calls
<1>1. ASSUME NEW t \in Tasks, Submit(t) \/ Cancel(t) \/ Ages(t) PROVE UNCHANGED Dispatch!vars
  BY <1>1 DEF Submit, Cancel, Ages
<1>2. ASSUME NEW t \in Tasks, Poll(t) PROVE Dispatch!Next
  <2> DEFINE c == <<t, tries[t] + 1>>
  <2>1. tries[t] <= stops /\ tries[t] \in Nat
    BY <1>2, QueueAssumption DEF QInv, TypeOK, TriesCounted, Poll, First, Queue
  <2>2. c \in Calls
    BY <2>1, QueueAssumption DEF Calls, QInv, TypeOK
  <2>3. call' = [call EXCEPT ![c] = "waiting"] /\ outcome' = outcome
    BY <1>2 DEF Poll
  <2>4. call[c] = "idle"
    <3>1. c[1] = t /\ c[2] = tries[t] + 1
      OBVIOUS
    <3>2. call[c] = "idle" <=> c[2] > tries[c[1]]
      BY <2>2 DEF QInv, OneAtATime
    <3> QED BY <2>1, <3>1, <3>2
  <2> HIDE DEF c
  <2>5. Dispatch!Ask(c)
    BY <2>2, <2>3, <2>4 DEF Dispatch!Ask, QInv, TypeOK
  <2> QED BY <2>2, <2>3, <2>5, OneCallMoves
<1>3. ASSUME NEW t \in Tasks, Answered(t) \/ Unanswered(t) PROVE Dispatch!Next
  <2>1. Asked(t) \in Calls
    BY <1>3, AskedIsCall DEF Answered, Unanswered
  <2>2. /\ outcome' = outcome /\ \E k : call' = [call EXCEPT ![Asked(t)] = k]
        /\ Dispatch!Learn(Asked(t)) \/ Dispatch!Lose(Asked(t))
    BY <1>3 DEF Answered, Unanswered, EndPoll
  <2> QED BY <2>1, <2>2, OneCallMoves
<1>4. ASSUME NEW c \in Calls, WorkerEnds(c) PROVE Dispatch!Next
  <2>1. \A d \in Calls : d # c => outcome'[d] = outcome[d]
    BY <1>4 DEF WorkerEnds, QInv, TypeOK
  <2> QED BY <1>4, <2>1 DEF WorkerEnds, Dispatch!Next, QInv, TypeOK
<1>5. CASE Stop
  BY <1>5 DEF Stop, Dispatch!Next, Dispatch!Lose, QInv, TypeOK
<1>6. CASE Start \/ UNCHANGED vars
  BY <1>6 DEF Start, vars
<1> QED BY <1>1, <1>2, <1>3, <1>4, <1>5, <1>6 DEF Next

\* The queue relies on the dispatch for what RemoteCall promises and for no more, which
\* ChatPipeline implements over the lossy channel.
THEOREM QueueUsesCall == Spec => Dispatch!Spec
<1>1. Init => Dispatch!Init
  BY DEF Init
<1>2. QInv /\ QInv' /\ [Next]_vars => [Dispatch!Next]_(Dispatch!vars)
  BY StepDispatch
<1> QED BY <1>1, <1>2, QueueInvariant, PTL DEF Spec, Dispatch!Spec
=============================================================================
