-------------------------- MODULE TaskStoreProofs --------------------------
(* The invariants of TaskStore, for every number of tasks and sessions.      *)
EXTENDS TaskStore, TLAPS

\* A task that has not begun has left no trace that could outlive its start.
Unbegun == old \subseteq begun /\ live \subseteq begun

\* The key of a session names a task of the session that runs, whose record has
\* not expired and still knows the session: a task that ends finds the key.
KeyOfRunning ==
  \A s \in Sessions : active[s] # None =>
    /\ SessionOf[active[s]] = s /\ active[s] \notin old
    /\ active[s] \in named /\ status[active[s]] = "running"

StInv == TypeOK /\ Unbegun /\ KeyOfRunning /\ NamedAreUnfinished

\* What End does to the invariant, whoever calls it.
LEMMA EndKeeps ==
  ASSUME StInv, NEW t \in Tasks, NEW as \in Final, End(t, as)
  PROVE  /\ status' \in [Tasks -> Status]
         /\ named' = named /\ short' \subseteq short
         /\ live' \subseteq live /\ active' \in [Sessions -> Tasks \cup {None}]
         /\ \A s \in Sessions : active'[s] # None =>
              /\ active'[s] = active[s] /\ active[s] # t
         /\ \A u \in Tasks : u # t => status'[u] = status[u]
         /\ t \notin live'
<1> USE DEF StInv, TypeOK, End, Final, Status
<1>1. status' \in [Tasks -> Status] /\ \A u \in Tasks : u # t => status'[u] = status[u]
  OBVIOUS
<1>2. /\ named' = named /\ short' \subseteq short /\ live' \subseteq live
      /\ active' \in [Sessions -> Tasks \cup {None}] /\ t \notin live'
  OBVIOUS
<1>3. ASSUME NEW s \in Sessions, active'[s] # None
      PROVE  active'[s] = active[s] /\ active[s] # t
  <2>1. CASE t \in named
    <3>1. active' = [active EXCEPT ![SessionOf[t]] = None]
      BY <2>1
    <3>2. s # SessionOf[t] /\ active'[s] = active[s]
      BY <1>3, <3>1
    <3> QED BY <1>3, <3>2 DEF KeyOfRunning
  <2>2. CASE t \notin named
    <3>1. active'[s] = active[s]
      BY <2>2
    <3> QED BY <1>3, <2>2, <3>1 DEF KeyOfRunning
  <2> QED BY <2>1, <2>2
<1> QED BY <1>1, <1>2, <1>3

LEMMA InitInv == Init => StInv
<1> SUFFICES ASSUME Init PROVE StInv
  OBVIOUS
<1> USE StoreAssumption DEF Init, Status, Procs, Final, ready
<1>1. TypeOK
  <2>1. faults \in 0..MaxFaults
    OBVIOUS
  <2>2. cleaner \in [Procs -> SUBSET Tasks] /\ status \in [Tasks -> Status]
    OBVIOUS
  <2> QED BY <2>1, <2>2 DEF TypeOK
<1>2. Unbegun /\ KeyOfRunning /\ NamedAreUnfinished
  BY DEF Unbegun, KeyOfRunning, NamedAreUnfinished
<1> QED BY <1>1, <1>2 DEF StInv

\* The three ways a task ends, which differ in what else they change.
LEMMA EndStep ==
  ASSUME StInv, NEW t \in Tasks, NEW as \in Final, End(t, as), UNCHANGED <<old, begun>>
  PROVE  Unbegun' /\ KeyOfRunning' /\ NamedAreUnfinished'
<1>1. /\ live' \subseteq live /\ active' \in [Sessions -> Tasks \cup {None}]
      /\ \A s \in Sessions : active'[s] # None =>
           /\ active'[s] = active[s] /\ active[s] # t
      /\ \A u \in Tasks : u # t => status'[u] = status[u]
      /\ named' = named
      /\ t \notin live'
  BY EndKeeps
<1>2. active \in [Sessions -> Tasks \cup {None}] /\ live \subseteq Tasks
  BY DEF StInv, TypeOK
<1>3. Unbegun'
  BY <1>1, <1>2 DEF StInv, Unbegun
<1>4. KeyOfRunning'
  BY <1>1, <1>2 DEF StInv, KeyOfRunning
<1>5. NamedAreUnfinished'
  BY <1>1, <1>2 DEF StInv, NamedAreUnfinished
<1> QED BY <1>3, <1>4, <1>5

LEMMA StepInv == StInv /\ [Next]_vars => StInv'
<1> SUFFICES ASSUME StInv, [Next]_vars PROVE StInv'
  OBVIOUS
<1> USE StoreAssumption DEF Status, Procs, Final
<1> USE DEF Links, record, redis, recovery, callers, links
<1>1. ASSUME NEW t \in Tasks, Start(t) PROVE StInv'
  <2>1. TypeOK'
    BY <1>1 DEF StInv, TypeOK, Start
  <2>2. t \notin old /\ t \notin live
    BY <1>1 DEF StInv, Unbegun, Start
  <2>3. Unbegun'
    BY <1>1 DEF StInv, Unbegun, Start
  <2>4. KeyOfRunning'
    BY <1>1, <2>2 DEF StInv, TypeOK, KeyOfRunning, Start
  <2>5. NamedAreUnfinished'
    BY <1>1, <2>2 DEF StInv, TypeOK, NamedAreUnfinished, Start
  <2> QED BY <2>1, <2>3, <2>4, <2>5 DEF StInv
<1>2. ASSUME NEW t \in Tasks, AddEvent(t) PROVE StInv'
  BY <1>2 DEF StInv, TypeOK, Unbegun, KeyOfRunning, NamedAreUnfinished, AddEvent
<1>3. ASSUME NEW t \in Tasks, NEW as \in Final, WorkerEnds(t, as) PROVE StInv'
  <2>1. CASE ready("ws")
    <3>1. End(t, as)
      BY <1>3, <2>1 DEF WorkerEnds
    <3>2. Unbegun' /\ KeyOfRunning' /\ NamedAreUnfinished'
      BY <1>3, <3>1, EndStep DEF WorkerEnds
    <3>3. /\ status' \in [Tasks -> Status] /\ named' = named /\ short' \subseteq short
          /\ live' \subseteq live /\ active' \in [Sessions -> Tasks \cup {None}]
      BY <3>1, EndKeeps
    <3>4. TypeOK'
      BY <1>3, <3>3 DEF StInv, TypeOK, WorkerEnds
    <3> QED BY <3>2, <3>4 DEF StInv
  <2>2. CASE UNCHANGED <<record, live, active>>
    BY <1>3, <2>2 DEF StInv, TypeOK, Unbegun, KeyOfRunning, NamedAreUnfinished, WorkerEnds
  <2> QED BY <1>3, <2>1, <2>2 DEF WorkerEnds
<1>4. ASSUME NEW t \in Tasks, HandlerEnds(t) PROVE StInv'
  <2>1. CASE End(t, "completed")
    <3>1. Unbegun' /\ KeyOfRunning' /\ NamedAreUnfinished'
      BY <1>4, <2>1, EndStep DEF HandlerEnds
    <3>2. TypeOK'
      BY <1>4, <2>1, EndKeeps DEF StInv, TypeOK, HandlerEnds
    <3> QED BY <3>1, <3>2 DEF StInv
  <2>2. CASE UNCHANGED <<record, live, active>>
    BY <1>4, <2>2 DEF StInv, TypeOK, Unbegun, KeyOfRunning, NamedAreUnfinished, HandlerEnds
  <2> QED BY <1>4, <2>1, <2>2 DEF HandlerEnds
<1>5. ASSUME NEW p \in Procs, Clean(p) PROVE StInv'
  <2>1. CASE CleanBegin(p) \/ CleanFails(p)
    BY <2>1 DEF StInv, TypeOK, Unbegun, KeyOfRunning, NamedAreUnfinished, CleanBegin,
       CleanFails
  <2>2. ASSUME NEW t \in Tasks, Visit(p, t) PROVE StInv'
    <3>1. cleaner' \in [Procs -> SUBSET Tasks]
      BY <2>2 DEF StInv, TypeOK, Visit
    <3>2. CASE End(t, "error")
      <4>1. Unbegun' /\ KeyOfRunning' /\ NamedAreUnfinished'
        BY <2>2, <3>2, EndStep DEF StInv, TypeOK, Visit
      <4>2. TypeOK'
        BY <2>2, <3>1, <3>2, EndKeeps DEF StInv, TypeOK, Visit
      <4> QED BY <4>1, <4>2 DEF StInv
    <3>3. CASE live' = live \ {t} /\ UNCHANGED <<record, active>>
      BY <2>2, <3>1, <3>3
         DEF StInv, TypeOK, Unbegun, KeyOfRunning, NamedAreUnfinished, Visit
    <3>4. CASE UNCHANGED <<record, live, active>>
      BY <2>2, <3>1, <3>4
         DEF StInv, TypeOK, Unbegun, KeyOfRunning, NamedAreUnfinished, Visit
    <3> QED BY <2>2, <3>2, <3>3, <3>4 DEF Visit
  <2> QED BY <1>5, <2>1, <2>2 DEF Clean
<1>6. ASSUME NEW p \in Procs, RedisLost(p) \/ Reconnect(p) PROVE StInv'
  BY <1>6 DEF StInv, TypeOK, Unbegun, KeyOfRunning, NamedAreUnfinished, RedisLost,
     Reconnect, RedisReady, GivesUp
<1>7. ASSUME NEW s \in Sessions, Poll(s) PROVE StInv'
  BY <1>7 DEF StInv, TypeOK, Unbegun, KeyOfRunning, NamedAreUnfinished, Poll
<1>8. CASE PollEnds
  BY <1>8 DEF StInv, TypeOK, Unbegun, KeyOfRunning, NamedAreUnfinished, PollEnds
<1>9. ASSUME NEW p \in Procs, Restart(p) PROVE StInv'
  <2>1. conn' \in [Procs -> Links] /\ cleaner' \in [Procs -> SUBSET Tasks]
    BY <1>9 DEF StInv, TypeOK, Restart, LinksOf
  <2>2. faults' \in 0..MaxFaults
    BY <1>9 DEF StInv, TypeOK, Restart
  <2>3. TypeOK'
    <3>1. CASE p = "ws"
      BY <1>9, <2>1, <2>2, <3>1 DEF StInv, TypeOK, Restart
    <3>2. CASE p = "api"
      BY <1>9, <2>1, <2>2, <3>2 DEF StInv, TypeOK, Restart
    <3> QED BY <3>1, <3>2
  <2>4. Unbegun' /\ KeyOfRunning' /\ NamedAreUnfinished'
    BY <1>9 DEF StInv, Unbegun, KeyOfRunning, NamedAreUnfinished, Restart
  <2> QED BY <2>3, <2>4 DEF StInv
<1>10. CASE ResumeScan
  BY <1>10 DEF StInv, TypeOK, Unbegun, KeyOfRunning, NamedAreUnfinished, ResumeScan,
     redis
<1>11. CASE ResumeWrite
  BY <1>11 DEF StInv, TypeOK, Unbegun, KeyOfRunning, NamedAreUnfinished, ResumeWrite
<1>12. ASSUME NEW t \in Tasks, ResumeRead(t) PROVE StInv'
  BY <1>12 DEF StInv, TypeOK, Unbegun, KeyOfRunning, NamedAreUnfinished, ResumeRead
<1>13. ASSUME NEW t \in Tasks, Age(t) PROVE StInv'
  BY <1>13 DEF StInv, TypeOK, Unbegun, KeyOfRunning, NamedAreUnfinished, Age
<1>14. ASSUME NEW t \in Tasks, Expire(t) PROVE StInv'
  BY <1>14 DEF StInv, TypeOK, Unbegun, KeyOfRunning, NamedAreUnfinished, Expire
<1>15. CASE UNCHANGED vars
  BY <1>15 DEF StInv, TypeOK, Unbegun, KeyOfRunning, NamedAreUnfinished, vars
<1> QED
  BY <1>1, <1>2, <1>3, <1>4, <1>5, <1>6, <1>7, <1>8, <1>9, <1>10, <1>11, <1>12, <1>13,
     <1>14, <1>15 DEF Next

\* The inductive invariant of the store holds in every reachable state.
THEOREM StoreInvariant == Spec => []StInv
BY InitInv, StepInv, PTL DEF Spec

\* Records, keys and the operations under way keep their types.
THEOREM StoreTypes == Spec => []TypeOK
<1>1. StInv => TypeOK
  BY DEF StInv
<1> QED BY <1>1, StoreInvariant, PTL

\* tasks:active and the keys of sessions name unfinished tasks only, whatever is
\* under way when a task ends or a key expires.
THEOREM NamesAreUnfinished == Spec => []NamedAreUnfinished
<1>1. StInv => NamedAreUnfinished
  BY DEF StInv
<1> QED BY <1>1, StoreInvariant, PTL

\* The key of a session names none but a running task of that session, younger than the
\* key's TTL and with a record that still knows the session: so the MULTI that ends it
\* always finds the key it has to delete.
THEOREM KeysNameRunning == Spec => []KeyOfRunning
<1>1. StInv => KeyOfRunning
  BY DEF StInv
<1> QED BY <1>1, StoreInvariant, PTL

-----------------------------------------------------------------------------
(* What ActiveDrains rests on, besides fairness                              *)

\* A sweep that passes an old member, or one whose record has expired, leaves it outside
\* tasks:active, unless the connection or the process went away; and no task that has left the set
\* comes back, whatever is reported, resumed or cleaned later.
SweepDrains ==
  \A t \in Tasks :
    /\ \A p \in Procs :
         /\ t \in cleaner[p] /\ t \notin cleaner'[p]
         /\ t \in old \/ status[t] \in {"absent", "bare"}
         => t \notin live' \/ ~ready(p) \/ faults' # faults
    /\ t \in begun /\ t \notin live => t \notin live'

LEMMA SweepNext == StInv /\ [Next]_vars => SweepDrains
<1> SUFFICES ASSUME StInv, [Next]_vars, NEW t \in Tasks
             PROVE  /\ \A p \in Procs :
                         /\ t \in cleaner[p] /\ t \notin cleaner'[p]
                         /\ t \in old \/ status[t] \in {"absent", "bare"}
                         => t \notin live' \/ ~ready(p) \/ faults' # faults
                    /\ t \in begun /\ t \notin live => t \notin live'
  BY DEF SweepDrains
<1>0. cleaner \in [Procs -> SUBSET Tasks] /\ faults \in Nat
  BY StoreAssumption DEF StInv, TypeOK
<1> USE DEF redis, record, recovery, callers, links
<1>1. ASSUME NEW u \in Tasks, NEW q \in Procs, Visit(q, u)
      PROVE  /\ live' \subseteq live
             /\ \A p \in Procs : t \in cleaner[p] /\ t \notin cleaner'[p] => p = q /\ t = u
             /\ u \in old \/ status[u] \in {"absent", "bare"} => u \notin live'
  <2>1. cleaner' = [cleaner EXCEPT ![q] = @ \ {u}]
    BY <1>1 DEF Visit
  <2>2. \A p \in Procs : t \in cleaner[p] /\ t \notin cleaner'[p] => p = q /\ t = u
    BY <1>0, <2>1
  <2>3. CASE status[u] \in {"absent", "bare"}
    BY <1>1, <2>2, <2>3 DEF Visit
  <2>4. CASE status[u] \notin {"absent", "bare"} /\ u \in old
    <3>1. live' = live \ {u}
      BY <1>1, <2>4 DEF Visit, End
    <3> QED BY <2>2, <3>1
  <2>5. CASE status[u] \notin {"absent", "bare"} /\ u \notin old
    BY <1>1, <2>2, <2>5 DEF Visit
  <2> QED BY <2>3, <2>4, <2>5
<1>2. ASSUME NEW q \in Procs, CleanBegin(q) \/ CleanFails(q)
      PROVE  /\ live' = live
             /\ \A p \in Procs : t \in cleaner[p] /\ t \notin cleaner'[p] => ~ready(p)
  <2>1. CASE CleanBegin(q)
    <3>1. \A p \in Procs : cleaner[p] \subseteq cleaner'[p]
      BY <1>0, <2>1 DEF CleanBegin
    <3> QED BY <2>1, <3>1 DEF CleanBegin
  <2>2. CASE CleanFails(q)
    BY <1>0, <2>2 DEF CleanFails
  <2> QED BY <1>2, <2>1, <2>2
<1>3. ASSUME NEW u \in Tasks, Start(u)
      PROVE  cleaner' = cleaner /\ (t \in begun /\ t \notin live => t \notin live')
  BY <1>3 DEF Start
<1>4. ASSUME NEW u \in Tasks, \/ HandlerEnds(u) \/ \E as \in Final : WorkerEnds(u, as)
      PROVE  cleaner' = cleaner /\ live' \subseteq live
  BY <1>4 DEF HandlerEnds, WorkerEnds, End
<1>5. ASSUME NEW q \in Procs, Restart(q)
      PROVE  faults' # faults /\ live' = live
  BY <1>0, <1>5 DEF Restart
<1>6. CASE \/ \E u \in Tasks : AddEvent(u) \/ ResumeRead(u) \/ Age(u) \/ Expire(u)
           \/ \E p \in Procs : RedisLost(p) \/ Reconnect(p)
           \/ \E s \in Sessions : Poll(s)
           \/ PollEnds \/ ResumeScan \/ ResumeWrite \/ UNCHANGED vars
  <2>1. cleaner' = cleaner /\ live' = live
    BY <1>6 DEF AddEvent, ResumeRead, Age, Expire, RedisLost, Reconnect, RedisReady,
       GivesUp, Poll, PollEnds, ResumeScan, ResumeWrite, vars
  <2> QED BY <2>1
<1> QED BY <1>1, <1>2, <1>3, <1>4, <1>5, <1>6 DEF Next, Clean

\* What is left of ActiveDrains without fairness: one sweep takes an old task out of
\* tasks:active (cleanupStaleTasks), and out it stays.
THEOREM SweepsDrain == Spec => [][SweepDrains]_vars
BY StoreInvariant, SweepNext, PTL DEF Spec
=============================================================================
