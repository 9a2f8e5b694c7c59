------------------------- MODULE ChatPipelineProofs -------------------------
(***************************************************************************)
(* Proofs about ChatPipeline, for any number of messages and sessions and  *)
(* any number of lost messages and stops.                                  *)
(***************************************************************************)
EXTENDS ChatPipeline, TLAPS

\* What is on the way to the WebSocket process, or known there, was asked for.
AskedFor ==
  \A m \in Msgs :
    m \in requests \/ handler[m] # "none" \/ phase[m] # "unsent"
      => stage[m] \in {"asked", "done", "gone"}

\* Handlers, answers and replies agree with the manager's outcome and the database.
Handed(m) == m \in saved \cup dbFailed
Agrees(m, kind) ==
  /\ kind \in {"saved", "empty"} => phase[m] = "resolved"
  /\ kind \in {"fallback", "error"} => phase[m] = "rejected"
  /\ kind = "saved" => Handed(m)

Agreement ==
  /\ \A m \in Msgs : handler[m] = "saving" => phase[m] = "resolved"
  /\ \A m \in Msgs : handler[m] = "fallback" => phase[m] = "rejected"
  /\ \A r \in responses : Agrees(r.msg, r.kind)
  /\ \A m \in Msgs : Agrees(m, reply[m])

Ended == \A m \in Msgs : reply[m] # "none" => stage[m] = "done"

\* A message is handed over once: to the handler, to the database and to the pipeline.
HandedOnce ==
  /\ \A m \in requests : handler[m] = "none"
  /\ \A r \in responses : handler[r.msg] = "done" /\ reply[r.msg] = "none"
  /\ \A q, r \in responses : q.msg = r.msg => q = r
  /\ \A m \in Msgs : reply[m] # "none" => handler[m] = "done"
  /\ \A m \in saved \cup dbFailed : handler[m] = "done"
  /\ saved \cap dbFailed = {}

Stops ==
  /\ notices + (IF wsState = "down" THEN 1 ELSE 0) <= wsStops
  /\ wsState = "draining" => wsStops < MaxWsStops

\* The inductive invariant.
IInv == TypeOK /\ EntryOfPipeline /\ AskedFor /\ Agreement /\ Ended /\ HandedOnce /\ Stops

USE ChatAssumption

LEMMA InitIInv == Init => IInv
BY DEF Init, IInv, TypeOK, EntryOfPipeline, InPipeline, AskedFor, Agreement, Agrees, Ended, HandedOnce,
       Stops, Stages, Handlers, Kinds, Manager!Init, Manager!Phases

\* The steps of the API process before the message is registered.
LEMMA PostIInv ==
  ASSUME IInv, NEW m \in Msgs, Post(m) PROVE IInv'
<1> USE DEF IInv, TypeOK, EntryOfPipeline, InPipeline, AskedFor, Agreement, Agrees, Handed,
            Ended, HandedOnce, Stops, Stages, Handlers, Kinds, apiVars, ipcVars, wsVars, dbVars, bounds
<1>1. CASE Refuse(m)
  BY <1>1 DEF Refuse
<1>2. CASE Accept(m)
  BY <1>2 DEF Accept, Drop
<1>3. CASE Trigger(m)
  BY <1>3 DEF Trigger
<1> QED BY <1>1, <1>2, <1>3 DEF Post

\* The pipeline of a message.
LEMMA ApiIInv ==
  ASSUME IInv, NEW m \in Msgs, Api(m) PROVE IInv'
<1> USE DEF IInv, TypeOK, EntryOfPipeline, InPipeline, AskedFor, Agreement, Agrees, Handed,
            Ended, HandedOnce, Stops, Stages, Handlers, Kinds, apiVars, ipcVars, wsVars, dbVars, bounds
<1>1. CASE Register(m)
  BY <1>1 DEF Register
<1>2. CASE StoreFails(m)
  BY <1>2 DEF StoreFails
<1>3. CASE Dispatch(m)
  BY <1>3 DEF Dispatch, Sent
<1>4. CASE DispatchFails(m)
  BY <1>4 DEF DispatchFails, Finish, Drop
<1>5. CASE RequestTimeout(m)
  BY <1>5 DEF RequestTimeout, Finish, Drop
<1>6. CASE GuardFires(m)
  BY <1>6 DEF GuardFires, Drop
<1>7. CASE \E r \in responses : OnResponse(m, r)
  BY <1>7 DEF OnResponse, Matches, Finish, Drop
<1> QED BY <1>1, <1>2, <1>3, <1>4, <1>5, <1>6, <1>7 DEF Api

\* An outcome of the manager is final, and only the phase of a working task changes.
LEMMA OutcomeFinal ==
  ASSUME TypeOK, Manager!Next, NEW m \in Msgs, phase[m] \in {"resolved", "rejected"}
  PROVE  phase'[m] = phase[m]
BY DEF TypeOK, Manager!Next, Manager!Move, Manager!Edges

LEMMA ManagerTypes ==
  ASSUME TypeOK, Manager!Next
  PROVE  phase' \in [Msgs -> Manager!Phases] /\ attempts' \in [Msgs -> Nat]
BY DEF TypeOK, Manager!Next, Manager!Move, Manager!Starts

\* The dispatch handler of a message.
LEMMA DispatchedIInv ==
  ASSUME IInv, NEW m \in Msgs, Dispatched(m) PROVE IInv'
<1> USE DEF IInv, TypeOK, EntryOfPipeline, InPipeline, AskedFor, Agreement, Agrees, Handed,
            Ended, HandedOnce, Stops, Stages, Handlers, Kinds, apiVars, ipcVars, wsVars, dbVars, bounds
<1>1. CASE OnDispatch(m)
  BY <1>1 DEF OnDispatch, Set
<1>2. CASE StartTask(m)
  BY <1>2, ManagerTypes, OutcomeFinal DEF StartTask, Set
<1>3. CASE Resolved(m)
  BY <1>3 DEF Resolved, Answer, Sent, Set
<1>4. CASE Save(m)
  BY <1>4 DEF Save, Answer, Sent, Set
<1>5. CASE SaveFails(m)
  BY <1>5 DEF SaveFails, Answer, Sent, Set
<1>6. CASE Rejected(m)
  BY <1>6 DEF Rejected, Answer, Sent, Set
<1>7. CASE FallbackEnds(m)
  BY <1>7 DEF FallbackEnds, Answer, Sent, Set
<1> QED BY <1>1, <1>2, <1>3, <1>4, <1>5, <1>6, <1>7 DEF Dispatched

\* A step of the manager.
LEMMA ManagerIInv ==
  ASSUME IInv, NEW m \in Msgs, ManagerStep(m) PROVE IInv'
<1> USE DEF IInv, TypeOK, EntryOfPipeline, InPipeline, AskedFor, Agreement, Agrees, Handed,
            Ended, HandedOnce, Stops, Stages, Handlers, Kinds, apiVars, ipcVars, wsVars, dbVars, bounds
<1> QED BY ManagerTypes, OutcomeFinal DEF ManagerStep

\* Timers, notices, and stops of the processes.
LEMMA ProcessIInv ==
  ASSUME IInv,
         \/ \E r \in responses : IgnoreResponse(r)
         \/ \E s \in Sessions : Ages(s)
         \/ StaleCleaner \/ OnWsRestarted \/ ApiRestart
         \/ Terminate \/ DrainEnds \/ WsCrash \/ WsStart
  PROVE IInv'
<1> USE DEF IInv, TypeOK, EntryOfPipeline, InPipeline, AskedFor, Agreement, Agrees, Handed,
            Ended, HandedOnce, Stops, Stages, Handlers, Kinds, apiVars, ipcVars, wsVars, dbVars, bounds
<1>1. CASE \E r \in responses : IgnoreResponse(r)
  BY <1>1 DEF IgnoreResponse
<1>2. CASE \E s \in Sessions : Ages(s)
  BY <1>2 DEF Ages
<1>3. CASE StaleCleaner
  BY <1>3 DEF StaleCleaner
<1>4. CASE OnWsRestarted
  BY <1>4 DEF OnWsRestarted
<1>5. CASE ApiRestart
  BY <1>5 DEF ApiRestart
<1>6. CASE Terminate
  BY <1>6 DEF Terminate
<1>7. CASE DrainEnds
  BY <1>7 DEF DrainEnds, WsGone
<1>8. CASE WsCrash
  BY <1>8 DEF WsCrash, WsGone
<1>9. CASE WsStart
  BY <1>9 DEF WsStart
<1> QED BY <1>1, <1>2, <1>3, <1>4, <1>5, <1>6, <1>7, <1>8, <1>9 DEF IInv

LEMMA StutterIInv == ASSUME IInv, UNCHANGED vars PROVE IInv'
BY DEF IInv, TypeOK, EntryOfPipeline, InPipeline, AskedFor, Agreement, Agrees, Handed, Ended,
       HandedOnce, Stops, vars, apiVars, ipcVars, wsVars, dbVars, bounds

LEMMA NextIInv == IInv /\ [Next]_vars => IInv'
BY PostIInv, ApiIInv, DispatchedIInv, ManagerIInv, ProcessIInv, StutterIInv DEF Next

\* The inductive invariant holds in every reachable state: what is known of a message
\* in the other process was asked for, and answers, replies and rows agree.
THEOREM ChatInvariant == Spec => []IInv
BY InitIInv, NextIInv, PTL DEF Spec

\* TypeOK: the state of both processes, the IPC and the database keeps its types, and
\* no more restart notices are under way than the process had restarts.
THEOREM ChatTypes == Spec => []TypeOK
<1>1. IInv => TypeOK BY DEF IInv
<1> QED BY <1>1, ChatInvariant, PTL

\* A session is blocked only by a message whose pipeline is under way and whose guard has
\* still to fire, and every pipeline has a timer that ends it.
THEOREM EntriesArePipelines == Spec => []EntryOfPipeline
<1>1. IInv => EntryOfPipeline BY DEF IInv
<1> QED BY <1>1, ChatInvariant, PTL

\* A reply taken as saved was handed to the database before.
THEOREM SavedFlagTrue == Spec => []SavedIsTrue
<1>1. IInv => SavedIsTrue BY DEF IInv, Agreement, Agrees, Handed, SavedIsTrue
<1> QED BY <1>1, ChatInvariant, PTL

\* A message reaches one dispatch handler, its reply is written by one INSERT or refused by
\* one, and one answer of it is published and taken, over a channel that loses messages and
\* with stops of both processes in between.
THEOREM HandoversOnce == Spec => []HandedOnce
<1>1. IInv => HandedOnce BY DEF IInv
<1> QED BY <1>1, ChatInvariant, PTL

----------------------------------------------------------------------------
(* The pipeline uses the manager as TaskLifecycle says                       *)

\* No step of either process, and no loss or stop, moves a task but through the manager.
LEMMA ManagerSteps ==
  ASSUME [Next]_vars PROVE [Manager!Next]_(Manager!vars)
<1> USE DEF Manager!vars, apiVars, ipcVars, wsVars, dbVars, bounds
<1>1. ASSUME NEW m \in Msgs, Post(m) \/ Api(m) PROVE UNCHANGED Manager!vars
  BY <1>1 DEF Post, Refuse, Accept, Trigger, Api, Register, StoreFails, Dispatch, DispatchFails,
              RequestTimeout, GuardFires, OnResponse
<1>2. ASSUME NEW m \in Msgs, Dispatched(m) \/ ManagerStep(m) PROVE [Manager!Next]_(Manager!vars)
  BY <1>2 DEF Dispatched, OnDispatch, StartTask, Resolved, Save, SaveFails, Rejected,
              FallbackEnds, Answer, ManagerStep
<1>3. CASE \/ \E r \in responses : IgnoreResponse(r)
           \/ \E s \in Sessions : Ages(s)
           \/ StaleCleaner \/ OnWsRestarted \/ ApiRestart
           \/ Terminate \/ DrainEnds \/ WsCrash \/ WsStart \/ UNCHANGED vars
  BY <1>3 DEF IgnoreResponse, Ages, StaleCleaner, OnWsRestarted, ApiRestart, Terminate,
              DrainEnds, WsCrash, WsGone, WsStart, vars
<1> QED BY <1>1, <1>2, <1>3 DEF Next

\* The tasks of the dispatch handlers live as TaskLifecycle says, which WorkerManager
\* implements: the handlers ask nothing of the manager that it does not promise.
THEOREM PipelineUsesManager == Spec => Manager!Spec
<1>1. Init => Manager!Init BY DEF Init
<1>2. [Next]_vars => [Manager!Next]_(Manager!vars) BY ManagerSteps
<1> QED BY <1>1, <1>2, PTL DEF Spec, Manager!Spec

----------------------------------------------------------------------------
(* The pipeline implements RemoteCall                                        *)

\* How one message may look from outside after a step.
CallMoves(m) ==
  \/ CallOf(m)' = CallOf(m)
  \/ CallOf(m) = "idle" /\ CallOf(m)' \in {"waiting", "unknown"}
  \/ CallOf(m) = "waiting" /\ CallOf(m)' = "unknown"
  \/ CallOf(m) = "waiting" /\ OutcomeOf(m) # "none" /\ CallOf(m)' = OutcomeOf(m)
OutcomeMoves(m) ==
  \/ OutcomeOf(m)' = OutcomeOf(m)
  \/ CallOf(m) # "idle" /\ OutcomeOf(m) = "none" /\ OutcomeOf(m)' \in {"resolved", "rejected"}

\* A stage moves along the pipeline, and a reply comes with the end of its message.
StageMoves(m) ==
  \/ stage'[m] = stage[m] /\ reply'[m] = reply[m]
  \/ /\ stage[m] \in {"new", "storing"} /\ reply'[m] = reply[m]
     /\ stage'[m] \in {"refused", "storing", "prepare", "gone"}
  \/ stage[m] = "prepare" /\ stage'[m] = "asked" /\ reply'[m] = reply[m]
  \/ stage[m] \in {"prepare", "asked"} /\ stage'[m] = "gone" /\ reply'[m] = reply[m]
  \/ stage[m] \in {"prepare", "asked"} /\ stage'[m] = "done" /\ reply'[m] = "none"
  \/ stage[m] = "asked" /\ stage'[m] = "done" /\ Agrees(m, reply'[m]) /\ reply'[m] \in Kinds

\* The steps of a message in the API process move stages so.
LEMMA ApiStages ==
  ASSUME IInv, NEW m \in Msgs, Post(m) \/ Api(m), NEW n \in Msgs PROVE StageMoves(n) /\ UNCHANGED phase
<1> USE DEF IInv, TypeOK, Agreement, Agrees, Handed, Ended, StageMoves, Stages, Kinds, apiVars, ipcVars,
            wsVars, dbVars, bounds
<1>1. CASE Refuse(m)
  BY <1>1 DEF Refuse
<1>2. CASE Accept(m)
  BY <1>2 DEF Accept, Drop
<1>3. CASE Trigger(m)
  BY <1>3 DEF Trigger
<1>4. CASE Register(m)
  BY <1>4 DEF Register
<1>5. CASE StoreFails(m)
  BY <1>5 DEF StoreFails
<1>6. CASE Dispatch(m)
  BY <1>6 DEF Dispatch, Sent
<1>7. CASE DispatchFails(m)
  BY <1>7 DEF DispatchFails, Finish, Drop
<1>8. CASE RequestTimeout(m)
  BY <1>8 DEF RequestTimeout, Finish, Drop
<1>9. CASE GuardFires(m)
  BY <1>9 DEF GuardFires, Drop
<1>10. CASE \E r \in responses : OnResponse(m, r)
  BY <1>10 DEF OnResponse, Matches, Finish, Drop
<1> QED BY <1>1, <1>2, <1>3, <1>4, <1>5, <1>6, <1>7, <1>8, <1>9, <1>10 DEF Post, Api

\* The other steps: stages move only when the API process stops, phases only in the
\* manager, and only of messages that were asked for.
LEMMA OtherStages ==
  ASSUME IInv, NEW n \in Msgs,
         \/ \E m \in Msgs : Dispatched(m) \/ ManagerStep(m)
         \/ \E r \in responses : IgnoreResponse(r)
         \/ \E s \in Sessions : Ages(s)
         \/ StaleCleaner \/ OnWsRestarted \/ ApiRestart
         \/ Terminate \/ DrainEnds \/ WsCrash \/ WsStart
         \/ UNCHANGED vars
  PROVE  /\ StageMoves(n)
         /\ phase'[n] = phase[n] \/ (handler[n] # "none" /\ Manager!Next)
<1> USE DEF IInv, TypeOK, StageMoves, Stages, Kinds, apiVars, ipcVars, wsVars, dbVars, bounds, vars
<1>1. CASE \E m \in Msgs : Dispatched(m) \/ ManagerStep(m)
  <2> PICK m \in Msgs : Dispatched(m) \/ ManagerStep(m) BY <1>1
  <2>1. UNCHANGED <<stage, reply>>
    BY DEF Dispatched, OnDispatch, StartTask, Resolved, Save, SaveFails, Rejected, FallbackEnds,
           Answer, ManagerStep
  <2>2. UNCHANGED phase \/ (handler[m] # "none" /\ Manager!Next /\ \E p : phase' = [phase EXCEPT ![m] = p])
    BY DEF Dispatched, OnDispatch, StartTask, Resolved, Save, SaveFails, Rejected, FallbackEnds,
           Answer, ManagerStep
  <2> QED BY <2>1, <2>2
<1>2. CASE ApiRestart
  BY <1>2 DEF ApiRestart
<1>3. CASE ~ApiRestart /\ ~(\E m \in Msgs : Dispatched(m) \/ ManagerStep(m))
  BY <1>3 DEF IgnoreResponse, Ages, StaleCleaner, OnWsRestarted, Terminate, DrainEnds, WsCrash,
              WsGone, WsStart
<1> QED BY <1>1, <1>2, <1>3

\* Seen from outside, every message moves as RemoteCall says.
LEMMA MovesAreCalls ==
  ASSUME IInv, IInv', [Next]_vars, NEW n \in Msgs
  PROVE  CallMoves(n) /\ OutcomeMoves(n)
<1>1. StageMoves(n) /\ (phase'[n] = phase[n] \/ (handler[n] # "none" /\ Manager!Next))
  BY ApiStages, OtherStages DEF Next
<1>2. CallMoves(n)
  BY <1>1 DEF StageMoves, CallMoves, CallOf, OutcomeOf, IInv, TypeOK, Ended, Agrees, Stages, Kinds
<1>3. CASE phase'[n] = phase[n]
  BY <1>3, <1>2 DEF OutcomeMoves, OutcomeOf
<1>4. CASE handler[n] # "none" /\ Manager!Next
  <2>1. CallOf(n) # "idle"
    BY <1>4 DEF IInv, AskedFor, TypeOK, CallOf, Kinds
  <2>2. OutcomeOf(n) = "none" \/ phase'[n] = phase[n]
    BY <1>4, OutcomeFinal DEF IInv, OutcomeOf
  <2> QED BY <1>2, <2>1, <2>2 DEF OutcomeMoves, OutcomeOf
<1> QED BY <1>1, <1>2, <1>3, <1>4

LEMMA CallInit == Init => Call!Init
BY DEF Init, Call!Init, Manager!Init, CallOf, OutcomeOf

LEMMA CallStep == IInv /\ IInv' /\ [Next]_vars => [Call!Next]_(Call!vars)
<1> SUFFICES ASSUME IInv, IInv', [Next]_vars PROVE Call!Next
  OBVIOUS
<1>1. \A n \in Msgs : CallMoves(n) /\ OutcomeMoves(n)
  BY MovesAreCalls
<1>2. \A n \in Msgs :
        /\ CallOf(n)' \in {"idle", "waiting", "unknown", "resolved", "rejected"}
        /\ OutcomeOf(n)' \in {"none", "resolved", "rejected"}
  BY DEF CallOf, OutcomeOf
<1>3. /\ [n \in Msgs |-> CallOf(n)'] \in [Msgs -> {"idle", "waiting", "unknown"} \cup Call!Outcomes]
      /\ [n \in Msgs |-> OutcomeOf(n)'] \in [Msgs -> {"none"} \cup Call!Outcomes]
  BY <1>2 DEF Call!Outcomes
<1>4. ASSUME NEW n \in Msgs
      PROVE  \/ [c \in Msgs |-> CallOf(c)'][n] = [c \in Msgs |-> CallOf(c)][n]
             \/ Call!Ask(n) \/ Call!Learn(n) \/ Call!Lose(n)
  BY <1>1 DEF CallMoves, Call!Ask, Call!Learn, Call!Lose
<1>5. ASSUME NEW n \in Msgs
      PROVE  \/ [c \in Msgs |-> OutcomeOf(c)'][n] = [c \in Msgs |-> OutcomeOf(c)][n]
             \/ Call!Run(n)
  BY <1>1 DEF OutcomeMoves, Call!Run, Call!Outcomes
<1> QED BY <1>3, <1>4, <1>5 DEF Call!Next

\* The dispatch over the lossy IPC implements RemoteCall.
THEOREM DispatchImplementsCall == Spec => ImplementsCall
<1>1. Init => Call!Init BY CallInit
<1>2. IInv /\ IInv' /\ [Next]_vars => [Call!Next]_(Call!vars) BY CallStep
<1> QED BY <1>1, <1>2, ChatInvariant, PTL DEF Spec, ImplementsCall, Call!Spec

=============================================================================
