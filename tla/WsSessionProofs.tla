--------------------------- MODULE WsSessionProofs ---------------------------
(* The safety properties of WsSession, for any number of connections and      *)
(* messages, wherever the messages come from.                                 *)
EXTENDS WsSession, FiniteSetTheorems, TLAPS

HandlingStages == {"sending", "asking", "waiting", "followup"}

\* A message whose handler has not asked the manager has no task, one whose handler has
\* asked has one, and one whose handler has ended has a settled one.
PhaseOfStage ==
  \A m \in Msgs :
    /\ stage[m] \in {"new", "refused", "sending", "asking"} <=> phase[m] = "unsent"
    /\ stage[m] \in {"ended", "over"} => phase[m] \in {"resolved", "rejected"}

\* The handler of a message came over a connection that exists.
ViaConnected ==
  \A m \in Msgs :
    /\ stage[m] = "new" => via[m] = None
    /\ stage[m] \in HandlingStages => via[m] \in Conns /\ conn[via[m]] # "new"

\* Handlers of a connection whose flag was not reset under them: at most one, and the
\* flag is set as long as the connection is open.
FlagOfHandler ==
  \A c \in Conns : ~unset[c] =>
    /\ \A m, n \in Handling(c) : m = n
    /\ conn[c] = "open" /\ Handling(c) # {} => busy[c]

SInv == TypeOK /\ PhaseOfStage /\ ViaConnected /\ FlagOfHandler /\ EntryOfHandler

----------------------------------------------------------------------------
(* Entries                                                                    *)

\* What a call of sendTask does to the tasks.
LEMMA SendTaskKeeps ==
  ASSUME TypeOK, NEW m \in Msgs, NEW c \in Conns \cup {None}, SendTask(m, c)
  PROVE  /\ phase' \in [Msgs -> Phases] /\ client' \in [Msgs -> Conns \cup {None}]
         /\ phase'[m] \in {"rejected", "waiting", "running"}
         /\ \A o \in Msgs : o # m => phase'[o] = phase[o]
<1>1. PICK p \in {"rejected", "waiting", "running"} : phase' = [phase EXCEPT ![m] = p]
  BY DEF SendTask
<1>2. client' \in [Msgs -> Conns \cup {None}]
  BY DEF SendTask, TypeOK, WithoutClient, Running
<1> QED BY <1>1, <1>2 DEF TypeOK, Phases

LEMMA InitInv == Init => SInv
<1> SUFFICES ASSUME Init PROVE SInv
  OBVIOUS
<1> USE SessionAssumption DEF Init
<1>1. TypeOK
  BY DEF TypeOK, Stages, Phases
<1>2. PhaseOfStage /\ ViaConnected /\ EntryOfHandler
  BY DEF PhaseOfStage, ViaConnected, EntryOfHandler, HandlingStages
<1>3. FlagOfHandler
  BY DEF FlagOfHandler, Handling
<1> QED BY <1>1, <1>2, <1>3 DEF SInv

\* Handlers, their connections and the flags as they are: what is left to show.
LEMMA SameHandlers ==
  ASSUME ViaConnected, FlagOfHandler, UNCHANGED <<stage, via, unset>>,
         \A c \in Conns : conn'[c] = conn[c] \/ (conn[c] = "open" /\ conn'[c] = "closed"),
         \A c \in Conns : busy[c] /\ conn'[c] = "open" => busy'[c]
  PROVE  ViaConnected' /\ FlagOfHandler'
<1>1. ViaConnected'
  BY DEF ViaConnected, HandlingStages
<1>2. \A c \in Conns : Handling(c)' = Handling(c)
  BY DEF Handling
<1>3. FlagOfHandler'
  BY <1>2 DEF FlagOfHandler
<1> QED BY <1>1, <1>3

\* Tasks and handlers as they are: a step that may only remove the entry.
LEMMA SameTasks ==
  ASSUME PhaseOfStage, EntryOfHandler, UNCHANGED <<stage, phase>>, entry' \in {entry, None}
  PROVE  PhaseOfStage' /\ EntryOfHandler'
BY DEF PhaseOfStage, EntryOfHandler

\* The flag of a connection is reset under its handlers, and that is remembered.
LEMMA ResetKeeps ==
  ASSUME TypeOK, FlagOfHandler, ViaConnected, NEW c \in Conns, ResetFlag(c),
         UNCHANGED <<stage, via, conn>>
  PROVE  /\ busy' \in [Conns -> BOOLEAN] /\ unset' \in [Conns -> BOOLEAN]
         /\ FlagOfHandler' /\ ViaConnected'
<1>1. /\ busy' = [busy EXCEPT ![c] = FALSE]
      /\ unset' = [unset EXCEPT ![c] = Handling(c) # {}]
  BY DEF ResetFlag
<1>2. \A d \in Conns : Handling(d)' = Handling(d)
  BY DEF Handling
<1>3. FlagOfHandler'
  <2> SUFFICES ASSUME NEW d \in Conns, ~unset'[d]
               PROVE  /\ \A m, n \in Handling(d) : m = n
                      /\ conn[d] = "open" /\ Handling(d) # {} => busy'[d]
    BY <1>2 DEF FlagOfHandler
  <2>1. CASE d = c
    <3>1. Handling(d) = {}
      BY <1>1, <2>1 DEF TypeOK
    <3> QED BY <3>1
  <2>2. CASE d # c
    BY <1>1, <2>2 DEF TypeOK, FlagOfHandler
  <2> QED BY <2>1, <2>2
<1>4. ViaConnected'
  BY DEF ViaConnected
<1> QED BY <1>1, <1>3, <1>4 DEF TypeOK

\* A handler ends, and resets the flag of its connection.
LEMMA EndKeeps ==
  ASSUME SInv, NEW m \in Msgs, stage[m] \in HandlingStages, NEW s \in {"ended", "over"},
         stage' = [stage EXCEPT ![m] = s],
         busy' = [busy EXCEPT ![via[m]] = FALSE],
         unset' = [unset EXCEPT ![via[m]] = @ /\ Handling(via[m]) # {m}],
         UNCHANGED <<via, conn>>
  PROVE  /\ stage' \in [Msgs -> Stages]
         /\ busy' \in [Conns -> BOOLEAN] /\ unset' \in [Conns -> BOOLEAN]
         /\ FlagOfHandler' /\ ViaConnected'
<1>1. via[m] \in Conns
  BY DEF SInv, ViaConnected
<1>2. \A d \in Conns : Handling(d)' = Handling(d) \ {m}
  BY DEF SInv, TypeOK, Handling, HandlingStages
<1>3. m \in Handling(via[m]) /\ \A d \in Conns : d # via[m] => m \notin Handling(d)
  BY DEF Handling, HandlingStages
<1>4. FlagOfHandler'
  <2> SUFFICES ASSUME NEW d \in Conns, ~unset'[d]
               PROVE  /\ \A k, n \in Handling(d) \ {m} : k = n
                      /\ conn[d] = "open" /\ Handling(d) \ {m} # {} => busy'[d]
    BY <1>2 DEF FlagOfHandler
  <2>1. CASE d = via[m]
    <3>1. ~unset[d] \/ Handling(d) = {m}
      BY <2>1, <1>1 DEF SInv, TypeOK
    <3>2. Handling(d) \ {m} = {}
      BY <2>1, <1>3, <3>1 DEF SInv, FlagOfHandler
    <3> QED BY <3>2
  <2>2. CASE d # via[m]
    <3>1. Handling(d) \ {m} = Handling(d) /\ unset'[d] = unset[d] /\ busy'[d] = busy[d]
      BY <2>2, <1>1, <1>3 DEF SInv, TypeOK
    <3> QED BY <3>1 DEF SInv, FlagOfHandler
  <2> QED BY <2>1, <2>2
<1>5. ViaConnected'
  BY DEF SInv, TypeOK, ViaConnected, HandlingStages
<1>6. stage' \in [Msgs -> Stages]
  BY DEF SInv, TypeOK, Stages
<1> QED BY <1>1, <1>4, <1>5, <1>6 DEF SInv, TypeOK

\* A handler of the connection begins, with the flag set.
LEMMA BeginKeeps ==
  ASSUME SInv, NEW m \in Msgs, NEW c \in Conns, conn[c] = "open", stage[m] = "new",
         NEW s \in {"sending", "followup"}, stage' = [stage EXCEPT ![m] = s],
         via' = [via EXCEPT ![m] = c], busy' = [busy EXCEPT ![c] = TRUE],
         unset' \in [Conns -> BOOLEAN], \A d \in Conns : d # c => unset'[d] = unset[d],
         ~unset'[c] => Handling(c) = {}, UNCHANGED conn
  PROVE  /\ stage' \in [Msgs -> Stages] /\ via' \in [Msgs -> Conns \cup {None}]
         /\ busy' \in [Conns -> BOOLEAN] /\ FlagOfHandler' /\ ViaConnected'
<1>1. Handling(c)' = Handling(c) \cup {m}
  BY DEF SInv, TypeOK, Handling
<1>2. \A d \in Conns : d # c => Handling(d)' = Handling(d)
  BY DEF SInv, TypeOK, Handling, ViaConnected
<1>3. FlagOfHandler'
  <2> SUFFICES ASSUME NEW d \in Conns, ~unset'[d]
               PROVE  /\ \A k, n \in Handling(d)' : k = n
                      /\ conn[d] = "open" /\ Handling(d)' # {} => busy'[d]
    BY DEF FlagOfHandler
  <2>1. CASE d = c
    BY <2>1, <1>1 DEF SInv, TypeOK
  <2>2. CASE d # c
    BY <2>2, <1>2 DEF SInv, TypeOK, FlagOfHandler
  <2> QED BY <2>1, <2>2
<1>4. ViaConnected'
  BY DEF SInv, TypeOK, ViaConnected, HandlingStages
<1> QED BY <1>3, <1>4 DEF SInv, TypeOK, Stages

----------------------------------------------------------------------------
(* The actions, those of connections and control messages first               *)

LEMMA ConnectionSteps ==
  ASSUME SInv, NEW c \in Conns,
         Connect(c) \/ BindChat(c) \/ Close(c) \/ Age(c) \/ Cancel(c) \/ AbortTask(c)
           \/ ForceReset(c)
  PROVE  SInv'
<1> USE SessionAssumption DEF SInv, connVars, taskVars
<1>1. CASE Connect(c)
  <2>1. TypeOK'
    BY <1>1 DEF Connect, TypeOK
  <2>2. PhaseOfStage' /\ EntryOfHandler'
    BY <1>1, SameTasks DEF Connect
  <2>3. Handling(c) = {} /\ \A d \in Conns : Handling(d)' = Handling(d)
    BY <1>1 DEF Connect, Handling, ViaConnected, HandlingStages
  <2>4. ViaConnected'
    BY <1>1 DEF Connect, TypeOK, ViaConnected
  <2>5. FlagOfHandler'
    BY <1>1, <2>3 DEF Connect, TypeOK, FlagOfHandler
  <2> QED BY <2>1, <2>2, <2>4, <2>5
<1>2. CASE BindChat(c)
  <2>1. TypeOK'
    BY <1>2 DEF BindChat, TypeOK
  <2>2. PhaseOfStage' /\ EntryOfHandler'
    BY <1>2, SameTasks DEF BindChat
  <2>3. ViaConnected' /\ FlagOfHandler'
    BY <1>2, SameHandlers DEF BindChat
  <2> QED BY <2>1, <2>2, <2>3
<1>3. CASE Close(c)
  <2>1. TypeOK'
    BY <1>3 DEF Close, TypeOK
  <2>2. PhaseOfStage' /\ EntryOfHandler'
    BY <1>3, SameTasks DEF Close
  <2>3. /\ \A d \in Conns : conn'[d] = conn[d] \/ (conn[d] = "open" /\ conn'[d] = "closed")
        /\ \A d \in Conns : busy[d] /\ conn'[d] = "open" => busy'[d]
    BY <1>3 DEF Close, TypeOK
  <2>4. ViaConnected' /\ FlagOfHandler'
    BY <1>3, <2>3, SameHandlers DEF Close
  <2> QED BY <2>1, <2>2, <2>4
<1>4. CASE Age(c)
  <2>1. TypeOK'
    BY <1>4 DEF Age, TypeOK
  <2>2. PhaseOfStage' /\ EntryOfHandler'
    BY <1>4, SameTasks DEF Age
  <2>3. ViaConnected' /\ FlagOfHandler'
    BY <1>4, SameHandlers DEF Age
  <2> QED BY <2>1, <2>2, <2>3
<1>5. CASE Cancel(c) \/ AbortTask(c) \/ ForceReset(c)
  <2>1. /\ ResetFlag(c) /\ UNCHANGED <<conn, bound, taskVars, stage, via>>
        /\ entry' \in {entry, None}
        /\ since' \in [Conns -> {"null", "fresh", "stale"}]
    BY <1>5 DEF Cancel, AbortTask, ForceReset, TypeOK
  <2>2. PhaseOfStage' /\ EntryOfHandler'
    BY <2>1, SameTasks
  <2>3. busy' \in [Conns -> BOOLEAN] /\ unset' \in [Conns -> BOOLEAN]
    BY <2>1, ResetKeeps
  <2>4. ViaConnected' /\ FlagOfHandler'
    BY <2>1, ResetKeeps
  <2>5. TypeOK'
    BY <2>1, <2>3 DEF TypeOK
  <2> QED BY <2>2, <2>4, <2>5
<1> QED BY <1>1, <1>2, <1>3, <1>4, <1>5

LEMMA MessageSteps ==
  ASSUME SInv, NEW c \in Conns, NEW m \in Msgs, Send(c, m) \/ Followup(c, m) \/ Recover(c, m)
  PROVE  SInv'
<1> USE SessionAssumption DEF SInv, connVars, taskVars
<1>1. CASE Send(c, m) /\ stage' = [stage EXCEPT ![m] = "refused"]
  <2>1. stage[m] = "new" /\ UNCHANGED <<connVars, taskVars, via, entry>>
    BY <1>1 DEF Send, TypeOK
  <2>2. TypeOK'
    BY <1>1, <2>1 DEF TypeOK, Stages
  <2>3. PhaseOfStage' /\ EntryOfHandler'
    BY <1>1, <2>1 DEF TypeOK, PhaseOfStage, EntryOfHandler
  <2>4. \A d \in Conns : Handling(d)' = Handling(d)
    BY <1>1, <2>1 DEF TypeOK, Handling
  <2>5. FlagOfHandler'
    BY <2>1, <2>4 DEF FlagOfHandler
  <2>6. ViaConnected'
    BY <1>1, <2>1 DEF TypeOK, ViaConnected, HandlingStages
  <2> QED BY <2>2, <2>3, <2>5, <2>6
<1>2. CASE Send(c, m) /\ stage' # [stage EXCEPT ![m] = "refused"]
  <2>1. /\ conn[c] = "open" /\ stage[m] = "new" /\ stage' = [stage EXCEPT ![m] = "sending"]
        /\ via' = [via EXCEPT ![m] = c] /\ busy' = [busy EXCEPT ![c] = TRUE]
        /\ since' = [since EXCEPT ![c] = "fresh"]
        /\ unset' = [unset EXCEPT ![c] = Handling(c) # {}]
        /\ UNCHANGED <<conn, bound, taskVars, entry>>
    BY <1>2 DEF Send
  <2>2. /\ unset' \in [Conns -> BOOLEAN] /\ \A d \in Conns : d # c => unset'[d] = unset[d]
        /\ ~unset'[c] => Handling(c) = {}
    BY <2>1 DEF TypeOK
  <2>3. /\ stage' \in [Msgs -> Stages] /\ via' \in [Msgs -> Conns \cup {None}]
        /\ busy' \in [Conns -> BOOLEAN]
    BY <2>1, <2>2, BeginKeeps
  <2>4. FlagOfHandler' /\ ViaConnected'
    BY <2>1, <2>2, BeginKeeps
  <2>5. TypeOK'
    BY <2>1, <2>2, <2>3 DEF TypeOK
  <2>6. PhaseOfStage' /\ EntryOfHandler'
    BY <2>1 DEF TypeOK, PhaseOfStage, EntryOfHandler
  <2> QED BY <2>4, <2>5, <2>6
<1>3. CASE Followup(c, m)
  <2>1. /\ conn[c] = "open" /\ stage[m] = "new" /\ stage' = [stage EXCEPT ![m] = "followup"]
        /\ via' = [via EXCEPT ![m] = c] /\ busy' = [busy EXCEPT ![c] = TRUE] /\ ~busy[c]
        /\ UNCHANGED <<conn, bound, since, unset, exits, entry>>
    BY <1>3 DEF Followup
  <2>2. /\ phase' \in [Msgs -> Phases] /\ client' \in [Msgs -> Conns \cup {None}]
        /\ phase'[m] \in {"rejected", "waiting", "running"}
        /\ \A o \in Msgs : o # m => phase'[o] = phase[o]
    BY <1>3, SendTaskKeeps DEF Followup
  <2>3. ~unset[c] => Handling(c) = {}
    BY <2>1 DEF FlagOfHandler
  <2>4. unset' \in [Conns -> BOOLEAN] /\ \A d \in Conns : d # c => unset'[d] = unset[d]
    BY <2>1 DEF TypeOK
  <2>5. /\ stage' \in [Msgs -> Stages] /\ via' \in [Msgs -> Conns \cup {None}]
        /\ busy' \in [Conns -> BOOLEAN]
    BY <2>1, <2>3, <2>4, BeginKeeps
  <2>6. FlagOfHandler' /\ ViaConnected'
    BY <2>1, <2>3, <2>4, BeginKeeps
  <2>7. TypeOK'
    BY <2>1, <2>2, <2>5 DEF TypeOK
  <2>8. PhaseOfStage' /\ EntryOfHandler'
    BY <2>1, <2>2 DEF TypeOK, PhaseOfStage, EntryOfHandler
  <2> QED BY <2>6, <2>7, <2>8
<1>4. CASE Recover(c, m)
  <2>1. /\ client' \in [Msgs -> Conns \cup {None}] /\ busy' = [busy EXCEPT ![c] = TRUE]
        /\ UNCHANGED <<conn, bound, since, unset, phase, exits, stage, via, entry>>
    BY <1>4 DEF Recover, TypeOK
  <2>2. TypeOK'
    BY <2>1 DEF TypeOK
  <2>3. PhaseOfStage' /\ EntryOfHandler'
    BY <2>1, SameTasks
  <2>4. \A d \in Conns : busy[d] => busy'[d]
    BY <2>1 DEF TypeOK
  <2>5. ViaConnected' /\ FlagOfHandler'
    BY <2>1, <2>4, SameHandlers
  <2> QED BY <2>2, <2>3, <2>5
<1> QED BY <1>1, <1>2, <1>3, <1>4

LEMMA HandlerSteps ==
  ASSUME SInv, NEW m \in Msgs, Handler(m) \/ GuardTimer(m) \/ Dispatch(m)
  PROVE  SInv'
<1> USE SessionAssumption DEF SInv, connVars, taskVars
<1>1. CASE Register(m)
  <2>1. TypeOK'
    BY <1>1 DEF Register, TypeOK, Stages
  <2>2. PhaseOfStage' /\ EntryOfHandler'
    BY <1>1 DEF Register, TypeOK, PhaseOfStage, EntryOfHandler
  <2>3. \A d \in Conns : Handling(d)' = Handling(d)
    BY <1>1 DEF Register, TypeOK, Handling
  <2>4. FlagOfHandler' /\ ViaConnected'
    BY <1>1, <2>3 DEF Register, TypeOK, FlagOfHandler, ViaConnected, HandlingStages
  <2> QED BY <2>1, <2>2, <2>4
<1>2. CASE Ask(m)
  <2>1. via[m] \in Conns \cup {None}
    BY DEF TypeOK
  <2>2. /\ phase' \in [Msgs -> Phases] /\ client' \in [Msgs -> Conns \cup {None}]
        /\ phase'[m] \in {"rejected", "waiting", "running"}
        /\ \A o \in Msgs : o # m => phase'[o] = phase[o]
    BY <1>2, <2>1, SendTaskKeeps DEF Ask
  <2>3. TypeOK'
    BY <1>2, <2>2 DEF Ask, TypeOK, Stages
  <2>4. PhaseOfStage' /\ EntryOfHandler'
    BY <1>2, <2>2 DEF Ask, TypeOK, PhaseOfStage, EntryOfHandler
  <2>5. \A d \in Conns : Handling(d)' = Handling(d)
    BY <1>2 DEF Ask, TypeOK, Handling
  <2>6. FlagOfHandler' /\ ViaConnected'
    BY <1>2, <2>5 DEF Ask, TypeOK, FlagOfHandler, ViaConnected, HandlingStages
  <2> QED BY <2>3, <2>4, <2>6
<1>3. CASE Finish(m)
  <2>1. /\ stage[m] = "waiting" /\ phase[m] \in {"resolved", "rejected"}
        /\ stage' = [stage EXCEPT ![m] = "ended"]
        /\ busy' = [busy EXCEPT ![via[m]] = FALSE]
        /\ since' = [since EXCEPT ![via[m]] = "null"] /\ entry' = None
        /\ unset' = [unset EXCEPT ![via[m]] = @ /\ Handling(via[m]) # {m}]
        /\ UNCHANGED <<conn, bound, taskVars, via>>
    BY <1>3 DEF Finish, Settled
  <2>2. /\ stage' \in [Msgs -> Stages]
        /\ busy' \in [Conns -> BOOLEAN] /\ unset' \in [Conns -> BOOLEAN]
    BY <2>1, EndKeeps DEF HandlingStages
  <2>3. FlagOfHandler' /\ ViaConnected'
    BY <2>1, EndKeeps DEF HandlingStages
  <2>4. TypeOK'
    BY <2>1, <2>2 DEF TypeOK
  <2>5. PhaseOfStage' /\ EntryOfHandler'
    BY <2>1 DEF TypeOK, PhaseOfStage, EntryOfHandler
  <2> QED BY <2>3, <2>4, <2>5
<1>4. CASE FollowupEnds(m)
  <2>1. /\ stage[m] = "followup" /\ phase[m] \in {"resolved", "rejected"}
        /\ stage' = [stage EXCEPT ![m] = "over"]
        /\ busy' = [busy EXCEPT ![via[m]] = FALSE]
        /\ unset' = [unset EXCEPT ![via[m]] = @ /\ Handling(via[m]) # {m}]
        /\ UNCHANGED <<conn, bound, since, taskVars, via, entry>>
    BY <1>4 DEF FollowupEnds, Settled
  <2>2. /\ stage' \in [Msgs -> Stages]
        /\ busy' \in [Conns -> BOOLEAN] /\ unset' \in [Conns -> BOOLEAN]
    BY <2>1, EndKeeps DEF HandlingStages
  <2>3. FlagOfHandler' /\ ViaConnected'
    BY <2>1, EndKeeps DEF HandlingStages
  <2>4. TypeOK'
    BY <2>1, <2>2 DEF TypeOK
  <2>5. PhaseOfStage' /\ EntryOfHandler'
    BY <2>1 DEF TypeOK, PhaseOfStage, EntryOfHandler
  <2> QED BY <2>3, <2>4, <2>5
<1>5. CASE GuardTimer(m)
  <2>1. via[m] \in Conns
    BY <1>5 DEF GuardTimer, ViaConnected, HandlingStages
  <2>2. /\ ResetFlag(via[m]) /\ since' = [since EXCEPT ![via[m]] = "null"]
        /\ UNCHANGED <<conn, bound, taskVars, stage, via, entry>>
    BY <1>5 DEF GuardTimer
  <2>3. busy' \in [Conns -> BOOLEAN] /\ unset' \in [Conns -> BOOLEAN]
    BY <2>1, <2>2, ResetKeeps
  <2>4. ViaConnected' /\ FlagOfHandler'
    BY <2>1, <2>2, ResetKeeps
  <2>5. TypeOK'
    BY <2>2, <2>3 DEF TypeOK
  <2>6. PhaseOfStage' /\ EntryOfHandler'
    BY <2>2, SameTasks
  <2> QED BY <2>4, <2>5, <2>6
<1>6. CASE Dispatch(m)
  <2>1. bound \in Conns \cup {None}
    BY DEF TypeOK
  <2>2. /\ phase' \in [Msgs -> Phases] /\ client' \in [Msgs -> Conns \cup {None}]
        /\ phase'[m] \in {"rejected", "waiting", "running"}
        /\ \A o \in Msgs : o # m => phase'[o] = phase[o]
    BY <1>6, <2>1, SendTaskKeeps DEF Dispatch
  <2>3. TypeOK'
    BY <1>6, <2>2 DEF Dispatch, TypeOK, Stages
  <2>4. PhaseOfStage' /\ EntryOfHandler'
    BY <1>6, <2>2 DEF Dispatch, TypeOK, PhaseOfStage, EntryOfHandler
  <2>5. \A d \in Conns : Handling(d)' = Handling(d)
    BY <1>6 DEF Dispatch, TypeOK, Handling
  <2>6. FlagOfHandler'
    BY <1>6, <2>5 DEF Dispatch, FlagOfHandler
  <2>7. ViaConnected'
    BY <1>6 DEF Dispatch, TypeOK, ViaConnected, HandlingStages
  <2> QED BY <2>3, <2>4, <2>6, <2>7
<1> QED BY <1>1, <1>2, <1>3, <1>4, <1>5, <1>6 DEF Handler

----------------------------------------------------------------------------
(* The manager                                                                *)

\* A step of the manager changes the phase of tasks it was asked for, and gives the
\* entry to none but a task that is neither new nor settled.
LEMMA ManagerStep ==
  ASSUME SInv, UNCHANGED <<connVars, exits, stage, via>>,
         phase' \in [Msgs -> Phases], client' \in [Msgs -> Conns \cup {None}],
         \A o \in Msgs : \/ phase'[o] = phase[o]
                         \/ /\ phase[o] \in {"waiting", "running", "retrying"}
                            /\ phase'[o] # "unsent",
         \/ entry' \in {entry, None}
         \/ entry' \in Msgs /\ phase[entry'] \in {"waiting", "running", "retrying"}
  PROVE  SInv'
<1>1. TypeOK'
  BY DEF SInv, TypeOK, connVars
<1>2. PhaseOfStage'
  BY DEF SInv, PhaseOfStage
<1>3. EntryOfHandler'
  BY DEF SInv, PhaseOfStage, EntryOfHandler
<1>4. ViaConnected' /\ FlagOfHandler'
  BY SameHandlers DEF SInv, connVars
<1> QED BY <1>1, <1>2, <1>3, <1>4 DEF SInv

LEMMA ManagerSteps ==
  ASSUME SInv, NEW m \in Msgs,
         \/ Dequeue(m) \/ LateAnswer(m) \/ TaskTimeout(m) \/ WorkerEvent(m) \/ Retry(m)
         \/ Answer(m, "resolved") \/ Answer(m, "rejected")
  PROVE  SInv'
<1> USE DEF taskVars
<1>0. TypeOK
  BY DEF SInv
<1>1. CASE Dequeue(m)
  <2>1. client[m] \in Conns \cup {None}
    BY <1>0 DEF TypeOK
  <2>2. /\ phase' \in [Msgs -> Phases] /\ client' \in [Msgs -> Conns \cup {None}]
        /\ phase'[m] # "unsent" /\ \A o \in Msgs : o # m => phase'[o] = phase[o]
    BY <1>0, <1>1, <2>1, SendTaskKeeps DEF Dequeue
  <2>3. phase[m] = "waiting" /\ UNCHANGED <<connVars, exits, stage, via, entry>>
    BY <1>1 DEF Dequeue
  <2> QED BY <2>2, <2>3, ManagerStep
<1>2. CASE LateAnswer(m)
  <2>1. entry' = None /\ UNCHANGED <<connVars, taskVars, stage, via>>
    BY <1>2 DEF LateAnswer
  <2>2. phase' \in [Msgs -> Phases] /\ client' \in [Msgs -> Conns \cup {None}]
    BY <1>0, <2>1 DEF TypeOK
  <2> QED BY <2>1, <2>2, ManagerStep
<1>3. CASE TaskTimeout(m) \/ Answer(m, "resolved") \/ Answer(m, "rejected")
  <2>1. /\ phase[m] = "running" /\ entry' \in {entry, None}
        /\ \E p \in {"resolved", "rejected"} : phase' = [phase EXCEPT ![m] = p]
        /\ client' = WithoutClient({m}) /\ UNCHANGED <<connVars, exits, stage, via>>
    BY <1>3 DEF TaskTimeout, Answer, Running
  <2>2. /\ phase' \in [Msgs -> Phases] /\ client' \in [Msgs -> Conns \cup {None}]
        /\ \A o \in Msgs : phase'[o] = phase[o] \/ (phase[o] = "running" /\ phase'[o] # "unsent")
    BY <1>0, <2>1 DEF TypeOK, Phases, WithoutClient
  <2> QED BY <2>1, <2>2, ManagerStep
<1>4. CASE WorkerEvent(m)
  <2>1. UNCHANGED <<connVars, phase, exits, stage, via, entry>>
    BY <1>4 DEF WorkerEvent
  <2>2. phase' \in [Msgs -> Phases] /\ client' \in [Msgs -> Conns \cup {None}]
    BY <1>0, <1>4 DEF WorkerEvent, TypeOK
  <2> QED BY <2>1, <2>2, ManagerStep
<1>5. CASE Retry(m)
  <2>1. phase[m] = "retrying" /\ UNCHANGED <<connVars, exits, stage, via>>
    BY <1>5 DEF Retry
  <2>2. /\ phase' \in [Msgs -> Phases] /\ client' \in [Msgs -> Conns \cup {None}]
        /\ phase'[m] # "unsent" /\ \A o \in Msgs : o # m => phase'[o] = phase[o]
    BY <1>0, <1>5 DEF Retry, TypeOK, Phases, WithoutClient
  <2>3. entry' = entry \/ entry' = m
    BY <1>5 DEF Retry
  <2> QED BY <2>1, <2>2, <2>3, ManagerStep
<1> QED BY <1>1, <1>2, <1>3, <1>4, <1>5

LEMMA ExitStep ==
  ASSUME SInv, WorkerExit
  PROVE  SInv'
<1> USE SessionAssumption DEF SInv, connVars, taskVars
<1>1. PICK again \in SUBSET Running :
        /\ phase' = [m \in Msgs |-> IF m \in again THEN "retrying"
                                    ELSE IF m \in Running THEN "rejected" ELSE phase[m]]
        /\ client' = WithoutClient(Running \ again)
  BY DEF WorkerExit
<1>2. phase' \in [Msgs -> Phases] /\ client' \in [Msgs -> Conns \cup {None}]
  BY <1>1 DEF TypeOK, Phases, WithoutClient
<1>3. TypeOK'
  <2>1. exits' \in 0..MaxExits
    BY DEF WorkerExit, TypeOK
  <2>2. /\ busy' \in [Conns -> BOOLEAN] /\ unset' \in [Conns -> BOOLEAN]
        /\ since' \in [Conns -> {"null", "fresh", "stale"}]
    BY DEF WorkerExit, TypeOK
  <2>3. entry' \in Msgs \cup {None} /\ UNCHANGED <<conn, bound, stage, via>>
    BY DEF WorkerExit, TypeOK
  <2> QED BY <1>2, <2>1, <2>2, <2>3 DEF TypeOK
<1>4. \A o \in Msgs : phase'[o] = phase[o] \/ (phase[o] = "running" /\ phase'[o] # "unsent")
  BY <1>1 DEF Running
<1>5. PhaseOfStage'
  BY <1>4 DEF WorkerExit, PhaseOfStage
<1>6. EntryOfHandler'
  BY DEF WorkerExit, EntryOfHandler
<1>7. ViaConnected'
  BY DEF WorkerExit, ViaConnected
<1>8. FlagOfHandler'
  <2>1. \A c \in Conns : Handling(c)' = Handling(c)
    BY DEF WorkerExit, Handling
  <2> SUFFICES ASSUME NEW c \in Conns, ~unset'[c]
               PROVE  /\ \A m, n \in Handling(c) : m = n
                      /\ conn[c] = "open" /\ Handling(c) # {} => busy'[c]
    BY <2>1 DEF FlagOfHandler, WorkerExit
  <2>2. Handling(c) = {} \/ (~unset[c] /\ ~busy[c])
    BY DEF WorkerExit, TypeOK
  <2> QED BY <2>2 DEF FlagOfHandler
<1> QED BY <1>3, <1>5, <1>6, <1>7, <1>8

LEMMA StepInv == SInv /\ [Next]_vars => SInv'
<1> SUFFICES ASSUME SInv, [Next]_vars PROVE SInv'
  OBVIOUS
<1>1. CASE StaleCleaner \/ UNCHANGED vars
  <2>1. /\ UNCHANGED <<connVars, exits, stage, via>> /\ entry' \in {entry, None}
        /\ phase' \in [Msgs -> Phases] /\ client' \in [Msgs -> Conns \cup {None}]
        /\ UNCHANGED phase
    BY <1>1 DEF StaleCleaner, vars, taskVars, SInv, TypeOK
  <2> QED BY <2>1, ManagerStep
<1> QED BY <1>1, ConnectionSteps, MessageSteps, HandlerSteps, ManagerSteps, ExitStep DEF Next

----------------------------------------------------------------------------

\* The inductive invariant of the session holds in every reachable state.
THEOREM SessionInvariant == Spec => []SInv
BY InitInv, StepInv, PTL DEF Spec

\* Connections, flags, handlers, the entry and the tasks keep their types.
THEOREM SessionTypes == Spec => []TypeOK
<1>1. SInv => TypeOK
  BY DEF SInv
<1> QED BY <1>1, SessionInvariant, PTL

\* The busy flag keeps the handlers of a connection apart, unless it was reset under them.
THEOREM FlagKeepsApart == Spec => []FlagExcludes
<1>1. SInv => FlagExcludes
  <2> SUFFICES ASSUME SInv, NEW c \in Conns, ~unset[c] PROVE Cardinality(Handling(c)) <= 1
    BY DEF FlagExcludes
  <2>1. CASE Handling(c) = {}
    BY <2>1, FS_EmptySet
  <2>2. ASSUME NEW m \in Handling(c) PROVE Cardinality(Handling(c)) <= 1
    <3>1. Handling(c) = {m}
      BY <2>2 DEF SInv, FlagOfHandler
    <3>2. Cardinality({m}) = 1
      BY FS_Singleton
    <3> QED BY <3>1, <3>2
  <2> QED BY <2>1, <2>2
<1> QED BY <1>1, SessionInvariant, PTL

\* The session's entry never names a message whose handler has ended, was refused, or has
\* not registered it yet.
THEOREM EntriesHaveHandlers == Spec => []EntryOfHandler
<1>1. SInv => EntryOfHandler
  BY DEF SInv
<1> QED BY <1>1, SessionInvariant, PTL
\* A handler that waits has a task of the manager to wait for, which it asked for once, and
\* one that has ended, or a follow-up that is over, has a settled one: no exit of the worker,
\* retry, cancel or reset takes a task from under its handler.
THEOREM HandlersHaveTasks == Spec => []PhaseOfStage
<1>1. SInv => PhaseOfStage
  BY DEF SInv
<1> QED BY <1>1, SessionInvariant, PTL

----------------------------------------------------------------------------
(* The manager behind the session                                             *)

\* What is cited of TaskLifecycle is its Edges; the number of attempts is WorkerManager's.
Lifecycle == INSTANCE TaskLifecycle
  WITH Tasks <- Msgs, MaxAttempts <- 0, attempts <- [m \in Msgs |-> 0]

TasksMove ==
  \A m \in Msgs : phase'[m] = phase[m] \/ <<phase[m], phase'[m]>> \in Lifecycle!Edges

\* The edges of one task: a call, a dequeue, an answer or a timeout, an exit, a retry.
LEMMA EdgesOf ==
  ASSUME NEW m \in Msgs,
         \/ phase[m] \in {"unsent", "waiting"} /\ phase'[m] \in {"rejected", "waiting", "running"}
         \/ phase[m] = "running" /\ phase'[m] \in {"resolved", "rejected", "retrying"}
         \/ phase[m] = "retrying" /\ phase'[m] \in {"running", "rejected"}
  PROVE  phase'[m] = phase[m] \/ <<phase[m], phase'[m]>> \in Lifecycle!Edges
BY DEF Lifecycle!Edges

LEMMA MovesNext == SInv /\ [Next]_vars => TasksMove
<1> SUFFICES ASSUME SInv, [Next]_vars PROVE TasksMove
  OBVIOUS
<1> USE DEF SInv
<1>1. ASSUME NEW m \in Msgs, NEW c \in Conns \cup {None}, SendTask(m, c),
             phase[m] \in {"unsent", "waiting"}
      PROVE  TasksMove
  <2>1. /\ phase'[m] \in {"rejected", "waiting", "running"}
        /\ \A o \in Msgs : o # m => phase'[o] = phase[o]
    BY <1>1, SendTaskKeeps
  <2> QED BY <1>1, <2>1, EdgesOf DEF TasksMove
<1>2. ASSUME NEW m \in Msgs, Ask(m) \/ Dispatch(m) \/ Dequeue(m) PROVE TasksMove
  <2>1. phase[m] \in {"unsent", "waiting"}
    BY <1>2 DEF Ask, Dispatch, Dequeue, PhaseOfStage
  <2>2. \E c \in Conns \cup {None} : SendTask(m, c)
    BY <1>2 DEF Ask, Dispatch, Dequeue, TypeOK
  <2> QED BY <2>1, <2>2, <1>1
<1>3. ASSUME NEW m \in Msgs, NEW c \in Conns, Followup(c, m) PROVE TasksMove
  BY <1>3, <1>1 DEF Followup, PhaseOfStage
<1>4. ASSUME NEW m \in Msgs,
             TaskTimeout(m) \/ Answer(m, "resolved") \/ Answer(m, "rejected") \/ Retry(m)
      PROVE  TasksMove
  <2>1. /\ \A o \in Msgs : o # m => phase'[o] = phase[o]
        /\ \/ phase[m] = "running" /\ phase'[m] \in {"resolved", "rejected", "retrying"}
           \/ phase[m] = "retrying" /\ phase'[m] \in {"running", "rejected"}
    BY <1>4 DEF TaskTimeout, Answer, Retry, Running, TypeOK
  <2> QED BY <2>1, EdgesOf DEF TasksMove
<1>5. CASE WorkerExit
  <2>1. PICK again \in SUBSET Running :
          phase' = [m \in Msgs |-> IF m \in again THEN "retrying"
                                   ELSE IF m \in Running THEN "rejected" ELSE phase[m]]
    BY <1>5 DEF WorkerExit
  <2>2. \A m \in Msgs :
          phase'[m] = phase[m] \/ (phase[m] = "running" /\ phase'[m] \in {"rejected", "retrying"})
    BY <2>1 DEF Running
  <2> QED BY <2>2, EdgesOf DEF TasksMove
<1>6. UNCHANGED phase => TasksMove
  BY DEF TasksMove
<1>7. CASE UNCHANGED vars
  BY <1>6, <1>7 DEF vars, taskVars
<1>8. CASE \/ StaleCleaner
           \/ \E c \in Conns : \/ Connect(c) \/ BindChat(c) \/ Close(c) \/ Age(c)
                               \/ Cancel(c) \/ AbortTask(c) \/ ForceReset(c)
           \/ \E c \in Conns, m \in Msgs : Send(c, m) \/ Recover(c, m)
  BY <1>6, <1>8 DEF StaleCleaner, Connect, BindChat, Close, Age, Cancel, AbortTask, ForceReset,
     Send, Recover, taskVars
<1>9. CASE \E m \in Msgs : \/ Register(m) \/ Finish(m) \/ FollowupEnds(m) \/ GuardTimer(m)
                           \/ LateAnswer(m) \/ WorkerEvent(m)
  BY <1>6, <1>9 DEF Register, Finish, FollowupEnds, GuardTimer, LateAnswer, WorkerEvent, taskVars
<1> QED BY <1>2, <1>3, <1>4, <1>5, <1>7, <1>8, <1>9 DEF Next, Handler

\* What the session assumes of its manager is no more than TaskLifecycle promises: no
\* handler, control message or exit moves a task but along an edge of its life, so a
\* settled task stays settled, and none is asked for twice.
THEOREM TasksFollowLifecycle == Spec => [][TasksMove]_vars
BY SessionInvariant, MovesNext, PTL DEF Spec
=============================================================================
