----------------------- MODULE GatewayConnectorProofs -----------------------
(***************************************************************************)
(* The safety of GatewayConnector for every number of attempts, calls and  *)
(* port changes: one inductive invariant, GInv, gives its invariants, its  *)
(* action property and the refinement of GatewayLink.                      *)
(***************************************************************************)
EXTENDS GatewayConnector, TLAPS

\* Every 500 ms timer of _forceReconnect was armed by a port change of its own.
ForcedCounted == forced <= forces

\* _wasEverConnected is set while CONNECTED, so that the next connection is a reconnect.
ConnectedMeansEver == state = "CONNECTED" => ever

GInv ==
  /\ TypeOK /\ LockIsGuarded /\ ConnectedMeansOpen
  /\ ForcedCounted /\ ConnectedMeansEver

\* The flags that take no part in the control of the connector.
Flags == <<monitor, leaked, ever>>
FlagsOK == monitor \in BOOLEAN /\ leaked \in BOOLEAN /\ ever \in BOOLEAN

----------------------------------------------------------------------------
\* The two ways to arm the reconnect timer keep it single.
LEMMA ScheduleSingle ==
  ASSUME NEW n \in 0..1, Schedule(n) PROVE timers' = 1
BY DEF Schedule

LEMMA RejectedSingle ==
  ASSUME NEW origin, Rejected(origin, timers), timers \in 0..1
  PROVE  timers' \in 0..1 /\ (origin # "call" => timers' = 1)
BY ScheduleSingle DEF Rejected

\* _doConnect leaves the connector CONNECTING, with a fresh attempt or the running one.
LEMMA DoConnectKeeps ==
  ASSUME GInv, NEW origin \in Origins, NEW n \in 0..1, DoConnect(origin, n)
  PROVE  /\ state' = "CONNECTING" /\ sock' \in Sockets /\ cur' \in Attempts /\ timers' = n
         /\ timeouts' \in [Attempts -> Origins \cup {"none"}]
         /\ timeouts'[cur'] # "none" /\ sock' \in Unanswered \cup {"closing"}
<1>1. CASE state = "CONNECTING" /\ timers' = n /\ UNCHANGED conn
  BY <1>1 DEF GInv, TypeOK, LockIsGuarded, conn
<1>2. CASE state # "CONNECTING"
  <2>1. PICK a \in Attempts : cur' = a /\ timeouts' = [timeouts EXCEPT ![a] = origin]
    BY <1>2 DEF DoConnect
  <2>2. state' = "CONNECTING" /\ sock' = "opening" /\ timers' = n
    BY <1>2 DEF DoConnect
  <2>3. origin # "none"
    BY DEF Origins
  <2> QED BY <2>1, <2>2, <2>3 DEF GInv, TypeOK, Sockets, Opened, Unanswered
<1> QED BY <1>1, <1>2 DEF DoConnect

\* The flags stay Boolean, and _wasEverConnected stays set.
LEMMA FlagsKeep ==
  ASSUME GInv, [Next]_vars PROVE FlagsOK' /\ (ever => ever') /\ (ever' # ever => state' = "CONNECTED")
<1>0. monitor \in BOOLEAN /\ leaked \in BOOLEAN /\ ever \in BOOLEAN
  BY Zenon DEF GInv, TypeOK
<1>1. CASE OnConnected
  <2>1. monitor' = TRUE /\ leaked' = (leaked \/ monitor) /\ ever' = TRUE /\ state' = "CONNECTED"
    BY <1>1, Zenon DEF OnConnected
  <2> QED BY <1>0, <2>1, Zenon DEF FlagsOK
<1>2. CASE OnClose
  <2>1. monitor' = FALSE /\ leaked' = leaked /\ ever' = ever
    BY <1>2, Zenon DEF OnClose
  <2> QED BY <1>0, <2>1, Zenon DEF FlagsOK
<1>3. CASE UNCHANGED Flags
  <2>1. monitor' = monitor /\ leaked' = leaked /\ ever' = ever
    BY <1>3, Zenon DEF Flags
  <2> QED BY <1>0, <2>1, Zenon DEF FlagsOK
<1> QED
  BY <1>1, <1>2, <1>3, Zenon
     DEF Next, vars, ticks, Flags, Call, ReconnectTimer, ForceReconnect, ForceTimer, ConnectTimeout,
         OnRefused, TickExpired, GatewayCloses, GatewayChanges

\* The part of the invariant that the control of the connector is about.
Control ==
  /\ state \in {"DISCONNECTED", "CONNECTING", "CONNECTED"}
  /\ sock \in Sockets /\ cur \in Attempts
  /\ timeouts \in [Attempts -> Origins \cup {"none"}]
  /\ timers \in 0..1 /\ forced \in 0..MaxForces
  /\ mode \in GatewayModes
  /\ flaps \in 0..MaxFlaps /\ calls \in 0..MaxCalls
  /\ forces \in 0..MaxForces /\ expiries \in 0..MaxExpiries
  /\ LockIsGuarded /\ ConnectedMeansOpen /\ ForcedCounted

\* A new connector satisfies the invariant.
LEMMA GatewayInit == Init => GInv
<1> SUFFICES ASSUME Init PROVE GInv
  OBVIOUS
<1>1. FlagsOK
  BY Zenon DEF Init, FlagsOK
<1>2. Control /\ state # "CONNECTED"
  BY ConnectorAssumption
     DEF Init, Control, Sockets, Attempts, LockIsGuarded, ConnectedMeansOpen, ForcedCounted
<1> QED BY <1>1, <1>2 DEF GInv, TypeOK, Control, FlagsOK, ConnectedMeansEver

\* Every step keeps the control part, one case per action.
LEMMA ControlKeeps == ASSUME GInv, [Next]_vars PROVE Control'
<1> USE ConnectorAssumption
<1>0. Control
  BY DEF GInv, TypeOK, Control
<1>1. CASE Call
  <2>1. DoConnect("call", timers) /\ calls' \in 0..MaxCalls
    BY <1>0, <1>1 DEF Call, Control
  <2> QED BY <1>0, <1>1, <2>1, DoConnectKeeps
          DEF Call, Control, Origins, LockIsGuarded, ConnectedMeansOpen, ForcedCounted
<1>2. CASE ReconnectTimer
  <2>1. DoConnect("timer", timers - 1) /\ timers - 1 \in 0..1
    BY <1>0, <1>2 DEF ReconnectTimer, Control
  <2> QED BY <1>0, <1>2, <2>1, DoConnectKeeps
          DEF ReconnectTimer, bounds, Control, Origins, LockIsGuarded, ConnectedMeansOpen, ForcedCounted
<1>3. CASE ForceReconnect
  BY <1>0, <1>3 DEF ForceReconnect, Closing, Control, Sockets, Opened, Unanswered, LockIsGuarded,
                    ConnectedMeansOpen, ForcedCounted
<1>4. CASE ForceTimer
  <2>1. DoConnect("force", timers) /\ forced' \in 0..MaxForces /\ forced' <= forces
    BY <1>0, <1>4 DEF ForceTimer, Control, ForcedCounted
  <2> QED BY <1>0, <1>4, <2>1, DoConnectKeeps
          DEF ForceTimer, bounds, Control, Origins, LockIsGuarded, ConnectedMeansOpen, ForcedCounted
<1>5. ASSUME NEW a \in Attempts, ConnectTimeout(a) PROVE Control'
  <2>1. timers' \in 0..1
    BY <1>0, <1>5, RejectedSingle DEF ConnectTimeout, Control
  <2> QED BY <1>0, <1>5, <2>1
          DEF ConnectTimeout, bounds, Control, LockIsGuarded, ConnectedMeansOpen, ForcedCounted
<1>6. CASE OnConnected
  BY <1>0, <1>6 DEF OnConnected, ClearTimeout, bounds, Control, Sockets, Opened, LockIsGuarded,
                    ConnectedMeansOpen, ForcedCounted
<1>7. CASE OnRefused
  <2>1. timers' \in 0..1
    BY <1>0, <1>7, RejectedSingle DEF OnRefused, Control
  <2> QED BY <1>0, <1>7, <2>1
          DEF OnRefused, ClearTimeout, bounds, Control, Sockets, Opened, LockIsGuarded,
              ConnectedMeansOpen, ForcedCounted
<1>8. CASE OnClose
  BY <1>0, <1>8, ScheduleSingle
     DEF OnClose, bounds, Control, Sockets, LockIsGuarded, ConnectedMeansOpen, ForcedCounted
<1>9. CASE TickExpired
  BY <1>0, <1>9 DEF TickExpired, Closing, Control, Sockets, Opened, Unanswered, LockIsGuarded,
                    ConnectedMeansOpen, ForcedCounted
<1>10. CASE GatewayCloses
  BY <1>0, <1>10 DEF GatewayCloses, bounds, Control, Sockets, LockIsGuarded, ConnectedMeansOpen,
                     ForcedCounted
<1>11. CASE GatewayChanges
  BY <1>0, <1>11 DEF GatewayChanges, conn, Control, LockIsGuarded, ConnectedMeansOpen, ForcedCounted
<1>12. CASE UNCHANGED vars
  BY <1>0, <1>12 DEF vars, conn, bounds, Control, LockIsGuarded, ConnectedMeansOpen, ForcedCounted
<1> QED
  BY <1>1, <1>2, <1>3, <1>4, <1>5, <1>6, <1>7, <1>8, <1>9, <1>10, <1>11, <1>12 DEF Next

\* The step into CONNECTED is OnConnected, which sets _wasEverConnected.
LEMMA ConnectedOnce ==
  ASSUME GInv, [Next]_vars, state' = "CONNECTED" PROVE state = "CONNECTED" \/ OnConnected
<1>1. ASSUME NEW origin \in Origins, NEW n \in 0..1, DoConnect(origin, n) PROVE FALSE
  BY <1>1, DoConnectKeeps
<1>2. timers \in 0..1
  BY DEF GInv, TypeOK
<1>3. ~Call /\ ~ForceTimer
  BY <1>1, <1>2 DEF Call, ForceTimer, Origins
<1>4. ~ReconnectTimer
  BY <1>1, <1>2 DEF ReconnectTimer, Origins
<1> QED
  BY <1>3, <1>4 DEF Next, vars, conn, ForceReconnect, ConnectTimeout, OnRefused, OnClose, TickExpired,
                    GatewayCloses, GatewayChanges

\* The invariant is inductive.
LEMMA GatewayNext == GInv /\ [Next]_vars => GInv'
<1> SUFFICES ASSUME GInv, [Next]_vars PROVE GInv'
  OBVIOUS
<1>1. Control'
  BY ControlKeeps
<1>2. FlagsOK' /\ (ever => ever')
  BY FlagsKeep
<1>3. ConnectedMeansEver'
  <2>1. CASE state = "CONNECTED" /\ state' = "CONNECTED"
    <3>1. ever
      BY <2>1, Zenon DEF GInv, ConnectedMeansEver
    <3> QED BY <1>2, <3>1, Zenon DEF ConnectedMeansEver
  <2>2. CASE OnConnected
    <3>1. ever'
      BY <2>2, Zenon DEF OnConnected
    <3> QED BY <3>1, Zenon DEF ConnectedMeansEver
  <2>3. CASE state' # "CONNECTED"
    BY <2>3, Zenon DEF ConnectedMeansEver
  <2> QED BY <2>1, <2>2, <2>3, ConnectedOnce, Zenon
<1> QED BY <1>1, <1>2, <1>3, Zenon DEF GInv, TypeOK, Control, FlagsOK

\* The invariant holds in every reachable state.
THEOREM GatewayInvariant == Spec => []GInv
BY GatewayInit, GatewayNext, PTL DEF Spec

\* The fields of the connector keep their types; there is one reconnect timer at most.
THEOREM GatewayTypes == Spec => []TypeOK
<1>1. GInv => TypeOK
  BY Zenon DEF GInv
<1> QED BY <1>1, GatewayInvariant, PTL

\* The single-flight lock is held only while its attempt has an armed timeout.
THEOREM LockAlwaysGuarded == Spec => []LockIsGuarded
<1>1. GInv => LockIsGuarded
  BY Zenon DEF GInv
<1> QED BY <1>1, GatewayInvariant, PTL

\* CONNECTED means a socket whose handshake is over and whose close is still to come.
THEOREM ConnectedHasSocket == Spec => []ConnectedMeansOpen
<1>1. GInv => ConnectedMeansOpen
  BY Zenon DEF GInv
<1> QED BY <1>1, GatewayInvariant, PTL

\* Only the end of a connect() that nobody retries stops the reconnect loop.
THEOREM LoopKeepsItsTurn == Spec => OnlyCallsGiveUp
<1> DEFINE CallFails == \E a \in Attempts : timeouts[a] = "call" /\ timeouts'[a] = "none"
<1>1. ASSUME GInv, [Next]_vars, Driven, ~Driven' PROVE CallFails
  <2> USE <1>1
  <2>0. /\ timers \in 0..1 /\ forced \in Nat /\ cur \in Attempts
        /\ timeouts \in [Attempts -> Origins \cup {"none"}]
    BY ConnectorAssumption DEF GInv, TypeOK
  <2>1. /\ state' = "DISCONNECTED" /\ sock' \notin {"leaving", "closing"}
        /\ ~(timers' > 0) /\ ~(forced' > 0)
        /\ \A a \in Attempts : timeouts'[a] \notin {"timer", "force"}
    BY Zenon DEF Driven
  <2>2. ASSUME NEW origin \in Origins, NEW n \in 0..1, DoConnect(origin, n) PROVE FALSE
    BY <2>1, <2>2, DoConnectKeeps
  <2>3. ~Call /\ ~ReconnectTimer /\ ~ForceTimer
    BY <2>0, <2>2 DEF Call, ReconnectTimer, ForceTimer, Origins
  <2>4. ~ForceReconnect /\ ~OnClose /\ ~GatewayCloses /\ ~OnConnected
    BY <2>0, <2>1, ScheduleSingle DEF ForceReconnect, OnClose, GatewayCloses, OnConnected
  <2>5. ~TickExpired
    BY <2>1 DEF TickExpired, Closing, Opened
  <2>6. ~GatewayChanges /\ ~UNCHANGED vars
    <3>1. ASSUME UNCHANGED <<state, sock, timeouts, timers, forced>> PROVE FALSE
      BY <2>1, <3>1, Zenon DEF Driven
    <3> QED BY <3>1 DEF GatewayChanges, vars, conn
  <2>7. ASSUME NEW a \in Attempts, ConnectTimeout(a) PROVE CallFails
    <3>1. timeouts[a] = "call"
      BY <2>0, <2>1, <2>7, RejectedSingle DEF ConnectTimeout
    <3>2. timeouts'[a] = "none"
      BY <2>0, <2>7 DEF ConnectTimeout
    <3> QED BY <3>1, <3>2
  <2>8. CASE OnRefused
    <3>1. sock = "opening" /\ timeouts' = [timeouts EXCEPT ![cur] = "none"]
      BY <2>1, <2>8 DEF OnRefused, ClearTimeout, Unanswered
    <3>2. CASE timeouts[cur] = "none"
      <4>1. timeouts' = timeouts /\ timers' = timers /\ forced' = forced
        BY <2>0, <2>8, <3>1, <3>2 DEF OnRefused
      <4>2. state = "DISCONNECTED"
        BY <3>1, <3>2 DEF GInv, TypeOK, LockIsGuarded, ConnectedMeansOpen
      <4>3. ~Driven
        BY <2>1, <3>1, <4>1, <4>2 DEF Driven
      <4> QED BY <4>3
    <3>3. CASE timeouts[cur] # "none"
      <4>1. timeouts[cur] = "call"
        BY <2>0, <2>1, <2>8, <3>3, RejectedSingle DEF OnRefused
      <4> QED BY <2>0, <3>1, <4>1
    <3> QED BY <3>2, <3>3
  <2> QED BY <2>3, <2>4, <2>5, <2>6, <2>7, <2>8 DEF Next
<1>2. GInv /\ [Next]_vars => [Driven /\ ~Driven' => CallFails]_vars
  BY <1>1
<1> QED BY <1>2, GatewayInvariant, PTL DEF Spec, OnlyCallsGiveUp

----------------------------------------------------------------------------
\* What GatewayLink sees of the connector.
Seen == IF state = "CONNECTED" THEN "up" ELSE IF ever THEN "down" ELSE "new"

\* A step that the users of the connector see is a step of the link.
LEMMA LinkStep == ASSUME GInv, [Next]_vars PROVE [Link!Next]_Seen
<1>1. (state = "CONNECTED" => ever) /\ (ever => ever') /\ (ever' # ever => state' = "CONNECTED")
  BY FlagsKeep, Zenon DEF GInv, ConnectedMeansEver
<1>2. ever \in BOOLEAN /\ ever' \in BOOLEAN
  BY FlagsKeep, Zenon DEF GInv, TypeOK, FlagsOK
<1>3. CASE state = "CONNECTED" /\ state' = "CONNECTED"
  BY <1>3, Zenon DEF Seen
<1>4. CASE state = "CONNECTED" /\ state' # "CONNECTED"
  <2>1. ever'
    BY <1>1, <1>4, Zenon
  <2>2. Seen = "up" /\ Seen' = "down"
    BY <1>4, <2>1, Zenon DEF Seen
  <2> QED BY <2>2, Zenon DEF Seen, Link!Next, Link!Disconnect
<1>5. CASE state # "CONNECTED" /\ state' = "CONNECTED"
  <2>1. Seen' = "up"
    BY <1>5, Zenon DEF Seen
  <2>2. Seen = "down" \/ Seen = "new"
    BY <1>5, Zenon DEF Seen
  <2> QED BY <2>1, <2>2, Zenon DEF Seen, Link!Next, Link!Connect, Link!Reconnect
<1>6. CASE state # "CONNECTED" /\ state' # "CONNECTED"
  <2>1. ever' = ever
    BY <1>1, <1>6, Zenon
  <2> QED BY <1>6, <2>1, Zenon DEF Seen
<1> QED BY <1>3, <1>4, <1>5, <1>6, Zenon

\* Its users see a link that comes up, goes down and comes up again, and of which they
\* are told at every connection but the first.
THEOREM ConnectorImplementsLink == Spec => ImplementsLink
<1>1. Init => Link!Init
  <2> SUFFICES ASSUME Init PROVE Link!Init
    OBVIOUS
  <2>1. state = "DISCONNECTED" /\ ever = FALSE
    BY Zenon DEF Init
  <2>2. state # "CONNECTED"
    BY <2>1
  <2> QED BY <2>1, <2>2, Zenon DEF Link!Init
<1>2. GInv /\ [Next]_vars => [Link!Next]_Seen
  BY LinkStep
<1> QED BY <1>1, <1>2, GatewayInvariant, PTL DEF Spec, ImplementsLink, Link!Spec, Seen

=============================================================================
