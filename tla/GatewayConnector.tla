-------------------------- MODULE GatewayConnector --------------------------
(***************************************************************************)
(* The connection of the worker process to the model gateway               *)
(* (agent/gateway-connector.mjs, class GatewayConnector): attempts to      *)
(* connect, the timeout of each, the reconnect timer, the forced reconnect *)
(* after a port change, the tick monitor, and the callers of connect() in  *)
(* agent/worker/index.mjs.                                                 *)
(*                                                                         *)
(* _doConnect removes the listeners of the socket it replaces, so that     *)
(* only this.ws has an effect; what outlives a socket is the timeout of    *)
(* its attempt.  An attempt's promise is open exactly while its timeout is *)
(* armed, and what its rejection does depends on who started it, its       *)
(* origin: "call" (connect()), "timer" or "force".  Operators named X_Y    *)
(* are X with a plausible bug Y; nothing uses them here.                   *)
(***************************************************************************)
EXTENDS Naturals

CONSTANTS
  MaxTimeouts,   \* bound of the model: connect timeouts armed at a time
  GatewayModes,  \* how the gateway may behave: "up", "slow", "down"
  MaxFlaps,      \* bound of the model: changes of that
  MaxCalls,      \* bound of the model: calls of connect() that find the connector DISCONNECTED
  MaxForces,     \* bound of the model: port changes
  MaxExpiries    \* bound of the model: 120 s without a message

ASSUME ConnectorAssumption ==
  /\ MaxTimeouts \in Nat \ {0}
  /\ GatewayModes \subseteq {"up", "slow", "down"} /\ "down" \in GatewayModes
  /\ MaxFlaps \in Nat /\ MaxCalls \in Nat /\ MaxForces \in Nat /\ MaxExpiries \in Nat

VARIABLES
  state,      \* "DISCONNECTED", "CONNECTING", "CONNECTED"
  sock,       \* this.ws: "none", "opening" (no connect response yet), "ready", "refused",
              \* "leaving" (closed by us before the response), "closing" (closed, or
              \* closing after it), "closed" (its close event has been handled)
  cur,        \* the attempt that made this.ws
  timeouts,   \* per attempt with an armed connectTimeout, its origin; "none" if not armed
  timers,     \* reconnect timers armed
  forced,     \* 500 ms timers of _forceReconnect armed
  monitor,    \* is this.tickTimer set?
  leaked,     \* is there an interval that this.tickTimer has forgotten?
  ever,       \* _wasEverConnected
  \* ---- the gateway and the bounds
  mode,       \* "up": answers promptly; "slow": may take its time; "down": refuses, and its sockets close
  flaps, calls, forces, expiries

conn   == <<state, sock, cur, timeouts>>
ticks  == <<monitor, leaked>>
bounds == <<flaps, calls, forces, expiries>>
vars   == <<conn, timers, forced, ticks, ever, mode, bounds>>

Attempts == 1..MaxTimeouts
Origins == {"call", "timer", "force"}
Opened == {"opening", "ready", "refused"}
Sockets == Opened \cup {"none", "leaving", "closing", "closed"}
Unanswered == {"opening", "leaving"}

\* "Single-flight: only one reconnect timer at a time" is part of the type.
TypeOK ==
  /\ state \in {"DISCONNECTED", "CONNECTING", "CONNECTED"}
  /\ sock \in Sockets
  /\ cur \in Attempts
  /\ timeouts \in [Attempts -> Origins \cup {"none"}]
  /\ timers \in 0..1 /\ forced \in 0..MaxForces
  /\ monitor \in BOOLEAN /\ leaked \in BOOLEAN /\ ever \in BOOLEAN
  /\ mode \in GatewayModes
  /\ flaps \in 0..MaxFlaps /\ calls \in 0..MaxCalls
  /\ forces \in 0..MaxForces /\ expiries \in 0..MaxExpiries

\* The constructor.
Init ==
  /\ state = "DISCONNECTED" /\ sock = "none" /\ cur = 1
  /\ timeouts = [a \in Attempts |-> "none"]
  /\ timers = 0 /\ forced = 0
  /\ monitor = FALSE /\ leaked = FALSE /\ ever = FALSE
  /\ mode \in GatewayModes
  /\ flaps = 0 /\ calls = 0 /\ forces = 0 /\ expiries = 0

\* this.ws after ws.close(): its messages are still read until the close event.
Closing == CASE sock = "opening" -> "leaving"
             [] sock \in {"ready", "refused"} -> "closing"
             [] OTHER -> sock

----------------------------------------------------------------------------
(* _scheduleReconnect and _doConnect                                        *)

Schedule_NoGuard(n) == timers' = n + 1
Schedule(n) == timers' = IF n = 0 THEN 1 ELSE n

\* The rejection of an attempt: the reconnect timer and the forced reconnect
\* schedule the next one, the callers of connect() give up.
Rejected_Forgets(origin, n) == timers' = n
Rejected(origin, n) == IF origin = "call" THEN timers' = n ELSE Schedule(n)

\* _doConnect, with n reconnect timers armed: nothing while CONNECTING; else the old
\* socket loses its listeners and a new one is made, with a timeout of its own.
DoConnect(origin, n) ==
  \/ /\ state = "CONNECTING"
     /\ timers' = n
     /\ UNCHANGED conn
  \/ /\ state # "CONNECTING"
     /\ timers' = n
     /\ \E a \in Attempts :
          /\ timeouts[a] = "none" /\ \A b \in 1..(a - 1) : timeouts[b] # "none"
          /\ cur' = a
          /\ timeouts' = [timeouts EXCEPT ![a] = origin]
     /\ state' = "CONNECTING" /\ sock' = "opening"

\* connect() by init() of the worker, once, and by a gateway_api_request.
Call ==
  /\ state = "DISCONNECTED" /\ calls < MaxCalls
  /\ calls' = calls + 1
  /\ DoConnect("call", timers)
  /\ UNCHANGED <<forced, ticks, ever, mode, flaps, forces, expiries>>

ReconnectTimer ==
  /\ timers > 0
  /\ DoConnect("timer", timers - 1)
  /\ UNCHANGED <<forced, ticks, ever, mode, bounds>>

\* A port change: the reconnect timer is cleared and the socket closed.
ForceReconnect ==
  /\ forces < MaxForces
  /\ forces' = forces + 1 /\ forced' = forced + 1
  /\ timers' = 0
  /\ sock' = Closing
  /\ UNCHANGED <<state, cur, timeouts, ticks, ever, mode, flaps, calls, expiries>>

ForceTimer ==
  /\ forced > 0 /\ forced' = forced - 1
  /\ DoConnect("force", timers)
  /\ UNCHANGED <<ticks, ever, mode, bounds>>

\* connectTimeout of any attempt, the current one or an old one.  A gateway that is
\* up answers the current one in time.
ConnectTimeout(a) ==
  /\ timeouts[a] # "none"
  /\ ~(a = cur /\ sock = "opening" /\ mode = "up")
  /\ timeouts' = [timeouts EXCEPT ![a] = "none"]
  /\ state' = "DISCONNECTED"
  /\ Rejected(timeouts[a], timers)
  /\ UNCHANGED <<sock, cur, forced, ticks, ever, mode, bounds>>

----------------------------------------------------------------------------
(* The handlers of this.ws                                                  *)

ClearTimeout_Forgets(a) == UNCHANGED timeouts
ClearTimeout(a) == timeouts' = [timeouts EXCEPT ![a] = "none"]

\* The connect response: ok, in whatever state the connector is by then.
OnConnected_NotEver ==
  /\ sock \in Unanswered /\ mode # "down"
  /\ ClearTimeout(cur)
  /\ state' = "CONNECTED" /\ sock' = IF sock = "opening" THEN "ready" ELSE "closing"
  /\ monitor' = TRUE /\ leaked' = (leaked \/ monitor)
  /\ UNCHANGED <<cur, timers, forced, ever, mode, bounds>>
OnConnected ==
  /\ sock \in Unanswered /\ mode # "down"
  /\ ClearTimeout(cur)
  /\ state' = "CONNECTED" /\ sock' = IF sock = "opening" THEN "ready" ELSE "closing"
  /\ monitor' = TRUE /\ leaked' = (leaked \/ monitor)
  /\ ever' = TRUE
  /\ UNCHANGED <<cur, timers, forced, mode, bounds>>

\* The connect response: not ok.  The socket stays open.
OnRefused_KeepsLock ==
  /\ sock \in Unanswered /\ mode = "slow"
  /\ ClearTimeout(cur)
  /\ sock' = IF sock = "opening" THEN "refused" ELSE "closing"
  /\ Rejected(timeouts[cur], timers)
  /\ UNCHANGED <<state, cur, forced, ticks, ever, mode, bounds>>
OnRefused ==
  /\ sock \in Unanswered /\ mode = "slow"
  /\ ClearTimeout(cur)
  /\ state' = "DISCONNECTED" /\ sock' = IF sock = "opening" THEN "refused" ELSE "closing"
  /\ IF timeouts[cur] = "none" THEN UNCHANGED timers ELSE Rejected(timeouts[cur], timers)
  /\ UNCHANGED <<cur, forced, ticks, ever, mode, bounds>>

OnClose ==
  /\ sock \in {"leaving", "closing"} /\ sock' = "closed"
  /\ state' = "DISCONNECTED"
  /\ monitor' = FALSE
  /\ Schedule(timers)
  /\ UNCHANGED <<cur, timeouts, forced, leaked, ever, mode, bounds>>

\* No message for 120 s: an interval, leaked ones too, closes this.ws.
TickExpired ==
  /\ monitor \/ leaked
  /\ expiries < MaxExpiries /\ expiries' = expiries + 1
  /\ sock \in Opened /\ sock' = Closing
  /\ UNCHANGED <<state, cur, timeouts, timers, forced, ticks, ever, mode, flaps, calls, forces>>

----------------------------------------------------------------------------
(* The gateway                                                              *)

GatewayCloses ==
  /\ mode = "down"
  /\ sock \in Opened \cup {"leaving"} /\ sock' = "closing"
  /\ UNCHANGED <<state, cur, timeouts, timers, forced, ticks, ever, mode, bounds>>

GatewayChanges ==
  /\ flaps < MaxFlaps /\ flaps' = flaps + 1
  /\ mode' \in GatewayModes \ {mode}
  /\ UNCHANGED <<conn, timers, forced, ticks, ever, calls, forces, expiries>>

Next ==
  \/ Call \/ ReconnectTimer \/ ForceReconnect \/ ForceTimer
  \/ \E a \in Attempts : ConnectTimeout(a)
  \/ OnConnected \/ OnRefused \/ OnClose \/ TickExpired
  \/ GatewayCloses \/ GatewayChanges

Spec == Init /\ [][Next]_vars

\* init() calls connect(); timers fire; close events are delivered; the sockets of a
\* gateway that is down close, and one that is up answers.
Fairness ==
  /\ WF_vars(calls = 0 /\ Call)
  /\ WF_vars(ReconnectTimer) /\ WF_vars(ForceTimer)
  /\ \A a \in Attempts : WF_vars(ConnectTimeout(a))
  /\ WF_vars(mode = "up" /\ OnConnected)
  /\ WF_vars(OnClose) /\ WF_vars(GatewayCloses)

FairSpec == Spec /\ Fairness

----------------------------------------------------------------------------
(* What the connector guarantees                                            *)

\* The single-flight lock of _doConnect is never left behind: while the state is
\* CONNECTING, which turns every other attempt away, the timeout of the attempt that
\* holds the lock is armed, though old timeouts, forced reconnects, refusals and
\* close events change the state under it.
LockIsGuarded == state = "CONNECTING" => timeouts[cur] # "none" /\ sock \in Unanswered \cup {"closing"}

\* request() writes to this.ws when the connector is CONNECTED: there is a socket then,
\* whose handshake is over and whose close event is still to come.
ConnectedMeansOpen == state = "CONNECTED" => sock \in {"ready", "closing"}

\* Something of the connector's own will bring about the next attempt.
Driven ==
  \/ state # "DISCONNECTED" \/ sock \in {"leaving", "closing"}
  \/ timers > 0 \/ forced > 0
  \/ \E a \in Attempts : timeouts[a] \in {"timer", "force"}

\* The reconnect loop never loses its turn, to a forced reconnect, a lock held by
\* someone else or a late event: only a failed connect() leaves the connector without
\* a next attempt, since its callers do not retry.
OnlyCallsGiveUp ==
  [][Driven /\ ~Driven' => \E a \in Attempts : timeouts[a] = "call" /\ timeouts'[a] = "none"]_vars

\* Timeouts of old attempts and leftover timers tear down good connections, but each
\* only once: with the gateway up for good, the connector is connected for good in the
\* end, or a failed connect() has left it for disconnected.
Stabilises == <>[](mode = "up") => <>[](state = "CONNECTED") \/ <>[]~Driven

\* Its users see the transitions of GatewayLink, which CircuitBreaker is built on.
Link == INSTANCE GatewayLink
  WITH gateway <- IF state = "CONNECTED" THEN "up" ELSE IF ever THEN "down" ELSE "new"

ImplementsLink == Link!Spec

=============================================================================
