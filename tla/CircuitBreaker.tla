--------------------------- MODULE CircuitBreaker ---------------------------
(***************************************************************************)
(* The gateway breaker of the worker process (agent/worker/               *)
(* circuit-breaker.mjs, class CircuitBreaker) with the tasks that use it:  *)
(* each asks once, through checkCircuitBreaker of agent/worker/            *)
(* context-injector.mjs, before its gateway calls, and reports once, when  *)
(* handleUserMessage of agent/worker/user-message-handler.mjs is through   *)
(* with them.  Several tasks are between the two at a time, so an answer   *)
(* may reach a breaker that has changed state since it let the task pass.  *)
(*                                                                         *)
(* Time is counted in units; Date.now() is `now`, and 0 is the initial     *)
(* value of the fields that hold a time.  Operators named X_Y are X with a *)
(* plausible bug Y; nothing uses them here.                                *)
(***************************************************************************)
EXTENDS Integers

CONSTANTS
  Tasks,           \* slots for concurrent tasks of the worker
  HardThreshold,   \* hardFailureThreshold
  SoftThreshold,   \* softFailureThreshold
  HalfOpenMax,     \* halfOpenMaxAttempts
  ResetTimeout,    \* resetTimeoutMs
  DecayInterval,   \* decayIntervalMs
  MaxOpen,         \* MAX_OPEN_MS
  StaleAge,        \* "timeSinceLastFailure > 60000" of checkCircuitBreaker
  Steps,           \* bound of the model: how far the clock may move at once
  MaxNow,          \* bound of the model: the last instant
  MaxAsks          \* bound of the model: calls of checkCircuitBreaker

\* The cooldown of a soft probe failure, the longest one, is over before the two
\* overrides may apply: 60 s against 60 s and 5 min for the gateway breaker.
ASSUME BreakerAssumption ==
  /\ HardThreshold \in Nat \ {0} /\ SoftThreshold \in Nat \ {0} /\ HalfOpenMax \in Nat \ {0}
  /\ ResetTimeout \in Nat \ {0} /\ DecayInterval \in Nat \ {0}
  /\ MaxOpen \in Nat /\ StaleAge \in Nat
  /\ 2 * ResetTimeout <= MaxOpen /\ 2 * ResetTimeout <= StaleAge
  /\ Steps \subseteq Nat \ {0} /\ MaxNow \in Nat /\ MaxAsks \in Nat

VARIABLES
  state,        \* "CLOSED", "OPEN", "HALF_OPEN"
  hard, soft,   \* hardFailureCount, softFailureCount
  lastFailure,  \* lastFailureTime
  lastDecay,    \* lastDecayTime
  attempts,     \* halfOpenAttempts
  nextAttempt,  \* nextAttemptAt
  trips,        \* totalTrips
  reason,       \* lastTripReason
  \* ---- the worker around it
  now,          \* Date.now()
  gateway,      \* the GatewayConnector: "new" (never connected yet), "up", "down"
  busy,         \* the tasks between checkCircuitBreaker and their report
  asks,         \* calls of checkCircuitBreaker so far
  \* ---- history the properties read
  hardSince, softSince,  \* failures recorded since the counts were last cleared
  probes        \* requests the breaker let pass since it was last not HALF_OPEN

counts == <<hard, soft, lastDecay>>
trip   == <<nextAttempt, trips, reason>>
since  == <<hardSince, softSince>>
vars   == <<state, counts, lastFailure, attempts, trip, now, gateway, busy, asks, since, probes>>

TypeOK ==
  /\ state \in {"CLOSED", "OPEN", "HALF_OPEN"}
  /\ hard \in Nat /\ soft \in Nat /\ hardSince \in Nat /\ softSince \in Nat
  /\ now \in Nat \ {0} /\ lastFailure \in 0..now /\ lastDecay \in 0..now
  /\ attempts \in 0..HalfOpenMax
  /\ nextAttempt \in Nat /\ trips \in Nat /\ probes \in Nat
  /\ reason \in {"null", "hard", "soft"}
  /\ gateway \in {"new", "up", "down"}
  /\ busy \subseteq Tasks
  /\ asks \in 0..MaxAsks

\* The connector, as GatewayConnector is shown to implement it.
Link == INSTANCE GatewayLink

\* gateway.isConnected
Connected == gateway = "up"

\* The breaker of a new worker; the gateway connects later.
Init ==
  /\ state = "CLOSED" /\ hard = 0 /\ soft = 0 /\ lastFailure = 0 /\ lastDecay = 1
  /\ attempts = 0 /\ nextAttempt = 0 /\ trips = 0 /\ reason = "null"
  /\ now = 1 /\ gateway = "new" /\ busy = {} /\ asks = 0
  /\ hardSince = 0 /\ softSince = 0 /\ probes = 0

----------------------------------------------------------------------------
(* _applyDecay                                                              *)

Periods == (now - lastDecay) \div DecayInterval

\* n >> k: JavaScript uses the low five bits of k only.
Shr(n, k) == n \div 2^(k % 32)

Decays == Periods > 0 /\ state # "HALF_OPEN"
DecayedHard == IF Decays THEN Shr(hard, Periods) ELSE hard
DecayedSoft == IF Decays THEN Shr(soft, Periods) ELSE soft

\* OPEN for longer than MaxOpen without a failure.
ForcesProbe == Periods > 0 /\ state = "OPEN" /\ lastFailure # 0 /\ now - lastFailure > MaxOpen

Decay ==
  /\ hard' = DecayedHard /\ soft' = DecayedSoft
  /\ lastDecay' = IF Decays THEN now ELSE lastDecay

----------------------------------------------------------------------------
(* canRequest, after the decay                                              *)

CooledDown_IgnoresDeadline == now - lastFailure >= ResetTimeout
CooledDown == now >= nextAttempt /\ now - lastFailure >= ResetTimeout

\* HALF_OPEN, and attempts are left; in a state just forced none are used.
CountAttempt_Forgets(used) == used < HalfOpenMax /\ attempts' = used
CountAttempt_OffByOne(used) == used <= HalfOpenMax /\ attempts' = used + 1
CountAttempt(used) == used < HalfOpenMax /\ attempts' = used + 1

\* The result is true.
Grants ==
  \/ /\ state = "CLOSED"
     /\ UNCHANGED <<state, attempts, probes>>
  \/ /\ state = "OPEN" /\ ~ForcesProbe /\ CooledDown
     /\ state' = "HALF_OPEN" /\ attempts' = 0 /\ probes' = 1
  \/ /\ ForcesProbe
     /\ state' = "HALF_OPEN" /\ CountAttempt(0) /\ probes' = 1
  \/ /\ state = "HALF_OPEN"
     /\ CountAttempt(attempts) /\ probes' = probes + 1 /\ UNCHANGED state

\* The result is false.
Denies ==
  \/ state = "OPEN" /\ ~ForcesProbe /\ ~CooledDown
  \/ state = "HALF_OPEN" /\ attempts >= HalfOpenMax

----------------------------------------------------------------------------
(* recordSuccess, recordFailure, recordSoftFailure, reset                   *)

ClearCounts ==
  /\ state' = "CLOSED" /\ hard' = 0 /\ soft' = 0 /\ attempts' = 0 /\ nextAttempt' = 0
  /\ lastDecay' = now
  /\ hardSince' = 0 /\ softSince' = 0 /\ probes' = 0

RecordSuccess == ClearCounts /\ UNCHANGED <<lastFailure, trips, reason>>

Reset == ClearCounts /\ reason' = "null" /\ UNCHANGED <<lastFailure, trips>>

Trip(tier, cooldown) ==
  /\ state' = "OPEN" /\ trips' = trips + 1 /\ reason' = tier
  /\ nextAttempt' = now + cooldown
  /\ probes' = 0

\* A failed probe always trips, any other failure at the threshold of its tier.
RecordFailure_AnyTier ==
  /\ hard' = hard + 1 /\ hardSince' = hardSince + 1
  /\ lastFailure' = now /\ lastDecay' = now
  /\ IF state = "HALF_OPEN" \/ hard' + soft >= HardThreshold
     THEN Trip("hard", ResetTimeout)
     ELSE UNCHANGED <<state, trip, probes>>
  /\ UNCHANGED <<soft, softSince, attempts>>
RecordFailure ==
  /\ hard' = hard + 1 /\ hardSince' = hardSince + 1
  /\ lastFailure' = now /\ lastDecay' = now
  /\ IF state = "HALF_OPEN" \/ hard' >= HardThreshold
     THEN Trip("hard", ResetTimeout)
     ELSE UNCHANGED <<state, trip, probes>>
  /\ UNCHANGED <<soft, softSince, attempts>>

SoftCooldown_Grows == ResetTimeout * 2 * (trips + 1)
SoftCooldown == ResetTimeout * 2

RecordSoftFailure ==
  /\ soft' = soft + 1 /\ softSince' = softSince + 1
  /\ lastFailure' = now /\ lastDecay' = now
  /\ \/ state = "HALF_OPEN" /\ Trip("soft", SoftCooldown)
     \/ state # "HALF_OPEN" /\ soft' >= SoftThreshold /\ Trip("soft", ResetTimeout)
     \/ state # "HALF_OPEN" /\ soft' < SoftThreshold /\ UNCHANGED <<state, trip, probes>>
  /\ UNCHANGED <<hard, hardSince, attempts>>

----------------------------------------------------------------------------
(* checkCircuitBreaker, for a task that is not busy                         *)

Ask(t) ==
  /\ t \notin busy /\ asks < MaxAsks
  /\ asks' = asks + 1
  /\ UNCHANGED <<now, gateway>>

\* canRequest lets the task pass.
Pass(t) ==
  /\ Ask(t) /\ Grants /\ Decay
  /\ busy' = busy \cup {t}
  /\ UNCHANGED <<lastFailure, trip, since>>

\* It does not, but the gateway is connected: the breaker is reset and the task passes.
PassReset(t) ==
  /\ Ask(t) /\ Denies /\ Connected
  /\ Reset
  /\ busy' = busy \cup {t}

\* Nor is the gateway connected, but the last failure is old: the task passes, and
\* the breaker does not know of it.
IsStale == lastFailure # 0 /\ now - lastFailure > StaleAge

PassStale(t) ==
  /\ Ask(t) /\ Denies /\ ~Connected /\ IsStale
  /\ Decay
  /\ busy' = busy \cup {t}
  /\ UNCHANGED <<state, lastFailure, attempts, trip, since, probes>>

\* The task is answered with an error.
Block(t) ==
  /\ Ask(t) /\ Denies /\ ~Connected /\ ~IsStale
  /\ Decay
  /\ UNCHANGED <<state, lastFailure, attempts, trip, busy, since, probes>>

----------------------------------------------------------------------------
(* What a task reports                                                      *)

Report(t) ==
  /\ t \in busy /\ busy' = busy \ {t}
  /\ UNCHANGED <<now, gateway, asks>>

Succeed(t) == Report(t) /\ RecordSuccess

\* What follows the success in the same try block may throw: the task goes on to its
\* next attempt and reports again.
SucceedAndRetry(t) == t \in busy /\ RecordSuccess /\ UNCHANGED <<now, gateway, busy, asks>>

FailHard(t) == Report(t) /\ RecordFailure
FailSoft(t) == Report(t) /\ RecordSoftFailure

\* An image task, or an exception outside the retry loop: nothing is reported.
Leave(t) ==
  /\ Report(t)
  /\ UNCHANGED <<state, counts, lastFailure, attempts, trip, since, probes>>

----------------------------------------------------------------------------
(* The gateway and the clock                                                *)

\* The first connection of the worker, which may come late: only onConnected is called.
Connect ==
  /\ Link!Connect
  /\ UNCHANGED <<state, counts, lastFailure, attempts, trip, now, busy, asks, since, probes>>

Disconnect ==
  /\ Link!Disconnect
  /\ UNCHANGED <<state, counts, lastFailure, attempts, trip, now, busy, asks, since, probes>>

\* A later one: onReconnected resets the breaker.
Reconnect ==
  /\ Link!Reconnect
  /\ Reset
  /\ UNCHANGED <<now, busy, asks>>

Tick(d) ==
  /\ now + d <= MaxNow
  /\ now' = now + d
  /\ UNCHANGED <<state, counts, lastFailure, attempts, trip, gateway, busy, asks, since, probes>>

Next ==
  \/ \E t \in Tasks : Pass(t) \/ PassReset(t) \/ PassStale(t) \/ Block(t)
  \/ \E t \in Tasks : Succeed(t) \/ SucceedAndRetry(t) \/ FailHard(t) \/ FailSoft(t) \/ Leave(t)
  \/ Connect \/ Disconnect \/ Reconnect
  \/ \E d \in Steps : Tick(d)

Spec == Init /\ [][Next]_vars

----------------------------------------------------------------------------
(* What the breaker guarantees                                              *)

\* CLOSED with a tier at its threshold would let requests through to a gateway that
\* has failed often enough: every way back to CLOSED has to clear both counts, and
\* every way up has to trip, whatever the answers that arrive late.
ClosedBelowThreshold ==
  state = "CLOSED" => hard < HardThreshold /\ soft < SoftThreshold

\* Between two trips the gateway gets a bounded number of probes, however many tasks
\* ask: halfOpenMaxAttempts and the one that turns the breaker HALF_OPEN.
ProbesBounded == probes <= HalfOpenMax + 1

\* Of two cooldowns the longer one holds: while the gateway is not connected no task
\* passes an OPEN breaker before nextAttemptAt, by canRequest or by the overrides of
\* checkCircuitBreaker, neither of which looks at nextAttemptAt.
CooldownRespected ==
  [][busy' # busy /\ busy \subseteq busy' /\ state = "OPEN" /\ ~Connected
       => now >= nextAttempt]_vars

\* Turning tasks away ends: whatever the order of late failures, trips and probes that never
\* report, no task is turned away before a failure or later than StaleAge after the last one,
\* and by an OPEN breaker none once the longest cooldown has passed since.
OpenDeadline ==
  [][asks' # asks /\ busy' = busy
       => /\ lastFailure > 0 /\ now - lastFailure <= StaleAge
          /\ state = "OPEN" => now < lastFailure + 2 * ResetTimeout]_vars

\* A tier trips on its own failures only: the breaker leaves CLOSED after as many
\* failures of one tier, since the counts were cleared, as its threshold says, and
\* decay only delays that.
NoEarlyTrip ==
  [][state = "CLOSED" /\ state' = "OPEN"
       => hardSince' >= HardThreshold \/ softSince' >= SoftThreshold]_vars

----------------------------------------------------------------------------
(* Why it does: the inductive invariant                                     *)

\* Decay only lowers the counts, so the histories bound them.
CountsBelowHistory == hard <= hardSince /\ soft <= softSince

\* attempts counts every probe but the one that turned the breaker HALF_OPEN.
ProbesCounted == probes <= IF state = "HALF_OPEN" THEN attempts + 1 ELSE 0

\* Only a failure brings the breaker out of CLOSED, and the deadline of an OPEN one was set
\* at a failure, and no earlier one than the last.
DeadlineSet ==
  /\ state # "CLOSED" => lastFailure > 0
  /\ state = "OPEN" => nextAttempt <= lastFailure + 2 * ResetTimeout

BInv == TypeOK /\ ClosedBelowThreshold /\ CountsBelowHistory /\ ProbesCounted /\ DeadlineSet

=============================================================================
