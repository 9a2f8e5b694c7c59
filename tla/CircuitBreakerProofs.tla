------------------------ MODULE CircuitBreakerProofs ------------------------
(***************************************************************************)
(* The guarantees of CircuitBreaker for every value of its constants: one  *)
(* inductive invariant, BInv, gives the two invariants and the three       *)
(* action properties.                                                      *)
(***************************************************************************)
EXTENDS CircuitBreaker, TLAPS

\* The powers that the shift of _applyDecay divides by are positive.
LEMMA PowerPositive == ASSUME NEW k \in Nat PROVE 2^(k % 32) \in Int /\ 2^(k % 32) > 0
<1> DEFINE j == k % 32
<1>1. /\ 2^0 > 0 /\ 2^1 > 0 /\ 2^2 > 0 /\ 2^3 > 0 /\ 2^4 > 0 /\ 2^5 > 0 /\ 2^6 > 0 /\ 2^7 > 0
      /\ 2^8 > 0 /\ 2^9 > 0 /\ 2^10 > 0 /\ 2^11 > 0 /\ 2^12 > 0 /\ 2^13 > 0 /\ 2^14 > 0
      /\ 2^15 > 0 /\ 2^16 > 0 /\ 2^17 > 0 /\ 2^18 > 0 /\ 2^19 > 0 /\ 2^20 > 0 /\ 2^21 > 0
      /\ 2^22 > 0 /\ 2^23 > 0 /\ 2^24 > 0 /\ 2^25 > 0 /\ 2^26 > 0 /\ 2^27 > 0 /\ 2^28 > 0
      /\ 2^29 > 0 /\ 2^30 > 0 /\ 2^31 > 0
  OBVIOUS
<1>2. j \in {0, 1, 2, 3, 4, 5, 6, 7, 8, 9, 10, 11, 12, 13, 14, 15, 16, 17, 18, 19, 20, 21,
             22, 23, 24, 25, 26, 27, 28, 29, 30, 31}
  OBVIOUS
<1>3. j \in Nat
  OBVIOUS
<1>4. 2^j \in Int
  <2> HIDE DEF j
  <2> QED BY <1>3
<1>5. 2^j > 0
  <2> HIDE DEF j
  <2> QED BY <1>1, <1>2, Zenon
<1> QED BY <1>4, <1>5

\* A shift never raises a count.
LEMMA ShrBounds == ASSUME NEW n \in Nat, NEW k \in Nat PROVE Shr(n, k) \in 0..n
<1> DEFINE p == 2^(k % 32)
<1>1. p \in Int /\ p > 0
  BY PowerPositive
<1>2. n \div p \in 0..n
  <2> HIDE DEF p
  <2> QED BY <1>1
<1> QED BY <1>2 DEF Shr

\* Nor does the decay as a whole, for any clock and any interval.
LEMMA DecayBounds ==
  ASSUME TypeOK PROVE DecayedHard \in 0..hard /\ DecayedSoft \in 0..soft
<1>1. now - lastDecay \in Nat /\ DecayInterval \in Nat \ {0}
  BY BreakerAssumption DEF TypeOK
<1>2. Periods \in Nat
  BY <1>1 DEF Periods
<1>3. Shr(hard, Periods) \in 0..hard /\ Shr(soft, Periods) \in 0..soft
  BY <1>2, ShrBounds DEF TypeOK
<1> QED BY <1>3 DEF DecayedHard, DecayedSoft, TypeOK

\* A new breaker satisfies the invariant.
LEMMA BreakerInit == Init => BInv
<1>1. Init => gateway \in {"new", "up", "down"}
  BY Zenon DEF Init
<1> QED BY <1>1, BreakerAssumption
        DEF Init, BInv, TypeOK, ClosedBelowThreshold, CountsBelowHistory, ProbesCounted, DeadlineSet

\* canRequest keeps the invariant, whatever state it leaves the breaker in.
LEMMA PassKeeps == ASSUME BInv, NEW t \in Tasks, Pass(t) PROVE BInv'
<1>1. DecayedHard \in 0..hard /\ DecayedSoft \in 0..soft
  BY DecayBounds DEF BInv
<1>2. /\ hard' \in 0..hard /\ soft' \in 0..soft /\ lastDecay' \in {now, lastDecay}
      /\ asks' = asks + 1 /\ asks < MaxAsks /\ busy' = busy \cup {t}
      /\ UNCHANGED <<now, gateway, lastFailure, nextAttempt, trips, reason, hardSince, softSince>>
  BY <1>1 DEF Pass, Decay, Ask, trip, since
<1>3. Grants
  BY DEF Pass
<1>4. TypeOK'
  BY <1>2, <1>3, BreakerAssumption DEF BInv, TypeOK, Grants, CountAttempt
<1>5. (ClosedBelowThreshold /\ CountsBelowHistory /\ ProbesCounted /\ DeadlineSet)'
  BY <1>2, <1>3, BreakerAssumption
     DEF BInv, TypeOK, Grants, CountAttempt, ForcesProbe, ClosedBelowThreshold, CountsBelowHistory,
         ProbesCounted, DeadlineSet
<1> QED BY <1>4, <1>5 DEF BInv

\* So do the calls that only decay: the stale override and the error answer.
LEMMA DecayKeeps ==
  ASSUME BInv, NEW t \in Tasks, PassStale(t) \/ Block(t) PROVE BInv'
<1>1. DecayedHard \in 0..hard /\ DecayedSoft \in 0..soft
  BY DecayBounds DEF BInv
<1>2. /\ hard' \in 0..hard /\ soft' \in 0..soft /\ lastDecay' \in {now, lastDecay}
      /\ asks' = asks + 1 /\ asks < MaxAsks /\ busy' \in {busy, busy \cup {t}}
      /\ UNCHANGED <<state, attempts, probes>>
      /\ UNCHANGED <<now, gateway, lastFailure, nextAttempt, trips, reason, hardSince, softSince>>
  BY <1>1 DEF PassStale, Block, Decay, Ask, trip, since
<1> QED BY <1>2, BreakerAssumption
        DEF BInv, TypeOK, ClosedBelowThreshold, CountsBelowHistory, ProbesCounted, DeadlineSet

\* Every way to clear the counts establishes it: success, reconnect, reset.
LEMMA ClearKeeps ==
  ASSUME BInv, ClearCounts, UNCHANGED <<now, lastFailure, trips>>,
         reason' \in {reason, "null"}, gateway' \in {"new", "up", "down"}, busy' \subseteq Tasks,
         asks' \in 0..MaxAsks
  PROVE  BInv'
BY BreakerAssumption
   DEF BInv, TypeOK, ClearCounts, ClosedBelowThreshold, CountsBelowHistory, ProbesCounted, DeadlineSet

\* A failure, in any state of the breaker, keeps it.
LEMMA FailureKeeps ==
  ASSUME BInv, NEW t \in Tasks, FailHard(t) \/ FailSoft(t) PROVE BInv'
<1>1. /\ busy' \subseteq busy /\ lastFailure' = now /\ lastDecay' = now
      /\ UNCHANGED <<now, gateway, asks, attempts>>
  BY DEF FailHard, FailSoft, Report, RecordFailure, RecordSoftFailure
<1>2. CASE FailHard(t)
  <2>1. /\ hard' = hard + 1 /\ hardSince' = hardSince + 1 /\ UNCHANGED <<soft, softSince>>
        /\ \/ Trip("hard", ResetTimeout)
           \/ /\ state # "HALF_OPEN" /\ hard' < HardThreshold
              /\ UNCHANGED <<state, nextAttempt, trips, reason, probes>>
    BY <1>2, BreakerAssumption DEF FailHard, RecordFailure, BInv, TypeOK, trip
  <2> QED BY <1>1, <2>1, BreakerAssumption
          DEF BInv, TypeOK, Trip, ClosedBelowThreshold, CountsBelowHistory, ProbesCounted, DeadlineSet
<1>3. CASE FailSoft(t)
  <2>1. /\ soft' = soft + 1 /\ softSince' = softSince + 1 /\ UNCHANGED <<hard, hardSince>>
        /\ \/ Trip("soft", ResetTimeout) \/ Trip("soft", 2 * ResetTimeout)
           \/ /\ state # "HALF_OPEN" /\ soft' < SoftThreshold
              /\ UNCHANGED <<state, nextAttempt, trips, reason, probes>>
    BY <1>3, BreakerAssumption DEF FailSoft, RecordSoftFailure, SoftCooldown, Trip, trip
  <2> QED BY <1>1, <2>1, BreakerAssumption
          DEF BInv, TypeOK, Trip, ClosedBelowThreshold, CountsBelowHistory, ProbesCounted, DeadlineSet
<1> QED BY <1>2, <1>3

\* Steps that leave the breaker alone keep it.
LEMMA OthersKeep ==
  ASSUME BInv, UNCHANGED <<state, counts, lastFailure, attempts, trip, since, probes>>,
         now' \in Nat, now' >= now, gateway' \in {"new", "up", "down"}, busy' \subseteq Tasks,
         asks' \in 0..MaxAsks
  PROVE  BInv'
BY BreakerAssumption
   DEF BInv, TypeOK, counts, trip, since, ClosedBelowThreshold, CountsBelowHistory, ProbesCounted,
       DeadlineSet

\* The invariant is inductive.
LEMMA BreakerNext == BInv /\ [Next]_vars => BInv'
<1> SUFFICES ASSUME BInv, [Next]_vars PROVE BInv'
  OBVIOUS
<1> USE BreakerAssumption
<1>0. gateway \in {"new", "up", "down"} /\ busy \subseteq Tasks /\ asks \in 0..MaxAsks /\ now \in Nat
  BY DEF BInv, TypeOK
<1>1. ASSUME NEW t \in Tasks, Pass(t) PROVE BInv'
  BY <1>1, PassKeeps
<1>2. ASSUME NEW t \in Tasks, PassReset(t) PROVE BInv'
  BY <1>0, <1>2, ClearKeeps DEF PassReset, Ask, Reset
<1>3. ASSUME NEW t \in Tasks, PassStale(t) \/ Block(t) PROVE BInv'
  BY <1>3, DecayKeeps
<1>4. ASSUME NEW t \in Tasks, Succeed(t) \/ SucceedAndRetry(t) PROVE BInv'
  BY <1>0, <1>4, ClearKeeps DEF Succeed, SucceedAndRetry, Report, RecordSuccess
<1>5. ASSUME NEW t \in Tasks, FailHard(t) \/ FailSoft(t) PROVE BInv'
  BY <1>5, FailureKeeps
<1>6. ASSUME NEW t \in Tasks, Leave(t) PROVE BInv'
  BY <1>0, <1>6, OthersKeep DEF Leave, Report
<1>7. CASE Connect \/ Disconnect
  <2>1. gateway' \in {"new", "up", "down"}
    BY <1>7, Zenon DEF Connect, Disconnect, Link!Connect, Link!Disconnect
  <2> QED BY <1>0, <1>7, <2>1, OthersKeep DEF Connect, Disconnect, Link!Connect, Link!Disconnect
<1>8. CASE Reconnect
  <2>1. gateway' \in {"new", "up", "down"}
    BY <1>8, Zenon DEF Reconnect, Link!Reconnect
  <2> QED BY <1>0, <1>8, <2>1, ClearKeeps DEF Reconnect, Reset
<1>9. ASSUME NEW d \in Steps, Tick(d) PROVE BInv'
  BY <1>0, <1>9, OthersKeep DEF Tick
<1>10. CASE UNCHANGED vars
  BY <1>0, <1>10, OthersKeep DEF vars
<1> QED BY <1>1, <1>2, <1>3, <1>4, <1>5, <1>6, <1>7, <1>8, <1>9, <1>10 DEF Next

\* The invariant holds in every reachable state.
THEOREM BreakerInvariant == Spec => []BInv
BY BreakerInit, BreakerNext, PTL DEF Spec

\* The fields of the breaker keep their types; halfOpenAttempts never passes its limit.
THEOREM BreakerTypes == Spec => []TypeOK
<1>1. BInv => TypeOK
  BY DEF BInv
<1> QED BY <1>1, BreakerInvariant, PTL

\* A CLOSED breaker is below both thresholds, after any order of late answers.
THEOREM ClosedMeansBelow == Spec => []ClosedBelowThreshold
<1>1. BInv => ClosedBelowThreshold
  BY DEF BInv
<1> QED BY <1>1, BreakerInvariant, PTL

\* However many tasks ask, at most halfOpenMaxAttempts + 1 probes pass between two trips.
THEOREM ProbeBound == Spec => []ProbesBounded
<1>1. BInv => ProbesBounded
  BY BreakerAssumption DEF BInv, TypeOK, ProbesCounted, ProbesBounded
<1> QED BY <1>1, BreakerInvariant, PTL

\* No path past an OPEN breaker, canRequest or override, undercuts the longer cooldown.
THEOREM CooldownHolds == Spec => CooldownRespected
<1> DEFINE Early == /\ busy' # busy /\ busy \subseteq busy' /\ state = "OPEN" /\ ~Connected
                    /\ ~(now >= nextAttempt)
<1>1. BInv /\ [Next]_vars => ~Early
  <2> SUFFICES ASSUME BInv, [Next]_vars, Early PROVE FALSE
    OBVIOUS
  <2>1. nextAttempt <= lastFailure + 2 * ResetTimeout /\ nextAttempt \in Nat /\ lastFailure \in Nat
    BY DEF BInv, TypeOK, DeadlineSet
  <2>2. PICK t \in Tasks : Pass(t) \/ PassStale(t)
    BY DEF Next, vars, PassReset, Block, Succeed, SucceedAndRetry, FailHard, FailSoft, Leave, Report,
           Connect, Disconnect, Reconnect, Link!Connect, Link!Disconnect, Link!Reconnect, Tick
  <2>3. CASE Pass(t)
    BY <2>1, <2>3, BreakerAssumption DEF Pass, Grants, CooledDown, ForcesProbe, BInv, TypeOK
  <2>4. CASE PassStale(t)
    BY <2>1, <2>4, BreakerAssumption DEF PassStale, IsStale, BInv, TypeOK
  <2> QED BY <2>2, <2>3, <2>4
<1>2. BInv /\ [Next]_vars =>
        [busy' # busy /\ busy \subseteq busy' /\ state = "OPEN" /\ ~Connected
           => now >= nextAttempt]_vars
  BY <1>1
<1> QED BY <1>2, BreakerInvariant, PTL DEF Spec, CooldownRespected

\* No task is turned away once StaleAge has passed since the last failure, nor by an OPEN
\* breaker after the longest cooldown, nor before there was a failure.
THEOREM OpenEnds == Spec => OpenDeadline
<1>1. BInv /\ [Next]_vars =>
        [asks' # asks /\ busy' = busy
           => /\ lastFailure > 0 /\ now - lastFailure <= StaleAge
              /\ state = "OPEN" => now < lastFailure + 2 * ResetTimeout]_vars
  <2> SUFFICES ASSUME BInv, [Next]_vars, asks' # asks, busy' = busy
               PROVE  /\ lastFailure > 0 /\ now - lastFailure <= StaleAge
                      /\ state = "OPEN" => now < lastFailure + 2 * ResetTimeout
    OBVIOUS
  <2>1. PICK t \in Tasks : Block(t)
    BY DEF Next, vars, Pass, PassReset, PassStale, Ask, Succeed, SucceedAndRetry, FailHard, FailSoft,
           Leave, Report, Connect, Disconnect, Reconnect, Tick,
           Link!Connect, Link!Disconnect, Link!Reconnect
  <2>2. state # "CLOSED" /\ (state = "OPEN" => ~CooledDown) /\ ~IsStale
    BY <2>1 DEF Block, Denies
  <2>3. lastFailure > 0 /\ now - lastFailure <= StaleAge
    BY <2>2, BreakerAssumption DEF IsStale, BInv, TypeOK, DeadlineSet
  <2>4. state = "OPEN" => now < lastFailure + 2 * ResetTimeout
    BY <2>2, BreakerAssumption DEF CooledDown, BInv, TypeOK, DeadlineSet
  <2> QED BY <2>3, <2>4
<1> QED BY <1>1, BreakerInvariant, PTL DEF Spec, OpenDeadline

\* CLOSED is left only after a tier's own number of failures since the last clearing.
THEOREM TripsAreEarned == Spec => NoEarlyTrip
<1>1. BInv /\ [Next]_vars =>
        [state = "CLOSED" /\ state' = "OPEN"
           => hardSince' >= HardThreshold \/ softSince' >= SoftThreshold]_vars
  <2> SUFFICES ASSUME BInv, [Next]_vars, state = "CLOSED", state' = "OPEN"
               PROVE  hardSince' >= HardThreshold \/ softSince' >= SoftThreshold
    OBVIOUS
  <2>1. PICK t \in Tasks : FailHard(t) \/ FailSoft(t)
    BY DEF Next, vars, Pass, Grants, ForcesProbe, PassReset, PassStale, Block, Succeed, SucceedAndRetry,
           RecordSuccess, Reset, ClearCounts, Leave, Connect, Disconnect, Reconnect, Tick,
           Link!Connect, Link!Disconnect, Link!Reconnect
  <2>2. CASE FailHard(t)
    BY <2>2, BreakerAssumption DEF FailHard, RecordFailure, BInv, TypeOK, CountsBelowHistory
  <2>3. CASE FailSoft(t)
    BY <2>3, BreakerAssumption DEF FailSoft, RecordSoftFailure, BInv, TypeOK, CountsBelowHistory
  <2> QED BY <2>1, <2>2, <2>3
<1> QED BY <1>1, BreakerInvariant, PTL DEF Spec, NoEarlyTrip

\* The breaker sees the gateway connect, disconnect and reconnect in an order the connector
\* can produce: GatewayConnector implements the same GatewayLink.
THEOREM BreakerUsesLink == Spec => Link!Spec
<1>1. Init => Link!Init
  BY DEF Init, Link!Init
<1>2. [Next]_vars => [Link!Next]_gateway
  <2> SUFFICES ASSUME [Next]_vars, gateway' # gateway PROVE Link!Next
    OBVIOUS
  <2>1. Connect \/ Disconnect \/ Reconnect
    BY DEF Next, vars, Pass, PassReset, PassStale, Block, Ask, Succeed, SucceedAndRetry, FailHard,
           FailSoft, Leave, Report, Tick
  <2> QED BY <2>1 DEF Connect, Disconnect, Reconnect, Link!Next
<1> QED BY <1>1, <1>2, PTL DEF Spec, Link!Spec

=============================================================================
