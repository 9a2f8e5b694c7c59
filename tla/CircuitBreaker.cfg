SPECIFICATION Spec
CONSTANTS
  Tasks = {t1, t2}
  HardThreshold = 2
  SoftThreshold = 3
  HalfOpenMax = 1
  ResetTimeout = 1
  DecayInterval = 2
  MaxOpen = 10
  StaleAge = 2
  Steps = {1, 9}
  MaxNow = 14
  MaxAsks = 6
INVARIANTS TypeOK ProbesBounded
PROPERTIES CooldownRespected OpenDeadline NoEarlyTrip
CHECK_DEADLOCK FALSE
