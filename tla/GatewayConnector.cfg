SPECIFICATION FairSpec
CONSTANTS
  MaxTimeouts = 3
  GatewayModes = {"up", "slow", "down"}
  MaxFlaps = 3
  MaxCalls = 2
  MaxForces = 1
  MaxExpiries = 1
INVARIANTS TypeOK LockIsGuarded
PROPERTIES OnlyCallsGiveUp Stabilises ImplementsLink
CHECK_DEADLOCK FALSE
