CONSTANTS
  m1 = m1
  m2 = m2
  s1 = s1
  None = None
  Msgs <- MCMsgs
  Sessions <- MCSessions
  SessionOf <- MCSessionOf
  MaxAttempts = 1
  MaxLost = 0
  MaxWsStops = 0
  MaxApiStops = 0
SPECIFICATION Spec
INVARIANT ReplySaved
CHECK_DEADLOCK FALSE
