CONSTANTS
  m1 = m1
  m2 = m2
  s1 = s1
  Msgs <- MCMsgs2
  Sessions <- MCSessions
  SessionOf <- MCSessionOf2
  MaxConcurrent = 1
  MaxQueue = 1
  MaxPerWorker = 2
  MaxRetry = 1
  MaxRestart = 1
  MaxCrashes = 0
  MaxRestartCalls = 0
  MaxDrops = 0
SPECIFICATION FairSpec
PROPERTY QueuedSettles
CHECK_DEADLOCK FALSE
