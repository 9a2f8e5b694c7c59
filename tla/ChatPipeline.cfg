CONSTANTS
  m1 = m1
  m2 = m2
  s1 = s1
  None = None
  Msgs <- MCMsgs
  Sessions <- MCSessions
  SessionOf <- MCSessionOf
  MaxAttempts = 1
  MaxLost = 1
  MaxWsStops = 1
  MaxApiStops = 1
SPECIFICATION FairSpec
INVARIANTS TypeOK EntryOfPipeline
PROPERTIES ImplementsCall PipelineEnds
CHECK_DEADLOCK FALSE
