CONSTANTS
  t1 = t1
  t2 = t2
  s1 = s1
  None = None
  Tasks <- MCTasks
  Sessions <- MCSessions
  SessionOf <- MCSessionOf
  HomeOf <- MCHomeOf
  Cleaners = {"ws"}
  Fallible = {"ws"}
  MaxFaults = 1
SPECIFICATION FairSpec
INVARIANTS TypeOK NamedAreUnfinished
PROPERTY ActiveDrains
CHECK_DEADLOCK FALSE
