CONSTANTS
  t1 = t1
  t2 = t2
  None = None
  Tasks <- MCTasks
  HomeOf <- MCHomeOf
  Cap = 3
  Keep = 2
  PersistEvery = 2
  MaxEvents <- MCMaxEvents
  MaxCrashes = 1
SPECIFICATION Spec
INVARIANTS TypeOK DiskLag ReplayInOrder UnfinishedIsFound
PROPERTY CompletionSticks
CHECK_DEADLOCK FALSE
