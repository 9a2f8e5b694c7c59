CONSTANTS
  u1 = u1
  Tasks = {1, 2, 3}
  Urgent = {2}
  Users <- MCUsers
  UserOf <- MCUserOf
  UserLimit = 2
  None = None
  MaxStops = 1
  MaxFaults = 1
SPECIFICATION FairSpec
INVARIANTS TypeOK TriesBounded
PROPERTIES SettledStays QueueMoves
CHECK_DEADLOCK FALSE
