CONSTANTS
  u1 = u1
  Tasks = {1, 2}
  Urgent = {}
  Users <- MCUsers
  UserOf <- MCUserOf
  UserLimit = 2
  None = None
  MaxStops = 1
  MaxFaults = 0
SPECIFICATION FairSpec
PROPERTY QueueRecovers
CHECK_DEADLOCK FALSE
