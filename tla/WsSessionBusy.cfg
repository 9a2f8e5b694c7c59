CONSTANTS
  m1 = m1
  m2 = m2
  None = None
  NumConns = 2
  Msgs <- MCOne
  Typed <- MCOne
  Posted <- MCOne
  Own <- MCOne
  MaxExits = 0
SPECIFICATION FairSpec
PROPERTY BusyEnds
CHECK_DEADLOCK FALSE
