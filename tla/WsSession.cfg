CONSTANTS
  m1 = m1
  m2 = m2
  None = None
  NumConns = 2
  Msgs <- MCMsgs
  Typed <- MCMsgs
  Posted <- MCOther
  Own <- MCOther
  MaxExits = 1
SPECIFICATION FairSpec
INVARIANTS TypeOK FlagExcludes EntryOfHandler
PROPERTIES EntryFrees HandlersEnd
CHECK_DEADLOCK FALSE
