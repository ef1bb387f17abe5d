CONSTANTS
  MaxConversations = 1
  Agents = {a1, a2}
  Capacity = 1
  DrainLimit = 1
  HoursMet = {TRUE, FALSE}
  Calls = {k1, k2}
  None = None
  MaxCrashes = 1
SPECIFICATION FairSpec
PROPERTIES WaitingEnds
CHECK_DEADLOCK FALSE
