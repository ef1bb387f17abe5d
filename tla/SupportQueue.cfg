CONSTANTS
  MaxConversations = 3
  Agents = {a1}
  Capacity = 1
  DrainLimit = 1
  HoursMet = {TRUE}
  Calls = {k1, k2}
  None = None
  MaxCrashes = 0
SPECIFICATION Spec
SYMMETRY Symmetry
INVARIANTS TypeOK ActiveHasAgent LoadBounded
PROPERTIES ReopenedMidTransaction
CHECK_DEADLOCK FALSE
