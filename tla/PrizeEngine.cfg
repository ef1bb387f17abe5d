CONSTANTS
  c1 = c1  c2 = c2
  MaxDay = 2
  Cpas = {c1, c2}
  CpaDay <- CpaDays
  MaxVersion = 2
  Metas = {1}
  Starts = {1}
  Ends = {2}
  Evaluations = {e1, e2}
  Connections = {n1}
  MaxDepth = 2
  Editors = {a1}
  Switchers = {}
  Handlers = {}
  None = None
  MaxDecisions = 0
  MaxCrashes = 0
SPECIFICATION Spec
SYMMETRY Symmetry
INVARIANTS TypeOK NoGaps AwardsEarned CountedOnce HistoryIsKept
CHECK_DEADLOCK FALSE
