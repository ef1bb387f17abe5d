CONSTANTS
  c1 = c1  c2 = c2
  MaxDay = 1
  Cpas = {c1, c2}
  CpaDay <- BothFirstDay
  MaxVersion = 1
  Metas = {2}
  Starts = {1}
  Ends = {1}
  Evaluations = {e1}
  Connections = {n1, n2}
  MaxDepth = 2
  Editors = {}
  Switchers = {a1}
  Handlers = {h1, h2}
  None = None
  MaxDecisions = 2
  MaxCrashes = 1
SPECIFICATION FairSpec
INVARIANTS CreditedOnce
PROPERTIES AccountSpec DueIsGiven
CHECK_DEADLOCK FALSE
