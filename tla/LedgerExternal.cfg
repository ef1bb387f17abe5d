CONSTANTS
  Rows = {w1, w2}
  Releases = {}
  Houses = {h1}
  Callers = {c1, c2}
  Admins = {}
  None = None
  External = TRUE
  MinAmount <- MinOne
  MaxAmount = 3
  Corrections = TRUE
  MaxDay = 2
SPECIFICATION FairSpec
INVARIANTS TypeOK ReservedWithinPeak OneFreePerDay
PROPERTY RequestsEnd
CHECK_DEADLOCK FALSE
