CONSTANTS
  Rows = {w1, w2}
  Releases = {l1, l2}
  Houses = {h1}
  Callers = {c1, c2}
  Admins = {a1}
  None = None
  External = FALSE
  MinAmount <- MinOne
  MaxAmount = 2
  Corrections = FALSE
  MaxDay = 2
SYMMETRY Symmetry
SPECIFICATION Spec
INVARIANT ReleaseBacksOneRow
PROPERTY AccountSpec
CHECK_DEADLOCK FALSE
