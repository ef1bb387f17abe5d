CONSTANTS
  Withdrawals = {w1, w2}
  Approvers = {a1, a2}
  NoRef = NoRef
  Gross = 3
  Fee = 1
  RefundUnit = 100
  PartialRefunds = FALSE
  EchoesCorrelation = FALSE
  MaxAttempts = 1
  MaxCrashes = 1
  OtherEvents = {}
SYMMETRY Symmetry
SPECIFICATION Spec
INVARIANTS
  TypeOK
  UnsentWhileUndecided
  SingleDispatch
  CompletedIsPaid
CHECK_DEADLOCK FALSE
