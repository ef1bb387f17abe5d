CONSTANTS
  Withdrawals = {w1}
  Approvers = {a1}
  NoRef = NoRef
  Gross = 3
  Fee = 1
  RefundUnit = 1
  PartialRefunds = FALSE
  EchoesCorrelation = FALSE
  MaxAttempts = 2
  MaxCrashes = 0
  OtherEvents = {}
SPECIFICATION FairSpec
PROPERTY StuckIsReconciled
CHECK_DEADLOCK FALSE
