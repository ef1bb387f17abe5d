CONSTANTS
  Withdrawals = {w1}
  Approvers = {a1, a2}
  NoRef = NoRef
  Gross = 3
  Fee = 1
  RefundUnit = 1
  PartialRefunds = TRUE
  EchoesCorrelation = TRUE
  MaxAttempts = 2
  MaxCrashes = 1
  OtherEvents = {"PayOutCreated"}
SPECIFICATION FairSpec
INVARIANTS
  ProcessedIsReflected
  RefundIsBacked
  FailedIsUnpaid
PROPERTIES LifecycleSpec StuckIsReconciled
CHECK_DEADLOCK FALSE
