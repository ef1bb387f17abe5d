CONSTANTS
  Events = {d1}
  Clones = {d2}
  Emitters = {x1, x2}
  None = None
  MaxAttempts = 2
  MaxStalled = 1
  MaxCrashes = 1
SPECIFICATION FairSpec
INVARIANTS TypeOK AcceptedOnce EndedIsSettled PendingIsQueued RunsBounded
PROPERTIES JobEnds
CHECK_DEADLOCK FALSE
