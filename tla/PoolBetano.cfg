CONSTANTS
  r1 = r1  r2 = r2  u1 = u1  u2 = u2  h1 = h1  h2 = h2  s1 = s1  s2 = s2  k1 = k1
  Requests = {r1, r2}
  Users = {u1, u2}
  Houses <- TwoHouses
  UserOf <- RequestUser
  HouseOf <- RequestHouse
  Direct = {r1}
  Sheets = {s1, s2}
  SheetOf <- OwnSheet
  Locks = {k1}
  LockOf <- OneLock
  Campaigns = {1, 2}
  Manual = {2}
  LinkIds = {4, 5, 6}
  None = None
  MaxApprovals = 1
  MaxOverruns = 1
  MaxCrashes = 1
SPECIFICATION Spec
INVARIANTS TypeOK LockGuards OneHousePerCampaign MarkedWasGiven
PROPERTY AllocationSpec
CHECK_DEADLOCK FALSE
