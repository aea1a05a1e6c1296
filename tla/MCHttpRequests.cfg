SPECIFICATION FairSpec
CONSTANTS
  k1 = k1
  k2 = k2
  u1 = u1
  Requests = {r1, r2}
  Users = {u1}
  Kids = {k1, k2}
  Lifespan = 1
  MaxCachedKeys = 1
  MaxTime = 2
  Kinds <- MCKinds
INVARIANTS CurrentKeysFound OneIdPerRequest LoggedOnce
PROPERTIES OwnersAreVerified RequestsFinish
CHECK_DEADLOCK FALSE
