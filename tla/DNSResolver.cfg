CONSTANTS
  c1 = c1
  c2 = c2
  k1 = k1
  k2 = k2
  Clients <- TwoClients
  KeyOf <- TwoKeys
  None = None
  Capacity = 1
  Overflow = 1
  FreshTTL = 0
  StaleTTL = 1
  FirstCooldown = 1
  LastCooldown = 1
  MaxAttempts = 2
  MaxTime = 2
  MaxLoads = 3
SPECIFICATION Spec
SYMMETRY Symmetry
INVARIANT CacheExact
INVARIANT WaitersHaveFlight
INVARIANT ClosedIsQuiet
INVARIANT RefreshIsNewer
INVARIANT AnswerInTime
