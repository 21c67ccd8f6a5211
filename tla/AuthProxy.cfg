SPECIFICATION FairSpec
CONSTANTS
  Users = {u1}
  Destinations = {d1}
  MaxTime = 2
  Workers = {1, 2}
  Caches = {"c"}
  CacheOf <- SharedCache
  ReqTimeout = 1
  TokenTimeout = 1
  ListTimeout = 1
  MaxTries = 2
INVARIANT TypeOK
PROPERTY ImplementsContract EventuallyAnswered
CHECK_DEADLOCK FALSE
