SPECIFICATION FairSpec
CONSTANTS
  Users = {u1, u2}
  Scrapers = {1, 2}
  Window = 1
  MaxSamples = 2
  MaxTime = 1
  MaxExpiries = 2
INVARIANTS
  TypeOK
  Conserved
  CountedOnce
  NoUserMissed
PROPERTIES
  EventuallyReported
CHECK_DEADLOCK FALSE
