SPECIFICATION FairSpec
CONSTANTS
  p1 = p1
  p2 = p2
  Providers <- MCTwoProviders
  DayLength = 2
  MaxTime = 4
  MaxRev = 4
  Periods <- MCTwoPeriods
  Expiries = TRUE
  Compactions = {3}
INVARIANTS
  TypeOK
  DayLinks
  StartsInPeriod
  MissedForACause
PROPERTIES
  SearchEnds
CHECK_DEADLOCK FALSE
