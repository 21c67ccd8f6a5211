SPECIFICATION Spec
CONSTANTS
  u1 = u1
  u2 = u2
  v1 = v1
  v10 = v10
  Users <- MCUsers
  Services = {v1}
  Files <- MCFiles
  BeginsWith <- MCOneBeginsWith
  Puller = u1
  Does <- MCDoes
  MaxTxns = 4
  LastPull = 2
INVARIANTS
  TypeOK
  StatusCountsChanges
  NeverPartial
  PulledAsServed
PROPERTIES
  NothingStaleLeft
  RevertTwiceRestores
CHECK_DEADLOCK FALSE
