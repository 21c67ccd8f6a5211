SPECIFICATION FairSpec
CONSTANTS
  Listeners = {0, 3}
  KeysOf <- MCKeysTwo
  Limit = 3
  Modes = {"catchup", "now", "replay"}
  Faults = {"open", "write", "delete"}
  CrashPoints <- MCAllPCs
  MaxRev = 4
  MaxBoots = 1
INVARIANTS
  TypeOK
  NoVersionSkipped
  DeliveredOnce
PROPERTIES
  ImplementsFeed
  EventuallyDelivered
CHECK_DEADLOCK FALSE
