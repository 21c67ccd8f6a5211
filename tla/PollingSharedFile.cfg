SPECIFICATION Spec
CONSTANTS
  Listeners = {0, 3}
  KeysOf <- MCKeysTwo
  Limit = 3
  Modes = {"catchup"}
  Faults = {}
  CrashPoints = {"poll"}
  MaxRev = 5
  MaxBoots = 2
INVARIANTS
  NoNotificationMissed
CHECK_DEADLOCK FALSE
