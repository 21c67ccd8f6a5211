SPECIFICATION Spec
CONSTANTS
  Listeners = {0}
  KeysOf <- MCKeysOne
  Limit = 3
  Modes = {"catchup"}
  Faults = {"pull"}
  CrashPoints <- MCPCsButWrite
  MaxRev = 5
  MaxBoots = 3
INVARIANTS
  MissedOnlyInFlight
  AtMostOnce
CHECK_DEADLOCK FALSE
