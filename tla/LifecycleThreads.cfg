SPECIFICATION FairSpec
CONSTANTS
  EngineOf <- MCTwoFiles
  KeysOf <- MCTwoFilesKeys
  Periods = {"replay", "live"}
  Outcomes = {"found", "nothing", "unknown"}
  Faults = {"request", "spawn"}
  MaxSignals = 2
INVARIANTS
  TypeOK
  CancelStops
  EndsForACause
  ReplayIsComplete
PROPERTIES
  ReplayTerminates
CHECK_DEADLOCK FALSE
