SPECIFICATION Spec
CONSTANTS
  EngineOf <- MCOneFile
  KeysOf <- MCOneFileKeys
  Periods = {"replay"}
  Outcomes = {"found"}
  Faults = {}
  MaxSignals = 0
INVARIANTS
  ReplayRetrievesAll
CHECK_DEADLOCK FALSE
