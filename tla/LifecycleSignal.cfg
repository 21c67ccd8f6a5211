SPECIFICATION FairSpec
CONSTANTS
  EngineOf <- MCOneFile
  KeysOf <- MCOneFileKeys
  Periods = {"live"}
  Outcomes = {}
  Faults = {}
  MaxSignals = 1
PROPERTIES
  SignalEnds
CHECK_DEADLOCK FALSE
