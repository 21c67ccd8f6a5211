SPECIFICATION ConfigSpec
CONSTANTS
  Options <- SomeOptions
  Scalars <- SomeScalars
  Nullable <- SomeNullable
  Switches <- SomeSwitches
  Unchecked <- SomeUnchecked
  None = None
  Absent = Absent
  OwnFiles <- SomeOwnFiles
  Width = 2
INVARIANT HighestWins
CHECK_DEADLOCK FALSE
