SPECIFICATION Spec
CONSTANTS
  d1 = d1
  Destinations <- MCDestinations
  ProductDates = {0}
  CompactorRetention = 1
  CleanerRetention = 1
  Schedule <- MCDefaultSchedule
  MaxDay = 2
INVARIANTS
  TypeOK
  RetainedIsReadable
  CompactionAccepted
  SpaceIsReclaimed
  CleanedDayIsEmpty
PROPERTIES
  OnlyOldIsDeleted
