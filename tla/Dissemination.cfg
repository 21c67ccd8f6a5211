SPECIFICATION Spec
CONSTANTS
  Texts <- SomeTexts
  Number <- SomeNumber
  Listeners = {l1}
  BaseOrder <- SomeOrder
  StemAttributes <- SomeStem
  Schema <- SomeSchema
  Requests <- SomeRequests
  Notifications <- SomeNotifications
  TriggersOf <- SomeTriggers
  MaxNotifications = 2
INVARIANT OnlyWanted WellAskedIsHeard
CHECK_DEADLOCK FALSE
