SPECIFICATION FairSpec
CONSTANTS
  i1 = i1
  i2 = i2
  d1 = d1
  Intents <- MCTwoIntents
  Monitor = monitor
  Direct = {d1}
  MaxAttempts = 2
  BaseDelay = 1
  MaxDelay = 2
  StaleSending = 2
  MaxRun = 1
  MaxCrashes = 1
INVARIANTS
  OutboxTypeOK
  ClaimIsOwned
  DeliveredWasAccepted
  AttemptsWithinBudget
PROPERTIES
  SettledIsFinal
  EventuallySettled
CHECK_DEADLOCK FALSE
