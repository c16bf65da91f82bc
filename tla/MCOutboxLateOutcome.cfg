SPECIFICATION Spec
CONSTANTS
  i1 = i1
  i2 = i2
  d1 = d1
  Intents = {i1}
  Monitor = monitor
  Direct = {d1}
  MaxAttempts = 2
  BaseDelay = 1
  MaxDelay = 2
  StaleSending = 2
  MaxRun = 3
  MaxCrashes = 0
PROPERTIES
  SettledIsFinal
CHECK_DEADLOCK FALSE
