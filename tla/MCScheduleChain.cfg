SPECIFICATION FairSpec
CONSTANTS
  restate = restate
  t1 = t1
  t2 = t2
  driverOwner = driverOwner
  toolOwner = toolOwner
  Admins = {a1, a2}
  SeedVersion = "v1"
  ToVersions = {"v2", "v3"}
  Windows <- MCLongWindows
  Horizon = 5
  Ttl = 3
  Restate = restate
  Tools = {}
  Owner <- MCOwner
  NoOwner = NoOwner
  OperatorWakes <- MCOperatorWakes
  ToolWakes <- MCToolWakes
  ArmNext = TRUE
  MaxSends = 1
  MaxWakes = 2
  MaxCrashes = 2
INVARIANTS
  EnabledIsProduction
PROPERTIES
  StopIsFinal
  AdmittedIsBound
  NextWindowFires
CHECK_DEADLOCK FALSE
