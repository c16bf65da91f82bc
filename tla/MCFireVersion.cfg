SPECIFICATION Spec
CONSTANTS
  restate = restate
  t1 = t1
  t2 = t2
  driverOwner = driverOwner
  toolOwner = toolOwner
  Admins = {a1, a2}
  SeedVersion = "v1"
  ToVersions = {"v2", "v3"}
  Windows <- MCWindows
  Horizon = 5
  Ttl = 3
  Restate = restate
  Tools <- MCOneTool
  Owner <- MCOwner
  NoOwner = NoOwner
  OperatorWakes <- MCOperatorWakes
  ToolWakes <- MCToolWakes
  ArmNext = TRUE
  MaxSends = 1
  MaxWakes = 2
  MaxCrashes = 0
INVARIANTS
  FiresApprovedVersion
CHECK_DEADLOCK FALSE
