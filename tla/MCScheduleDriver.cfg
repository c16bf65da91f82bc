SPECIFICATION Spec
CONSTANTS
  restate = restate
  t1 = t1
  t2 = t2
  driverOwner = driverOwner
  toolOwner = toolOwner
  Admins = {a1}
  SeedVersion = "v1"
  ToVersions = {"v2"}
  Windows <- MCWindows
  Horizon = 5
  Ttl = 2
  Restate = restate
  Tools <- MCTools
  Owner <- MCOwner
  NoOwner = NoOwner
  OperatorWakes <- MCOperatorWakes
  ToolWakes <- MCToolWakes
  ArmNext = TRUE
  MaxSends = 1
  MaxWakes = 2
  MaxCrashes = 1
INVARIANTS
  DriverTypeOK
  OneTaskPerFire
  FenceMutex
PROPERTIES
  NoFenceRevival
  LastClaimBinds
  ImplementsFires
CHECK_DEADLOCK FALSE
