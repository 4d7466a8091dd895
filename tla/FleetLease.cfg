SPECIFICATION Spec
CONSTANTS
  h = h
  s = s
  moving = moving
  steady = steady
  Nodes = {h, s}
  Agents = {moving, steady}
  Home <- MCHome
  Keystores <- MCKeystores
  Mortal = {moving}
  Networks = {"free", "timely"}
  Every = 1
  TTL = 1
  Grace = 1
  MaxAge = 3
  Settle = 1
  BackoffSecs = 2
  MaxTenants = 2
  MaxNow = 7
  FreeUntil = 5
  FreeEvents <- MCFreeEvents
  NoLease = NoLease
  NoTenant = NoTenant
  NoLaunch = NoLaunch
  Never = Never
CONSTRAINT WithinFree
INVARIANTS RaceSettled TakeoverWaits FailoverInTime
PROPERTIES ObservedForward NoFalseTakeover
CHECK_DEADLOCK FALSE
