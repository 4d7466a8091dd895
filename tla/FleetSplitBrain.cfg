SPECIFICATION Spec
CONSTANTS
  h = h
  s = s
  moving = moving
  steady = steady
  Nodes = {h, s}
  Agents = {moving, steady}
  Home <- MCHome
  Keystores <- MCKeystores
  Mortal = {moving}
  Networks = {"timely"}
  Every = 2
  TTL = 2
  Grace = 1
  MaxAge = 9
  Settle = 1
  BackoffSecs = 2
  MaxTenants = 2
  MaxNow = 9
  FreeUntil = 5
  FreeEvents <- MCFreeEvents
  NoLease = NoLease
  NoTenant = NoTenant
  NoLaunch = NoLaunch
  Never = Never
CONSTRAINT WithinFree
INVARIANT NoSplitBrain
CHECK_DEADLOCK FALSE
