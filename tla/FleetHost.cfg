SPECIFICATION Spec
CONSTANTS
  g1 = g1
  g2 = g2
  Agents <- TwoAgents
  Static <- OneStatic
  Requested <- OneRequested
  MaxTenants = 2
  MaxLives = 3
  MaxPid = 4
  MaxKey = 4
  NoLaunch = NoLaunch
  NoReap = NoReap
INVARIANTS OneProcess IdentityKept SlotsAccounted
PROPERTY FalseReapFence
CHECK_DEADLOCK FALSE
