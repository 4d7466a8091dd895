SPECIFICATION Spec
CONSTANTS
  c1 = c1
  m1 = m1
  Holders <- ThreeHolders
  Threshold = 2
  Callers = {c1}
  Messages = {m1}
  NoMessage = NoMessage
  NoShare = NoShare
  MaxRequests = 2
  MaxLives = 1
  MaxCrashes = 0
  MaxMisses = 2
  MaxOverdue = 2
  MaxDups = 0
INVARIANTS SelfHeals
SYMMETRY Swaps
CHECK_DEADLOCK FALSE
