SPECIFICATION Spec
CONSTANTS
  c1 = c1
  m1 = m1
  m2 = m2
  Holders <- ThreeHolders
  Threshold = 2
  Callers = {c1}
  Messages = {m1, m2}
  NoMessage = NoMessage
  NoShare = NoShare
  MaxRequests = 2
  MaxLives = 2
  MaxCrashes = 1
  MaxMisses = 2
  MaxOverdue = 2
  MaxDups = 2
CONSTRAINTS OneKindOfFault TwoSubsetsLater
INVARIANTS NonceSignsOnce FailureExplained
PROPERTIES KeepsThePromise
SYMMETRY Swaps
CHECK_DEADLOCK FALSE
