SPECIFICATION Spec
CONSTANTS
  Shares = 3
  Threshold = 2
  Wakers = {s1, s2}
  Ttl = 2
  WakeTimes = {1}
  MaxTime = 3
  MaxEpoch = 4
  MaxDigest = 1
  MaxFaults = 2
SYMMETRY Symmetry
INVARIANT StaysAwakeAlone
CHECK_DEADLOCK FALSE
