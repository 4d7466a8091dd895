SPECIFICATION Spec
CONSTANTS
  Machines = {m1, m2}
  Relays = {r1, r2, r3}
  write_k = 2
  read_k = 2
  Returns = FALSE
  MaxIndex = 2
  MaxEvents = 2
  MaxLives = 2
  MaxAttempts = 1
  MaxFaults = 2
SYMMETRY Orders
INVARIANT DerivesAboveFloor
INVARIANT QuietMirror
PROPERTY BackupNeverLost
PROPERTY HeadNeverRegresses
CHECK_DEADLOCK FALSE
