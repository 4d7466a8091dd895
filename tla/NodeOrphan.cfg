SPECIFICATION RunSpec
CONSTANTS
  MaxRuns = 2
  Seed = 2
  Floor = 1
  MaxSats = 2
  MaxWallet = 2
  MaxCkpt = 2
INVARIANT HaltedOnReturn
CHECK_DEADLOCK FALSE
