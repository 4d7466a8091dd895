\* Two calls for one charge, nothing crashes.
SPECIFICATION Spec
CONSTANTS
  Hashes = {h1}
  NoRow = NoRow
  NoCharge = NoCharge
  NoHash = NoHash
  NoSettler = NoSettler
  NoToken = NoToken
  NoLock = NoLock
  Poller = p
  InitialSats = 0
  Price = 2
  Keys = {k1}
  Charges = {c1}
  Settlers = {p, a}
  Locks = {1, 2, 3, 4}
  WiredRails = {"Lightning"}
  Tokens = {}
  MaxSats = 3
  MaxCrashes = 0
  MaxCancels = 1
  MaxSpends = 0
  LightningSettlers = {p, a}
  CashuCharges = 1
CONSTRAINT WithinRail
SYMMETRY Symmetry
INVARIANTS NoLockLeaks
CHECK_DEADLOCK FALSE
