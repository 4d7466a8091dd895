\* The poller and a client with one charge, restarts, a cut-off mint and a spend.
SPECIFICATION FairSpec
CONSTANTS
  Hashes = {h1}
  NoRow = NoRow
  NoCharge = NoCharge
  NoHash = NoHash
  NoSettler = NoSettler
  NoToken = NoToken
  NoLock = NoLock
  Poller = p
  InitialSats = 0
  Price = 2
  Keys = {k1}
  Charges = {c1}
  Settlers = {p, a}
  Locks = {1, 2, 3, 4}
  WiredRails = {"Lightning"}
  Tokens = {}
  MaxSats = 3
  MaxCrashes = 2
  MaxCancels = 2
  MaxSpends = 1
  LightningSettlers = {p, a}
  CashuCharges = 1
PROPERTIES PaidIsSettled
CHECK_DEADLOCK FALSE
