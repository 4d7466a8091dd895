\* The instance of TreasuryBooks.cfg, for one claim the code does not keep.
SPECIFICATION BooksSpec
CONSTANTS
  Keys = {k1, k2}
  Charges = {c1, c2}
  Hashes = {h1}
  NoRow = NoRow
  NoCharge = NoCharge
  NoHash = NoHash
  InitialSats = 2
  MaxSats = 3
  Amounts = {1, 2}
  Observations = {1}
  MaxOpens = 1
  MaxReconciles = 1
  MaxBurned = 1
SYMMETRY Symmetry
INVARIANT SnapshotNeverInflated
CHECK_DEADLOCK FALSE
