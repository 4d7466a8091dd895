\* Two keys, two charges and amounts of one and two sats: a debit can be refused,
\* duplicated or raced, and a credit can overflow MaxSats.
SPECIFICATION BooksSpec
CONSTANTS
  Keys = {k1, k2}
  Charges = {c1, c2}
  Hashes = {h1}
  NoRow = NoRow
  NoCharge = NoCharge
  NoHash = NoHash
  InitialSats = 2
  MaxSats = 3
  Amounts = {1, 2}
  Observations = {1}
  MaxOpens = 1
  MaxReconciles = 1
  MaxBurned = 1
SYMMETRY Symmetry
INVARIANTS BooksBalance IndexedIffRecorded
PROPERTIES KeepsTheAccount
CHECK_DEADLOCK FALSE
