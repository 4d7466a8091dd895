\* On Lightning the poller and a client on two charges of two sats over a counter that
\* holds three: the second credit overflows.  On Cashu three clients with two tokens on
\* one charge: the same token again, and a second one.
SPECIFICATION Spec
CONSTANTS
  Hashes = {h1}
  NoRow = NoRow
  NoCharge = NoCharge
  NoHash = NoHash
  NoSettler = NoSettler
  NoToken = NoToken
  NoLock = NoLock
  Poller = p
  InitialSats = 0
  Price = 2
  Keys = {k1, k2}
  Charges = {c1, c2}
  Settlers = {p, a, b, c}
  Locks = {1, 2, 3, 4, 5}
  WiredRails = {"Lightning", "Cashu"}
  Tokens = {t1, t2}
  MaxSats = 3
  MaxCrashes = 1
  MaxCancels = 1
  MaxSpends = 1
  LightningSettlers = {p, a}
  CashuCharges = 1
CONSTRAINT WithinRail
SYMMETRY Symmetry
INVARIANTS OneSettlerPerCharge CreditedWasMinted RedeemedOnce
PROPERTIES ResolvedWalletUntouched
CHECK_DEADLOCK FALSE
