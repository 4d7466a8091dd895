\* The lease is lost while a completion is on the rail.
SPECIFICATION MCSpec
CONSTANTS
  p1 = p1
  p2 = p2
  b1 = b1
  q1 = q1
  w1 = w1
  w2 = w2
  f1 = f1
  f2 = f2
  h1 = h1
  h2 = h2
  Keys = {p1, p2, b1, q1, w1, w2, f1, f2}
  Hashes = {h1, h2}
  NoRow = NoRow
  NoCharge = NoCharge
  NoHash = NoHash
  NoRequest = NoRequest
  NoClient = NoClient
  NoReply = NoReply
  Clients = {a, b}
  MaxSats = 3
  InitialSats = 3
  Charges = {c1}
  Burns = {}
  HaltFloor = 0
  MaxArrivals = 2
  MaxCancels = 0
  MaxBoots = 0
  Offered = {"oneCompletion"}
  Requests <- AllRequests
PROPERTY FencedNeverDebits
CHECK_DEADLOCK FALSE
