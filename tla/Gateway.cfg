\* Four workloads, two clients, a restart (two for the memory workload), a cancellation,
\* rent, and a lease that comes and goes.
SPECIFICATION MCSpec
CONSTANTS
  p1 = p1
  p2 = p2
  b1 = b1
  q1 = q1
  w1 = w1
  w2 = w2
  f1 = f1
  f2 = f2
  h1 = h1
  h2 = h2
  Keys = {p1, p2, b1, q1, w1, w2, f1, f2}
  Hashes = {h1, h2}
  NoRow = NoRow
  NoCharge = NoCharge
  NoHash = NoHash
  NoRequest = NoRequest
  NoClient = NoClient
  NoReply = NoReply
  Clients = {a, b}
  MaxSats = 3
  InitialSats = 3
  Charges = {c1, c2}
  Burns = {1}
  HaltFloor = 2
  MaxArrivals = 4
  MaxCancels = 1
  MaxBoots = 2
  Offered = {"publish", "brain", "memory", "fetch"}
  Requests <- AllRequests
SYMMETRY Symmetry
INVARIANTS PublishedAtMostOnce PublishPaidFirst AnswersAgree RecordedWriteServed GateHeldInside
PROPERTIES WithinAuthority ReplayPerformsNothing
CHECK_DEADLOCK FALSE
