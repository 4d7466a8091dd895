\* Each of these is refuted; TLC stops at the first, take out the lines above
\* the one to see.
SPECIFICATION Spec
CONSTANTS
  Requests = {r1, r2}
  Mission = mission
  NoEvent = noEvent
  Workloads = {"oracle", "capable"}
  Texts = {"price"}
  Quotes = {1, 3}
  MinCharge = 2
  PendingTtl = 3
  MaxRetries = 2
  MaxReads = 1
  QueueCap = 2
  Racing = TRUE
  MaxIdle = 3
  MaxFaults = 2
PROPERTY NoEventSkipped
INVARIANT InvoiceIsBacked
INVARIANT ReplyFromItsThink
INVARIANT AnswersOnce
CHECK_DEADLOCK FALSE
