SPECIFICATION Spec
CONSTANTS
  Requests = {r1, r2}
  Mission = mission
  NoEvent = noEvent
  Workloads = {"oracle", "earn", "capable"}
  Texts = {"price", "status", "unsupported"}
  Quotes = {1}
  MinCharge = 2
  PendingTtl = 1
  MaxRetries = 2
  MaxReads = 1
  QueueCap = 2
  Racing = FALSE
  MaxIdle = 1
  MaxFaults = 1
INVARIANT AnswersPaidOnce
PROPERTY NoEventSkipped
PROPERTY InboxDrains
CHECK_DEADLOCK FALSE
