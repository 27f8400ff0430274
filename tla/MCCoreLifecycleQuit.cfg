SPECIFICATION Spec
CONSTANTS
  c1 = c1
  c2 = c2
  poll = poll
  Callers <- TwoCallers
  Readers <- OneReader
  Scenarios <- Quits
  Monitor = monitor
INVARIANT
  QuitsOnlyStopped
CHECK_DEADLOCK FALSE
