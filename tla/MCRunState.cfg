SPECIFICATION FairSpec
CONSTANTS
  w1 = w1
  w2 = w2
  timeout = timeout
  Op = Op
  Startup = Startup
  Reasons <- MCReasons
  Waiters <- TwoWaiters
  MaxObservation = 6
INVARIANTS
  DecisionsAgree
PROPERTIES
  StaleReadingDiscarded
  SettledReturns
CHECK_DEADLOCK FALSE
