SPECIFICATION FairSpec
CONSTANTS
  c1 = c1
  c2 = c2
  c3 = c3
  home = home
  work = work
  None = None
  Profiles <- TwoProfiles
  Callers <- TwoCallers
  Requests <- AllRequests
INVARIANTS
  AcceptedRuntimeRuns
PROPERTIES
  EveryCommandReturns
  DeletionsMoveTheCore
CHECK_DEADLOCK FALSE
