SPECIFICATION FairSpec
CONSTANTS
  c1 = c1
  c2 = c2
  poll = poll
  Callers <- TwoCallers
  Readers <- OneReader
  Scenarios <- Instances
  Monitor = monitor
INVARIANTS
  NoCoreLeftAlone
PROPERTIES
  StopsClearTheProxy
  OnlyDeadSidecarsCleared
  RecoveriesEndLostSessions
  CommandsFinish
  ServiceLossIsNoticed
CHECK_DEADLOCK FALSE
