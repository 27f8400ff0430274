SPECIFICATION FairSpec
CONSTANTS
  mixed = mixed
  pac = pac
  Targets <- TwoTargets
  Wanted <- Settings
  FailuresBeforeStopping = 2
  IsMacOS = TRUE
  MaxJobs = 3
INVARIANTS
  GuardsAgree
  NoStaleTarget
PROPERTIES
  GuardsRestore
  JobsFinish
CHECK_DEADLOCK FALSE
