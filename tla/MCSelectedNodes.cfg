SPECIFICATION FairSpec
CONSTANTS
  home = home
  work = work
  static = static
  remote = remote
  x = x
  y = y
  user = user
  None = None
  Absent = Absent
  Profiles <- TwoProfiles
  Groups <- TwoGroups
  Nodes <- TwoNodes
  Offers <- MCOffers
  Manual <- MCManual
  Providers <- MCProviders
  Recorded <- MCRecorded
  Users <- OneUser
  Choices <- MCChoices
  Delivered <- MCDelivered
  MaxGeneration = 3
  Rounds = 1
  MaxChanges = 1
INVARIANTS
  RestoredAgrees
PROPERTIES
  RepairsAreConfirmed
  ActivationsEnd
CHECK_DEADLOCK FALSE
