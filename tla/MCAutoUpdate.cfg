SPECIFICATION FairSpec
CONSTANTS
  work = work
  first = first
  second = second
  Boot = Boot
  None = None
  Deleted = Deleted
  Profiles <- OneProfile
  Callers <- TwoCallers
  Keys <- TwoKeys
  Intervals <- TwoIntervals
  Offered <- AllChoices
INVARIANTS
  QueueServesOneUpdate
  ScheduleFollowsOptions
PROPERTIES
  KeepsUpdating
CHECK_DEADLOCK FALSE
