SPECIFICATION FairModifySpec
CONSTANTS
  append = append
  patch = patch
  update = update
  restore = restore
  Modifiers <- MCModifiers
  Editors <- OneWriter
INVARIANTS
  SleepersHaveAWaker
PROPERTIES
  ModifyKeepsOthers
  EveryModifierReturns
CHECK_DEADLOCK FALSE
