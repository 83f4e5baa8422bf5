\* One page, one entity or channel of process events.
CONSTANTS
  tab = tab
  file = file
  Pages <- MCPages
  Keys <- MCKeys
  MaxChanges = 2
  MaxMounts = 2
  MaxBreaks = 1
SPECIFICATION ViewSpec
INVARIANTS
  StaleIsOnItsWay
PROPERTIES
  CatchesUp
CHECK_DEADLOCK FALSE
