SPECIFICATION FairSpec
CONSTANTS
  Routes <- MCRoutes
  Closing <- MCClosing
  Elsewhere <- MCElsewhere
  Budget = 1
  PushLimit = 1
  IdleChoices = {1}
  ResumeAfter = 3
  MaxRuntime = 4
  LineKinds = {"work", "poll"}
  MaxLines = 1
  MaxFaults = 0
PROPERTIES
  NeverFrozenForGood
CHECK_DEADLOCK FALSE
