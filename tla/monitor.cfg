SPECIFICATION FairSpec
CONSTANTS
  Routes <- MCRoutes
  Closing <- MCClosing
  Elsewhere <- MCElsewhere
  Budget = 1
  PushLimit = 1
  IdleChoices = {1}
  ResumeAfter = 1
  MaxRuntime = 2
  LineKinds = {"spend", "push", "err", "poll", "complete"}
  MaxLines = 2
  MaxFaults = 1
INVARIANTS
  
  SleeperHasAWaker
  SurvivorsAreKnown
  OverrunSettledUnlessHit
PROPERTIES
  WokenForAReason
  RunnerEnds
CHECK_DEADLOCK FALSE
