SPECIFICATION LifecycleSpec
CONSTANTS
  Callers = {c1, c2}
  Nobody = Nobody
  Members <- OneIssue
  LifecycleRoutes <- MCRoutes
  Scripts <- MCScripts
  IssueRoutes <- IssueClosure
  ScriptSets <- Either
  StartStatuses <- EarlyStart
  MaxVerbs = 3
  MaxOutside = 1
  MaxFailures = 1
INVARIANTS
  FloorKept
  CompletedMeansMerged
  AbandonedLeavesNothing
  LiveSessionHasTrees
SYMMETRY CallerSymmetry
CHECK_DEADLOCK FALSE
