SPECIFICATION LifecycleSpec
CONSTANTS
  Callers = {c1}
  Nobody = Nobody
  Members <- OneIssue
  LifecycleRoutes <- MCRoutes
  Scripts <- MCScripts
  IssueRoutes <- IssueClosure
  ScriptSets <- AsShipped
  StartStatuses <- InReview
  MaxVerbs = 1
  MaxOutside = 0
  MaxFailures = 0
PROPERTIES
  AbandonAlwaysAbandons
CHECK_DEADLOCK FALSE
