\* Two sessions that share an issue.  A project with nothing left to do may stop,
\* and so may one whose bounds are used up.
SPECIFICATION Spec
CONSTANTS
  Sessions = {"s1", "s2"}
  Issues = {"k1", "k2"}
  Members <- Sharing
  Keyed = {"s1"}
  Routes <- MCRoutes
  IssueRoutes <- IssueClosure
  Starts <- Together
  MaxMoves = 2
  MaxEdits = 1
  MaxCalls = 2
INVARIANTS
  OthersDoNotDecide
  CompletedHasRecords
CHECK_DEADLOCK FALSE
