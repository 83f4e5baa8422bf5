\* Two lives of the daemon, which may overlap, and the pull requests of one session.
CONSTANTS
  s1 = s1
  Sessions = {s1}
  Routes <- SessionRoutes
  Targets = {"in_review"}
  MaxStarts = 2
  MaxFaults = 1
SPECIFICATION Spec
INVARIANTS
  SoleDaemon
  CommentsPerLife
  

  
CHECK_DEADLOCK FALSE
