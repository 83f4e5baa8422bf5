SPECIFICATION Spec
CONSTANTS
  Callers = {c1, c2}
  Repos <- MCRepos
  Routes <- MCRoutes
  Targets <- MCTargets
  MaxVerbs = 5
  MaxFaults = 1
  MaxAgents = 3
INVARIANTS
  FreshAgentOnce
  AgentsAreRecorded
  QueuedIsSpawnable
  
SYMMETRY CallerSymmetry
CHECK_DEADLOCK FALSE
