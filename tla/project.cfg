\* Two processes and four calls; one of them may be killed.
CONSTANTS
  p1 = p1
  p2 = p2
  Procs = {p1, p2}
  Nobody = Nobody
  Phases <- MCPhases
  PhaseRoutes <- MCPhaseRoutes
  IssueRoutes <- MCRoutes
  Fields = {"priority"}
  Numbers = {0, 1}
  MaxCount = 1
  MaxCalls = 4
  MaxCrashes = 1
SPECIFICATION Spec
INVARIANTS
  KeysHandedOutOnce
  PhaseWasAccepted
  SavesKeepEachOther
SYMMETRY Symmetry
CHECK_DEADLOCK FALSE
