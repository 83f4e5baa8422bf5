SPECIFICATION FairSpec
CONSTANTS
  Callers = {c1, c2}
  NoCaller = NoCaller
  Statuses <- MCStatuses
  Routes <- MCRoutes
  Effects <- MCEffects
  CheckedRoutes <- MCChecked
  PromptedRoutes <- MCPrompted
  ClosingStatuses <- MCClosing
  StartStatuses <- MCStart
  Targets <- MCTargets
  ResetFlags <- NoReset
  MaxRequests = 3
  MaxCrashes = 1
  MaxFaults = 1
  MaxChecks = 1
INVARIANTS
  MovesFormOneChain
  LogTellsMovesInOrder
  EveryLostEventHasACause
  VisitNumberReusedOnlyAfterLoss
  AnswersAgreeWithTheFile
  DriftBlamesOnlyDoubleLoss
  ScriptOverlapNeedsCrash
  ClosedWhenTerminal
PROPERTIES
  EveryRequestEnds
  ImplementsLedger
CHECK_DEADLOCK FALSE
