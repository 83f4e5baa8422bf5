\* Two processes, two files, writes at any moment; everything is rebuilt from two
\* changes on.
CONSTANTS
  f1 = f1
  f2 = f2
  p1 = p1
  p2 = p2
  Procs = {p1, p2}
  Files <- MCFiles
  Contents <- MCContents
  MaxTime = 3
  MaxWrites = 2
  MaxCalls = 2
  _INCREMENTAL_BAILOUT = 2
SPECIFICATION Spec
INVARIANTS
  StaleIsVisible
  EnsuredMeansFresh
SYMMETRY Symmetry
CHECK_DEADLOCK FALSE
