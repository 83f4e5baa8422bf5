\* Two projects, one node of the workspace.
CONSTANTS
  p1 = p1
  p2 = p2
  n1 = n1
  Projects = {p1, p2}
  Nobody = Nobody
  Nodes = {n1}
  Fields = {"description", "source", "body"}
  Unread = {"body"}
  Reshaped = {"source"}
  MaxEdits = 2
  MaxCommands = 3
  MaxFaults = 1
SPECIFICATION Spec
INVARIANTS
  NothingLostUpstream
  NothingDroppedHere
  
SYMMETRY Symmetry
CHECK_DEADLOCK FALSE
