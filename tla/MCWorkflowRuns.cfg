CONSTANTS
  e1 = e1
  e2 = e2
  e3 = e3
  p1 = p1
  f1 = f1
  s1 = s1
  k1 = k1
  k2 = k2
  q1 = q1
  NodeCount = 3
  Edges <- Chain
  DataEdges <- Chain
  MaxAttempts <- Attempts
  Inputs = {i1}
  Results = {r1, r2}
  CommandIds <- Commands
  None = none
  Calls = {x1, x2}
SPECIFICATION Spec
SYMMETRY Symmetry
CHECK_DEADLOCK FALSE
INVARIANTS
  RunConsistent
PROPERTIES
  CancellationKept
  ResultIsFinal
