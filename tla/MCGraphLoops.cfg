\* add_edge may be asked to connect a vertex with itself.
CONSTANTS
  Weights = {1}
  MaxVertices = 2
  MaxHalfEdges = 4
  EdgeInputs <- WithLoops
SPECIFICATION Spec
INVARIANTS
  Mirror
CHECK_DEADLOCK FALSE
