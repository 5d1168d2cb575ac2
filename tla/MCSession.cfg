\* Two clients; the first asks for metrics or removes a vertex, three times,
\* while the other uses the graph once.  The clients stop asking.
CONSTANTS
  c1 = c1
  c2 = c2
  Clients = {c1, c2}
  MaxVertices = 4
  Requests <- SomeRequests
  MaxRequests <- SomeBounds
  StartGraphs <- SomeGraphs
  MaxPieces <- SomePieces
SPECIFICATION Spec
INVARIANTS
  TypeOK
  InStep
  BrokenPipeOutOfStep
PROPERTIES
  WaitingEnds
CHECK_DEADLOCK FALSE
