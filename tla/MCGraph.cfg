\* Three vertex ids, so that one can be removed between two others; three
\* edges at a time, so that parallel edges of different weights occur.
CONSTANTS
  Weights = {1, 2}
  MaxVertices = 3
  MaxHalfEdges = 6
  EdgeInputs <- Loopless
SPECIFICATION Spec
INVARIANTS
  TypeOK
  Closed
  Mirror
  EdgesCounted
PROPERTIES
  IdsNeverReused
  ImplementsMultigraph
CHECK_DEADLOCK FALSE
