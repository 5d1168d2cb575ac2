\* Every graph on some of four vertex ids with at most four edges.  The
\* algorithms end.
CONSTANTS
  MaxVertices = 4
  IntMax = 31
  EdgeInputs <- SomeEdges
  MaxEdges = 4
SPECIFICATION Spec
INVARIANTS
  TypeOK
  KruskalMinimal
  PrimMinimal
  FaultOnlyWithGaps
  MetricsOfTree
  TreePrinted
CHECK_DEADLOCK FALSE
