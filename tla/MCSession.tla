----------------------------- MODULE MCSession -----------------------------
EXTENDS Session

CONSTANTS c1, c2

Plain(command) == [command |-> command, ends |-> {}]
Naming(command, ends) == [command |-> command, ends |-> ends]

\* One client may fall out of step, the other asks once.
SomeRequests ==
  (c1 :> {Plain("metrics_mst"), Naming("remove_vertex", {1}), Plain("empty")}) @@
  (c2 :> {Plain("calculate_mst"), Plain("add_vertex"), Naming("add_edge", {0, 2}), Naming("add_edge", {1, 2}), Naming("remove_edge", {0, 1})})

SomeBounds == (c1 :> 3) @@ (c2 :> 1)
\* Only the answer to remove_vertex may be long.
SomePieces == [k \in Commands |-> IF k = "remove_vertex" THEN 2 ELSE 1]

Between(ends) == [ends |-> ends, weight |-> 1]

\* A path of three vertices.
SomeGraphs ==
  {[vertices |-> 0 .. 2, edges |-> {Between({0, 1}), Between({1, 2})},
    nextVertexId |-> 3]}
=============================================================================
