----------------------------- MODULE MSTMetrics -----------------------------
(***************************************************************************)
(* common/MSTMetrics.cpp and Server::getMSTString on what findMST() has    *)
(* returned, as the stages of the pipeline and the handler call them.      *)
(* Distances are ints: a sum that overflows wraps around (it is undefined  *)
(* behaviour, and what the build does).                                    *)
(***************************************************************************)
EXTENDS MSTFactory

Width == 2 * (IntMax + 1)
Plus(x, y) == ((x + y + IntMax + 1) % Width) - (IntMax + 1)

getTotalWeight == FoldLeft(LAMBDA total, e : Plus(total, e.weight), 0, mst)

-----------------------------------------------------------------------------
(* The matrix, with IntMax where no path is known; Floyd-Warshall on it, in *)
(* place: its loops over k, i, j as one loop over their combinations.       *)

Matrix(size) ==
  [p \in (0 .. size - 1) \X (0 .. size - 1) |->
     IF \E e \in Found : e.ends = {p[1], p[2]}
     THEN (CHOOSE e \in Found : e.ends = {p[1], p[2]}).weight
     ELSE IntMax]

\* A variant of Relaxed that does not ask whether a path to k is known.
RelaxedUnchecked(dist, k, i, j) ==
  IF /\ dist[<<k, j>>] # IntMax
     /\ Plus(dist[<<i, k>>], dist[<<k, j>>]) < dist[<<i, j>>]
  THEN [dist EXCEPT ![<<i, j>>] = Plus(dist[<<i, k>>], dist[<<k, j>>])]
  ELSE dist

Relaxed(dist, k, i, j) ==
  IF /\ dist[<<i, k>>] # IntMax
     /\ dist[<<k, j>>] # IntMax
     /\ Plus(dist[<<i, k>>], dist[<<k, j>>]) < dist[<<i, j>>]
  THEN [dist EXCEPT ![<<i, j>>] = Plus(dist[<<i, k>>], dist[<<k, j>>])]
  ELSE dist

Distances(size) ==
  LET after[t \in 0 .. size * size * size] ==
        IF t = 0 THEN Matrix(size)
        ELSE Relaxed(after[t - 1], (t - 1) \div (size * size),
                     ((t - 1) \div size) % size, (t - 1) % size)
  IN  after[size * size * size]

Pairs(size) == {p \in (0 .. size - 1) \X (0 .. size - 1) : p[1] < p[2]}

\* The pairs with a finite distance, and their distances.
Finite(dist, size) == {p \in Pairs(size) : dist[p] # IntMax}

getLongestDistance ==
  LET dist == Distances(numVertices)
  IN  Max({0} \cup {dist[p] : p \in Finite(dist, numVertices)})

SumOf(f, S) == MapThenSumSet(LAMBDA x : f[x], S)

\* The average is the first over the second.
getAverageDistance ==
  LET dist == Distances(numVertices)
      valid == Finite(dist, numVertices)
  IN  <<SumOf(dist, valid), Cardinality(valid)>>

\* Its matrix has one row more than the tree has edges: the vertices of the
\* tree are indices of it, or it is accessed outside its bounds.
ShortestInBounds == Covered(Found) \subseteq 0 .. Len(mst)

getShortestDistance ==
  LET size == Len(mst) + 1
      dist == Distances(size)
  IN  Min({IntMax} \cup {dist[p] : p \in Finite(dist, size)})

\* Server::getMSTString: the lines reached from the first edge.
Printed ==
  {e \in Found : e.ends \cap UNION {Reach(Found, u) : u \in mst[1].ends} # {}}

-----------------------------------------------------------------------------
\* The pipeline and metrics_mst calculate metrics of Kruskal's tree only, if
\* it is not empty (Server.cpp:393, Pipeline.cpp:61).
Measured == Done("kruskal") /\ mst # <<>>

\* Weights as a distance has them, and no sum the loops make overflows.
Tame(distance) ==
  /\ \A e \in Found : e.weight >= 0
  /\ \A p \in DOMAIN distance : 4 * distance[p] <= IntMax

GraphConnected ==
  vertices = Indices /\ \A v \in vertices : Connected(edges, 0, v)

\* The metrics are those of the tree ("the total weight of the MST",
\* "the longest distance", "the average distance between all pairs of
\* vertices", "the shortest distance between any two vertices",
\* MSTMetrics.cpp:16,33,94,149), where distances are tame: the longest and the
\* average always, the total where it fits an int, the shortest where the
\* vertices of the tree are indices of its matrix, as they are on a connected
\* graph without gaps.
MetricsOfTree ==
  LET distance == TreeDistances(Found)
      all == {distance[p] : p \in DOMAIN distance}
  IN  Measured /\ Tame(distance) =>
        /\ TotalOf(Found) <= IntMax => getTotalWeight = TotalOf(Found)
        /\ getLongestDistance = Max(all)
        /\ getAverageDistance =
             <<SumOf(distance, DOMAIN distance), Cardinality(DOMAIN distance)>>
        /\ GraphConnected => ShortestInBounds
        /\ ShortestInBounds => getShortestDistance = Min(all)

\* calculate_mst and metrics_mst show the whole tree: there is no other
\* component if the graph is connected (Server.cpp:536-539).
TreePrinted ==
  status = "done" /\ mst # <<>> /\ GraphConnected => Printed = Found
=============================================================================
