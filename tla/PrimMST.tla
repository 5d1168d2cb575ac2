------------------------------ MODULE PrimMST ------------------------------
(***************************************************************************)
(* common/PrimMST.cpp: Prim's algorithm on a graph that nobody changes     *)
(* meanwhile, one action per iteration of its main loop.                   *)
(*                                                                         *)
(* Of several edges between two vertices only the lightest matters: what   *)
(* the others push on the queue is popped after it and skipped.  It stays  *)
(* out of the queue here.                                                  *)
(***************************************************************************)
EXTENDS Integers, Sequences, FiniteSets

CONSTANTS
  MaxVertices,   \* bound on the vertex ids
  Weights,       \* edge weights
  IntMax         \* std::numeric_limits<int>::max()

Ids == 0 .. MaxVertices - 1
Edges == [ends : {{u, v} : u, v \in Ids}, weight : Weights]

VARIABLES
  vertices, edges, \* the graph
  status,          \* running, done, or outOfBounds as in KruskalMST
  mst,             \* the edges found
  visited,
  key,             \* weight of the edge that would connect each vertex
  parent,          \* its other end, NoParent without one
  pq               \* the priority queue of <<key, vertex>>; no pair is ever
                   \*   pushed twice, since the key of a vertex only falls

graph == <<vertices, edges>>
vars == <<graph, status, mst, visited, key, parent, pq>>

n == Cardinality(vertices)
Indices == 0 .. n - 1
NoParent == -1
startVertex == 0

Neighbors(u) == {v \in Ids : \E e \in edges : e.ends = {u, v}}

WeightBetween(u, v) ==
  LET between == {e.weight : e \in {f \in edges : f.ends = {u, v}}}
  IN  CHOOSE w \in between : \A x \in between : w <= x

Before(p, q) == p[1] < q[1] \/ (p[1] = q[1] /\ p[2] <= q[2])
Top == CHOOSE p \in pq : \A q \in pq : Before(p, q)

-----------------------------------------------------------------------------
Init ==
  /\ status = IF n = 0 THEN "done" ELSE "running"
  /\ mst = <<>>
  /\ visited = {}
  /\ key = [v \in Indices |-> IF v = startVertex THEN 0 ELSE IntMax]
  /\ parent = [v \in Indices |-> NoParent]
  /\ pq = IF n = 0 THEN {} ELSE {<<0, startVertex>>}

Over == pq' = {}

\* The vertex has been visited under a smaller key.
Skip ==
  /\ status = "running"
  /\ Top[2] \in visited
  /\ pq' = pq \ {Top}
  /\ status' = IF Over THEN "done" ELSE "running"
  /\ UNCHANGED <<graph, mst, visited, key, parent>>

\* A variant of MstWith that takes the start for a vertex like the others.
MstWithStart(u) == Append(mst, [ends |-> {parent[u], u}, weight |-> key[u]])

\* The edge that reached u joins the tree, if u is not the start.
MstWith(u) ==
  IF parent[u] = NoParent THEN mst
  ELSE Append(mst, [ends |-> {parent[u], u}, weight |-> key[u]])

\* A variant of Visit that adds up the weights along the way from the start.
VisitShortestPath ==
  LET u == Top[2]
      closer == {v \in Neighbors(u) \ (visited \cup {u}) :
                   key[u] + WeightBetween(u, v) < key[v]}
      keys == [v \in Indices |-> IF v \in closer THEN key[u] + WeightBetween(u, v)
                                 ELSE key[v]]
  IN  /\ status = "running"
      /\ u \notin visited
      /\ Neighbors(u) \subseteq Indices
      /\ visited' = visited \cup {u}
      /\ mst' = IF parent[u] = NoParent THEN mst
                ELSE Append(mst, [ends |-> {parent[u], u},
                                  weight |-> WeightBetween(parent[u], u)])
      /\ key' = keys
      /\ parent' = [v \in Indices |-> IF v \in closer THEN u ELSE parent[v]]
      /\ pq' = (pq \ {Top}) \cup {<<keys[v], v>> : v \in closer}
      /\ status' = IF Over THEN "done" ELSE "running"
      /\ UNCHANGED graph

Visit ==
  LET u == Top[2]
      closer == {v \in Neighbors(u) \ (visited \cup {u}) :
                   WeightBetween(u, v) < key[v]}
      keys == [v \in Indices |-> IF v \in closer THEN WeightBetween(u, v)
                                 ELSE key[v]]
  IN  /\ status = "running"
      /\ u \notin visited
      /\ Neighbors(u) \subseteq Indices
      /\ visited' = visited \cup {u}
      /\ mst' = MstWith(u)
      /\ key' = keys
      /\ parent' = [v \in Indices |-> IF v \in closer THEN u ELSE parent[v]]
      /\ pq' = (pq \ {Top}) \cup {<<keys[v], v>> : v \in closer}
      /\ status' = IF Over THEN "done" ELSE "running"
      /\ UNCHANGED graph

\* A neighbour is no index of visited.
VisitOutside ==
  /\ status = "running"
  /\ Top[2] \notin visited
  /\ ~(Neighbors(Top[2]) \subseteq Indices)
  /\ status' = "outOfBounds"
  /\ UNCHANGED <<graph, mst, visited, key, parent, pq>>

Next == Skip \/ Visit \/ VisitOutside

-----------------------------------------------------------------------------
TypeOK ==
  /\ status \in {"running", "done", "outOfBounds"}
  /\ mst \in Seq(edges)
  /\ visited \in SUBSET Indices
  /\ key \in [Indices -> Int]
  /\ parent \in [Indices -> Indices \cup {NoParent}]
  /\ pq \in SUBSET (Int \X Indices)
=============================================================================
