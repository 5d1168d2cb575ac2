----------------------------- MODULE KruskalMST -----------------------------
(***************************************************************************)
(* common/KruskalMST.cpp: Kruskal's algorithm on a graph that nobody       *)
(* changes meanwhile, one action per iteration of its main loop.           *)
(*                                                                         *)
(* An edge {u, v} is in allEdges as (u, v, w) and as (v, u, w), once per   *)
(* end below numVertices; std::sort leaves edges of one weight, and so the *)
(* two directions, in any order.  Here the edge is considered once, in     *)
(* either direction: the second time both ends have the same root, and     *)
(* find() only shortens paths.                                             *)
(***************************************************************************)
EXTENDS Integers, Sequences, FiniteSets

CONSTANTS
  MaxVertices,   \* bound on the vertex ids
  Weights        \* edge weights

Ids == 0 .. MaxVertices - 1
Edges == [ends : {{u, v} : u, v \in Ids}, weight : Weights]

VARIABLES
  vertices, edges, \* the graph
  status,          \* running, done, or outOfBounds: an array is indexed
                   \*   outside its bounds, which has no defined outcome
  mst,             \* the edges found
  remaining,       \* allEdges from the loop's position on
  parent           \* the disjoint sets

graph == <<vertices, edges>>
vars == <<graph, status, mst, remaining, parent>>

numVertices == Cardinality(vertices)

\* A variant of Indices with an index too few.
IndicesShort == 0 .. numVertices - 2

Indices == 0 .. numVertices - 1

\* The edges that getAdjacentEdges(0), ..., (numVertices - 1) list.
Collected == {e \in edges : e.ends \cap Indices # {}}

\* find(v): the vertices on the way to the root, and the root.
Chain(p, v) ==
  LET chain[k \in 0 .. numVertices] == IF k = 0 THEN v ELSE p[chain[k - 1]]
  IN  chain

Root(p, v) == Chain(p, v)[numVertices]

Compressed(p, v) ==
  LET way == {Chain(p, v)[k] : k \in 0 .. numVertices}
  IN  [x \in Indices |-> IF x \in way THEN Root(p, v) ELSE p[x]]

Lightest(E) == {e \in E : \A f \in E : e.weight <= f.weight}

-----------------------------------------------------------------------------
Init ==
  /\ status = IF Collected = {} THEN "done" ELSE "running"
  /\ mst = <<>>
  /\ remaining = Collected
  /\ parent = [i \in Indices |-> i]

\* A variant of Finished that stops one edge early.
FinishedEarly == remaining' = {} \/ Len(mst') = numVertices - 2

Finished == remaining' = {} \/ Len(mst') = numVertices - 1

\* A variant of Consider that takes the edges in no order.
ConsiderUnsorted(e) ==
  /\ status = "running"
  /\ e \in remaining
  /\ e.ends \subseteq Indices
  /\ remaining' = remaining \ {e}
  /\ \E s, d \in e.ends :
       /\ e.ends = {s, d}
       /\ LET q == Compressed(Compressed(parent, s), d)
          IN  IF q[s] # q[d]
              THEN mst' = Append(mst, e) /\ parent' = [q EXCEPT ![q[s]] = q[d]]
              ELSE UNCHANGED mst /\ parent' = q
  /\ status' = IF Finished THEN "done" ELSE "running"
  /\ UNCHANGED graph

\* The edge from s to d joins two sets, or is dropped.
Consider(e) ==
  /\ status = "running"
  /\ e \in Lightest(remaining)
  /\ e.ends \subseteq Indices
  /\ remaining' = remaining \ {e}
  /\ \E s, d \in e.ends :
       /\ e.ends = {s, d}
       /\ LET q == Compressed(Compressed(parent, s), d)
          IN  IF q[s] # q[d]
              THEN mst' = Append(mst, e) /\ parent' = [q EXCEPT ![q[s]] = q[d]]
              ELSE UNCHANGED mst /\ parent' = q
  /\ status' = IF Finished THEN "done" ELSE "running"
  /\ UNCHANGED graph

\* One end is no index of parent.
ConsiderOutside(e) ==
  /\ status = "running"
  /\ e \in Lightest(remaining)
  /\ ~(e.ends \subseteq Indices)
  /\ status' = "outOfBounds"
  /\ UNCHANGED <<graph, mst, remaining, parent>>

Next == \E e \in edges : Consider(e) \/ ConsiderOutside(e)

-----------------------------------------------------------------------------
TypeOK ==
  /\ status \in {"running", "done", "outOfBounds"}
  /\ mst \in Seq(edges)
  /\ remaining \in SUBSET Collected
  /\ parent \in [Indices -> Indices]
=============================================================================
