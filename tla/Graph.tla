------------------------------- MODULE Graph -------------------------------
(***************************************************************************)
(* common/Graph.cpp: an undirected weighted graph as adjacency lists, every *)
(* edge stored as two half-edges, one in the list of each end.  One action *)
(* per operation; GraphManager runs each of them under its mutex.  The     *)
(* source of a half-edge is the vertex whose list holds it.                *)
(*                                                                         *)
(* An operation that returns false changes nothing, nor does addEdge when  *)
(* it throws: neither is a step here.                                      *)
(***************************************************************************)
EXTENDS Naturals, Integers, Sequences, FiniteSets, SequencesExt

CONSTANTS
  Weights,       \* edge weights
  MaxVertices,   \* bound on the vertices ever added
  MaxHalfEdges,  \* bound on the half-edges stored at a time
  EdgeInputs     \* the pairs of vertices add_edge is asked to connect

Ids == 0 .. MaxVertices - 1

ASSUME InputsAssumption == MaxVertices \in Nat /\ EdgeInputs \subseteq Ids \X Ids

VARIABLES
  adjacencyList, \* from the existing vertices to their half-edges
  nextVertexId

vars == <<adjacencyList, nextVertexId>>

HalfEdges == [destination : Ids, weight : Weights]
HalfEdge(v, w) == [destination |-> v, weight |-> w]

Vertices == DOMAIN adjacencyList

Entries ==
  FoldFunction(LAMBDA q, n : Len(q) + n, 0, adjacencyList)

-----------------------------------------------------------------------------
(* std::remove_if on the half-edges to d: those kept move to the front, in  *)
(* order; the positions after them keep what they held.  std::find_if.      *)

\* The elements of q that are in S, in their order.
Select(q, S) ==
  LET kept[i \in 0 .. Len(q)] ==
        IF i = 0 THEN <<>>
        ELSE IF q[i] \in S THEN Append(kept[i - 1], q[i])
        ELSE kept[i - 1]
  IN  kept[Len(q)]

HalfEdgesTo(d) == {e \in HalfEdges : e.destination = d}

Keep(q, d) == Select(q, HalfEdges \ HalfEdgesTo(d))

RemoveIf(q, d) ==
  LET kept == Keep(q, d)
  IN  [i \in DOMAIN q |-> IF i <= Len(kept) THEN kept[i] ELSE q[i]]

HasEdgeTo(q, d) == \E i \in DOMAIN q : q[i].destination = d

FirstTo(q, d) ==
  CHOOSE i \in DOMAIN q :
    q[i].destination = d /\ \A k \in 1 .. i - 1 : q[k].destination # d

-----------------------------------------------------------------------------
Init ==
  /\ adjacencyList = [v \in {} |-> <<>>]
  /\ nextVertexId = 0

\* A variant of AddVertex that numbers vertices by the current size.
AddVertexBySize ==
  /\ nextVertexId < MaxVertices
  /\ adjacencyList' = [v \in Vertices \cup {Cardinality(Vertices)} |->
                         IF v = Cardinality(Vertices) THEN <<>> ELSE adjacencyList[v]]
  /\ nextVertexId' = nextVertexId + 1

\* A variant of AddVertex that does not advance the counter.
AddVertexNoCount ==
  /\ nextVertexId < MaxVertices
  /\ adjacencyList' = [v \in Vertices \cup {nextVertexId} |->
                         IF v = nextVertexId THEN <<>> ELSE adjacencyList[v]]
  /\ UNCHANGED nextVertexId

AddVertex ==
  /\ nextVertexId < MaxVertices
  /\ adjacencyList' = [v \in Vertices \cup {nextVertexId} |->
                         IF v = nextVertexId THEN <<>> ELSE adjacencyList[v]]
  /\ nextVertexId' = nextVertexId + 1

\* The second push_back sees the first: a self-loop is stored twice.
AddEdge(u, v, w) ==
  /\ {u, v} \subseteq Vertices
  /\ Entries + 2 <= MaxHalfEdges
  /\ adjacencyList' =
       [[adjacencyList EXCEPT ![u] = Append(@, HalfEdge(v, w))]
          EXCEPT ![v] = Append(@, HalfEdge(u, w))]
  /\ UNCHANGED nextVertexId

\* A variant of RemoveEdge that forgets the list of the second end.
RemoveEdgeOneSide(u, v) ==
  /\ {u, v} \subseteq Vertices
  /\ adjacencyList' = [adjacencyList EXCEPT ![u] = Keep(@, v)]
  /\ UNCHANGED nextVertexId

\* Both remove_if calls run before the first erase.  For a self-loop they
\* and both erase calls work on the same vector: the second remove_if finds
\* loops again behind the half-edges the first one moved, and the second
\* erase sets the size to what it kept (libstdc++, where erase(first, end)
\* only resets the end of the vector).
RemoveEdge(u, v) ==
  /\ {u, v} \subseteq Vertices
  /\ adjacencyList' =
       IF u # v
       THEN [adjacencyList EXCEPT ![u] = Keep(@, v), ![v] = Keep(@, u)]
       ELSE [adjacencyList EXCEPT ![v] = Keep(RemoveIf(@, v), v)]
  /\ UNCHANGED nextVertexId

\* A variant of RemoveVertex that leaves the edges to the vertex behind.
RemoveVertexOnly(v) ==
  /\ v \in Vertices
  /\ adjacencyList' = [u \in Vertices \ {v} |-> adjacencyList[u]]
  /\ UNCHANGED nextVertexId

RemoveVertex(v) ==
  /\ v \in Vertices
  /\ adjacencyList' = [u \in Vertices \ {v} |-> Keep(adjacencyList[u], v)]
  /\ UNCHANGED nextVertexId

\* A variant of ChangeWeight that updates the last edge on the second side.
ChangeWeightLast(u, v, w) ==
  /\ {u, v} \subseteq Vertices
  /\ HasEdgeTo(adjacencyList[u], v)
  /\ HasEdgeTo(adjacencyList[v], u)
  /\ adjacencyList' =
       [adjacencyList EXCEPT
          ![u][FirstTo(adjacencyList[u], v)].weight = w,
          ![v][CHOOSE i \in DOMAIN adjacencyList[v] :
                 /\ adjacencyList[v][i].destination = u
                 /\ \A k \in i + 1 .. Len(adjacencyList[v]) :
                      adjacencyList[v][k].destination # u].weight = w]
  /\ UNCHANGED nextVertexId

\* The first half-edge on each side; no command of the server calls it.
ChangeWeight(u, v, w) ==
  /\ {u, v} \subseteq Vertices
  /\ HasEdgeTo(adjacencyList[u], v)
  /\ HasEdgeTo(adjacencyList[v], u)
  /\ adjacencyList' =
       [adjacencyList EXCEPT ![u][FirstTo(adjacencyList[u], v)].weight = w,
                             ![v][FirstTo(adjacencyList[v], u)].weight = w]
  /\ UNCHANGED nextVertexId

Next ==
  \/ AddVertex
  \/ \E e \in EdgeInputs, w \in Weights : AddEdge(e[1], e[2], w)
  \/ \E u, v \in Ids : RemoveEdge(u, v)
  \/ \E v \in Ids : RemoveVertex(v)
  \/ \E u, v \in Ids, w \in Weights : ChangeWeight(u, v, w)

Spec == Init /\ [][Next]_vars

-----------------------------------------------------------------------------
(* Queries. *)

GetEdges == Entries \div 2

-----------------------------------------------------------------------------
TypeOK ==
  /\ Vertices \subseteq 0 .. nextVertexId - 1
  /\ nextVertexId \in 0 .. MaxVertices
  /\ adjacencyList \in [Vertices -> Seq(HalfEdges)]

\* No list names a vertex that does not exist, whatever was removed in
\* between (Graph.cpp:77-100); readers index by the destination.
Closed ==
  \A v \in Vertices : \A i \in DOMAIN adjacencyList[v] :
    adjacencyList[v][i].destination \in Vertices

WeightsTo(q, d) ==
  LET to == Select(q, HalfEdgesTo(d))
  IN  [i \in DOMAIN to |-> to[i].weight]

\* The graph is undirected: two vertices agree on the weights of the edges
\* between them and on the order of parallel ones, which is what lets
\* changeWeight update the first of each list ("an undirected weighted
\* graph", Graph.cpp:1).
Mirror ==
  \A u, v \in Vertices :
    u # v => WeightsTo(adjacencyList[u], v) = WeightsTo(adjacencyList[v], u)

\* The id of a removed vertex is never given again, so that an edge command
\* in flight cannot hit a new vertex (Graph.cpp:36).
IdsNeverReused ==
  [][\A v \in 0 .. nextVertexId - 1 : v \notin Vertices => v \notin Vertices']_vars

-----------------------------------------------------------------------------
(* The edges as an undirected graph sees them. *)

CountTo(v, d, w) ==
  IF v \in Vertices
  THEN Cardinality({i \in DOMAIN adjacencyList[v] :
                      adjacencyList[v][i] = HalfEdge(d, w)})
  ELSE 0

\* A loop is two half-edges of one list; another edge is read at one end.
Multiplicity(k) ==
  LET u == CHOOSE x \in k.ends : \A y \in k.ends : x <= y
      v == CHOOSE x \in k.ends : \A y \in k.ends : x >= y
  IN  IF u = v THEN CountTo(u, u, k.weight) \div 2 ELSE CountTo(u, v, k.weight)

Kinds == [ends : {{u, v} : u, v \in Ids}, weight : Weights]

Abstract == INSTANCE UndirectedMultigraph WITH
  vertices <- Vertices, edges <- [k \in Kinds |-> Multiplicity(k)]

\* Every operation is the operation of an undirected multigraph.
ImplementsMultigraph == Abstract!Spec

\* getEdges() is the number of edges ("Each edge is counted twice",
\* Graph.cpp:169).
EdgesCounted == GetEdges = FoldSet(LAMBDA k, n : Multiplicity(k) + n, 0, Kinds)
=============================================================================
