----------------------------- MODULE MSTFactory -----------------------------
(***************************************************************************)
(* A call of findMST() on the algorithm that common/MSTFactory.cpp creates *)
(* for its name, on any graph that the commands can build and nobody       *)
(* changes meanwhile; and what the callers get.                            *)
(***************************************************************************)
EXTENDS SpanningForest, Sequences, SequencesExt

CONSTANTS
  MaxVertices,   \* bound on the vertex ids
  IntMax,        \* std::numeric_limits<int>::max()
  EdgeInputs,    \* the edges a graph may have
  MaxEdges       \* bound on their number

Weights == {e.weight : e \in EdgeInputs}

ASSUME EdgeInputsAssumption ==
  /\ MaxVertices \in Nat /\ IntMax \in Nat \ {0} /\ MaxEdges \in Nat
  /\ EdgeInputs \subseteq [ends : {{u, v} : u, v \in 0 .. MaxVertices - 1},
                           weight : -(IntMax + 1) .. IntMax]

VARIABLES
  vertices, edges, \* the graph
  algorithm,       \* the name: kruskal or prim
  status, mst,     \* as in KruskalMST and PrimMST
  remaining, sets,           \* KruskalMST's allEdges and parent
  visited, key, parent, pq   \* PrimMST's

kruskalVars == <<remaining, sets>>
primVars == <<visited, key, parent, pq>>
vars == <<vertices, edges, algorithm, status, mst, kruskalVars, primVars>>

Kruskal == INSTANCE KruskalMST WITH parent <- sets
Prim == INSTANCE PrimMST

EdgesOn(V) == {e \in EdgeInputs : e.ends \subseteq V}

\* The sets of at most MaxEdges elements of E.
EdgeSets(E) == {{}} \cup {Range(f) : f \in [1 .. MaxEdges -> E]}

-----------------------------------------------------------------------------
Init ==
  /\ vertices \in SUBSET (0 .. MaxVertices - 1)
  /\ edges \in EdgeSets(EdgesOn(vertices))
  /\ \/ /\ algorithm = "kruskal"
        /\ Kruskal!Init
        /\ visited = {} /\ key = <<>> /\ parent = <<>> /\ pq = {}
     \/ /\ algorithm = "prim"
        /\ Prim!Init
        /\ remaining = {} /\ sets = <<>>

RunKruskal ==
  /\ algorithm = "kruskal"
  /\ Kruskal!Next
  /\ UNCHANGED <<algorithm, primVars>>

RunPrim ==
  /\ algorithm = "prim"
  /\ Prim!Next
  /\ UNCHANGED <<algorithm, kruskalVars>>

Next == RunKruskal \/ RunPrim
Spec == Init /\ [][Next]_vars

-----------------------------------------------------------------------------
numVertices == Cardinality(vertices)
Indices == 0 .. numVertices - 1

Found == {mst[k] : k \in DOMAIN mst}
Done(name) == algorithm = name /\ status = "done"

TypeOK ==
  /\ algorithm = "kruskal" => Kruskal!TypeOK
  /\ algorithm = "prim" => Prim!TypeOK

\* "Implements Kruskal's algorithm to find the Minimum Spanning Tree"
\* (KruskalMST.cpp:11): for whichever order std::sort leaves equal weights
\* in, the result is a minimum spanning forest of the edges between ids
\* below numVertices, and it is returned only if no edge leads out of them.
\* That is the whole graph as long as no vertex has been removed.
KruskalMinimal ==
  Done("kruskal") =>
    LET inside == {e \in edges : e.ends \subseteq Indices}
    IN  /\ Cardinality(Found) = Len(mst)
        /\ IsMinimumSpanningForest(Found, inside)
        /\ \A e \in edges \ inside : e.ends \cap Indices = {}

\* "Implements Prim's algorithm" (PrimMST.cpp:1): the result is a minimum
\* spanning tree of what vertex 0 reaches, over the edges whose weight is
\* not INT_MAX, which no key can improve on (PrimMST.cpp:65).
PrimMinimal ==
  Done("prim") =>
    LET usable == {e \in edges : e.weight # IntMax}
        around == {e \in usable : e.ends \cap Reach(usable, 0) # {}}
    IN  /\ Cardinality(Found) = Len(mst)
        /\ IsMinimumSpanningForest(Found, around)
        /\ Covered(around) \subseteq Indices

\* An array is indexed outside its bounds only where a vertex has been
\* removed below one that is left (KruskalMST.cpp:38, PrimMST.cpp:65).
FaultOnlyWithGaps == status = "outOfBounds" => vertices # Indices
=============================================================================
