------------------------ MODULE UndirectedMultigraph ------------------------
(***************************************************************************)
(* What common/Graph promises: an undirected weighted graph, possibly with *)
(* parallel edges, as a set of vertices and a number of edges of each kind *)
(* (the two ends and a weight).                                            *)
(***************************************************************************)
EXTENDS Naturals

CONSTANTS
  Ids,        \* vertex identifiers
  Weights     \* edge weights

VARIABLES vertices, edges

gvars == <<vertices, edges>>

Ends == {{u, v} : u, v \in Ids}
Kinds == [ends : Ends, weight : Weights]

Init ==
  /\ vertices = {}
  /\ edges = [k \in Kinds |-> 0]

AddVertex(v) ==
  /\ v \notin vertices
  /\ vertices' = vertices \cup {v}
  /\ UNCHANGED edges

AddEdge(u, v, w) ==
  /\ {u, v} \subseteq vertices
  /\ edges' = [edges EXCEPT ![[ends |-> {u, v}, weight |-> w]] = @ + 1]
  /\ UNCHANGED vertices

RemoveEdge(u, v) ==
  /\ {u, v} \subseteq vertices
  /\ edges' = [k \in Kinds |-> IF k.ends = {u, v} THEN 0 ELSE edges[k]]
  /\ UNCHANGED vertices

RemoveVertex(v) ==
  /\ v \in vertices
  /\ vertices' = vertices \ {v}
  /\ edges' = [k \in Kinds |-> IF v \in k.ends THEN 0 ELSE edges[k]]

\* One of the edges between u and v gets the new weight.
ChangeWeight(u, v, old, new) ==
  /\ edges[[ends |-> {u, v}, weight |-> old]] > 0
  /\ old # new
  /\ edges' = [edges EXCEPT ![[ends |-> {u, v}, weight |-> old]] = @ - 1,
                            ![[ends |-> {u, v}, weight |-> new]] = @ + 1]
  /\ UNCHANGED vertices

Next ==
  \/ \E v \in Ids : AddVertex(v) \/ RemoveVertex(v)
  \/ \E u, v \in Ids : RemoveEdge(u, v)
  \/ \E u, v \in Ids, w \in Weights : AddEdge(u, v, w)
  \/ \E u, v \in Ids, old, new \in Weights : ChangeWeight(u, v, old, new)

Spec == Init /\ [][Next]_gvars
=============================================================================
