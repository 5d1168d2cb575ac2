--------------------------- MODULE SpanningForest ---------------------------
(***************************************************************************)
(* Reference definitions about finite undirected graphs with weighted      *)
(* edges: an edge is a record of its ends, a set of one or two vertices,   *)
(* and its weight.  E and F stand for sets of edges.                       *)
(***************************************************************************)
EXTENDS Integers, FiniteSets, FiniteSetsExt

Covered(E) == UNION {e.ends : e \in E}

\* The vertices that edges of E connect with v.
Reach(E, v) ==
  LET reach[k \in 0 .. Cardinality(E)] ==
        IF k = 0 THEN {v}
        ELSE reach[k - 1]
               \cup Covered({e \in E : e.ends \cap reach[k - 1] # {}})
  IN  reach[Cardinality(E)]

Connected(E, u, v) == v \in Reach(E, u)

\* Every edge is a bridge.
IsForest(F) ==
  \A e \in F : \A u \in e.ends : ~(e.ends \subseteq Reach(F \ {e}, u))

Spans(F, E) == \A e \in E \ F : \E u \in e.ends : e.ends \subseteq Reach(F, u)

TotalOf(F) == MapThenSumSet(LAMBDA e : e.weight, F)

IsSpanningForest(F, E) == F \subseteq E /\ IsForest(F) /\ Spans(F, E)

IsMinimumSpanningForest(F, E) ==
  /\ IsSpanningForest(F, E)
  /\ \A G \in SUBSET E :
       TotalOf(G) < TotalOf(F) => ~IsSpanningForest(G, E)

\* The pairs <<u, v>> with u < v that a forest connects, and their distance:
\* the edges that have them on different sides.
TreeDistances(F) ==
  LET side == [e \in F |-> Reach(F \ {e}, CHOOSE u \in e.ends : TRUE)]
  IN  [p \in {q \in Covered(F) \X Covered(F) :
                q[1] < q[2] /\ Connected(F, q[1], q[2])} |->
         TotalOf({e \in F : (p[1] \in side[e]) # (p[2] \in side[e])})]
=============================================================================
