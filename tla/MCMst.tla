------------------------------- MODULE MCMst -------------------------------
EXTENDS MSTMetrics

EdgesBetween(ends, weights) == [ends : ends, weight : weights]

\* A six bit int: 31 is INT_MAX, and what a path of three edges makes the
\* loops add up may overflow.  Any two vertices have an edge, some a lighter
\* one or one of an extreme weight, and there is a loop.
SomeEdges ==
  EdgesBetween({{u, v} : u, v \in 0 .. 3} \ {{v} : v \in 0 .. 3}, {3})
    \cup EdgesBetween({{0, 2}, {1, 2}, {1, 3}}, {1})
    \cup EdgesBetween({{0, 1}}, {-1, 31})
    \cup EdgesBetween({{0}}, {1})
=============================================================================
