------------------------------ MODULE MSTProofs ------------------------------
(***************************************************************************)
(* Theorems about the algorithms of MSTFactory and what is made of their   *)
(* results, for graphs of any size.                                        *)
(*                                                                         *)
(* Either algorithm keeps a forest that can be extended to a minimum       *)
(* spanning forest: it adds an edge only if it is a lightest one out of a  *)
(* set of vertices out of which the forest does not lead.  What has to be  *)
(* shown of each is that its arrays and its queue find such an edge.       *)
(*                                                                         *)
(* The metrics are read from a matrix that Floyd-Warshall fills in place:  *)
(* what has to be shown is which of its entries each iteration settles.    *)
(***************************************************************************)
EXTENDS MSTMetrics, ForestProofs

\* The graph is finite, and its edges join its vertices.
GraphOK ==
  /\ IsFiniteSet(vertices)
  /\ edges \subseteq EdgeInputs /\ \A e \in edges : e.ends \subseteq vertices
  /\ Proper(edges)

LEMMA ProperSubset ==
  ASSUME NEW E, Proper(E), NEW F, F \subseteq E
  PROVE  Proper(F)
BY FS_Subset DEF Proper, HaveEnds, IntWeights

LEMMA SameNumbers ==
  /\ Kruskal!numVertices = numVertices /\ Kruskal!Indices = Indices
  /\ Prim!n = numVertices /\ Prim!Indices = Indices /\ Prim!NoParent = -1
BY DEF Kruskal!Indices, Kruskal!numVertices, Prim!Indices, Prim!n, Prim!NoParent, Indices,
   numVertices, Cardinality, Kruskal!Cardinality, Prim!Cardinality

LEMMA IndicesFinite ==
  ASSUME IsFiniteSet(vertices)
  PROVE  numVertices \in Nat /\ IsFiniteSet(Indices) /\ Cardinality(Indices) = numVertices
<1>1. numVertices \in Nat
  BY FS_CardinalityType DEF numVertices
<1>2. IsFiniteSet(0 .. numVertices - 1)
      /\ Cardinality(0 .. numVertices - 1) =
           IF 0 > numVertices - 1 THEN 0 ELSE (numVertices - 1) - 0 + 1
  BY <1>1, FS_Interval
<1> QED
  BY <1>1, <1>2 DEF Indices

LEMMA FoundWith ==
  ASSUME NEW e \in edges, mst \in Seq(edges), mst' = Append(mst, e)
  PROVE  Found' = Found \cup {e} /\ Len(mst') = Len(mst) + 1
<1>1. Len(mst) \in Nat /\ Len(mst') = Len(mst) + 1
      /\ \A i \in 1 .. Len(mst) : mst'[i] = mst[i]
      /\ mst'[Len(mst) + 1] = e
      /\ DOMAIN mst = 1 .. Len(mst) /\ DOMAIN mst' = 1 .. Len(mst) + 1
  BY AppendProperties, LenProperties
<1>2. Found' = {mst'[k] : k \in 1 .. Len(mst) + 1} /\ Found = {mst[k] : k \in 1 .. Len(mst)}
  BY <1>1 DEF Found
<1> QED
  BY <1>1, <1>2

-----------------------------------------------------------------------------
(* Disjoint sets.                                                           *)

\* Following p from any x of I ends in g[x], which p maps to itself.
RootMap(p, g, I) ==
  /\ p \in [I -> I] /\ g \in [I -> I]
  /\ \A x \in I : g[p[x]] = g[x] /\ p[g[x]] = g[x] /\ (p[x] = x => g[x] = x)
  /\ \A S \in SUBSET I : S # {} /\ (\A x \in S : p[x] \in S) => \E x \in S : p[x] = x

\* The equations of chain in Chain.
Chains(c, p, v, n) ==
  c = [k \in 0 .. n |-> IF k = 0 THEN v ELSE p[c[k - 1]]]

LEMMA ChainExists ==
  ASSUME NEW I, NEW p \in [I -> I], NEW v \in I, NEW n \in Nat
  PROVE  \E c : Chains(c, p, v, n)
<1> DEFINE step == [k \in 1 .. n |-> p]
<1>1. Steps(step, n, I)
  BY DEF Steps
<1>2. \A k \in 1 .. n : step[k] = p
  OBVIOUS
<1> HIDE DEF step
<1>3. PICK c : c \in [0 .. n -> I] /\ Iterates(c, step, n, v)
  BY <1>1, Recursion
<1>4. ASSUME NEW k \in 0 .. n PROVE c[k] = IF k = 0 THEN v ELSE p[c[k - 1]]
  <2>1. CASE k = 0
    BY <1>3, <2>1 DEF Iterates
  <2>2. CASE k # 0
    <3>1. k \in 1 .. n
      BY <2>2
    <3> QED
      BY <1>2, <1>3, <2>2, <3>1 DEF Iterates
  <2> QED
    BY <2>1, <2>2
<1>5. c = [k \in 0 .. n |-> IF k = 0 THEN v ELSE p[c[k - 1]]]
  BY <1>3, <1>4
<1> QED
  BY <1>5 DEF Chains

LEMMA ChainEnds ==
  ASSUME NEW I, IsFiniteSet(I), NEW p, NEW g, RootMap(p, g, I), NEW v \in I,
         NEW c, Chains(c, p, v, Cardinality(I))
  PROVE  /\ \A k \in 0 .. Cardinality(I) : c[k] \in I /\ g[c[k]] = g[v]
         /\ c[0] = v /\ c[Cardinality(I)] = g[v]
<1> DEFINE n == Cardinality(I)
<1>1. n \in Nat
  BY FS_CardinalityType
<1>2. c = [k \in 0 .. n |-> IF k = 0 THEN v ELSE p[c[k - 1]]]
  BY DEF Chains
<1>3. p \in [I -> I] /\ g \in [I -> I] /\ \A x \in I : g[p[x]] = g[x] /\ (p[x] = x => g[x] = x)
  BY DEF RootMap
<1>4. \A S \in SUBSET I : S # {} /\ (\A x \in S : p[x] \in S) => \E x \in S : p[x] = x
  BY DEF RootMap
<1> HIDE DEF n
<1>5. \A k \in 0 .. n : c[k] = IF k = 0 THEN v ELSE p[c[k - 1]]
  BY <1>2, Zenon
<1>6. c[0] = v /\ \A k \in Nat : k + 1 <= n => c[k + 1] = p[c[k]]
  <2>1. \A k \in Nat : k + 1 <= n => k + 1 \in 0 .. n /\ k + 1 # 0 /\ (k + 1) - 1 = k
    BY <1>1
  <2>2. 0 \in 0 .. n
    BY <1>1
  <2> QED
    BY <1>5, <2>1, <2>2
<1>7. \A k \in 0 .. n : c[k] \in I /\ g[c[k]] = g[v]
  <2> DEFINE N == {k \in Nat : k <= n => c[k] \in I /\ g[c[k]] = g[v]}
  <2>1. 0 \in N
    BY <1>6
  <2>2. ASSUME NEW k \in Nat, k \in N PROVE k + 1 \in N
    BY <1>1, <1>3, <1>6, <2>2
  <2>3. Nat \subseteq N
    <3> HIDE DEF N
    <3> QED
      BY <2>1, <2>2, Induction
  <2> QED
    BY <1>1, <2>3
<1>8. p[c[n]] = c[n]
  <2> DEFINE W(k) == {c[i] : i \in 0 .. k}
             N == {k \in Nat : k <= n /\ p[c[k]] # c[k] =>
                       IsFiniteSet(W(k)) /\ k + 1 <= Cardinality(W(k))}
  <2>1. 0 \in N
    <3>1. W(0) = {c[0]}
      OBVIOUS
    <3> QED
      BY <3>1, FS_Singleton
  <2>2. ASSUME NEW k \in Nat, k \in N PROVE k + 1 \in N
    <3> SUFFICES ASSUME k + 1 <= n, p[c[k + 1]] # c[k + 1]
                 PROVE  IsFiniteSet(W(k + 1)) /\ (k + 1) + 1 <= Cardinality(W(k + 1))
      OBVIOUS
    <3>1. c[k + 1] = p[c[k]]
      BY <1>6
    <3>2. p[c[k]] # c[k]
      BY <3>1
    <3>3. IsFiniteSet(W(k)) /\ k + 1 <= Cardinality(W(k))
      BY <1>1, <2>2, <3>2
    <3>4. W(k + 1) = W(k) \cup {c[k + 1]}
      OBVIOUS
    <3>5. c[k + 1] \notin W(k)
      <4> SUFFICES ASSUME c[k + 1] \in W(k) PROVE FALSE
        OBVIOUS
      <4>1. \A x \in W(k) : p[x] \in W(k)
        <5> SUFFICES ASSUME NEW i \in 0 .. k PROVE p[c[i]] \in W(k)
          OBVIOUS
        <5>1. CASE i = k
          BY <3>1, <5>1
        <5>2. CASE i # k
          <6>1. i + 1 \in 0 .. k /\ i \in Nat /\ i + 1 <= n
            BY <1>1, <5>2
          <6>2. c[i + 1] = p[c[i]]
            BY <1>6, <6>1
          <6> QED
            BY <6>1, <6>2
        <5> QED
          BY <5>1, <5>2
      <4>2. W(k) \in SUBSET I
        BY <1>1, <1>7
      <4>3. c[0] \in W(k)
        OBVIOUS
      <4>4. PICK i \in 0 .. k : p[c[i]] = c[i]
        <5> DEFINE S == W(k)
        <5>1. S \in SUBSET I /\ S # {} /\ \A x \in S : p[x] \in S
          BY <4>1, <4>2, <4>3
        <5>2. \E x \in S : p[x] = x
          <6> HIDE DEF S
          <6> QED
            BY <1>4, <5>1
        <5> QED
          BY <5>2
      <4> DEFINE M == {j \in Nat : i + j <= n => c[i + j] = c[i]}
      <4>5. 0 \in M
        OBVIOUS
      <4>6. ASSUME NEW j \in Nat, j \in M PROVE j + 1 \in M
        <5> SUFFICES ASSUME i + (j + 1) <= n PROVE c[i + (j + 1)] = c[i]
          OBVIOUS
        <5>1. i + j \in Nat /\ (i + j) + 1 = i + (j + 1) /\ (i + j) + 1 <= n
          BY <1>1
        <5>2. c[(i + j) + 1] = p[c[i + j]]
          BY <1>6, <5>1
        <5>3. c[i + j] = c[i]
          BY <1>1, <4>6, <5>1
        <5> QED
          BY <4>4, <5>1, <5>2, <5>3
      <4>7. k - i \in M
        <5>1. k - i \in Nat
          OBVIOUS
        <5> HIDE DEF M
        <5> QED
          BY <4>5, <4>6, <5>1, Induction
      <4>8. c[k] = c[i]
        <5>1. i + (k - i) = k /\ k <= n
          BY <1>1
        <5> QED
          BY <4>7, <5>1
      <4> QED
        BY <3>2, <4>4, <4>8
    <3> HIDE DEF W
    <3>6. IsFiniteSet(W(k + 1)) /\ Cardinality(W(k + 1)) = Cardinality(W(k)) + 1
      BY <3>3, <3>4, <3>5, FS_AddElement
    <3>7. Cardinality(W(k)) \in Nat
      BY <3>3, FS_CardinalityType
    <3> QED
      BY <3>3, <3>6, <3>7
  <2>3. n \in N
    <3> HIDE DEF N
    <3> QED
      BY <1>1, <2>1, <2>2, Induction
  <2>4. W(n) \subseteq I
    BY <1>1, <1>7
  <2>5. Cardinality(W(n)) <= n /\ Cardinality(W(n)) \in Nat
    <3> DEFINE S == W(n)
    <3> HIDE DEF S
    <3>1. S \in SUBSET I
      BY <2>4 DEF S
    <3>2. Cardinality(S) <= n /\ Cardinality(S) \in Nat
      BY <3>1, FS_Subset, FS_CardinalityType DEF n
    <3> QED
      BY <3>2 DEF S
  <2> HIDE DEF W
  <2> QED
    BY <1>1, <2>3, <2>5
<1>9. c[n] \in I /\ g[c[n]] = g[v]
  BY <1>1, <1>7
<1>10. g[c[n]] = c[n]
  BY <1>3, <1>8, <1>9
<1> QED
  BY <1>6, <1>7, <1>9, <1>10 DEF n

\* Shortening the way from a vertex to its root.
LEMMA ShortenKeepsRoots ==
  ASSUME NEW I, NEW p, NEW g, RootMap(p, g, I), NEW v \in I,
         NEW way, way \subseteq I, v \in way, g[v] \in way, \A x \in way : g[x] = g[v],
         NEW q, q = [x \in I |-> IF x \in way THEN g[v] ELSE p[x]]
  PROVE  /\ RootMap(q, g, I)
         /\ q[v] = g[v] /\ \A x \in I : q[x] = g[x] \/ q[x] = p[x]
<1>1. /\ p \in [I -> I] /\ g \in [I -> I]
      /\ \A x \in I : g[p[x]] = g[x] /\ p[g[x]] = g[x] /\ (p[x] = x => g[x] = x)
  BY DEF RootMap
<1>2. q \in [I -> I] /\ \A x \in I : q[x] = IF x \in way THEN g[v] ELSE p[x]
  BY <1>1
<1>3. \A x \in I : g[q[x]] = g[x] /\ q[g[x]] = g[x] /\ (q[x] = x => g[x] = x)
  BY <1>1, <1>2
<1>4. ASSUME NEW S \in SUBSET I, S # {}, \A x \in S : q[x] \in S PROVE \E x \in S : q[x] = x
  <2>1. CASE S \cap way = {}
    <3>1. \A x \in S : p[x] \in S
      BY <1>2, <1>4, <2>1
    <3>2. PICK x \in S : p[x] = x
      BY <1>4, <3>1 DEF RootMap
    <3> QED
      BY <1>2, <2>1, <3>2
  <2>2. CASE S \cap way # {}
    <3>1. g[v] \in S
      BY <1>2, <1>4, <2>2
    <3>2. q[g[v]] = g[v]
      BY <1>3
    <3> QED
      BY <3>1, <3>2
  <2> QED
    BY <2>1, <2>2
<1> QED
  BY <1>1, <1>2, <1>3, <1>4 DEF RootMap

\* find() finds the root and keeps all roots.
LEMMA FindKeepsRoots ==
  ASSUME IsFiniteSet(vertices), NEW p, NEW g, RootMap(p, g, Indices), NEW v \in Indices
  PROVE  LET q == Kruskal!Compressed(p, v)
         IN  /\ RootMap(q, g, Indices)
             /\ q[v] = g[v] /\ \A x \in Indices : q[x] = g[x] \/ q[x] = p[x]
<1> DEFINE I == Indices
           n == numVertices
           c == Kruskal!Chain(p, v)
           way == {c[k] : k \in 0 .. n}
           q == Kruskal!Compressed(p, v)
<1>1. n \in Nat /\ IsFiniteSet(I) /\ Cardinality(I) = n
  BY IndicesFinite
<1>2. p \in [I -> I] /\ v \in I
  BY DEF RootMap
<1>3. Chains(c, p, v, n)
  <2>1. \E d : Chains(d, p, v, n)
    <3> HIDE DEF I, n
    <3> QED
      BY <1>1, <1>2, ChainExists
  <2> DEFINE d == CHOOSE d : Chains(d, p, v, n)
  <2>2. Chains(d, p, v, n)
    BY <2>1
  <2>3. c = d
    BY SameNumbers DEF Kruskal!Chain, Chains
  <2> QED
    BY <2>2, <2>3
<1>4. q = [x \in I |-> IF x \in way THEN c[n] ELSE p[x]]
  BY SameNumbers DEF Kruskal!Compressed, Kruskal!Root
<1> HIDE DEF c, q, I, n
<1>5. /\ \A k \in 0 .. n : c[k] \in I /\ g[c[k]] = g[v]
      /\ c[0] = v /\ c[n] = g[v]
  BY <1>1, <1>3, ChainEnds DEF I
<1>6. way \subseteq I /\ v \in way /\ g[v] \in way /\ \A x \in way : g[x] = g[v]
  <2>1. 0 \in 0 .. n /\ n \in 0 .. n
    BY <1>1
  <2> QED
    BY <1>5, <2>1
<1> HIDE DEF way
<1>7. q = [x \in I |-> IF x \in way THEN g[v] ELSE p[x]]
  BY <1>4, <1>5
<1>8. RootMap(q, g, I) /\ q[v] = g[v] /\ \A x \in I : q[x] = g[x] \/ q[x] = p[x]
  BY <1>6, <1>7, ShortenKeepsRoots DEF I
<1> QED
  BY <1>8 DEF q, I

\* Uniting two sets.
LEMMA UniteRoots ==
  ASSUME NEW I, NEW q, NEW g, RootMap(q, g, I), NEW a \in I, NEW b \in I,
         g[a] = a, g[b] = b, a # b,
         NEW h, h = [x \in I |-> IF g[x] = a THEN b ELSE g[x]]
  PROVE  RootMap([q EXCEPT ![a] = b], h, I)
<1> DEFINE p == [q EXCEPT ![a] = b]
<1>1. /\ q \in [I -> I] /\ g \in [I -> I]
      /\ \A x \in I : g[q[x]] = g[x] /\ q[g[x]] = g[x] /\ (q[x] = x => g[x] = x)
  BY DEF RootMap
<1>2. p \in [I -> I] /\ \A x \in I : p[x] = IF x = a THEN b ELSE q[x]
  BY <1>1
<1>3. h \in [I -> I] /\ \A x \in I : h[x] = IF g[x] = a THEN b ELSE g[x]
  BY <1>1
<1> HIDE DEF p
<1>4. ASSUME NEW x \in I PROVE h[p[x]] = h[x] /\ p[h[x]] = h[x] /\ (p[x] = x => h[x] = x)
  <2>1. g[x] \in I /\ q[x] \in I /\ g[g[x]] = g[x]
    BY <1>1
  <2>2. h[p[x]] = h[x]
    BY <1>1, <1>2, <1>3
  <2>3. p[h[x]] = h[x]
    BY <1>1, <1>2, <1>3
  <2>4. p[x] = x => h[x] = x
    BY <1>1, <1>2, <1>3
  <2> QED
    BY <2>2, <2>3, <2>4
<1>5. ASSUME NEW S \in SUBSET I, S # {}, \A x \in S : p[x] \in S PROVE \E x \in S : p[x] = x
  <2>1. \A x \in S : q[x] \in S
    BY <1>1, <1>2, <1>5
  <2>2. PICK x \in S : q[x] = x
    BY <1>5, <2>1 DEF RootMap
  <2>3. CASE x = a
    <3>1. b \in S /\ p[b] = b
      BY <1>1, <1>2, <1>5, <2>3
    <3> QED
      BY <3>1
  <2>4. CASE x # a
    BY <1>2, <2>2, <2>4
  <2> QED
    BY <2>3, <2>4
<1>6. RootMap(p, h, I)
  BY <1>2, <1>3, <1>4, <1>5 DEF RootMap
<1> QED
  BY <1>6 DEF p

-----------------------------------------------------------------------------
(* Kruskal's algorithm.                                                     *)

Inside == {e \in edges : e.ends \subseteq Indices}

Roots(g, I) == {x \in I : g[x] = x}

\* parent represents the components of the forest found so far, of which each
\* edge has joined two.
Components(g) ==
  /\ RootMap(sets, g, Indices)
  /\ \A u, w \in Indices : g[u] = g[w] <=> w \in Reach(Found, u)
  /\ Cardinality(Roots(g, Indices)) = numVertices - Len(mst)

\* The edges considered so far are all connected by the forest, which can be
\* extended to a minimum one.
KInv ==
  /\ status \in {"running", "done", "outOfBounds"}
  /\ mst \in Seq(edges) /\ Cardinality(Found) = Len(mst)
  /\ remaining \subseteq Kruskal!Collected /\ Found \cap remaining = {}
  /\ \A e \in Kruskal!Collected \ remaining :
       e \in Inside /\ \A u, w \in e.ends : w \in Reach(Found, u)
  /\ Found \subseteq Inside /\ IsForest(Found) /\ Cheap(Found, Inside)
  /\ \E g : Components(g)
  /\ status = "done" => remaining = {} \/ Len(mst) = numVertices - 1

LEMMA CollectedAre ==
  Kruskal!Collected = {e \in edges : e.ends \cap Indices # {}}
BY SameNumbers DEF Kruskal!Collected

LEMMA KruskalStart ==
  ASSUME GraphOK, Kruskal!Init
  PROVE  KInv
<1> USE DEF Kruskal!Init
<1>1. mst = <<>> /\ Found = {}
  BY DEF Found
<1>2. Len(mst) = 0 /\ Cardinality(Found) = 0 /\ mst \in Seq(edges)
  BY <1>1, FS_EmptySet
<1>3. Inside \subseteq edges /\ Proper(Inside)
  BY ProperSubset DEF Inside, GraphOK
<1>4. IsForest(Found) /\ Cheap(Found, Inside)
  BY <1>1, <1>3, CheapEmpty
<1> DEFINE g == [i \in Indices |-> i]
<1>5. sets = g
  BY SameNumbers
<1>6. Components(g)
  <2>1. RootMap(g, g, Indices)
    BY DEF RootMap
  <2>2. \A u, w \in Indices : g[u] = g[w] <=> w \in Reach(Found, u)
    BY <1>1, ReachNothing
  <2>3. Roots(g, Indices) = Indices
    BY DEF Roots
  <2>4. numVertices \in Nat /\ Cardinality(Indices) = numVertices
    BY IndicesFinite DEF GraphOK
  <2> QED
    <3> HIDE DEF g
    <3> QED
      BY <1>2, <1>5, <2>1, <2>2, <2>3, <2>4 DEF Components
<1>7. \E h : Components(h)
  BY <1>6
<1>8. remaining = Kruskal!Collected /\ status \in {"running", "done"}
      /\ (status = "done" => remaining = {})
  OBVIOUS
<1> QED
  BY <1>1, <1>2, <1>4, <1>7, <1>8 DEF KInv

\* An edge between two components joins the forest.
LEMMA Joining ==
  ASSUME GraphOK, KInv, NEW g, Components(g), UNCHANGED <<vertices, edges>>,
         NEW e \in remaining, \A f \in remaining : e.weight <= f.weight,
         NEW s \in Indices, NEW d \in Indices, e.ends = {s, d}, g[s] # g[d],
         NEW q, RootMap(q, g, Indices),
         mst' = Append(mst, e), sets' = [q EXCEPT ![g[s]] = g[d]],
         remaining' = remaining \ {e},
         status' = IF remaining' = {} \/ Len(mst') = numVertices - 1 THEN "done" ELSE "running"
  PROVE  KInv'
<1> DEFINE F == Found
           H == Found \cup {e}
<1>1. e \in edges /\ e \in Inside /\ e \notin Found
  BY CollectedAre DEF KInv, Inside
<1>2. Found' = H /\ Len(mst') = Len(mst) + 1 /\ mst' \in Seq(edges)
  BY <1>1, FoundWith DEF KInv
<1>3. Inside' = Inside /\ Indices' = Indices /\ numVertices' = numVertices
      /\ Kruskal!Collected' = Kruskal!Collected
  BY CollectedAre DEF Inside, Indices, numVertices, Kruskal!Collected, Kruskal!Indices,
     Kruskal!numVertices
<1>4. Inside \subseteq edges /\ Proper(Inside) /\ F \subseteq Inside /\ Proper(F)
  BY ProperSubset DEF Inside, GraphOK, KInv
<1>5. IsFiniteSet(F) /\ HaveEnds(F) /\ IsForest(F)
  BY <1>4 DEF Proper, KInv
<1>6. IsFiniteSet(H) /\ Cardinality(H) = Cardinality(F) + 1
  BY <1>1, <1>5, FS_AddElement
<1>7. d \notin Reach(F, s)
  BY DEF Components
<1> HIDE DEF H
<1>8. IsForest(H)
  BY <1>5, <1>7, ForestWith DEF H
<1>9. Cheap(H, Inside)
  <2> DEFINE A == Reach(F, s)
  <2>1. s \in A /\ ClosedUnder(F, A)
    BY <1>5, ReachIsClosure
  <2>2. LightestOut(e, A, Inside)
    <3>1. e.ends \cap A # {} /\ ~(e.ends \subseteq A)
      BY <1>7, <2>1
    <3>2. ASSUME NEW f \in Inside, f.ends \cap A # {}, ~(f.ends \subseteq A)
          PROVE  e.weight <= f.weight
      <4>1. PICK x \in f.ends, y \in f.ends : x \in A /\ y \notin A
        BY <3>2
      <4>2. f \in Kruskal!Collected
        BY <4>1, CollectedAre DEF Inside
      <4>3. y \notin Reach(F, x)
        BY <1>5, <4>1, ReachSame
      <4>4. f \in remaining
        BY <4>1, <4>2, <4>3 DEF KInv
      <4> QED
        BY <4>4
    <3> QED
      BY <1>1, <3>1, <3>2 DEF LightestOut
  <2> HIDE DEF A
  <2>3. Cheap(F, Inside)
    BY DEF KInv
  <2> HIDE DEF F
  <2> QED
    BY <1>4, <2>1, <2>2, <2>3, CheapWith DEF H, F
<1>10. /\ \A u : Reach(F, u) \subseteq Reach(H, u)
       /\ \A f \in H : \A u, w \in f.ends : w \in Reach(H, u)
  BY <1>6, ReachMore, ReachEquivalence DEF H
<1>11. \A f \in Kruskal!Collected \ remaining' :
         f \in Inside /\ \A u, w \in f.ends : w \in Reach(H, u)
  BY <1>1, <1>10 DEF KInv, H
<1>a. PICK h : h = [x \in Indices |-> IF g[x] = g[s] THEN g[d] ELSE g[x]]
  OBVIOUS
<1>12. /\ g \in [Indices -> Indices]
       /\ \A x \in Indices : g[g[x]] = g[x]
  BY DEF Components, RootMap
<1>13. RootMap(sets', h, Indices)
  <2>1. g[s] \in Indices /\ g[d] \in Indices /\ g[g[s]] = g[s] /\ g[g[d]] = g[d]
    BY <1>12
  <2> QED
    BY <1>a, <2>1, UniteRoots
<1>14. \A x \in Indices : h[x] = IF g[x] = g[s] THEN g[d] ELSE g[x]
  BY <1>a
<1>15. ASSUME NEW u \in Indices, NEW w \in Indices
       PROVE  h[u] = h[w] <=> w \in Reach(H, u)
  <2>1. /\ s \in Reach(F, u) \/ d \in Reach(F, u)
             => Reach(H, u) = Reach(F, s) \cup Reach(F, d)
        /\ s \notin Reach(F, u) /\ d \notin Reach(F, u)
             => Reach(H, u) = Reach(F, u)
    BY <1>5, ReachWith DEF H
  <2>2. \A x, y \in Indices : g[x] = g[y] <=> y \in Reach(F, x)
    BY DEF Components
  <2>3. /\ g[u] = g[s] \/ g[u] = g[d]
             => (w \in Reach(H, u) <=> g[w] = g[s] \/ g[w] = g[d])
        /\ g[u] # g[s] /\ g[u] # g[d]
             => (w \in Reach(H, u) <=> g[u] = g[w])
    BY <2>1, <2>2
  <2>4. h[u] = (IF g[u] = g[s] THEN g[d] ELSE g[u])
        /\ h[w] = IF g[w] = g[s] THEN g[d] ELSE g[w]
    BY <1>14
  <2> QED
    BY <2>3, <2>4
<1>16. Cardinality(Roots(h, Indices)) = numVertices - (Len(mst) + 1)
  <2> DEFINE roots == Roots(g, Indices)
  <2>1. Roots(h, Indices) = roots \ {g[s]} /\ g[s] \in roots /\ roots \subseteq Indices
    BY <1>12, <1>14 DEF Roots
  <2>2. IsFiniteSet(Indices) /\ numVertices \in Nat /\ Len(mst) \in Nat
    BY IndicesFinite, LenProperties DEF GraphOK, KInv
  <2>3. IsFiniteSet(roots)
    BY <2>1, <2>2, FS_Subset
  <2>4. Cardinality(roots) = numVertices - Len(mst)
    BY DEF Components
  <2> HIDE DEF roots
  <2>5. Cardinality(roots \ {g[s]}) = Cardinality(roots) - 1
    BY <2>1, <2>3, FS_RemoveElement
  <2> QED
    BY <2>1, <2>2, <2>4, <2>5
<1>17. \E k : Components(k)'
  <2>1. Components(h)'
    BY <1>2, <1>3, <1>13, <1>15, <1>16 DEF Components
  <2> QED
    BY <2>1
<1>18. Found' \subseteq Inside' /\ Found' \cap remaining' = {}
       /\ remaining' \subseteq Kruskal!Collected'
  BY <1>1, <1>2, <1>3 DEF KInv, H
<1>19. Cardinality(Found') = Len(mst')
  BY <1>2, <1>6 DEF KInv
<1>20. IsForest(Found') /\ Cheap(Found', Inside')
  BY <1>2, <1>3, <1>8, <1>9
<1>21. \A f \in Kruskal!Collected' \ remaining' :
         f \in Inside' /\ \A u, w \in f.ends : w \in Reach(Found', u)
  BY <1>2, <1>3, <1>11
<1>22. mst' \in Seq(edges') /\ status' \in {"running", "done", "outOfBounds"}
       /\ (status' = "done" => remaining' = {} \/ Len(mst') = numVertices' - 1)
  BY <1>2, <1>3
<1> QED
  BY <1>17, <1>18, <1>19, <1>20, <1>21, <1>22 DEF KInv

\* An edge within a component is dropped.
LEMMA Dropping ==
  ASSUME GraphOK, KInv, NEW g, Components(g), UNCHANGED <<vertices, edges, mst>>,
         NEW e \in remaining,
         NEW s \in Indices, NEW d \in Indices, e.ends = {s, d}, g[s] = g[d],
         RootMap(sets', g, Indices),
         remaining' = remaining \ {e},
         status' = IF remaining' = {} \/ Len(mst') = numVertices - 1 THEN "done" ELSE "running"
  PROVE  KInv'
<1>1. e \in edges /\ e \in Inside
  BY CollectedAre DEF KInv, Inside
<1>3. Inside' = Inside /\ Indices' = Indices /\ numVertices' = numVertices
      /\ Kruskal!Collected' = Kruskal!Collected /\ Found' = Found
  BY CollectedAre DEF Inside, Indices, numVertices, Kruskal!Collected, Kruskal!Indices,
     Kruskal!numVertices, Found
<1>4. Components(g)'
  BY <1>3 DEF Components
<1>5. \E k : Components(k)'
  BY <1>4
<1>6. d \in Reach(Found, s) /\ s \in Reach(Found, d)
      /\ s \in Reach(Found, s) /\ d \in Reach(Found, d)
  BY DEF Components
<1>7. \A f \in Kruskal!Collected' \ remaining' :
         f \in Inside' /\ \A u, w \in f.ends : w \in Reach(Found', u)
  <2> SUFFICES ASSUME NEW f \in Kruskal!Collected \ remaining'
               PROVE  f \in Inside /\ \A u, w \in f.ends : w \in Reach(Found, u)
    BY <1>3
  <2>1. CASE f = e
    BY <1>1, <1>6, <2>1
  <2>2. CASE f # e
    BY <2>2 DEF KInv
  <2> QED
    BY <2>1, <2>2
<1>8. Found' \subseteq Inside' /\ Found' \cap remaining' = {}
      /\ remaining' \subseteq Kruskal!Collected' /\ Cardinality(Found') = Len(mst')
      /\ mst' \in Seq(edges')
  BY <1>3 DEF KInv
<1>9. IsForest(Found') /\ Cheap(Found', Inside')
  BY <1>3 DEF KInv
<1>10. status' \in {"running", "done", "outOfBounds"}
       /\ (status' = "done" => remaining' = {} \/ Len(mst') = numVertices' - 1)
  BY <1>3
<1> QED
  BY <1>5, <1>7, <1>8, <1>9, <1>10 DEF KInv

LEMMA KruskalConsiders ==
  ASSUME GraphOK, KInv, NEW e, Kruskal!Consider(e)
  PROVE  KInv'
<1> USE DEF Kruskal!Consider
<1>1. /\ UNCHANGED <<vertices, edges>>
      /\ e \in remaining /\ \A f \in remaining : e.weight <= f.weight
      /\ remaining' = remaining \ {e}
  BY DEF Kruskal!graph, Kruskal!Lightest
<1>2. status' = IF remaining' = {} \/ Len(mst') = numVertices - 1 THEN "done" ELSE "running"
  BY SameNumbers DEF Kruskal!Finished
<1>3. PICK g : Components(g)
  BY DEF KInv
<1>4. e.ends \subseteq Indices
  BY SameNumbers
<1> DEFINE q1(s) == Kruskal!Compressed(sets, s)
           q2(s, d) == Kruskal!Compressed(q1(s), d)
<1>5. PICK s \in e.ends, d \in e.ends :
        /\ e.ends = {s, d}
        /\ IF q2(s, d)[s] # q2(s, d)[d]
           THEN mst' = Append(mst, e) /\ sets' = [q2(s, d) EXCEPT ![q2(s, d)[s]] = q2(s, d)[d]]
           ELSE UNCHANGED mst /\ sets' = q2(s, d)
  OBVIOUS
<1>6. s \in Indices /\ d \in Indices
  BY <1>4
<1>7. IsFiniteSet(vertices) /\ RootMap(sets, g, Indices)
  BY <1>3 DEF GraphOK, Components
<1> DEFINE p == q1(s)
           q == q2(s, d)
<1>8. RootMap(p, g, Indices) /\ p[s] = g[s]
  BY <1>6, <1>7, FindKeepsRoots
<1>9. RootMap(q, g, Indices) /\ q[d] = g[d] /\ (q[s] = g[s] \/ q[s] = p[s])
  <2> HIDE DEF p
  <2>1. q = Kruskal!Compressed(p, d)
    BY DEF p
  <2> HIDE DEF q
  <2> QED
    BY <1>6, <1>7, <1>8, <2>1, FindKeepsRoots
<1>10. /\ q[s] # q[d] => mst' = Append(mst, e) /\ sets' = [q EXCEPT ![q[s]] = q[d]]
       /\ q[s] = q[d] => UNCHANGED mst /\ sets' = q
  BY <1>5
<1> HIDE DEF p, q, Kruskal!Consider
<1>11. CASE g[s] # g[d]
  <2>1. mst' = Append(mst, e) /\ sets' = [q EXCEPT ![g[s]] = g[d]]
    BY <1>8, <1>9, <1>10, <1>11
  <2> QED
    BY <1>1, <1>2, <1>3, <1>5, <1>6, <1>9, <1>11, <2>1, Joining
<1>12. CASE g[s] = g[d]
  <2>1. UNCHANGED mst /\ RootMap(sets', g, Indices)
    BY <1>8, <1>9, <1>10, <1>12
  <2> QED
    BY <1>1, <1>2, <1>3, <1>5, <1>6, <1>12, <2>1, Dropping
<1> QED
  BY <1>11, <1>12

LEMMA KruskalKeeps ==
  ASSUME KInv, UNCHANGED <<vertices, edges, mst, remaining, sets>>,
         status' = "outOfBounds" \/ status' = status
  PROVE  KInv'
<1>1. UNCHANGED <<vertices, edges, mst, remaining, sets>>
  OBVIOUS
<1>2. Inside' = Inside /\ Indices' = Indices /\ numVertices' = numVertices
      /\ Kruskal!Collected' = Kruskal!Collected /\ Found' = Found
  BY <1>1, CollectedAre DEF Inside, Indices, numVertices, Kruskal!Collected, Kruskal!Indices,
     Kruskal!numVertices, Found
<1>3. PICK g : Components(g)
  BY DEF KInv
<1>4. Components(g)'
  BY <1>1, <1>2, <1>3 DEF Components
<1>5. \E h : Components(h)'
  BY <1>4
<1>6. /\ status' \in {"running", "done", "outOfBounds"}
      /\ (status' = "done" => remaining' = {} \/ Len(mst') = numVertices' - 1)
      /\ mst' \in Seq(edges') /\ Cardinality(Found') = Len(mst')
      /\ remaining' \subseteq Kruskal!Collected' /\ Found' \cap remaining' = {}
      /\ \A f \in Kruskal!Collected' \ remaining' :
           f \in Inside' /\ \A u, w \in f.ends : w \in Reach(Found', u)
      /\ Found' \subseteq Inside' /\ IsForest(Found') /\ Cheap(Found', Inside')
  BY <1>1, <1>2 DEF KInv
<1> QED
  BY <1>5, <1>6 DEF KInv

\* The forest spans the graph when its edges have joined all sets.
LEMMA OneComponent ==
  ASSUME GraphOK, KInv, Len(mst) = numVertices - 1
  PROVE  /\ \A u, w \in Indices : w \in Reach(Found, u)
         /\ \A e \in edges : e.ends \cap Indices # {} => e \in Inside
<1>1. PICK g : Components(g)
  BY DEF KInv
<1>2. g \in [Indices -> Indices] /\ \A x \in Indices : g[g[x]] = g[x]
  BY <1>1 DEF Components, RootMap
<1>3. numVertices \in Nat /\ IsFiniteSet(Indices) /\ Cardinality(Indices) = numVertices
  BY IndicesFinite DEF GraphOK
<1>4. IsFiniteSet(Roots(g, Indices)) /\ Cardinality(Roots(g, Indices)) = 1
  <2>1. Roots(g, Indices) \subseteq Indices
    BY DEF Roots
  <2>2. Len(mst) \in Nat /\ Cardinality(Roots(g, Indices)) = numVertices - Len(mst)
    BY <1>1, LenProperties DEF KInv, Components
  <2> QED
    BY <1>3, <2>1, <2>2, FS_Subset
<1>5. PICK r : Roots(g, Indices) = {r}
  <2> DEFINE S == Roots(g, Indices)
  <2> HIDE DEF S
  <2>1. \E r : S = {r}
    BY <1>4, FS_Singleton DEF S
  <2> QED
    BY <2>1 DEF S
<1>6. \A x \in Indices : g[x] = r
  BY <1>2, <1>5 DEF Roots
<1>7. \A u, w \in Indices : w \in Reach(Found, u)
  BY <1>1, <1>6 DEF Components
<1>8. ASSUME NEW e \in edges, NEW x \in e.ends, x \in Indices PROVE e \in Inside
  <2>1. x \in vertices /\ IsFiniteSet(vertices)
    BY <1>8 DEF GraphOK
  <2>2. ClosedUnder(Found, vertices)
    BY DEF ClosedUnder, KInv, Inside, GraphOK
  <2>3. IsFiniteSet(Found)
    <3>1. Proper(edges) /\ Found \subseteq edges
      BY DEF KInv, Inside, GraphOK
    <3> QED
      BY <3>1, FS_Subset DEF Proper
  <2>4. Reach(Found, x) \subseteq vertices
    BY <2>1, <2>2, <2>3, ReachIsClosure
  <2>5. Indices \subseteq vertices
    BY <1>7, <1>8, <2>4
  <2>6. Indices = vertices
    BY <1>3, <2>1, <2>5, FS_Subset DEF numVertices
  <2> QED
    BY <2>6 DEF Inside, GraphOK
<1> QED
  BY <1>7, <1>8

LEMMA KruskalEnd ==
  ASSUME GraphOK, KInv, status = "done"
  PROVE  /\ Cardinality(Found) = Len(mst)
         /\ IsMinimumSpanningForest(Found, Inside)
         /\ \A e \in edges \ Inside : e.ends \cap Indices = {}
<1>1. remaining = {} \/ Len(mst) = numVertices - 1
  BY DEF KInv
<1>2. Inside \subseteq edges /\ Proper(Inside)
  BY ProperSubset DEF Inside, GraphOK
<1>3. /\ \A e \in Inside : \A u, w \in e.ends : w \in Reach(Found, u)
      /\ \A e \in edges : e.ends \cap Indices # {} => e \in Inside
  <2>1. CASE remaining = {}
    <3>1. \A e \in edges : e.ends \cap Indices # {} => e \in Kruskal!Collected
      BY CollectedAre
    <3>2. \A e \in Inside : e.ends \cap Indices # {}
      BY <1>2 DEF Inside, Proper, HaveEnds
    <3> QED
      BY <1>2, <2>1, <3>1, <3>2 DEF KInv
  <2>2. CASE Len(mst) = numVertices - 1
    BY <2>2, OneComponent DEF Inside
  <2> QED
    BY <1>1, <2>1, <2>2
<1>4. Spans(Found, Inside)
  BY <1>2, <1>3, ConnectsSpans DEF Proper
<1>5. IsMinimumSpanningForest(Found, Inside)
  BY <1>2, <1>4, CheapMinimal DEF KInv
<1> QED
  BY <1>3, <1>5 DEF KInv

-----------------------------------------------------------------------------
(* Prim's algorithm.                                                        *)

Ints == -(IntMax + 1) .. IntMax

LEMMA LeastInt ==
  ASSUME NEW S \in SUBSET Ints, S # {}
  PROVE  \E m \in S : \A k \in S : m <= k
<1>1. IntMax \in Nat
  BY EdgeInputsAssumption
<1> DEFINE T == {k \in Nat : k - (IntMax + 1) \in S}
<1>2. PICK x \in S : TRUE
  OBVIOUS
<1>3. x \in Ints
  OBVIOUS
<1>4. x + (IntMax + 1) \in Nat /\ (x + (IntMax + 1)) - (IntMax + 1) = x
  BY <1>1, <1>3 DEF Ints
<1>5. x + (IntMax + 1) \in T
  BY <1>2, <1>4
<1>6. PICK m \in T : \A k \in T : m <= k
  <2>1. T \in SUBSET Nat /\ T # {}
    BY <1>5
  <2> HIDE DEF T
  <2> QED
    BY <2>1, LeastNatural
<1>7. m \in Nat /\ m - (IntMax + 1) \in S
  BY <1>6
<1>8. ASSUME NEW k \in S PROVE m - (IntMax + 1) <= k
  <2>1. k \in Ints
    OBVIOUS
  <2>2. k \in Int /\ k + (IntMax + 1) \in Nat /\ (k + (IntMax + 1)) - (IntMax + 1) = k
    BY <1>1, <2>1 DEF Ints
  <2>3. k + (IntMax + 1) \in T
    BY <2>2
  <2>4. m <= k + (IntMax + 1)
    BY <1>6, <2>3
  <2> QED
    BY <1>1, <1>7, <2>2, <2>4
<1> QED
  BY <1>7, <1>8

LEMMA EdgesAre ==
  ASSUME GraphOK, NEW e \in edges
  PROVE  /\ e = [ends |-> e.ends, weight |-> e.weight]
         /\ e.weight \in Ints /\ e.weight \in Int
         /\ e.ends \subseteq 0 .. MaxVertices - 1 /\ e.ends \subseteq vertices
<1>1. e \in [ends : {{u, v} : u, v \in 0 .. MaxVertices - 1},
             weight : -(IntMax + 1) .. IntMax]
  BY EdgeInputsAssumption DEF GraphOK
<1>2. IntMax \in Nat
  BY EdgeInputsAssumption
<1> QED
  BY <1>1, <1>2 DEF Ints, GraphOK

\* The lightest edge between two vertices.
LEMMA LightestBetween ==
  ASSUME GraphOK, NEW u, NEW v \in Prim!Neighbors(u)
  PROVE  /\ [ends |-> {u, v}, weight |-> Prim!WeightBetween(u, v)] \in edges
         /\ Prim!WeightBetween(u, v) \in Ints
         /\ \A f \in edges : f.ends = {u, v} => Prim!WeightBetween(u, v) <= f.weight
<1> DEFINE between == {e.weight : e \in {f \in edges : f.ends = {u, v}}}
           w == Prim!WeightBetween(u, v)
<1>1. between # {} /\ between \subseteq Ints
  <2>1. PICK e \in edges : e.ends = {u, v}
    BY DEF Prim!Neighbors
  <2> QED
    BY <2>1, EdgesAre
<1>2. \E m \in between : \A k \in between : m <= k
  <2> HIDE DEF between
  <2> QED
    BY <1>1, LeastInt
<1>3. w = CHOOSE m \in between : \A k \in between : m <= k
  BY DEF Prim!WeightBetween
<1>4. w \in between /\ \A k \in between : w <= k
  <2> HIDE DEF between, w
  <2> QED
    BY <1>2, <1>3
<1>5. PICK e \in edges : e.ends = {u, v} /\ e.weight = w
  BY <1>4
<1>6. e = [ends |-> {u, v}, weight |-> w]
  <2> HIDE DEF w
  <2> QED
    BY <1>5, EdgesAre
<1>7. \A f \in edges : f.ends = {u, v} => w <= f.weight
  <2> HIDE DEF w
  <2> QED
    BY <1>4
<1> HIDE DEF between, w
<1>8. w \in Ints
  BY <1>1, <1>4
<1> QED
  BY <1>5, <1>6, <1>7, <1>8 DEF w

LEMMA NeighborsAre ==
  ASSUME GraphOK, NEW e \in edges, NEW u, NEW v, e.ends = {u, v}
  PROVE  v \in Prim!Neighbors(u)
BY EdgesAre DEF Prim!Neighbors, Prim!Ids

\* The top of the queue.
LEMMA TopIsLeast ==
  ASSUME pq # {}, pq \subseteq Ints \X Indices, numVertices \in Nat
  PROVE  Prim!Top \in pq /\ \A q \in pq : Prim!Top[1] <= q[1]
<1> DEFINE K == {p[1] : p \in pq}
<1>0. \A p \in pq : p[1] \in Ints /\ p[2] \in Indices /\ p = <<p[1], p[2]>>
  OBVIOUS
<1>1. K \in SUBSET Ints /\ K # {}
  BY <1>0
<1>2. PICK k \in K : \A j \in K : k <= j
  <2> HIDE DEF K
  <2> QED
    BY <1>1, LeastInt
<1> DEFINE V == {v \in Nat : <<k, v>> \in pq}
<1>3. PICK v \in V : \A w \in V : v <= w
  <2>1. PICK p \in pq : p[1] = k
    BY <1>2
  <2>2. p[2] \in V
    BY <1>0, <2>1 DEF Indices
  <2>3. V \in SUBSET Nat /\ V # {}
    BY <2>2
  <2> HIDE DEF V
  <2> QED
    BY <2>3, LeastNatural
<1>4. <<k, v>> \in pq
  BY <1>3
<1>5. ASSUME NEW q \in pq PROVE Prim!Before(<<k, v>>, q)
  <2>1. q[1] \in K /\ k <= q[1] /\ q[1] \in Int /\ k \in Int
    BY <1>0, <1>1, <1>2, EdgeInputsAssumption DEF Ints
  <2>2. q[1] = k => v <= q[2]
    BY <1>0, <1>3 DEF Indices
  <2> QED
    BY <2>1, <2>2 DEF Prim!Before
<1>6. Prim!Top = CHOOSE p \in pq : \A q \in pq : Prim!Before(p, q)
  BY DEF Prim!Top
<1>7. Prim!Top \in pq /\ \A q \in pq : Prim!Before(Prim!Top, q)
  <2>1. \E p \in pq : \A q \in pq : Prim!Before(p, q)
    BY <1>4, <1>5
  <2> DEFINE t == Prim!Top
  <2>2. t \in pq /\ \A q \in pq : Prim!Before(t, q)
    <3>1. t = CHOOSE p \in pq : \A q \in pq : Prim!Before(p, q)
      BY <1>6
    <3> HIDE DEF t
    <3> QED
      BY <2>1, <3>1
  <2> QED
    BY <2>2
<1>8. ASSUME NEW q \in pq PROVE Prim!Top[1] <= q[1]
  <2> DEFINE t == Prim!Top
  <2>1. t \in pq /\ Prim!Before(t, q)
    BY <1>7
  <2> HIDE DEF t
  <2>2. t[1] \in Int /\ q[1] \in Int
    BY <1>0, <2>1, EdgeInputsAssumption DEF Ints
  <2>3. t[1] <= q[1]
    BY <2>1, <2>2 DEF Prim!Before
  <2> QED
    BY <2>3 DEF t
<1> QED
  BY <1>7, <1>8

Usable == {e \in edges : e.weight # IntMax}
Around == {e \in Usable : e.ends \cap Reach(Usable, 0) # {}}

Edge(u, v, w) == [ends |-> {u, v}, weight |-> w]

\* What the queue has is a key that a vertex had, and 0 for the start.
QueueOK ==
  /\ pq \subseteq Ints \X Indices
  /\ visited = {} /\ Indices # {} => pq = {<<0, 0>>}
  /\ visited # {} => \A p \in pq : p[2] \in visited \/ (key[p[2]] <= p[1] /\ key[p[2]] # IntMax)
  /\ status = "running" => pq # {}
  /\ status = "done" => pq = {}

\* The key of a vertex that is not visited yet is the weight of the lightest
\* edge between it and the tree, parent its end there, and the queue has it.
KeyOK(v) ==
  /\ key[v] \in Ints
  /\ key[v] # IntMax =>
       /\ parent[v] \in visited /\ Edge(parent[v], v, key[v]) \in edges
       /\ <<key[v], v>> \in pq
  /\ \A e \in Usable : \A u \in visited : e.ends = {u, v} => key[v] <= e.weight

\* The tree spans the visited vertices, and can be extended to a minimum one.
TreeOK ==
  /\ mst \in Seq(edges) /\ Cardinality(Found) = Len(mst)
  /\ Found \subseteq Around /\ IsForest(Found) /\ Cheap(Found, Around)
  /\ \A e \in Found : e.ends \subseteq visited
  /\ visited \subseteq Reach(Found, 0) /\ (visited # {} => 0 \in visited)

PInv ==
  /\ status \in {"running", "done", "outOfBounds"}
  /\ visited \subseteq Indices /\ \A u \in visited : Prim!Neighbors(u) \subseteq Indices
  /\ key \in [Indices -> Int] /\ parent \in [Indices -> Indices \cup {-1}]
  /\ visited = {} /\ Indices # {} => parent[0] = -1
  /\ \A v \in Indices \ visited : v # 0 => KeyOK(v)
  /\ QueueOK
  /\ TreeOK

LEMMA AroundProper ==
  ASSUME GraphOK
  PROVE  /\ Around \subseteq edges /\ Usable \subseteq edges
         /\ Proper(Around) /\ Proper(Usable)
BY ProperSubset DEF Around, Usable, GraphOK

LEMMA FoundProper ==
  ASSUME GraphOK, TreeOK
  PROVE  Proper(Found) /\ IsFiniteSet(Found) /\ HaveEnds(Found)
<1>1. Proper(Around) /\ Found \subseteq Around
  BY AroundProper DEF TreeOK
<1>2. Proper(Found)
  BY <1>1, ProperSubset
<1> QED
  BY <1>2 DEF Proper

LEMMA PrimStart ==
  ASSUME GraphOK, Prim!Init
  PROVE  PInv
<1> USE DEF Prim!Init
<1>0. IntMax \in Nat
  BY EdgeInputsAssumption
<1>1. mst = <<>> /\ Found = {} /\ visited = {}
  BY DEF Found
<1>2. Len(mst) = 0 /\ Cardinality(Found) = 0 /\ mst \in Seq(edges)
  BY <1>1, FS_EmptySet
<1>3. IsForest(Found) /\ Cheap(Found, Around)
  BY <1>1, AroundProper, CheapEmpty
<1>4. TreeOK
  BY <1>1, <1>2, <1>3 DEF TreeOK
<1>5. numVertices \in Nat
  BY IndicesFinite DEF GraphOK
<1>6. key = [v \in Indices |-> IF v = 0 THEN 0 ELSE IntMax]
      /\ parent = [v \in Indices |-> -1]
  BY SameNumbers DEF Prim!startVertex
<1>7. pq = IF numVertices = 0 THEN {} ELSE {<<0, 0>>}
  BY SameNumbers DEF Prim!startVertex
<1>8. QueueOK
  <2> HIDE DEF Prim!Init
  <2>1. 0 \in Ints
    BY <1>0 DEF Ints
  <2>2. numVertices # 0 => 0 \in Indices
    BY <1>5 DEF Indices
  <2>3. numVertices = 0 => Indices = {}
    BY DEF Indices
  <2>4. status = IF numVertices = 0 THEN "done" ELSE "running"
    BY SameNumbers DEF Prim!Init
  <2>5. pq \subseteq Ints \X Indices
    <3>1. numVertices # 0 => <<0, 0>> \in Ints \X Indices
      BY <2>1, <2>2
    <3> QED
      BY <1>7, <3>1
  <2>6. Indices # {} => pq = {<<0, 0>>}
    BY <1>7, <2>3
  <2>7. (status = "running" => pq # {}) /\ (status = "done" => pq = {})
    BY <1>7, <2>4
  <2> QED
    BY <1>1, <2>5, <2>6, <2>7 DEF QueueOK
<1>9. ASSUME NEW v \in Indices, v # 0 PROVE KeyOK(v)
  <2>1. IntMax \in Ints
    BY <1>0 DEF Ints
  <2> QED
    BY <1>1, <1>6, <1>9, <2>1 DEF KeyOK
<1>10. key \in [Indices -> Int] /\ parent \in [Indices -> Indices \cup {-1}]
       /\ (Indices # {} => parent[0] = -1)
  <2>1. Indices # {} => 0 \in Indices
    BY <1>5 DEF Indices
  <2> QED
    BY <1>0, <1>6, <2>1
<1>11. status \in {"running", "done", "outOfBounds"}
  OBVIOUS
<1> QED
  BY <1>1, <1>4, <1>8, <1>9, <1>10, <1>11 DEF PInv

LEMMA SameGraph ==
  ASSUME UNCHANGED <<vertices, edges>>
  PROVE  /\ Indices' = Indices /\ numVertices' = numVertices /\ Usable' = Usable
         /\ Around' = Around /\ \A u : Prim!Neighbors(u)' = Prim!Neighbors(u)
BY DEF Indices, numVertices, Usable, Around, Prim!Neighbors

LEMMA PrimSkips ==
  ASSUME GraphOK, PInv, Prim!Skip
  PROVE  PInv'
<1> DEFINE t == Prim!Top
<1>1. /\ t[2] \in visited /\ pq' = pq \ {t}
      /\ UNCHANGED <<vertices, edges, mst, visited, key, parent>>
      /\ status' = IF pq' = {} THEN "done" ELSE "running"
  BY DEF Prim!Skip, Prim!Over, Prim!graph
<1> HIDE DEF t
<1>2. /\ Indices' = Indices /\ numVertices' = numVertices /\ Usable' = Usable
      /\ Around' = Around /\ Found' = Found
      /\ \A u : Prim!Neighbors(u)' = Prim!Neighbors(u)
  BY <1>1, SameGraph DEF Found
<1>3. TreeOK'
  BY <1>1, <1>2 DEF PInv, TreeOK
<1>4. QueueOK'
  BY <1>1, <1>2 DEF PInv, QueueOK
<1>5. ASSUME NEW v \in Indices' \ visited', v # 0 PROVE KeyOK(v)'
  <2>1. KeyOK(v) /\ v \notin visited
    BY <1>1, <1>2, <1>5 DEF PInv
  <2>2. <<key[v], v>> # t
    BY <1>1, <2>1
  <2> QED
    BY <1>1, <1>2, <2>1, <2>2 DEF KeyOK
<1>6. visited' \subseteq Indices' /\ key' \in [Indices' -> Int]
      /\ parent' \in [Indices' -> Indices' \cup {-1}] /\ visited' # {}
  BY <1>1, <1>2 DEF PInv
<1>7. \A u \in visited' : Prim!Neighbors(u)' \subseteq Indices'
  BY <1>1, <1>2 DEF PInv
<1>8. status' \in {"running", "done", "outOfBounds"}
  BY <1>1
<1> QED
  BY <1>3, <1>4, <1>5, <1>6, <1>7, <1>8 DEF PInv

LEMMA PrimKeeps ==
  ASSUME PInv, UNCHANGED <<vertices, edges, mst, visited, key, parent, pq>>,
         status' = "outOfBounds" \/ status' = status
  PROVE  PInv'
<1>1. UNCHANGED <<vertices, edges, mst, visited, key, parent, pq>>
  OBVIOUS
<1>2. /\ Indices' = Indices /\ numVertices' = numVertices /\ Usable' = Usable
      /\ Around' = Around /\ Found' = Found
      /\ \A u : Prim!Neighbors(u)' = Prim!Neighbors(u)
  BY <1>1, SameGraph DEF Found
<1>3. TreeOK'
  BY <1>1, <1>2 DEF PInv, TreeOK
<1>4. QueueOK'
  BY <1>1, <1>2 DEF PInv, QueueOK
<1>5. ASSUME NEW v \in Indices' \ visited', v # 0 PROVE KeyOK(v)'
  <2>1. KeyOK(v)
    BY <1>1, <1>2, <1>5 DEF PInv
  <2> QED
    BY <1>1, <1>2, <2>1 DEF KeyOK
<1>6. visited' \subseteq Indices' /\ key' \in [Indices' -> Int]
      /\ parent' \in [Indices' -> Indices' \cup {-1}]
      /\ (visited' = {} /\ Indices' # {} => parent'[0] = -1)
  BY <1>1, <1>2 DEF PInv
<1>7. \A u \in visited' : Prim!Neighbors(u)' \subseteq Indices'
  BY <1>1, <1>2 DEF PInv
<1> QED
  BY <1>1, <1>3, <1>4, <1>5, <1>6, <1>7 DEF PInv

\* What Visit does, on the vertex u at the top of the queue.
Visits(t, u, closer) ==
  /\ t \in pq /\ \A q \in pq : t[1] <= q[1]
  /\ u = t[2] /\ u \in Indices /\ u \notin visited
  /\ Prim!Neighbors(u) \subseteq Indices
  /\ closer = {v \in Prim!Neighbors(u) \ (visited \cup {u}) :
                 Prim!WeightBetween(u, v) < key[v]}
  /\ visited' = visited \cup {u}
  /\ mst' = IF parent[u] = -1 THEN mst ELSE Append(mst, Edge(parent[u], u, key[u]))
  /\ key' = [v \in Indices |-> IF v \in closer THEN Prim!WeightBetween(u, v) ELSE key[v]]
  /\ parent' = [v \in Indices |-> IF v \in closer THEN u ELSE parent[v]]
  /\ pq' = (pq \ {t}) \cup {<<key'[v], v>> : v \in closer}
  /\ status' = IF pq' = {} THEN "done" ELSE "running"
  /\ UNCHANGED <<vertices, edges>>

LEMMA VisitVisits ==
  ASSUME GraphOK, PInv, Prim!Visit
  PROVE  \E t, u, closer : Visits(t, u, closer)
<1> DEFINE t == Prim!Top
           u == t[2]
           closer == {v \in Prim!Neighbors(u) \ (visited \cup {u}) :
                        Prim!WeightBetween(u, v) < key[v]}
           keys == [v \in Indices |-> IF v \in closer THEN Prim!WeightBetween(u, v) ELSE key[v]]
<1>1. status = "running"
  BY DEF Prim!Visit
<1>2. t \in pq /\ \A q \in pq : t[1] <= q[1]
  <2>1. pq # {} /\ pq \subseteq Ints \X Indices
    BY <1>1 DEF PInv, QueueOK
  <2>2. numVertices \in Nat
    BY IndicesFinite DEF GraphOK
  <2> QED
    BY <2>1, <2>2, TopIsLeast
<1>3. u \in Indices
  <2> HIDE DEF t
  <2> QED
    BY <1>2 DEF PInv, QueueOK
<1>4. /\ u \notin visited /\ Prim!Neighbors(u) \subseteq Indices
      /\ visited' = visited \cup {u}
      /\ mst' = (IF parent[u] = -1 THEN mst ELSE Append(mst, Edge(parent[u], u, key[u])))
      /\ key' = keys
      /\ parent' = [v \in Indices |-> IF v \in closer THEN u ELSE parent[v]]
      /\ pq' = (pq \ {t}) \cup {<<keys[v], v>> : v \in closer}
      /\ status' = (IF pq' = {} THEN "done" ELSE "running")
      /\ UNCHANGED <<vertices, edges>>
  BY SameNumbers DEF Prim!Visit, Prim!MstWith, Prim!Over, Prim!graph, Edge
<1>5. pq' = (pq \ {t}) \cup {<<key'[v], v>> : v \in closer}
  BY <1>4
<1>6. closer = {v \in Prim!Neighbors(u) \ (visited \cup {u}) :
                  Prim!WeightBetween(u, v) < key[v]}
  OBVIOUS
<1> HIDE DEF t, u, closer
<1>7. u = t[2]
  BY DEF u
<1>8. Visits(t, u, closer)
  BY <1>2, <1>3, <1>4, <1>5, <1>6, <1>7 DEF Visits
<1> QED
  BY <1>8

LEMMA VisitKeys ==
  ASSUME GraphOK, PInv, NEW t, NEW u, NEW closer, Visits(t, u, closer),
         NEW v \in Indices \ visited', v # 0
  PROVE  KeyOK(v)' /\ key'[v] <= key[v]
<1> USE DEF Visits
<1>0. IntMax \in Nat /\ IntMax \in Int
  BY EdgeInputsAssumption
<1>1. KeyOK(v) /\ v \notin visited /\ v # u
  BY DEF PInv
<1>2. Usable' = Usable
  BY SameGraph
<1>3. key[v] \in Ints /\ key[v] \in Int /\ key[v] <= IntMax
  BY <1>0, <1>1 DEF KeyOK, Ints
<1>4. CASE v \in closer
  <2> DEFINE w == Prim!WeightBetween(u, v)
  <2>1. v \in Prim!Neighbors(u) /\ w < key[v]
    BY <1>4
  <2>2. /\ Edge(u, v, w) \in edges /\ w \in Ints
        /\ \A f \in edges : f.ends = {u, v} => w <= f.weight
    BY <2>1, LightestBetween DEF Edge
  <2>3. key'[v] = w /\ parent'[v] = u /\ <<key'[v], v>> \in pq'
    BY <1>4
  <2> HIDE DEF w, Visits
  <2>4. w \in Int
    BY <1>0, <2>2 DEF Ints
  <2>5. ASSUME NEW e \in Usable, NEW x \in visited', e.ends = {x, v} PROVE w <= e.weight
    <3>1. e \in edges /\ e.weight \in Int
      BY EdgesAre DEF Usable
    <3>2. x \in visited \/ x = u
      BY DEF Visits
    <3>3. x \in visited => key[v] <= e.weight
      BY <1>1, <2>5 DEF KeyOK
    <3> QED
      BY <1>3, <2>1, <2>2, <2>4, <2>5, <3>1, <3>2, <3>3
  <2>6. u \in visited'
    BY DEF Visits
  <2>7. KeyOK(v)'
    BY <1>2, <2>2, <2>3, <2>5, <2>6 DEF KeyOK, Visits
  <2> QED
    BY <1>3, <2>1, <2>3, <2>4, <2>7
<1>5. CASE v \notin closer
  <2>1. key'[v] = key[v] /\ parent'[v] = parent[v]
    BY <1>5
  <2>2. <<key[v], v>> # t
    BY <1>1
  <2>3. key[v] # IntMax => <<key'[v], v>> \in pq' /\ parent'[v] \in visited'
                           /\ Edge(parent'[v], v, key'[v]) \in edges
    BY <1>1, <2>1, <2>2 DEF KeyOK
  <2>4. ASSUME NEW e \in Usable, NEW x \in visited', e.ends = {x, v} PROVE key[v] <= e.weight
    <3>1. e \in edges /\ e.weight \in Int
      BY EdgesAre DEF Usable
    <3>2. CASE x \in visited
      BY <1>1, <2>4, <3>2 DEF KeyOK
    <3>3. CASE x = u
      <4>1. v \in Prim!Neighbors(u)
        BY <2>4, <3>1, <3>3, NeighborsAre
      <4> DEFINE w == Prim!WeightBetween(u, v)
      <4>2. w \in Ints /\ w <= e.weight
        BY <2>4, <3>1, <3>3, <4>1, LightestBetween
      <4>3. ~(w < key[v])
        BY <1>1, <1>5, <4>1
      <4> HIDE DEF w
      <4>4. w \in Int
        BY <1>0, <4>2 DEF Ints
      <4> QED
        BY <1>3, <3>1, <4>2, <4>3, <4>4
    <3> QED
      BY <3>2, <3>3
  <2> HIDE DEF Visits
  <2>5. KeyOK(v)'
    BY <1>2, <1>3, <2>1, <2>3, <2>4 DEF KeyOK, Visits
  <2> QED
    BY <1>3, <2>1, <2>5
<1> QED
  BY <1>4, <1>5

LEMMA VisitQueue ==
  ASSUME GraphOK, PInv, NEW t, NEW u, NEW closer, Visits(t, u, closer)
  PROVE  QueueOK'
<1>0. IntMax \in Nat /\ IntMax \in Int
  BY EdgeInputsAssumption
<1>1. Indices' = Indices
  BY SameGraph DEF Visits
<1>2. ASSUME NEW v \in closer
      PROVE  v \in Indices /\ v # 0 /\ v \notin visited' /\ key'[v] \in Ints /\ key'[v] < key[v]
             /\ key[v] \in Ints
  <2>1. v \in Indices /\ v \notin visited' /\ key'[v] < key[v]
    BY DEF Visits
  <2>2. v \in Prim!Neighbors(u) /\ key'[v] = Prim!WeightBetween(u, v)
    BY <2>1 DEF Visits
  <2>3. key'[v] \in Ints
    BY <2>2, LightestBetween
  <2>4. v # 0
    <3>1. CASE visited = {}
      <4>1. pq = {<<0, 0>>}
        BY <2>1, <3>1 DEF PInv, QueueOK
      <4>2. u = 0
        BY <4>1 DEF Visits
      <4> QED
        BY <2>1, <4>2 DEF Visits
    <3>2. CASE visited # {}
      BY <2>1, <3>2 DEF PInv, TreeOK, Visits
    <3> QED
      BY <3>1, <3>2
  <2>5. key[v] \in Ints
    BY <2>1, <2>4 DEF PInv, KeyOK, Visits
  <2> QED
    BY <2>1, <2>3, <2>4, <2>5
<1>3. pq' \subseteq Ints \X Indices
  <2>1. pq \subseteq Ints \X Indices
    BY DEF PInv, QueueOK
  <2>2. \A v \in closer : <<key'[v], v>> \in Ints \X Indices
    BY <1>2
  <2>3. ASSUME NEW p \in pq' PROVE p \in pq \/ \E v \in closer : p = <<key'[v], v>>
    BY DEF Visits
  <2> QED
    BY <2>1, <2>2, <2>3
<1>4. ASSUME NEW p \in pq', p[2] \notin visited'
      PROVE  key'[p[2]] <= p[1] /\ key'[p[2]] # IntMax
  <2>1. CASE p \in pq /\ p # t
    <3>1. visited # {}
      BY <2>1 DEF PInv, QueueOK, Visits
    <3>2. p[2] \notin visited /\ p[2] \in Indices /\ p[1] \in Ints
      BY <1>4, <2>1 DEF PInv, QueueOK, Visits
    <3>3. key[p[2]] <= p[1] /\ key[p[2]] # IntMax
      BY <2>1, <3>1, <3>2 DEF PInv, QueueOK
    <3>4. p[2] # 0
      BY <3>1, <3>2 DEF PInv, TreeOK
    <3>5. KeyOK(p[2])' /\ key'[p[2]] <= key[p[2]] /\ KeyOK(p[2])
      BY <1>4, <3>2, <3>4, VisitKeys DEF PInv
    <3>6. key'[p[2]] \in Ints /\ key[p[2]] \in Ints
      BY <3>5 DEF KeyOK
    <3> QED
      BY <1>0, <3>2, <3>3, <3>5, <3>6 DEF Ints
  <2>2. CASE ~(p \in pq /\ p # t)
    <3>1. PICK v \in closer : p = <<key'[v], v>>
      BY <2>2 DEF Visits
    <3>2. key'[v] \in Ints /\ key[v] \in Ints /\ key'[v] < key[v]
      BY <1>2
    <3> QED
      BY <1>0, <3>1, <3>2 DEF Ints
  <2> QED
    BY <2>1, <2>2
<1>5. visited' # {} /\ (status' = "running" => pq' # {}) /\ (status' = "done" => pq' = {})
  BY DEF Visits
<1> QED
  BY <1>1, <1>3, <1>4, <1>5 DEF QueueOK

\* The start is a tree of its own.
LEMMA VisitStart ==
  ASSUME GraphOK, PInv, NEW t, NEW u, NEW closer, Visits(t, u, closer), visited = {}
  PROVE  TreeOK'
<1>1. u = 0 /\ parent[0] = -1
  <2>1. pq = {<<0, 0>>}
    BY DEF PInv, QueueOK, Visits
  <2> QED
    BY <2>1 DEF PInv, Visits
<1>2. mst' = mst /\ visited' = {0} /\ edges' = edges
  BY <1>1 DEF Visits
<1>3. Found' = Found /\ Around' = Around
  BY <1>2, SameGraph DEF Found, Visits
<1>4. 0 \in Reach(Found, 0)
  BY FoundProper, ReachIsClosure DEF PInv
<1> QED
  BY <1>2, <1>3, <1>4 DEF PInv, TreeOK

\* Every other vertex is connected to the tree by a lightest edge out of it.
LEMMA VisitOther ==
  ASSUME GraphOK, PInv, NEW t, NEW u, NEW closer, Visits(t, u, closer), visited # {}
  PROVE  TreeOK'
<1>0. IntMax \in Nat /\ IntMax \in Int
  BY EdgeInputsAssumption
<1>1. u # 0 /\ u \in Indices /\ u \notin visited /\ KeyOK(u)
  BY DEF PInv, TreeOK, Visits
<1>2. key[u] # IntMax /\ key[u] <= t[1] /\ t[1] \in Ints
  BY <1>1 DEF PInv, QueueOK, Visits
<1> DEFINE x == parent[u]
           e == Edge(x, u, key[u])
           F == Found
           H == Found \cup {e}
<1>3. x \in visited /\ e \in edges /\ e.ends = {x, u} /\ e.weight = key[u]
  BY <1>1, <1>2 DEF KeyOK, Edge
<1>4. mst' = Append(mst, e)
  BY <1>3 DEF Visits, PInv, Indices
<1>5. Found' = H /\ Len(mst') = Len(mst) + 1 /\ mst' \in Seq(edges)
  BY <1>3, <1>4, FoundWith DEF PInv, TreeOK
<1>6. Around' = Around /\ edges' = edges /\ visited' = visited \cup {u}
  BY SameGraph DEF Visits
<1>7. IsFiniteSet(F) /\ HaveEnds(F) /\ IsForest(F) /\ ClosedUnder(F, visited)
  BY FoundProper DEF PInv, TreeOK, ClosedUnder
<1>8. visited \subseteq Reach(F, 0) /\ 0 \in visited
  BY DEF PInv, TreeOK
<1> HIDE DEF x, e, F, H
<1>9. e \notin F
  BY <1>1, <1>3, <1>7 DEF ClosedUnder
<1>10. IsFiniteSet(H) /\ Cardinality(H) = Cardinality(F) + 1
  BY <1>7, <1>9, FS_AddElement DEF H, F
<1>11. IsForest(H)
  <2>1. Reach(F, x) \subseteq visited
    BY <1>3, <1>7, ReachIsClosure
  <2>2. u \notin Reach(F, x)
    BY <1>1, <2>1
  <2> QED
    BY <1>3, <1>7, <2>2, ForestWith DEF H, F
<1>12. e \in Around /\ Proper(Around) /\ F \subseteq Around /\ IsFiniteSet(Usable)
  <2>1. F \subseteq Around /\ Proper(Around) /\ Proper(Usable) /\ Around \subseteq Usable
    BY AroundProper DEF PInv, TreeOK, F, Around
  <2>2. e \in Usable
    BY <1>2, <1>3 DEF Usable
  <2>3. F \subseteq Usable /\ IsFiniteSet(Usable)
    BY <2>1 DEF Proper
  <2>4. Reach(F, 0) \subseteq Reach(Usable, 0)
    BY <2>3, ReachMore
  <2>5. x \in Reach(Usable, 0)
    BY <1>3, <1>8, <2>4
  <2> QED
    BY <1>3, <2>1, <2>2, <2>3, <2>5 DEF Around
<1>13. LightestOut(e, visited, Around)
  <2>1. e.ends \cap visited # {} /\ ~(e.ends \subseteq visited)
    BY <1>1, <1>3
  <2>2. ASSUME NEW f \in Around, f.ends \cap visited # {}, ~(f.ends \subseteq visited)
        PROVE  e.weight <= f.weight
    <3>1. f \in edges /\ f \in Usable /\ f.weight # IntMax
      BY DEF Around, Usable
    <3>2. PICK p, q : f.ends = {p, q}
      BY <1>12 DEF Proper, HaveEnds
    <3>3. PICK a, b : f.ends = {a, b} /\ a \in visited /\ b \notin visited
      BY <2>2, <3>2
    <3>4. b \in Indices
      BY <3>1, <3>3, NeighborsAre DEF PInv
    <3>5. KeyOK(b)
      BY <1>8, <3>3, <3>4 DEF PInv
    <3>6. key[b] <= f.weight /\ key[b] \in Ints
      BY <3>1, <3>3, <3>5 DEF KeyOK
    <3>7. f.weight \in Ints
      BY <3>1, EdgesAre
    <3>8. key[b] # IntMax
      BY <1>0, <3>1, <3>6, <3>7 DEF Ints
    <3>9. <<key[b], b>> \in pq
      BY <3>5, <3>8 DEF KeyOK
    <3>10. t[1] <= key[b]
      BY <3>9 DEF Visits
    <3>11. key[u] \in Ints
      BY <1>1 DEF KeyOK
    <3> QED
      BY <1>0, <1>2, <1>3, <3>6, <3>7, <3>10, <3>11 DEF Ints
  <2> QED
    BY <1>12, <2>1, <2>2 DEF LightestOut
<1>14. Cheap(H, Around)
  <2>1. Cheap(F, Around)
    BY DEF PInv, TreeOK, F
  <2> QED
    BY <1>7, <1>12, <1>13, <2>1, CheapWith DEF H, F
<1>15. visited' \subseteq Reach(H, 0) /\ 0 \in visited'
  <2>1. ClosedUnder(H, Reach(H, 0)) /\ Reach(F, 0) \subseteq Reach(H, 0)
    BY <1>10, ReachIsClosure, ReachMore DEF H, F
  <2>2. e \in H /\ x \in Reach(H, 0)
    BY <1>3, <1>8, <2>1 DEF H
  <2>3. u \in Reach(H, 0)
    BY <1>3, <2>1, <2>2 DEF ClosedUnder
  <2> QED
    BY <1>6, <1>8, <2>1, <2>3
<1>16. \A f \in H : f.ends \subseteq visited'
  <2>1. \A f \in F : f.ends \subseteq visited
    BY DEF PInv, TreeOK, F
  <2> QED
    BY <1>3, <1>6, <2>1 DEF H, F
<1>17. H \subseteq Around /\ Cardinality(H) = Len(mst')
  BY <1>5, <1>10, <1>12 DEF H, F, PInv, TreeOK
<1> QED
  BY <1>5, <1>6, <1>11, <1>14, <1>15, <1>16, <1>17 DEF TreeOK

LEMMA PrimVisits ==
  ASSUME GraphOK, PInv, Prim!Visit
  PROVE  PInv'
<1>1. PICK t, u, closer : Visits(t, u, closer)
  BY VisitVisits
<1>2. /\ Indices' = Indices /\ \A v : Prim!Neighbors(v)' = Prim!Neighbors(v)
  BY <1>1, SameGraph DEF Visits
<1>3. TreeOK'
  BY <1>1, VisitStart, VisitOther
<1>4. QueueOK'
  BY <1>1, VisitQueue
<1>5. \A v \in Indices' \ visited' : v # 0 => KeyOK(v)'
  BY <1>1, <1>2, VisitKeys
<1>6. visited' \subseteq Indices' /\ visited' # {}
      /\ \A v \in visited' : Prim!Neighbors(v)' \subseteq Indices'
  BY <1>1, <1>2 DEF Visits, PInv
<1>7. parent' \in [Indices' -> Indices' \cup {-1}]
  BY <1>1, <1>2 DEF Visits, PInv
<1>8. key' \in [Indices' -> Int]
  <2>1. \A v \in closer : Prim!WeightBetween(u, v) \in Ints
    <3>1. closer \subseteq Prim!Neighbors(u)
      BY <1>1 DEF Visits
    <3> QED
      BY <3>1, LightestBetween
  <2>2. Ints \subseteq Int
    BY EdgeInputsAssumption DEF Ints
  <2>3. key' = [v \in Indices |-> IF v \in closer THEN Prim!WeightBetween(u, v) ELSE key[v]]
    BY <1>1 DEF Visits
  <2> QED
    BY <1>2, <2>1, <2>2, <2>3 DEF PInv
<1>9. status' \in {"running", "done", "outOfBounds"}
  BY <1>1 DEF Visits
<1> QED
  BY <1>3, <1>4, <1>5, <1>6, <1>7, <1>8, <1>9 DEF PInv

LEMMA PrimEnd ==
  ASSUME GraphOK, PInv, status = "done"
  PROVE  /\ Cardinality(Found) = Len(mst)
         /\ IsMinimumSpanningForest(Found, Around)
         /\ Covered(Around) \subseteq Indices
<1>0. IntMax \in Nat /\ IntMax \in Int
  BY EdgeInputsAssumption
<1>1. pq = {} /\ TreeOK
  BY DEF PInv, QueueOK
<1>2. /\ Proper(Around) /\ IsFiniteSet(Usable) /\ Found \subseteq Around
      /\ IsFiniteSet(Found) /\ HaveEnds(Usable)
  BY <1>1, AroundProper, FoundProper DEF TreeOK, Proper
<1>3. CASE visited = {}
  <2>1. Indices = {}
    BY <1>1, <1>3 DEF PInv, QueueOK
  <2>2. numVertices = 0
    <3>1. numVertices \in Nat
      BY IndicesFinite DEF GraphOK
    <3> QED
      BY <2>1, <3>1 DEF Indices
  <2>3. vertices = {}
    BY <2>2, FS_EmptySet DEF GraphOK, numVertices
  <2>4. Around = {}
    BY <1>2, <2>3 DEF Around, Usable, GraphOK, Proper, HaveEnds
  <2> QED
    BY <1>1, <1>2, <2>1, <2>4, CheapMinimal DEF TreeOK, Covered, Spans
<1>4. CASE visited # {}
  <2>1. 0 \in visited /\ visited \subseteq Reach(Found, 0)
    BY <1>1, <1>4 DEF TreeOK
  <2>2. ClosedUnder(Usable, visited)
    <3> SUFFICES ASSUME NEW f \in Usable, NEW a \in f.ends, a \in visited,
                        NEW b \in f.ends, b \notin visited
                 PROVE  FALSE
      BY DEF ClosedUnder
    <3>1. f \in edges /\ f.weight # IntMax /\ f.ends = {a, b}
      BY <1>2 DEF Usable, HaveEnds
    <3>2. b \in Indices /\ b # 0
      BY <2>1, <3>1, NeighborsAre DEF PInv
    <3>3. KeyOK(b)
      BY <3>2 DEF PInv
    <3>4. key[b] <= f.weight /\ key[b] \in Ints
      BY <3>1, <3>3 DEF KeyOK
    <3>5. f.weight \in Ints
      BY <3>1, EdgesAre
    <3>6. key[b] # IntMax
      BY <1>0, <3>1, <3>4, <3>5 DEF Ints
    <3> QED
      BY <1>1, <3>3, <3>6 DEF KeyOK
  <2>3. Reach(Usable, 0) \subseteq visited /\ ClosedUnder(Usable, Reach(Usable, 0))
    BY <1>2, <2>1, <2>2, ReachIsClosure
  <2>4. \A e \in Around : e.ends \subseteq visited
    BY <2>3 DEF Around, ClosedUnder
  <2>5. Covered(Around) \subseteq Indices
    BY <2>4 DEF Covered, PInv
  <2>6. \A e \in Around : \A a, b \in e.ends : b \in Reach(Found, a)
    <3>1. \A a, b \in visited : b \in Reach(Found, a)
      BY <1>2, <2>1, ReachSame
    <3> QED
      BY <2>4, <3>1
  <2>7. Spans(Found, Around)
    BY <1>2, <2>6, ConnectsSpans DEF Proper
  <2>8. IsMinimumSpanningForest(Found, Around)
    BY <1>1, <1>2, <2>7, CheapMinimal DEF TreeOK
  <2> QED
    BY <1>1, <2>5, <2>8 DEF TreeOK
<1> QED
  BY <1>3, <1>4

-----------------------------------------------------------------------------
(* Every step of either algorithm.                                          *)

IInv ==
  /\ GraphOK
  /\ algorithm \in {"kruskal", "prim"}
  /\ algorithm = "kruskal" => KInv
  /\ algorithm = "prim" => PInv
  /\ FaultOnlyWithGaps

LEMMA InitGraph ==
  ASSUME vertices \in SUBSET (0 .. MaxVertices - 1), edges \in EdgeSets(EdgesOn(vertices))
  PROVE  GraphOK
<1>1. IsFiniteSet(vertices)
  <2>1. IsFiniteSet(0 .. MaxVertices - 1)
    BY EdgeInputsAssumption, FS_Interval
  <2> QED
    BY <2>1, FS_Subset
<1>2. edges \subseteq EdgesOn(vertices) /\ IsFiniteSet(edges)
  <2>1. CASE edges = {}
    BY <2>1, FS_EmptySet
  <2>2. CASE edges # {}
    <3>1. PICK f \in [1 .. MaxEdges -> EdgesOn(vertices)] : edges = Range(f)
      BY <2>2 DEF EdgeSets
    <3>2. edges \subseteq EdgesOn(vertices)
      BY <3>1 DEF Range
    <3>3. IsFiniteSet(1 .. MaxEdges)
      BY EdgeInputsAssumption, FS_Interval
    <3>4. f \in Surjection(1 .. MaxEdges, edges)
      BY <3>1 DEF Surjection, Range
    <3>5. IsFiniteSet(edges)
      <4> DEFINE D == 1 .. MaxEdges
      <4> HIDE DEF D
      <4> QED
        BY <3>3, <3>4, FS_Surjection DEF D
    <3> QED
      BY <3>2, <3>5
  <2> QED
    BY <2>1, <2>2
<1>3. edges \subseteq EdgeInputs /\ \A e \in edges : e.ends \subseteq vertices
  BY <1>2 DEF EdgesOn
<1>4. HaveEnds(edges) /\ IntWeights(edges)
  <2>1. ASSUME NEW e \in edges PROVE (\E u, v : e.ends = {u, v}) /\ e.weight \in Int
    <3>1. e \in [ends : {{u, v} : u, v \in 0 .. MaxVertices - 1},
                 weight : -(IntMax + 1) .. IntMax]
      BY <1>3, EdgeInputsAssumption
    <3>2. e.ends \in {{u, v} : u, v \in 0 .. MaxVertices - 1}
          /\ e.weight \in -(IntMax + 1) .. IntMax
      BY <3>1
    <3>3. PICK u \in 0 .. MaxVertices - 1, v \in 0 .. MaxVertices - 1 : e.ends = {u, v}
      BY <3>2
    <3>4. e.weight \in Int
      BY <3>2, EdgeInputsAssumption
    <3> QED
      BY <3>3, <3>4
  <2> QED
    BY <2>1 DEF HaveEnds, IntWeights
<1> QED
  BY <1>1, <1>2, <1>3, <1>4 DEF GraphOK, Proper

LEMMA InitIInv == Init => IInv
<1> SUFFICES ASSUME Init PROVE IInv
  OBVIOUS
<1>1. GraphOK
  BY InitGraph DEF Init
<1>2. algorithm = "kruskal" => KInv
  BY <1>1, KruskalStart DEF Init
<1>3. algorithm = "prim" => PInv
  BY <1>1, PrimStart DEF Init
<1>4. status # "outOfBounds" /\ algorithm \in {"kruskal", "prim"}
  BY DEF Init, Kruskal!Init, Prim!Init
<1> QED
  BY <1>1, <1>2, <1>3, <1>4 DEF IInv, FaultOnlyWithGaps

LEMMA SameGraphOK ==
  ASSUME GraphOK, UNCHANGED <<vertices, edges>>
  PROVE  GraphOK'
BY DEF GraphOK

LEMMA KruskalStep ==
  ASSUME IInv, RunKruskal
  PROVE  IInv'
<1>1. algorithm = "kruskal" /\ algorithm' = "kruskal" /\ GraphOK /\ KInv
  BY DEF IInv, RunKruskal
<1>2. PICK e \in edges : Kruskal!Consider(e) \/ Kruskal!ConsiderOutside(e)
  BY DEF RunKruskal, Kruskal!Next
<1>3. CASE Kruskal!Consider(e)
  <2>1. UNCHANGED <<vertices, edges>> /\ status' # "outOfBounds"
    BY <1>3 DEF Kruskal!Consider, Kruskal!graph
  <2>2. KInv'
    BY <1>1, <1>3, KruskalConsiders
  <2> QED
    BY <1>1, <2>1, <2>2, SameGraphOK DEF IInv, FaultOnlyWithGaps
<1>4. CASE Kruskal!ConsiderOutside(e)
  <2>1. UNCHANGED <<vertices, edges, mst, remaining, sets>> /\ status' = "outOfBounds"
    BY <1>4 DEF Kruskal!ConsiderOutside, Kruskal!graph
  <2>2. KInv'
    BY <1>1, <2>1, KruskalKeeps
  <2>3. vertices # Indices
    BY <1>1, <1>4, SameNumbers DEF Kruskal!ConsiderOutside, GraphOK
  <2>4. FaultOnlyWithGaps'
    BY <2>1, <2>3 DEF FaultOnlyWithGaps, Indices, numVertices
  <2> QED
    BY <1>1, <2>1, <2>2, <2>4, SameGraphOK DEF IInv
<1> QED
  BY <1>2, <1>3, <1>4

LEMMA PrimStep ==
  ASSUME IInv, RunPrim
  PROVE  IInv'
<1>1. algorithm = "prim" /\ algorithm' = "prim" /\ GraphOK /\ PInv
  BY DEF IInv, RunPrim
<1>2. CASE Prim!Skip \/ Prim!Visit
  <2>1. UNCHANGED <<vertices, edges>> /\ status' # "outOfBounds"
    BY <1>2 DEF Prim!Skip, Prim!Visit, Prim!graph
  <2>2. PInv'
    BY <1>1, <1>2, PrimSkips, PrimVisits
  <2> QED
    BY <1>1, <2>1, <2>2, SameGraphOK DEF IInv, FaultOnlyWithGaps
<1>3. CASE Prim!VisitOutside
  <2>1. UNCHANGED <<vertices, edges, mst, visited, key, parent, pq>>
        /\ status' = "outOfBounds"
    BY <1>3 DEF Prim!VisitOutside, Prim!graph
  <2>2. PInv'
    BY <1>1, <2>1, PrimKeeps
  <2>3. vertices # Indices
    BY <1>1, <1>3, SameNumbers DEF Prim!VisitOutside, Prim!Neighbors, GraphOK
  <2>4. FaultOnlyWithGaps'
    BY <2>1, <2>3 DEF FaultOnlyWithGaps, Indices, numVertices
  <2> QED
    BY <1>1, <2>1, <2>2, <2>4, SameGraphOK DEF IInv
<1> QED
  BY <1>2, <1>3 DEF RunPrim, Prim!Next

LEMMA NextIInv == IInv /\ [Next]_vars => IInv'
<1> SUFFICES ASSUME IInv, [Next]_vars PROVE IInv'
  OBVIOUS
<1>1. CASE RunKruskal
  BY <1>1, KruskalStep
<1>2. CASE RunPrim
  BY <1>2, PrimStep
<1>3. CASE UNCHANGED vars
  <2>1. UNCHANGED <<vertices, edges, algorithm, status, mst, remaining, sets,
                    visited, key, parent, pq>>
    BY <1>3 DEF vars, kruskalVars, primVars
  <2>2. GraphOK' /\ FaultOnlyWithGaps'
    BY <2>1, SameGraphOK DEF IInv, FaultOnlyWithGaps, Indices, numVertices
  <2>3. (algorithm = "kruskal" => KInv') /\ (algorithm = "prim" => PInv')
    BY <2>1, KruskalKeeps, PrimKeeps DEF IInv
  <2> QED
    BY <2>1, <2>2, <2>3 DEF IInv
<1> QED
  BY <1>1, <1>2, <1>3 DEF Next

LEMMA Invariance == Spec => []IInv
BY InitIInv, NextIInv, PTL DEF Spec

LEMMA IInvTypes == IInv => TypeOK
<1> SUFFICES ASSUME IInv PROVE TypeOK
  OBVIOUS
<1>1. ASSUME algorithm = "kruskal" PROVE Kruskal!TypeOK
  <2>1. KInv
    BY <1>1 DEF IInv
  <2>2. sets \in [Indices -> Indices]
    BY <2>1 DEF KInv, Components, RootMap
  <2> QED
    BY <2>1, <2>2, SameNumbers DEF KInv, Kruskal!TypeOK
<1>2. ASSUME algorithm = "prim" PROVE Prim!TypeOK
  <2>1. PInv
    BY <1>2 DEF IInv
  <2>2. pq \subseteq Int \X Indices
    <3>1. Ints \subseteq Int /\ pq \subseteq Ints \X Indices
      BY <2>1, EdgeInputsAssumption DEF Ints, PInv, QueueOK
    <3> QED
      BY <3>1
  <2> QED
    BY <2>1, <2>2, SameNumbers DEF PInv, TreeOK, Prim!TypeOK
<1> QED
  BY <1>1, <1>2 DEF TypeOK

\* The state of either algorithm has its type (KruskalMST.cpp:11, PrimMST.cpp:1).
THEOREM TypeCorrect == Spec => []TypeOK
BY Invariance, IInvTypes, PTL

\* Kruskal's algorithm (KruskalMST.cpp:11) returns a minimum spanning forest of
\* the edges between the ids below numVertices, whatever the order in which
\* std::sort leaves edges of one weight.
THEOREM KruskalCorrect == Spec => []KruskalMinimal
<1>1. IInv => KruskalMinimal
  BY KruskalEnd DEF IInv, KruskalMinimal, Done, Inside
<1> QED
  BY <1>1, Invariance, PTL

\* Prim's algorithm (PrimMST.cpp:1) returns a minimum spanning tree of what
\* vertex 0 reaches over edges lighter than INT_MAX.
THEOREM PrimCorrect == Spec => []PrimMinimal
<1>1. IInv => PrimMinimal
  BY PrimEnd DEF IInv, PrimMinimal, Done, Usable, Around
<1> QED
  BY <1>1, Invariance, PTL

\* Both algorithms stay inside their arrays on every graph from which no
\* vertex has been removed below another one (KruskalMST.cpp:38,
\* PrimMST.cpp:65).
THEOREM NoFaultWithoutGaps == Spec => []FaultOnlyWithGaps
<1>1. IInv => FaultOnlyWithGaps
  BY DEF IInv
<1> QED
  BY <1>1, Invariance, PTL

\* All that the tree has of a connected graph, an edge of it reaches.
LEMMA AllReached ==
  ASSUME IInv, status = "done", GraphConnected
  PROVE  \A e, f \in Found : \A u \in e.ends, w \in f.ends : w \in Reach(Found, u)
<1>1. GraphOK /\ vertices = Indices /\ \A v \in vertices : v \in Reach(edges, 0)
  BY DEF IInv, GraphConnected, Connected
<1>2. IsFiniteSet(edges) /\ Proper(edges)
  BY <1>1 DEF GraphOK, Proper
<1> DEFINE S == Reach(Found, 0)
<1> SUFFICES IsFiniteSet(Found) /\ \A e \in Found : e.ends \subseteq S
  BY ReachSame
<1>3. CASE algorithm = "kruskal"
  <2>1. KInv
    BY <1>3 DEF IInv
  <2>2. Inside = edges
    BY <1>1 DEF Inside, GraphOK
  <2>3. Found \subseteq edges /\ IsFiniteSet(Found) /\ Spans(Found, edges)
    <3>1. IsMinimumSpanningForest(Found, Inside)
      BY <1>1, <2>1, KruskalEnd
    <3> QED
      BY <1>2, <2>2, <3>1, FS_Subset DEF IsMinimumSpanningForest, IsSpanningForest
  <2>4. 0 \in S /\ ClosedUnder(Found, S)
    BY <2>3, ReachIsClosure
  <2>5. ClosedUnder(edges, S)
    BY <1>2, <2>3, ReachSame, SpansConnects DEF ClosedUnder
  <2>6. Reach(edges, 0) \subseteq S
    BY <1>2, <2>4, <2>5, ReachIsClosure
  <2>7. \A e \in Found : e.ends \subseteq vertices
    BY <1>1, <2>3 DEF GraphOK
  <2> QED
    BY <1>1, <2>3, <2>6, <2>7
<1>4. CASE algorithm = "prim"
  <2>1. TreeOK
    BY <1>4 DEF IInv, PInv
  <2> QED
    BY <1>1, <2>1, FoundProper DEF TreeOK
<1> QED
  BY <1>3, <1>4 DEF IInv

\* The answer to calculate_mst and metrics_mst shows all edges of the tree if
\* the graph is connected (Server.cpp:536).
THEOREM WholeTreePrinted == Spec => []TreePrinted
<1>1. ASSUME IInv, status = "done", mst # <<>>, GraphConnected PROVE Printed = Found
  <2>1. \A e, f \in Found : \A u \in e.ends, w \in f.ends : w \in Reach(Found, u)
    BY <1>1, AllReached
  <2>2. mst \in Seq(edges) /\ HaveEnds(edges) /\ Found \subseteq edges
    <3>1. mst \in Seq(edges) /\ GraphOK
      BY <1>1 DEF IInv, KInv, PInv, TreeOK
    <3> QED
      BY <3>1 DEF Found, GraphOK, Proper
  <2>3. mst[1] \in Found
    BY <1>1, <2>2, LenProperties, EmptySeq DEF Found
  <2>4. PICK u, v : mst[1].ends = {u, v}
    BY <2>2, <2>3 DEF HaveEnds
  <2>5. ASSUME NEW e \in Found PROVE e.ends \cap UNION {Reach(Found, x) : x \in mst[1].ends} # {}
    <3>1. PICK a, b : e.ends = {a, b}
      BY <2>2 DEF HaveEnds
    <3>2. a \in Reach(Found, u)
      BY <2>1, <2>3, <2>4, <3>1
    <3> QED
      BY <2>4, <3>1, <3>2
  <2> QED
    BY <2>5 DEF Printed
<1>2. IInv => TreePrinted
  BY <1>1 DEF TreePrinted
<1> QED
  BY <1>2, Invariance, PTL

-----------------------------------------------------------------------------
(* The metrics.  Sums of ints.                                              *)

LEMMA PlusExact ==
  ASSUME NEW x \in Int, NEW y \in Int, 0 <= x + y, x + y <= IntMax
  PROVE  Plus(x, y) = x + y
<1> DEFINE z == x + y + IntMax + 1
           w == 2 * (IntMax + 1)
<1>1. IntMax \in Nat
  BY EdgeInputsAssumption
<1>2. z \in Nat /\ w \in Nat \ {0} /\ z < w
  BY <1>1
<1>3. Plus(x, y) = (z % w) - (IntMax + 1)
  BY DEF Plus, Width
<1> HIDE DEF z, w
<1>4. z % w = z
  <2>1. z \div w \in Nat /\ z % w \in 0 .. w - 1 /\ z = w * (z \div w) + (z % w)
    BY <1>2, DivMod
  <2>2. z \div w = 0
    <3> SUFFICES ASSUME 0 < z \div w PROVE FALSE
      BY <2>1
    <3>1. 0 * w + w <= (z \div w) * w
      BY <1>2, <2>1, Times
    <3>2. (z \div w) * w = w * (z \div w)
      BY <1>2, <2>1
    <3> QED
      BY <1>2, <2>1, <3>1, <3>2
  <2> QED
    BY <1>2, <2>1, <2>2
<1> QED
  BY <1>1, <1>3, <1>4 DEF z

-----------------------------------------------------------------------------
(* The loops' order.                                                        *)

\* The number of iterations before that of k, i and j.
Turn(n, k, i, j) == k * (n * n) + (i * n + j)

LEMMA TurnOrder ==
  ASSUME NEW n \in Nat \ {0},
         NEW v \in 0 .. n - 1, NEW a \in 0 .. n - 1, NEW b \in 0 .. n - 1,
         NEW k \in 0 .. n - 1, NEW i \in 0 .. n - 1, NEW j \in 0 .. n - 1
  PROVE  /\ Turn(n, v, a, b) \in Nat
         /\ v < k => Turn(n, v, a, b) < Turn(n, k, i, j)
         /\ Turn(n, v, a, b) = Turn(n, k, i, j) => v = k /\ a = i /\ b = j
         /\ Turn(n, v, a, b) < n * n * n
<1> DEFINE m == n * n
<1>1. m \in Nat
  OBVIOUS
<1>2. \A x, y \in 0 .. n - 1 : x * n \in Nat /\ x * n + y \in Nat /\ x * n + y < m
  <2> SUFFICES ASSUME NEW x \in 0 .. n - 1, NEW y \in 0 .. n - 1
               PROVE  x * n \in Nat /\ x * n + y \in Nat /\ x * n + y < m
    OBVIOUS
  <2>1. x * n + n <= n * n
    BY Times
  <2>2. x * n \in Nat
    OBVIOUS
  <2> HIDE DEF m
  <2> QED
    BY <2>1, <2>2 DEF m
<1>3. /\ a * n \in Nat /\ a * n + b \in Nat /\ a * n + b < m
      /\ i * n \in Nat /\ i * n + j \in Nat /\ i * n + j < m
  BY <1>2
<1>4. Turn(n, v, a, b) = v * m + (a * n + b) /\ Turn(n, k, i, j) = k * m + (i * n + j)
  BY DEF Turn
<1>5. n * n * n = n * m
  OBVIOUS
<1> HIDE DEF m
<1>6. v * m \in Nat /\ k * m \in Nat
  BY <1>1
<1>7. v < k => v * m + m <= k * m
  BY <1>1, Times
<1>8. k < v => k * m + m <= v * m
  BY <1>1, Times
<1>9. v * m + m <= n * m
  BY <1>1, Times
<1>10. n * m \in Nat
  BY <1>1
<1>11. /\ a < i => a * n + n <= i * n
       /\ i < a => i * n + n <= a * n
  BY Times
<1> DEFINE x == a * n + b
           y == i * n + j
<1>12. x = y => a = i /\ b = j
  BY <1>3, <1>11
<1>13. x \in Nat /\ x < m /\ y \in Nat /\ y < m
  BY <1>3
<1>14. Turn(n, v, a, b) = v * m + x /\ Turn(n, k, i, j) = k * m + y
  BY <1>4
<1> HIDE DEF x, y
<1>15. Turn(n, v, a, b) \in Nat /\ Turn(n, v, a, b) < n * n * n
  BY <1>1, <1>5, <1>6, <1>9, <1>10, <1>13, <1>14
<1>16. v < k => Turn(n, v, a, b) < Turn(n, k, i, j)
  BY <1>1, <1>6, <1>7, <1>13, <1>14
<1>17. Turn(n, v, a, b) = Turn(n, k, i, j) => v = k
  BY <1>1, <1>6, <1>7, <1>8, <1>13, <1>14
<1>18. v = k /\ Turn(n, v, a, b) = Turn(n, k, i, j) => x = y
  BY <1>6, <1>13, <1>14
<1> QED
  BY <1>12, <1>15, <1>16, <1>17, <1>18

\* The loops' variables in iteration q.
LEMMA TurnOf ==
  ASSUME NEW n \in Nat \ {0}, NEW q \in Nat, q < n * n * n
  PROVE  /\ q \div (n * n) \in 0 .. n - 1
         /\ (q \div n) % n \in 0 .. n - 1
         /\ q % n \in 0 .. n - 1
         /\ q = Turn(n, q \div (n * n), (q \div n) % n, q % n)
<1> DEFINE m == n * n
           p == q \div n
           j == q % n
           i == p % n
           k == p \div n
<1>1. p \in Nat /\ j \in 0 .. n - 1 /\ q = n * p + j
  BY DivMod
<1> HIDE DEF p, j
<1>2. k \in Nat /\ i \in 0 .. n - 1 /\ p = n * k + i
  BY <1>1, DivMod
<1> HIDE DEF i, k
<1>3. m \in Nat \ {0}
  <2>1. 0 * n + n <= n * n
    BY Times
  <2> QED
    BY <2>1
<1>4. q = k * m + (i * n + j)
  <2>1. n * (n * k + i) = k * (n * n) + i * n
    BY <1>2
  <2>2. k * (n * n) \in Nat /\ i * n \in Nat
    BY <1>2
  <2> QED
    BY <1>1, <1>2, <2>1, <2>2
<1>5. i * n + j \in Nat /\ i * n + j < m
  <2>1. i * n + n <= n * n
    BY <1>2, Times
  <2>2. i * n \in Nat
    BY <1>2
  <2> QED
    BY <1>1, <2>1, <2>2
<1>6. n * n * n = n * m
  OBVIOUS
<1> DEFINE d == q \div m
           r == q % m
<1>7. d \in Nat /\ r \in 0 .. m - 1 /\ q = m * d + r
  BY <1>3, DivMod
<1> HIDE DEF d, r, m
<1>8. d * m = m * d /\ d * m \in Nat /\ k * m \in Nat
  BY <1>2, <1>3, <1>7
<1>9. d = k
  <2>1. d < k => d * m + m <= k * m
    BY <1>2, <1>3, <1>7, Times
  <2>2. k < d => k * m + m <= d * m
    BY <1>2, <1>3, <1>7, Times
  <2>3. ~(d < k) /\ ~(k < d)
    <3> DEFINE y == i * n + j
    <3>1. y \in Nat /\ y < m /\ q = k * m + y
      BY <1>4, <1>5
    <3> HIDE DEF y
    <3> QED
      BY <1>3, <1>7, <1>8, <2>1, <2>2, <3>1
  <2> QED
    BY <1>2, <1>7, <2>3
<1>10. k < n
  <2> SUFFICES ASSUME n <= k PROVE FALSE
    BY <1>2
  <2>1. n * m <= k * m
    <3>1. n < k => n * m + m <= k * m
      BY <1>2, <1>3, Times
    <3>2. n * m \in Nat
      BY <1>3
    <3> QED
      BY <1>2, <1>3, <1>8, <3>1, <3>2
  <2>2. k * m <= q
    BY <1>4, <1>5, <1>8
  <2> QED
    BY <1>3, <1>6, <1>8, <2>1, <2>2
<1>11. (q \div n) % n = i /\ q % n = j /\ q \div (n * n) = k
  BY <1>9 DEF i, p, j, d, m
<1>12. q = k * (n * n) + (i * n + j)
  BY <1>4 DEF m
<1>13. k \in 0 .. n - 1
  BY <1>2, <1>10
<1>14. q = Turn(n, k, i, j)
  BY <1>12 DEF Turn
<1> QED
  BY <1>1, <1>2, <1>11, <1>13, <1>14

LEMMA ReachCovered ==
  ASSUME NEW F, Tree(F), NEW a, NEW b \in Reach(F, a), b # a
  PROVE  a \in Covered(F) /\ b \in Covered(F)
<1>1. ASSUME NEW x, NEW y \in Reach(F, x), y # x PROVE y \in Covered(F)
  <2> DEFINE S == Covered(F) \cup {x}
  <2>1. ClosedUnder(F, S) /\ x \in S
    BY DEF ClosedUnder, Covered
  <2> HIDE DEF S
  <2>2. Reach(F, x) \subseteq S
    BY <2>1, ReachIsClosure DEF Tree
  <2> QED
    BY <1>1, <2>2 DEF S
<1>2. a \in Reach(F, b)
  BY TreeReach
<1> QED
  BY <1>1, <1>2

-----------------------------------------------------------------------------
(* Floyd-Warshall on the matrix of a tree.                                  *)

\* The vertices of F are indices of a matrix of n rows, and no sum of four
\* distances overflows.
Measurable(F, n) ==
  /\ n \in Nat \ {0}
  /\ Tree(F) /\ Lengths(F) /\ Covered(F) \subseteq 0 .. n - 1
  /\ \A a \in 0 .. n - 1 : \A b \in Reach(F, a) : 4 * Distance(F, a, b) <= IntMax

\* All vertices between a and b have had their turn with them in t iterations.
Settled(F, n, t, a, b) ==
  b \in Reach(F, a) /\ \A v \in Inner(F, a, b) : Turn(n, v, a, b) < t

\* The matrix after t iterations.
Correct(F, n, t, dist) ==
  /\ dist \in [(0 .. n - 1) \X (0 .. n - 1) -> Int]
  /\ \A a, b \in 0 .. n - 1 : a # b =>
       /\ Settled(F, n, t, a, b) => dist[<<a, b>>] = Distance(F, a, b)
       /\ ~Settled(F, n, t, a, b) => dist[<<a, b>>] = IntMax
  /\ \A a \in 0 .. n - 1 :
       dist[<<a, a>>] = IntMax \/ (0 <= dist[<<a, a>>] /\ 2 * dist[<<a, a>>] <= IntMax)

LEMMA DistanceFits ==
  ASSUME NEW F, NEW n, Measurable(F, n), IntMax > 0, NEW a \in 0 .. n - 1, NEW b \in Reach(F, a)
  PROVE  /\ Distance(F, a, b) \in Nat /\ 4 * Distance(F, a, b) <= IntMax
         /\ Distance(F, a, b) < IntMax
<1>1. Distance(F, a, b) \in Nat
  BY DistanceType DEF Measurable
<1>2. 4 * Distance(F, a, b) <= IntMax
  BY DEF Measurable
<1> QED
  BY <1>1, <1>2, EdgeInputsAssumption

LEMMA InnerIndices ==
  ASSUME NEW F, NEW n, Measurable(F, n), NEW a \in 0 .. n - 1, NEW b
  PROVE  Inner(F, a, b) \subseteq 0 .. n - 1
<1> SUFFICES ASSUME NEW v \in Inner(F, a, b) PROVE v \in 0 .. n - 1
  OBVIOUS
<1>1. v \in Reach(F, a) /\ v # a
  BY DEF Inner
<1>2. v \in Covered(F)
  BY <1>1, ReachCovered DEF Measurable
<1> QED
  BY <1>2 DEF Measurable

\* An iteration settles nothing but its own pair.
LEMMA SettledOthers ==
  ASSUME NEW F, NEW n, Measurable(F, n),
         NEW k \in 0 .. n - 1, NEW i \in 0 .. n - 1, NEW j \in 0 .. n - 1,
         NEW a \in 0 .. n - 1, NEW b \in 0 .. n - 1,
         a # i \/ b # j \/ k \notin Inner(F, i, j)
  PROVE  Settled(F, n, Turn(n, k, i, j) + 1, a, b) <=> Settled(F, n, Turn(n, k, i, j), a, b)
<1> DEFINE q == Turn(n, k, i, j)
<1> n \in Nat \ {0}
  BY DEF Measurable
<1>1. q \in Nat
  BY TurnOrder
<1>2. ASSUME NEW v \in Inner(F, a, b) PROVE Turn(n, v, a, b) < q + 1 <=> Turn(n, v, a, b) < q
  <2>1. v \in 0 .. n - 1
    BY InnerIndices
  <2>2. Turn(n, v, a, b) \in Nat /\ (Turn(n, v, a, b) = q => v = k /\ a = i /\ b = j)
    BY <2>1, TurnOrder
  <2>3. Turn(n, v, a, b) # q
    BY <2>2
  <2> HIDE DEF q
  <2> QED
    BY <1>1, <2>2, <2>3
<1> HIDE DEF q
<1>3. Settled(F, n, q + 1, a, b) <=> Settled(F, n, q, a, b)
  BY <1>2 DEF Settled
<1> QED
  BY <1>3 DEF q

\* Both parts of the way are settled before the whole.
LEMMA SettledParts ==
  ASSUME NEW F, NEW n, Measurable(F, n),
         NEW i \in 0 .. n - 1, NEW j \in 0 .. n - 1, NEW k \in 0 .. n - 1,
         j \in Reach(F, i), k \in Inner(F, i, j),
         Settled(F, n, Turn(n, k, i, j) + 1, i, j)
  PROVE  Settled(F, n, Turn(n, k, i, j), i, k) /\ Settled(F, n, Turn(n, k, i, j), k, j)
<1> DEFINE q == Turn(n, k, i, j)
<1>0. n \in Nat \ {0} /\ Tree(F)
  BY DEF Measurable
<1>1. q \in Nat
  BY <1>0, TurnOrder
<1>2. /\ k \in Reach(F, i) /\ j \in Reach(F, k)
      /\ Inner(F, i, k) \subseteq Inner(F, i, j) \ {k}
      /\ Inner(F, k, j) \subseteq Inner(F, i, j) \ {k}
  BY <1>0, InnerOfParts
<1>3. ASSUME NEW v \in Inner(F, i, j), v # k
      PROVE  v \in 0 .. n - 1 /\ v < k
  <2>1. v \in 0 .. n - 1
    BY InnerIndices
  <2>2. Turn(n, v, i, j) < q + 1
    BY DEF Settled
  <2>3. k < v => q < Turn(n, v, i, j)
    BY <1>0, <2>1, TurnOrder
  <2>4. Turn(n, v, i, j) \in Nat /\ (Turn(n, v, i, j) = q => v = k)
    BY <1>0, <2>1, TurnOrder
  <2> HIDE DEF q
  <2> QED
    BY <1>0, <1>1, <1>3, <2>1, <2>2, <2>3, <2>4
<1>4. ASSUME NEW v \in Inner(F, i, k) PROVE Turn(n, v, i, k) < q
  <2>1. v \in Inner(F, i, j) /\ v # k
    BY <1>2
  <2>2. v \in 0 .. n - 1 /\ v < k
    BY <1>3, <2>1
  <2> QED
    BY <1>0, <2>2, TurnOrder
<1>5. ASSUME NEW v \in Inner(F, k, j) PROVE Turn(n, v, k, j) < q
  <2>1. v \in Inner(F, i, j) /\ v # k
    BY <1>2
  <2>2. v \in 0 .. n - 1 /\ v < k
    BY <1>3, <2>1
  <2> QED
    BY <1>0, <2>2, TurnOrder
<1> QED
  BY <1>2, <1>4, <1>5 DEF Settled

\* While a vertex between i and j has yet to come, one of the ways by k is
\* not settled either.
LEMMA Unsettled ==
  ASSUME NEW F, NEW n, Measurable(F, n),
         NEW i \in 0 .. n - 1, NEW j \in 0 .. n - 1, NEW k \in 0 .. n - 1,
         ~Settled(F, n, Turn(n, k, i, j) + 1, i, j)
  PROVE  \/ ~Settled(F, n, Turn(n, k, i, j), i, k)
         \/ ~Settled(F, n, Turn(n, k, i, j), k, j)
<1> DEFINE q == Turn(n, k, i, j)
<1>0. n \in Nat \ {0} /\ Tree(F)
  BY DEF Measurable
<1>1. q \in Nat
  BY <1>0, TurnOrder
<1> SUFFICES ASSUME Settled(F, n, q, i, k), Settled(F, n, q, k, j) PROVE FALSE
  OBVIOUS
<1>2. k \in Reach(F, i) /\ j \in Reach(F, k)
  BY DEF Settled
<1>3. j \in Reach(F, i)
  BY <1>0, <1>2, TreeReach
<1>4. PICK v \in Inner(F, i, j) : ~(Turn(n, v, i, j) < q + 1)
  BY <1>3 DEF Settled
<1>5. v \in 0 .. n - 1
  BY InnerIndices
<1>6. v # k
  BY <1>1, <1>4
<1>7. k < v
  <2>1. v < k => Turn(n, v, i, j) < q
    BY <1>0, <1>5, TurnOrder
  <2>2. Turn(n, v, i, j) \in Nat
    BY <1>0, <1>5, TurnOrder
  <2> HIDE DEF q
  <2> QED
    BY <1>0, <1>1, <1>4, <1>5, <1>6, <2>1, <2>2
<1>8. v \in Inner(F, i, k) \/ v \in Inner(F, k, j)
  BY <1>0, <1>2, <1>3, <1>6, Detour
<1>9. q < Turn(n, v, i, k) /\ q < Turn(n, v, k, j)
      /\ Turn(n, v, i, k) \in Nat /\ Turn(n, v, k, j) \in Nat
  BY <1>0, <1>5, <1>7, TurnOrder
<1>10. Turn(n, v, i, k) < q \/ Turn(n, v, k, j) < q
  BY <1>8 DEF Settled
<1> HIDE DEF q
<1> QED
  BY <1>1, <1>9, <1>10

\* One iteration.
LEMMA RelaxedCorrect ==
  ASSUME NEW F, NEW n, Measurable(F, n), IntMax > 0,
         NEW i \in 0 .. n - 1, NEW j \in 0 .. n - 1, NEW k \in 0 .. n - 1,
         NEW dist, Correct(F, n, Turn(n, k, i, j), dist)
  PROVE  Correct(F, n, Turn(n, k, i, j) + 1, Relaxed(dist, k, i, j))
<1> DEFINE q == Turn(n, k, i, j)
           N == 0 .. n - 1
           x == dist[<<i, k>>]
           y == dist[<<k, j>>]
           z == dist[<<i, j>>]
           r == IF x # IntMax /\ y # IntMax /\ Plus(x, y) < z THEN Plus(x, y) ELSE z
<1>0. n \in Nat \ {0} /\ Tree(F) /\ IntMax \in Nat /\ Lengths(F)
  BY EdgeInputsAssumption DEF Measurable
<1>1. dist \in [N \X N -> Int]
  BY DEF Correct
<1>2. x \in Int /\ y \in Int /\ z \in Int
  BY <1>1
<1>3. Relaxed(dist, k, i, j) = [dist EXCEPT ![<<i, j>>] = r]
  <2>1. [dist EXCEPT ![<<i, j>>] = z] = dist
    BY <1>1
  <2> QED
    BY <2>1 DEF Relaxed
<1>4. \A a \in N : dist[<<a, a>>] = IntMax \/ (0 <= dist[<<a, a>>] /\ 2 * dist[<<a, a>>] <= IntMax)
  BY DEF Correct
<1>5. \A a, b \in N : a # b =>
        /\ Settled(F, n, q, a, b) => dist[<<a, b>>] = Distance(F, a, b)
        /\ ~Settled(F, n, q, a, b) => dist[<<a, b>>] = IntMax
  BY DEF Correct
<1>6. \A a, b \in N : Settled(F, n, q, a, b)
        => Distance(F, a, b) \in Nat /\ 4 * Distance(F, a, b) <= IntMax /\ Distance(F, a, b) < IntMax
  BY DistanceFits DEF Settled
<1>7. \A a \in N : dist[<<a, a>>] \in Int
  BY <1>1
<1>8. \A a, b \in N : a # b /\ dist[<<a, b>>] # IntMax
        => /\ Settled(F, n, q, a, b) /\ dist[<<a, b>>] = Distance(F, a, b)
           /\ 0 <= dist[<<a, b>>] /\ 4 * dist[<<a, b>>] <= IntMax /\ dist[<<a, b>>] \in Int
  BY <1>5, <1>6
<1> HIDE DEF q, N
<1>i. i \in N /\ j \in N /\ k \in N
  BY DEF N
<1>9. k = i => r = z
  <2> SUFFICES ASSUME k = i, x # IntMax, y # IntMax PROVE ~(Plus(x, y) < z)
    OBVIOUS
  <2>1. 0 <= x /\ 2 * x <= IntMax
    BY <1>4, <1>i
  <2>2. y = z
    OBVIOUS
  <2>3. 0 <= y /\ 2 * y <= IntMax
    BY <1>0, <1>2, <1>4, <1>8, <1>i, <2>2
  <2> HIDE DEF x, y, z, r
  <2>4. Plus(x, y) = x + y
    BY <1>0, <1>2, <2>1, <2>3, PlusExact
  <2> QED
    BY <1>2, <2>1, <2>2, <2>4
<1>10. k = j => r = z
  <2> SUFFICES ASSUME k = j, x # IntMax, y # IntMax PROVE ~(Plus(x, y) < z)
    OBVIOUS
  <2>1. 0 <= y /\ 2 * y <= IntMax
    BY <1>4, <1>i
  <2>2. x = z
    OBVIOUS
  <2>3. 0 <= x /\ 2 * x <= IntMax
    BY <1>0, <1>2, <1>4, <1>8, <1>i, <2>2
  <2> HIDE DEF x, y, z, r
  <2>4. Plus(x, y) = x + y
    BY <1>0, <1>2, <2>1, <2>3, PlusExact
  <2> QED
    BY <1>2, <2>1, <2>2, <2>4
<1>11. k # i /\ k # j /\ x # IntMax /\ y # IntMax
         => /\ Settled(F, n, q, i, k) /\ Settled(F, n, q, k, j)
            /\ x = Distance(F, i, k) /\ y = Distance(F, k, j)
            /\ 0 <= x /\ 4 * x <= IntMax /\ 0 <= y /\ 4 * y <= IntMax
            /\ Plus(x, y) = x + y
  <2> SUFFICES ASSUME k # i, k # j, x # IntMax, y # IntMax
               PROVE  /\ Settled(F, n, q, i, k) /\ Settled(F, n, q, k, j)
                      /\ x = Distance(F, i, k) /\ y = Distance(F, k, j)
                      /\ 0 <= x /\ 4 * x <= IntMax /\ 0 <= y /\ 4 * y <= IntMax
                      /\ Plus(x, y) = x + y
    OBVIOUS
  <2>1. Settled(F, n, q, i, k) /\ x = Distance(F, i, k) /\ 0 <= x /\ 4 * x <= IntMax
    BY <1>8, <1>i
  <2>2. Settled(F, n, q, k, j) /\ y = Distance(F, k, j) /\ 0 <= y /\ 4 * y <= IntMax
    BY <1>8, <1>i
  <2> HIDE DEF x, y, z, r
  <2>3. Plus(x, y) = x + y
    BY <1>0, <1>2, <2>1, <2>2, PlusExact
  <2> QED
    BY <2>1, <2>2, <2>3
<1>12. r \in Int
  <2>1. CASE k = i \/ k = j
    BY <1>2, <1>9, <1>10, <2>1
  <2>2. CASE k # i /\ k # j
    <3> HIDE DEF x, y, z
    <3> QED
      BY <1>2, <1>11, <2>2
  <2> QED
    BY <2>1, <2>2
<1>13. i = j => r = IntMax \/ (0 <= r /\ 2 * r <= IntMax)
  <2> SUFFICES ASSUME i = j PROVE r = IntMax \/ (0 <= r /\ 2 * r <= IntMax)
    OBVIOUS
  <2>1. z = IntMax \/ (0 <= z /\ 2 * z <= IntMax)
    BY <1>4, <1>i
  <2>2. CASE k = i
    BY <1>9, <2>1, <2>2
  <2>3. CASE k # i
    <3>1. x # IntMax /\ y # IntMax => x = y
      <4>1. Distance(F, i, k) = Distance(F, k, i)
        BY <1>0, DistanceSymmetric
      <4> HIDE DEF x, y, z, r
      <4> QED
        BY <1>11, <2>3, <4>1
    <3> HIDE DEF x, y, z
    <3> QED
      BY <1>0, <1>2, <1>11, <2>1, <2>3, <3>1
  <2> QED
    BY <2>2, <2>3
<1>14. i # j => /\ Settled(F, n, q + 1, i, j) => r = Distance(F, i, j)
                /\ ~Settled(F, n, q + 1, i, j) => r = IntMax
  <2> SUFFICES ASSUME i # j
               PROVE  /\ Settled(F, n, q + 1, i, j) => r = Distance(F, i, j)
                      /\ ~Settled(F, n, q + 1, i, j) => r = IntMax
    OBVIOUS
  <2>1. /\ Settled(F, n, q, i, j) => z = Distance(F, i, j)
        /\ ~Settled(F, n, q, i, j) => z = IntMax
    BY <1>5, <1>i
  <2>2. k \notin Inner(F, i, j) => (Settled(F, n, q + 1, i, j) <=> Settled(F, n, q, i, j))
    BY SettledOthers DEF q
  <2>3. CASE k = i \/ k = j
    <3>1. k \notin Inner(F, i, j)
      BY <2>3 DEF Inner
    <3> HIDE DEF x, y, z, r
    <3> QED
      BY <1>9, <1>10, <2>1, <2>2, <2>3, <3>1
  <2>4. CASE k # i /\ k # j /\ ~Settled(F, n, q + 1, i, j)
    <3>1. ~Settled(F, n, q, i, k) \/ ~Settled(F, n, q, k, j)
      BY <2>4, Unsettled DEF q
    <3>2. r = z
      <4> HIDE DEF x, y, z
      <4> QED
        BY <1>11, <2>4, <3>1
    <3>3. ~Settled(F, n, q, i, j)
      <4>1. q \in Nat
        BY <1>0, TurnOrder DEF q
      <4>2. \A v \in Inner(F, i, j) : Turn(n, v, i, j) \in Nat
        <5>1. Inner(F, i, j) \subseteq 0 .. n - 1
          BY InnerIndices
        <5> QED
          BY <1>0, <5>1, TurnOrder
      <4> QED
        BY <2>4, <4>1, <4>2 DEF Settled
    <3> HIDE DEF x, y, z, r
    <3> QED
      BY <2>1, <2>4, <3>2, <3>3
  <2>5. CASE k # i /\ k # j /\ Settled(F, n, q + 1, i, j) /\ k \notin Inner(F, i, j)
    <3>1. z = Distance(F, i, j)
      BY <2>1, <2>2, <2>5
    <3>2. x # IntMax /\ y # IntMax => Distance(F, i, j) <= x + y
      <4> SUFFICES ASSUME x # IntMax, y # IntMax
                   PROVE  Distance(F, i, j) <= Distance(F, i, k) + Distance(F, k, j)
        <5> HIDE DEF x, y, z, r
        <5> QED
          BY <1>11, <2>5
      <4>1. k \in Reach(F, i) /\ j \in Reach(F, i)
        <5> HIDE DEF x, y, z, r
        <5> QED
          BY <1>11, <2>5 DEF Settled
      <4> QED
        BY <1>0, <4>1, DistanceTriangle
    <3> HIDE DEF x, y, z
    <3>3. x # IntMax /\ y # IntMax => ~(Plus(x, y) < z)
      BY <1>2, <1>11, <2>5, <3>1, <3>2
    <3> QED
      BY <2>5, <3>1, <3>3
  <2>6. CASE k # i /\ k # j /\ Settled(F, n, q + 1, i, j) /\ k \in Inner(F, i, j)
    <3>1. j \in Reach(F, i)
      BY <2>6 DEF Settled
    <3>2. Settled(F, n, q, i, k) /\ Settled(F, n, q, k, j)
      BY <2>6, <3>1, SettledParts DEF q
    <3>3. ~Settled(F, n, q, i, j)
      <4>1. q \in Nat
        BY <1>0, TurnOrder DEF q
      <4>2. Turn(n, k, i, j) = q
        BY DEF q
      <4> QED
        BY <2>6, <4>1, <4>2 DEF Settled
    <3>4. x = Distance(F, i, k) /\ y = Distance(F, k, j) /\ z = IntMax
      BY <1>5, <1>i, <2>1, <2>6, <3>2, <3>3
    <3>5. x # IntMax /\ y # IntMax
      <4>1. Distance(F, i, k) < IntMax /\ Distance(F, k, j) < IntMax
        BY <1>6, <1>i, <3>2
      <4> HIDE DEF x, y, z, r
      <4> QED
        BY <1>0, <1>2, <3>4, <4>1
    <3>6. Distance(F, i, j) = Distance(F, i, k) + Distance(F, k, j)
      BY <1>0, <2>6, <3>1, DistanceAdds
    <3>7. Distance(F, i, j) < IntMax /\ Distance(F, i, j) \in Nat
      BY <3>1, DistanceFits
    <3> HIDE DEF x, y, z
    <3>8. Plus(x, y) = Distance(F, i, j) /\ Plus(x, y) < z
      BY <1>11, <2>6, <3>4, <3>5, <3>6, <3>7
    <3> QED
      BY <2>6, <3>5, <3>8
  <2> QED
    BY <2>3, <2>4, <2>5, <2>6
<1> DEFINE new == Relaxed(dist, k, i, j)
<1>15. /\ new \in [N \X N -> Int] /\ new[<<i, j>>] = r
       /\ \A a, b \in N : a # i \/ b # j => new[<<a, b>>] = dist[<<a, b>>]
  <2> HIDE DEF r
  <2> QED
    BY <1>1, <1>3, <1>12, <1>i
<1> HIDE DEF new, r
<1>16. ASSUME NEW a \in N, NEW b \in N, a # b
       PROVE  /\ Settled(F, n, q + 1, a, b) => new[<<a, b>>] = Distance(F, a, b)
              /\ ~Settled(F, n, q + 1, a, b) => new[<<a, b>>] = IntMax
  <2>1. CASE a = i /\ b = j
    BY <1>14, <1>15, <1>16, <2>1
  <2>2. CASE a # i \/ b # j
    <3>1. Settled(F, n, q + 1, a, b) <=> Settled(F, n, q, a, b)
      BY <2>2, SettledOthers DEF q, N
    <3> QED
      BY <1>5, <1>15, <1>16, <2>2, <3>1
  <2> QED
    BY <2>1, <2>2
<1>17. ASSUME NEW a \in N
       PROVE  new[<<a, a>>] = IntMax \/ (0 <= new[<<a, a>>] /\ 2 * new[<<a, a>>] <= IntMax)
  <2>1. CASE a = i /\ a = j
    BY <1>13, <1>15, <2>1
  <2>2. CASE a # i \/ a # j
    BY <1>4, <1>15, <2>2
  <2> QED
    BY <2>1, <2>2
<1> QED
  BY <1>15, <1>16, <1>17 DEF Correct, q, N, new

\* Before the loops, the vertices with an edge are settled.
LEMMA MatrixCorrect ==
  ASSUME NEW n, Measurable(Found, n)
  PROVE  Correct(Found, n, 0, Matrix(n))
<1> DEFINE N == 0 .. n - 1
           dist == Matrix(n)
           Near(a, b) == {e \in Found : e.ends = {a, b}}
<1>0. n \in Nat \ {0} /\ Tree(Found) /\ Lengths(Found) /\ IntMax \in Nat
  BY EdgeInputsAssumption DEF Measurable
<1>1. dist = [p \in N \X N |->
                IF \E e \in Found : e.ends = {p[1], p[2]}
                THEN (CHOOSE e \in Found : e.ends = {p[1], p[2]}).weight ELSE IntMax]
  BY DEF Matrix
<1>2. ASSUME NEW a \in N, NEW b \in N
      PROVE  /\ ~(\E e \in Found : e.ends = {a, b}) => dist[<<a, b>>] = IntMax
             /\ (\E e \in Found : e.ends = {a, b})
                  => \E e \in Found : e.ends = {a, b} /\ dist[<<a, b>>] = e.weight
  <2>1. <<a, b>> \in N \X N /\ <<a, b>>[1] = a /\ <<a, b>>[2] = b
    OBVIOUS
  <2>2. dist[<<a, b>>] = IF \E e \in Found : e.ends = {a, b}
                         THEN (CHOOSE e \in Found : e.ends = {a, b}).weight ELSE IntMax
    <3> HIDE DEF dist, N
    <3> QED
      BY <1>1, <2>1
  <2> QED
    BY <2>2
<1>3. ASSUME NEW a \in N, NEW b \in N
      PROVE  /\ dist[<<a, b>>] \in Int
             /\ a = b => dist[<<a, b>>] = IntMax
             /\ Settled(Found, n, 0, a, b) /\ a # b => dist[<<a, b>>] = Distance(Found, a, b)
             /\ ~Settled(Found, n, 0, a, b) => dist[<<a, b>>] = IntMax
  <2>1. CASE \E e \in Found : e.ends = {a, b}
    <3>1. PICK e \in Found : e.ends = {a, b} /\ dist[<<a, b>>] = e.weight
      BY <1>2, <2>1
    <3>2. e.weight \in Nat /\ Distance(Found, a, b) = e.weight
      BY <1>0, <3>1, DistanceOfEdge DEF Lengths
    <3>3. a # b /\ b \in Reach(Found, a) /\ Inner(Found, a, b) = {}
      BY <1>0, <3>1, PartingOfEdge
    <3>4. Settled(Found, n, 0, a, b)
      BY <3>3 DEF Settled
    <3> QED
      BY <3>1, <3>2, <3>3, <3>4
  <2>2. CASE ~(\E e \in Found : e.ends = {a, b})
    <3>1. ~(Settled(Found, n, 0, a, b) /\ a # b)
      <4> SUFFICES ASSUME Settled(Found, n, 0, a, b), a # b PROVE FALSE
        OBVIOUS
      <4>1. b \in Reach(Found, a) /\ \A v \in Inner(Found, a, b) : Turn(n, v, a, b) < 0
        BY DEF Settled
      <4>2. ASSUME NEW v \in Inner(Found, a, b) PROVE FALSE
        <5>1. v \in 0 .. n - 1
          BY InnerIndices
        <5>2. Turn(n, v, a, b) \in Nat
          BY <1>0, <5>1, TurnOrder
        <5> QED
          BY <4>1, <5>2
      <4>3. Inner(Found, a, b) = {}
        BY <4>2
      <4> QED
        BY <1>0, <2>2, <4>1, <4>3, EdgeWithoutInner
    <3> QED
      BY <1>0, <1>2, <2>2, <3>1
  <2> QED
    BY <2>1, <2>2
<1>4. dist \in [N \X N -> Int]
  <2>1. \A p \in N \X N : dist[p] \in Int
    <3> SUFFICES ASSUME NEW p \in N \X N PROVE dist[p] \in Int
      OBVIOUS
    <3>1. PICK a \in N, b \in N : p = <<a, b>>
      OBVIOUS
    <3> HIDE DEF dist, N
    <3> QED
      BY <1>3, <3>1
  <2>2. dist = [p \in N \X N |-> dist[p]]
    <3> DEFINE g(p) == IF \E e \in Found : e.ends = {p[1], p[2]}
                THEN (CHOOSE e \in Found : e.ends = {p[1], p[2]}).weight ELSE IntMax
    <3>1. dist = [p \in N \X N |-> g(p)]
      BY <1>1
    <3> HIDE DEF g, dist, N
    <3> QED
      BY <3>1
  <2> HIDE DEF dist, N
  <2> QED
    BY <2>1, <2>2
<1> HIDE DEF dist
<1> QED
  BY <1>3, <1>4 DEF Correct, dist

LEMMA PlusType ==
  ASSUME NEW x \in Int, NEW y \in Int
  PROVE  Plus(x, y) \in Int
<1> DEFINE w == 2 * (IntMax + 1)
           z == x + y + IntMax + 1
<1>1. w \in Nat \ {0} /\ z \in Int /\ IntMax \in Nat
  BY EdgeInputsAssumption
<1> HIDE DEF w, z
<1>2. z % w \in Int
  BY <1>1
<1> QED
  BY <1>1, <1>2 DEF Plus, Width, w, z

Iteration(n, dist, q) == Relaxed(dist, q \div (n * n), (q \div n) % n, q % n)

\* The equations of after in Distances.
Loops(after, n) ==
  after = [t \in 0 .. n * n * n |->
             IF t = 0 THEN Matrix(n)
             ELSE Relaxed(after[t - 1], (t - 1) \div (n * n),
                          ((t - 1) \div n) % n, (t - 1) % n)]

LEMMA LoopsDefined ==
  ASSUME NEW n, Measurable(Found, n)
  PROVE  \E after : /\ after[0] = Matrix(n)
                    /\ \A t \in 1 .. n * n * n : after[t] = Iteration(n, after[t - 1], t - 1)
                    /\ Distances(n) = after[n * n * n]
<1> DEFINE m == n * n * n
           U == [(0 .. n - 1) \X (0 .. n - 1) -> Int]
           b == Matrix(n)
           step == [t \in 1 .. m |-> [d \in U |-> Iteration(n, d, t - 1)]]
<1>0. n \in Nat \ {0}
  BY DEF Measurable
<1>1. m \in Nat
  BY <1>0
<1>2. b \in U
  BY MatrixCorrect DEF Correct
<1>3. ASSUME NEW d \in U, NEW t \in 1 .. m PROVE Iteration(n, d, t - 1) \in U
  <2> DEFINE q == t - 1
             k == q \div (n * n)
             i == (q \div n) % n
             j == q % n
             x == Plus(d[<<i, k>>], d[<<k, j>>])
  <2>1. Iteration(n, d, q) = d \/ Iteration(n, d, q) = [d EXCEPT ![<<i, j>>] = x]
    BY DEF Iteration, Relaxed
  <2>2. q \in Nat /\ q < m
    BY <1>1
  <2> HIDE DEF q
  <2>3. i \in 0 .. n - 1 /\ j \in 0 .. n - 1 /\ k \in 0 .. n - 1
    BY <1>0, <2>2, TurnOf
  <2> HIDE DEF i, j, k
  <2>4. d[<<i, k>>] \in Int /\ d[<<k, j>>] \in Int
    BY <2>3
  <2>5. x \in Int
    BY <2>4, PlusType
  <2> HIDE DEF x
  <2>6. Iteration(n, d, q) \in U
    BY <2>1, <2>3, <2>5
  <2> QED
    BY <2>6 DEF q
<1>4. Steps(step, m, U)
  BY <1>3 DEF Steps
<1>5. \A t \in 1 .. m, d \in U : step[t][d] = Iteration(n, d, t - 1)
  OBVIOUS
<1> HIDE DEF m, U, b, step
<1>6. PICK r : r \in [0 .. m -> U] /\ Iterates(r, step, m, b)
  BY <1>1, <1>2, <1>4, Recursion
<1>7. \A t \in 0 .. m : r[t] = IF t = 0 THEN b ELSE Iteration(n, r[t - 1], t - 1)
  <2> SUFFICES ASSUME NEW t \in 0 .. m, t # 0 PROVE r[t] = Iteration(n, r[t - 1], t - 1)
    BY <1>6 DEF Iterates
  <2>1. t \in 1 .. m /\ r[t - 1] \in U
    BY <1>1, <1>6
  <2> QED
    BY <1>5, <1>6, <2>1 DEF Iterates
<1>8. r = [t \in 0 .. m |-> IF t = 0 THEN b ELSE Iteration(n, r[t - 1], t - 1)]
  BY <1>6, <1>7
<1>9. Loops(r, n)
  BY <1>8 DEF Loops, Iteration, m, b
<1> DEFINE s == CHOOSE s : Loops(s, n)
<1>10. Loops(s, n)
  BY <1>9
<1>11. Distances(n) = s[m]
  BY DEF Distances, Loops, m
<1> HIDE DEF s
<1>12. s = [t \in 0 .. m |-> IF t = 0 THEN b ELSE Iteration(n, s[t - 1], t - 1)]
  BY <1>10 DEF Loops, Iteration, m, b
<1>13. s[0] = b
  BY <1>1, <1>12
<1>14. ASSUME NEW t \in 1 .. m PROVE s[t] = Iteration(n, s[t - 1], t - 1)
  <2> DEFINE f(u) == IF u = 0 THEN b ELSE Iteration(n, s[u - 1], u - 1)
  <2>1. s = [u \in 0 .. m |-> f(u)]
    BY <1>12
  <2>2. t \in 0 .. m /\ t # 0
    BY <1>1
  <2>3. s[t] = f(t)
    <3> HIDE DEF f
    <3> QED
      BY <2>1, <2>2
  <2> QED
    BY <2>2, <2>3
<1> QED
  BY <1>11, <1>13, <1>14 DEF m, b

\* After the loops, the matrix has the distances of the tree.
LEMMA DistancesCorrect ==
  ASSUME NEW n, Measurable(Found, n), IntMax > 0
  PROVE  \A a, b \in 0 .. n - 1 : a # b =>
           /\ b \in Reach(Found, a) => Distances(n)[<<a, b>>] = Distance(Found, a, b)
           /\ b \notin Reach(Found, a) => Distances(n)[<<a, b>>] = IntMax
<1> DEFINE m == n * n * n
<1>0. n \in Nat \ {0} /\ m \in Nat
  BY DEF Measurable
<1>1. PICK after : /\ after[0] = Matrix(n)
                   /\ \A t \in 1 .. m : after[t] = Iteration(n, after[t - 1], t - 1)
                   /\ Distances(n) = after[m]
  BY LoopsDefined
<1> DEFINE S == {t \in Nat : t <= m => Correct(Found, n, t, after[t])}
<1>2. 0 \in S
  BY <1>1, MatrixCorrect
<1>3. ASSUME NEW q \in Nat, q \in S PROVE q + 1 \in S
  <2> SUFFICES ASSUME q + 1 <= m PROVE Correct(Found, n, q + 1, after[q + 1])
    OBVIOUS
  <2> DEFINE k == q \div (n * n)
             i == (q \div n) % n
             j == q % n
  <2> HIDE DEF m
  <2>1. q <= m /\ q < m /\ q + 1 \in 1 .. m /\ (q + 1) - 1 = q
    BY <1>0
  <2>2. Correct(Found, n, q, after[q])
    BY <1>3, <2>1
  <2>3. after[q + 1] = Relaxed(after[q], k, i, j)
    <3>1. after[q + 1] = Iteration(n, after[q], q)
      BY <1>1, <2>1
    <3> QED
      BY <3>1 DEF Iteration
  <2>4. k \in 0 .. n - 1 /\ i \in 0 .. n - 1 /\ j \in 0 .. n - 1 /\ q = Turn(n, k, i, j)
    BY <1>0, <2>1, TurnOf DEF m
  <2> HIDE DEF k, i, j
  <2>5. Correct(Found, n, Turn(n, k, i, j) + 1, Relaxed(after[q], k, i, j))
    BY <2>2, <2>4, RelaxedCorrect
  <2> QED
    BY <2>3, <2>4, <2>5
<1>4. m \in S
  <2> HIDE DEF S, m
  <2> QED
    BY <1>0, <1>2, <1>3, Induction
<1>5. Correct(Found, n, m, Distances(n))
  BY <1>0, <1>1, <1>4
<1> SUFFICES ASSUME NEW a \in 0 .. n - 1, NEW b \in 0 .. n - 1, a # b
             PROVE  /\ b \in Reach(Found, a) => Distances(n)[<<a, b>>] = Distance(Found, a, b)
                    /\ b \notin Reach(Found, a) => Distances(n)[<<a, b>>] = IntMax
  OBVIOUS
<1>6. Settled(Found, n, m, a, b) <=> b \in Reach(Found, a)
  <2>1. ASSUME NEW v \in Inner(Found, a, b) PROVE Turn(n, v, a, b) < m
    <3>1. v \in 0 .. n - 1
      BY InnerIndices
    <3> QED
      BY <1>0, <3>1, TurnOrder
  <2> HIDE DEF m
  <2> QED
    BY <2>1 DEF Settled
<1> HIDE DEF m
<1> QED
  BY <1>5, <1>6 DEF Correct

-----------------------------------------------------------------------------
(* What is made of the matrix.                                              *)

LEMMA GreatestInteger ==
  ASSUME NEW S, S \subseteq Int, S # {}, NEW B \in Int, \A x \in S : x <= B
  PROVE  Max(S) \in S /\ \A x \in S : x <= Max(S)
<1> DEFINE T == {k \in Nat : \E x \in S : k = B - x}
<1>1. T \in SUBSET Nat /\ T # {}
  <2>1. PICK x \in S : TRUE
    OBVIOUS
  <2>2. B - x \in Nat
    BY <2>1
  <2> QED
    BY <2>1, <2>2
<1>2. PICK k \in T : \A l \in T : k <= l
  <2> HIDE DEF T
  <2> QED
    BY <1>1, LeastNatural
<1>3. PICK m \in S : k = B - m
  BY <1>2
<1>4. \A x \in S : m >= x
  <2> SUFFICES ASSUME NEW x \in S PROVE m >= x
    OBVIOUS
  <2>1. B - x \in T
    OBVIOUS
  <2>2. k <= B - x
    BY <1>2, <2>1
  <2> QED
    BY <1>3, <2>2
<1>5. Max(S) \in S /\ \A x \in S : Max(S) >= x
  BY <1>3, <1>4 DEF Max
<1> QED
  BY <1>5

LEMMA MaxIs ==
  ASSUME NEW S, S \subseteq Int, NEW m \in S, \A x \in S : x <= m
  PROVE  Max(S) = m
<1>1. Max(S) \in S /\ \A x \in S : x <= Max(S)
  BY GreatestInteger
<1>2. Max(S) \in Int /\ m \in Int /\ m <= Max(S) /\ Max(S) <= m
  BY <1>1
<1> QED
  BY <1>2

LEMMA LeastInteger ==
  ASSUME NEW S, S \subseteq Nat, S # {}
  PROVE  Min(S) \in S /\ \A x \in S : Min(S) <= x
BY LeastNatural DEF Min

LEMMA MinIs ==
  ASSUME NEW S, S \subseteq Nat, NEW m \in S, \A x \in S : m <= x
  PROVE  Min(S) = m
<1>1. Min(S) \in S /\ \A x \in S : Min(S) <= x
  BY LeastInteger
<1>2. Min(S) \in Nat /\ m \in Nat /\ m <= Min(S) /\ Min(S) <= m
  BY <1>1
<1> QED
  BY <1>2

LEMMA MaxWithZero ==
  ASSUME NEW S, S \subseteq Nat, S # {}, NEW B \in Int, \A x \in S : x <= B
  PROVE  Max({0} \cup S) = Max(S)
<1> DEFINE T == {0} \cup S
<1>0. S \subseteq Int
  OBVIOUS
<1>1. Max(S) \in S /\ \A x \in S : x <= Max(S)
  BY <1>0, GreatestInteger
<1>2. PICK m \in S : m = Max(S)
  BY <1>1
<1>3. T \subseteq Int /\ m \in T /\ \A x \in T : x <= m
  BY <1>1, <1>2
<1> HIDE DEF T
<1>4. Max(T) = m
  BY <1>3, MaxIs
<1> QED
  BY <1>2, <1>4 DEF T

LEMMA MinWithBound ==
  ASSUME NEW S, S \subseteq Nat, S # {}, NEW B \in Nat, \A x \in S : x <= B
  PROVE  Min({B} \cup S) = Min(S)
<1> DEFINE T == {B} \cup S
<1>1. Min(S) \in S /\ \A x \in S : Min(S) <= x
  BY LeastInteger
<1>2. PICK m \in S : m = Min(S)
  BY <1>1
<1>3. T \subseteq Nat /\ m \in T /\ \A x \in T : m <= x
  BY <1>1, <1>2
<1> HIDE DEF T
<1>4. Min(T) = m
  BY <1>3, MinIs
<1> QED
  BY <1>2, <1>4 DEF T

\* The metrics' matrix has the distances of the tree.
LEMMA MeasurableTree ==
  ASSUME Tree(Found), Lengths(Found), NEW n \in Nat \ {0}, Covered(Found) \subseteq 0 .. n - 1,
         Tame(TreeDistances(Found))
  PROVE  Measurable(Found, n)
<1> DEFINE dom == {q \in Covered(Found) \X Covered(Found) :
                      q[1] < q[2] /\ Connected(Found, q[1], q[2])}
<1>1. ASSUME NEW a \in Covered(Found), NEW b \in Covered(Found), a < b, b \in Reach(Found, a)
      PROVE  4 * Distance(Found, a, b) <= IntMax
  <2> DEFINE p == <<a, b>>
  <2>1. p \in dom /\ p[1] = a /\ p[2] = b
    BY <1>1 DEF Connected
  <2> HIDE DEF p
  <2>2. p \in DOMAIN TreeDistances(Found) /\ TreeDistances(Found)[p] = Distance(Found, p[1], p[2])
    BY <2>1, TreeDistancesAre
  <2>3. 4 * TreeDistances(Found)[p] <= IntMax
    BY <2>2 DEF Tame
  <2> QED
    BY <2>1, <2>2, <2>3
<1>2. ASSUME NEW a \in 0 .. n - 1, NEW b \in Reach(Found, a)
      PROVE  4 * Distance(Found, a, b) <= IntMax
  <2>1. CASE a = b
    <3>1. Distance(Found, a, b) = 0
      BY <2>1, PartingSymmetric, TotalNothing DEF Distance
    <3> QED
      BY <3>1, EdgeInputsAssumption
  <2>2. CASE a # b
    <3>1. a \in Covered(Found) /\ b \in Covered(Found) /\ a \in Reach(Found, b)
      BY <2>2, ReachCovered, TreeReach
    <3>2. a \in Int /\ b \in Int
      BY <3>1
    <3>3. a < b \/ b < a
      BY <2>2, <3>2
    <3>4. Distance(Found, a, b) = Distance(Found, b, a)
      BY DistanceSymmetric
    <3> QED
      BY <1>1, <3>1, <3>3, <3>4
  <2> QED
    BY <2>1, <2>2
<1> QED
  BY <1>2 DEF Measurable

LEMMA FiniteDistances ==
  ASSUME NEW n, Measurable(Found, n)
  PROVE  /\ Finite(Distances(n), n) = DOMAIN TreeDistances(Found)
         /\ \A p \in DOMAIN TreeDistances(Found) :
              /\ Distances(n)[p] = TreeDistances(Found)[p]
              /\ TreeDistances(Found)[p] \in Nat /\ TreeDistances(Found)[p] < IntMax
         /\ IsFiniteSet(DOMAIN TreeDistances(Found))
<1> DEFINE D == DOMAIN TreeDistances(Found)
           N == 0 .. n - 1
           dist == Distances(n)
<1>0. n \in Nat \ {0} /\ Tree(Found) /\ IntMax > 0 /\ IntMax \in Nat
  BY EdgeInputsAssumption DEF Measurable
<1>1. D = {q \in Covered(Found) \X Covered(Found) :
               q[1] < q[2] /\ Connected(Found, q[1], q[2])}
  BY <1>0, TreeDistancesAre
<1>2. \A p \in D : TreeDistances(Found)[p] = Distance(Found, p[1], p[2])
  BY <1>0, TreeDistancesAre
<1>3. Covered(Found) \subseteq N
  BY DEF Measurable
<1>4. \A a, b \in N : a # b =>
        /\ b \in Reach(Found, a) => dist[<<a, b>>] = Distance(Found, a, b)
        /\ b \notin Reach(Found, a) => dist[<<a, b>>] = IntMax
  BY <1>0, DistancesCorrect
<1>5. ASSUME NEW p \in D
      PROVE  /\ p \in Finite(dist, n) /\ dist[p] = TreeDistances(Found)[p]
             /\ TreeDistances(Found)[p] \in Nat /\ TreeDistances(Found)[p] < IntMax
  <2>1. PICK a \in N, b \in N : p = <<a, b>> /\ a < b /\ b \in Reach(Found, a)
    BY <1>1, <1>3 DEF Connected
  <2>2. p[1] = a /\ p[2] = b /\ a # b
    BY <2>1
  <2>3. dist[p] = Distance(Found, a, b) /\ TreeDistances(Found)[p] = Distance(Found, a, b)
    BY <1>2, <1>4, <2>1, <2>2
  <2>4. Distance(Found, a, b) \in Nat /\ Distance(Found, a, b) < IntMax
    BY <1>0, <2>1, DistanceFits
  <2>5. p \in Pairs(n)
    BY <2>1 DEF Pairs
  <2> HIDE DEF dist
  <2> QED
    BY <1>0, <2>3, <2>4, <2>5 DEF Finite
<1>6. ASSUME NEW p \in Finite(dist, n) PROVE p \in D
  <2>1. p \in Pairs(n) /\ dist[p] # IntMax
    BY DEF Finite
  <2>2. PICK a \in N, b \in N : p = <<a, b>> /\ a < b
    BY <2>1 DEF Pairs
  <2>3. a # b /\ b \in Reach(Found, a)
    BY <1>4, <2>1, <2>2
  <2>4. a \in Covered(Found) /\ b \in Covered(Found)
    BY <1>0, <2>3, ReachCovered
  <2> HIDE DEF D
  <2> QED
    BY <1>1, <2>2, <2>3, <2>4 DEF Connected
<1>7. IsFiniteSet(D)
  <2>1. IsFiniteSet(N)
    BY <1>0, FS_Interval
  <2>2. IsFiniteSet(N \X N)
    <3> HIDE DEF N
    <3> QED
      BY <2>1, FS_Product
  <2>3. D \subseteq N \X N
    <3> HIDE DEF D, N
    <3> QED
      BY <1>1, <1>3
  <2> QED
    BY <2>2, <2>3, FS_Subset
<1> QED
  BY <1>5, <1>6, <1>7

LEMMA SumOfIs ==
  ASSUME NEW S, IsFiniteSet(S), NEW g, IntOn(g, S)
  PROVE  SumOf(g, S) = SumOver(g, S)
<1> DEFINE c == CHOOSE it : SumIter(it, g, S)
<1>1. SumOf(g, S) = c[S]
  BY DEF SumOf, MapThenSumSet, MapThenFoldSet, SumIter
<1>2. SumIter(c, g, S)
  BY SumIterChosen
<1> HIDE DEF c
<1> QED
  BY <1>1, <1>2, ChosenSum

LEMMA SumOfSame ==
  ASSUME NEW S, IsFiniteSet(S), NEW g, NEW h, IntOn(g, S), \A x \in S : g[x] = h[x]
  PROVE  SumOf(g, S) = SumOf(h, S)
<1>1. IntOn(h, S)
  BY DEF IntOn
<1> DEFINE it == CHOOSE it : SumIter(it, g, S)
           jt == CHOOSE jt : SumIter(jt, h, S)
<1>2. SumIter(it, g, S) /\ SumIter(jt, h, S)
  BY <1>1, SumIterChosen
<1> HIDE DEF it, jt
<1>3. AddsUp(it, g, S) /\ AddsUp(jt, h, S) /\ it[S] = SumOver(g, S) /\ jt[S] = SumOver(h, S)
  BY <1>1, <1>2, SumIterAddsUp, ChosenSum
<1>4. it[S] = jt[S]
  BY <1>3, AddsUpSame
<1> QED
  BY <1>1, <1>3, <1>4, SumOfIs

\* The edges at the positions in s.
At(s) == {mst[i] : i \in s}

\* mst has no edge twice.
LEMMA MstInjective ==
  ASSUME mst \in Seq(edges), Cardinality(Found) = Len(mst)
  PROVE  \A i, j \in 1 .. Len(mst) : mst[i] = mst[j] => i = j
<1> DEFINE D == 1 .. Len(mst)
<1>1. Len(mst) \in Nat /\ DOMAIN mst = D /\ mst \in [D -> edges]
  BY LenProperties
<1>2. IsFiniteSet(D) /\ Cardinality(D) = Len(mst)
  <2>1. PICK n \in Nat : n = Len(mst)
    BY <1>1
  <2>2. IsFiniteSet(1 .. n) /\ Cardinality(1 .. n) = n
    BY UpTo
  <2> QED
    BY <2>1, <2>2
<1>3. Found = {mst[i] : i \in D}
  BY <1>1 DEF Found
<1> HIDE DEF D
<1>4. mst \in [D -> Found]
  BY <1>1, <1>3
<1>5. mst \in Surjection(D, Found)
  BY <1>3, <1>4 DEF Surjection
<1>6. mst \in Injection(D, Found)
  BY <1>2, <1>5, FS_Surjection
<1> QED
  BY <1>6 DEF Injection, IsInjective, D

LEMMA AtLess ==
  ASSUME mst \in Seq(edges), Cardinality(Found) = Len(mst), Lengths(Found),
         NEW s \in SUBSET (1 .. Len(mst))
  PROVE  /\ Lengths(At(s)) /\ At(s) \subseteq Found
         /\ \A x \in s : /\ mst[x] \in At(s) /\ At(s \ {x}) = At(s) \ {mst[x]}
                         /\ mst[x].weight \in Nat
                         /\ TotalOf(At(s)) = mst[x].weight + TotalOf(At(s \ {x}))
<1>1. \A i, j \in 1 .. Len(mst) : mst[i] = mst[j] => i = j
  BY MstInjective
<1>2. DOMAIN mst = 1 .. Len(mst)
  BY LenProperties
<1>3. At(s) \subseteq Found
  BY <1>2 DEF At, Found
<1>4. Lengths(At(s))
  BY <1>3, FS_Subset DEF Lengths
<1>5. ASSUME NEW x \in s
      PROVE  /\ mst[x] \in At(s) /\ At(s \ {x}) = At(s) \ {mst[x]} /\ mst[x].weight \in Nat
             /\ TotalOf(At(s)) = mst[x].weight + TotalOf(At(s \ {x}))
  <2>1. mst[x] \in At(s) /\ At(s \ {x}) = At(s) \ {mst[x]}
    BY <1>1 DEF At
  <2>2. IsFiniteSet(At(s)) /\ IntWeights(At(s))
    BY <1>4 DEF Lengths, IntWeights
  <2>3. TotalOf(At(s)) = mst[x].weight + TotalOf(At(s) \ {mst[x]})
    BY <2>1, <2>2, TotalAdds
  <2> QED
    BY <1>4, <2>1, <2>3 DEF Lengths
<1> QED
  BY <1>3, <1>4, <1>5

\* The equations of the fold in getTotalWeight.
Adding(it) ==
  it = [s \in SUBSET DOMAIN mst |->
          IF s = {} THEN 0 ELSE Plus(it[s \ {Max(s)}], mst[Max(s)].weight)]

LEMMA TotalWeight ==
  ASSUME mst \in Seq(edges), Cardinality(Found) = Len(mst), Lengths(Found),
         TotalOf(Found) <= IntMax
  PROVE  getTotalWeight = TotalOf(Found)
<1> DEFINE D == 1 .. Len(mst)
           c == CHOOSE it : Adding(it)
<1>0. Len(mst) \in Nat /\ DOMAIN mst = D /\ IsFiniteSet(D)
  BY LenProperties, FS_Interval
<1>1. getTotalWeight = c[D]
  BY <1>0 DEF getTotalWeight, FoldLeft, MapThenFoldSet, Adding
<1>2. ASSUME NEW s \in SUBSET D
      PROVE  /\ TotalOf(At(s)) \in Nat /\ TotalOf(At(s)) <= IntMax
             /\ s # {} => Max(s) \in s
  <2>1. At(s) \subseteq Found
    BY AtLess
  <2>2. TotalOf(At(s)) \in Nat /\ TotalOf(At(s)) <= TotalOf(Found) /\ TotalOf(Found) \in Nat
    BY <2>1, TotalMonotone
  <2>3. s # {} => Max(s) \in s
    <3> SUFFICES ASSUME s # {} PROVE Max(s) \in s
      OBVIOUS
    <3>1. PICK B \in Int : B = Len(mst)
      BY <1>0
    <3>2. s \subseteq Int /\ \A x \in s : x <= B
      BY <1>0, <3>1
    <3> HIDE DEF D
    <3> QED
      BY <3>2, GreatestInteger
  <2> QED
    BY <2>2, <2>3, EdgeInputsAssumption
<1>3. ASSUME NEW s \in SUBSET D, s # {}
      PROVE  /\ s \ {Max(s)} \in SUBSET D /\ Max(s) \in s
             /\ TotalOf(At(s)) = Plus(TotalOf(At(s \ {Max(s)})), mst[Max(s)].weight)
  <2> DEFINE x == Max(s)
  <2>1. x \in s
    BY <1>2, <1>3
  <2> HIDE DEF x
  <2>2. TotalOf(At(s)) = mst[x].weight + TotalOf(At(s \ {x})) /\ mst[x].weight \in Nat
    BY <2>1, AtLess
  <2>3. TotalOf(At(s)) <= IntMax /\ TotalOf(At(s)) \in Nat /\ TotalOf(At(s \ {x})) \in Nat
    BY <1>2
  <2>4. Plus(TotalOf(At(s \ {x})), mst[x].weight) = TotalOf(At(s \ {x})) + mst[x].weight
    BY <2>2, <2>3, PlusExact
  <2>5. TotalOf(At(s)) = Plus(TotalOf(At(s \ {x})), mst[x].weight)
    BY <2>2, <2>3, <2>4
  <2> QED
    BY <2>1, <2>5 DEF x
<1>4. At({}) = {} /\ At(D) = Found /\ TotalOf({}) = 0
  BY <1>0, TotalNothing DEF At, Found
<1> HIDE DEF D
<1>5. Adding([s \in SUBSET D |-> TotalOf(At(s))])
  <2> DEFINE it == [s \in SUBSET D |-> TotalOf(At(s))]
  <2>1. ASSUME NEW s \in SUBSET D
        PROVE  it[s] = IF s = {} THEN 0 ELSE Plus(it[s \ {Max(s)}], mst[Max(s)].weight)
    <3>1. it[s] = TotalOf(At(s))
      OBVIOUS
    <3>2. CASE s = {}
      BY <1>4, <3>1, <3>2
    <3>3. CASE s # {}
      <4>1. it[s \ {Max(s)}] = TotalOf(At(s \ {Max(s)}))
        BY <1>3, <3>3
      <4> QED
        BY <1>3, <3>1, <3>3, <4>1
    <3> QED
      BY <3>2, <3>3
  <2>2. it = [s \in SUBSET D |-> it[s]]
    OBVIOUS
  <2> HIDE DEF it
  <2>3. it = [s \in SUBSET D |-> IF s = {} THEN 0 ELSE Plus(it[s \ {Max(s)}], mst[Max(s)].weight)]
    BY <2>1, <2>2
  <2>4. Adding(it)
    BY <1>0, <2>3 DEF Adding
  <2> QED
    BY <2>4 DEF it
<1>6. Adding(c)
  BY <1>5
<1> HIDE DEF c
<1>7. ASSUME NEW s \in SUBSET D
      PROVE  c[s] = IF s = {} THEN 0 ELSE Plus(c[s \ {Max(s)}], mst[Max(s)].weight)
  <2> DEFINE g(u) == IF u = {} THEN 0 ELSE Plus(c[u \ {Max(u)}], mst[Max(u)].weight)
  <2>1. c = [u \in SUBSET D |-> g(u)]
    BY <1>0, <1>6 DEF Adding
  <2>2. c[s] = g(s)
    <3> HIDE DEF g
    <3> QED
      BY <2>1
  <2> QED
    BY <2>2
<1> DEFINE N == {m \in Nat : \A s \in SUBSET D : Cardinality(s) = m => c[s] = TotalOf(At(s))}
<1>8. \A s \in SUBSET D : IsFiniteSet(s) /\ Cardinality(s) \in Nat
  BY <1>0, FS_Subset, FS_CardinalityType
<1>9. 0 \in N
  <2> SUFFICES ASSUME NEW s \in SUBSET D, Cardinality(s) = 0 PROVE c[s] = TotalOf(At(s))
    OBVIOUS
  <2>1. s = {}
    BY <1>8, FS_EmptySet
  <2> QED
    BY <1>4, <1>7, <2>1
<1>10. \A m \in Nat : m \in N => m + 1 \in N
  <2> SUFFICES ASSUME NEW m \in Nat, m \in N, NEW s \in SUBSET D, Cardinality(s) = m + 1
               PROVE  c[s] = TotalOf(At(s))
    OBVIOUS
  <2>1. s # {}
    <3>1. Cardinality({}) = 0 /\ m + 1 # 0
      BY FS_EmptySet
    <3> QED
      BY <3>1
  <2>2. s \ {Max(s)} \in SUBSET D /\ Max(s) \in s
    BY <1>3, <2>1
  <2>3. Cardinality(s \ {Max(s)}) = m
    BY <1>8, <2>2, LoseOne
  <2>4. c[s \ {Max(s)}] = TotalOf(At(s \ {Max(s)}))
    BY <2>2, <2>3
  <2> QED
    BY <1>3, <1>7, <2>1, <2>4
<1>11. D \in SUBSET D /\ Cardinality(D) \in N
  <2> HIDE DEF N
  <2> QED
    BY <1>8, <1>9, <1>10, Induction
<1> QED
  BY <1>1, <1>4, <1>11

\* The tree of a connected graph has an edge less than the graph has vertices.
LEMMA ConnectedTree ==
  ASSUME GraphOK, KInv, status = "done", GraphConnected, mst # <<>>
  PROVE  ShortestInBounds
<1>1. vertices = Indices /\ \A v \in Indices : v \in Reach(edges, 0)
  BY DEF GraphConnected, Connected
<1>2. IsFiniteSet(edges) /\ Inside = edges
  BY <1>1 DEF GraphOK, Proper, Inside
<1>3. numVertices \in Nat /\ IsFiniteSet(Indices)
  BY IndicesFinite DEF GraphOK
<1>4. Found \subseteq edges /\ Spans(Found, edges) /\ IsFiniteSet(Found)
  <2>1. IsMinimumSpanningForest(Found, Inside)
    BY KruskalEnd
  <2> QED
    BY <1>2, <2>1, FS_Subset DEF IsMinimumSpanningForest, IsSpanningForest
<1>5. \A v \in Indices : v \in Reach(Found, 0)
  <2> DEFINE S == Reach(Found, 0)
  <2>1. 0 \in S /\ ClosedUnder(Found, S)
    BY <1>4, ReachIsClosure
  <2>2. ClosedUnder(edges, S)
    BY <1>2, <1>4, ReachSame, SpansConnects DEF ClosedUnder
  <2>3. Reach(edges, 0) \subseteq S
    BY <1>2, <2>1, <2>2, ReachIsClosure
  <2> QED
    BY <1>1, <2>3
<1>6. PICK g : Components(g)
  BY DEF KInv
<1>7. \A u, w \in Indices : g[u] = g[w]
  <2> SUFFICES ASSUME NEW u \in Indices, NEW w \in Indices PROVE g[u] = g[w]
    OBVIOUS
  <2>1. w \in Reach(Found, u)
    BY <1>4, <1>5, ReachEquivalence
  <2> QED
    BY <1>6, <2>1 DEF Components
<1>8. \A u, w \in Roots(g, Indices) : u = w
  BY <1>7 DEF Roots
<1>9. Cardinality(Roots(g, Indices)) <= 1
  <2>1. CASE Roots(g, Indices) = {}
    BY <2>1, FS_EmptySet
  <2>2. CASE Roots(g, Indices) # {}
    <3>1. PICK r : Roots(g, Indices) = {r}
      BY <1>8, <2>2
    <3>2. Cardinality({r}) = 1
      BY FS_Singleton
    <3> QED
      BY <3>1, <3>2
  <2> QED
    BY <2>1, <2>2
<1>10. Len(mst) \in Nat /\ numVertices - Len(mst) <= 1
  <2>1. mst \in Seq(edges)
    BY DEF KInv
  <2> QED
    BY <1>6, <1>9, <2>1, LenProperties DEF Components
<1>11. Covered(Found) \subseteq Indices
  <2>1. \A e \in Found : e.ends \subseteq vertices
    BY <1>4 DEF GraphOK
  <2> QED
    BY <1>1, <2>1 DEF Covered
<1>12. Indices \subseteq 0 .. Len(mst)
  BY <1>3, <1>10 DEF Indices
<1> QED
  BY <1>11, <1>12 DEF ShortestInBounds

LEMMA MetricsHold ==
  ASSUME IInv, Measured, Tame(TreeDistances(Found))
  PROVE  LET distance == TreeDistances(Found)
             all == {distance[p] : p \in DOMAIN distance}
         IN  /\ TotalOf(Found) <= IntMax => getTotalWeight = TotalOf(Found)
             /\ getLongestDistance = Max(all)
             /\ getAverageDistance =
                  <<SumOf(distance, DOMAIN distance), Cardinality(DOMAIN distance)>>
             /\ GraphConnected => ShortestInBounds
             /\ ShortestInBounds => getShortestDistance = Min(all)
<1> DEFINE distance == TreeDistances(Found)
           dom == DOMAIN distance
           all == {distance[p] : p \in dom}
<1>1. GraphOK /\ KInv /\ status = "done" /\ mst # <<>>
  BY DEF IInv, Measured, Done
<1>2. mst \in Seq(edges) /\ Cardinality(Found) = Len(mst) /\ Found \subseteq Inside
  BY <1>1 DEF KInv
<1>3. Tree(Found) /\ Lengths(Found)
  <2>1. Proper(Found)
    BY <1>1, <1>2, ProperSubset DEF Inside, GraphOK
  <2> QED
    BY <1>1, <2>1 DEF Tree, Lengths, Proper, IntWeights, KInv, Tame
<1>4. Covered(Found) \subseteq Indices
  BY <1>2 DEF Inside, Covered
<1>5. PICK e, a, b : e \in Found /\ e.ends = {a, b} /\ a # b /\ b \in Reach(Found, a)
  <2>1. mst[1] \in Found
    BY <1>1, <1>2, LenProperties, EmptySeq DEF Found
  <2>2. PICK a, b : mst[1].ends = {a, b}
    BY <1>3, <2>1 DEF Tree, HaveEnds
  <2>3. a # b /\ b \in Reach(Found, a)
    BY <1>3, <2>1, <2>2, PartingOfEdge
  <2> QED
    BY <2>1, <2>2, <2>3
<1>6. a \in Covered(Found) /\ b \in Covered(Found) /\ a \in Reach(Found, b)
  BY <1>3, <1>5, ReachCovered, TreeReach
<1>7. dom # {}
  <2>1. a \in Int /\ b \in Int
    BY <1>1, <1>4, <1>6, IndicesFinite DEF Indices, GraphOK
  <2>2. dom = {q \in Covered(Found) \X Covered(Found) :
                 q[1] < q[2] /\ Connected(Found, q[1], q[2])}
    BY <1>3, TreeDistancesAre
  <2> DEFINE p == <<a, b>>
             r == <<b, a>>
  <2>3. a < b => p \in dom
    <3>1. p[1] = a /\ p[2] = b
      OBVIOUS
    <3> HIDE DEF dom
    <3> QED
      BY <1>5, <1>6, <2>2, <3>1 DEF Connected
  <2>4. b < a => r \in dom
    <3>1. r[1] = b /\ r[2] = a
      OBVIOUS
    <3> HIDE DEF dom
    <3> QED
      BY <1>5, <1>6, <2>2, <3>1 DEF Connected
  <2>5. a < b \/ b < a
    BY <1>5, <2>1
  <2> QED
    BY <2>3, <2>4, <2>5
<1>8. numVertices \in Nat \ {0} /\ Measurable(Found, numVertices)
  <2>1. numVertices \in Nat \ {0}
    BY <1>1, <1>4, <1>6, IndicesFinite DEF Indices, GraphOK
  <2> QED
    BY <1>3, <1>4, <2>1, MeasurableTree DEF Indices
<1> DEFINE dist == Distances(numVertices)
<1>9. /\ Finite(dist, numVertices) = dom /\ IsFiniteSet(dom)
      /\ \A p \in dom : dist[p] = distance[p] /\ distance[p] \in Nat /\ distance[p] < IntMax
  BY <1>8, FiniteDistances
<1>10. all \subseteq Nat /\ all # {} /\ \A x \in all : x < IntMax
  BY <1>7, <1>9
<1>16. IntMax \in Nat
  BY EdgeInputsAssumption
<1>11. TotalOf(Found) <= IntMax => getTotalWeight = TotalOf(Found)
  BY <1>2, <1>3, TotalWeight
<1>12. getLongestDistance = Max(all)
  <2>1. getLongestDistance = Max({0} \cup {dist[p] : p \in Finite(dist, numVertices)})
    BY DEF getLongestDistance
  <2>2. {dist[p] : p \in Finite(dist, numVertices)} = all
    BY <1>9
  <2>3. PICK B \in Int : \A x \in all : x <= B
    <3>1. IntMax \in Int /\ \A x \in all : x <= IntMax
      BY <1>10, <1>16
    <3> QED
      BY <3>1
  <2> HIDE DEF all, dist
  <2>4. Max({0} \cup all) = Max(all)
    BY <1>10, <2>3, MaxWithZero
  <2> QED
    BY <2>1, <2>2, <2>4
<1>13. getAverageDistance = <<SumOf(distance, dom), Cardinality(dom)>>
  <2>1. getAverageDistance = <<SumOf(dist, Finite(dist, numVertices)),
                               Cardinality(Finite(dist, numVertices))>>
    BY DEF getAverageDistance
  <2>2. IntOn(dist, dom) /\ \A p \in dom : dist[p] = distance[p]
    BY <1>9 DEF IntOn
  <2>3. SumOf(dist, dom) = SumOf(distance, dom)
    <3> HIDE DEF dist, distance, dom
    <3> QED
      BY <1>9, <2>2, SumOfSame
  <2> QED
    BY <1>9, <2>1, <2>3
<1>14. GraphConnected => ShortestInBounds
  BY <1>1, ConnectedTree
<1>15. ShortestInBounds => getShortestDistance = Min(all)
  <2> SUFFICES ASSUME ShortestInBounds PROVE getShortestDistance = Min(all)
    OBVIOUS
  <2> DEFINE n == Len(mst) + 1
             near == Distances(n)
  <2>1. n \in Nat \ {0} /\ n - 1 = Len(mst)
    BY <1>2, LenProperties
  <2>2. Measurable(Found, n)
    BY <1>3, <2>1, MeasurableTree DEF ShortestInBounds
  <2>3. Finite(near, n) = dom /\ \A p \in dom : near[p] = distance[p]
    BY <2>2, FiniteDistances
  <2>4. getShortestDistance = Min({IntMax} \cup {near[p] : p \in Finite(near, n)})
    BY DEF getShortestDistance
  <2>5. {near[p] : p \in Finite(near, n)} = all
    BY <2>3
  <2>6. PICK B \in Nat : B = IntMax /\ \A x \in all : x <= B
    BY <1>10, <1>16
  <2> HIDE DEF all, near, n
  <2>7. Min({B} \cup all) = Min(all)
    BY <1>10, <2>6, MinWithBound
  <2> QED
    BY <2>4, <2>5, <2>6, <2>7
<1> QED
  BY <1>11, <1>12, <1>13, <1>14, <1>15

\* Where weights are lengths and no sum of four distances overflows, the
\* longest and the average distance that metrics_mst shows are those of the
\* tree, on any graph; the total weight is if it fits an int, and the shortest
\* distance if the tree is inside its matrix, which a connected graph without
\* gaps guarantees (MSTMetrics.cpp:16,33,94,149).
THEOREM MetricsCorrect == Spec => []MetricsOfTree
<1>1. IInv => MetricsOfTree
  BY MetricsHold DEF MetricsOfTree
<1> QED
  BY <1>1, Invariance, PTL

AllFourRight ==
  LET distance == TreeDistances(Found)
      all == {distance[p] : p \in DOMAIN distance}
  IN  /\ getTotalWeight = TotalOf(Found)
      /\ getLongestDistance = Max(all)
      /\ getShortestDistance = Min(all)
      /\ getAverageDistance =
           <<SumOf(distance, DOMAIN distance), Cardinality(DOMAIN distance)>>

\* On a connected graph without gaps in its ids, whose tree has tame distances
\* and a total weight that fits an int, all four metrics are those of the tree
\* (MSTMetrics.cpp:16,33,94,149).
THEOREM AllMetricsOfConnectedGraph ==
  Spec => [](Measured /\ GraphConnected /\ Tame(TreeDistances(Found))
               /\ TotalOf(Found) <= IntMax => AllFourRight)
<1>1. MetricsOfTree =>
        (Measured /\ GraphConnected /\ Tame(TreeDistances(Found))
           /\ TotalOf(Found) <= IntMax => AllFourRight)
  BY Zenon DEF MetricsOfTree, AllFourRight
<1> QED
  BY <1>1, MetricsCorrect, PTL
=============================================================================
