---------------------------- MODULE ForestProofs ----------------------------
(***************************************************************************)
(* Facts about SpanningForest's definitions, for all finite sets of edges: *)
(* what a set of edges connects, how an edge more or less changes it, the  *)
(* cut property that Kruskal's and Prim's algorithms rest on, and what     *)
(* lies between two vertices of a tree, whose weights are their distance.  *)
(***************************************************************************)
EXTENDS SpanningForest, DataLemmas

-----------------------------------------------------------------------------
(* What edges of F reach.                                                   *)

\* The edges of F that have an end in S.
Touching(F, S) == {e \in F : e.ends \cap S # {}}

\* No edge of F leads out of S.
ClosedUnder(F, S) == \A e \in F : e.ends \cap S # {} => e.ends \subseteq S

\* The equations of reach in Reach.
Reaches(r, F, v) ==
  r = [k \in 0 .. Cardinality(F) |->
         IF k = 0 THEN {v}
         ELSE r[k - 1] \cup Covered({e \in F : e.ends \cap r[k - 1] # {}})]

LEMMA ReachDefined ==
  ASSUME NEW F, IsFiniteSet(F), NEW v
  PROVE  \E r : Reaches(r, F, v) /\ Reach(F, v) = r[Cardinality(F)]
<1> DEFINE n == Cardinality(F)
           U == SUBSET (Covered(F) \cup {v})
           b == {v}
           step == [k \in 1 .. n |-> [S \in U |->
                      S \cup Covered({e \in F : e.ends \cap S # {}})]]
<1>1. n \in Nat
  BY FS_CardinalityType
<1>2. ASSUME NEW S \in U PROVE S \cup Covered({e \in F : e.ends \cap S # {}}) \in U
  BY DEF Covered
<1>3. Steps(step, n, U) /\ b \in U
  BY <1>2 DEF Steps
<1>4. \A k \in 1 .. n, S \in U :
        step[k][S] = S \cup Covered({e \in F : e.ends \cap S # {}})
  OBVIOUS
<1> HIDE DEF n, U, b, step
<1>5. PICK r : r \in [0 .. n -> U] /\ Iterates(r, step, n, b)
  BY <1>1, <1>3, Recursion
<1>6. \A k \in 0 .. n : r[k] = IF k = 0 THEN b ELSE step[k][r[k - 1]]
  BY <1>5 DEF Iterates
<1>7. \A k \in 0 .. n :
        r[k] = IF k = 0 THEN {v}
               ELSE r[k - 1] \cup Covered({e \in F : e.ends \cap r[k - 1] # {}})
  <2> SUFFICES ASSUME NEW k \in 0 .. n, k # 0
               PROVE  r[k] = r[k - 1] \cup Covered({e \in F : e.ends \cap r[k - 1] # {}})
    BY <1>6 DEF b
  <2>1. k \in 1 .. n /\ r[k - 1] \in U
    BY <1>1, <1>5
  <2> QED
    BY <1>4, <1>6, <2>1
<1>8. r = [k \in 0 .. n |-> IF k = 0 THEN {v}
               ELSE r[k - 1] \cup Covered({e \in F : e.ends \cap r[k - 1] # {}})]
  BY <1>5, <1>7
<1>9. Reaches(r, F, v)
  BY <1>8 DEF Reaches, n
<1> DEFINE s == CHOOSE s : Reaches(s, F, v)
<1>10. Reaches(s, F, v)
  BY <1>9
<1>11. Reach(F, v) = s[n]
  BY DEF Reach, Reaches, n
<1> QED
  BY <1>10, <1>11 DEF n

\* Every set in which the edges of F do not lead outside and that has v has all
\* that F reaches from v, and that is the least such set.
LEMMA ReachIsClosure ==
  ASSUME NEW F, IsFiniteSet(F), NEW v
  PROVE  /\ v \in Reach(F, v)
         /\ ClosedUnder(F, Reach(F, v))
         /\ \A S : v \in S /\ ClosedUnder(F, S) => Reach(F, v) \subseteq S
<1> DEFINE n == Cardinality(F)
<1>1. PICK r : Reaches(r, F, v) /\ Reach(F, v) = r[n]
  BY ReachDefined
<1>2. n \in Nat
  BY FS_CardinalityType
<1> HIDE DEF n
<1>3. r[0] = {v}
  BY <1>1, <1>2 DEF Reaches, n
<1>4. ASSUME NEW k \in Nat, k + 1 <= n
      PROVE  r[k + 1] = r[k] \cup Covered(Touching(F, r[k]))
  <2>1. k + 1 \in 0 .. n /\ k + 1 # 0 /\ (k + 1) - 1 = k
    BY <1>2, <1>4
  <2> DEFINE next(j) == r[j - 1] \cup Covered({e \in F : e.ends \cap r[j - 1] # {}})
  <2>2. \A j \in 0 .. n : r[j] = IF j = 0 THEN {v} ELSE next(j)
    BY <1>1 DEF Reaches, n
  <2>3. r[k + 1] = next(k + 1)
    <3> HIDE DEF next
    <3> QED
      BY <2>1, <2>2
  <2> QED
    BY <2>1, <2>3 DEF Touching
<1>5. ASSUME NEW S, v \in S, ClosedUnder(F, S) PROVE r[n] \subseteq S
  <2> DEFINE N == {k \in Nat : k <= n => r[k] \subseteq S}
  <2>1. 0 \in N
    BY <1>3, <1>5
  <2>2. ASSUME NEW k \in Nat, k \in N PROVE k + 1 \in N
    <3> SUFFICES ASSUME k + 1 <= n PROVE r[k + 1] \subseteq S
      OBVIOUS
    <3>1. r[k] \subseteq S
      BY <1>2, <2>2
    <3>2. Covered(Touching(F, r[k])) \subseteq S
      BY <1>5, <3>1 DEF Covered, Touching, ClosedUnder
    <3> QED
      BY <1>4, <3>1, <3>2
  <2>3. n \in N
    <3> HIDE DEF N
    <3> QED
      BY <1>2, <2>1, <2>2, Induction
  <2> QED
    BY <2>3
<1>6. ASSUME NEW k \in Nat, k <= n PROVE v \in r[k]
  <2> DEFINE N == {i \in Nat : i <= n => v \in r[i]}
  <2>1. 0 \in N
    BY <1>3
  <2>2. ASSUME NEW i \in Nat, i \in N PROVE i + 1 \in N
    BY <1>2, <1>4, <2>2
  <2>3. k \in N
    <3> HIDE DEF N
    <3> QED
      BY <2>1, <2>2, Induction
  <2> QED
    BY <1>6, <2>3
<1>7. ClosedUnder(F, r[n])
  <2> DEFINE T(k) == Touching(F, r[k])
             N == {k \in Nat : k <= n /\ ~ClosedUnder(F, r[k]) =>
                                 k + 1 <= Cardinality(T(k))}
  <2>1. ASSUME NEW S PROVE IsFiniteSet(Touching(F, S)) /\ Cardinality(Touching(F, S)) \in Nat
                           /\ Cardinality(Touching(F, S)) <= n
    <3>1. Touching(F, S) \subseteq F
      BY DEF Touching
    <3> QED
      BY <3>1, FS_Subset, FS_CardinalityType DEF n
  <2>2. 0 \in N
    <3> SUFFICES ASSUME ~ClosedUnder(F, r[0]) PROVE 1 <= Cardinality(T(0))
      BY <1>2
    <3>1. T(0) # {}
      BY DEF ClosedUnder, Touching
    <3> QED
      BY <2>1, <3>1, FS_EmptySet
  <2>3. ASSUME NEW k \in Nat, k \in N PROVE k + 1 \in N
    <3> SUFFICES ASSUME k + 1 <= n, ~ClosedUnder(F, r[k + 1])
                 PROVE  (k + 1) + 1 <= Cardinality(T(k + 1))
      OBVIOUS
    <3>1. r[k + 1] = r[k] \cup Covered(T(k))
      BY <1>4
    <3>2. ~ClosedUnder(F, r[k])
      <4> SUFFICES ASSUME ClosedUnder(F, r[k]) PROVE FALSE
        OBVIOUS
      <4>1. Covered(T(k)) \subseteq r[k]
        BY DEF Covered, Touching, ClosedUnder
      <4> QED
        BY <3>1, <4>1
    <3>3. k + 1 <= Cardinality(T(k))
      BY <1>2, <2>3, <3>2
    <3>4. PICK e \in F : e.ends \cap r[k + 1] # {} /\ ~(e.ends \subseteq r[k + 1])
      BY DEF ClosedUnder
    <3>5. e \in T(k + 1) /\ e \notin T(k) /\ T(k) \subseteq T(k + 1)
      BY <3>1, <3>4 DEF Touching, Covered
    <3>6. /\ IsFiniteSet(T(k + 1))
          /\ Cardinality(T(k)) \in Nat /\ Cardinality(T(k + 1)) \in Nat
      BY <2>1
    <3> HIDE DEF T
    <3>7. Cardinality(T(k)) + 1 <= Cardinality(T(k + 1))
      BY <3>5, <3>6, FewerThan
    <3> QED
      BY <3>3, <3>6, <3>7
  <2>4. n \in N
    <3> HIDE DEF N
    <3> QED
      BY <1>2, <2>2, <2>3, Induction
  <2> QED
    BY <1>2, <2>1, <2>4
<1> QED
  BY <1>1, <1>2, <1>5, <1>6, <1>7

LEMMA ReachNothing ==
  ASSUME NEW v
  PROVE  Reach({}, v) = {v}
<1>1. v \in Reach({}, v) /\ (v \in {v} /\ ClosedUnder({}, {v}) => Reach({}, v) \subseteq {v})
  BY ReachIsClosure, FS_EmptySet
<1>2. ClosedUnder({}, {v})
  BY DEF ClosedUnder
<1> QED
  BY <1>1, <1>2

\* What F reaches from one vertex is what it reaches from any vertex there.
LEMMA ReachSame ==
  ASSUME NEW F, IsFiniteSet(F), NEW v, NEW u \in Reach(F, v)
  PROVE  Reach(F, u) = Reach(F, v)
<1> DEFINE R == Reach(F, u)
           S == Reach(F, v) \ R
<1>1. u \in R /\ ClosedUnder(F, R)
  BY ReachIsClosure
<1>2. v \in Reach(F, v) /\ ClosedUnder(F, Reach(F, v))
  BY ReachIsClosure
<1>3. R \subseteq Reach(F, v)
  BY <1>2, ReachIsClosure
<1>4. ClosedUnder(F, S)
  BY <1>1, <1>2 DEF ClosedUnder
<1>5. v \notin S
  BY <1>1, <1>4, ReachIsClosure
<1>6. Reach(F, v) \subseteq R
  BY <1>1, <1>2, <1>5, ReachIsClosure
<1> QED
  BY <1>3, <1>6

LEMMA ReachMore ==
  ASSUME NEW H, IsFiniteSet(H), NEW F, F \subseteq H, NEW v
  PROVE  Reach(F, v) \subseteq Reach(H, v)
<1>1. IsFiniteSet(F)
  BY FS_Subset
<1>2. v \in Reach(H, v) /\ ClosedUnder(F, Reach(H, v))
  BY ReachIsClosure DEF ClosedUnder
<1> QED
  BY <1>1, <1>2, ReachIsClosure

\* Being connected is an equivalence relation, and a larger graph connects more.
LEMMA ReachEquivalence ==
  ASSUME NEW F, IsFiniteSet(F)
  PROVE  /\ \A x : x \in Reach(F, x)
         /\ \A x, y : y \in Reach(F, x) => Reach(F, y) = Reach(F, x)
         /\ \A x, y : y \in Reach(F, x) => x \in Reach(F, y)
         /\ \A e \in F : \A x, y \in e.ends : y \in Reach(F, x)
<1>1. \A x : x \in Reach(F, x)
  BY ReachIsClosure
<1>2. \A x, y : y \in Reach(F, x) => Reach(F, y) = Reach(F, x)
  BY ReachSame
<1>3. \A e \in F : \A x, y \in e.ends : y \in Reach(F, x)
  <2> SUFFICES ASSUME NEW e \in F, NEW x \in e.ends, NEW y \in e.ends
               PROVE  y \in Reach(F, x)
    OBVIOUS
  <2>1. x \in Reach(F, x) /\ ClosedUnder(F, Reach(F, x))
    BY ReachIsClosure
  <2> QED
    BY <2>1 DEF ClosedUnder
<1> QED
  BY <1>1, <1>2, <1>3

\* What another edge connects.
LEMMA ReachWith ==
  ASSUME NEW F, IsFiniteSet(F), NEW e, NEW s, NEW d, e.ends = {s, d}, NEW u
  PROVE  /\ s \in Reach(F, u) \/ d \in Reach(F, u)
              => Reach(F \cup {e}, u) = Reach(F, s) \cup Reach(F, d)
         /\ s \notin Reach(F, u) /\ d \notin Reach(F, u)
              => Reach(F \cup {e}, u) = Reach(F, u)
<1> DEFINE H == F \cup {e}
<1>1. IsFiniteSet(H) /\ F \subseteq H /\ e \in H
  BY FS_AddElement
<1>2. ASSUME NEW x
      PROVE  /\ x \in Reach(F, x) /\ ClosedUnder(F, Reach(F, x))
             /\ x \in Reach(H, x) /\ ClosedUnder(H, Reach(H, x))
             /\ Reach(F, x) \subseteq Reach(H, x)
  <2> HIDE DEF H
  <2> QED
    BY <1>1, ReachIsClosure, ReachMore
<1>3. \A x, y : y \in Reach(F, x) => Reach(F, y) = Reach(F, x)
  BY ReachSame
<1>4. \A x, y : y \in Reach(H, x) => Reach(H, y) = Reach(H, x)
  <2> HIDE DEF H
  <2> QED
    BY <1>1, ReachSame
<1>5. ASSUME NEW S, u \in S, ClosedUnder(H, S) PROVE Reach(H, u) \subseteq S
  <2> HIDE DEF H
  <2> QED
    BY <1>1, <1>5, ReachIsClosure
<1>6. CASE s \in Reach(F, u) \/ d \in Reach(F, u)
  <2> DEFINE S == Reach(F, s) \cup Reach(F, d)
  <2>1. u \in S
    BY <1>2, <1>3, <1>6
  <2>2. ClosedUnder(F, S)
    BY <1>2 DEF ClosedUnder
  <2>3. s \in S /\ d \in S
    BY <1>2
  <2>4. ClosedUnder(H, S)
    <3> HIDE DEF S
    <3> QED
      BY <2>2, <2>3 DEF ClosedUnder
  <2>5. Reach(H, u) \subseteq S
    BY <1>5, <2>1, <2>4
  <2>6. s \in Reach(H, u) /\ d \in Reach(H, u)
    <3>1. s \in Reach(H, u) \/ d \in Reach(H, u)
      BY <1>2, <1>6
    <3> QED
      BY <1>1, <1>2, <3>1 DEF ClosedUnder
  <2>7. S \subseteq Reach(H, u)
    <3> HIDE DEF H
    <3> QED
      BY <1>2, <1>4, <2>6
  <2> QED
    BY <1>6, <2>5, <2>7
<1>7. CASE ~(s \in Reach(F, u) \/ d \in Reach(F, u))
  <2>1. ClosedUnder(H, Reach(F, u))
    BY <1>2, <1>7 DEF ClosedUnder
  <2>2. Reach(H, u) \subseteq Reach(F, u)
    BY <1>2, <1>5, <2>1
  <2> QED
    BY <1>2, <1>7, <2>2
<1> QED
  BY <1>6, <1>7

-----------------------------------------------------------------------------
(* Forests.                                                                 *)

\* The ends of an edge are one or two vertices.
HaveEnds(F) == \A e \in F : \E s, d : e.ends = {s, d}

LEMMA ForestSubset ==
  ASSUME NEW F, IsFiniteSet(F), IsForest(F), NEW T, T \subseteq F
  PROVE  IsForest(T)
<1> SUFFICES ASSUME NEW e \in T, NEW u \in e.ends, e.ends \subseteq Reach(T \ {e}, u)
             PROVE  FALSE
  BY DEF IsForest
<1>1. IsFiniteSet(F \ {e}) /\ T \ {e} \subseteq F \ {e}
  BY FS_Subset
<1>2. Reach(T \ {e}, u) \subseteq Reach(F \ {e}, u)
  BY <1>1, ReachMore
<1> QED
  BY <1>2 DEF IsForest

\* An edge between two components of a forest makes it a larger forest.
LEMMA ForestWith ==
  ASSUME NEW F, IsFiniteSet(F), IsForest(F), HaveEnds(F),
         NEW e, NEW s, NEW d, e.ends = {s, d}, d \notin Reach(F, s)
  PROVE  IsForest(F \cup {e})
<1> DEFINE H == F \cup {e}
<1> SUFFICES ASSUME NEW x \in H, NEW a \in x.ends, x.ends \subseteq Reach(H \ {x}, a)
             PROVE  FALSE
  BY DEF IsForest
<1>e. /\ \A u : u \in Reach(F, u)
      /\ \A u, w : w \in Reach(F, u) => Reach(F, w) = Reach(F, u)
      /\ \A f \in F : \A u, w \in f.ends : w \in Reach(F, u)
  BY ReachEquivalence
<1>1. e \notin F
  BY <1>e
<1>2. CASE x = e
  <2>1. H \ {x} = F
    BY <1>1, <1>2
  <2>2. s \in Reach(F, a) /\ d \in Reach(F, a)
    BY <1>2, <2>1
  <2> QED
    BY <1>e, <2>2
<1>3. CASE x # e
  <2> DEFINE K == F \ {x}
  <2>1. x \in F /\ H \ {x} = K \cup {e} /\ IsFiniteSet(K) /\ K \subseteq F
    BY <1>3, FS_Subset
  <2>2. PICK p, q : x.ends = {p, q}
    BY <2>1 DEF HaveEnds
  <2>3. PICK b : x.ends = {a, b}
    BY <2>2
  <2>4. b \notin Reach(K, a)
    <3>1. ~(x.ends \subseteq Reach(K, a))
      BY <2>1 DEF IsForest
    <3>2. a \in Reach(K, a)
      BY <2>1, ReachIsClosure
    <3> QED
      BY <2>3, <3>1, <3>2
  <2>5. b \in Reach(K \cup {e}, a)
    BY <2>1, <2>3
  <2> HIDE DEF K, H
  <2>6. /\ s \in Reach(K, a) \/ d \in Reach(K, a)
             => Reach(K \cup {e}, a) = Reach(K, s) \cup Reach(K, d)
        /\ s \notin Reach(K, a) /\ d \notin Reach(K, a)
             => Reach(K \cup {e}, a) = Reach(K, a)
    BY <2>1, ReachWith
  <2>7. /\ \A u, w : w \in Reach(K, u) => Reach(K, w) = Reach(K, u)
        /\ \A u, w : w \in Reach(K, u) => u \in Reach(K, w)
    BY <2>1, ReachEquivalence
  <2>8. \A u : Reach(K, u) \subseteq Reach(F, u)
    BY <2>1, ReachMore
  <2>9. b \in Reach(F, a)
    BY <1>e, <2>1, <2>3
  <2>10. (s \in Reach(K, a) /\ b \in Reach(K, d)) \/ (d \in Reach(K, a) /\ b \in Reach(K, s))
    BY <2>4, <2>5, <2>6, <2>7
  <2>11. (s \in Reach(F, a) /\ b \in Reach(F, d)) \/ (d \in Reach(F, a) /\ b \in Reach(F, s))
    BY <2>8, <2>10
  <2> QED
    BY <1>e, <2>9, <2>11
<1> QED
  BY <1>2, <1>3

\* Without an edge, the two ends of an edge of a forest are in two components.
LEMMA ForestBridge ==
  ASSUME NEW F, IsFiniteSet(F), IsForest(F), NEW e \in F, NEW s, NEW d, e.ends = {s, d}
  PROVE  d \notin Reach(F \ {e}, s) /\ s \notin Reach(F \ {e}, d)
<1>1. IsFiniteSet(F \ {e})
  BY FS_Subset
<1>2. s \in Reach(F \ {e}, s) /\ d \in Reach(F \ {e}, d)
  BY <1>1, ReachIsClosure
<1> QED
  BY <1>2 DEF IsForest

\* A spanning set of edges connects what all edges connect.
LEMMA SpansConnects ==
  ASSUME NEW E, IsFiniteSet(E), NEW F, F \subseteq E, Spans(F, E)
  PROVE  \A e \in E : \A u, w \in e.ends : w \in Reach(F, u)
<1> SUFFICES ASSUME NEW e \in E, NEW u \in e.ends, NEW w \in e.ends
             PROVE  w \in Reach(F, u)
  OBVIOUS
<1>1. IsFiniteSet(F)
  BY FS_Subset
<1>2. /\ \A x, y : y \in Reach(F, x) => Reach(F, y) = Reach(F, x)
      /\ \A f \in F : \A x, y \in f.ends : y \in Reach(F, x)
  BY <1>1, ReachEquivalence
<1>3. CASE e \in F
  BY <1>2, <1>3
<1>4. CASE e \notin F
  <2>1. PICK x \in e.ends : e.ends \subseteq Reach(F, x)
    BY <1>4 DEF Spans
  <2> QED
    BY <1>2, <2>1
<1> QED
  BY <1>3, <1>4

\* Edges with ends that the set connects need not be in it.
LEMMA ConnectsSpans ==
  ASSUME NEW E, HaveEnds(E), NEW F, \A e \in E : \A u, w \in e.ends : w \in Reach(F, u)
  PROVE  Spans(F, E)
<1> SUFFICES ASSUME NEW e \in E PROVE \E u \in e.ends : e.ends \subseteq Reach(F, u)
  BY DEF Spans
<1>1. PICK s, d : e.ends = {s, d}
  BY DEF HaveEnds
<1> QED
  BY <1>1

\* Of the edges on the way that a forest G has from s to d, out of A, one leads
\* out of A and cannot be spared.
LEMMA CrossingBridge ==
  ASSUME NEW G, IsFiniteSet(G), IsForest(G), HaveEnds(G),
         NEW s, NEW d, d \in Reach(G, s),
         NEW A, s \in A, d \notin A
  PROVE  \E f \in G : /\ f.ends \cap A # {} /\ ~(f.ends \subseteq A)
                      /\ d \notin Reach(G \ {f}, s)
<1> DEFINE X == {f \in G : f.ends \cap A # {} /\ ~(f.ends \subseteq A)}
<1> SUFFICES ASSUME \A f \in X : d \in Reach(G \ {f}, s) PROVE FALSE
  OBVIOUS
<1>1. X \subseteq G /\ IsFiniteSet(X)
  BY FS_Subset
<1> DEFINE P == {Y \in SUBSET X : d \in Reach(G \ Y, s)}
<1>2. {} \in P
  <2>1. G \ {} = G
    OBVIOUS
  <2> QED
    BY <2>1
<1>3. ASSUME NEW Y \in SUBSET X, NEW x \in X, Y \in P, x \notin Y PROVE Y \cup {x} \in P
  <2> DEFINE K == G \ (Y \cup {x})
             Gx == G \ {x}
  <2>1. /\ x \in G /\ d \in Reach(Gx, s)
        /\ K \subseteq Gx /\ G \ Y = K \cup {x} /\ K \subseteq G /\ Gx \subseteq G
    BY <1>1, <1>3
  <2>2. IsFiniteSet(K) /\ IsFiniteSet(Gx)
    BY <2>1, FS_Subset
  <2>3. d \in Reach(K \cup {x}, s)
    BY <1>3, <2>1
  <2>4. PICK a, b : x.ends = {a, b}
    BY <2>1 DEF HaveEnds
  <2>5. b \notin Reach(Gx, a)
    BY <2>1, <2>4, ForestBridge
  <2> HIDE DEF K, Gx, P, X
  <2>6. /\ a \in Reach(K, s) \/ b \in Reach(K, s)
             => Reach(K \cup {x}, s) = Reach(K, a) \cup Reach(K, b)
        /\ a \notin Reach(K, s) /\ b \notin Reach(K, s)
             => Reach(K \cup {x}, s) = Reach(K, s)
    BY <2>2, <2>4, ReachWith
  <2>7. \A u : Reach(K, u) \subseteq Reach(Gx, u)
    BY <2>1, <2>2, ReachMore
  <2>8. /\ \A u, w : w \in Reach(Gx, u) => Reach(Gx, w) = Reach(Gx, u)
        /\ \A u, w : w \in Reach(Gx, u) => u \in Reach(Gx, w)
    BY <2>2, ReachEquivalence
  <2>9. /\ \A u, w : w \in Reach(K, u) => Reach(K, w) = Reach(K, u)
        /\ \A u, w : w \in Reach(K, u) => u \in Reach(K, w)
    BY <2>2, ReachEquivalence
  <2>10. d \in Reach(K, s)
    <3> SUFFICES ASSUME d \notin Reach(K, s) PROVE FALSE
      OBVIOUS
    <3>1. (a \in Reach(K, s) /\ d \in Reach(K, b)) \/ (b \in Reach(K, s) /\ d \in Reach(K, a))
      BY <2>3, <2>6, <2>9
    <3>2. (a \in Reach(Gx, s) /\ d \in Reach(Gx, b)) \/ (b \in Reach(Gx, s) /\ d \in Reach(Gx, a))
      BY <2>7, <3>1
    <3> QED
      BY <2>1, <2>5, <2>8, <3>2
  <2>11. Y \cup {x} \in SUBSET X
    OBVIOUS
  <2> QED
    BY <2>10, <2>11 DEF P, K
<1>4. X \in P
  <2> HIDE DEF P, X
  <2> QED
    BY <1>1, <1>2, <1>3, SetInduction
<1>5. ClosedUnder(G \ X, A) /\ IsFiniteSet(G \ X)
  BY FS_Subset DEF ClosedUnder
<1>6. Reach(G \ X, s) \subseteq A
  <2> HIDE DEF X
  <2> QED
    BY <1>5, ReachIsClosure
<1> QED
  BY <1>4, <1>6

\* A spanning forest in which the edge e replaces the edge f on the way between
\* its ends is a spanning forest.
LEMMA Exchange ==
  ASSUME NEW E, IsFiniteSet(E), HaveEnds(E), NEW G, IsSpanningForest(G, E),
         NEW e \in E, NEW s, NEW d, e.ends = {s, d},
         NEW f \in G, d \notin Reach(G \ {f}, s)
  PROVE  IsSpanningForest((G \ {f}) \cup {e}, E)
<1> DEFINE K == G \ {f}
           H == K \cup {e}
<1>1. G \subseteq E /\ IsForest(G) /\ Spans(G, E)
  BY DEF IsSpanningForest
<1>2. IsFiniteSet(G) /\ K \subseteq G /\ HaveEnds(K) /\ H \subseteq E /\ G = K \cup {f}
  BY <1>1, FS_Subset DEF HaveEnds
<1>3. IsFiniteSet(K) /\ IsFiniteSet(H) /\ K \subseteq H /\ e \in H
  BY <1>2, FS_Subset, FS_AddElement
<1> HIDE DEF H
<1>4. IsForest(H)
  <2>1. IsForest(K)
    BY <1>1, <1>2, ForestSubset
  <2> HIDE DEF K
  <2> QED
    BY <1>2, <1>3, <2>1, ForestWith DEF H, K
<1>5. PICK a, b : f.ends = {a, b}
  BY <1>1 DEF HaveEnds
<1>6. d \in Reach(G, s)
  BY <1>1, SpansConnects
<1>7. b \notin Reach(K, a)
  BY <1>1, <1>2, <1>5, ForestBridge
<1>8. d \notin Reach(K, s)
  OBVIOUS
<1> HIDE DEF K
<1>9. /\ a \in Reach(K, s) \/ b \in Reach(K, s)
           => Reach(G, s) = Reach(K, a) \cup Reach(K, b)
      /\ a \notin Reach(K, s) /\ b \notin Reach(K, s)
           => Reach(G, s) = Reach(K, s)
  BY <1>2, <1>3, <1>5, ReachWith
<1>10. \A u, w : w \in Reach(K, u) => Reach(K, w) = Reach(K, u) /\ u \in Reach(K, w)
  BY <1>3, ReachEquivalence
<1>11. (a \in Reach(K, s) /\ d \in Reach(K, b)) \/ (b \in Reach(K, s) /\ d \in Reach(K, a))
  BY <1>6, <1>8, <1>9, <1>10
<1>12. /\ \A u : Reach(K, u) \subseteq Reach(H, u)
       /\ \A u, w : w \in Reach(H, u) => Reach(H, w) = Reach(H, u) /\ u \in Reach(H, w)
       /\ \A x \in H : \A u, w \in x.ends : w \in Reach(H, u)
       /\ \A u : u \in Reach(H, u)
  BY <1>3, ReachMore, ReachEquivalence
<1>13. d \in Reach(H, s)
  BY <1>3, <1>12
<1>14. (a \in Reach(H, s) /\ d \in Reach(H, b)) \/ (b \in Reach(H, s) /\ d \in Reach(H, a))
  BY <1>11, <1>12
<1>15. a \in Reach(H, b) /\ b \in Reach(H, a)
  BY <1>12, <1>13, <1>14
<1>16. \A x \in G : \A u, w \in x.ends : w \in Reach(H, u)
  <2> SUFFICES ASSUME NEW x \in G, NEW u \in x.ends, NEW w \in x.ends PROVE w \in Reach(H, u)
    OBVIOUS
  <2>1. CASE x = f
    BY <1>5, <1>12, <1>15, <2>1
  <2>2. CASE x # f
    BY <1>3, <1>12, <2>2 DEF K
  <2> QED
    BY <2>1, <2>2
<1>17. \A u : Reach(G, u) \subseteq Reach(H, u)
  <2> TAKE u
  <2>1. ClosedUnder(G, Reach(H, u))
    BY <1>12, <1>16 DEF ClosedUnder
  <2> QED
    BY <1>2, <1>12, <2>1, ReachIsClosure
<1>18. Spans(H, E)
  <2>1. \A x \in E : \A u, w \in x.ends : w \in Reach(G, u)
    BY <1>1, SpansConnects
  <2> QED
    BY <1>17, <2>1, ConnectsSpans
<1> QED
  BY <1>2, <1>4, <1>18 DEF IsSpanningForest, H, K

-----------------------------------------------------------------------------
(* Weights.                                                                 *)

IntWeights(F) == \A e \in F : e.weight \in Int

LEMMA TotalIsSum ==
  ASSUME NEW S, IsFiniteSet(S), NEW g, IntOn(g, S), \A e \in S : g[e] = e.weight
  PROVE  TotalOf(S) = SumOver(g, S)
<1> DEFINE Is(it) == it = [s \in SUBSET S |-> IF s = {} THEN 0
                           ELSE (CHOOSE x \in s : TRUE).weight
                                  + it[s \ {CHOOSE x \in s : TRUE}]]
           c == CHOOSE it : Is(it)
<1>1. TotalOf(S) = c[S]
  BY DEF TotalOf, MapThenSumSet, MapThenFoldSet
<1>2. ASSUME NEW it PROVE Is(it) <=> SumIter(it, g, S)
  <2>1. \A s \in SUBSET S : s # {} =>
          g[CHOOSE x \in s : TRUE] = (CHOOSE x \in s : TRUE).weight
    OBVIOUS
  <2> QED
    BY <2>1 DEF SumIter
<1>3. SumIter(c, g, S)
  <2> HIDE DEF Is
  <2>1. \E it : SumIter(it, g, S)
    BY SumIterExists
  <2>2. \E it : Is(it)
    BY <1>2, <2>1
  <2> QED
    BY <1>2, <2>2
<1> HIDE DEF c
<1>4. c[S] = SumOver(g, S)
  BY <1>3, ChosenSum
<1> QED
  BY <1>1, <1>4

LEMMA TotalAdds ==
  ASSUME NEW F, IsFiniteSet(F), IntWeights(F)
  PROVE  /\ TotalOf(F) \in Int
         /\ \A x \in F : TotalOf(F) = x.weight + TotalOf(F \ {x})
<1> DEFINE g == [e \in F |-> e.weight]
<1>1. IntOn(g, F) /\ \A e \in F : g[e] = e.weight
  BY DEF IntOn, IntWeights
<1> HIDE DEF g
<1>2. TotalOf(F) = SumOver(g, F)
  BY <1>1, TotalIsSum
<1>3. ASSUME NEW x \in F PROVE TotalOf(F \ {x}) = SumOver(g, F \ {x})
  <2> DEFINE T == F \ {x}
  <2>1. IsFiniteSet(T) /\ IntOn(g, T) /\ \A e \in T : g[e] = e.weight
    BY <1>1, FS_Subset DEF IntOn
  <2> HIDE DEF T
  <2>2. TotalOf(T) = SumOver(g, T)
    BY <2>1, TotalIsSum
  <2> QED
    BY <2>2 DEF T
<1> QED
  BY <1>1, <1>2, <1>3, SumOverAdds

LEMMA TotalExchange ==
  ASSUME NEW G, IsFiniteSet(G), IntWeights(G), NEW e, e \notin G, e.weight \in Int,
         NEW f \in G
  PROVE  /\ TotalOf(G) \in Int /\ TotalOf((G \ {f}) \cup {e}) \in Int
         /\ TotalOf((G \ {f}) \cup {e}) = TotalOf(G) - f.weight + e.weight
<1> DEFINE K == G \ {f}
           H == K \cup {e}
<1>1. IsFiniteSet(H) /\ IntWeights(H) /\ IsFiniteSet(K) /\ IntWeights(K)
  BY FS_AddElement, FS_Subset DEF IntWeights
<1>2. H \ {e} = K /\ e \in H
  OBVIOUS
<1>3. TotalOf(G) \in Int /\ TotalOf(G) = f.weight + TotalOf(K)
  BY TotalAdds
<1> HIDE DEF H, K
<1>4. TotalOf(K) \in Int
  BY <1>1, TotalAdds
<1>5. TotalOf(H) = e.weight + TotalOf(K)
  BY <1>1, <1>2, TotalAdds
<1>6. f.weight \in Int
  BY DEF IntWeights
<1> QED
  BY <1>3, <1>4, <1>5, <1>6 DEF H, K

\* F can be extended to a spanning forest no heavier than any given one.
Cheap(F, E) ==
  \A G \in SUBSET E : IsSpanningForest(G, E) =>
    \E H \in SUBSET E : /\ IsSpanningForest(H, E) /\ F \subseteq H
                        /\ TotalOf(H) <= TotalOf(G)

\* A lightest edge out of a set A of vertices out of which F does not lead.
LightestOut(e, A, E) ==
  /\ e \in E /\ e.ends \cap A # {} /\ ~(e.ends \subseteq A)
  /\ \A f \in E : f.ends \cap A # {} /\ ~(f.ends \subseteq A) => e.weight <= f.weight

Proper(E) == IsFiniteSet(E) /\ HaveEnds(E) /\ IntWeights(E)

\* The cut property.
LEMMA CheapWith ==
  ASSUME NEW E, Proper(E), NEW F, F \subseteq E, Cheap(F, E),
         NEW A, ClosedUnder(F, A), NEW e, LightestOut(e, A, E)
  PROVE  Cheap(F \cup {e}, E)
<1> SUFFICES ASSUME NEW G0 \in SUBSET E, IsSpanningForest(G0, E)
             PROVE  \E H \in SUBSET E : /\ IsSpanningForest(H, E) /\ F \cup {e} \subseteq H
                                        /\ TotalOf(H) <= TotalOf(G0)
  BY DEF Cheap
<1>1. PICK G \in SUBSET E : /\ IsSpanningForest(G, E) /\ F \subseteq G
                            /\ TotalOf(G) <= TotalOf(G0)
  BY DEF Cheap
<1>2. IsFiniteSet(E) /\ HaveEnds(E) /\ IntWeights(E)
  BY DEF Proper
<1>3. CASE e \in G
  BY <1>1, <1>3
<1>4. CASE e \notin G
  <2>1. IsFiniteSet(G) /\ HaveEnds(G) /\ IntWeights(G) /\ IsForest(G) /\ Spans(G, E)
    BY <1>1, <1>2, FS_Subset DEF IsSpanningForest, HaveEnds, IntWeights
  <2>2. PICK p, q : e.ends = {p, q}
    BY <1>2 DEF HaveEnds, LightestOut
  <2>3. PICK s, d : e.ends = {s, d} /\ s \in A /\ d \notin A
    BY <2>2 DEF LightestOut
  <2>4. e \in E
    BY DEF LightestOut
  <2>5. d \in Reach(G, s)
    BY <1>1, <1>2, <2>1, <2>3, <2>4, SpansConnects
  <2>6. PICK f \in G : /\ f.ends \cap A # {} /\ ~(f.ends \subseteq A)
                       /\ d \notin Reach(G \ {f}, s)
    BY <2>1, <2>3, <2>5, CrossingBridge
  <2>7. f \notin F
    BY <2>6 DEF ClosedUnder
  <2>8. IsSpanningForest((G \ {f}) \cup {e}, E)
    BY <1>1, <1>2, <2>3, <2>4, <2>6, Exchange
  <2>9. e.weight \in Int /\ f.weight \in Int /\ e.weight <= f.weight
    BY <1>1, <1>2, <2>4, <2>6 DEF LightestOut, IntWeights
  <2>10. /\ TotalOf(G) \in Int /\ TotalOf((G \ {f}) \cup {e}) \in Int
         /\ TotalOf((G \ {f}) \cup {e}) = TotalOf(G) - f.weight + e.weight
    BY <1>4, <2>1, <2>9, TotalExchange
  <2>11. TotalOf(G0) \in Int
    <3>1. IsFiniteSet(G0) /\ IntWeights(G0)
      BY <1>2, FS_Subset DEF IntWeights
    <3> QED
      BY <3>1, TotalAdds
  <2>12. TotalOf((G \ {f}) \cup {e}) <= TotalOf(G0)
    BY <1>1, <2>9, <2>10, <2>11
  <2>13. F \cup {e} \subseteq (G \ {f}) \cup {e} /\ (G \ {f}) \cup {e} \in SUBSET E
    BY <1>1, <2>4, <2>7
  <2> QED
    BY <2>8, <2>12, <2>13
<1> QED
  BY <1>3, <1>4

\* A set that can be extended so, and spans, is minimal.
LEMMA CheapMinimal ==
  ASSUME NEW E, Proper(E), NEW F, F \subseteq E, IsForest(F), Spans(F, E), Cheap(F, E)
  PROVE  IsMinimumSpanningForest(F, E)
<1>1. IsFiniteSet(E) /\ HaveEnds(E) /\ IntWeights(E)
  BY DEF Proper
<1>2. IsSpanningForest(F, E)
  BY DEF IsSpanningForest
<1>3. ASSUME NEW G \in SUBSET E, TotalOf(G) < TotalOf(F), IsSpanningForest(G, E)
      PROVE  FALSE
  <2>1. PICK H \in SUBSET E : /\ IsSpanningForest(H, E) /\ F \subseteq H
                              /\ TotalOf(H) <= TotalOf(G)
    BY <1>3 DEF Cheap
  <2>2. H \subseteq F
    <3> SUFFICES ASSUME NEW e \in H, e \notin F PROVE FALSE
      OBVIOUS
    <3>1. PICK s, d : e.ends = {s, d}
      BY <1>1, <2>1 DEF HaveEnds
    <3>2. d \in Reach(F, s)
      BY <1>1, <2>1, <3>1, SpansConnects
    <3>3. IsFiniteSet(H) /\ IsForest(H)
      BY <1>1, <2>1, FS_Subset DEF IsSpanningForest
    <3>4. d \notin Reach(H \ {e}, s)
      BY <3>1, <3>3, ForestBridge
    <3>5. F \subseteq H \ {e} /\ IsFiniteSet(H \ {e})
      BY <2>1, <3>3, FS_Subset
    <3>6. Reach(F, s) \subseteq Reach(H \ {e}, s)
      BY <3>5, ReachMore
    <3> QED
      BY <3>2, <3>4, <3>6
  <2>3. H = F
    BY <2>1, <2>2
  <2>4. TotalOf(F) \in Int /\ TotalOf(G) \in Int
    <3>1. IsFiniteSet(F) /\ IntWeights(F) /\ IsFiniteSet(G) /\ IntWeights(G)
      BY <1>1, <1>3, FS_Subset DEF IntWeights
    <3> QED
      BY <3>1, TotalAdds
  <2> QED
    BY <1>3, <2>1, <2>3, <2>4
<1> QED
  BY <1>2, <1>3 DEF IsMinimumSpanningForest

LEMMA CheapEmpty ==
  ASSUME NEW E, Proper(E)
  PROVE  Cheap({}, E) /\ IsForest({})
<1>1. ASSUME NEW G \in SUBSET E PROVE TotalOf(G) <= TotalOf(G)
  <2>1. IsFiniteSet(G) /\ IntWeights(G)
    BY FS_Subset DEF IntWeights, Proper
  <2>2. TotalOf(G) \in Int
    BY <2>1, TotalAdds
  <2> QED
    BY <2>2
<1> QED
  BY <1>1 DEF Cheap, IsForest

-----------------------------------------------------------------------------
(* Paths in a forest.                                                       *)

\* The edges on the way from a to b.
Parting(F, a, b) == {e \in F : b \notin Reach(F \ {e}, a)}

\* v is on the way from a to b.
Passes(F, a, v, b) == v \in Reach(F, a) /\ Parting(F, a, v) \cap Parting(F, v, b) = {}

\* ... and neither of them.
Inner(F, a, b) == {v \in Reach(F, a) \ {a, b} : Passes(F, a, v, b)}

Tree(F) == IsFiniteSet(F) /\ HaveEnds(F) /\ IsForest(F)

LEMMA TwoSides ==
  ASSUME NEW F, Tree(F), NEW e \in F, NEW a, NEW b \in Reach(F, a), NEW c \in Reach(F, a),
         b \notin Reach(F \ {e}, a), c \notin Reach(F \ {e}, b)
  PROVE  c \in Reach(F \ {e}, a)
<1> DEFINE K == F \ {e}
<1>1. IsFiniteSet(K) /\ F = K \cup {e}
  BY FS_Subset DEF Tree
<1>2. PICK s, d : e.ends = {s, d}
  BY DEF Tree, HaveEnds
<1>3. b \notin Reach(K, a) /\ c \notin Reach(K, b)
  OBVIOUS
<1> HIDE DEF K
<1>4. /\ s \in Reach(K, a) \/ d \in Reach(K, a) => Reach(F, a) = Reach(K, s) \cup Reach(K, d)
      /\ s \notin Reach(K, a) /\ d \notin Reach(K, a) => Reach(F, a) = Reach(K, a)
  BY <1>1, <1>2, ReachWith
<1>5. \A x, y : y \in Reach(K, x) => Reach(K, y) = Reach(K, x) /\ x \in Reach(K, y)
  BY <1>1, ReachEquivalence
<1>6. c \in Reach(K, a)
  BY <1>3, <1>4, <1>5
<1> QED
  BY <1>6 DEF K

\* What parts a and c parts either of them from b, and not both.
LEMMA PartingOfThree ==
  ASSUME NEW F, Tree(F), NEW a, NEW b \in Reach(F, a), NEW c \in Reach(F, a)
  PROVE  /\ Parting(F, a, c) \subseteq Parting(F, a, b) \cup Parting(F, b, c)
         /\ Parting(F, a, b) \subseteq Parting(F, a, c) \cup Parting(F, b, c)
         /\ Parting(F, a, c) \cap Parting(F, a, b) \cap Parting(F, b, c) = {}
<1> SUFFICES ASSUME NEW e \in F
             PROVE  /\ c \notin Reach(F \ {e}, a) => b \notin Reach(F \ {e}, a) \/ c \notin Reach(F \ {e}, b)
                    /\ b \notin Reach(F \ {e}, a) => c \notin Reach(F \ {e}, a) \/ c \notin Reach(F \ {e}, b)
                    /\ c \in Reach(F \ {e}, a) \/ b \in Reach(F \ {e}, a) \/ c \in Reach(F \ {e}, b)
  BY DEF Parting
<1>1. IsFiniteSet(F \ {e})
  BY FS_Subset DEF Tree
<1>2. \A x, y : y \in Reach(F \ {e}, x)
        => Reach(F \ {e}, y) = Reach(F \ {e}, x) /\ x \in Reach(F \ {e}, y)
  BY <1>1, ReachEquivalence
<1> QED
  BY <1>2, TwoSides

LEMMA PartingSymmetric ==
  ASSUME NEW F, Tree(F), NEW a, NEW b
  PROVE  Parting(F, a, b) = Parting(F, b, a) /\ Parting(F, a, a) = {}
<1>1. ASSUME NEW e \in F
      PROVE  /\ a \in Reach(F \ {e}, a)
             /\ b \in Reach(F \ {e}, a) <=> a \in Reach(F \ {e}, b)
  <2>1. IsFiniteSet(F \ {e})
    BY FS_Subset DEF Tree
  <2> QED
    BY <2>1, ReachEquivalence
<1> QED
  BY <1>1 DEF Parting

\* Nothing parts a vertex only from itself.
LEMMA PartingNone ==
  ASSUME NEW F, Tree(F), NEW a, NEW b \in Reach(F, a), Parting(F, a, b) = {}
  PROVE  a = b
<1> SUFFICES ASSUME a # b PROVE FALSE
  OBVIOUS
<1> DEFINE A == {a}
<1>1. a \in A /\ b \notin A
  OBVIOUS
<1>2. PICK f \in F : b \notin Reach(F \ {f}, a)
  <2> HIDE DEF A
  <2> QED
    BY <1>1, CrossingBridge DEF Tree
<1> QED
  BY <1>2 DEF Parting

LEMMA TreeReach ==
  ASSUME NEW F, Tree(F)
  PROVE  /\ \A x : x \in Reach(F, x)
         /\ \A x, y : y \in Reach(F, x) => Reach(F, y) = Reach(F, x)
         /\ \A x, y : y \in Reach(F, x) => x \in Reach(F, y)
BY ReachEquivalence DEF Tree

\* An edge is all that parts its ends.
LEMMA PartingOfEdge ==
  ASSUME NEW F, Tree(F), NEW f \in F, NEW a, NEW b, f.ends = {a, b}
  PROVE  Parting(F, a, b) = {f} /\ Inner(F, a, b) = {} /\ a # b /\ b \in Reach(F, a)
<1>1. b \notin Reach(F \ {f}, a)
  BY ForestBridge DEF Tree
<1>2. ASSUME NEW e \in F, e # f PROVE b \in Reach(F \ {e}, a)
  <2>1. IsFiniteSet(F \ {e}) /\ f \in F \ {e}
    BY <1>2, FS_Subset DEF Tree
  <2> QED
    BY <2>1, ReachEquivalence
<1>3. Parting(F, a, b) = {f}
  BY <1>1, <1>2 DEF Parting
<1>4. b \in Reach(F, a)
  BY ReachEquivalence DEF Tree
<1>5. ASSUME NEW v \in Inner(F, a, b) PROVE FALSE
  <2>1. v \in Reach(F, a) /\ v # a /\ v # b /\ Parting(F, a, v) \cap Parting(F, v, b) = {}
    BY DEF Inner, Passes
  <2>2. b \in Reach(F, v)
    BY <1>4, <2>1, TreeReach
  <2>3. Parting(F, a, v) # {} /\ Parting(F, v, b) # {}
    BY <2>1, <2>2, PartingNone
  <2>4. /\ Parting(F, a, v) \subseteq Parting(F, a, b) \cup Parting(F, v, b)
    BY <1>4, <2>1, PartingOfThree
  <2>5. Parting(F, b, v) \subseteq Parting(F, b, a) \cup Parting(F, v, a)
    <3>1. v \in Reach(F, b) /\ a \in Reach(F, b)
      BY <1>4, <2>1, TreeReach
    <3> QED
      BY <3>1, PartingOfThree
  <2>6. Parting(F, v, b) \subseteq Parting(F, a, b) \cup Parting(F, a, v)
    BY <2>5, PartingSymmetric
  <2> QED
    BY <1>3, <2>1, <2>3, <2>4, <2>6
<1>6. a # b
  BY <1>3, PartingSymmetric
<1> QED
  BY <1>3, <1>4, <1>5, <1>6

\* Two vertices with none on the way between them have an edge.
LEMMA EdgeWithoutInner ==
  ASSUME NEW F, Tree(F), NEW a, NEW b \in Reach(F, a), a # b, Inner(F, a, b) = {}
  PROVE  \E f \in F : f.ends = {a, b}
<1> DEFINE A == {a}
<1>1. a \in A /\ b \notin A
  OBVIOUS
<1>2. PICK f \in F : f.ends \cap A # {} /\ ~(f.ends \subseteq A) /\ b \notin Reach(F \ {f}, a)
  <2> HIDE DEF A
  <2> QED
    BY <1>1, CrossingBridge DEF Tree
<1>3. PICK v : f.ends = {a, v} /\ v # a
  <2>1. PICK s, d : f.ends = {s, d}
    BY DEF Tree, HaveEnds
  <2> QED
    BY <1>2, <2>1
<1>4. Parting(F, a, v) = {f} /\ v \in Reach(F, a)
  BY <1>3, PartingOfEdge
<1>5. f \notin Parting(F, v, b)
  <2>1. f \in Parting(F, a, b) /\ f \in Parting(F, a, v)
    BY <1>2, <1>4 DEF Parting
  <2>2. Parting(F, a, b) \cap Parting(F, a, v) \cap Parting(F, v, b) = {}
    BY <1>4, PartingOfThree
  <2> QED
    BY <2>1, <2>2
<1>6. Passes(F, a, v, b)
  BY <1>4, <1>5 DEF Passes
<1>7. v = b
  BY <1>3, <1>4, <1>6 DEF Inner
<1> QED
  BY <1>3, <1>7

\* What is on the way to a vertex on the way is on the way.
LEMMA InnerParts ==
  ASSUME NEW F, Tree(F), NEW a, NEW b \in Reach(F, a), NEW k \in Inner(F, a, b)
  PROVE  Inner(F, a, k) \subseteq Inner(F, a, b)
<1>1. k \in Reach(F, a) /\ k # a /\ k # b /\ Parting(F, a, k) \cap Parting(F, k, b) = {}
  BY DEF Inner, Passes
<1> SUFFICES ASSUME NEW v \in Inner(F, a, k) PROVE v \in Inner(F, a, b)
  OBVIOUS
<1>2. v \in Reach(F, a) /\ v # a /\ v # k /\ Parting(F, a, v) \cap Parting(F, v, k) = {}
  BY DEF Inner, Passes
<1>3. Parting(F, a, v) \subseteq Parting(F, a, k)
  <2>1. Parting(F, a, v) \subseteq Parting(F, a, k) \cup Parting(F, v, k)
    BY <1>1, <1>2, PartingOfThree
  <2> QED
    BY <1>2, <2>1
<1>4. Parting(F, v, b) \subseteq Parting(F, v, k) \cup Parting(F, k, b)
  <2>1. k \in Reach(F, v) /\ b \in Reach(F, v)
    BY <1>1, <1>2, TreeReach
  <2> QED
    BY <2>1, PartingOfThree
<1>5. Parting(F, a, v) \cap Parting(F, v, b) = {}
  BY <1>1, <1>2, <1>3, <1>4
<1>6. v # b
  <2> SUFFICES ASSUME v = b PROVE FALSE
    OBVIOUS
  <2>1. Parting(F, k, b) = Parting(F, v, k)
    BY PartingSymmetric
  <2>2. Parting(F, k, b) \subseteq Parting(F, k, a) \cup Parting(F, b, a)
    <3>1. b \in Reach(F, k) /\ a \in Reach(F, k)
      BY <1>1, TreeReach
    <3> QED
      BY <3>1, PartingOfThree
  <2>3. Parting(F, k, b) \subseteq Parting(F, a, k) \cup Parting(F, a, v)
    BY <2>2, PartingSymmetric
  <2>4. Parting(F, k, b) = {}
    BY <1>1, <1>2, <2>1, <2>3
  <2>5. b \in Reach(F, k)
    BY <1>1, TreeReach
  <2> QED
    BY <1>1, <2>4, <2>5, PartingNone
<1> QED
  BY <1>2, <1>5, <1>6 DEF Inner, Passes

\* An edge that parts two vertices of a tree is on every way between them.
LEMMA OnTheWay ==
  ASSUME NEW F, Tree(F), NEW e \in F, NEW f \in F, NEW a, NEW b \in Reach(F \ {e}, a),
         b \notin Reach(F \ {f}, a)
  PROVE  f.ends \subseteq Reach(F \ {e}, a)
<1> DEFINE K == F \ {e}
           L == K \ {f}
<1>1. IsFiniteSet(K) /\ IsFiniteSet(L) /\ IsFiniteSet(F \ {f})
  BY FS_Subset DEF Tree
<1>2. f # e
  OBVIOUS
<1>3. f \in K /\ K = L \cup {f} /\ L \subseteq F \ {f}
  BY <1>2
<1>4. PICK x, y : f.ends = {x, y}
  BY DEF Tree, HaveEnds
<1>5. b \in Reach(K, a) /\ b \notin Reach(L, a)
  <2>1. Reach(L, a) \subseteq Reach(F \ {f}, a)
    BY <1>1, <1>3, ReachMore
  <2> QED
    BY <2>1
<1> HIDE DEF K, L
<1>6. /\ x \in Reach(L, a) \/ y \in Reach(L, a)
           => Reach(L \cup {f}, a) = Reach(L, x) \cup Reach(L, y)
      /\ x \notin Reach(L, a) /\ y \notin Reach(L, a) => Reach(L \cup {f}, a) = Reach(L, a)
  BY <1>1, <1>4, ReachWith
<1>7. Reach(K, a) = Reach(L, x) \cup Reach(L, y)
  BY <1>3, <1>5, <1>6
<1>8. x \in Reach(L, x) /\ y \in Reach(L, y)
  BY <1>1, ReachEquivalence
<1>9. f.ends \subseteq Reach(K, a)
  BY <1>4, <1>7, <1>8
<1> QED
  BY <1>9 DEF K

\* The way from a to b by any vertex k passes what is between a and b.
LEMMA Detour ==
  ASSUME NEW F, Tree(F), NEW a, NEW b \in Reach(F, a), NEW v \in Inner(F, a, b),
         NEW k \in Reach(F, a), k # v
  PROVE  v \in Inner(F, a, k) \/ v \in Inner(F, k, b)
<1>1. v \in Reach(F, a) /\ v # a /\ v # b /\ Parting(F, a, v) \cap Parting(F, v, b) = {}
  BY DEF Inner, Passes
<1>2. v \in Reach(F, k) /\ k \in Reach(F, v)
  BY <1>1, TreeReach
<1> SUFFICES ASSUME NEW e \in Parting(F, a, v) \cap Parting(F, v, k),
                    NEW f \in Parting(F, k, v) \cap Parting(F, v, b)
             PROVE  FALSE
  <2>1. \/ Parting(F, a, v) \cap Parting(F, v, k) = {}
        \/ Parting(F, k, v) \cap Parting(F, v, b) = {}
    OBVIOUS
  <2> QED
    BY <1>1, <1>2, <2>1 DEF Inner, Passes
<1>3. e \in F /\ f \in F /\ IsFiniteSet(F \ {e}) /\ IsFiniteSet(F \ {f})
  BY FS_Subset DEF Parting, Tree
<1>4. /\ v \notin Reach(F \ {e}, a) /\ k \notin Reach(F \ {e}, v) /\ b \in Reach(F \ {e}, v)
      /\ v \notin Reach(F \ {f}, k) /\ b \notin Reach(F \ {f}, v) /\ v \in Reach(F \ {f}, a)
  BY <1>1, <1>3 DEF Parting
<1>5. f.ends \subseteq Reach(F \ {e}, v)
  BY <1>3, <1>4, OnTheWay
<1>6. k \in Reach(F \ {e}, a)
  BY <1>1, <1>2, <1>3, <1>4, TwoSides, TreeReach
<1>7. k \notin Reach(F \ {f}, a)
  <2> SUFFICES ASSUME k \in Reach(F \ {f}, a) PROVE FALSE
    OBVIOUS
  <2>1. Reach(F \ {f}, k) = Reach(F \ {f}, a)
    BY <1>3, ReachSame
  <2> QED
    BY <1>4, <2>1
<1>8. f.ends \subseteq Reach(F \ {e}, a)
  BY <1>3, <1>6, <1>7, OnTheWay
<1>9. PICK x : x \in f.ends
  BY <1>3 DEF Tree, HaveEnds
<1>10. Reach(F \ {e}, x) = Reach(F \ {e}, a) /\ Reach(F \ {e}, x) = Reach(F \ {e}, v)
       /\ v \in Reach(F \ {e}, v)
  BY <1>3, <1>5, <1>8, <1>9, ReachEquivalence
<1> QED
  BY <1>4, <1>10

LEMMA InnerSymmetric ==
  ASSUME NEW F, Tree(F), NEW a, NEW b \in Reach(F, a)
  PROVE  Inner(F, a, b) = Inner(F, b, a) /\ a \in Reach(F, b)
<1>1. a \in Reach(F, b) /\ Reach(F, a) = Reach(F, b)
  BY TreeReach
<1>2. \A x, y : Parting(F, x, y) = Parting(F, y, x)
  BY PartingSymmetric
<1> QED
  BY <1>1, <1>2 DEF Inner, Passes

\* What is on either part of the way is on the way.
LEMMA InnerOfParts ==
  ASSUME NEW F, Tree(F), NEW a, NEW b \in Reach(F, a), NEW k \in Inner(F, a, b)
  PROVE  /\ k \in Reach(F, a) /\ b \in Reach(F, k) /\ k # a /\ k # b
         /\ Inner(F, a, k) \subseteq Inner(F, a, b) \ {k}
         /\ Inner(F, k, b) \subseteq Inner(F, a, b) \ {k}
<1>1. k \in Reach(F, a) /\ b \in Reach(F, k) /\ k \in Reach(F, b) /\ k # a /\ k # b
  BY TreeReach DEF Inner
<1>2. Inner(F, b, k) \subseteq Inner(F, b, a)
  BY InnerSymmetric, InnerParts
<1>3. Inner(F, k, b) \subseteq Inner(F, a, b)
  BY <1>1, <1>2, InnerSymmetric
<1>4. k \notin Inner(F, a, k) /\ k \notin Inner(F, k, b)
  BY DEF Inner
<1> QED
  BY <1>1, <1>3, <1>4, InnerParts

-----------------------------------------------------------------------------
(* The length of the way.                                                   *)

LEMMA TotalNothing == TotalOf({}) = 0
<1> DEFINE g == [e \in {} |-> 0]
<1>1. IsFiniteSet({}) /\ IntOn(g, {}) /\ \A e \in {} : g[e] = e.weight
  BY FS_EmptySet DEF IntOn
<1> HIDE DEF g
<1>2. TotalOf({}) = SumOver(g, {})
  BY <1>1, TotalIsSum
<1> QED
  BY <1>1, <1>2, SumOverAdds

LEMMA TotalSplit ==
  ASSUME NEW F, IsFiniteSet(F), IntWeights(F), NEW T, T \subseteq F
  PROVE  TotalOf(F) = TotalOf(T) + TotalOf(F \ T)
<1> DEFINE P == {s \in SUBSET F : TotalOf(F) = TotalOf(s) + TotalOf(F \ s)}
<1>1. \A s \in SUBSET F :
        TotalOf(s) \in Int /\ \A x \in s : TotalOf(s) = x.weight + TotalOf(s \ {x})
  <2> SUFFICES ASSUME NEW s \in SUBSET F
               PROVE  TotalOf(s) \in Int /\ \A x \in s : TotalOf(s) = x.weight + TotalOf(s \ {x})
    OBVIOUS
  <2>1. IsFiniteSet(s) /\ IntWeights(s)
    BY FS_Subset DEF IntWeights
  <2> QED
    BY <2>1, TotalAdds
<1>2. {} \in P
  <2>1. TotalOf({}) = 0
    BY TotalNothing
  <2>2. F \ {} = F
    OBVIOUS
  <2> QED
    BY <1>1, <2>1, <2>2
<1>3. \A s \in SUBSET F, x \in F : s \in P /\ x \notin s => s \cup {x} \in P
  <2> SUFFICES ASSUME NEW s \in SUBSET F, NEW x \in F, s \in P, x \notin s
               PROVE  TotalOf(F) = TotalOf(s \cup {x}) + TotalOf(F \ (s \cup {x}))
    OBVIOUS
  <2>1. (s \cup {x}) \ {x} = s /\ (F \ s) \ {x} = F \ (s \cup {x})
    OBVIOUS
  <2>2. TotalOf(s \cup {x}) = x.weight + TotalOf(s)
    BY <1>1, <2>1
  <2>3. TotalOf(F \ s) = x.weight + TotalOf(F \ (s \cup {x}))
    BY <1>1, <2>1
  <2>4. TotalOf(s) \in Int /\ TotalOf(F \ (s \cup {x})) \in Int /\ x.weight \in Int
    BY <1>1 DEF IntWeights
  <2> QED
    BY <2>2, <2>3, <2>4
<1> HIDE DEF P
<1>4. SUBSET F \subseteq P
  BY <1>2, <1>3, SetInduction
<1> QED
  BY <1>4 DEF P

\* Weights that make distances.
Lengths(F) == IsFiniteSet(F) /\ \A e \in F : e.weight \in Nat

LEMMA TotalMonotone ==
  ASSUME NEW F, Lengths(F), NEW T, T \subseteq F
  PROVE  TotalOf(T) \in Nat /\ TotalOf(F) \in Nat /\ TotalOf(T) <= TotalOf(F)
<1> DEFINE P == {s \in SUBSET F : TotalOf(s) \in Nat}
<1>1. \A s \in SUBSET F : IsFiniteSet(s) /\ IntWeights(s)
  BY FS_Subset DEF IntWeights, Lengths
<1>2. {} \in P
  BY TotalNothing
<1>3. \A s \in SUBSET F, x \in F : s \in P /\ x \notin s => s \cup {x} \in P
  <2> SUFFICES ASSUME NEW s \in SUBSET F, NEW x \in F, s \in P, x \notin s
               PROVE  TotalOf(s \cup {x}) \in Nat
    OBVIOUS
  <2> DEFINE u == s \cup {x}
  <2>1. u \ {x} = s /\ x \in u /\ IsFiniteSet(u) /\ IntWeights(u)
    BY <1>1
  <2> HIDE DEF u
  <2>2. TotalOf(u) = x.weight + TotalOf(s)
    BY <2>1, TotalAdds
  <2> QED
    BY <2>2 DEF Lengths, u
<1> HIDE DEF P
<1>4. SUBSET F \subseteq P
  BY <1>2, <1>3, SetInduction DEF Lengths
<1>5. TotalOf(T) \in Nat /\ TotalOf(F) \in Nat /\ TotalOf(F \ T) \in Nat
  BY <1>4 DEF P
<1>6. TotalOf(F) = TotalOf(T) + TotalOf(F \ T)
  BY <1>1, TotalSplit DEF Lengths
<1> QED
  BY <1>5, <1>6

Distance(F, a, b) == TotalOf(Parting(F, a, b))

LEMMA DistanceType ==
  ASSUME NEW F, Lengths(F), NEW a, NEW b
  PROVE  Distance(F, a, b) \in Nat /\ Lengths(Parting(F, a, b))
<1>1. Parting(F, a, b) \subseteq F
  BY DEF Parting
<1> QED
  BY <1>1, TotalMonotone, FS_Subset DEF Distance, Lengths

LEMMA DistanceOfEdge ==
  ASSUME NEW F, Tree(F), Lengths(F), NEW e \in F, NEW a, NEW b, e.ends = {a, b}
  PROVE  Distance(F, a, b) = e.weight
<1> DEFINE S == {e}
<1>1. Parting(F, a, b) = S
  BY PartingOfEdge
<1>2. IsFiniteSet(S) /\ e \in S /\ S \ {e} = {}
  BY FS_Singleton
<1>5. IntWeights(S)
  BY DEF IntWeights, Lengths
<1> HIDE DEF S
<1>3. TotalOf(S) = e.weight + TotalOf(S \ {e})
  BY <1>2, <1>5, TotalAdds
<1>4. e.weight \in Nat
  BY DEF Lengths
<1> QED
  BY <1>1, <1>2, <1>3, <1>4, TotalNothing DEF Distance

LEMMA DistanceSymmetric ==
  ASSUME NEW F, Tree(F), NEW a, NEW b
  PROVE  Distance(F, a, b) = Distance(F, b, a)
BY PartingSymmetric DEF Distance

LEMMA DistanceAdds ==
  ASSUME NEW F, Tree(F), Lengths(F), NEW a, NEW b \in Reach(F, a), NEW k \in Inner(F, a, b)
  PROVE  Distance(F, a, b) = Distance(F, a, k) + Distance(F, k, b)
<1> DEFINE P == Parting(F, a, b)
           Q == Parting(F, a, k)
           R == Parting(F, k, b)
<1>1. k \in Reach(F, a) /\ b \in Reach(F, k) /\ Q \cap R = {}
  BY TreeReach DEF Inner, Passes
<1>2. P \subseteq Q \cup R /\ Q \subseteq P \cup R
  <2>1. P \subseteq Q \cup Parting(F, k, b)
    BY <1>1, PartingOfThree
  <2>2. Q \subseteq P \cup Parting(F, b, k)
    BY <1>1, PartingOfThree
  <2> QED
    BY <2>1, <2>2, PartingSymmetric
<1>3. R \subseteq P \cup Q
  <2>1. Parting(F, b, k) \subseteq Parting(F, b, a) \cup Parting(F, k, a)
    <3>1. k \in Reach(F, b) /\ a \in Reach(F, b)
      BY <1>1, TreeReach
    <3> QED
      BY <3>1, PartingOfThree
  <2> QED
    BY <2>1, PartingSymmetric
<1>4. Q \subseteq P /\ R = P \ Q
  BY <1>1, <1>2, <1>3
<1>5. Lengths(P)
  BY DistanceType
<1> HIDE DEF P, Q, R
<1>6. IsFiniteSet(P) /\ IntWeights(P)
  BY <1>5 DEF Lengths, IntWeights
<1>7. TotalOf(P) = TotalOf(Q) + TotalOf(P \ Q)
  BY <1>4, <1>6, TotalSplit
<1> QED
  BY <1>4, <1>7 DEF P, Q, R, Distance

LEMMA DistanceTriangle ==
  ASSUME NEW F, Tree(F), Lengths(F), NEW a, NEW b \in Reach(F, a), NEW k \in Reach(F, a)
  PROVE  Distance(F, a, b) <= Distance(F, a, k) + Distance(F, k, b)
<1> DEFINE P == Parting(F, a, b)
           Q == Parting(F, a, k)
           R == Parting(F, k, b)
           U == Q \cup R
<1>1. P \subseteq U
  BY PartingOfThree
<1>2. Lengths(Q) /\ Lengths(R)
  BY DistanceType
<1>3. Lengths(U)
  BY <1>2, FS_Union DEF Lengths
<1>4. IsFiniteSet(U) /\ IntWeights(U) /\ Q \subseteq U /\ U \ Q \subseteq R
  BY <1>3 DEF Lengths, IntWeights
<1> HIDE DEF P, Q, R, U
<1>5. TotalOf(P) <= TotalOf(U) /\ TotalOf(P) \in Nat /\ TotalOf(U) \in Nat
  BY <1>1, <1>3, TotalMonotone
<1>6. TotalOf(U \ Q) <= TotalOf(R) /\ TotalOf(U \ Q) \in Nat /\ TotalOf(R) \in Nat
  BY <1>2, <1>4, TotalMonotone
<1>7. TotalOf(U) = TotalOf(Q) + TotalOf(U \ Q) /\ TotalOf(Q) \in Nat
  BY <1>2, <1>3, <1>4, TotalSplit, TotalMonotone
<1>8. TotalOf(P) <= TotalOf(Q) + TotalOf(R)
  BY <1>5, <1>6, <1>7
<1> QED
  BY <1>8 DEF Distance, P, Q, R

-----------------------------------------------------------------------------
(* What TreeDistances sums up.                                              *)

\* The vertices on one side of e.
Side(F, e) == Reach(F \ {e}, CHOOSE u \in e.ends : TRUE)

LEMMA PartingBySide ==
  ASSUME NEW F, Tree(F), NEW a, NEW b \in Reach(F, a)
  PROVE  Parting(F, a, b) = {e \in F : ~(a \in Side(F, e) <=> b \in Side(F, e))}
<1> SUFFICES ASSUME NEW e \in F
             PROVE  b \notin Reach(F \ {e}, a) <=> ~(a \in Side(F, e) <=> b \in Side(F, e))
  BY DEF Parting
<1> DEFINE K == F \ {e}
           u == CHOOSE u \in e.ends : TRUE
<1>1. IsFiniteSet(K) /\ F = K \cup {e}
  BY FS_Subset DEF Tree
<1>2. PICK s, d : e.ends = {s, d}
  BY DEF Tree, HaveEnds
<1>3. u \in {s, d}
  BY <1>2
<1>4. Side(F, e) = Reach(K, u)
  BY DEF Side
<1>5. \A x, y : y \in Reach(K, x) <=> Reach(K, y) = Reach(K, x)
  <2> HIDE DEF K
  <2> QED
    BY <1>1, ReachEquivalence
<1>6. /\ s \in Reach(K, a) \/ d \in Reach(K, a)
           => Reach(K \cup {e}, a) = Reach(K, s) \cup Reach(K, d)
      /\ s \notin Reach(K, a) /\ d \notin Reach(K, a) => Reach(K \cup {e}, a) = Reach(K, a)
  <2> HIDE DEF K
  <2> QED
    BY <1>1, <1>2, ReachWith
<1>7. b \notin Reach(K, a) => u \in Reach(K, a) \/ u \in Reach(K, b)
  <2> SUFFICES ASSUME b \notin Reach(K, a)
               PROVE  u \in Reach(K, a) \/ u \in Reach(K, b)
    OBVIOUS
  <2>1. Reach(F, a) = Reach(K, s) \cup Reach(K, d)
    <3> HIDE DEF K
    <3> QED
      BY <1>1, <1>6
  <2>2. u \in Reach(F, a)
    <3> HIDE DEF K, u
    <3> QED
      BY <1>3, <1>5, <2>1
  <2> HIDE DEF u
  <2> QED
    BY <2>2, TwoSides
<1>8. b \notin Reach(K, a) <=> ~(a \in Reach(K, u) <=> b \in Reach(K, u))
  <2> HIDE DEF K, u
  <2>1. b \in Reach(K, a) <=> Reach(K, b) = Reach(K, a)
    BY <1>5
  <2>2. a \in Reach(K, u) <=> Reach(K, a) = Reach(K, u)
    BY <1>5
  <2>3. b \in Reach(K, u) <=> Reach(K, b) = Reach(K, u)
    BY <1>5
  <2>4. Reach(K, b) # Reach(K, a) => Reach(K, a) = Reach(K, u) \/ Reach(K, b) = Reach(K, u)
    BY <1>5, <1>7
  <2> QED
    BY <2>1, <2>2, <2>3, <2>4
<1> QED
  BY <1>4, <1>8

LEMMA TreeDistancesAre ==
  ASSUME NEW F, Tree(F)
  PROVE  /\ DOMAIN TreeDistances(F) = {q \in Covered(F) \X Covered(F) :
                                         q[1] < q[2] /\ Connected(F, q[1], q[2])}
         /\ \A p \in DOMAIN TreeDistances(F) :
              TreeDistances(F)[p] = Distance(F, p[1], p[2])
<1> DEFINE S == {q \in Covered(F) \X Covered(F) :
                    q[1] < q[2] /\ Connected(F, q[1], q[2])}
           side == [e \in F |-> Reach(F \ {e}, CHOOSE u \in e.ends : TRUE)]
           Apart(p) == {e \in F : (p[1] \in side[e]) # (p[2] \in side[e])}
<1>1. TreeDistances(F) = [p \in S |-> TotalOf(Apart(p))]
  BY DEF TreeDistances
<1>2. ASSUME NEW p \in S PROVE Apart(p) = Parting(F, p[1], p[2])
  <2>1. p[2] \in Reach(F, p[1])
    BY DEF Connected
  <2>2. \A e \in F : side[e] = Side(F, e)
    BY DEF Side
  <2>3. Parting(F, p[1], p[2]) = {e \in F : ~(p[1] \in Side(F, e) <=> p[2] \in Side(F, e))}
    BY <2>1, PartingBySide
  <2> HIDE DEF side
  <2> QED
    BY <2>2, <2>3
<1> HIDE DEF S, Apart
<1> QED
  BY <1>1, <1>2 DEF Distance, S
=============================================================================
