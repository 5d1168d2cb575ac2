----------------------------- MODULE GraphProofs -----------------------------
(***************************************************************************)
(* Theorems about Graph, for any weights and bounds.                       *)
(***************************************************************************)
EXTENDS Graph, DataLemmas

\* The equations of kept in Select.
Keeps(f, q, S) ==
  f = [i \in 0 .. Len(q) |->
         IF i = 0 THEN <<>>
         ELSE IF q[i] \in S THEN Append(f[i - 1], q[i])
         ELSE f[i - 1]]

\* The recursive function in Select exists.
LEMMA SelectDefined ==
  ASSUME NEW T, NEW q \in Seq(T), NEW S
  PROVE  \E f : Keeps(f, q, S) /\ Select(q, S) = f[Len(q)]
<1> DEFINE n == Len(q)
           U == Seq(T)
           e == <<>>
           step == [i \in 1 .. n |-> [p \in Seq(T) |->
                      IF q[i] \in S THEN Append(p, q[i]) ELSE p]]
<1>1. n \in Nat /\ \A i \in 1 .. n : q[i] \in T
  OBVIOUS
<1>2. Steps(step, n, U) /\ e \in U
  BY <1>1 DEF Steps
<1> HIDE DEF n, U, e, step
<1>3. PICK f : f \in [0 .. n -> U] /\ Iterates(f, step, n, e)
  BY <1>1, <1>2, Recursion
<1>4. \A i \in 0 .. n :
        f[i] = IF i = 0 THEN <<>>
               ELSE IF q[i] \in S THEN Append(f[i - 1], q[i])
               ELSE f[i - 1]
  <2>1. f[0] = <<>>
    BY <1>3 DEF Iterates, e
  <2>2. ASSUME NEW i \in 1 .. n
        PROVE  f[i] = IF q[i] \in S THEN Append(f[i - 1], q[i]) ELSE f[i - 1]
    <3>1. i - 1 \in 0 .. n
      BY <1>1
    <3>2. f[i - 1] \in Seq(T) /\ f[i] = step[i][f[i - 1]]
      BY <1>3, <3>1 DEF Iterates, U
    <3> QED
      BY <3>2 DEF step
  <2>3. ASSUME NEW i \in 0 .. n, i # 0 PROVE i \in 1 .. n
    BY <1>1, <2>3
  <2> QED
    BY <2>1, <2>2, <2>3, Zenon
<1>5. Keeps(f, q, S)
  <2>1. f = [i \in 0 .. n |-> IF i = 0 THEN <<>>
               ELSE IF q[i] \in S THEN Append(f[i - 1], q[i])
               ELSE f[i - 1]]
    BY <1>3, <1>4, Zenon
  <2> QED
    BY <2>1 DEF Keeps, n
<1>6. Keeps(CHOOSE g : Keeps(g, q, S), q, S)
  BY <1>5
<1> QED
  BY <1>6 DEF Select, Keeps

LEMMA KeepsEquations ==
  ASSUME NEW T, NEW q \in Seq(T), NEW S, NEW f, Keeps(f, q, S)
  PROVE  /\ f[0] = <<>>
         /\ \A i \in 1 .. Len(q) :
              f[i] = IF q[i] \in S THEN Append(f[i - 1], q[i]) ELSE f[i - 1]
<1> DEFINE n == Len(q)
<1>1. n \in Nat
  OBVIOUS
<1>2. f = [i \in 0 .. n |-> IF i = 0 THEN <<>>
               ELSE IF q[i] \in S THEN Append(f[i - 1], q[i])
               ELSE f[i - 1]]
  BY DEF Keeps
<1> HIDE DEF n
<1>3. 0 \in 0 .. n /\ \A i \in 1 .. n : i \in 0 .. n /\ i # 0
  BY <1>1
<1>4. \A i \in 0 .. n :
        f[i] = IF i = 0 THEN <<>>
               ELSE IF q[i] \in S THEN Append(f[i - 1], q[i])
               ELSE f[i - 1]
  BY <1>2, Zenon
<1> QED
  BY <1>3, <1>4 DEF n

\* Select element by element.
LEMMA SelectEmpty == ASSUME NEW S PROVE Select(<<>>, S) = <<>>
<1>1. ASSUME NEW T, NEW q \in Seq(T), Len(q) = 0 PROVE Select(q, S) = <<>>
  <2>1. PICK f : Keeps(f, q, S) /\ Select(q, S) = f[Len(q)]
    BY SelectDefined
  <2>2. f[0] = <<>>
    BY <2>1, KeepsEquations
  <2> QED
    BY <1>1, <2>1, <2>2
<1>2. <<>> \in Seq({}) /\ Len(<<>>) = 0
  OBVIOUS
<1> QED
  BY <1>1, <1>2

LEMMA SelectAppend ==
  ASSUME NEW T, NEW q \in Seq(T), NEW x \in T, NEW S
  PROVE  Select(Append(q, x), S) =
           IF x \in S THEN Append(Select(q, S), x) ELSE Select(q, S)
<1> DEFINE n == Len(q)
           r == Append(q, x)
<1>1. n \in Nat
  OBVIOUS
<1>2. /\ r \in Seq(T)
      /\ Len(r) = n + 1
      /\ r[n + 1] = x
      /\ \A i \in 1 .. n : r[i] = q[i]
  BY AppendProperties
<1>3. PICK f : Keeps(f, q, S) /\ Select(q, S) = f[n]
  BY SelectDefined
<1> HIDE DEF r
<1>4. PICK g : Keeps(g, r, S) /\ Select(r, S) = g[Len(r)]
  BY <1>2, SelectDefined
<1>5. /\ f[0] = <<>>
      /\ \A i \in 1 .. n :
              f[i] = IF q[i] \in S THEN Append(f[i - 1], q[i]) ELSE f[i - 1]
  BY <1>3, KeepsEquations
<1>6. /\ g[0] = <<>>
      /\ \A i \in 1 .. Len(r) :
              g[i] = IF r[i] \in S THEN Append(g[i - 1], r[i]) ELSE g[i - 1]
  BY <1>2, <1>4, KeepsEquations
<1> HIDE DEF n
<1>7. n \in {k \in Nat : k <= n => g[k] = f[k]}
  <2> DEFINE N == {k \in Nat : k <= n => g[k] = f[k]}
  <2>1. 0 \in N
    BY <1>5, <1>6
  <2>2. ASSUME NEW k \in Nat, k \in N PROVE k + 1 \in N
    <3> SUFFICES ASSUME k + 1 <= n PROVE g[k + 1] = f[k + 1]
      OBVIOUS
    <3>1. k + 1 \in 1 .. n /\ k + 1 \in 1 .. Len(r) /\ (k + 1) - 1 = k /\ k <= n
      BY <1>1, <1>2
    <3>2. g[k] = f[k]
      BY <2>2, <3>1
    <3>3. r[k + 1] = q[k + 1]
      BY <1>2, <3>1
    <3> QED
      BY <3>1, <3>2, <3>3, <1>5, <1>6
  <2> HIDE DEF N
  <2>3. n \in N
    BY <2>1, <2>2, <1>1, Induction
  <2> QED
    BY <2>3 DEF N
<1>8. g[n] = f[n]
  BY <1>1, <1>7
<1>9. n + 1 \in 1 .. Len(r) /\ (n + 1) - 1 = n
  BY <1>1, <1>2
<1>10. g[n + 1] = IF x \in S THEN Append(f[n], x) ELSE f[n]
  BY <1>2, <1>6, <1>8, <1>9
<1> QED
  BY <1>2, <1>3, <1>4, <1>10 DEF r

\* Whatever is selected was there before, and is in S.
LEMMA SelectType ==
  ASSUME NEW T, NEW q \in Seq(T), NEW S
  PROVE  Select(q, S) \in Seq(T \cap S)
<1> DEFINE P == {s \in Seq(T) : Select(s, S) \in Seq(T \cap S)}
<1>1. <<>> \in P
  <2>1. <<>> \in Seq(T) /\ <<>> \in Seq(T \cap S)
    BY EmptySeq
  <2> QED
    BY <2>1, SelectEmpty
<1>2. ASSUME NEW s \in Seq(T), NEW e \in T, s \in P PROVE Append(s, e) \in P
  <2>1. Append(s, e) \in Seq(T)
    OBVIOUS
  <2>2. Select(s, S) \in Seq(T \cap S)
    BY <1>2
  <2>3. CASE e \in S
    <3>1. Select(Append(s, e), S) = Append(Select(s, S), e)
      BY <2>3, SelectAppend
    <3>2. Append(Select(s, S), e) \in Seq(T \cap S)
      BY <2>2, <2>3, AppendProperties
    <3> QED
      BY <2>1, <3>1, <3>2
  <2>4. CASE e \notin S
    BY <2>1, <2>2, <2>4, SelectAppend
  <2> QED
    BY <2>3, <2>4
<1> HIDE DEF P
<1>3. Seq(T) \subseteq P
  BY <1>1, <1>2, SeqInduction
<1> QED
  BY <1>3 DEF P

\* Selecting twice.
LEMMA SelectSelect ==
  ASSUME NEW T, NEW q \in Seq(T), NEW S, NEW R
  PROVE  Select(Select(q, S), R) = Select(q, S \cap R)
<1> DEFINE P == {s \in Seq(T) : Select(Select(s, S), R) = Select(s, S \cap R)}
<1>1. <<>> \in P
  BY SelectEmpty
<1>2. ASSUME NEW s \in Seq(T), NEW e \in T, s \in P PROVE Append(s, e) \in P
  <2>1. Append(s, e) \in Seq(T)
    BY AppendProperties
  <2>5. Select(s, S) \in Seq(T)
    <3> DEFINE TS == T \cap S
    <3>1. Select(s, S) \in Seq(TS) /\ TS \subseteq T
      BY SelectType
    <3> HIDE DEF TS
    <3> QED
      BY <3>1, SeqMonotonic
  <2>2. Select(Select(s, S), R) = Select(s, S \cap R)
    BY <1>2
  <2>3. CASE e \in S
    <3>1. Select(Append(s, e), S) = Append(Select(s, S), e)
      BY <2>3, SelectAppend
    <3>2. Select(Append(Select(s, S), e), R)
            = IF e \in R THEN Append(Select(s, S \cap R), e) ELSE Select(s, S \cap R)
      BY <2>5, <2>2, SelectAppend
    <3>3. Select(Append(s, e), S \cap R)
            = IF e \in S \cap R THEN Append(Select(s, S \cap R), e) ELSE Select(s, S \cap R)
      BY SelectAppend
    <3> QED
      BY <2>1, <2>5, <2>3, <3>1, <3>2, <3>3
  <2>4. CASE e \notin S
    <3>1. Select(Append(s, e), S) = Select(s, S)
      BY <2>4, SelectAppend
    <3>2. Select(Append(s, e), S \cap R) = Select(s, S \cap R)
      BY <2>4, SelectAppend
    <3> QED
      BY <2>1, <2>2, <3>1, <3>2
  <2> QED
    BY <2>3, <2>4
<1> HIDE DEF P
<1>3. Seq(T) \subseteq P
  BY <1>1, <1>2, SeqInduction
<1> QED
  BY <1>3 DEF P

\* Only which elements of the sequence are in S matters.
LEMMA SelectSame ==
  ASSUME NEW T, NEW q \in Seq(T), NEW S, NEW R, T \cap S = T \cap R
  PROVE  Select(q, S) = Select(q, R)
<1> DEFINE P == {s \in Seq(T) : Select(s, S) = Select(s, R)}
<1>1. <<>> \in P
  BY SelectEmpty
<1>2. ASSUME NEW s \in Seq(T), NEW e \in T, s \in P PROVE Append(s, e) \in P
  <2>1. e \in S <=> e \in R
    OBVIOUS
  <2>2. Append(s, e) \in Seq(T) /\ Select(s, S) = Select(s, R)
    BY <1>2, AppendProperties
  <2>3. Select(Append(s, e), S) = IF e \in S THEN Append(Select(s, S), e) ELSE Select(s, S)
    BY SelectAppend
  <2>4. Select(Append(s, e), R) = IF e \in R THEN Append(Select(s, R), e) ELSE Select(s, R)
    BY SelectAppend
  <2> QED
    BY <2>1, <2>2, <2>3, <2>4
<1> HIDE DEF P
<1>3. Seq(T) \subseteq P
  BY <1>1, <1>2, SeqInduction
<1> QED
  BY <1>3 DEF P

\* Selecting all, or nothing.
LEMMA SelectAll ==
  ASSUME NEW T, NEW q \in Seq(T), NEW S, T \subseteq S
  PROVE  Select(q, S) = q
<1> DEFINE P == {s \in Seq(T) : Select(s, S) = s}
<1>1. <<>> \in P
  BY SelectEmpty
<1>2. ASSUME NEW s \in Seq(T), NEW e \in T, s \in P PROVE Append(s, e) \in P
  <2>1. Append(s, e) \in Seq(T) /\ Select(s, S) = s
    BY <1>2, AppendProperties
  <2> QED
    BY <2>1, SelectAppend
<1> HIDE DEF P
<1>3. Seq(T) \subseteq P
  BY <1>1, <1>2, SeqInduction
<1> QED
  BY <1>3 DEF P

LEMMA SelectNone ==
  ASSUME NEW T, NEW q \in Seq(T), NEW S, T \cap S = {}
  PROVE  Select(q, S) = <<>>
<1>1. Select(q, S) \in Seq({})
  BY SelectType
<1> QED
  BY <1>1

-----------------------------------------------------------------------------

\* All ids are below the counter.
Numbered == nextVertexId \in Nat /\ Vertices \subseteq 0 .. nextVertexId - 1

\* AddVertex adds the next id; no other operation adds a vertex.
LEMMA VerticesStep ==
  ASSUME [Next]_vars
  PROVE  \/ Vertices' = Vertices \cup {nextVertexId} /\ nextVertexId' = nextVertexId + 1
         \/ Vertices' \subseteq Vertices /\ nextVertexId' = nextVertexId
  <1> USE DEF Vertices
  <1>1. CASE AddVertex
    BY <1>1 DEF AddVertex
  <1>2. ASSUME NEW u, NEW v, NEW w, AddEdge(u, v, w)
        PROVE  Vertices' = Vertices /\ nextVertexId' = nextVertexId
    BY <1>2 DEF AddEdge
  <1>3. ASSUME NEW u, NEW v, RemoveEdge(u, v)
        PROVE  Vertices' = Vertices /\ nextVertexId' = nextVertexId
    BY <1>3 DEF RemoveEdge
  <1>4. ASSUME NEW v, RemoveVertex(v)
        PROVE  Vertices' \subseteq Vertices /\ nextVertexId' = nextVertexId
    BY <1>4 DEF RemoveVertex
  <1>5. ASSUME NEW u, NEW v, NEW w, ChangeWeight(u, v, w)
        PROVE  Vertices' = Vertices /\ nextVertexId' = nextVertexId
    BY <1>5 DEF ChangeWeight
  <1>6. CASE UNCHANGED vars
    BY <1>6 DEF vars
  <1> QED
    BY <1>1, <1>2, <1>3, <1>4, <1>5, <1>6 DEF Next

\* An id that has been given out and removed is never given out again, so
\* that a request written before cannot reach a new vertex (Graph.cpp:36).
THEOREM RemovedIdsStayUnused == Spec => IdsNeverReused
  <1>1. Init => Numbered
    BY DEF Init, Numbered, Vertices
  <1>2. Numbered /\ [Next]_vars => Numbered'
    <2> SUFFICES ASSUME Numbered, [Next]_vars PROVE Numbered'
      OBVIOUS
    <2>1. CASE Vertices' \subseteq Vertices /\ nextVertexId' = nextVertexId
      BY <2>1 DEF Numbered
    <2>2. CASE /\ Vertices' = Vertices \cup {nextVertexId}
               /\ nextVertexId' = nextVertexId + 1
      <3> SUFFICES ASSUME NEW v \in Vertices' PROVE v \in 0 .. nextVertexId
        BY <2>2 DEF Numbered
      <3>1. v \in Vertices \/ v = nextVertexId
        BY <2>2
      <3>2. nextVertexId \in Nat
        BY DEF Numbered
      <3>3. CASE v \in Vertices
        <4>1. v \in 0 .. nextVertexId - 1
          BY <3>3 DEF Numbered
        <4> QED
          BY <3>2, <4>1
      <3>4. CASE v = nextVertexId
        BY <3>2, <3>4
      <3> QED
        BY <3>1, <3>3, <3>4
    <2> QED
      BY <2>1, <2>2, VerticesStep
  <1>3. ASSUME Numbered, [Next]_vars
        PROVE  \A v \in 0 .. nextVertexId - 1 : v \notin Vertices => v \notin Vertices'
    BY <1>3, VerticesStep DEF Numbered
  <1> QED
    BY <1>1, <1>2, <1>3, PTL DEF Spec, IdsNeverReused

LEMMA WeightsToEmpty == ASSUME NEW d PROVE WeightsTo(<<>>, d) = <<>>
<1>1. Select(<<>>, HalfEdgesTo(d)) = <<>>
  BY SelectEmpty
<1> QED
  BY <1>1 DEF WeightsTo

LEMMA WeightsToType ==
  ASSUME NEW q \in Seq(HalfEdges), NEW d PROVE WeightsTo(q, d) \in Seq(Weights)
<1> DEFINE r == Select(q, HalfEdgesTo(d))
           T == HalfEdges \cap HalfEdgesTo(d)
<1>1. r \in Seq(T)
  BY SelectType
<1>2. \A e \in T : e.weight \in Weights
  BY DEF HalfEdges
<1>3. WeightsTo(q, d) = [i \in DOMAIN r |-> r[i].weight]
  BY DEF WeightsTo
<1> HIDE DEF r, T
<1>4. Len(r) \in Nat /\ DOMAIN r = 1 .. Len(r) /\ \A i \in DOMAIN r : r[i].weight \in Weights
  BY <1>1, <1>2
<1> QED
  BY <1>3, <1>4

LEMMA WeightsToAppend ==
  ASSUME NEW q \in Seq(HalfEdges), NEW e \in HalfEdges, NEW d
  PROVE  WeightsTo(Append(q, e), d) =
           IF e.destination = d THEN Append(WeightsTo(q, d), e.weight)
           ELSE WeightsTo(q, d)
<1> DEFINE S == HalfEdgesTo(d)
           r == Select(q, S)
<1>1. Select(Append(q, e), S) = IF e \in S THEN Append(r, e) ELSE r
  BY SelectAppend
<1>2. e \in S <=> e.destination = d
  BY DEF HalfEdgesTo
<1>3. r \in Seq(HalfEdges \cap S)
  BY SelectType
<1>4. CASE e.destination = d
  <2>1. Select(Append(q, e), S) = Append(r, e)
    BY <1>1, <1>2, <1>4
  <2> HIDE DEF r, S
  <2> DEFINE T == HalfEdges \cap S
             a == Append(r, e)
             f == [i \in DOMAIN r |-> r[i].weight]
             g == [i \in DOMAIN a |-> a[i].weight]
  <2>2. /\ r \in Seq(T) /\ e \in T
        /\ \A x \in T : x.weight \in Weights
    BY <1>2, <1>3, <1>4 DEF HalfEdges
  <2> HIDE DEF T
  <2>3. /\ Len(r) \in Nat /\ DOMAIN r = 1 .. Len(r)
        /\ \A i \in DOMAIN r : r[i].weight \in Weights
        /\ a \in Seq(T) /\ Len(a) = Len(r) + 1 /\ DOMAIN a = 1 .. Len(r) + 1
        /\ \A i \in 1 .. Len(r) : a[i] = r[i]
        /\ a[Len(r) + 1] = e
    BY <2>2
  <2> HIDE DEF a
  <2>4. /\ f \in Seq(Weights) /\ Len(f) = Len(r)
        /\ g \in Seq(Weights) /\ Len(g) = Len(r) + 1
    BY <2>2, <2>3
  <2>5. /\ Append(f, e.weight) \in Seq(Weights)
        /\ Len(Append(f, e.weight)) = Len(r) + 1
        /\ \A i \in 1 .. Len(r) : Append(f, e.weight)[i] = f[i]
        /\ Append(f, e.weight)[Len(r) + 1] = e.weight
    BY <2>2, <2>4
  <2>6. \A i \in 1 .. Len(g) : g[i] = Append(f, e.weight)[i]
    <3> SUFFICES ASSUME NEW i \in 1 .. Len(r) + 1
                 PROVE  g[i] = Append(f, e.weight)[i]
      BY <2>4
    <3>1. CASE i = Len(r) + 1
      BY <2>3, <2>5, <3>1
    <3>2. CASE i \in 1 .. Len(r)
      BY <2>3, <2>5, <3>2
    <3> QED
      BY <2>3, <3>1, <3>2
  <2>7. g = Append(f, e.weight)
    <3> DEFINE h == Append(f, e.weight)
    <3> HIDE DEF f, g, h
    <3> QED
      BY <2>4, <2>5, <2>6, SeqEqual
  <2>8. WeightsTo(q, d) = f /\ WeightsTo(Append(q, e), d) = g
    BY <2>1 DEF WeightsTo, a, r, S
  <2> QED
    BY <1>4, <2>7, <2>8
<1>5. CASE e.destination # d
  BY <1>1, <1>2, <1>5 DEF WeightsTo
<1> QED
  BY <1>4, <1>5

LEMMA KeepType ==
  ASSUME NEW q \in Seq(HalfEdges), NEW d
  PROVE  Keep(q, d) \in Seq({e \in HalfEdges : e.destination # d})
<1>1. HalfEdges \cap (HalfEdges \ HalfEdgesTo(d)) = {e \in HalfEdges : e.destination # d}
  BY DEF HalfEdgesTo
<1> QED
  BY <1>1, SelectType DEF Keep

LEMMA KeepAll ==
  ASSUME NEW d, NEW q \in Seq({e \in HalfEdges : e.destination # d})
  PROVE  Keep(q, d) = q
<1> DEFINE T == {e \in HalfEdges : e.destination # d}
           S == HalfEdges \ HalfEdgesTo(d)
<1>1. T \subseteq S
  BY DEF HalfEdgesTo
<1> HIDE DEF T, S
<1>2. q \in Seq(T)
  BY DEF T
<1>3. Select(q, S) = q
  BY <1>1, <1>2, SelectAll
<1> QED
  BY <1>3 DEF S, Keep

LEMMA WeightsToNone ==
  ASSUME NEW d, NEW q \in Seq({e \in HalfEdges : e.destination # d})
  PROVE  WeightsTo(q, d) = <<>>
<1> DEFINE T == {e \in HalfEdges : e.destination # d}
           S == HalfEdgesTo(d)
<1>1. T \cap S = {}
  BY DEF HalfEdgesTo
<1> HIDE DEF T, S
<1>2. q \in Seq(T)
  BY DEF T
<1>3. Select(q, S) = <<>>
  BY <1>1, <1>2, SelectNone
<1> QED
  BY <1>3 DEF S, WeightsTo

\* remove_if removes what leads to d, and nothing else.
LEMMA WeightsToKeep ==
  ASSUME NEW q \in Seq(HalfEdges), NEW d, NEW c
  PROVE  WeightsTo(Keep(q, d), c) = IF c = d THEN <<>> ELSE WeightsTo(q, c)
<1>1. ASSUME c # d PROVE WeightsTo(Keep(q, d), c) = WeightsTo(q, c)
  <2> DEFINE R == HalfEdges \ HalfEdgesTo(d)
             S == HalfEdgesTo(c)
  <2>1. HalfEdges \cap (R \cap S) = HalfEdges \cap S
    BY <1>1 DEF HalfEdgesTo
  <2>2. WeightsTo(q, c) = [i \in DOMAIN Select(q, S) |-> Select(q, S)[i].weight]
    BY DEF WeightsTo
  <2>3. WeightsTo(Keep(q, d), c) = [i \in DOMAIN Select(Select(q, R), S) |->
                                      Select(Select(q, R), S)[i].weight]
    BY DEF WeightsTo, Keep
  <2> HIDE DEF R, S
  <2>4. Select(Select(q, R), S) = Select(q, R \cap S)
    BY SelectSelect
  <2>5. Select(q, R \cap S) = Select(q, S)
    BY <2>1, SelectSame
  <2> QED
    BY <2>2, <2>3, <2>4, <2>5
<1>2. WeightsTo(Keep(q, d), d) = <<>>
  <2> DEFINE r == Keep(q, d)
  <2>1. r \in Seq({e \in HalfEdges : e.destination # d})
    BY KeepType
  <2> HIDE DEF r
  <2>2. WeightsTo(r, d) = <<>>
    BY <2>1, WeightsToNone
  <2> QED
    BY <2>2 DEF r
<1> QED
  BY <1>1, <1>2

LEMMA FirstToIsFirst ==
  ASSUME NEW q \in Seq(HalfEdges), NEW d, HasEdgeTo(q, d)
  PROVE  /\ FirstTo(q, d) \in DOMAIN q
         /\ q[FirstTo(q, d)].destination = d
         /\ \A k \in 1 .. FirstTo(q, d) - 1 : q[k].destination # d
<1> DEFINE S == {i \in DOMAIN q : q[i].destination = d}
<1>1. DOMAIN q = 1 .. Len(q) /\ Len(q) \in Nat
  OBVIOUS
<1>2. S \in SUBSET Nat /\ S # {}
  BY <1>1 DEF HasEdgeTo
<1>3. PICK i \in S : \A k \in S : i <= k
  BY <1>2, LeastNatural
<1>4. \A k \in 1 .. i - 1 : q[k].destination # d
  <2> SUFFICES ASSUME NEW k \in 1 .. i - 1, q[k].destination = d PROVE FALSE
    OBVIOUS
  <2>1. i \in 1 .. Len(q)
    BY <1>1
  <2>2. k \in 1 .. Len(q) /\ k < i
    BY <1>1, <2>1
  <2>3. k \in S
    BY <1>1, <2>2
  <2> QED
    BY <1>1, <1>3, <2>1, <2>2, <2>3
<1> QED
  BY <1>3, <1>4 DEF FirstTo

\* What changeWeight makes of the list of one end.
Reweighted(q, d, w) ==
  [i \in DOMAIN q |-> IF i = FirstTo(q, d) THEN HalfEdge(d, w) ELSE q[i]]

LEMMA ReweightedField ==
  ASSUME NEW q \in Seq(HalfEdges), NEW d, NEW w, HasEdgeTo(q, d)
  PROVE  [q EXCEPT ![FirstTo(q, d)].weight = w] = Reweighted(q, d, w)
<1> DEFINE i == FirstTo(q, d)
<1>1. i \in DOMAIN q /\ q[i].destination = d
  BY FirstToIsFirst
<1>2. DOMAIN q = 1 .. Len(q) /\ q[i] \in HalfEdges
  BY <1>1
<1> HIDE DEF i
<1>3. [q[i] EXCEPT !.weight = w] = HalfEdge(d, w)
  BY <1>1, <1>2 DEF HalfEdge, HalfEdges
<1>4. [q EXCEPT ![i] = [q[i] EXCEPT !.weight = w]] =
        [k \in DOMAIN q |-> IF k = i THEN HalfEdge(d, w) ELSE q[k]]
  BY <1>3
<1> QED
  BY <1>4 DEF Reweighted, i

LEMMA ReweightedType ==
  ASSUME NEW q \in Seq(HalfEdges), NEW d \in Ids, NEW w \in Weights
  PROVE  Reweighted(q, d, w) \in Seq(HalfEdges)
<1>1. HalfEdge(d, w) \in HalfEdges
  BY DEF HalfEdge, HalfEdges
<1> QED
  BY <1>1 DEF Reweighted

\* A list that leads to d leads to it before or at its end.
LEMMA HasEdgeToAppend ==
  ASSUME NEW q \in Seq(HalfEdges), NEW e \in HalfEdges, NEW d
  PROVE  HasEdgeTo(Append(q, e), d) <=> HasEdgeTo(q, d) \/ e.destination = d
<1>1. /\ DOMAIN q = 1 .. Len(q) /\ Len(q) \in Nat
      /\ DOMAIN Append(q, e) = 1 .. Len(q) + 1
      /\ \A i \in 1 .. Len(q) : Append(q, e)[i] = q[i]
      /\ Append(q, e)[Len(q) + 1] = e
  OBVIOUS
<1>2. \A i \in 1 .. Len(q) + 1 : i \in 1 .. Len(q) \/ i = Len(q) + 1
  BY <1>1
<1>3. \A i \in 1 .. Len(q) : i \in 1 .. Len(q) + 1
  BY <1>1
<1>4. Len(q) + 1 \in 1 .. Len(q) + 1
  BY <1>1
<1> QED
  BY <1>1, <1>2, <1>3, <1>4 DEF HasEdgeTo

LEMMA HasNoEdgeTo ==
  ASSUME NEW q \in Seq(HalfEdges), NEW d, ~HasEdgeTo(q, d)
  PROVE  q \in Seq({e \in HalfEdges : e.destination # d})
BY DEF HasEdgeTo

\* The first half-edge to d stays the first when the list grows behind it.
LEMMA FirstToAppend ==
  ASSUME NEW q \in Seq(HalfEdges), NEW e \in HalfEdges, NEW d
  PROVE  /\ HasEdgeTo(q, d) => FirstTo(Append(q, e), d) = FirstTo(q, d)
         /\ ~HasEdgeTo(q, d) /\ e.destination = d =>
              FirstTo(Append(q, e), d) = Len(q) + 1
<1> DEFINE a == Append(q, e)
<1>1. /\ DOMAIN q = 1 .. Len(q) /\ Len(q) \in Nat
      /\ a \in Seq(HalfEdges)
      /\ DOMAIN a = 1 .. Len(q) + 1
      /\ \A i \in 1 .. Len(q) : a[i] = q[i]
      /\ a[Len(q) + 1] = e
  OBVIOUS
<1>2. HasEdgeTo(a, d) <=> HasEdgeTo(q, d) \/ e.destination = d
  BY HasEdgeToAppend
<1> HIDE DEF a
<1> DEFINE i == FirstTo(a, d)
           j == FirstTo(q, d)
<1>3. ASSUME HasEdgeTo(a, d)
      PROVE  /\ i \in 1 .. Len(q) + 1 /\ a[i].destination = d
             /\ \A k \in 1 .. i - 1 : a[k].destination # d
  BY <1>1, <1>3, FirstToIsFirst
<1>4. ASSUME HasEdgeTo(q, d)
      PROVE  /\ j \in 1 .. Len(q) /\ q[j].destination = d
             /\ \A k \in 1 .. j - 1 : q[k].destination # d
  BY <1>1, <1>4, FirstToIsFirst
<1> HIDE DEF i, j
<1>5. ASSUME HasEdgeTo(q, d) PROVE i = j
  <2>1. ~(i < j)
    <3> SUFFICES ASSUME i < j PROVE FALSE
      OBVIOUS
    <3>1. i \in 1 .. j - 1 /\ i \in 1 .. Len(q)
      BY <1>1, <1>2, <1>3, <1>4, <1>5
    <3> QED
      BY <1>1, <1>2, <1>3, <1>4, <1>5, <3>1
  <2>2. ~(j < i)
    <3> SUFFICES ASSUME j < i PROVE FALSE
      OBVIOUS
    <3>1. j \in 1 .. i - 1 /\ j \in 1 .. Len(q)
      BY <1>1, <1>2, <1>3, <1>4, <1>5
    <3> QED
      BY <1>1, <1>2, <1>3, <1>4, <1>5, <3>1
  <2> QED
    BY <1>2, <1>3, <1>4, <1>5, <2>1, <2>2
<1>6. ASSUME ~HasEdgeTo(q, d), e.destination = d PROVE i = Len(q) + 1
  <2>1. i \notin 1 .. Len(q)
    BY <1>1, <1>2, <1>3, <1>6 DEF HasEdgeTo
  <2> QED
    BY <1>1, <1>2, <1>3, <1>6, <2>1
<1> QED
  BY <1>5, <1>6 DEF a, i, j

LEMMA ReweightedAppend ==
  ASSUME NEW q \in Seq(HalfEdges), NEW e \in HalfEdges, NEW d \in Ids, NEW w \in Weights
  PROVE  /\ HasEdgeTo(q, d) =>
              Reweighted(Append(q, e), d, w) = Append(Reweighted(q, d, w), e)
         /\ ~HasEdgeTo(q, d) /\ e.destination = d =>
              Reweighted(Append(q, e), d, w) = Append(q, HalfEdge(d, w))
<1> DEFINE a == Append(q, e)
           x == HalfEdge(d, w)
<1>1. /\ DOMAIN q = 1 .. Len(q) /\ Len(q) \in Nat
      /\ a \in Seq(HalfEdges) /\ Len(a) = Len(q) + 1
      /\ DOMAIN a = 1 .. Len(q) + 1
      /\ \A i \in 1 .. Len(q) : a[i] = q[i]
      /\ a[Len(q) + 1] = e
  OBVIOUS
<1>2. x \in HalfEdges
  BY DEF HalfEdge, HalfEdges
<1> HIDE DEF a, x
<1>3. /\ Reweighted(a, d, w) \in Seq(HalfEdges)
      /\ Len(Reweighted(a, d, w)) = Len(q) + 1
      /\ \A i \in 1 .. Len(q) + 1 :
           Reweighted(a, d, w)[i] = IF i = FirstTo(a, d) THEN x ELSE a[i]
  BY <1>1, <1>2 DEF Reweighted, x
<1>4. /\ Reweighted(q, d, w) \in Seq(HalfEdges)
      /\ Len(Reweighted(q, d, w)) = Len(q)
      /\ \A i \in 1 .. Len(q) :
           Reweighted(q, d, w)[i] = IF i = FirstTo(q, d) THEN x ELSE q[i]
  BY <1>1, <1>2 DEF Reweighted, x
<1>5. ASSUME HasEdgeTo(q, d)
      PROVE  Reweighted(a, d, w) = Append(Reweighted(q, d, w), e)
  <2> DEFINE r == Reweighted(q, d, w)
             b == Append(r, e)
             c == Reweighted(a, d, w)
  <2>1. FirstTo(a, d) = FirstTo(q, d) /\ FirstTo(q, d) \in 1 .. Len(q)
    BY <1>1, <1>5, FirstToAppend, FirstToIsFirst DEF a
  <2> HIDE DEF r, c
  <2>2. /\ b \in Seq(HalfEdges) /\ Len(b) = Len(q) + 1
        /\ \A i \in 1 .. Len(q) : b[i] = r[i]
        /\ b[Len(q) + 1] = e
    BY <1>4 DEF r
  <2> HIDE DEF b
  <2>3. ASSUME NEW i \in 1 .. Len(q) + 1 PROVE c[i] = b[i]
    <3>1. CASE i \in 1 .. Len(q)
      BY <1>1, <1>3, <1>4, <2>1, <2>2, <3>1 DEF r, c
    <3>2. CASE i = Len(q) + 1
      BY <1>1, <1>3, <1>4, <2>1, <2>2, <3>2 DEF r, c
    <3> QED
      BY <1>1, <3>1, <3>2
  <2>4. c = b
    BY <1>3, <2>2, <2>3, SeqEqual DEF c
  <2> QED
    BY <2>4 DEF b, c, r
<1>6. ASSUME ~HasEdgeTo(q, d), e.destination = d
      PROVE  Reweighted(a, d, w) = Append(q, x)
  <2> DEFINE b == Append(q, x)
             c == Reweighted(a, d, w)
  <2>1. FirstTo(a, d) = Len(q) + 1
    BY <1>6, FirstToAppend DEF a
  <2> HIDE DEF c
  <2>2. /\ b \in Seq(HalfEdges) /\ Len(b) = Len(q) + 1
        /\ \A i \in 1 .. Len(q) : b[i] = q[i]
        /\ b[Len(q) + 1] = x
    BY <1>2
  <2> HIDE DEF b
  <2>3. ASSUME NEW i \in 1 .. Len(q) + 1 PROVE c[i] = b[i]
    <3>1. CASE i \in 1 .. Len(q)
      BY <1>1, <1>3, <2>1, <2>2, <3>1 DEF c
    <3>2. CASE i = Len(q) + 1
      BY <1>1, <1>3, <2>1, <2>2, <3>2 DEF c
    <3> QED
      BY <1>1, <3>1, <3>2
  <2>4. c = b
    BY <1>3, <2>2, <2>3, SeqEqual DEF c
  <2> QED
    BY <2>4 DEF b, c
<1> QED
  BY <1>5, <1>6 DEF a, x

\* Changing the first element, and appending behind it.
LEMMA ChangeFirstAppend ==
  ASSUME NEW T, NEW s \in Seq(T), s # <<>>, NEW x \in T, NEW y \in T
  PROVE  [Append(s, x) EXCEPT ![1] = y] = Append([s EXCEPT ![1] = y], x)
<1> DEFINE a == Append(s, x)
           b == [s EXCEPT ![1] = y]
           l == [a EXCEPT ![1] = y]
           r == Append(b, x)
<1>1. /\ Len(s) \in Nat /\ Len(s) > 0 /\ DOMAIN s = 1 .. Len(s)
      /\ a \in Seq(T) /\ Len(a) = Len(s) + 1 /\ DOMAIN a = 1 .. Len(s) + 1
      /\ \A i \in 1 .. Len(s) : a[i] = s[i]
      /\ a[Len(s) + 1] = x
      /\ b \in Seq(T) /\ Len(b) = Len(s)
  OBVIOUS
<1> HIDE DEF a
<1>2. /\ l \in Seq(T) /\ Len(l) = Len(s) + 1
      /\ \A i \in 1 .. Len(s) + 1 : l[i] = IF i = 1 THEN y ELSE a[i]
  BY <1>1
<1>3. \A i \in 1 .. Len(s) : b[i] = IF i = 1 THEN y ELSE s[i]
  BY <1>1
<1> HIDE DEF b
<1>4. /\ r \in Seq(T) /\ Len(r) = Len(s) + 1
      /\ \A i \in 1 .. Len(s) : r[i] = b[i]
      /\ r[Len(s) + 1] = x
  BY <1>1
<1> HIDE DEF l, r
<1>5. ASSUME NEW i \in 1 .. Len(s) + 1 PROVE l[i] = r[i]
  <2>1. CASE i \in 1 .. Len(s)
    BY <1>1, <1>2, <1>3, <1>4, <2>1
  <2>2. CASE i = Len(s) + 1
    BY <1>1, <1>2, <1>4, <2>2
  <2> QED
    BY <1>1, <2>1, <2>2
<1>6. l = r
  BY <1>2, <1>4, <1>5, SeqEqual
<1> QED
  BY <1>6 DEF a, b, l, r

\* The first of the weights, and nothing else.
LEMMA WeightsToReweighted ==
  ASSUME NEW q \in Seq(HalfEdges), NEW d \in Ids, NEW w \in Weights,
         HasEdgeTo(q, d), NEW c
  PROVE  /\ WeightsTo(q, d) # <<>>
         /\ WeightsTo(Reweighted(q, d, w), c) =
              IF c = d THEN [WeightsTo(q, d) EXCEPT ![1] = w] ELSE WeightsTo(q, c)
<1> DEFINE P == {s \in Seq(HalfEdges) : HasEdgeTo(s, d) =>
                   /\ WeightsTo(s, d) # <<>>
                   /\ WeightsTo(Reweighted(s, d, w), c) =
                        IF c = d THEN [WeightsTo(s, d) EXCEPT ![1] = w]
                        ELSE WeightsTo(s, c)}
<1>1. <<>> \in P
  BY EmptySeq DEF HasEdgeTo
<1>2. ASSUME NEW s \in Seq(HalfEdges), NEW e \in HalfEdges, s \in P
      PROVE  Append(s, e) \in P
  <2> DEFINE a == Append(s, e)
             x == HalfEdge(d, w)
  <2>1. a \in Seq(HalfEdges) /\ x \in HalfEdges
    BY AppendProperties DEF HalfEdge, HalfEdges
  <2>2. SUFFICES ASSUME HasEdgeTo(a, d)
                 PROVE  /\ WeightsTo(a, d) # <<>>
                        /\ WeightsTo(Reweighted(a, d, w), c) =
                             IF c = d THEN [WeightsTo(a, d) EXCEPT ![1] = w]
                             ELSE WeightsTo(a, c)
    BY <2>1
  <2>3. HasEdgeTo(s, d) \/ e.destination = d
    BY <2>2, HasEdgeToAppend
  <2>4. /\ WeightsTo(a, d) = IF e.destination = d
                             THEN Append(WeightsTo(s, d), e.weight) ELSE WeightsTo(s, d)
        /\ WeightsTo(a, c) = IF e.destination = c
                             THEN Append(WeightsTo(s, c), e.weight) ELSE WeightsTo(s, c)
    BY WeightsToAppend
  <2>5. WeightsTo(s, d) \in Seq(Weights) /\ WeightsTo(s, c) \in Seq(Weights) /\ e.weight \in Weights
    BY WeightsToType DEF HalfEdges
  <2>6. CASE HasEdgeTo(s, d)
    <3> DEFINE r == Reweighted(s, d, w)
    <3>1. r \in Seq(HalfEdges)
      BY ReweightedType
    <3>2. Reweighted(a, d, w) = Append(r, e)
      BY <2>6, ReweightedAppend
    <3> HIDE DEF r
    <3>3. WeightsTo(Append(r, e), c) = IF e.destination = c
                             THEN Append(WeightsTo(r, c), e.weight) ELSE WeightsTo(r, c)
      BY <3>1, WeightsToAppend
    <3>4. /\ WeightsTo(s, d) # <<>>
          /\ WeightsTo(r, c) = IF c = d THEN [WeightsTo(s, d) EXCEPT ![1] = w]
                               ELSE WeightsTo(s, c)
      BY <1>2, <2>6 DEF r
    <3> HIDE DEF P, a, x
    <3> DEFINE W == WeightsTo(s, d)
    <3> HIDE DEF W
    <3>5. W \in Seq(Weights) /\ W # <<>>
      BY <2>5, <3>4 DEF W
    <3>6. Append(W, e.weight) # <<>>
      BY <2>5, <3>5
    <3>7. [Append(W, e.weight) EXCEPT ![1] = w] = Append([W EXCEPT ![1] = w], e.weight)
      BY <2>5, <3>5, ChangeFirstAppend
    <3> QED
      BY <2>4, <3>2, <3>3, <3>4, <3>5, <3>6, <3>7 DEF W
  <2>7. CASE ~HasEdgeTo(s, d)
    <3>1. e.destination = d
      BY <2>3, <2>7
    <3>2. Reweighted(a, d, w) = Append(s, x)
      BY <2>7, <3>1, ReweightedAppend
    <3>3. x.destination = d /\ x.weight = w
      BY DEF HalfEdge
    <3> HIDE DEF P, a, x
    <3>4. WeightsTo(Append(s, x), c) = IF d = c
                             THEN Append(WeightsTo(s, c), w) ELSE WeightsTo(s, c)
      BY <2>1, <3>3, WeightsToAppend
    <3>5. WeightsTo(s, d) = <<>>
      BY <2>7, HasNoEdgeTo, WeightsToNone
    <3>6. Append(<<>>, e.weight) # <<>> /\ [Append(<<>>, e.weight) EXCEPT ![1] = w] = Append(<<>>, w)
      BY <2>5
    <3> QED
      BY <2>4, <3>1, <3>2, <3>4, <3>5, <3>6
  <2> QED
    BY <2>6, <2>7
<1> HIDE DEF P
<1>3. Seq(HalfEdges) \subseteq P
  BY <1>1, <1>2, SeqInduction
<1> QED
  BY <1>3 DEF P

\* The half-edges to vertices of V.
Into(V) == [destination : V, weight : Weights]

\* TypeOK and Closed in one.
GraphOK ==
  /\ nextVertexId \in 0 .. MaxVertices
  /\ Vertices \subseteq 0 .. nextVertexId - 1
  /\ adjacencyList \in [Vertices -> Seq(Into(Vertices))]

LEMMA VerticesAreIds == ASSUME GraphOK PROVE Vertices \subseteq Ids
BY InputsAssumption DEF GraphOK, Ids

LEMMA GraphOKMeans == GraphOK => TypeOK /\ Closed
<1> SUFFICES ASSUME GraphOK PROVE TypeOK /\ Closed
  OBVIOUS
<1>1. Into(Vertices) \subseteq HalfEdges
  BY VerticesAreIds DEF Into, HalfEdges
<1>2. ASSUME NEW v \in Vertices PROVE adjacencyList[v] \in Seq(Into(Vertices))
  BY DEF GraphOK
<1>3. ASSUME NEW v \in Vertices PROVE adjacencyList[v] \in Seq(HalfEdges)
  <2> DEFINE T == Into(Vertices)
             q == adjacencyList[v]
  <2>1. q \in Seq(T) /\ T \subseteq HalfEdges
    BY <1>1, <1>2
  <2> HIDE DEF T, q
  <2>2. q \in Seq(HalfEdges)
    BY <2>1, SeqMonotonic
  <2> QED
    BY <2>2 DEF q
<1>4. TypeOK
  BY <1>3 DEF GraphOK, TypeOK, Vertices
<1>5. ASSUME NEW v \in Vertices, NEW i \in DOMAIN adjacencyList[v]
      PROVE  adjacencyList[v][i].destination \in Vertices
  <2>1. adjacencyList[v][i] \in Into(Vertices)
    BY <1>2
  <2> QED
    BY <2>1 DEF Into
<1> QED
  BY <1>4, <1>5 DEF Closed

LEMMA IntoMonotonic ==
  ASSUME NEW V, NEW U, V \subseteq U, NEW q \in Seq(Into(V))
  PROVE  q \in Seq(Into(U))
<1> DEFINE T == Into(V)
           R == Into(U)
<1>1. T \subseteq R
  BY DEF Into
<1> HIDE DEF T, R
<1> QED
  BY <1>1, SeqMonotonic DEF T, R

LEMMA KeepWithin ==
  ASSUME NEW V, NEW q \in Seq(Into(V)), NEW d, V \subseteq Ids
  PROVE  Keep(q, d) \in Seq(Into(V \ {d}))
<1> DEFINE S == HalfEdges \ HalfEdgesTo(d)
           T == Into(V)
<1>1. T \cap S = Into(V \ {d})
  BY DEF Into, HalfEdges, HalfEdgesTo
<1> HIDE DEF S, T
<1>2. Select(q, S) \in Seq(T \cap S)
  BY SelectType DEF T
<1> QED
  BY <1>1, <1>2 DEF S, Keep

LEMMA KeepStays ==
  ASSUME NEW V, NEW q \in Seq(Into(V)), NEW d, V \subseteq Ids
  PROVE  Keep(q, d) \in Seq(Into(V))
<1>1. Keep(q, d) \in Seq(Into(V \ {d})) /\ V \ {d} \subseteq V
  BY KeepWithin
<1> QED
  BY <1>1, IntoMonotonic

\* remove_if keeps the length and invents no half-edge.
LEMMA RemoveIfWithin ==
  ASSUME NEW V, NEW q \in Seq(Into(V)), NEW d, V \subseteq Ids
  PROVE  RemoveIf(q, d) \in Seq(Into(V))
<1> DEFINE k == Keep(q, d)
           T == Into(V)
<1>1. k \in Seq(T)
  BY KeepStays
<1> HIDE DEF k, T
<1>2. [i \in DOMAIN q |-> IF i <= Len(k) THEN k[i] ELSE q[i]] \in Seq(T)
  <2>1. q \in Seq(T)
    BY DEF T
  <2>2. DOMAIN q = 1 .. Len(q) /\ Len(q) \in Nat
    BY <2>1
  <2>3. ASSUME NEW i \in 1 .. Len(q) PROVE (IF i <= Len(k) THEN k[i] ELSE q[i]) \in T
    BY <1>1, <2>1, <2>2
  <2> QED
    BY <2>2, <2>3
<1> QED
  BY <1>2 DEF RemoveIf, k, T

\* changeWeight list by list.
LEMMA ChangeWeightLists ==
  ASSUME GraphOK, NEW u \in Ids, NEW v \in Ids, NEW w \in Weights, ChangeWeight(u, v, w)
  PROVE  /\ Vertices' = Vertices
         /\ adjacencyList' = [x \in Vertices |->
              IF x = u THEN Reweighted(adjacencyList[u], v, w)
              ELSE IF x = v THEN Reweighted(adjacencyList[v], u, w)
              ELSE adjacencyList[x]]
<1> DEFINE i == FirstTo(adjacencyList[u], v)
           j == FirstTo(adjacencyList[v], u)
           a == [adjacencyList EXCEPT ![u][i].weight = w]
           b == [x \in Vertices |->
                   IF x = u THEN Reweighted(adjacencyList[u], v, w) ELSE adjacencyList[x]]
<1>1. /\ u \in Vertices /\ v \in Vertices
      /\ HasEdgeTo(adjacencyList[u], v) /\ HasEdgeTo(adjacencyList[v], u)
      /\ adjacencyList' = [a EXCEPT ![v][j].weight = w]
  BY DEF ChangeWeight
<1>2. /\ DOMAIN adjacencyList = Vertices
      /\ \A x \in Vertices : adjacencyList[x] \in Seq(HalfEdges)
  BY GraphOKMeans DEF TypeOK
<1>3. a = b
  <2>1. [adjacencyList[u] EXCEPT ![i].weight = w] = Reweighted(adjacencyList[u], v, w)
    BY <1>1, <1>2, ReweightedField
  <2>2. a = [adjacencyList EXCEPT ![u] = [adjacencyList[u] EXCEPT ![i].weight = w]]
    OBVIOUS
  <2> QED
    BY <1>2, <2>1, <2>2
<1> HIDE DEF a, b
<1>4. adjacencyList' = [b EXCEPT ![v] = [b[v] EXCEPT ![j].weight = w]]
  BY <1>1, <1>3
<1>5. DOMAIN b = Vertices
  BY DEF b
<1>6. DOMAIN adjacencyList' = Vertices
  BY <1>4, <1>5
<1>7. [b[v] EXCEPT ![j].weight = w] =
        IF v = u THEN Reweighted(adjacencyList[u], v, w)
        ELSE Reweighted(adjacencyList[v], u, w)
  <2>1. CASE u # v
    <3>1. b[v] = adjacencyList[v]
      BY <1>1, <2>1 DEF b
    <3>2. [adjacencyList[v] EXCEPT ![j].weight = w] = Reweighted(adjacencyList[v], u, w)
      BY <1>1, <1>2, ReweightedField
    <3> QED
      BY <2>1, <3>1, <3>2
  <2>2. CASE u = v
    <3> DEFINE r == Reweighted(adjacencyList[u], v, w)
    <3>1. b[v] = r
      BY <1>1, <2>2 DEF b
    <3>2. i = j /\ j \in DOMAIN adjacencyList[u]
      BY <1>1, <1>2, <2>2, FirstToIsFirst
    <3>3. r[j] = HalfEdge(v, w) /\ r = [k \in DOMAIN r |-> r[k]]
      BY <3>2 DEF Reweighted
    <3>4. [r[j] EXCEPT !.weight = w] = r[j]
      BY <3>3 DEF HalfEdge
    <3> HIDE DEF r, j
    <3>5. [r EXCEPT ![j] = [r[j] EXCEPT !.weight = w]] = r
      BY <3>3, <3>4
    <3> QED
      BY <2>2, <3>1, <3>5 DEF r
  <2> QED
    BY <2>1, <2>2
<1> DEFINE c == [b[v] EXCEPT ![j].weight = w]
<1> HIDE DEF c
<1>8. adjacencyList' = [x \in Vertices |-> IF x = v THEN c ELSE b[x]]
  BY <1>4, <1>5 DEF c
<1> QED
  BY <1>6, <1>7, <1>8 DEF b, c, Vertices

LEMMA GraphOKStep == GraphOK /\ [Next]_vars => GraphOK'
<1> SUFFICES ASSUME GraphOK, [Next]_vars PROVE GraphOK'
  OBVIOUS
<1> USE DEF GraphOK
<1>1. Vertices \subseteq Ids
  BY VerticesAreIds
<1>2. MaxVertices \in Nat
  BY InputsAssumption
<1>3. CASE AddVertex
  <2> DEFINE n == nextVertexId
             V == Vertices \cup {n}
  <2>1. /\ n \in Nat /\ n < MaxVertices
        /\ Vertices' = V
        /\ nextVertexId' = n + 1
    BY <1>2, <1>3 DEF AddVertex, Vertices
  <2>2. V \subseteq 0 .. n
    BY <2>1
  <2>3. adjacencyList' = [v \in V |-> IF v = n THEN <<>> ELSE adjacencyList[v]]
    BY <1>3 DEF AddVertex
  <2>4. ASSUME NEW v \in V PROVE adjacencyList'[v] \in Seq(Into(V))
    <3>1. CASE v = n
      BY <2>3, <3>1, EmptySeq
    <3>2. CASE v # n
      <4>1. adjacencyList'[v] = adjacencyList[v] /\ adjacencyList[v] \in Seq(Into(Vertices))
        BY <2>3, <3>2
      <4> QED
        BY <4>1, IntoMonotonic
    <3> QED
      BY <3>1, <3>2
  <2> HIDE DEF V
  <2>5. adjacencyList' \in [V -> Seq(Into(V))]
    BY <2>3, <2>4
  <2>6. nextVertexId' \in 0 .. MaxVertices /\ V \subseteq 0 .. nextVertexId' - 1
    BY <1>2, <2>1, <2>2
  <2> QED
    BY <2>1, <2>5, <2>6
<1>4. ASSUME NEW u \in Ids, NEW v \in Ids, NEW w \in Weights, AddEdge(u, v, w)
      PROVE  GraphOK'
  <2> DEFINE T == Into(Vertices)
             x == HalfEdge(v, w)
             y == HalfEdge(u, w)
  <2>1. u \in Vertices /\ v \in Vertices /\ x \in T /\ y \in T
    BY <1>4 DEF AddEdge, HalfEdge, Into
  <2> HIDE DEF T, x, y
  <2>2. adjacencyList \in [Vertices -> Seq(T)]
    BY DEF T
  <2> DEFINE a == [adjacencyList EXCEPT ![u] = Append(@, x)]
  <2>3. a \in [Vertices -> Seq(T)]
    BY <2>1, <2>2
  <2> HIDE DEF a
  <2>4. adjacencyList' = [a EXCEPT ![v] = Append(@, y)]
    BY <1>4 DEF AddEdge, a, x, y
  <2>5. adjacencyList' \in [Vertices -> Seq(T)]
    BY <2>1, <2>3, <2>4
  <2>6. Vertices' = Vertices /\ nextVertexId' = nextVertexId
    BY <1>4, <2>5 DEF AddEdge, Vertices
  <2> QED
    BY <2>5, <2>6 DEF T
<1>5. ASSUME NEW u \in Ids, NEW v \in Ids, RemoveEdge(u, v) PROVE GraphOK'
  <2> DEFINE T == Into(Vertices)
  <2>1. u \in Vertices /\ v \in Vertices
    BY <1>5 DEF RemoveEdge
  <2>2. /\ Keep(adjacencyList[u], v) \in Seq(T)
        /\ Keep(adjacencyList[v], u) \in Seq(T)
        /\ Keep(RemoveIf(adjacencyList[v], v), v) \in Seq(T)
    <3>1. adjacencyList[u] \in Seq(T) /\ adjacencyList[v] \in Seq(T)
      BY <2>1
    <3>2. RemoveIf(adjacencyList[v], v) \in Seq(T)
      BY <1>1, <3>1, RemoveIfWithin
    <3> QED
      BY <1>1, <3>1, <3>2, KeepStays
  <2> HIDE DEF T
  <2>3. adjacencyList' \in [Vertices -> Seq(T)]
    <3>1. adjacencyList \in [Vertices -> Seq(T)]
      BY DEF T
    <3>2. CASE u # v
      <4>1. adjacencyList' = [adjacencyList EXCEPT ![u] = Keep(adjacencyList[u], v), ![v] = Keep(adjacencyList[v], u)]
        BY <1>5, <3>2 DEF RemoveEdge
      <4> QED
        BY <2>1, <2>2, <3>1, <4>1
    <3>3. CASE u = v
      <4>1. adjacencyList' = [adjacencyList EXCEPT ![v] = Keep(RemoveIf(adjacencyList[v], v), v)]
        BY <1>5, <3>3 DEF RemoveEdge
      <4> QED
        BY <2>1, <2>2, <3>1, <4>1
    <3> QED
      BY <3>2, <3>3
  <2>4. Vertices' = Vertices /\ nextVertexId' = nextVertexId
    BY <1>5, <2>3 DEF RemoveEdge, Vertices
  <2> QED
    BY <2>3, <2>4 DEF T
<1>6. ASSUME NEW v \in Ids, RemoveVertex(v) PROVE GraphOK'
  <2> DEFINE V == Vertices \ {v}
  <2>1. adjacencyList' = [u \in V |-> Keep(adjacencyList[u], v)] /\ nextVertexId' = nextVertexId
    BY <1>6 DEF RemoveVertex
  <2>2. ASSUME NEW u \in V PROVE Keep(adjacencyList[u], v) \in Seq(Into(V))
    BY <1>1, KeepWithin
  <2>3. V \subseteq Vertices
    OBVIOUS
  <2> HIDE DEF V
  <2>4. Vertices' = V
    BY <2>1 DEF Vertices
  <2>5. adjacencyList' \in [V -> Seq(Into(V))]
    BY <2>1, <2>2
  <2> QED
    BY <2>1, <2>3, <2>4, <2>5
<1>7. ASSUME NEW u \in Ids, NEW v \in Ids, NEW w \in Weights, ChangeWeight(u, v, w)
      PROVE  GraphOK'
  <2> DEFINE T == Into(Vertices)
  <2>1. /\ Vertices' = Vertices
        /\ nextVertexId' = nextVertexId
        /\ adjacencyList' = [x \in Vertices |->
             IF x = u THEN Reweighted(adjacencyList[u], v, w)
             ELSE IF x = v THEN Reweighted(adjacencyList[v], u, w)
             ELSE adjacencyList[x]]
    <3>1. nextVertexId' = nextVertexId
      BY <1>7 DEF ChangeWeight
    <3> HIDE DEF GraphOK
    <3> QED
      BY <1>7, <3>1, ChangeWeightLists
  <2>2. u \in Vertices /\ v \in Vertices
    BY <1>7 DEF ChangeWeight
  <2>3. ASSUME NEW q \in Seq(T), NEW d \in Vertices PROVE Reweighted(q, d, w) \in Seq(T)
    <3>1. HalfEdge(d, w) \in T
      BY DEF HalfEdge, Into
    <3> QED
      BY <3>1 DEF Reweighted
  <2> HIDE DEF T
  <2>4. adjacencyList \in [Vertices -> Seq(T)]
    BY DEF T
  <2>5. adjacencyList' \in [Vertices -> Seq(T)]
    BY <2>1, <2>2, <2>3, <2>4
  <2> QED
    BY <2>1, <2>5 DEF T
<1>8. CASE UNCHANGED vars
  BY <1>8 DEF vars, Vertices
<1>9. \A e \in EdgeInputs : e[1] \in Ids /\ e[2] \in Ids
  BY InputsAssumption
<1> QED
  BY <1>3, <1>4, <1>5, <1>6, <1>7, <1>8, <1>9 DEF Next

LEMMA InitGraphOK == Init => GraphOK
BY InputsAssumption DEF Init, GraphOK, Vertices

\* Every list is a list of half-edges, and every vertex has an id below the
\* counter.
THEOREM TypeCorrect == Spec => []TypeOK
<1>1. GraphOK => TypeOK
  BY GraphOKMeans
<1> QED
  BY <1>1, InitGraphOK, GraphOKStep, PTL DEF Spec

\* No operation leaves a half-edge to a vertex that does not exist, also
\* where there are loops: whoever walks the lists may index by destination
\* (Graph.cpp:77-100).
THEOREM NoDanglingHalfEdge == Spec => []Closed
<1>1. GraphOK => Closed
  BY GraphOKMeans
<1> QED
  BY <1>1, InitGraphOK, GraphOKStep, PTL DEF Spec

\* What add_edge is asked for is never a loop.
Loopless == \A e \in EdgeInputs : e[1] # e[2]

\* The weights of the half-edges in the list of u that lead to v.
Between(u, v) == WeightsTo(adjacencyList[u], v)

NoLoops == \A v \in Vertices : Between(v, v) = <<>>

MInv == GraphOK /\ NoLoops /\ Mirror

LEMMA ListType ==
  ASSUME GraphOK, NEW v \in Vertices
  PROVE  adjacencyList[v] \in Seq(HalfEdges)
BY GraphOKMeans DEF TypeOK

LEMMA BetweenType ==
  ASSUME GraphOK, NEW u \in Vertices, NEW v
  PROVE  Between(u, v) \in Seq(Weights)
BY ListType, WeightsToType DEF Between

LEMMA HasEdgeBetween ==
  ASSUME GraphOK, NEW u \in Vertices, NEW v \in Ids, HasEdgeTo(adjacencyList[u], v)
  PROVE  Between(u, v) # <<>>
<1>1. adjacencyList[u] \in Seq(HalfEdges)
  BY ListType
<1>2. PICK i \in DOMAIN adjacencyList[u] : TRUE
  BY DEF HasEdgeTo
<1>3. adjacencyList[u][i] \in HalfEdges
  BY <1>1
<1>4. \E w : w \in Weights
  BY <1>3 DEF HalfEdges
<1> QED
  BY <1>1, <1>4, WeightsToReweighted DEF Between

LEMMA NoEdgeBetween ==
  ASSUME GraphOK, NEW u \in Vertices, NEW v, Between(u, v) = <<>>
  PROVE  adjacencyList[u] \in Seq({e \in HalfEdges : e.destination # v})
<1> DEFINE q == adjacencyList[u]
<1>1. q \in Seq(HalfEdges)
  BY ListType
<1>2. ~HasEdgeTo(q, v)
  <2> SUFFICES ASSUME HasEdgeTo(q, v) PROVE FALSE
    OBVIOUS
  <2>1. PICK i \in DOMAIN q : q[i].destination = v
    BY DEF HasEdgeTo
  <2>2. q[i] \in HalfEdges
    BY <1>1
  <2>3. v \in Ids
    BY <2>1, <2>2 DEF HalfEdges
  <2> QED
    BY <2>3, HasEdgeBetween
<1> HIDE DEF q
<1>3. q \in Seq({e \in HalfEdges : e.destination # v})
  BY <1>1, <1>2, HasNoEdgeTo
<1> QED
  BY <1>3 DEF q

-----------------------------------------------------------------------------
(* What each operation does between any two vertices. *)

LEMMA BetweenAddVertex ==
  ASSUME GraphOK, AddVertex
  PROVE  /\ nextVertexId \notin Vertices /\ nextVertexId \in Ids
         /\ Vertices' = Vertices \cup {nextVertexId}
         /\ \A x \in Vertices' : \A c :
              Between(x, c)' = IF x = nextVertexId THEN <<>> ELSE Between(x, c)
<1>1. /\ nextVertexId \notin Vertices /\ nextVertexId \in Ids
      /\ Vertices' = Vertices \cup {nextVertexId}
  BY InputsAssumption DEF GraphOK, AddVertex, Vertices, Ids
<1>2. ASSUME NEW x \in Vertices', NEW c
      PROVE  Between(x, c)' = IF x = nextVertexId THEN <<>> ELSE Between(x, c)
  <2>1. adjacencyList'[x] = IF x = nextVertexId THEN <<>> ELSE adjacencyList[x]
    BY <1>1 DEF AddVertex
  <2> QED
    BY <2>1, WeightsToEmpty DEF Between
<1> QED
  BY <1>1, <1>2

LEMMA BetweenAddEdge ==
  ASSUME GraphOK, NEW u, NEW v, NEW w \in Weights, u # v, AddEdge(u, v, w)
  PROVE  /\ Vertices' = Vertices /\ u \in Vertices /\ v \in Vertices
         /\ \A x \in Vertices : \A c :
              Between(x, c)' = IF (x = u /\ c = v) \/ (x = v /\ c = u)
                               THEN Append(Between(x, c), w) ELSE Between(x, c)
<1>1. u \in Vertices /\ v \in Vertices /\ DOMAIN adjacencyList = Vertices
  BY DEF AddEdge, Vertices
<1>2. HalfEdge(v, w) \in HalfEdges /\ HalfEdge(u, w) \in HalfEdges
  BY <1>1, VerticesAreIds DEF HalfEdge, HalfEdges
<1>3. adjacencyList' = [x \in Vertices |->
         IF x = u THEN Append(adjacencyList[u], HalfEdge(v, w))
         ELSE IF x = v THEN Append(adjacencyList[v], HalfEdge(u, w))
         ELSE adjacencyList[x]]
  BY <1>1 DEF AddEdge
<1>4. Vertices' = Vertices
  BY <1>3 DEF Vertices
<1>5. ASSUME NEW x \in Vertices, NEW c
      PROVE  Between(x, c)' = IF (x = u /\ c = v) \/ (x = v /\ c = u)
                              THEN Append(Between(x, c), w) ELSE Between(x, c)
  <2>1. adjacencyList[x] \in Seq(HalfEdges)
    BY ListType
  <2>2. ASSUME NEW d, HalfEdge(d, w) \in HalfEdges
        PROVE  WeightsTo(Append(adjacencyList[x], HalfEdge(d, w)), c) =
                 IF c = d THEN Append(Between(x, c), w) ELSE Between(x, c)
    BY <2>1, <2>2, WeightsToAppend DEF HalfEdge, Between
  <2>3. Between(x, c)' = WeightsTo(adjacencyList'[x], c)
    BY DEF Between
  <2>4. CASE x = u
    BY <1>2, <1>3, <2>2, <2>3, <2>4
  <2>5. CASE x = v
    BY <1>2, <1>3, <2>2, <2>3, <2>5
  <2>6. CASE x # u /\ x # v
    BY <1>3, <2>3, <2>6 DEF Between
  <2> QED
    BY <2>4, <2>5, <2>6
<1> QED
  BY <1>1, <1>4, <1>5

LEMMA BetweenRemoveEdge ==
  ASSUME MInv, NEW u, NEW v, RemoveEdge(u, v)
  PROVE  /\ Vertices' = Vertices /\ u \in Vertices /\ v \in Vertices
         /\ \A x \in Vertices : \A c :
              Between(x, c)' = IF (x = u /\ c = v) \/ (x = v /\ c = u)
                               THEN <<>> ELSE Between(x, c)
<1> USE DEF MInv
<1>1. u \in Vertices /\ v \in Vertices /\ DOMAIN adjacencyList = Vertices
  BY DEF RemoveEdge, Vertices
<1>2. Vertices' = Vertices
  BY <1>1 DEF RemoveEdge, Vertices
<1>3. ASSUME u # v, NEW x \in Vertices, NEW c
      PROVE  Between(x, c)' = IF (x = u /\ c = v) \/ (x = v /\ c = u)
                              THEN <<>> ELSE Between(x, c)
  <2>1. adjacencyList' = [adjacencyList EXCEPT ![u] = Keep(adjacencyList[u], v),
                                               ![v] = Keep(adjacencyList[v], u)]
    BY <1>3 DEF RemoveEdge
  <2>2. adjacencyList[x] \in Seq(HalfEdges)
    BY ListType
  <2>3. Between(x, c)' = WeightsTo(adjacencyList'[x], c)
    BY DEF Between
  <2>4. CASE x = u
    BY <1>1, <1>3, <2>1, <2>2, <2>3, <2>4, WeightsToKeep DEF Between
  <2>5. CASE x = v
    BY <1>1, <1>3, <2>1, <2>2, <2>3, <2>5, WeightsToKeep DEF Between
  <2>6. CASE x # u /\ x # v
    BY <1>1, <2>1, <2>3, <2>6 DEF Between
  <2> QED
    BY <2>4, <2>5, <2>6
<1>4. ASSUME u = v, NEW x \in Vertices, NEW c
      PROVE  Between(x, c)' = IF (x = u /\ c = v) \/ (x = v /\ c = u)
                              THEN <<>> ELSE Between(x, c)
  <2> DEFINE q == adjacencyList[v]
  <2>1. q \in Seq({e \in HalfEdges : e.destination # v}) /\ Between(v, v) = <<>>
    BY <1>1, NoEdgeBetween DEF NoLoops
  <2>2. adjacencyList' = [adjacencyList EXCEPT ![v] = Keep(RemoveIf(q, v), v)]
    BY <1>4 DEF RemoveEdge
  <2> HIDE DEF q
  <2>3. Keep(q, v) = q
    BY <2>1, KeepAll
  <2>4. RemoveIf(q, v) = q
    BY <2>1, <2>3 DEF RemoveIf
  <2>5. adjacencyList' = adjacencyList
    <3>1. adjacencyList' = [adjacencyList EXCEPT ![v] = adjacencyList[v]]
      BY <2>2, <2>3, <2>4 DEF q
    <3>2. adjacencyList = [y \in DOMAIN adjacencyList |-> adjacencyList[y]]
      BY DEF GraphOK
    <3> QED
      BY <3>1, <3>2
  <2> QED
    BY <1>4, <2>1, <2>5 DEF Between
<1> QED
  BY <1>1, <1>2, <1>3, <1>4

LEMMA BetweenRemoveVertex ==
  ASSUME GraphOK, NEW v, RemoveVertex(v)
  PROVE  /\ Vertices' = Vertices \ {v} /\ v \in Vertices
         /\ \A x \in Vertices' : \A c :
              Between(x, c)' = IF c = v THEN <<>> ELSE Between(x, c)
<1>1. Vertices' = Vertices \ {v} /\ v \in Vertices
  BY DEF RemoveVertex, Vertices
<1>2. ASSUME NEW x \in Vertices', NEW c
      PROVE  Between(x, c)' = IF c = v THEN <<>> ELSE Between(x, c)
  <2>1. adjacencyList'[x] = Keep(adjacencyList[x], v)
    BY <1>1, <1>2 DEF RemoveVertex
  <2>2. adjacencyList[x] \in Seq(HalfEdges)
    BY <1>1, ListType
  <2> QED
    BY <2>1, <2>2, WeightsToKeep DEF Between
<1> QED
  BY <1>1, <1>2

LEMMA BetweenChangeWeight ==
  ASSUME MInv, NEW u \in Ids, NEW v \in Ids, NEW w \in Weights, ChangeWeight(u, v, w)
  PROVE  /\ Vertices' = Vertices /\ u \in Vertices /\ v \in Vertices /\ u # v
         /\ Between(u, v) # <<>>
         /\ \A x \in Vertices : \A c :
              Between(x, c)' = IF (x = u /\ c = v) \/ (x = v /\ c = u)
                               THEN [Between(x, c) EXCEPT ![1] = w] ELSE Between(x, c)
<1> USE DEF MInv
<1>1. /\ u \in Vertices /\ v \in Vertices
      /\ HasEdgeTo(adjacencyList[u], v) /\ HasEdgeTo(adjacencyList[v], u)
  BY DEF ChangeWeight
<1>2. Between(u, v) # <<>> /\ Between(v, u) # <<>>
  BY <1>1, HasEdgeBetween
<1>3. u # v
  BY <1>1, <1>2 DEF NoLoops
<1>4. /\ Vertices' = Vertices
      /\ adjacencyList' = [x \in Vertices |->
              IF x = u THEN Reweighted(adjacencyList[u], v, w)
              ELSE IF x = v THEN Reweighted(adjacencyList[v], u, w)
              ELSE adjacencyList[x]]
  BY ChangeWeightLists
<1>5. ASSUME NEW x \in Vertices, NEW c
      PROVE  Between(x, c)' = IF (x = u /\ c = v) \/ (x = v /\ c = u)
                              THEN [Between(x, c) EXCEPT ![1] = w] ELSE Between(x, c)
  <2>1. adjacencyList[x] \in Seq(HalfEdges)
    BY ListType
  <2>2. Between(x, c)' = WeightsTo(adjacencyList'[x], c)
    BY DEF Between
  <2>3. CASE x = u
    <3>1. WeightsTo(Reweighted(adjacencyList[u], v, w), c) =
            IF c = v THEN [WeightsTo(adjacencyList[u], v) EXCEPT ![1] = w]
            ELSE WeightsTo(adjacencyList[u], c)
      BY <1>1, <2>1, <2>3, WeightsToReweighted
    <3> QED
      BY <1>3, <1>4, <2>2, <2>3, <3>1 DEF Between
  <2>4. CASE x = v
    <3>1. WeightsTo(Reweighted(adjacencyList[v], u, w), c) =
            IF c = u THEN [WeightsTo(adjacencyList[v], u) EXCEPT ![1] = w]
            ELSE WeightsTo(adjacencyList[v], c)
      BY <1>1, <2>1, <2>4, WeightsToReweighted
    <3> QED
      BY <1>3, <1>4, <2>2, <2>4, <3>1 DEF Between
  <2>5. CASE x # u /\ x # v
    BY <1>4, <2>2, <2>5 DEF Between
  <2> QED
    BY <2>3, <2>4, <2>5
<1> QED
  BY <1>1, <1>2, <1>3, <1>4, <1>5

LEMMA MInvStep == ASSUME Loopless, MInv, [Next]_vars PROVE MInv'
<1>1. GraphOK'
  BY GraphOKStep DEF MInv
<1>2. CASE AddVertex
  <2>1. GraphOK /\ NoLoops /\ Mirror
    BY DEF MInv
  <2> DEFINE n == nextVertexId
  <2>2. /\ n \notin Vertices
        /\ Vertices' = Vertices \cup {n}
        /\ \A x \in Vertices' : \A c : Between(x, c)' = IF x = n THEN <<>> ELSE Between(x, c)
    BY <1>2, <2>1, BetweenAddVertex
  <2>3. ASSUME NEW x \in Vertices PROVE Between(x, n) = <<>>
    <3> DEFINE q == adjacencyList[x]
    <3>1. q \in Seq(Into(Vertices))
      BY <2>1 DEF GraphOK
    <3>2. Into(Vertices) \subseteq {e \in HalfEdges : e.destination # n}
      BY <2>1, <2>2, VerticesAreIds DEF Into, HalfEdges
    <3> HIDE DEF q, n
    <3>3. q \in Seq({e \in HalfEdges : e.destination # n})
      BY <3>1, <3>2, SeqMonotonic
    <3>4. WeightsTo(q, n) = <<>>
      BY <3>3, WeightsToNone
    <3> QED
      BY <3>4 DEF q, Between
  <2> HIDE DEF n
  <2>4. NoLoops'
    BY <2>1, <2>2 DEF NoLoops
  <2>5. Mirror'
    BY <2>1, <2>2, <2>3 DEF Mirror, Between
  <2> QED
    BY <1>1, <2>4, <2>5 DEF MInv
<1>3. ASSUME NEW u, NEW v, NEW w \in Weights, u # v, AddEdge(u, v, w) PROVE MInv'
  <2>1. GraphOK /\ NoLoops /\ Mirror
    BY DEF MInv
  <2>2. /\ Vertices' = Vertices
        /\ \A x \in Vertices : \A c :
              Between(x, c)' = IF (x = u /\ c = v) \/ (x = v /\ c = u)
                               THEN Append(Between(x, c), w) ELSE Between(x, c)
    BY <1>3, <2>1, BetweenAddEdge
  <2>3. NoLoops'
    BY <1>3, <2>1, <2>2 DEF NoLoops
  <2>4. Mirror'
    BY <2>1, <2>2 DEF Mirror, Between
  <2> QED
    BY <1>1, <2>3, <2>4 DEF MInv
<1>4. ASSUME NEW u, NEW v, RemoveEdge(u, v) PROVE MInv'
  <2>1. GraphOK /\ NoLoops /\ Mirror
    BY DEF MInv
  <2>2. /\ Vertices' = Vertices
        /\ \A x \in Vertices : \A c :
              Between(x, c)' = IF (x = u /\ c = v) \/ (x = v /\ c = u)
                               THEN <<>> ELSE Between(x, c)
    BY <1>4, BetweenRemoveEdge
  <2>3. NoLoops'
    BY <2>1, <2>2 DEF NoLoops
  <2>4. Mirror'
    BY <2>1, <2>2 DEF Mirror, Between
  <2> QED
    BY <1>1, <2>3, <2>4 DEF MInv
<1>5. ASSUME NEW v, RemoveVertex(v) PROVE MInv'
  <2>1. GraphOK /\ NoLoops /\ Mirror
    BY DEF MInv
  <2>2. /\ Vertices' = Vertices \ {v}
        /\ \A x \in Vertices' : \A c : Between(x, c)' = IF c = v THEN <<>> ELSE Between(x, c)
    BY <1>5, <2>1, BetweenRemoveVertex
  <2>3. NoLoops'
    BY <2>1, <2>2 DEF NoLoops
  <2>4. Mirror'
    BY <2>1, <2>2 DEF Mirror, Between
  <2> QED
    BY <1>1, <2>3, <2>4 DEF MInv
<1>6. ASSUME NEW u \in Ids, NEW v \in Ids, NEW w \in Weights, ChangeWeight(u, v, w)
      PROVE  MInv'
  <2>1. GraphOK /\ NoLoops /\ Mirror
    BY DEF MInv
  <2>2. /\ Vertices' = Vertices /\ u # v
        /\ \A x \in Vertices : \A c :
              Between(x, c)' = IF (x = u /\ c = v) \/ (x = v /\ c = u)
                               THEN [Between(x, c) EXCEPT ![1] = w] ELSE Between(x, c)
    BY <1>6, BetweenChangeWeight
  <2>3. NoLoops'
    BY <2>1, <2>2 DEF NoLoops
  <2>4. Mirror'
    <3>1. \A x, y \in Vertices : x # y => Between(x, y) = Between(y, x)
      BY <2>1 DEF Mirror, Between
    <3>2. \A x, y \in Vertices' : x # y => Between(x, y)' = Between(y, x)'
      BY <2>2, <3>1
    <3> QED
      BY <3>2 DEF Mirror, Between
  <2> QED
    BY <1>1, <2>3, <2>4 DEF MInv
<1>7. CASE UNCHANGED vars
  BY <1>1, <1>7 DEF vars, MInv, NoLoops, Between, Mirror, Vertices, WeightsTo
<1>8. \A e \in EdgeInputs : e[1] # e[2]
  BY DEF Loopless
<1> QED
  BY <1>2, <1>3, <1>4, <1>5, <1>6, <1>7, <1>8 DEF Next

LEMMA InitMInv == Init => MInv
BY InitGraphOK DEF Init, MInv, NoLoops, Mirror, Vertices

\* Without loops the two lists of an edge agree: on the weights of the
\* edges between two vertices, and on their order (Graph.cpp:102-128).
THEOREM ListsAgree == ASSUME Loopless PROVE Spec => []Mirror
<1>1. MInv => Mirror
  BY DEF MInv
<1> QED
  BY <1>1, InitMInv, MInvStep, PTL DEF Spec

\* How often x occurs in s.
Count(s, x) == Cardinality({i \in DOMAIN s : s[i] = x})

LEMMA FiniteIndices ==
  ASSUME NEW n \in Nat, NEW S, S \subseteq 1 .. n
  PROVE  IsFiniteSet(S)
<1>1. IsFiniteSet(1 .. n)
  BY FS_Interval
<1> QED
  BY <1>1, FS_Subset

LEMMA CountType ==
  ASSUME NEW T, NEW s \in Seq(T), NEW x
  PROVE  /\ Count(s, x) \in Nat
         /\ \A i \in DOMAIN s : Count(s, s[i]) > 0
<1>1. ASSUME NEW y PROVE IsFiniteSet({i \in DOMAIN s : s[i] = y})
  <2>1. {i \in DOMAIN s : s[i] = y} \subseteq 1 .. Len(s) /\ Len(s) \in Nat
    OBVIOUS
  <2> QED
    BY <2>1, FiniteIndices
<1>2. ASSUME NEW y PROVE Count(s, y) \in Nat
  BY <1>1, FS_CardinalityType DEF Count
<1>3. ASSUME NEW i \in DOMAIN s PROVE Count(s, s[i]) > 0
  <2>1. {k \in DOMAIN s : s[k] = s[i]} # {}
    OBVIOUS
  <2>2. Count(s, s[i]) # 0
    BY <1>1, <2>1, FS_EmptySet DEF Count
  <2> QED
    BY <1>2, <2>2
<1> QED
  BY <1>2, <1>3

LEMMA CountEmpty == ASSUME NEW x PROVE Count(<<>>, x) = 0
<1>1. {i \in DOMAIN <<>> : <<>>[i] = x} = {}
  OBVIOUS
<1> QED
  BY <1>1, FS_EmptySet DEF Count

LEMMA CountAppend ==
  ASSUME NEW T, NEW s \in Seq(T), NEW y \in T, NEW x
  PROVE  Count(Append(s, y), x) = IF x = y THEN Count(s, x) + 1 ELSE Count(s, x)
<1> DEFINE a == Append(s, y)
           S == {i \in DOMAIN s : s[i] = x}
           R == {i \in DOMAIN a : a[i] = x}
<1>1. /\ Len(s) \in Nat /\ DOMAIN s = 1 .. Len(s)
      /\ DOMAIN a = 1 .. Len(s) + 1
      /\ \A i \in 1 .. Len(s) : a[i] = s[i]
      /\ a[Len(s) + 1] = y
  OBVIOUS
<1> HIDE DEF a
<1>2. IsFiniteSet(S)
  <2>1. S \subseteq 1 .. Len(s)
    BY <1>1
  <2> HIDE DEF S
  <2> QED
    BY <1>1, <2>1, FiniteIndices
<1>3. \A i \in 1 .. Len(s) + 1 : i \in 1 .. Len(s) \/ i = Len(s) + 1
  BY <1>1
<1>4. /\ \A i \in 1 .. Len(s) : i \in 1 .. Len(s) + 1
      /\ Len(s) + 1 \in 1 .. Len(s) + 1
      /\ Len(s) + 1 \notin 1 .. Len(s)
  BY <1>1
<1>5. CASE x = y
  <2>1. R = S \cup {Len(s) + 1} /\ Len(s) + 1 \notin S
    BY <1>1, <1>3, <1>4, <1>5
  <2> HIDE DEF R, S
  <2>2. Cardinality(R) = Cardinality(S) + 1
    BY <1>2, <2>1, FS_AddElement
  <2> QED
    BY <1>5, <2>2 DEF Count, a, R, S
<1>6. CASE x # y
  <2>1. R = S
    BY <1>1, <1>3, <1>4, <1>6
  <2> QED
    BY <1>6, <2>1 DEF Count, a
<1> QED
  BY <1>5, <1>6

LEMMA CountChangeFirst ==
  ASSUME NEW T, NEW s \in Seq(T), s # <<>>, NEW y \in T, NEW x
  PROVE  Count([s EXCEPT ![1] = y], x) =
           Count(s, x) - (IF x = s[1] THEN 1 ELSE 0) + (IF x = y THEN 1 ELSE 0)
<1> DEFINE r == [s EXCEPT ![1] = y]
           D == {i \in DOMAIN s \ {1} : s[i] = x}
           S == {i \in DOMAIN s : s[i] = x}
           R == {i \in DOMAIN r : r[i] = x}
<1>1. Len(s) \in Nat /\ Len(s) > 0 /\ DOMAIN s = 1 .. Len(s) /\ 1 \in DOMAIN s
  OBVIOUS
<1>2. IsFiniteSet(D) /\ 1 \notin D
  <2>1. D \subseteq 1 .. Len(s) /\ 1 \notin D
    BY <1>1
  <2> HIDE DEF D
  <2> QED
    BY <1>1, <2>1, FiniteIndices
<1>3. S = (IF x = s[1] THEN D \cup {1} ELSE D)
  BY <1>1
<1>4. DOMAIN r = DOMAIN s /\ \A i \in DOMAIN s : r[i] = IF i = 1 THEN y ELSE s[i]
  BY <1>1
<1>5. R = (IF x = y THEN D \cup {1} ELSE D)
  BY <1>1, <1>4
<1> HIDE DEF D, S, R
<1>6. Cardinality(D \cup {1}) = Cardinality(D) + 1 /\ Cardinality(D) \in Nat
  BY <1>2, FS_AddElement, FS_CardinalityType
<1>7. Cardinality(S) = Cardinality(D) + (IF x = s[1] THEN 1 ELSE 0)
  BY <1>3, <1>6
<1>8. Cardinality(R) = Cardinality(D) + (IF x = y THEN 1 ELSE 0)
  BY <1>5, <1>6
<1>9. Count(s, x) = Cardinality(S) /\ Count([s EXCEPT ![1] = y], x) = Cardinality(R)
  BY DEF Count, S, R
<1> QED
  BY <1>6, <1>7, <1>8, <1>9

\* A half-edge to d occurs in a list as often as its weight among those of
\* the half-edges to d.
LEMMA CountWeights ==
  ASSUME NEW q \in Seq(HalfEdges), NEW d \in Ids, NEW w \in Weights
  PROVE  Count(q, HalfEdge(d, w)) = Count(WeightsTo(q, d), w)
<1> DEFINE x == HalfEdge(d, w)
           P == {s \in Seq(HalfEdges) : Count(s, x) = Count(WeightsTo(s, d), w)}
<1>1. <<>> \in P
  BY EmptySeq, CountEmpty, WeightsToEmpty
<1>2. ASSUME NEW s \in Seq(HalfEdges), NEW e \in HalfEdges, s \in P
      PROVE  Append(s, e) \in P
  <2>1. Append(s, e) \in Seq(HalfEdges) /\ Count(s, x) = Count(WeightsTo(s, d), w)
    BY <1>2, AppendProperties
  <2>2. Count(Append(s, e), x) = IF x = e THEN Count(s, x) + 1 ELSE Count(s, x)
    BY CountAppend
  <2>3. WeightsTo(Append(s, e), d) =
           IF e.destination = d THEN Append(WeightsTo(s, d), e.weight)
           ELSE WeightsTo(s, d)
    BY WeightsToAppend
  <2>4. e.weight \in Weights /\ (x = e <=> e.destination = d /\ w = e.weight)
    BY DEF HalfEdges, HalfEdge
  <2>5. Count(Append(WeightsTo(s, d), e.weight), w) =
          IF w = e.weight THEN Count(WeightsTo(s, d), w) + 1 ELSE Count(WeightsTo(s, d), w)
    BY <2>4, WeightsToType, CountAppend
  <2> HIDE DEF x
  <2> QED
    BY <2>1, <2>2, <2>3, <2>4, <2>5
<1> HIDE DEF P
<1>3. Seq(HalfEdges) \subseteq P
  BY <1>1, <1>2, SeqInduction
<1> QED
  BY <1>3 DEF P

-----------------------------------------------------------------------------
Kind(a, b, w) == [ends |-> {a, b}, weight |-> w]

\* The edges between a and b of weight w, when there are no loops.
Many(a, b, w) ==
  IF a # b /\ {a, b} \subseteq Vertices THEN Count(Between(a, b), w) ELSE 0

LEMMA KindsAre ==
  /\ \A k \in Kinds : \E a, b \in Ids, w \in Weights : k = Kind(a, b, w)
  /\ \A a, b \in Ids, w \in Weights : Kind(a, b, w) \in Kinds
<1>1. ASSUME NEW k \in Kinds PROVE \E a, b \in Ids, w \in Weights : k = Kind(a, b, w)
  <2>1. PICK a \in Ids, b \in Ids : k.ends = {a, b}
    BY DEF Kinds
  <2>2. k.weight \in Weights /\ k = [ends |-> k.ends, weight |-> k.weight]
    BY DEF Kinds
  <2>3. k = Kind(a, b, k.weight)
    BY <2>1, <2>2 DEF Kind
  <2> QED
    BY <2>2, <2>3
<1>2. ASSUME NEW a \in Ids, NEW b \in Ids, NEW w \in Weights PROVE Kind(a, b, w) \in Kinds
  BY DEF Kind, Kinds
<1> QED
  BY <1>1, <1>2

\* No half-edge leads out of the graph.
LEMMA BetweenOutside ==
  ASSUME GraphOK, NEW x \in Vertices, NEW n, n \notin Vertices
  PROVE  Between(x, n) = <<>>
<1> DEFINE q == adjacencyList[x]
<1>1. q \in Seq(Into(Vertices))
  BY DEF GraphOK
<1>2. Into(Vertices) \subseteq {e \in HalfEdges : e.destination # n}
  BY VerticesAreIds DEF Into, HalfEdges
<1> HIDE DEF q
<1>3. q \in Seq({e \in HalfEdges : e.destination # n})
  BY <1>1, <1>2, SeqMonotonic
<1>4. WeightsTo(q, n) = <<>>
  BY <1>3, WeightsToNone
<1> QED
  BY <1>4 DEF q, Between

LEMMA CountToIs ==
  ASSUME GraphOK, NEW a \in Ids, NEW b \in Ids, NEW w \in Weights
  PROVE  CountTo(a, b, w) = IF a \in Vertices THEN Count(Between(a, b), w) ELSE 0
<1>1. CASE a \in Vertices
  <2>1. adjacencyList[a] \in Seq(HalfEdges)
    BY <1>1, ListType
  <2>2. Count(adjacencyList[a], HalfEdge(b, w)) = Count(WeightsTo(adjacencyList[a], b), w)
    BY <2>1, CountWeights
  <2> QED
    BY <1>1, <2>2 DEF CountTo, Count, Between
<1>2. CASE a \notin Vertices
  BY <1>2 DEF CountTo
<1> QED
  BY <1>1, <1>2

LEMMA ManySymmetric ==
  ASSUME MInv, NEW a, NEW b, NEW w
  PROVE  Many(a, b, w) = Many(b, a, w)
BY DEF MInv, Many, Mirror, Between

LEMMA MultiplicityIsMany ==
  ASSUME MInv, NEW a \in Ids, NEW b \in Ids, NEW w \in Weights
  PROVE  Multiplicity(Kind(a, b, w)) = Many(a, b, w)
<1>1. \A i \in Ids : i \in Int
  BY InputsAssumption DEF Ids
<1>2. GraphOK /\ NoLoops
  BY DEF MInv
<1>3. ASSUME NEW c \in Ids, NEW d \in Ids, c <= d, NEW k, k = Kind(c, d, w)
      PROVE  Multiplicity(k) = Many(c, d, w)
  <2>1. k.ends = {c, d} /\ k.weight = w
    BY <1>3 DEF Kind
  <2>2. (CHOOSE x \in k.ends : \A y \in k.ends : x <= y) = c
    BY <1>1, <1>3, <2>1
  <2>3. (CHOOSE x \in k.ends : \A y \in k.ends : x >= y) = d
    BY <1>1, <1>3, <2>1
  <2>4. Multiplicity(k) = IF c = d THEN CountTo(c, c, w) \div 2 ELSE CountTo(c, d, w)
    <3> DEFINE lo == CHOOSE x \in k.ends : \A y \in k.ends : x <= y
               hi == CHOOSE x \in k.ends : \A y \in k.ends : x >= y
    <3>1. Multiplicity(k) = IF lo = hi THEN CountTo(lo, lo, k.weight) \div 2
                            ELSE CountTo(lo, hi, k.weight)
      BY DEF Multiplicity
    <3> HIDE DEF lo, hi
    <3>2. lo = c /\ hi = d
      BY <2>2, <2>3 DEF lo, hi
    <3> QED
      BY <2>1, <3>1, <3>2
  <2>5. CASE c = d
    <3>1. CountTo(c, c, w) = 0
      BY <1>2, CountToIs, CountEmpty DEF NoLoops
    <3> QED
      BY <2>4, <2>5, <3>1 DEF Many
  <2>6. CASE c # d
    <3>1. c \in Vertices /\ d \notin Vertices => CountTo(c, d, w) = 0
      BY <1>2, CountToIs, CountEmpty, BetweenOutside
    <3> QED
      BY <1>2, <2>4, <2>6, <3>1, CountToIs DEF Many
  <2> QED
    BY <2>5, <2>6
<1>4. Kind(a, b, w) = Kind(b, a, w)
  BY DEF Kind
<1>5. CASE a <= b
  BY <1>3, <1>5
<1>6. CASE b <= a
  BY <1>3, <1>4, <1>6, ManySymmetric
<1> QED
  BY <1>1, <1>5, <1>6

\* The edges as UndirectedMultigraph sees them.
EdgeCounts == [k \in Kinds |-> Multiplicity(k)]

EdgesAreMany ==
  /\ DOMAIN EdgeCounts = Kinds
  /\ \A a, b \in Ids, w \in Weights : EdgeCounts[Kind(a, b, w)] = Many(a, b, w)

LEMMA CountsOfMInv == MInv => EdgesAreMany
BY MultiplicityIsMany, KindsAre DEF EdgeCounts, EdgesAreMany

LEMMA CountsOfMInvNext == ASSUME MInv' PROVE EdgesAreMany'
BY CountsOfMInv, PTL

\* The maps of edges that agree for every kind are the same.
LEMMA SameEdges ==
  ASSUME NEW f, DOMAIN f = Kinds, f = [k \in DOMAIN f |-> f[k]],
         NEW g, DOMAIN g = Kinds, g = [k \in DOMAIN g |-> g[k]],
         \A a, b \in Ids, w \in Weights : f[Kind(a, b, w)] = g[Kind(a, b, w)]
  PROVE  f = g
<1>1. \A k \in Kinds : f[k] = g[k]
  BY KindsAre
<1> QED
  BY <1>1

LEMMA SameKinds == Abstract!Kinds = Kinds
BY DEF Abstract!Kinds, Abstract!Ends, Kinds

LEMMA InitRefines == Init => Abstract!Init
<1> SUFFICES ASSUME Init PROVE Abstract!Init
  OBVIOUS
<1>1. Vertices = {} /\ MInv
  BY InitMInv DEF Init, Vertices
<1>2. \A a, b \in Ids, w \in Weights : EdgeCounts[Kind(a, b, w)] = 0
  BY <1>1, CountsOfMInv DEF EdgesAreMany, Many
<1>3. EdgeCounts = [k \in Kinds |-> 0]
  <2>1. ASSUME NEW k \in Kinds PROVE EdgeCounts[k] = 0
    <3>1. PICK a \in Ids, b \in Ids, w \in Weights : k = Kind(a, b, w)
      BY KindsAre
    <3> QED
      BY <1>2, <3>1
  <2> QED
    BY <2>1 DEF EdgeCounts
<1> QED
  BY <1>1, <1>3, SameKinds DEF Abstract!Init, EdgeCounts

LEMMA StepRefines ==
  ASSUME Loopless, MInv, MInv', [Next]_vars
  PROVE  [Abstract!Next]_(Abstract!gvars)
<1>1. GraphOK /\ EdgesAreMany /\ EdgesAreMany'
  BY CountsOfMInv, CountsOfMInvNext DEF MInv
<1>2. Vertices \subseteq Ids
  BY <1>1, VerticesAreIds
<1>3. /\ DOMAIN EdgeCounts = Kinds /\ DOMAIN EdgeCounts' = Kinds
      /\ EdgeCounts = [k \in DOMAIN EdgeCounts |-> EdgeCounts[k]]
      /\ EdgeCounts' = [k \in DOMAIN EdgeCounts' |-> EdgeCounts'[k]]
      /\ \A a, b \in Ids, w \in Weights : EdgeCounts[Kind(a, b, w)] = Many(a, b, w)
      /\ \A a, b \in Ids, w \in Weights : EdgeCounts'[Kind(a, b, w)] = Many(a, b, w)'
  BY <1>1 DEF EdgesAreMany, EdgeCounts
<1>4. CASE AddVertex
  <2> DEFINE n == nextVertexId
  <2>1. /\ n \notin Vertices /\ n \in Ids
        /\ Vertices' = Vertices \cup {n}
        /\ \A x \in Vertices' : \A c : Between(x, c)' = IF x = n THEN <<>> ELSE Between(x, c)
    BY <1>1, <1>4, BetweenAddVertex
  <2>2. \A x \in Vertices : Between(x, n) = <<>>
    BY <1>1, <2>1, BetweenOutside
  <2> HIDE DEF n
  <2>3. ASSUME NEW a \in Ids, NEW b \in Ids, NEW w \in Weights
        PROVE  Many(a, b, w)' = Many(a, b, w)
    <3>1. Many(a, b, w)' = IF a # b /\ {a, b} \subseteq Vertices' THEN Count(Between(a, b)', w) ELSE 0
      BY DEF Many, Count
    <3>2. CASE a = n \/ b = n
      BY <2>1, <2>2, <3>1, <3>2, CountEmpty DEF Many
    <3>3. CASE a # n /\ b # n
      BY <2>1, <3>1, <3>3 DEF Many
    <3> QED
      BY <3>2, <3>3
  <2>4. EdgeCounts' = EdgeCounts
    BY <1>3, <2>3, SameEdges
  <2>5. Abstract!AddVertex(n)
    BY <2>1, <2>4 DEF Abstract!AddVertex, EdgeCounts
  <2> QED
    BY <2>1, <2>5 DEF Abstract!Next
<1>5. ASSUME NEW u \in Ids, NEW v \in Ids, NEW w \in Weights, u # v, AddEdge(u, v, w)
      PROVE  Abstract!AddEdge(u, v, w)
  <2>1. /\ Vertices' = Vertices /\ u \in Vertices /\ v \in Vertices
        /\ \A x \in Vertices : \A c :
              Between(x, c)' = IF (x = u /\ c = v) \/ (x = v /\ c = u)
                               THEN Append(Between(x, c), w) ELSE Between(x, c)
    BY <1>1, <1>5, BetweenAddEdge
  <2>2. ASSUME NEW a \in Ids, NEW b \in Ids, NEW x \in Weights
        PROVE  Many(a, b, x)' = IF Kind(a, b, x) = Kind(u, v, w)
                                THEN Many(a, b, x) + 1 ELSE Many(a, b, x)
    <3>1. Many(a, b, x)' = IF a # b /\ {a, b} \subseteq Vertices THEN Count(Between(a, b)', x) ELSE 0
      BY <2>1 DEF Many, Count
    <3>2. Kind(a, b, x) = Kind(u, v, w) <=>
            ((a = u /\ b = v) \/ (a = v /\ b = u)) /\ x = w
      <4>1. {a, b} = {u, v} <=> ((a = u /\ b = v) \/ (a = v /\ b = u))
        OBVIOUS
      <4> QED
        BY <4>1 DEF Kind
    <3>3. ASSUME a \in Vertices
          PROVE  Count(Append(Between(a, b), w), x) =
                   IF x = w THEN Count(Between(a, b), x) + 1 ELSE Count(Between(a, b), x)
      BY <1>1, <3>3, BetweenType, CountAppend
    <3> QED
      BY <1>5, <2>1, <3>1, <3>2, <3>3 DEF Many
  <2> DEFINE k == Kind(u, v, w)
             g == [EdgeCounts EXCEPT ![k] = @ + 1]
  <2>3. k \in Kinds
    BY KindsAre
  <2> HIDE DEF k
  <2>4. /\ DOMAIN g = Kinds /\ g = [x \in DOMAIN g |-> g[x]]
        /\ \A x \in Kinds : g[x] = IF x = k THEN EdgeCounts[x] + 1 ELSE EdgeCounts[x]
    BY <1>3, <2>3
  <2> HIDE DEF g
  <2>5. ASSUME NEW a \in Ids, NEW b \in Ids, NEW x \in Weights
        PROVE  EdgeCounts'[Kind(a, b, x)] = g[Kind(a, b, x)]
    <3> DEFINE y == Kind(a, b, x)
    <3>1. y \in Kinds /\ EdgeCounts[y] = Many(a, b, x) /\ EdgeCounts'[y] = Many(a, b, x)'
      BY <1>3, KindsAre
    <3>2. Many(a, b, x)' = IF y = k THEN Many(a, b, x) + 1 ELSE Many(a, b, x)
      BY <2>2 DEF k
    <3> HIDE DEF y
    <3>3. g[y] = IF y = k THEN EdgeCounts[y] + 1 ELSE EdgeCounts[y]
      BY <2>4, <3>1
    <3>4. EdgeCounts'[y] = g[y]
      BY <3>1, <3>2, <3>3
    <3> QED
      BY <3>4 DEF y
  <2>6. EdgeCounts' = g
    BY <1>3, <2>4, <2>5, SameEdges
  <2> QED
    BY <2>1, <2>6 DEF Abstract!AddEdge, EdgeCounts, g, k, Kind
<1>6. ASSUME NEW u \in Ids, NEW v \in Ids, RemoveEdge(u, v)
      PROVE  Abstract!RemoveEdge(u, v)
  <2>1. /\ Vertices' = Vertices /\ u \in Vertices /\ v \in Vertices
        /\ \A x \in Vertices : \A c :
              Between(x, c)' = IF (x = u /\ c = v) \/ (x = v /\ c = u)
                               THEN <<>> ELSE Between(x, c)
    BY <1>6, BetweenRemoveEdge
  <2> DEFINE g == [k \in Kinds |-> IF k.ends = {u, v} THEN 0 ELSE EdgeCounts[k]]
  <2>2. ASSUME NEW a \in Ids, NEW b \in Ids, NEW x \in Weights
        PROVE  EdgeCounts'[Kind(a, b, x)] = g[Kind(a, b, x)]
    <3>1. Many(a, b, x)' = IF a # b /\ {a, b} \subseteq Vertices THEN Count(Between(a, b)', x) ELSE 0
      BY <2>1 DEF Many, Count
    <3>2. {a, b} = {u, v} <=> ((a = u /\ b = v) \/ (a = v /\ b = u))
      OBVIOUS
    <3>3. Kind(a, b, x) \in Kinds /\ Kind(a, b, x).ends = {a, b}
      BY KindsAre DEF Kind
    <3>4. Many(a, b, x)' = IF {a, b} = {u, v} THEN 0 ELSE Many(a, b, x)
      BY <2>1, <3>1, <3>2, CountEmpty DEF Many
    <3> QED
      BY <1>3, <3>3, <3>4
  <2>3. EdgeCounts' = g
    <3>1. DOMAIN g = Kinds /\ g = [x \in DOMAIN g |-> g[x]]
      OBVIOUS
    <3> HIDE DEF g
    <3> QED
      BY <1>3, <2>2, <3>1, SameEdges
  <2> QED
    BY <2>1, <2>3, SameKinds DEF Abstract!RemoveEdge, EdgeCounts
<1>7. ASSUME NEW v \in Ids, RemoveVertex(v) PROVE Abstract!RemoveVertex(v)
  <2>1. /\ Vertices' = Vertices \ {v} /\ v \in Vertices
        /\ \A x \in Vertices' : \A c : Between(x, c)' = IF c = v THEN <<>> ELSE Between(x, c)
    BY <1>1, <1>7, BetweenRemoveVertex
  <2> DEFINE g == [k \in Kinds |-> IF v \in k.ends THEN 0 ELSE EdgeCounts[k]]
  <2>2. ASSUME NEW a \in Ids, NEW b \in Ids, NEW x \in Weights
        PROVE  EdgeCounts'[Kind(a, b, x)] = g[Kind(a, b, x)]
    <3>1. Many(a, b, x)' = IF a # b /\ {a, b} \subseteq Vertices' THEN Count(Between(a, b)', x) ELSE 0
      BY DEF Many, Count
    <3>2. Kind(a, b, x) \in Kinds /\ Kind(a, b, x).ends = {a, b}
      BY KindsAre DEF Kind
    <3>3. Many(a, b, x)' = IF v \in {a, b} THEN 0 ELSE Many(a, b, x)
      BY <2>1, <3>1 DEF Many
    <3> QED
      BY <1>3, <3>2, <3>3
  <2>3. EdgeCounts' = g
    <3>1. DOMAIN g = Kinds /\ g = [x \in DOMAIN g |-> g[x]]
      OBVIOUS
    <3> HIDE DEF g
    <3> QED
      BY <1>3, <2>2, <3>1, SameEdges
  <2> QED
    BY <2>1, <2>3, SameKinds DEF Abstract!RemoveVertex, EdgeCounts
<1>8. ASSUME NEW u \in Ids, NEW v \in Ids, NEW w \in Weights, ChangeWeight(u, v, w)
      PROVE  \/ \E old \in Weights : Abstract!ChangeWeight(u, v, old, w)
             \/ UNCHANGED Abstract!gvars
  <2> DEFINE s == Between(u, v)
             old == s[1]
             f == EdgeCounts
             ko == Kind(u, v, old)
             kw == Kind(u, v, w)
             g == [f EXCEPT ![ko] = @ - 1, ![kw] = @ + 1]
  <2>1. /\ Vertices' = Vertices /\ u \in Vertices /\ v \in Vertices /\ u # v
        /\ s # <<>>
        /\ \A x \in Vertices : \A c :
              Between(x, c)' = IF (x = u /\ c = v) \/ (x = v /\ c = u)
                               THEN [Between(x, c) EXCEPT ![1] = w] ELSE Between(x, c)
    BY <1>8, BetweenChangeWeight
  <2>2. s \in Seq(Weights) /\ Between(v, u) = s
    <3>1. Mirror
      BY DEF MInv
    <3> QED
      BY <1>1, <2>1, <3>1, BetweenType DEF Mirror, Between
  <2>3. old \in Weights /\ Count(s, old) > 0
    <3> HIDE DEF s
    <3>1. 1 \in DOMAIN s
      BY <2>1, <2>2
    <3> QED
      BY <2>2, <3>1, CountType
  <2>4. ASSUME NEW a \in Ids, NEW b \in Ids, NEW x \in Weights
        PROVE  /\ (Kind(a, b, x) = ko \/ Kind(a, b, x) = kw) => {a, b} = {u, v}
               /\ {a, b} = {u, v} =>
                    /\ Kind(a, b, x) = ko <=> x = old
                    /\ Kind(a, b, x) = kw <=> x = w
                    /\ Many(a, b, x) = Count(s, x)
                    /\ Many(a, b, x)' = Count(s, x) - (IF x = old THEN 1 ELSE 0)
                                         + (IF x = w THEN 1 ELSE 0)
               /\ {a, b} # {u, v} => Many(a, b, x)' = Many(a, b, x)
    <3>1. Many(a, b, x)' = IF a # b /\ {a, b} \subseteq Vertices THEN Count(Between(a, b)', x) ELSE 0
      BY <2>1 DEF Many, Count
    <3>2. {a, b} = {u, v} <=> ((a = u /\ b = v) \/ (a = v /\ b = u))
      OBVIOUS
    <3>3. Count([s EXCEPT ![1] = w], x) =
            Count(s, x) - (IF x = old THEN 1 ELSE 0) + (IF x = w THEN 1 ELSE 0)
      <4> HIDE DEF s
      <4> QED
        BY <2>1, <2>2, CountChangeFirst
    <3>4. (Kind(a, b, x) = ko <=> {a, b} = {u, v} /\ x = old)
          /\ (Kind(a, b, x) = kw <=> {a, b} = {u, v} /\ x = w)
      BY DEF Kind
    <3>5. CASE {a, b} = {u, v}
      <4>1. /\ a # b /\ {a, b} \subseteq Vertices
            /\ Between(a, b) = s
            /\ Between(a, b)' = [Between(a, b) EXCEPT ![1] = w]
        BY <2>1, <2>2, <3>2, <3>5
      <4>2. /\ Many(a, b, x) = Count(s, x)
            /\ Many(a, b, x)' = Count([s EXCEPT ![1] = w], x)
        <5> HIDE DEF s
        <5> QED
          BY <3>1, <4>1 DEF Many
      <4> QED
        BY <3>3, <3>4, <3>5, <4>2
    <3>6. CASE {a, b} # {u, v}
      BY <2>1, <3>1, <3>2, <3>4, <3>6 DEF Many
    <3> QED
      BY <3>5, <3>6
  <2>5. ko \in Kinds /\ kw \in Kinds
    BY <2>3, KindsAre
  <2>6. CASE old = w
    <3>1. ASSUME NEW a \in Ids, NEW b \in Ids, NEW x \in Weights
          PROVE  EdgeCounts'[Kind(a, b, x)] = f[Kind(a, b, x)]
      <4>1. Count(s, x) \in Nat
        BY <2>2, CountType
      <4> HIDE DEF s, old, ko, kw
      <4> QED
        BY <1>3, <2>4, <2>6, <4>1
    <3>2. EdgeCounts' = EdgeCounts
      BY <1>3, <3>1, SameEdges
    <3> QED
      BY <2>1, <3>2 DEF Abstract!gvars, EdgeCounts
  <2>7. CASE old # w
    <3> HIDE DEF s, old, f
    <3>1. ko # kw
      BY <2>7 DEF Kind
    <3> HIDE DEF ko, kw
    <3>2. /\ DOMAIN g = Kinds /\ g = [x \in DOMAIN g |-> g[x]]
          /\ \A x \in Kinds : g[x] = IF x = ko THEN f[x] - 1
                                     ELSE IF x = kw THEN f[x] + 1 ELSE f[x]
      BY <1>3, <2>5, <3>1 DEF f
    <3> HIDE DEF g
    <3>3. ASSUME NEW a \in Ids, NEW b \in Ids, NEW x \in Weights
          PROVE  EdgeCounts'[Kind(a, b, x)] = g[Kind(a, b, x)]
      <4>1. Count(s, x) \in Nat
        BY <2>2, CountType
      <4>2. f[Kind(a, b, x)] = Many(a, b, x) /\ Kind(a, b, x) \in Kinds
        BY <1>3, KindsAre DEF f
      <4> DEFINE y == Kind(a, b, x)
      <4>3. EdgeCounts'[y] = Many(a, b, x)'
        BY <1>3
      <4>4. g[y] = IF y = ko THEN f[y] - 1 ELSE IF y = kw THEN f[y] + 1 ELSE f[y]
        BY <3>2, <4>2
      <4> HIDE DEF y
      <4>5. CASE {a, b} = {u, v}
        <5>1. /\ y = ko <=> x = old
              /\ y = kw <=> x = w
              /\ f[y] = Count(s, x)
              /\ EdgeCounts'[y] = Count(s, x) - (IF x = old THEN 1 ELSE 0)
                                   + (IF x = w THEN 1 ELSE 0)
          BY <2>4, <4>2, <4>3, <4>5 DEF y
        <5>2. EdgeCounts'[y] = g[y]
          BY <2>7, <4>1, <4>4, <5>1
        <5> QED
          BY <5>2 DEF y
      <4>6. CASE {a, b} # {u, v}
        <5>1. y # ko /\ y # kw /\ EdgeCounts'[y] = f[y]
          BY <2>4, <4>2, <4>3, <4>6 DEF y
        <5>2. EdgeCounts'[y] = g[y]
          BY <4>4, <5>1
        <5> QED
          BY <5>2 DEF y
      <4> QED
        BY <4>5, <4>6
    <3>4. EdgeCounts' = g
      BY <1>3, <3>2, <3>3, SameEdges
    <3>5. f[ko] > 0
      <4>1. f[ko] = Many(u, v, old)
        BY <1>3, <2>3 DEF f, ko
      <4>2. Many(u, v, old) = Count(s, old)
        BY <2>3, <2>4
      <4> QED
        BY <2>3, <4>1, <4>2
    <3>6. Abstract!ChangeWeight(u, v, old, w)
      BY <2>1, <2>7, <3>4, <3>5 DEF Abstract!ChangeWeight, EdgeCounts, f, g, ko, kw, Kind
    <3> QED
      BY <2>3, <3>6
  <2> QED
    BY <2>6, <2>7
<1>9. CASE UNCHANGED vars
  BY <1>9 DEF vars, Abstract!gvars, Vertices, Multiplicity, CountTo
<1>10. \A e \in EdgeInputs : e[1] \in Ids /\ e[2] \in Ids /\ e[1] # e[2]
  BY InputsAssumption DEF Loopless
<1> QED
  BY <1>4, <1>5, <1>6, <1>7, <1>8, <1>9, <1>10 DEF Next, Abstract!Next

\* Without loops every operation does to the lists what it does to an
\* undirected multigraph: it adds or removes both halves of an edge, or
\* neither.
THEOREM RefinesMultigraph == ASSUME Loopless PROVE Spec => ImplementsMultigraph
<1>1. Loopless
  OBVIOUS
<1>2. MInv /\ MInv' /\ [Next]_vars => [Abstract!Next]_(Abstract!gvars)
  BY <1>1, StepRefines
<1>3. MInv /\ [Next]_vars => MInv'
  BY <1>1, MInvStep
<1> QED
  BY <1>2, <1>3, InitMInv, InitRefines, PTL DEF Spec, ImplementsMultigraph, Abstract!Spec

LEMMA FiniteVertices == ASSUME GraphOK PROVE IsFiniteSet(Vertices)
<1>1. IsFiniteSet(0 .. nextVertexId - 1)
  BY FS_Interval DEF GraphOK
<1> QED
  BY <1>1, FS_Subset DEF GraphOK

Lengths == [v \in Vertices |-> Len(adjacencyList[v])]

LEMMA EntriesIsSum ==
  ASSUME GraphOK
  PROVE  IntOn(Lengths, Vertices) /\ Entries = SumOver(Lengths, Vertices)
<1> DEFINE S == Vertices
           Is(it) == it = [s \in SUBSET S |-> IF s = {} THEN 0
                           ELSE Len(adjacencyList[CHOOSE x \in s : TRUE])
                                  + it[s \ {CHOOSE x \in s : TRUE}]]
           c == CHOOSE it : Is(it)
<1>1. IsFiniteSet(S) /\ IntOn(Lengths, S)
  BY FiniteVertices, ListType DEF IntOn, Lengths
<1>2. Entries = c[S]
  BY DEF Entries, FoldFunction, FoldFunctionOnSet, MapThenFoldSet, Vertices
<1> HIDE DEF S
<1>3. ASSUME NEW it PROVE Is(it) <=> SumIter(it, Lengths, S)
  <2>1. \A s \in SUBSET S : s # {} =>
          Lengths[CHOOSE x \in s : TRUE] = Len(adjacencyList[CHOOSE x \in s : TRUE])
    BY DEF Lengths, S
  <2> QED
    BY <2>1 DEF SumIter
<1>4. SumIter(c, Lengths, S)
  <2> HIDE DEF Is, S
  <2>1. \E it : SumIter(it, Lengths, S)
    BY <1>1, SumIterExists
  <2>2. \E it : Is(it)
    BY <1>3, <2>1
  <2> QED
    BY <1>3, <2>2
<1> HIDE DEF c
<1>5. c[S] = SumOver(Lengths, S)
  BY <1>1, <1>4, ChosenSum
<1> QED
  BY <1>1, <1>2, <1>5 DEF S

LEMMA FiniteKinds == ASSUME IsFiniteSet(Weights) PROVE IsFiniteSet(Kinds)
<1> DEFINE T == (Ids \X Ids) \X Weights
           f == [t \in T |-> Kind(t[1][1], t[1][2], t[2])]
<1>1. IsFiniteSet(Ids)
  BY InputsAssumption, FS_Interval DEF Ids
<1>2. IsFiniteSet(T)
  <2>1. IsFiniteSet(Ids \X Ids)
    BY <1>1, FS_Product
  <2> QED
    BY <2>1, FS_Product
<1>3. ASSUME NEW k \in Kinds PROVE \E t \in T : f[t] = k
  <2>1. PICK a \in Ids, b \in Ids, w \in Weights : k = Kind(a, b, w)
    BY KindsAre
  <2>2. <<<<a, b>>, w>> \in T /\ f[<<<<a, b>>, w>>] = k
    BY <2>1
  <2> QED
    BY <2>2
<1>4. ASSUME NEW t \in T PROVE f[t] \in Kinds
  BY KindsAre
<1>5. f \in Surjection(T, Kinds)
  BY <1>3, <1>4 DEF Surjection
<1> HIDE DEF f, T
<1> QED
  BY <1>2, <1>5, FS_Surjection

LEMMA FoldIsSum ==
  ASSUME MInv, IsFiniteSet(Weights)
  PROVE  /\ IntOn(EdgeCounts, Kinds)
         /\ FoldSet(LAMBDA k, n : Multiplicity(k) + n, 0, Kinds) = SumOver(EdgeCounts, Kinds)
<1> DEFINE S == Kinds
           Is(it) == it = [s \in SUBSET S |-> IF s = {} THEN 0
                           ELSE Multiplicity(CHOOSE x \in s : TRUE)
                                  + it[s \ {CHOOSE x \in s : TRUE}]]
           c == CHOOSE it : Is(it)
<1>1. IsFiniteSet(S) /\ IntOn(EdgeCounts, S)
  <2>1. ASSUME NEW a \in Ids, NEW b \in Ids, NEW w \in Weights PROVE Many(a, b, w) \in Int
    BY BetweenType, CountType DEF MInv, Many
  <2>2. ASSUME NEW k \in Kinds PROVE EdgeCounts[k] \in Int
    <3>1. PICK a \in Ids, b \in Ids, w \in Weights : k = Kind(a, b, w)
      BY KindsAre
    <3> QED
      BY <2>1, <3>1, CountsOfMInv DEF EdgesAreMany
  <2> QED
    BY <2>2, FiniteKinds DEF IntOn
<1>2. FoldSet(LAMBDA k, n : Multiplicity(k) + n, 0, Kinds) = c[S]
  BY DEF FoldSet, MapThenFoldSet
<1>3. ASSUME NEW it PROVE Is(it) <=> SumIter(it, EdgeCounts, S)
  <2>1. \A s \in SUBSET S : s # {} =>
          EdgeCounts[CHOOSE x \in s : TRUE] = Multiplicity(CHOOSE x \in s : TRUE)
    BY DEF EdgeCounts
  <2> HIDE DEF S
  <2> QED
    BY <2>1 DEF SumIter
<1>4. SumIter(c, EdgeCounts, S)
  <2> HIDE DEF Is, S
  <2>1. \E it : SumIter(it, EdgeCounts, S)
    BY <1>1, SumIterExists
  <2>2. \E it : Is(it)
    BY <1>3, <2>1
  <2> QED
    BY <1>3, <2>2
<1> HIDE DEF c
<1>5. c[S] = SumOver(EdgeCounts, S)
  BY <1>1, <1>4, ChosenSum
<1> QED
  BY <1>1, <1>2, <1>5

\* The half-edges: which list they are in, and where.
Places == {p \in Vertices \X Nat : p[2] \in DOMAIN adjacencyList[p[1]]}
At(p) == adjacencyList[p[1]][p[2]]
Low == {p \in Places : p[1] < At(p).destination}
High == {p \in Places : p[1] > At(p).destination}
KindAt(p) == Kind(p[1], At(p).destination, At(p).weight)

LEMMA AtPlace ==
  ASSUME GraphOK, NEW p \in Places
  PROVE  /\ p[1] \in Vertices /\ p[1] \in Ids
         /\ At(p) \in HalfEdges
         /\ At(p).destination \in Ids /\ At(p).weight \in Weights
         /\ At(p) = HalfEdge(At(p).destination, At(p).weight)
<1>1. p[1] \in Vertices /\ p[2] \in DOMAIN adjacencyList[p[1]] /\ p[1] \in Ids
  BY VerticesAreIds DEF Places
<1>2. adjacencyList[p[1]] \in Seq(HalfEdges)
  BY <1>1, ListType
<1>3. At(p) \in HalfEdges
  BY <1>1, <1>2 DEF At
<1> HIDE DEF At
<1> QED
  BY <1>1, <1>3 DEF HalfEdges, HalfEdge

LEMMA PlacesCounted ==
  ASSUME GraphOK
  PROVE  IsFiniteSet(Places) /\ Entries = Cardinality(Places)
<1> DEFINE Fiber(v) == {v} \X DOMAIN adjacencyList[v]
           F == {Fiber(v) : v \in Vertices}
           h == [v \in Vertices |-> Fiber(v)]
           f == [p \in Places |-> p[1]]
<1>1. ASSUME NEW v \in Vertices
      PROVE  /\ IsFiniteSet(Fiber(v)) /\ Cardinality(Fiber(v)) = Len(adjacencyList[v])
             /\ Fiber(v) = {p \in Places : p[1] = v}
  <2> DEFINE D == DOMAIN adjacencyList[v]
  <2>1. D = 1 .. Len(adjacencyList[v]) /\ Len(adjacencyList[v]) \in Nat
    BY ListType
  <2>2. IsFiniteSet(D) /\ Cardinality(D) = Len(adjacencyList[v])
    <3> DEFINE n == Len(adjacencyList[v])
    <3>1. n \in Nat /\ D = 1 .. n
      BY <2>1
    <3> HIDE DEF n, D
    <3>2. IsFiniteSet(1 .. n) /\ Cardinality(1 .. n) = IF 1 > n THEN 0 ELSE n - 1 + 1
      BY <3>1, FS_Interval
    <3>3. Cardinality(1 .. n) = n
      BY <3>1, <3>2
    <3> QED
      BY <3>1, <3>2, <3>3 DEF n
  <2>3. Fiber(v) = {p \in Places : p[1] = v}
    BY <2>1 DEF Places
  <2> HIDE DEF D
  <2>4. IsFiniteSet({v}) /\ Cardinality({v}) = 1
    BY FS_Singleton
  <2>5. IsFiniteSet({v} \X D) /\ Cardinality({v} \X D) = Cardinality({v}) * Cardinality(D)
    BY <2>2, <2>4, FS_Product
  <2> QED
    BY <2>1, <2>2, <2>3, <2>4, <2>5 DEF D
<1>2. IsFiniteSet(F)
  <2>1. h \in Surjection(Vertices, F)
    BY DEF Surjection
  <2> HIDE DEF h, F
  <2> QED
    BY <2>1, FiniteVertices, FS_Surjection
<1>3. Places = UNION F
  <2>1. ASSUME NEW p \in Places PROVE \E v \in Vertices : p \in Fiber(v)
    <3>1. p[1] \in Vertices
      BY DEF Places
    <3> HIDE DEF Fiber
    <3> QED
      BY <1>1, <3>1
  <2>2. ASSUME NEW v \in Vertices PROVE Fiber(v) \subseteq Places
    <3> HIDE DEF Fiber
    <3> QED
      BY <1>1
  <2> HIDE DEF Fiber
  <2> QED
    BY <2>1, <2>2
<1>4. IsFiniteSet(Places)
  <2>1. \A T \in F : IsFiniteSet(T)
    BY <1>1
  <2> HIDE DEF F
  <2> QED
    BY <1>2, <1>3, <2>1, FS_UNION
<1>5. \A p \in Places : f[p] \in Vertices
  BY DEF Places
<1>6. ASSUME NEW v \in Vertices
      PROVE  Lengths[v] = Cardinality({p \in Places : f[p] = v})
  <2>1. {p \in Places : f[p] = v} = Fiber(v)
    BY <1>1
  <2> HIDE DEF Fiber
  <2> QED
    BY <1>1, <2>1 DEF Lengths
<1>7. SumOver(Lengths, Vertices) = Cardinality(Places)
  <2>1. \A v \in Vertices : Lengths[v] = Cardinality({p \in Places : f[p] = v})
    BY <1>6
  <2>2. IsFiniteSet(Vertices)
    BY FiniteVertices
  <2> HIDE DEF f
  <2>3. Sizes(Lengths, f, Places, Vertices)
    BY <1>5, <2>1 DEF Sizes
  <2> QED
    BY <1>4, <2>2, <2>3, SumPartition
<1> QED
  BY <1>4, <1>7, EntriesIsSum

\* Each edge has one half at its lower end and one at its higher end.
LEMMA HalvesOfKind ==
  ASSUME MInv, NEW a \in Ids, NEW b \in Ids, NEW w \in Weights
  PROVE  /\ Many(a, b, w) = Cardinality({p \in Low : KindAt(p) = Kind(a, b, w)})
         /\ Many(a, b, w) = Cardinality({p \in High : KindAt(p) = Kind(a, b, w)})
<1>1. GraphOK /\ \A i \in Ids : i \in Int
  BY InputsAssumption DEF MInv, Ids
<1>2. ASSUME NEW c \in Ids, NEW d \in Ids, c # d
      PROVE  Cardinality({p \in Places : p[1] = c /\ At(p) = HalfEdge(d, w)}) = Many(c, d, w)
  <2> DEFINE P == {p \in Places : p[1] = c /\ At(p) = HalfEdge(d, w)}
  <2>1. CASE c \notin Vertices
    <3>1. P = {}
      BY <2>1 DEF Places
    <3> QED
      BY <2>1, <3>1, FS_EmptySet DEF Many
  <2>2. CASE c \in Vertices
    <3> DEFINE D == {i \in DOMAIN adjacencyList[c] : adjacencyList[c][i] = HalfEdge(d, w)}
    <3>1. adjacencyList[c] \in Seq(HalfEdges)
      BY <1>1, <2>2, ListType
    <3>2. P = {c} \X D
      BY <2>2, <3>1 DEF Places, At
    <3>3. IsFiniteSet(D)
      BY <3>1, FiniteIndices
    <3>4. Cardinality(D) = Many(c, d, w)
      <4>1. Cardinality(D) = Count(Between(c, d), w)
        BY <3>1, CountWeights DEF Count, Between
      <4>2. d \notin Vertices => Count(Between(c, d), w) = 0
        BY <1>1, <2>2, BetweenOutside, CountEmpty
      <4> QED
        BY <1>2, <2>2, <4>1, <4>2 DEF Many
    <3> HIDE DEF D, P
    <3>5. IsFiniteSet({c}) /\ Cardinality({c}) = 1
      BY FS_Singleton
    <3>6. Cardinality({c} \X D) = Cardinality({c}) * Cardinality(D)
      BY <3>3, <3>5, FS_Product
    <3>7. Cardinality(D) \in Nat
      BY <3>3, FS_CardinalityType
    <3>8. Cardinality(P) = Many(c, d, w)
      BY <3>2, <3>4, <3>5, <3>6, <3>7
    <3> QED
      BY <3>8 DEF P
  <2> QED
    BY <2>1, <2>2
<1>3. ASSUME NEW c \in Ids, NEW d \in Ids, c < d
      PROVE  /\ {p \in Low : KindAt(p) = Kind(c, d, w)} =
                  {p \in Places : p[1] = c /\ At(p) = HalfEdge(d, w)}
             /\ {p \in High : KindAt(p) = Kind(c, d, w)} =
                  {p \in Places : p[1] = d /\ At(p) = HalfEdge(c, w)}
  <2>1. ASSUME NEW p \in Places
        PROVE  /\ p[1] < At(p).destination /\ KindAt(p) = Kind(c, d, w)
                     <=> p[1] = c /\ At(p) = HalfEdge(d, w)
               /\ p[1] > At(p).destination /\ KindAt(p) = Kind(c, d, w)
                     <=> p[1] = d /\ At(p) = HalfEdge(c, w)
    <3> DEFINE x == p[1]
               y == At(p).destination
               z == At(p).weight
    <3>1. x \in Int /\ y \in Int /\ At(p) = HalfEdge(y, z)
      BY <1>1, AtPlace
    <3>2. KindAt(p) = Kind(c, d, w) <=> {x, y} = {c, d} /\ z = w
      BY DEF KindAt, Kind
    <3>3. \A i : At(p) = HalfEdge(i, w) <=> y = i /\ z = w
      BY <3>1 DEF HalfEdge
    <3> HIDE DEF x, y, z
    <3>4. {x, y} = {c, d} <=> (x = c /\ y = d) \/ (x = d /\ y = c)
      OBVIOUS
    <3>5. c \in Int /\ d \in Int
      BY <1>1
    <3> QED
      BY <1>3, <3>1, <3>2, <3>3, <3>4, <3>5 DEF x, y
  <2> QED
    BY <2>1 DEF Low, High
<1>4. ASSUME NEW c \in Ids, NEW d \in Ids, c < d
      PROVE  /\ Many(c, d, w) = Cardinality({p \in Low : KindAt(p) = Kind(c, d, w)})
             /\ Many(c, d, w) = Cardinality({p \in High : KindAt(p) = Kind(c, d, w)})
  <2>1. c # d
    BY <1>1, <1>4
  <2> QED
    BY <1>2, <1>3, <1>4, <2>1, ManySymmetric
<1>5. CASE a = b
  <2>1. {p \in Low : KindAt(p) = Kind(a, b, w)} = {} /\ {p \in High : KindAt(p) = Kind(a, b, w)} = {}
    <3>1. ASSUME NEW p \in Places, KindAt(p) = Kind(a, b, w) PROVE p[1] = At(p).destination
      <4>1. {p[1], At(p).destination} = {a}
        BY <1>5, <3>1 DEF KindAt, Kind
      <4> QED
        BY <4>1
    <3>2. ASSUME NEW p \in Places PROVE p[1] \in Int
      BY <1>1, AtPlace
    <3> QED
      BY <3>1, <3>2 DEF Low, High
  <2> QED
    BY <1>5, <2>1, FS_EmptySet DEF Many
<1>6. Kind(a, b, w) = Kind(b, a, w) /\ Many(a, b, w) = Many(b, a, w)
  BY ManySymmetric DEF Kind
<1>7. a < b \/ b < a \/ a = b
  BY <1>1
<1> QED
  BY <1>4, <1>5, <1>6, <1>7

\* Each edge is counted twice: once in the list of each end (Graph.cpp:169).
LEMMA EntriesAreTwice ==
  ASSUME MInv, IsFiniteSet(Weights)
  PROVE  EdgesCounted
<1> DEFINE f == [p \in Low |-> KindAt(p)]
           h == [p \in High |-> KindAt(p)]
           m == SumOver(EdgeCounts, Kinds)
<1>1. GraphOK /\ NoLoops /\ \A i \in Ids : i \in Int
  BY InputsAssumption DEF MInv, Ids
<1>2. IsFiniteSet(Low) /\ IsFiniteSet(High) /\ IsFiniteSet(Kinds)
  <2>1. Low \subseteq Places /\ High \subseteq Places
    BY DEF Low, High
  <2> QED
    BY <1>1, <2>1, PlacesCounted, FS_Subset, FiniteKinds
<1>3. ASSUME NEW p \in Places PROVE KindAt(p) \in Kinds
  BY <1>1, AtPlace, KindsAre DEF KindAt
<1>4. ASSUME NEW k \in Kinds
      PROVE  /\ EdgeCounts[k] = Cardinality({p \in Low : KindAt(p) = k})
             /\ EdgeCounts[k] = Cardinality({p \in High : KindAt(p) = k})
  <2>1. PICK a \in Ids, b \in Ids, w \in Weights : k = Kind(a, b, w)
    BY KindsAre
  <2> QED
    BY <2>1, HalvesOfKind, CountsOfMInv DEF EdgesAreMany
<1>5. m = Cardinality(Low)
  <2>1. Sizes(EdgeCounts, f, Low, Kinds)
    <3>1. \A p \in Low : f[p] \in Kinds
      BY <1>3 DEF Low
    <3>2. \A k \in Kinds : {p \in Low : f[p] = k} = {p \in Low : KindAt(p) = k}
      OBVIOUS
    <3> HIDE DEF f
    <3> QED
      BY <1>4, <3>1, <3>2 DEF Sizes
  <2> QED
    BY <1>2, <2>1, SumPartition
<1>6. m = Cardinality(High)
  <2>1. Sizes(EdgeCounts, h, High, Kinds)
    <3>1. \A p \in High : h[p] \in Kinds
      BY <1>3 DEF High
    <3>2. \A k \in Kinds : {p \in High : h[p] = k} = {p \in High : KindAt(p) = k}
      OBVIOUS
    <3> HIDE DEF h
    <3> QED
      BY <1>4, <3>1, <3>2 DEF Sizes
  <2> QED
    BY <1>2, <2>1, SumPartition
<1>7. Places = Low \cup High /\ Low \cap High = {}
  <2>1. ASSUME NEW p \in Places
        PROVE  /\ p[1] \in Int /\ At(p).destination \in Int
               /\ p[1] # At(p).destination
    <3>1. p[1] \in Vertices /\ At(p).destination \in Ids /\ p[1] \in Ids
      BY <1>1, AtPlace
    <3>2. p[1] # At(p).destination
      <4>1. adjacencyList[p[1]] \in Seq({e \in HalfEdges : e.destination # p[1]})
        BY <1>1, <3>1, NoEdgeBetween DEF NoLoops
      <4>2. p[2] \in DOMAIN adjacencyList[p[1]]
        BY DEF Places
      <4>3. At(p) \in {e \in HalfEdges : e.destination # p[1]}
        BY <4>1, <4>2 DEF At
      <4> QED
        BY <4>3
    <3> QED
      BY <1>1, <3>1, <3>2
  <2> QED
    BY <2>1 DEF Low, High
<1>8. Entries = m + m
  <2>1. Cardinality(Low \cup High) = Cardinality(Low) + Cardinality(High)
    BY <1>2, <1>7, DisjointUnion
  <2>2. Entries = Cardinality(Places)
    BY <1>1, PlacesCounted
  <2> HIDE DEF m
  <2> QED
    BY <1>5, <1>6, <1>7, <2>1, <2>2
<1>9. m \in Nat
  BY <1>2, <1>5, FS_CardinalityType
<1> HIDE DEF m
<1>10. GetEdges = m
  BY <1>8, <1>9 DEF GetEdges
<1> QED
  BY <1>10, FoldIsSum DEF EdgesCounted, m

\* getEdges() returns the number of edges, if none is a loop.
THEOREM EdgeCountCorrect ==
  ASSUME Loopless, IsFiniteSet(Weights)
  PROVE  Spec => []EdgesCounted
<1>1. MInv => EdgesCounted
  BY EntriesAreTwice
<1>2. MInv /\ [Next]_vars => MInv'
  BY MInvStep
<1> QED
  BY <1>1, <1>2, InitMInv, PTL DEF Spec
=============================================================================
