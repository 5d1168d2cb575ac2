----------------------------- MODULE DataLemmas -----------------------------
(***************************************************************************)
(* Facts about numbers, sequences and finite sets that the proofs share.   *)
(*                                                                         *)
(* The library states induction for an operator P(_), which the provers    *)
(* cannot instantiate.  Here it is about a set: the elements that have the *)
(* property.  Recursive definitions are handled likewise: a function with  *)
(* the equations of the definition is shown to exist, so that the one the  *)
(* definition chooses has them.                                            *)
(***************************************************************************)
EXTENDS Integers, Sequences, FiniteSets, SequenceTheorems, FiniteSetTheorems,
        WellFoundedInduction, TLAPS

\* A set of natural numbers that is not empty has a least element.
LEMMA LeastNatural ==
  ASSUME NEW S \in SUBSET Nat, S # {}
  PROVE  \E m \in S : \A k \in S : m <= k
<1> DEFINE R == {ss \in Nat \X Nat : ss[1] < ss[2]}
<1>1. IsWellFoundedOn(R, Nat)
  BY NatLessThanWellFounded DEF OpToRel
<1>2. PICK m \in S : \A k \in S : <<k, m>> \notin R
  <2> HIDE DEF R
  <2> QED
    BY <1>1, WFMin
<1>3. ASSUME NEW k \in S PROVE m <= k
  <2>1. <<k, m>> \in Nat \X Nat /\ <<k, m>>[1] = k /\ <<k, m>>[2] = m
    OBVIOUS
  <2>2. ~(<<k, m>>[1] < <<k, m>>[2])
    BY <1>2, <2>1
  <2> QED
    BY <2>1, <2>2
<1> QED
  BY <1>3

\* Induction over the natural numbers.
LEMMA Induction ==
  ASSUME NEW S, 0 \in S, \A n \in Nat : n \in S => n + 1 \in S
  PROVE  Nat \subseteq S
<1> SUFFICES ASSUME Nat \ S # {} PROVE FALSE
  OBVIOUS
<1>1. PICK m \in Nat \ S : \A k \in Nat \ S : m <= k
  BY LeastNatural
<1>2. m - 1 \in Nat /\ m - 1 \in S
  BY <1>1
<1> QED
  BY <1>1, <1>2

\* step[1], ..., step[n] are functions on T.
Steps(step, n, T) == step \in [1 .. n -> [T -> T]]

\* f[i] is what the first i of them make of b.
Iterates(f, step, n, b) ==
  f[0] = b /\ \A i \in 1 .. n : f[i] = step[i][f[i - 1]]

\* Such an f exists.
LEMMA Recursion ==
  ASSUME NEW n \in Nat, NEW T, NEW b \in T, NEW step, Steps(step, n, T)
  PROVE  \E f : f \in [0 .. n -> T] /\ Iterates(f, step, n, b)
<1> USE DEF Steps, Iterates
<1> DEFINE Good(m, f) == f[0] = b /\ \A i \in 1 .. m : f[i] = step[i][f[i - 1]]
           S == {m \in Nat : m <= n => \E f \in [0 .. m -> T] : Good(m, f)}
<1>1. 0 \in S
  <2>1. [i \in 0 .. 0 |-> b] \in [0 .. 0 -> T] /\ Good(0, [i \in 0 .. 0 |-> b])
    OBVIOUS
  <2> QED
    BY <2>1
<1>2. ASSUME NEW m \in Nat, m \in S PROVE m + 1 \in S
  <2> SUFFICES ASSUME m + 1 <= n PROVE \E f \in [0 .. m + 1 -> T] : Good(m + 1, f)
    OBVIOUS
  <2>1. PICK f \in [0 .. m -> T] : Good(m, f)
    BY <1>2
  <2> DEFINE g == [i \in 0 .. m + 1 |-> IF i = m + 1 THEN step[m + 1][f[m]] ELSE f[i]]
  <2>2. step[m + 1][f[m]] \in T
    OBVIOUS
  <2>3. g \in [0 .. m + 1 -> T]
    BY <2>2
  <2>4. Good(m + 1, g)
    <3>1. g[0] = b
      BY <2>1
    <3>2. ASSUME NEW i \in 1 .. m + 1 PROVE g[i] = step[i][g[i - 1]]
      <4>1. CASE i = m + 1
        <5>1. g[i - 1] = f[m] /\ g[i] = step[m + 1][f[m]]
          BY <4>1
        <5> QED BY <4>1, <5>1
      <4>2. CASE i # m + 1
        <5>1. i \in 1 .. m /\ i - 1 \in 0 .. m
          BY <4>2
        <5> QED BY <2>1, <5>1
      <4> QED BY <4>1, <4>2
    <3> QED BY <3>1, <3>2
  <2> QED BY <2>3, <2>4
<1>3. n \in S
  <2> HIDE DEF S
  <2> QED
    BY <1>1, <1>2, Induction
<1> QED
  BY <1>3


\* Induction over the sequences on T, from the left to the right.
LEMMA SeqInduction ==
  ASSUME NEW T, NEW P, <<>> \in P,
         \A s \in Seq(T), e \in T : s \in P => Append(s, e) \in P
  PROVE  Seq(T) \subseteq P
<1> DEFINE N == {n \in Nat : \A s \in Seq(T) : Len(s) = n => s \in P}
<1>1. 0 \in N
  BY EmptySeq
<1>2. ASSUME NEW n \in Nat, n \in N PROVE n + 1 \in N
  <2> SUFFICES ASSUME NEW s \in Seq(T), Len(s) = n + 1 PROVE s \in P
    OBVIOUS
  <2>1. s # <<>>
    BY EmptySeq
  <2>2. PICK r \in Seq(T), e \in T : s = Append(r, e)
    BY <2>1, SequenceEmptyOrAppend
  <2>3. Len(r) = n
    BY <2>2, AppendProperties, LenProperties
  <2> QED
    BY <1>2, <2>2, <2>3
<1>3. Nat \subseteq N
  <2> HIDE DEF N
  <2> QED
    BY <1>1, <1>2, Induction
<1> QED
  BY <1>3, LenProperties

LEMMA DivMod ==
  ASSUME NEW q \in Nat, NEW m \in Nat \ {0}
  PROVE  /\ q \div m \in Nat /\ q % m \in 0 .. m - 1
         /\ q = m * (q \div m) + (q % m)
OBVIOUS

LEMMA Times ==
  ASSUME NEW x \in Nat, NEW y \in Nat, x < y, NEW m \in Nat
  PROVE  x * m + m <= y * m
<1>1. PICK d \in Nat : y = x + 1 + d
  <2>1. y - x - 1 \in Nat /\ y = x + 1 + (y - x - 1)
    OBVIOUS
  <2> QED
    BY <2>1
<1>2. (x + 1 + d) * m = x * m + m + d * m
  OBVIOUS
<1>3. d * m \in Nat /\ x * m \in Nat
  OBVIOUS
<1> QED
  BY <1>1, <1>2, <1>3

-----------------------------------------------------------------------------
(* Algebra of a queue and its histories,                                   *)
(*   pushed = (popped \o in hand) \o queued,                               *)
(* under a push, a pop and the end of the task in hand.                    *)

LEMMA SingletonSeq ==
  ASSUME NEW S, NEW x \in S
  PROVE  <<x>> \in Seq(S)
OBVIOUS

LEMMA PushConcat ==
  ASSUME NEW S, NEW a \in Seq(S), NEW c \in Seq(S), NEW x \in S,
         NEW p, p = a \o c
  PROVE  p \o <<x>> = a \o (c \o <<x>>)
BY ConcatAssociative, SingletonSeq

LEMMA PopConcat ==
  ASSUME NEW S, NEW q \in Seq(S), q # <<>>
  PROVE  q = <<Head(q)>> \o Tail(q)
<1>1. Head(q) \in S /\ Tail(q) \in Seq(S)
  BY HeadTailProperties
<1>2. Len(q) = 1 + Len(Tail(q)) /\ Len(q) \in Nat
  BY HeadTailProperties, LenProperties
<1>3. /\ <<Head(q)>> \o Tail(q) \in Seq(S)
      /\ Len(<<Head(q)>> \o Tail(q)) = Len(q)
      /\ \A i \in 1 .. Len(q) : (<<Head(q)>> \o Tail(q))[i] = q[i]
  BY <1>1, <1>2, ConcatProperties, SingletonSeq, HeadTailProperties
<1>. QED  BY <1>3, SeqEqual

LEMMA PopIdentity ==
  ASSUME NEW S, NEW a \in Seq(S), NEW q \in Seq(S), q # <<>>
  PROVE  (a \o <<>>) \o q = (a \o <<Head(q)>>) \o Tail(q)
<1>1. Head(q) \in S /\ Tail(q) \in Seq(S)
  BY HeadTailProperties
<1>2. a \o <<>> = a
  BY ConcatEmptySeq
<1>3. (a \o <<Head(q)>>) \o Tail(q) = a \o (<<Head(q)>> \o Tail(q))
  BY <1>1, SingletonSeq, ConcatAssociative
<1>. QED  BY <1>2, <1>3, PopConcat

LEMMA FinishIdentity ==
  ASSUME NEW S, NEW a \in Seq(S), NEW x \in S
  PROVE  a \o <<x>> = (a \o <<x>>) \o <<>>
BY SingletonSeq, ConcatProperties, ConcatEmptySeq

LEMMA LoseOne ==
  ASSUME NEW s, IsFiniteSet(s), NEW n \in Nat, Cardinality(s) = n + 1, NEW x \in s
  PROVE  Cardinality(s \ {x}) = n
<1>1. Cardinality(s \ {x}) = Cardinality(s) - 1
  BY FS_RemoveElement
<1> QED
  BY <1>1

LEMMA FewerThan ==
  ASSUME NEW S, IsFiniteSet(S), NEW T, T \subseteq S, NEW x \in S, x \notin T
  PROVE  /\ Cardinality(T) \in Nat /\ Cardinality(S) \in Nat
         /\ Cardinality(T) + 1 <= Cardinality(S)
<1>1. IsFiniteSet(T) /\ IsFiniteSet(S \ {x})
  BY FS_Subset
<1>2. Cardinality(S \ {x}) = Cardinality(S) - 1
  BY FS_RemoveElement
<1>3. T \subseteq S \ {x}
  OBVIOUS
<1>4. Cardinality(T) <= Cardinality(S \ {x})
  BY <1>1, <1>3, FS_Subset
<1> QED
  BY <1>1, <1>2, <1>4, FS_CardinalityType

LEMMA UpTo ==
  ASSUME NEW n \in Nat
  PROVE  IsFiniteSet(1 .. n) /\ Cardinality(1 .. n) = n
BY FS_Interval

\* Induction over the subsets of a finite set.
LEMMA SetInduction ==
  ASSUME NEW S, IsFiniteSet(S), NEW P, {} \in P,
         \A s \in SUBSET S, x \in S : s \in P /\ x \notin s => s \cup {x} \in P
  PROVE  SUBSET S \subseteq P
<1> DEFINE N == {n \in Nat : \A s \in SUBSET S : Cardinality(s) = n => s \in P}
<1>1. \A s \in SUBSET S : IsFiniteSet(s) /\ Cardinality(s) \in Nat
  BY FS_Subset, FS_CardinalityType
<1>2. 0 \in N
  BY <1>1, FS_EmptySet
<1>3. ASSUME NEW n \in Nat, n \in N PROVE n + 1 \in N
  <2> SUFFICES ASSUME NEW s \in SUBSET S, Cardinality(s) = n + 1 PROVE s \in P
    OBVIOUS
  <2>1. IsFiniteSet(s) /\ s # {}
    BY <1>1, FS_EmptySet
  <2>2. PICK x \in s : TRUE
    BY <2>1
  <2> DEFINE r == s \ {x}
  <2>3. Cardinality(r) = n
    BY <2>1, <2>2, LoseOne
  <2>4. r \in P
    BY <1>3, <2>3
  <2>5. x \in S /\ r \in SUBSET S /\ x \notin r /\ s = r \cup {x}
    BY <2>2
  <2> HIDE DEF r
  <2> QED
    BY <2>4, <2>5
<1>4. Nat \subseteq N
  <2> HIDE DEF N
  <2> QED
    BY <1>2, <1>3, Induction
<1> QED
  BY <1>1, <1>4

\* it[s] is g summed over s, in the order in which elements are chosen: what
\* the folds over sets compute.
SumIter(it, g, S) ==
  it = [s \in SUBSET S |->
          IF s = {} THEN 0
          ELSE g[CHOOSE x \in s : TRUE] + it[s \ {CHOOSE x \in s : TRUE}]]

\* ... in any order.
AddsUp(it, g, S) ==
  /\ it \in [SUBSET S -> Int]
  /\ it[{}] = 0
  /\ \A s \in SUBSET S : \A x \in s : it[s] = g[x] + it[s \ {x}]

IntOn(g, S) == \A x \in S : g[x] \in Int

LEMMA SumIterExists ==
  ASSUME NEW S, IsFiniteSet(S), NEW g, IntOn(g, S)
  PROVE  \E it : SumIter(it, g, S)
<1> DEFINE pick == [s \in SUBSET S |-> CHOOSE x \in s : TRUE]
           Upto(n) == {s \in SUBSET S : Cardinality(s) <= n}
           Eqs(it, n) == \A s \in Upto(n) :
              it[s] = IF s = {} THEN 0 ELSE g[pick[s]] + it[s \ {pick[s]}]
           N == {n \in Nat : \E it \in [Upto(n) -> Int] : Eqs(it, n)}
<1>1. \A s \in SUBSET S : s # {} => pick[s] \in s /\ g[pick[s]] \in Int
  BY DEF IntOn
<1>2. \A s \in SUBSET S : IsFiniteSet(s) /\ Cardinality(s) \in Nat
  BY FS_Subset, FS_CardinalityType
<1>3. \A s \in SUBSET S : pick[s] = CHOOSE x \in s : TRUE
  OBVIOUS
<1> HIDE DEF pick
<1>4. 0 \in N
  <2>1. \A s \in Upto(0) : s = {}
    BY <1>2, FS_EmptySet
  <2>2. [s \in Upto(0) |-> 0] \in [Upto(0) -> Int] /\ Eqs([s \in Upto(0) |-> 0], 0)
    BY <2>1
  <2> QED
    BY <2>2
<1>5. ASSUME NEW n \in Nat, n \in N PROVE n + 1 \in N
  <2>1. PICK it \in [Upto(n) -> Int] : Eqs(it, n)
    BY <1>5
  <2> DEFINE jt == [s \in Upto(n + 1) |->
                      IF s \in Upto(n) THEN it[s] ELSE g[pick[s]] + it[s \ {pick[s]}]]
  <2>2. ASSUME NEW s \in Upto(n + 1), s # {}
        PROVE  s \ {pick[s]} \in Upto(n) /\ s \ {pick[s]} \in Upto(n + 1)
    <3>1. Cardinality(s \ {pick[s]}) = Cardinality(s) - 1 /\ Cardinality(s) <= n + 1
          /\ Cardinality(s) \in Nat
      BY <1>1, <1>2, <2>2, FS_RemoveElement
    <3> QED
      BY <3>1
  <2>3. \A s \in Upto(n + 1) : s = {} => s \in Upto(n)
    BY FS_EmptySet
  <2>4. \A s \in Upto(n) : s \in Upto(n + 1)
    BY <1>2
  <2>5. jt \in [Upto(n + 1) -> Int]
    BY <1>1, <2>1, <2>2, <2>3
  <2>6. ASSUME NEW s \in Upto(n + 1)
        PROVE  jt[s] = IF s = {} THEN 0 ELSE g[pick[s]] + jt[s \ {pick[s]}]
    <3>1. CASE s = {}
      BY <2>1, <2>3, <3>1
    <3>2. CASE s # {}
      <4>1. jt[s \ {pick[s]}] = it[s \ {pick[s]}]
        BY <2>2, <3>2
      <4>2. CASE s \in Upto(n)
        BY <2>1, <3>2, <4>1, <4>2
      <4>3. CASE s \notin Upto(n)
        BY <3>2, <4>1, <4>3
      <4> QED
        BY <4>2, <4>3
    <3> QED
      BY <3>1, <3>2
  <2> HIDE DEF jt
  <2>7. Eqs(jt, n + 1)
    BY <2>6
  <2> HIDE DEF Upto, Eqs
  <2> QED
    BY <2>5, <2>7
<1> DEFINE n == Cardinality(S)
<1>6. n \in N
  <2> HIDE DEF N
  <2> QED
    BY <1>2, <1>4, <1>5, Induction
<1>7. PICK it \in [Upto(n) -> Int] : Eqs(it, n)
  BY <1>6
<1>8. Upto(n) = SUBSET S
  BY <1>2, FS_Subset
<1>9. \A s \in SUBSET S : it[s] = IF s = {} THEN 0 ELSE g[pick[s]] + it[s \ {pick[s]}]
  BY <1>7, <1>8
<1>10. it = [s \in SUBSET S |-> IF s = {} THEN 0 ELSE g[pick[s]] + it[s \ {pick[s]}]]
  BY <1>7, <1>8, <1>9
<1>11. it = [s \in SUBSET S |->
          IF s = {} THEN 0
          ELSE g[CHOOSE x \in s : TRUE] + it[s \ {CHOOSE x \in s : TRUE}]]
  BY <1>3, <1>10
<1> QED
  BY <1>11 DEF SumIter

LEMMA SumIterAddsUp ==
  ASSUME NEW S, IsFiniteSet(S), NEW g, IntOn(g, S), NEW it, SumIter(it, g, S)
  PROVE  AddsUp(it, g, S)
<1> DEFINE pick == [s \in SUBSET S |-> CHOOSE x \in s : TRUE]
<1>1. \A s \in SUBSET S : s # {} => pick[s] \in s /\ g[pick[s]] \in Int
  BY DEF IntOn
<1>2. \A s \in SUBSET S : pick[s] = CHOOSE x \in s : TRUE
  OBVIOUS
<1>3. it = [s \in SUBSET S |->
          IF s = {} THEN 0
          ELSE g[CHOOSE x \in s : TRUE] + it[s \ {CHOOSE x \in s : TRUE}]]
  BY DEF SumIter
<1> HIDE DEF pick
<1>4. it = [s \in SUBSET S |-> IF s = {} THEN 0 ELSE g[pick[s]] + it[s \ {pick[s]}]]
  BY <1>2, <1>3
<1>5. \A s \in SUBSET S : it[s] = IF s = {} THEN 0 ELSE g[pick[s]] + it[s \ {pick[s]}]
  BY <1>4, Zenon
<1>6. it[{}] = 0
  BY <1>5
<1>7. \A s \in SUBSET S : IsFiniteSet(s) /\ Cardinality(s) \in Nat
  BY FS_Subset, FS_CardinalityType
<1>8. ASSUME NEW n \in Nat, NEW s \in SUBSET S, Cardinality(s) = n + 1
      PROVE  /\ s # {}
             /\ \A x \in s : Cardinality(s \ {x}) = n /\ s \ {x} \in SUBSET S
  <2>1. IsFiniteSet(s) /\ s # {}
    BY <1>7, <1>8, FS_EmptySet
  <2> QED
    BY <1>8, <2>1, LoseOne
<1>9. \A s \in SUBSET S : Cardinality(s) = 0 => s = {}
  BY <1>7, FS_EmptySet
<1>10. \A s \in SUBSET S : it[s] \in Int
  <2> DEFINE N == {n \in Nat : \A s \in SUBSET S : Cardinality(s) = n => it[s] \in Int}
  <2>1. 0 \in N
    BY <1>6, <1>9
  <2>2. ASSUME NEW n \in Nat, n \in N PROVE n + 1 \in N
    <3> SUFFICES ASSUME NEW s \in SUBSET S, Cardinality(s) = n + 1 PROVE it[s] \in Int
      OBVIOUS
    <3> DEFINE p == pick[s]
    <3>1. s # {} /\ p \in s /\ g[p] \in Int /\ it[s] = g[p] + it[s \ {p}]
      BY <1>1, <1>5, <1>8
    <3> HIDE DEF p
    <3>2. it[s \ {p}] \in Int
      BY <1>8, <2>2, <3>1
    <3> QED
      BY <3>1, <3>2
  <2>3. Nat \subseteq N
    <3> HIDE DEF N
    <3> QED
      BY <2>1, <2>2, Induction
  <2> QED
    BY <1>7, <2>3
<1>11. \A s \in SUBSET S : \A x \in s : it[s] = g[x] + it[s \ {x}]
  <2> DEFINE N == {n \in Nat : \A s \in SUBSET S : Cardinality(s) = n =>
                     \A x \in s : it[s] = g[x] + it[s \ {x}]}
  <2>1. 0 \in N
    BY <1>9
  <2>2. ASSUME NEW n \in Nat, n \in N PROVE n + 1 \in N
    <3> SUFFICES ASSUME NEW s \in SUBSET S, Cardinality(s) = n + 1, NEW x \in s
                 PROVE  it[s] = g[x] + it[s \ {x}]
      OBVIOUS
    <3> DEFINE p == pick[s]
    <3>1. p \in s /\ g[p] \in Int /\ it[s] = g[p] + it[s \ {p}]
      BY <1>1, <1>5, <1>8
    <3> HIDE DEF p
    <3>2. CASE x = p
      BY <3>1, <3>2
    <3>3. CASE x # p
      <4> DEFINE a == s \ {p}
                 b == s \ {x}
                 r == a \ {x}
      <4>1. Cardinality(a) = n /\ Cardinality(b) = n /\ a \in SUBSET S /\ b \in SUBSET S
        BY <1>8, <3>1
      <4>2. x \in a /\ p \in b /\ r = b \ {p} /\ r \in SUBSET S
        BY <3>1, <3>3
      <4> HIDE DEF a, b, r
      <4>3. it[a] = g[x] + it[a \ {x}] /\ it[b] = g[p] + it[b \ {p}]
        BY <2>2, <4>1, <4>2
      <4>4. it[r] \in Int /\ g[x] \in Int
        BY <1>10, <4>2 DEF IntOn
      <4>5. it[s] = g[p] + (g[x] + it[r]) /\ it[b] = g[p] + it[r]
        BY <3>1, <4>2, <4>3 DEF a, r
      <4>6. it[s] = g[x] + it[b]
        BY <3>1, <4>4, <4>5
      <4> QED
        BY <4>6 DEF b
    <3> QED
      BY <3>2, <3>3
  <2>3. Nat \subseteq N
    <3> HIDE DEF N
    <3> QED
      BY <2>1, <2>2, Induction
  <2> QED
    BY <1>7, <2>3
<1>12. it \in [SUBSET S -> Int]
  BY <1>4, <1>10
<1> QED
  BY <1>6, <1>11, <1>12 DEF AddsUp

LEMMA SumIterChosen ==
  ASSUME NEW S, IsFiniteSet(S), NEW g, IntOn(g, S)
  PROVE  SumIter(CHOOSE it : SumIter(it, g, S), g, S)
BY SumIterExists

\* Two sums agree where what they sum up does.
LEMMA AddsUpSame ==
  ASSUME NEW S, NEW it, NEW g, AddsUp(it, g, S),
         NEW R, NEW jt, NEW h, AddsUp(jt, h, R),
         NEW Q, IsFiniteSet(Q), Q \subseteq S, Q \subseteq R, \A x \in Q : g[x] = h[x]
  PROVE  it[Q] = jt[Q]
<1> DEFINE P == {s \in SUBSET Q : it[s] = jt[s]}
<1>1. {} \in P
  BY DEF AddsUp
<1>2. ASSUME NEW s \in SUBSET Q, NEW x \in Q, s \in P, x \notin s PROVE s \cup {x} \in P
  <2> DEFINE r == s \cup {x}
  <2>1. r \ {x} = s /\ r \in SUBSET S /\ r \in SUBSET R /\ x \in r /\ r \in SUBSET Q
    BY <1>2
  <2> HIDE DEF r
  <2>2. it[r] = g[x] + it[s] /\ jt[r] = h[x] + jt[s] /\ it[s] = jt[s]
    BY <1>2, <2>1 DEF AddsUp
  <2> QED
    BY <2>1, <2>2 DEF r
<1>3. SUBSET Q \subseteq P
  <2> HIDE DEF P
  <2> QED
    BY <1>1, <1>2, SetInduction
<1> QED
  BY <1>3

\* The sum of g over a finite set.
SumOver(g, S) == (CHOOSE it : SumIter(it, g, S))[S]

\* Element by element.
LEMMA SumOverAdds ==
  ASSUME NEW S, IsFiniteSet(S), NEW g, IntOn(g, S)
  PROVE  /\ SumOver(g, S) \in Int
         /\ S = {} => SumOver(g, S) = 0
         /\ \A x \in S : SumOver(g, S) = g[x] + SumOver(g, S \ {x})
<1> DEFINE it == CHOOSE it : SumIter(it, g, S)
<1>1. AddsUp(it, g, S)
  BY SumIterChosen, SumIterAddsUp
<1> HIDE DEF it
<1>2. SumOver(g, S) = it[S]
  BY DEF SumOver, it
<1>3. ASSUME NEW x \in S PROVE SumOver(g, S) = g[x] + SumOver(g, S \ {x})
  <2> DEFINE R == S \ {x}
             jt == CHOOSE jt : SumIter(jt, g, R)
  <2>1. IsFiniteSet(R) /\ IntOn(g, R) /\ R \subseteq S
    BY FS_Subset DEF IntOn
  <2> HIDE DEF R
  <2>2. AddsUp(jt, g, R)
    BY <2>1, SumIterChosen, SumIterAddsUp
  <2>3. SumOver(g, R) = jt[R]
    BY DEF SumOver
  <2> HIDE DEF jt
  <2>4. it[R] = jt[R]
    BY <1>1, <2>1, <2>2, AddsUpSame
  <2>5. it[S] = g[x] + it[S \ {x}]
    BY <1>1 DEF AddsUp
  <2> QED
    BY <1>2, <2>3, <2>4, <2>5 DEF R
<1> QED
  BY <1>1, <1>2, <1>3 DEF AddsUp

LEMMA DisjointUnion ==
  ASSUME NEW S, IsFiniteSet(S), NEW T, IsFiniteSet(T), S \cap T = {}
  PROVE  Cardinality(S \cup T) = Cardinality(S) + Cardinality(T)
<1>1. Cardinality(S \cup T) = Cardinality(S) + Cardinality(T) - Cardinality(S \cap T)
  BY FS_Union
<1>2. Cardinality(S) \in Nat /\ Cardinality(T) \in Nat
  BY FS_CardinalityType
<1> QED
  BY <1>1, <1>2, FS_EmptySet

\* g[k] elements of S are of the kind k, according to f.
Sizes(g, f, S, K) ==
  /\ \A s \in S : f[s] \in K
  /\ \A k \in K : g[k] = Cardinality({s \in S : f[s] = k})

\* Summing up the sizes of the parts of a finite set.
LEMMA SumPartition ==
  ASSUME NEW S, IsFiniteSet(S), NEW K, IsFiniteSet(K), NEW f, NEW g, Sizes(g, f, S, K)
  PROVE  SumOver(g, K) = Cardinality(S)
<1> USE DEF Sizes
<1> DEFINE Part(R) == {s \in S : f[s] \in R}
           P == {R \in SUBSET K : SumOver(g, R) = Cardinality(Part(R))}
<1>1. ASSUME NEW R PROVE IsFiniteSet(Part(R)) /\ Cardinality(Part(R)) \in Nat
  <2>1. Part(R) \subseteq S
    OBVIOUS
  <2> HIDE DEF Part
  <2> QED
    BY <2>1, FS_Subset, FS_CardinalityType
<1>2. ASSUME NEW k \in K PROVE g[k] = Cardinality(Part({k}))
  <2>1. Part({k}) = {s \in S : f[s] = k}
    OBVIOUS
  <2> QED
    BY <2>1
<1>3. ASSUME NEW R \in SUBSET K PROVE IsFiniteSet(R) /\ IntOn(g, R)
  <2>1. IsFiniteSet(R)
    BY FS_Subset
  <2> HIDE DEF Part
  <2>2. ASSUME NEW k \in R PROVE g[k] \in Int
    <3>1. k \in K /\ Cardinality(Part({k})) \in Nat
      BY <1>1
    <3> QED
      BY <1>2, <3>1
  <2> QED
    BY <2>1, <2>2 DEF IntOn
<1>4. {} \in P
  <2>1. Part({}) = {}
    OBVIOUS
  <2>2. SumOver(g, {}) = 0
    BY <1>3, SumOverAdds
  <2> QED
    BY <2>1, <2>2, FS_EmptySet
<1>5. ASSUME NEW R \in SUBSET K, NEW x \in K, R \in P, x \notin R PROVE R \cup {x} \in P
  <2> DEFINE Q == R \cup {x}
  <2>1. Q \in SUBSET K /\ x \in Q /\ Q \ {x} = R
    BY <1>5
  <2>2. SumOver(g, Q) = g[x] + SumOver(g, R)
    <3> HIDE DEF Q
    <3> QED
      BY <1>3, <2>1, SumOverAdds
  <2>3. Part(Q) = Part(R) \cup Part({x}) /\ Part(R) \cap Part({x}) = {}
    BY <1>5
  <2>4. Cardinality(Part(Q)) = Cardinality(Part(R)) + Cardinality(Part({x}))
    <3> DEFINE a == Part(R)
               b == Part({x})
    <3>1. IsFiniteSet(a) /\ IsFiniteSet(b) /\ Cardinality(a) \in Nat /\ Cardinality(b) \in Nat
      BY <1>1
    <3>2. Part(Q) = a \cup b /\ a \cap b = {}
      BY <2>3
    <3> HIDE DEF a, b
    <3>3. Cardinality(a \cup b) = Cardinality(a) + Cardinality(b)
      BY <3>1, <3>2, DisjointUnion
    <3> QED
      BY <3>2, <3>3 DEF a, b
  <2>5. SumOver(g, R) = Cardinality(Part(R))
    BY <1>5
  <2>6. g[x] = Cardinality(Part({x})) /\ Cardinality(Part({x})) \in Nat
        /\ Cardinality(Part(R)) \in Nat
    BY <1>1, <1>2
  <2> HIDE DEF Part, Q
  <2>7. SumOver(g, Q) = Cardinality(Part(Q))
    BY <2>2, <2>4, <2>5, <2>6
  <2> QED
    BY <2>1, <2>7 DEF Q
<1>6. K \in P
  <2> HIDE DEF P
  <2> QED
    BY <1>4, <1>5, SetInduction
<1>7. Part(K) = S
  OBVIOUS
<1> QED
  BY <1>6, <1>7

\* A fold that adds up a function's values is its sum.
LEMMA ChosenSum ==
  ASSUME NEW S, IsFiniteSet(S), NEW g, IntOn(g, S), NEW it, SumIter(it, g, S)
  PROVE  it[S] = SumOver(g, S)
<1> DEFINE jt == CHOOSE jt : SumIter(jt, g, S)
<1>1. AddsUp(jt, g, S) /\ AddsUp(it, g, S)
  BY SumIterChosen, SumIterAddsUp
<1>2. SumOver(g, S) = jt[S]
  BY DEF SumOver
<1> HIDE DEF jt
<1>3. it[S] = jt[S]
  BY <1>1, AddsUpSame
<1> QED
  BY <1>2, <1>3
=============================================================================
