------------------------------- MODULE Piles -------------------------------
(***************************************************************************)
(* What is true of sums and of finite sets of integers, for the proofs.    *)
(* What a step does to one owner's slabs of a pile is a matter of disjoint *)
(* sets, with no induction over the owners.                                *)
(***************************************************************************)
EXTENDS Sums, Integers, FiniteSets, FiniteSetTheorems, WellFoundedInduction, TLAPS

\* Where induction would be wanted, a least counterexample does: every set of
\* natural numbers has a least member.
LEMMA Least ==
  ASSUME NEW S \in SUBSET Nat, S # {}
  PROVE  \E m \in S : \A n \in S : m <= n
<1>1. PICK m \in S : \A n \in S : ~ (<<n, m>> \in OpToRel(<, Nat))
  BY NatLessThanWellFounded, WFMin, Zenon
<1>2. \A n \in S : ~ (n < m)
  BY <1>1 DEF OpToRel
<1> QED
  BY <1>2

\* A finite set of integers has a greatest and a least member.
LEMMA Extremes ==
  ASSUME NEW S \in SUBSET Int, S # {}, IsFiniteSet(S)
  PROVE  /\ \E m \in S : \A n \in S : n <= m
         /\ \E m \in S : \A n \in S : m <= n
<1>1. ASSUME NEW R \in SUBSET (S \X S),
             \A a, b, c \in S : <<a, b>> \in R /\ <<b, c>> \in R => <<a, c>> \in R,
             \A a \in S : <<a, a>> \notin R
      PROVE  \E m \in S : \A n \in S : <<m, n>> \notin R
  <2> DEFINE After(m) == {n \in S : <<m, n>> \in R}
             T == {After(m) : m \in S}
  <2>1. T \subseteq FiniteSubsetsOf(S) /\ T # {}
    <3>1. \A U \in SUBSET S : IsFiniteSet(U)
      BY FS_Subset, Zenon
    <3>2. \A m \in S : After(m) \in SUBSET S
      OBVIOUS
    <3> HIDE DEF After
    <3> QED
      BY <3>1, <3>2, Zenon DEF FiniteSubsetsOf
  <2>2. PICK x \in T : \A y \in T : ~ (<<y, x>> \in StrictSubsetOrdering(S))
    <3> HIDE DEF T
    <3> QED
      BY <2>1, FS_StrictSubsetOrderingWellFounded, WFMin, Zenon
  <2>3. PICK m \in S : x = After(m)
    OBVIOUS
  <2>4. ASSUME NEW n \in S, <<m, n>> \in R PROVE FALSE
    <3>1. n \in After(m) /\ n \notin After(n) /\ After(n) \subseteq After(m)
      BY <1>1, <2>4
    <3>2. <<After(n), After(m)>> \in StrictSubsetOrdering(S)
      BY <3>1 DEF StrictSubsetOrdering
    <3> QED
      BY <2>2, <2>3, <3>2
  <2> QED
    BY <2>4
<1>2. \E m \in S : \A n \in S : n <= m
  <2> DEFINE R == {p \in S \X S : p[1] < p[2]}
  <2>1. \A a, b \in S : <<a, b>> \in R <=> a < b
    OBVIOUS
  <2>2. R \subseteq S \X S
    OBVIOUS
  <2> HIDE DEF R
  <2>3. PICK m \in S : \A n \in S : <<m, n>> \notin R
    <3>1. \A a, b, c \in S : <<a, b>> \in R /\ <<b, c>> \in R => <<a, c>> \in R
      BY <2>1
    <3>2. \A a \in S : <<a, a>> \notin R
      BY <2>1
    <3> QED
      BY <1>1, <2>2, <3>1, <3>2
  <2>4. \A n \in S : ~ (m < n)
    BY <2>1, <2>3, Zenon
  <2> QED
    BY <2>4
<1>3. \E m \in S : \A n \in S : m <= n
  <2> DEFINE R == {p \in S \X S : p[2] < p[1]}
  <2>1. \A a, b \in S : <<a, b>> \in R <=> b < a
    OBVIOUS
  <2>2. R \subseteq S \X S
    OBVIOUS
  <2> HIDE DEF R
  <2>3. PICK m \in S : \A n \in S : <<m, n>> \notin R
    <3>1. \A a, b, c \in S : <<a, b>> \in R /\ <<b, c>> \in R => <<a, c>> \in R
      BY <2>1
    <3>2. \A a \in S : <<a, a>> \notin R
      BY <2>1
    <3> QED
      BY <1>1, <2>2, <3>1, <3>2
  <2>4. \A n \in S : ~ (n < m)
    BY <2>1, <2>3, Zenon
  <2> QED
    BY <2>4
<1> QED
  BY <1>2, <1>3

\* One owner's part.
LEMMA SlabSize ==
  ASSUME NEW w, NEW n \in Nat
  PROVE  IsFiniteSet({w} \X (1..n)) /\ Cardinality({w} \X (1..n)) = n
<1>1. IsFiniteSet({w}) /\ Cardinality({w}) = 1
  BY FS_Singleton, Zenon
<1>2. n \in Int /\ 1 \in Int /\ (IF 1 > n THEN 0 ELSE n - 1 + 1) = n
  OBVIOUS
<1>3. IsFiniteSet(1..n) /\ Cardinality(1..n) = IF 1 > n THEN 0 ELSE n - 1 + 1
  BY <1>2, FS_Interval, Zenon
<1>4. IsFiniteSet({w} \X (1..n)) /\ Cardinality({w} \X (1..n)) = Cardinality({w}) * Cardinality(1..n)
  BY <1>1, <1>3, FS_Product, Zenon
<1> QED
  BY <1>1, <1>2, <1>3, <1>4

\* A pile over a finite set is finite.
LEMMA PileFinite ==
  ASSUME NEW W, IsFiniteSet(W), NEW f, \A w \in W : f[w] \in Nat
  PROVE  IsFiniteSet(Pile(W, f)) /\ Cardinality(Pile(W, f)) \in Nat
<1> DEFINE slab == [w \in W |-> {w} \X (1..f[w])]
           Slabs == {slab[w] : w \in W}
<1>1. slab \in Surjection(W, Slabs)
  BY Zenon DEF Surjection
<1>2. IsFiniteSet(Slabs)
  BY <1>1, FS_Surjection, Zenon
<1>3. \A w \in W : IsFiniteSet(slab[w])
  BY SlabSize, Zenon
<1>4. IsFiniteSet(UNION Slabs)
  BY <1>2, <1>3, FS_UNION, Zenon
<1>5. UNION Slabs = Pile(W, f)
  BY Zenon DEF Pile
<1> QED
  BY <1>4, <1>5, FS_CardinalityType, Zenon

\* A new owner adds its own number.
LEMMA PileAdd ==
  ASSUME NEW W, IsFiniteSet(W), NEW f, NEW v, v \notin W, \A w \in W \cup {v} : f[w] \in Nat
  PROVE  Cardinality(Pile(W \cup {v}, f)) = Cardinality(Pile(W, f)) + f[v]
<1> DEFINE Slab == {v} \X (1..f[v])
<1>1. IsFiniteSet(Slab) /\ Cardinality(Slab) = f[v] /\ f[v] \in Nat
  BY SlabSize
<1>2. IsFiniteSet(Pile(W, f)) /\ Cardinality(Pile(W, f)) \in Nat
  BY PileFinite
<1>3. Pile(W \cup {v}, f) = Pile(W, f) \cup Slab
  BY Zenon DEF Pile
<1>4. Pile(W, f) \cap Slab = {}
  <2> SUFFICES ASSUME NEW x \in Slab, NEW w \in W, x \in {w} \X (1..f[w]) PROVE FALSE
    BY Zenon DEF Pile
  <2> QED
    OBVIOUS
<1>5. Cardinality(Pile(W, f) \cup Slab)
        = Cardinality(Pile(W, f)) + Cardinality(Slab) - Cardinality(Pile(W, f) \cap Slab)
  BY <1>1, <1>2, FS_Union, Zenon
<1>6. Cardinality(Pile(W, f) \cap Slab) = 0
  BY <1>4, FS_EmptySet
<1>7. Cardinality(Pile(W \cup {v}, f)) = Cardinality(Pile(W, f) \cup Slab)
  BY <1>3
<1>8. Cardinality(Slab) = f[v] /\ f[v] \in Nat /\ Cardinality(Pile(W, f)) \in Nat
  BY <1>1, <1>2
<1> HIDE DEF Slab
<1> QED
  BY <1>5, <1>6, <1>7, <1>8

\* What is left without one owner, and what that owner adds.
LEMMA PileSplit ==
  ASSUME NEW T, IsFiniteSet(T), NEW W \in SUBSET T, NEW f, \A u \in T : f[u] \in Nat, NEW w \in T
  PROVE  /\ Cardinality(Pile(W \ {w}, f)) \in Nat
         /\ Cardinality(Pile(W, f)) = Cardinality(Pile(W \ {w}, f)) + IF w \in W THEN f[w] ELSE 0
<1>1. IsFiniteSet(W \ {w})
  BY FS_Subset
<1>2. Cardinality(Pile(W \ {w}, f)) \in Nat
  BY <1>1, PileFinite
<1>3. CASE w \in W
  <2>1. W = (W \ {w}) \cup {w}
    BY <1>3
  <2>2. Cardinality(Pile((W \ {w}) \cup {w}, f)) = Cardinality(Pile(W \ {w}, f)) + f[w]
    BY <1>1, <1>3, PileAdd
  <2> QED
    BY <1>2, <1>3, <2>1, <2>2
<1>4. CASE w \notin W
  <2>1. Cardinality(Pile(W, f)) = Cardinality(Pile(W \ {w}, f))
    <3>1. W = W \ {w}
      BY <1>4
    <3> QED
      BY <3>1
  <2> QED
    BY <1>2, <1>4, <2>1
<1> QED
  BY <1>2, <1>3, <1>4

\* A pile depends on the numbers of its owners only.
LEMMA PileSame ==
  ASSUME NEW W, NEW f, NEW g, \A w \in W : f[w] = g[w]
  PROVE  Pile(W, f) = Pile(W, g)
  BY Zenon DEF Pile

\* A pile grows by what the owners of another set hold.
LEMMA PileJoin ==
  ASSUME NEW V, NEW W, IsFiniteSet(V), IsFiniteSet(W), V \cap W = {}, NEW f,
         \A w \in V \cup W : f[w] \in Nat
  PROVE  Cardinality(Pile(V \cup W, f)) = Cardinality(Pile(V, f)) + Cardinality(Pile(W, f))
<1>1. /\ IsFiniteSet(Pile(V, f)) /\ Cardinality(Pile(V, f)) \in Nat
      /\ IsFiniteSet(Pile(W, f)) /\ Cardinality(Pile(W, f)) \in Nat
  BY PileFinite
<1>2. Pile(V \cup W, f) = Pile(V, f) \cup Pile(W, f)
  BY Zenon DEF Pile
<1>3. Pile(V, f) \cap Pile(W, f) = {}
  <2> SUFFICES ASSUME NEW v \in V, NEW w \in W, NEW x, x \in {v} \X (1..f[v]), x \in {w} \X (1..f[w])
               PROVE  FALSE
    BY Zenon DEF Pile
  <2> QED
    OBVIOUS
<1>4. Cardinality(Pile(V, f) \cup Pile(W, f))
        = Cardinality(Pile(V, f)) + Cardinality(Pile(W, f)) - Cardinality(Pile(V, f) \cap Pile(W, f))
  BY <1>1, FS_Union, Zenon
<1>5. Cardinality(Pile(V, f) \cap Pile(W, f)) = 0
  BY <1>3, FS_EmptySet
<1>6. Cardinality(Pile(V \cup W, f)) = Cardinality(Pile(V, f) \cup Pile(W, f))
  BY <1>2, Zenon
<1> DEFINE m == Cardinality(Pile(V, f))
           n == Cardinality(Pile(W, f))
<1>7. m \in Nat /\ n \in Nat
  BY <1>1
<1>8. Cardinality(Pile(V \cup W, f)) = m + n - 0
  BY <1>4, <1>5, <1>6, Zenon
<1> HIDE DEF m, n
<1>9. m + n - 0 = m + n
  BY <1>7
<1> QED
  BY <1>8, <1>9, Zenon DEF m, n

(***************************************************************************)
(* Sums of integers: the pile of the positive parts less that of the       *)
(* negative ones.                                                          *)
(***************************************************************************)
SumOver(S, f) == Sum([w \in S |-> f[w]])
Up(n)         == IF n > 0 THEN n ELSE 0
Ups(S, f)     == [w \in S |-> Up(f[w])]
Downs(S, f)   == [w \in S |-> Up(-f[w])]

\* The slabs of a number that is not positive are none.
LEMMA PileUp ==
  ASSUME NEW S, NEW f, \A w \in S : f[w] \in Int
  PROVE  Pile(S, f) = Pile(S, Ups(S, f))
<1>1. \A w \in S : 1..f[w] = 1..Up(f[w])
  BY DEF Up
<1>2. \A w \in S : Ups(S, f)[w] = Up(f[w])
  BY DEF Ups
<1> QED
  BY <1>1, <1>2, Zenon DEF Pile

LEMMA PartsNat ==
  ASSUME NEW S, NEW f, \A w \in S : f[w] \in Int
  PROVE  \A w \in S : Ups(S, f)[w] \in Nat /\ Downs(S, f)[w] \in Nat
  BY DEF Ups, Downs, Up

LEMMA SumParts ==
  ASSUME NEW S, NEW f, \A w \in S : f[w] \in Int
  PROVE  SumOver(S, f) = Cardinality(Pile(S, Ups(S, f))) - Cardinality(Pile(S, Downs(S, f)))
<1> DEFINE g == [w \in S |-> f[w]]
           h == [w \in S |-> -g[w]]
<1>1. DOMAIN g = S /\ \A w \in S : g[w] = f[w] /\ h[w] = -f[w] /\ h[w] \in Int
  OBVIOUS
<1>2. SumOver(S, f) = Sum(g)
  BY Zenon DEF SumOver
<1>3. Ups(S, h) = Downs(S, f)
  BY <1>1 DEF Ups, Downs
<1>4. Sum(g) = Cardinality(Pile(DOMAIN g, g)) - Cardinality(Pile(DOMAIN g, [w \in DOMAIN g |-> -g[w]]))
  BY Zenon DEF Sum
<1>5. [w \in DOMAIN g |-> -g[w]] = h
  BY <1>1
<1> HIDE DEF g, h
<1>6. Pile(S, g) = Pile(S, f)
  BY <1>1, PileSame
<1>7. Pile(S, f) = Pile(S, Ups(S, f))
  BY PileUp
<1>8. Pile(S, h) = Pile(S, Downs(S, f))
  BY <1>1, <1>3, PileUp
<1> QED
  BY <1>1, <1>2, <1>4, <1>5, <1>6, <1>7, <1>8, Zenon

LEMMA SumInt ==
  ASSUME NEW S, IsFiniteSet(S), NEW f, \A w \in S : f[w] \in Int
  PROVE  SumOver(S, f) \in Int
<1>1. Cardinality(Pile(S, Ups(S, f))) \in Nat
  BY PartsNat, PileFinite
<1>2. Cardinality(Pile(S, Downs(S, f))) \in Nat
  BY PartsNat, PileFinite
<1> QED
  BY <1>1, <1>2, SumParts

\* A sum depends on the numbers of its owners only.
LEMMA SumSame ==
  ASSUME NEW S, NEW f, NEW g, \A w \in S : f[w] = g[w]
  PROVE  SumOver(S, f) = SumOver(S, g)
<1>1. [w \in S |-> f[w]] = [w \in S |-> g[w]]
  OBVIOUS
<1> QED
  BY <1>1, Zenon DEF SumOver

\* The sum over two sets that share nothing.
LEMMA SumJoin ==
  ASSUME NEW V, NEW W, IsFiniteSet(V), IsFiniteSet(W), V \cap W = {}, NEW f,
         \A w \in V \cup W : f[w] \in Int
  PROVE  SumOver(V \cup W, f) = SumOver(V, f) + SumOver(W, f)
<1> DEFINE P == Ups(V \cup W, f)
           N == Downs(V \cup W, f)
<1>1. \A w \in V \cup W : P[w] \in Nat /\ N[w] \in Nat
  BY PartsNat
<1>2. \A w \in V : P[w] = Ups(V, f)[w] /\ N[w] = Downs(V, f)[w]
  BY DEF Ups, Downs
<1>3. \A w \in W : P[w] = Ups(W, f)[w] /\ N[w] = Downs(W, f)[w]
  BY DEF Ups, Downs
<1> HIDE DEF P, N
<1>4. Cardinality(Pile(V \cup W, P)) = Cardinality(Pile(V, P)) + Cardinality(Pile(W, P))
  BY <1>1, PileJoin
<1>5. Cardinality(Pile(V \cup W, N)) = Cardinality(Pile(V, N)) + Cardinality(Pile(W, N))
  BY <1>1, PileJoin
<1>6. Cardinality(Pile(V, P)) \in Nat /\ Cardinality(Pile(V, N)) \in Nat
  BY <1>1, PileFinite
<1>7. Cardinality(Pile(W, P)) \in Nat /\ Cardinality(Pile(W, N)) \in Nat
  BY <1>1, PileFinite
<1>8. Pile(V, P) = Pile(V, Ups(V, f)) /\ Pile(V, N) = Pile(V, Downs(V, f))
  BY <1>2, PileSame
<1>9. Pile(W, P) = Pile(W, Ups(W, f)) /\ Pile(W, N) = Pile(W, Downs(W, f))
  BY <1>3, PileSame
<1>10. SumOver(V \cup W, f) = Cardinality(Pile(V \cup W, P)) - Cardinality(Pile(V \cup W, N))
  BY SumParts, Zenon DEF P, N
<1>11. SumOver(V, f) = Cardinality(Pile(V, P)) - Cardinality(Pile(V, N))
  BY <1>8, SumParts
<1>12. SumOver(W, f) = Cardinality(Pile(W, P)) - Cardinality(Pile(W, N))
  BY <1>9, SumParts
<1> QED
  BY <1>4, <1>5, <1>6, <1>7, <1>10, <1>11, <1>12

LEMMA PileNone == \A f : Pile({}, f) = {} /\ Cardinality(Pile({}, f)) = 0
<1>1. \A f : Pile({}, f) = {}
  BY Zenon DEF Pile
<1>2. Cardinality({}) = 0
  BY FS_EmptySet
<1> QED
  BY <1>1, <1>2, Zenon

LEMMA SumNone == ASSUME NEW f PROVE SumOver({}, f) = 0
<1>1. SumOver({}, f) = Cardinality(Pile({}, Ups({}, f))) - Cardinality(Pile({}, Downs({}, f)))
  BY SumParts
<1>2. Cardinality(Pile({}, Ups({}, f))) = 0 /\ Cardinality(Pile({}, Downs({}, f))) = 0
  BY PileNone, Zenon
<1> QED
  BY <1>1, <1>2

\* The sum of the same number for each owner.
LEMMA SumConstant ==
  ASSUME NEW S, IsFiniteSet(S), NEW n \in Nat, NEW f, \A w \in S : f[w] = n
  PROVE  SumOver(S, f) = Cardinality(S) * n
<1>1. SumOver(S, f) = Cardinality(Pile(S, Ups(S, f))) - Cardinality(Pile(S, Downs(S, f)))
  BY SumParts
<1>2. IsFiniteSet(1..n) /\ Cardinality(1..n) = n
  BY FS_Interval
<1>3. \A w \in S : Ups(S, f)[w] = n /\ Downs(S, f)[w] = 0
  BY DEF Ups, Downs, Up
<1>4. Pile(S, Ups(S, f)) = S \X (1..n)
  BY <1>3 DEF Pile
<1>5. Pile(S, Downs(S, f)) = {}
  BY <1>3 DEF Pile
<1>6. Cardinality(S \X (1..n)) = Cardinality(S) * n /\ Cardinality(S) \in Nat
  BY <1>2, FS_Product, FS_CardinalityType
<1> QED
  BY <1>1, <1>4, <1>5, <1>6, FS_EmptySet

LEMMA PileOne ==
  ASSUME NEW v, NEW f, f[v] \in Nat
  PROVE  Cardinality(Pile({v}, f)) = f[v]
<1>1. IsFiniteSet({}) /\ {} \cup {v} = {v}
  BY FS_EmptySet
<1>2. Cardinality(Pile({} \cup {v}, f)) = Cardinality(Pile({}, f)) + f[v]
  BY <1>1, PileAdd
<1>3. Cardinality(Pile({v}, f)) = 0 + f[v]
  BY <1>1, <1>2, PileNone, Zenon
<1> QED
  BY <1>3

LEMMA SumOne ==
  ASSUME NEW v, NEW f, f[v] \in Int
  PROVE  SumOver({v}, f) = f[v]
<1> DEFINE P == Ups({v}, f)
           N == Downs({v}, f)
<1>1. P[v] = Up(f[v]) /\ N[v] = Up(-f[v]) /\ P[v] \in Nat /\ N[v] \in Nat
  BY DEF Ups, Downs, Up
<1> HIDE DEF P, N
<1>2. Cardinality(Pile({v}, P)) = P[v] /\ Cardinality(Pile({v}, N)) = N[v]
  BY <1>1, PileOne
<1>3. SumOver({v}, f) = Cardinality(Pile({v}, P)) - Cardinality(Pile({v}, N))
  BY SumParts DEF P, N
<1> QED
  BY <1>1, <1>2, <1>3 DEF Up

\* What one owner contributes to a sum, beside the rest.
Addend(S, f, v) == IF v \in S THEN f[v] ELSE 0

LEMMA SumSplit ==
  ASSUME NEW T, IsFiniteSet(T), NEW S \in SUBSET T, NEW f, \A w \in S : f[w] \in Int, NEW v \in T
  PROVE  /\ SumOver(S \ {v}, f) \in Int
         /\ SumOver(S, f) = SumOver(S \ {v}, f) + Addend(S, f, v)
<1>1. IsFiniteSet(S \ {v}) /\ IsFiniteSet({v})
  BY FS_Subset, FS_Singleton
<1>2. SumOver(S \ {v}, f) \in Int
  BY <1>1, SumInt
<1>3. CASE v \in S
  <2>1. (S \ {v}) \cup {v} = S /\ (S \ {v}) \cap {v} = {}
    BY <1>3
  <2>2. SumOver((S \ {v}) \cup {v}, f) = SumOver(S \ {v}, f) + SumOver({v}, f)
    BY <1>1, <1>3, <2>1, SumJoin
  <2>3. SumOver({v}, f) = f[v]
    BY <1>3, SumOne
  <2> QED
    BY <1>2, <1>3, <2>1, <2>2, <2>3 DEF Addend
<1>4. CASE v \notin S
  <2>1. S \ {v} = S
    BY <1>4
  <2> QED
    BY <1>2, <1>4, <2>1 DEF Addend
<1> QED
  BY <1>2, <1>3, <1>4

\* A sum of which one owner enters, leaves or changes.
LEMMA SumMoved ==
  ASSUME NEW T, IsFiniteSet(T), NEW V \in SUBSET T, NEW W \in SUBSET T, NEW f, NEW g,
         \A w \in V : f[w] \in Int, \A w \in W : g[w] \in Int,
         NEW v \in T, V \ {v} = W \ {v}, \A w \in V \ {v} : f[w] = g[w]
  PROVE  /\ SumOver(V, f) \in Int /\ SumOver(W, g) \in Int
         /\ SumOver(W, g) = SumOver(V, f) - Addend(V, f, v) + Addend(W, g, v)
<1>1. SumOver(V \ {v}, f) \in Int /\ SumOver(V, f) = SumOver(V \ {v}, f) + Addend(V, f, v)
  BY SumSplit
<1>2. SumOver(W \ {v}, g) \in Int /\ SumOver(W, g) = SumOver(W \ {v}, g) + Addend(W, g, v)
  BY SumSplit
<1>3. SumOver(V \ {v}, f) = SumOver(V \ {v}, g)
  BY SumSame
<1>4. Addend(V, f, v) \in Int /\ Addend(W, g, v) \in Int
  BY DEF Addend
<1> QED
  BY <1>1, <1>2, <1>3, <1>4

\* The sum of a function of which one value changes.
LEMMA SumChanged ==
  ASSUME NEW S, IsFiniteSet(S), NEW f \in [S -> Int], NEW v \in S, NEW n \in Int
  PROVE  Sum(f) \in Int /\ Sum([f EXCEPT ![v] = n]) = Sum(f) - f[v] + n
<1> DEFINE g == [f EXCEPT ![v] = n]
<1>1. f = [w \in S |-> f[w]] /\ g = [w \in S |-> g[w]] /\ g[v] = n
      /\ \A w \in S : f[w] \in Int /\ g[w] \in Int /\ (w # v => g[w] = f[w])
  OBVIOUS
<1> HIDE DEF g
<1>2. /\ SumOver(S, f) \in Int
      /\ SumOver(S, g) = SumOver(S, f) - Addend(S, f, v) + Addend(S, g, v)
  BY <1>1, SumMoved
<1>3. SumOver(S, f) = Sum(f) /\ SumOver(S, g) = Sum(g)
  BY <1>1, Zenon DEF SumOver
<1>4. Addend(S, f, v) = f[v] /\ Addend(S, g, v) = n
  BY <1>1 DEF Addend
<1> QED
  BY <1>2, <1>3, <1>4, Zenon DEF g

\* A sum of natural numbers is one.
LEMMA SumNat ==
  ASSUME NEW S, IsFiniteSet(S), NEW f \in [S -> Nat]
  PROVE  Sum(f) \in Nat
<1>1. /\ SumOver(S, f) = Cardinality(Pile(S, Ups(S, f))) - Cardinality(Pile(S, Downs(S, f)))
      /\ Cardinality(Pile(S, Ups(S, f))) \in Nat
  BY PartsNat, PileFinite, SumParts
<1>2. Pile(S, Downs(S, f)) = {}
  <2>1. \A w \in S : Downs(S, f)[w] = 0
    BY DEF Downs, Up
  <2> QED
    BY <2>1 DEF Pile
<1>3. SumOver(S, f) = Sum(f)
  <2>1. f = [w \in S |-> f[w]]
    OBVIOUS
  <2> QED
    BY <2>1, Zenon DEF SumOver
<1> QED
  BY <1>1, <1>2, <1>3, FS_EmptySet

LEMMA SumZero == ASSUME NEW S PROVE Sum([w \in S |-> 0]) = 0
<1> DEFINE f == [w \in S |-> 0]
<1>1. Pile(S, f) = {} /\ Pile(S, [w \in S |-> -f[w]]) = {}
  BY DEF Pile
<1>2. Sum(f) = Cardinality(Pile(S, f)) - Cardinality(Pile(S, [w \in S |-> -f[w]]))
  BY DEF Sum
<1> QED
  BY <1>1, <1>2, FS_EmptySet

LEMMA SumTaken ==
  ASSUME NEW T, IsFiniteSet(T), NEW S \in SUBSET T, NEW f, \A w \in S : f[w] \in Int, NEW v \in S
  PROVE  SumOver(S \ {v}, f) \in Int /\ SumOver(S, f) = SumOver(S \ {v}, f) + f[v]
<1>1. v \in T
  OBVIOUS
<1>2. SumOver(S \ {v}, f) \in Int /\ SumOver(S, f) = SumOver(S \ {v}, f) + Addend(S, f, v)
  BY <1>1, SumSplit
<1> QED
  BY <1>2 DEF Addend

\* Sets closed under adding one member are all the finite ones: induction over a
\* finite set, for the sets a set G holds.
LEMMA SetInduction ==
  ASSUME NEW S, IsFiniteSet(S), NEW G \in SUBSET (SUBSET S), {} \in G,
         \A T \in SUBSET S : \A x \in T : T \ {x} \in G => T \in G
  PROVE  G = SUBSET S
<1> DEFINE Bad == {Cardinality(T) : T \in (SUBSET S) \ G}
<1>1. \A T \in SUBSET S : IsFiniteSet(T) /\ Cardinality(T) \in Nat
  BY FS_Subset, FS_CardinalityType
<1>2. SUFFICES ASSUME Bad # {} PROVE FALSE
  OBVIOUS
<1>3. Bad \subseteq Nat
  BY <1>1
<1> HIDE DEF Bad
<1>4. PICK m \in Bad : \A n \in Bad : m <= n
  BY <1>2, <1>3, Least
<1>5. PICK T \in (SUBSET S) \ G : m = Cardinality(T)
  BY <1>4 DEF Bad
<1>6. PICK x \in T : TRUE
  BY <1>5
<1>7. T \ {x} \in (SUBSET S) \ G
  BY <1>5, <1>6
<1>8. Cardinality(T \ {x}) = m - 1
  <2>1. IsFiniteSet(T)
    BY <1>1, <1>5
  <2>2. Cardinality(T \ {x}) = IF x \in T THEN Cardinality(T) - 1 ELSE Cardinality(T)
    BY <2>1, FS_RemoveElement, Zenon
  <2> QED
    BY <1>5, <1>6, <2>2
<1>9. Cardinality(T \ {x}) \in Bad
  BY <1>7 DEF Bad
<1> QED
  BY <1>3, <1>4, <1>8, <1>9

\* One at a time or as piles, the sum is the same.
LEMMA TallySum ==
  ASSUME NEW S, IsFiniteSet(S), NEW f \in [S -> Int]
  PROVE  Tally(f) = Sum(f) /\ Tally(f) \in Int
<1> DEFINE One(T) == CHOOSE x \in T : TRUE
           Grows(up) == up = [T \in SUBSET S |-> IF T = {} THEN 0 ELSE f[One(T)] + up[T \ {One(T)}]]
           goal == [T \in SUBSET S |-> SumOver(T, f)]
           up == CHOOSE u : Grows(u)
<1>1. \A T \in SUBSET S : T # {} => One(T) \in T /\ T \ {One(T)} \in SUBSET S
  OBVIOUS
<1> HIDE DEF One
<1>2. \A T \in SUBSET S : T # {} => SumOver(T, f) = f[One(T)] + SumOver(T \ {One(T)}, f)
  <2> SUFFICES ASSUME NEW T \in SUBSET S, T # {}
               PROVE  SumOver(T, f) = f[One(T)] + SumOver(T \ {One(T)}, f)
    OBVIOUS
  <2>1. One(T) \in T /\ One(T) \in S /\ f[One(T)] \in Int
    BY <1>1
  <2>2. \A w \in T : f[w] \in Int
    OBVIOUS
  <2>3. SumOver(T \ {One(T)}, f) \in Int /\ SumOver(T, f) = SumOver(T \ {One(T)}, f) + f[One(T)]
    BY <2>1, <2>2, SumTaken
  <2> QED
    BY <2>1, <2>3
<1>3. Grows(goal)
  <2>1. \A T \in SUBSET S : goal[T] = IF T = {} THEN 0 ELSE f[One(T)] + goal[T \ {One(T)}]
    BY <1>1, <1>2, SumNone
  <2>2. goal = [T \in SUBSET S |-> goal[T]]
    OBVIOUS
  <2> HIDE DEF goal
  <2>3. goal = [T \in SUBSET S |-> IF T = {} THEN 0 ELSE f[One(T)] + goal[T \ {One(T)}]]
    BY <2>1, <2>2
  <2> QED
    BY <2>3
<1>4. Grows(up)
  BY <1>3
<1>5. \A T \in SUBSET S : up[T] = goal[T]
  <2> DEFINE G == {T \in SUBSET S : up[T] = goal[T]}
  <2>1. up[{}] = 0 /\ goal[{}] = 0
    BY <1>3, <1>4
  <2>2. ASSUME NEW T \in SUBSET S, T # {}
        PROVE  /\ up[T] = f[One(T)] + up[T \ {One(T)}]
               /\ goal[T] = f[One(T)] + goal[T \ {One(T)}]
    BY <1>3, <1>4, <2>2
  <2> HIDE DEF up, goal, Grows
  <2> DEFINE Bad == {Cardinality(T) : T \in (SUBSET S) \ G}
  <2>3. \A T \in SUBSET S : IsFiniteSet(T) /\ Cardinality(T) \in Nat
    BY FS_Subset, FS_CardinalityType
  <2>4. CASE Bad = {}
    BY <2>4
  <2>5. CASE Bad # {}
    <3>1. Bad \subseteq Nat
      BY <2>3
    <3> HIDE DEF Bad
    <3>2. PICK m \in Bad : \A n \in Bad : m <= n
      BY <2>5, <3>1, Least
    <3>3. PICK T \in (SUBSET S) \ G : m = Cardinality(T)
      BY <3>2 DEF Bad
    <3>4. T # {} /\ One(T) \in T /\ T \ {One(T)} \in SUBSET S
      BY <1>1, <2>1, <3>3
    <3>5. Cardinality(T \ {One(T)}) = m - 1
      <4>1. IsFiniteSet(T)
        BY <2>3, <3>3
      <4>2. Cardinality(T \ {One(T)}) = IF One(T) \in T THEN Cardinality(T) - 1 ELSE Cardinality(T)
        BY <4>1, FS_RemoveElement, Zenon
      <4> QED
        BY <3>3, <3>4, <4>2
    <3>6. T \ {One(T)} \in G
      BY <3>1, <3>2, <3>4, <3>5 DEF Bad
    <3>7. up[T] = goal[T]
      BY <2>2, <3>3, <3>4, <3>6
    <3> QED
      BY <3>3, <3>7
  <2> QED
    BY <2>4, <2>5
<1>6. Tally(f) = up[S]
  <2>1. DOMAIN f = S
    OBVIOUS
  <2> QED
    BY <2>1 DEF Tally, One
<1>7. goal[S] = SumOver(S, f) /\ up[S] = goal[S]
  BY <1>5
<1>8. SumOver(S, f) = Sum(f) /\ SumOver(S, f) \in Int
  <2>1. f = [w \in S |-> f[w]]
    OBVIOUS
  <2> QED
    BY <2>1, SumInt DEF SumOver
<1> HIDE DEF up, goal
<1> QED
  BY <1>6, <1>7, <1>8, Zenon

LEMMA TallyOver ==
  ASSUME NEW S, IsFiniteSet(S), NEW f \in [S -> Int]
  PROVE  Tally(f) = SumOver(S, f) /\ Tally(f) \in Int
<1>1. f = [w \in S |-> f[w]]
  OBVIOUS
<1>2. Tally(f) = Sum(f) /\ Tally(f) \in Int
  BY TallySum
<1> QED
  BY <1>1, <1>2, Zenon DEF SumOver

LEMMA TallyNone == ASSUME NEW f \in [{} -> Int] PROVE Tally(f) = 0
<1>1. Tally(f) = SumOver({}, f)
  BY TallyOver, FS_EmptySet
<1> QED
  BY <1>1, SumNone

\* One of those counted.
LEMMA TallyOne == ASSUME NEW v, NEW f \in [{v} -> Int] PROVE Tally(f) = f[v]
<1>1. Tally(f) = SumOver({v}, f)
  BY TallyOver, FS_Singleton
<1>2. f[v] \in Int
  OBVIOUS
<1> QED
  BY <1>1, <1>2, SumOne

\* Sums of two functions are the sum of both, member by member.
LEMMA TallyPlus ==
  ASSUME NEW S, IsFiniteSet(S), NEW f \in [S -> Int], NEW g \in [S -> Int], NEW h \in [S -> Int],
         \A w \in S : h[w] = f[w] + g[w]
  PROVE  Tally(h) = Tally(f) + Tally(g)
<1> DEFINE G == {T \in SUBSET S : SumOver(T, h) = SumOver(T, f) + SumOver(T, g)}
<1>1. {} \in G
  <2>1. SumOver({}, f) = 0 /\ SumOver({}, g) = 0 /\ SumOver({}, h) = 0
    BY SumNone, Zenon
  <2> QED
    BY <2>1
<1>2. ASSUME NEW T \in SUBSET S, NEW x \in T, T \ {x} \in G PROVE T \in G
  <2>1. \A w \in T : f[w] \in Int /\ g[w] \in Int /\ h[w] \in Int
    OBVIOUS
  <2>2. SumOver(T \ {x}, f) \in Int /\ SumOver(T, f) = SumOver(T \ {x}, f) + f[x]
    BY <2>1, SumTaken
  <2>3. SumOver(T \ {x}, g) \in Int /\ SumOver(T, g) = SumOver(T \ {x}, g) + g[x]
    BY <2>1, SumTaken
  <2>4. SumOver(T \ {x}, h) \in Int /\ SumOver(T, h) = SumOver(T \ {x}, h) + h[x]
    BY <2>1, SumTaken
  <2>5. SumOver(T \ {x}, h) = SumOver(T \ {x}, f) + SumOver(T \ {x}, g)
    BY <1>2
  <2>6. h[x] = f[x] + g[x] /\ f[x] \in Int /\ g[x] \in Int
    OBVIOUS
  <2> QED
    BY <2>2, <2>3, <2>4, <2>5, <2>6
<1>3. G \in SUBSET (SUBSET S)
  OBVIOUS
<1>4. S \in G
  <2> HIDE DEF G
  <2>1. \A T \in SUBSET S : \A x \in T : T \ {x} \in G => T \in G
    BY <1>2
  <2>2. G = SUBSET S
    BY <1>1, <1>3, <2>1, SetInduction, Zenon
  <2> QED
    BY <2>2
<1>5. Tally(f) = SumOver(S, f) /\ Tally(g) = SumOver(S, g) /\ Tally(h) = SumOver(S, h)
  BY TallyOver
<1> QED
  BY <1>4, <1>5

\* More for each is more for all.
LEMMA TallyAtMost ==
  ASSUME NEW S, IsFiniteSet(S), NEW f \in [S -> Int], NEW g \in [S -> Int],
         \A w \in S : f[w] <= g[w]
  PROVE  Tally(f) <= Tally(g)
<1> DEFINE G == {T \in SUBSET S : SumOver(T, f) <= SumOver(T, g)}
<1>1. {} \in G
  <2>1. SumOver({}, f) = 0 /\ SumOver({}, g) = 0
    BY SumNone, Zenon
  <2> QED
    BY <2>1
<1>2. ASSUME NEW T \in SUBSET S, NEW x \in T, T \ {x} \in G PROVE T \in G
  <2>1. \A w \in T : f[w] \in Int /\ g[w] \in Int
    OBVIOUS
  <2>2. SumOver(T \ {x}, f) \in Int /\ SumOver(T, f) = SumOver(T \ {x}, f) + f[x]
    BY <2>1, SumTaken
  <2>3. SumOver(T \ {x}, g) \in Int /\ SumOver(T, g) = SumOver(T \ {x}, g) + g[x]
    BY <2>1, SumTaken
  <2>4. SumOver(T \ {x}, f) <= SumOver(T \ {x}, g)
    BY <1>2
  <2>5. f[x] <= g[x] /\ f[x] \in Int /\ g[x] \in Int
    OBVIOUS
  <2> QED
    BY <2>2, <2>3, <2>4, <2>5
<1>3. G \in SUBSET (SUBSET S)
  OBVIOUS
<1>4. S \in G
  <2> HIDE DEF G
  <2>1. \A T \in SUBSET S : \A x \in T : T \ {x} \in G => T \in G
    BY <1>2
  <2>2. G = SUBSET S
    BY <1>1, <1>3, <2>1, SetInduction, Zenon
  <2> QED
    BY <2>2
<1>5. Tally(f) = SumOver(S, f) /\ Tally(g) = SumOver(S, g)
  BY TallyOver
<1> QED
  BY <1>4, <1>5

\* A factor of each is a factor of the sum.
LEMMA TallyTimes ==
  ASSUME NEW S, IsFiniteSet(S), NEW f \in [S -> Int], NEW g \in [S -> Int], NEW n \in Int,
         \A w \in S : g[w] = n * f[w]
  PROVE  Tally(g) = n * Tally(f)
<1> DEFINE G == {T \in SUBSET S : SumOver(T, g) = n * SumOver(T, f)}
<1>1. {} \in G
  <2>1. SumOver({}, f) = 0 /\ SumOver({}, g) = 0
    BY SumNone, Zenon
  <2> QED
    BY <2>1
<1>2. ASSUME NEW T \in SUBSET S, NEW x \in T, T \ {x} \in G PROVE T \in G
  <2>1. \A w \in T : f[w] \in Int /\ g[w] \in Int
    OBVIOUS
  <2>2. SumOver(T \ {x}, f) \in Int /\ SumOver(T, f) = SumOver(T \ {x}, f) + f[x]
    BY <2>1, SumTaken
  <2>3. SumOver(T \ {x}, g) \in Int /\ SumOver(T, g) = SumOver(T \ {x}, g) + g[x]
    BY <2>1, SumTaken
  <2>4. SumOver(T \ {x}, g) = n * SumOver(T \ {x}, f)
    BY <1>2
  <2>5. g[x] = n * f[x] /\ f[x] \in Int
    OBVIOUS
  <2>6. \A a, b \in Int : n * (a + b) = n * a + n * b
    OBVIOUS
  <2>7. n * SumOver(T, f) = n * SumOver(T \ {x}, f) + n * f[x]
    BY <2>2, <2>5, <2>6
  <2> QED
    BY <2>3, <2>4, <2>5, <2>7
<1>3. G \in SUBSET (SUBSET S)
  OBVIOUS
<1>4. S \in G
  <2> HIDE DEF G
  <2>1. \A T \in SUBSET S : \A x \in T : T \ {x} \in G => T \in G
    BY <1>2
  <2>2. G = SUBSET S
    BY <1>1, <1>3, <2>1, SetInduction, Zenon
  <2> QED
    BY <2>2
<1>5. Tally(f) = SumOver(S, f) /\ Tally(g) = SumOver(S, g)
  BY TallyOver
<1> QED
  BY <1>4, <1>5

\* What counts for nothing may be counted.
LEMMA TallyWiden ==
  ASSUME NEW S, IsFiniteSet(S), NEW V \in SUBSET S, NEW f \in [V -> Int], NEW g \in [S -> Int],
         \A w \in V : g[w] = f[w], \A w \in S \ V : g[w] = 0
  PROVE  Tally(g) = Tally(f)
<1>1. IsFiniteSet(V) /\ IsFiniteSet(S \ V) /\ V \cup (S \ V) = S /\ V \cap (S \ V) = {}
  BY FS_Subset, FS_Difference
<1>2. \A w \in V \cup (S \ V) : g[w] \in Int
  OBVIOUS
<1>3. SumOver(V \cup (S \ V), g) = SumOver(V, g) + SumOver(S \ V, g)
  BY <1>1, <1>2, SumJoin
<1>4. SumOver(S \ V, g) = 0
  <2>1. SumOver(S \ V, g) = SumOver(S \ V, [w \in S \ V |-> 0])
    BY SumSame
  <2>2. Sum([w \in S \ V |-> 0]) = 0
    BY SumZero
  <2>3. [w \in S \ V |-> [v \in S \ V |-> 0][w]] = [w \in S \ V |-> 0]
    OBVIOUS
  <2> QED
    BY <2>1, <2>2, <2>3 DEF SumOver
<1>5. SumOver(V, g) = SumOver(V, f)
  BY SumSame
<1>6. Tally(g) = SumOver(S, g) /\ Tally(f) = SumOver(V, f) /\ SumOver(V, f) \in Int
  BY <1>1, TallyOver
<1>7. SumOver(S, g) = SumOver(V, f) + 0
  <2>1. SumOver(V \cup (S \ V), g) = SumOver(S, g)
    BY <1>1, Zenon
  <2> QED
    BY <2>1, <1>3, <1>4, <1>5, Zenon
<1> QED
  BY <1>6, <1>7

\* f is, owner by owner, what g holds for V and h holds for R.
MadeOf(S, V, R, f, g, h) ==
  \A w \in S : f[w] = (IF w \in V THEN g[w] ELSE 0) + (IF w \in R THEN h[w] ELSE 0)

\* What is settled with some of the owners, and what is left of the others, is the whole.
LEMMA TallySettled ==
  ASSUME NEW S, IsFiniteSet(S), NEW V \in SUBSET S, NEW R \in SUBSET S, NEW f \in [S -> Int],
         NEW g \in [V -> Int], NEW h \in [R -> Int],
         MadeOf(S, V, R, f, g, h)
  PROVE  Tally(f) = Tally(g) + Tally(h)
<1> DEFINE a == [w \in S |-> IF w \in V THEN g[w] ELSE 0]
           b == [w \in S |-> IF w \in R THEN h[w] ELSE 0]
<1>1. a \in [S -> Int] /\ b \in [S -> Int]
  OBVIOUS
<1>2. (\A w \in V : a[w] = g[w]) /\ (\A w \in S \ V : a[w] = 0)
  OBVIOUS
<1>3. (\A w \in R : b[w] = h[w]) /\ (\A w \in S \ R : b[w] = 0)
  OBVIOUS
<1>4. \A w \in S : f[w] = a[w] + b[w]
  BY DEF MadeOf
<1> HIDE DEF a, b
<1>5. Tally(a) = Tally(g)
  BY <1>1, <1>2, TallyWiden
<1>6. Tally(b) = Tally(h)
  BY <1>1, <1>3, TallyWiden
<1>7. Tally(f) = Tally(a) + Tally(b)
  BY <1>1, <1>4, TallyPlus
<1> QED
  BY <1>5, <1>6, <1>7

\* Nobody owes: the sum is not negative.
LEMMA TallyNat ==
  ASSUME NEW S, IsFiniteSet(S), NEW f \in [S -> Nat]
  PROVE  Tally(f) \in Nat
<1> DEFINE z == [w \in S |-> 0]
<1>1. f \in [S -> Int] /\ z \in [S -> Int]
  OBVIOUS
<1>2. (\A w \in S : z[w] = 0 * z[w]) /\ \A w \in S : z[w] <= f[w]
  OBVIOUS
<1> HIDE DEF z
<1>3. Tally(f) \in Int /\ Tally(z) \in Int
  BY <1>1, TallyOver
<1>4. Tally(z) = 0 * Tally(z)
  BY <1>1, <1>2, TallyTimes
<1>5. Tally(z) <= Tally(f)
  BY <1>1, <1>2, TallyAtMost
<1> QED
  BY <1>3, <1>4, <1>5

\* f is what owners had put in: those of V bring gain and earn pnl of it, those of R
\* keep h in.
Earns(S, V, R, f, gain, pnl, h) ==
  \A w \in S : f[w] = (IF w \in V THEN gain[w] - pnl[w] ELSE 0) + (IF w \in R THEN h[w] ELSE 0)

\* The books of a step: what some owners bring, less what is earned by it, is what they
\* had put in; the others keep what they have put in.
LEMMA TallyEarned ==
  ASSUME NEW S, IsFiniteSet(S), NEW V \in SUBSET S, NEW R \in SUBSET S, NEW f \in [S -> Int],
         NEW gain \in [V -> Int], NEW pnl \in [V -> Int], NEW h \in [R -> Int],
         Earns(S, V, R, f, gain, pnl, h)
  PROVE  /\ Tally(f) + Tally(pnl) = Tally(gain) + Tally(h)
         /\ Tally(f) \in Int /\ Tally(pnl) \in Int /\ Tally(gain) \in Int /\ Tally(h) \in Int
<1> DEFINE g == [w \in V |-> gain[w] - pnl[w]]
<1>1. g \in [V -> Int]
  OBVIOUS
<1>2. MadeOf(S, V, R, f, g, h)
  BY DEF Earns, MadeOf
<1>3. \A w \in V : gain[w] = g[w] + pnl[w]
  OBVIOUS
<1> HIDE DEF g
<1>4. Tally(f) = Tally(g) + Tally(h)
  BY <1>1, <1>2, TallySettled, Zenon
<1>5. IsFiniteSet(V) /\ IsFiniteSet(R)
  BY FS_Subset
<1>6. Tally(gain) = Tally(g) + Tally(pnl)
  BY <1>1, <1>3, <1>5, TallyPlus
<1>7. Tally(f) \in Int /\ Tally(pnl) \in Int /\ Tally(gain) \in Int /\ Tally(h) \in Int /\ Tally(g) \in Int
  BY <1>1, <1>5, TallyOver
<1> QED
  BY <1>4, <1>6, <1>7
=============================================================================
