------------------------------ MODULE Counting ------------------------------
(***************************************************************************)
(* Counting quantities out piece by piece: what finite sets of pieces have *)
(* to do with numbers.                                                     *)
(***************************************************************************)
EXTENDS Integers, FiniteSetTheorems, WellFoundedInduction, TLAPS

\* A pile of n pieces counts for n.
LEMMA PileCardinality ==
  ASSUME NEW x, NEW n \in Nat
  PROVE  IsFiniteSet({x} \X (1 .. n)) /\ Cardinality({x} \X (1 .. n)) = n
<1>1. IsFiniteSet({x}) /\ Cardinality({x}) = 1
  BY FS_Singleton
<1>2. IsFiniteSet(1 .. n) /\ Cardinality(1 .. n) = n
  BY FS_Interval
<1>3. Cardinality({x} \X (1 .. n)) = Cardinality({x}) * Cardinality(1 .. n)
  BY <1>1, <1>2, FS_Product
<1>4. IsFiniteSet({x} \X (1 .. n))
  BY <1>1, <1>2, FS_Product
<1>5. Cardinality({x} \X (1 .. n)) = 1 * n
  BY <1>1, <1>2, <1>3
<1> QED BY <1>4, <1>5

\* What two piles count for together is at most their sum.
LEMMA UnionCardinality ==
  ASSUME NEW S, NEW T, IsFiniteSet(S), IsFiniteSet(T)
  PROVE  /\ IsFiniteSet(S \cup T)
         /\ Cardinality(S \cup T) \in Nat
         /\ Cardinality(S \cup T) <= Cardinality(S) + Cardinality(T)
<1>1. IsFiniteSet(S \cap T)
  BY FS_Subset
<1>2. Cardinality(S \cap T) \in Nat /\ Cardinality(S) \in Nat /\ Cardinality(T) \in Nat
  BY <1>1, FS_CardinalityType
<1>3. IsFiniteSet(S \cup T) /\ Cardinality(S \cup T) = Cardinality(S) + Cardinality(T) - Cardinality(S \cap T)
  BY FS_Union
<1>4. Cardinality(S \cup T) \in Nat
  BY <1>3, FS_CardinalityType
<1> QED BY <1>2, <1>3, <1>4

\* X is made of the F[m], which overlap nowhere.
MadeOf(X, F, L) ==
    /\ \A x : x \in X <=> \E m \in L : x \in F[m]
    /\ \A m, n \in L : \A x : x \in F[m] /\ x \in F[n] => m = n

\* Member by member, F and G count alike.
CountAlike(F, G, L) ==
    \A m \in L : IsFiniteSet(F[m]) /\ IsFiniteSet(G[m]) /\ Cardinality(F[m]) = Cardinality(G[m])

\* What is made of families that count alike counts alike.
LEMMA FamilyCardinality ==
    ASSUME NEW L, NEW F, NEW G, NEW X, NEW Y,
           MadeOf(X, F, L), MadeOf(Y, G, L), CountAlike(F, G, L), IsFiniteSet(X)
    PROVE  IsFiniteSet(Y) /\ Cardinality(Y) = Cardinality(X)
<1>0. /\ \A x : x \in X <=> \E m \in L : x \in F[m]
      /\ \A x : x \in Y <=> \E m \in L : x \in G[m]
      /\ \A m \in L : IsFiniteSet(F[m]) /\ IsFiniteSet(G[m]) /\ Cardinality(F[m]) = Cardinality(G[m])
      /\ \A m, n \in L : \A x : x \in F[m] /\ x \in F[n] => m = n
      /\ \A m, n \in L : \A x : x \in G[m] /\ x \in G[n] => m = n
  BY Zenon DEF MadeOf, CountAlike
<1> USE <1>0
<1> DEFINE b == [m \in L |-> CHOOSE g : g \in Bijection(F[m], G[m])]
           home(x) == CHOOSE m \in L : x \in F[m]
           h == [x \in X |-> b[home(x)][x]]
<1>1. ASSUME NEW m \in L PROVE b[m] \in Bijection(F[m], G[m])
  <2>1. ExistsBijection(F[m], G[m])
    BY FS_SameCardinalityBij
  <2> QED BY <2>1 DEF ExistsBijection
<1>2. ASSUME NEW m \in L, NEW x \in F[m] PROVE x \in X /\ h[x] = b[m][x] /\ h[x] \in G[m]
  <2>1. x \in X
    OBVIOUS
  <2>2. home(x) \in L /\ x \in F[home(x)]
    OBVIOUS
  <2>3. home(x) = m
    BY <2>2
  <2>4. h[x] = b[m][x]
    <3> HIDE DEF b, home
    <3> QED BY <2>1, <2>3
  <2>5. b[m][x] \in G[m]
    BY <1>1 DEF Bijection, Injection
  <2> QED BY <2>1, <2>4, <2>5
<1>3. h \in [X -> Y]
  <2> SUFFICES ASSUME NEW x \in X PROVE h[x] \in Y
    OBVIOUS
  <2>1. PICK m \in L : x \in F[m]
    OBVIOUS
  <2>2. h[x] \in G[m]
    BY <1>2, <2>1
  <2> QED BY <2>2
<1> HIDE DEF h, b
<1>4. ASSUME NEW x \in X, NEW y \in X, h[x] = h[y] PROVE x = y
  <2>1. PICK m \in L : x \in F[m]
    OBVIOUS
  <2>2. PICK n \in L : y \in F[n]
    OBVIOUS
  <2>3. h[x] = b[m][x] /\ h[x] \in G[m] /\ h[y] = b[n][y] /\ h[y] \in G[n]
    BY <1>2, <2>1, <2>2
  <2>4. m = n
    BY <1>4, <2>3
  <2>5. b[m] \in [F[m] -> G[m]] /\ IsInjective(b[m])
    BY <1>1 DEF Bijection, Injection
  <2>6. x \in DOMAIN b[m] /\ y \in DOMAIN b[m] /\ b[m][x] = b[m][y]
    BY <1>4, <2>1, <2>2, <2>3, <2>4, <2>5
  <2> QED BY <2>5, <2>6 DEF IsInjective
<1>5. ASSUME NEW z \in Y PROVE \E x \in X : h[x] = z
  <2>1. PICK m \in L : z \in G[m]
    OBVIOUS
  <2>2. PICK x \in F[m] : b[m][x] = z
    BY <1>1, <2>1 DEF Bijection, Surjection
  <2> QED BY <1>2, <2>2
<1>6. h \in Bijection(X, Y)
  BY <1>3, <1>4, <1>5 DEF Bijection, Injection, IsInjective, Surjection
<1>7. ExistsBijection(X, Y)
  BY <1>6 DEF ExistsBijection
<1> QED BY <1>7, FS_Bijection

\* X has q[m] pieces of each heap m.
Heaps(X, q, L) == \A x : x \in X <=> \E m \in L : \E i \in 1 .. q[m] : x = <<m, i>>

\* G[m] counts for what k[m] lacks of q[m].
CountRest(G, q, k, L) ==
    \A m \in L : k[m] <= q[m] /\ IsFiniteSet(G[m]) /\ Cardinality(G[m]) = q[m] - k[m]

\* What is left of the heaps and what was taken from them make up the heaps.
LEMMA LeftAndTaken ==
    ASSUME NEW L, NEW q \in [L -> Nat], NEW k \in [L -> Nat], NEW G, NEW X, NEW Left, NEW Out,
           Heaps(X, q, L), Heaps(Left, k, L), MadeOf(Out, G, L), CountRest(G, q, k, L), IsFiniteSet(X)
    PROVE  /\ Cardinality(Left) \in Nat
           /\ Cardinality(Out) \in Nat
           /\ Cardinality(X) = Cardinality(Left) + Cardinality(Out)
<1>0. /\ \A x : x \in X <=> \E m \in L : \E i \in 1 .. q[m] : x = <<m, i>>
      /\ \A x : x \in Left <=> \E m \in L : \E i \in 1 .. k[m] : x = <<m, i>>
      /\ \A m \in L : k[m] <= q[m] /\ IsFiniteSet(G[m]) /\ Cardinality(G[m]) = q[m] - k[m]
  BY Zenon DEF Heaps, CountRest
<1> USE <1>0
<1> DEFINE F == [m \in L |-> {m} \X (k[m] + 1 .. q[m])]
           Gone == UNION {F[m] : m \in L}
<1>1. ASSUME NEW m \in L, NEW i
      PROVE  i \in 1 .. q[m] <=> i \in 1 .. k[m] \/ i \in k[m] + 1 .. q[m]
  <2>1. q[m] \in Nat /\ k[m] \in Nat /\ k[m] <= q[m]
    OBVIOUS
  <2> QED BY <2>1
<1>2. ASSUME NEW m \in L, NEW i
      PROVE  ~(i \in 1 .. k[m] /\ i \in k[m] + 1 .. q[m])
  <2>1. q[m] \in Nat /\ k[m] \in Nat
    OBVIOUS
  <2> QED BY <2>1
<1>5. \A x : x \in Gone <=> \E m \in L : \E i \in k[m] + 1 .. q[m] : x = <<m, i>>
  OBVIOUS
<1>6. X = Left \cup Gone /\ Left \cap Gone = {}
  <2> HIDE DEF Gone
  <2>1. ASSUME NEW x PROVE x \in X <=> x \in Left \cup Gone
    BY <1>1, <1>5, Zenon
  <2>2. ASSUME NEW x \in Left, x \in Gone PROVE FALSE
    <3>1. PICK m \in L : \E i \in 1 .. k[m] : x = <<m, i>>
      BY <2>2, Zenon
    <3>2. PICK n \in L : \E j \in k[n] + 1 .. q[n] : x = <<n, j>>
      BY <1>5, <2>2, Zenon
    <3>3. \E i \in 1 .. k[m] : i \in k[n] + 1 .. q[n] /\ m = n
      BY <3>1, <3>2
    <3> QED BY <1>2, <3>3
  <2> QED BY <2>1, <2>2
<1>7. IsFiniteSet(Left) /\ IsFiniteSet(Gone)
  <2> HIDE DEF Gone
  <2>2. Left \in SUBSET X /\ Gone \in SUBSET X
    BY <1>6
  <2> QED BY <2>2, FS_Subset
<1>8. ASSUME NEW m \in L
      PROVE  IsFiniteSet(F[m]) /\ IsFiniteSet(G[m]) /\ Cardinality(F[m]) = Cardinality(G[m])
  <2>1. q[m] \in Nat /\ k[m] \in Nat /\ k[m] <= q[m]
    OBVIOUS
  <2> DEFINE gone == k[m] + 1 .. q[m]
  <2>2. IsFiniteSet(gone) /\ Cardinality(gone) = IF k[m] + 1 > q[m] THEN 0 ELSE q[m] - (k[m] + 1) + 1
    <3>1. k[m] + 1 \in Int /\ q[m] \in Int
      BY <2>1
    <3> QED BY <3>1, FS_Interval
  <2>3. Cardinality(gone) = q[m] - k[m]
    <3> DEFINE a == k[m]
               b == q[m]
    <3>1. a \in Nat /\ b \in Nat /\ a <= b
      BY <2>1
    <3>2. Cardinality(gone) = IF a + 1 > b THEN 0 ELSE b - (a + 1) + 1
      BY <2>2
    <3> HIDE DEF gone, F, a, b
    <3>3. Cardinality(gone) = b - a
      BY ONLY <3>1, <3>2
    <3> QED BY <3>3 DEF a, b
  <2>4. IsFiniteSet({m}) /\ Cardinality({m}) = 1
    BY FS_Singleton
  <2>5. IsFiniteSet({m} \X gone) /\ Cardinality({m} \X gone) = 1 * Cardinality(gone)
    <3> DEFINE one == {m}
    <3>1. IsFiniteSet(one) /\ Cardinality(one) = 1
      BY <2>4
    <3> HIDE DEF gone, one
    <3>2. IsFiniteSet(one \X gone) /\ Cardinality(one \X gone) = Cardinality(one) * Cardinality(gone)
      BY ONLY <2>2, <3>1, FS_Product
    <3>3. IsFiniteSet(one \X gone) /\ Cardinality(one \X gone) = 1 * Cardinality(gone)
      BY ONLY <3>1, <3>2
    <3> QED BY <3>3 DEF one
  <2>6. F[m] = {m} \X gone
    OBVIOUS
  <2> HIDE DEF F, gone
  <2> QED BY <2>1, <2>3, <2>5, <2>6
<1>9. \A m, n \in L : \A x : x \in F[m] /\ x \in F[n] => m = n
  OBVIOUS
<1>10. IsFiniteSet(Out) /\ Cardinality(Out) = Cardinality(Gone)
  <2>1. \A x : x \in Gone <=> \E m \in L : x \in F[m]
    OBVIOUS
  <2> HIDE DEF F, Gone
  <2>2. MadeOf(Gone, F, L)
    BY <1>9, <2>1 DEF MadeOf
  <2>3. CountAlike(F, G, L)
    BY <1>8 DEF CountAlike
  <2> QED BY <1>7, <2>2, <2>3, FamilyCardinality
<1> HIDE DEF Gone
<1>11. Cardinality(Left) \in Nat /\ Cardinality(Gone) \in Nat
  BY <1>7, FS_CardinalityType
<1>12. Cardinality(X) = Cardinality(Left) + Cardinality(Gone)
  <2>1. Cardinality({}) = 0
    BY FS_EmptySet
  <2>2. Cardinality(Left \cup Gone) = Cardinality(Left) + Cardinality(Gone) - Cardinality(Left \cap Gone)
    BY <1>7, FS_Union
  <2>3. Cardinality(Left \cap Gone) = 0 /\ Cardinality(X) = Cardinality(Left \cup Gone)
    BY <1>6, <2>1, Zenon
  <2> QED BY <1>11, <2>2, <2>3
<1>13. Cardinality(X) = Cardinality(Left) + Cardinality(Out)
  BY <1>10, <1>12
<1> QED BY <1>10, <1>11, <1>13

\* Every set of numbers that is not empty has a least one.
LEMMA LeastNatural ==
    ASSUME NEW T \in SUBSET Nat, T # {}
    PROVE  \E least \in T : \A n \in T : least <= n
<1> DEFINE Less == {ss \in Nat \X Nat : ss[1] < ss[2]}
<1>1. Less = OpToRel(<, Nat)
  BY Zenon DEF OpToRel
<1>2. IsWellFoundedOn(Less, Nat)
  BY <1>1, NatLessThanWellFounded, Zenon
<1> HIDE DEF Less
<1>3. PICK least \in T : \A n \in T : <<n, least>> \notin Less
  BY <1>2, WFMin
<1>4. ASSUME NEW n \in T PROVE least <= n
  <2>1. <<n, least>> \in Nat \X Nat /\ <<n, least>>[1] = n /\ <<n, least>>[2] = least
    OBVIOUS
  <2>2. ~(n < least)
    BY <1>3, <2>1 DEF Less
  <2> QED BY <2>2
<1> QED BY <1>4

-----------------------------------------------------------------------------
(* Piles *)

\* Finitely many heaps of finitely many pieces are finitely many pieces.
LEMMA HeapsFinite ==
    ASSUME NEW L, IsFiniteSet(L), NEW q \in [L -> Nat], NEW X, Heaps(X, q, L)
    PROVE  IsFiniteSet(X) /\ Cardinality(X) \in Nat
<1> DEFINE pile == [m \in L |-> {m} \X (1 .. q[m])]
           Piles == {pile[m] : m \in L}
<1>1. pile \in Surjection(L, Piles)
  BY DEF Surjection
<1>2. IsFiniteSet(Piles)
  BY <1>1, FS_Surjection
<1>3. \A P \in Piles : IsFiniteSet(P)
  <2> SUFFICES ASSUME NEW m \in L PROVE IsFiniteSet({m} \X (1 .. q[m]))
    OBVIOUS
  <2>1. q[m] \in Nat
    OBVIOUS
  <2> QED BY <2>1, PileCardinality
<1>4. IsFiniteSet(UNION Piles)
  <2> HIDE DEF Piles
  <2> QED BY <1>2, <1>3, FS_UNION
<1>5. \A x : x \in UNION Piles <=> \E m \in L : \E i \in 1 .. q[m] : x = <<m, i>>
  OBVIOUS
<1>6. UNION Piles = X
  <2> HIDE DEF Piles
  <2> QED BY <1>5, Zenon DEF Heaps
<1> HIDE DEF Piles
<1> QED BY <1>4, <1>6, FS_CardinalityType

\* Smaller heaps count for less.
LEMMA HeapsMonotone ==
    ASSUME NEW L, IsFiniteSet(L), NEW p \in [L -> Nat], NEW q \in [L -> Nat],
           \A m \in L : p[m] <= q[m], NEW X, Heaps(X, p, L), NEW Y, Heaps(Y, q, L)
    PROVE  Cardinality(X) <= Cardinality(Y)
<1>1. ASSUME NEW x \in X PROVE x \in Y
  <2>1. PICK m \in L : \E i \in 1 .. p[m] : x = <<m, i>>
    BY Zenon DEF Heaps
  <2>2. PICK i \in 1 .. p[m] : x = <<m, i>>
    BY <2>1
  <2>3. p[m] \in Nat /\ q[m] \in Nat /\ p[m] <= q[m]
    OBVIOUS
  <2>4. i \in 1 .. q[m]
    BY <2>3
  <2> QED BY <2>2, <2>4, Zenon DEF Heaps
<1>2. IsFiniteSet(Y)
  BY HeapsFinite
<1> QED BY <1>1, <1>2, FS_Subset

-----------------------------------------------------------------------------
(* Ranks *)

\* R puts the members of S in a row.
InRow(R, S) ==
    /\ \A t \in S : <<t, t>> \notin R
    /\ \A t, u, w \in S : <<t, u>> \in R /\ <<u, w>> \in R => <<t, w>> \in R
    /\ \A t, u \in S : t = u \/ <<t, u>> \in R \/ <<u, t>> \in R

Preceding(R, S, t) == {u \in S : <<u, t>> \in R}

\* As many are ahead of the one as ahead of the other only if they are the same.
LEMMA RankOrders ==
    ASSUME NEW S, IsFiniteSet(S), NEW R, InRow(R, S), NEW t \in S
    PROVE  /\ Cardinality(Preceding(R, S, t)) \in Nat
           /\ Cardinality(Preceding(R, S, t)) < Cardinality(S)
           /\ \A u \in S : <<t, u>> \in R =>
                Cardinality(Preceding(R, S, t)) < Cardinality(Preceding(R, S, u))
<1>1. \A u \in S : Preceding(R, S, u) \in SUBSET S
  BY DEF Preceding
<1>2. \A u \in S : IsFiniteSet(Preceding(R, S, u)) /\ Cardinality(Preceding(R, S, u)) \in Nat
  BY <1>1, FS_Subset, FS_CardinalityType
<1>3. Cardinality(S) \in Nat
  BY FS_CardinalityType
<1>4. t \notin Preceding(R, S, t)
  BY DEF Preceding, InRow
<1>5. /\ Cardinality(Preceding(R, S, t)) <= Cardinality(S)
      /\ Cardinality(S) = Cardinality(Preceding(R, S, t)) => S = Preceding(R, S, t)
  BY <1>1, FS_Subset
<1>6. Cardinality(Preceding(R, S, t)) # Cardinality(S)
  BY <1>4, <1>5
<1>7. ASSUME NEW u \in S, <<t, u>> \in R
      PROVE  Cardinality(Preceding(R, S, t)) < Cardinality(Preceding(R, S, u))
  <2>1. Preceding(R, S, t) \in SUBSET Preceding(R, S, u)
    BY <1>7 DEF Preceding, InRow
  <2>2. t \in Preceding(R, S, u)
    BY <1>7 DEF Preceding
  <2>3. /\ Cardinality(Preceding(R, S, t)) <= Cardinality(Preceding(R, S, u))
        /\ Cardinality(Preceding(R, S, u)) = Cardinality(Preceding(R, S, t)) => Preceding(R, S, u) = Preceding(R, S, t)
    BY <1>2, <2>1, FS_Subset
  <2>4. Cardinality(Preceding(R, S, u)) # Cardinality(Preceding(R, S, t))
    BY <1>4, <2>2, <2>3
  <2> QED BY <1>2, <2>3, <2>4
<1> QED BY <1>2, <1>3, <1>5, <1>6, <1>7

\* Somebody is first.
LEMMA FirstInRow ==
    ASSUME NEW S, IsFiniteSet(S), S # {}, NEW R, InRow(R, S)
    PROVE  \E t \in S : \A u \in S : u = t \/ <<t, u>> \in R
<1> DEFINE rank == [t \in S |-> Cardinality(Preceding(R, S, t))]
           Ranks == {rank[t] : t \in S}
<1>1. \A t, u \in S : rank[t] \in Nat /\ (<<t, u>> \in R => rank[t] < rank[u])
  BY RankOrders
<1> HIDE DEF rank
<1>2. Ranks \in SUBSET Nat /\ Ranks # {}
  BY <1>1
<1>3. \E least \in Ranks : \A n \in Ranks : least <= n
  <2> HIDE DEF Ranks
  <2> QED BY <1>2, LeastNatural
<1>4. PICK t \in S : \A u \in S : rank[t] <= rank[u]
  BY <1>3
<1>5. ASSUME NEW u \in S, u # t PROVE <<t, u>> \in R
  <2>1. rank[t] \in Nat /\ rank[u] \in Nat /\ rank[t] <= rank[u]
    BY <1>1, <1>4
  <2>2. <<u, t>> \in R => rank[u] < rank[t]
    BY <1>1
  <2>3. <<u, t>> \notin R
    BY <2>1, <2>2
  <2> QED BY <1>5, <2>3 DEF InRow
<1> QED BY <1>5

\* Somebody is last.
LEMMA LastInRow ==
    ASSUME NEW S, IsFiniteSet(S), S # {}, NEW R, InRow(R, S)
    PROVE  \E t \in S : \A u \in S : u = t \/ <<u, t>> \in R
<1> DEFINE Back == {p \in S \X S : <<p[2], p[1]>> \in R}
<1>1. \A t, u \in S : <<t, u>> \in Back <=> <<u, t>> \in R
  OBVIOUS
<1> HIDE DEF Back
<1>2. InRow(Back, S)
  BY <1>1 DEF InRow
<1>3. \E t \in S : \A u \in S : u = t \/ <<t, u>> \in Back
  BY <1>2, FirstInRow
<1> QED BY <1>1, <1>3

\* The first n of a row.
Top(R, S, n) == {t \in S : Cardinality(Preceding(R, S, t)) < n}

LEMMA TopOfRow ==
    ASSUME NEW S, IsFiniteSet(S), NEW R, InRow(R, S), NEW n \in Nat
    PROVE  /\ \A t \in Top(R, S, n) : \A u \in S : <<u, t>> \in R => u \in Top(R, S, n)
           /\ Cardinality(S) <= n => Top(R, S, n) = S
           /\ n # 0 /\ S # {} => Top(R, S, n) # {}
           /\ n = 0 => Top(R, S, n) = {}
<1>1. \A t \in S :
        /\ Cardinality(Preceding(R, S, t)) \in Nat
        /\ Cardinality(Preceding(R, S, t)) < Cardinality(S)
        /\ \A u \in S : <<t, u>> \in R => Cardinality(Preceding(R, S, t)) < Cardinality(Preceding(R, S, u))
  BY RankOrders
<1>2. Cardinality(S) \in Nat
  BY FS_CardinalityType
<1>3. ASSUME NEW t \in Top(R, S, n), NEW u \in S, <<u, t>> \in R
      PROVE  u \in Top(R, S, n)
  <2>1. t \in S /\ Cardinality(Preceding(R, S, t)) < n
    BY DEF Top
  <2>2. Cardinality(Preceding(R, S, u)) < Cardinality(Preceding(R, S, t))
    BY <1>1, <1>3, <2>1
  <2>3. Cardinality(Preceding(R, S, u)) \in Nat /\ Cardinality(Preceding(R, S, t)) \in Nat
    BY <1>1, <2>1
  <2>4. Cardinality(Preceding(R, S, u)) < n
    BY <2>1, <2>2, <2>3
  <2> QED BY <2>4 DEF Top
<1>4. ASSUME Cardinality(S) <= n, NEW t \in S PROVE t \in Top(R, S, n)
  <2>1. Cardinality(Preceding(R, S, t)) \in Nat /\ Cardinality(Preceding(R, S, t)) < Cardinality(S)
    BY <1>1
  <2>2. Cardinality(Preceding(R, S, t)) < n
    BY <1>2, <1>4, <2>1
  <2> QED BY <2>2 DEF Top
<1>5. ASSUME n # 0, S # {} PROVE Top(R, S, n) # {}
  <2>1. PICK t \in S : \A u \in S : u = t \/ <<t, u>> \in R
    BY <1>5, FirstInRow
  <2>2. Preceding(R, S, t) = {}
    BY <2>1 DEF Preceding, InRow
  <2>3. Cardinality(Preceding(R, S, t)) = 0
    BY <2>2, FS_EmptySet
  <2>4. t \in Top(R, S, n)
    BY <1>5, <2>3 DEF Top
  <2> QED BY <2>4
<1>6. ASSUME n = 0, NEW t \in Top(R, S, n) PROVE FALSE
  <2>1. Cardinality(Preceding(R, S, t)) \in Nat /\ Cardinality(Preceding(R, S, t)) < 0
    BY <1>1, <1>6 DEF Top
  <2> QED BY <2>1
<1>7. Top(R, S, n) \subseteq S
  BY DEF Top
<1> QED BY <1>3, <1>4, <1>5, <1>6, <1>7
=============================================================================
