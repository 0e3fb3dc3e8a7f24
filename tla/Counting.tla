------------------------------ MODULE Counting ------------------------------
(* Facts about counts that the proofs on several components share: sets that *)
(* differ in one element, sums kept as sets of pairs, least numbers.         *)
EXTENDS Integers, FiniteSets, FiniteSetTheorems, WellFoundedInduction, TLAPS

(* A set that differs from another in one element at most.                   *)
LEMMA CountMoves ==
  ASSUME NEW S, NEW R, NEW t, IsFiniteSet(S), S \ {t} = R \ {t}
  PROVE  /\ Cardinality(S) \in Nat /\ Cardinality(R) \in Nat
         /\ Cardinality(R) = Cardinality(S) + (IF t \in R THEN 1 ELSE 0)
                                            - (IF t \in S THEN 1 ELSE 0)
<1> DEFINE Q == S \ {t}
<1>1. /\ IsFiniteSet(Q) /\ Cardinality(Q) \in Nat /\ Cardinality(S) \in Nat
      /\ Cardinality(Q) = IF t \in S THEN Cardinality(S) - 1 ELSE Cardinality(S)
  BY FS_RemoveElement, FS_CardinalityType
<1>2. t \notin Q /\ Cardinality(Q \cup {t}) = Cardinality(Q) + 1
  BY <1>1, FS_AddElement
<1>3. t \in R => R = Q \cup {t}
  OBVIOUS
<1>4. t \notin R => R = Q
  <2>1. ASSUME t \notin R PROVE R = R \ {t}
    BY <2>1
  <2> QED
    BY <2>1
<1> HIDE DEF Q
<1>5. CASE t \in R
  <2>1. Cardinality(R) = Cardinality(Q) + 1
    BY <1>2, <1>3, <1>5
  <2> QED
    BY <1>1, <1>5, <2>1
<1>6. CASE t \notin R
  <2>1. Cardinality(R) = Cardinality(Q)
    BY <1>4, <1>6
  <2> QED
    BY <1>1, <1>6, <2>1
<1> QED
  BY <1>5, <1>6

(* The numbers below f(t), one column for each thread t: their count is the   *)
(* sum of f, so that it changes with one value of f.                         *)
LEMMA ColumnsMove ==
  ASSUME NEW S, IsFiniteSet(S), NEW B \in Nat, NEW f \in [S -> 0..B],
         NEW g \in [S -> 0..B], NEW t \in S, \A u \in S \ {t} : g[u] = f[u]
  PROVE  LET Under(h) == {p \in S \X (1..B) : p[2] =< h[p[1]]}
         IN  /\ Cardinality(Under(f)) \in Nat /\ Cardinality(Under(g)) \in Nat
             /\ Cardinality(Under(g)) = Cardinality(Under(f)) + g[t] - f[t]
<1> DEFINE Under(h) == {p \in S \X (1..B) : p[2] =< h[p[1]]}
           Rest(h) == {p \in S \X (1..B) : p[1] # t /\ p[2] =< h[p[1]]}
           Column(n) == {t} \X (1..n)
<1>1. ASSUME NEW n \in 0..B
      PROVE  IsFiniteSet(Column(n)) /\ Cardinality(Column(n)) = n
  <2>1. IsFiniteSet(1..n) /\ Cardinality(1..n) = n /\ n \in Nat
    <3>1. n \in Nat /\ 1 \in Int /\ n \in Int
      OBVIOUS
    <3>2. IsFiniteSet(1..n) /\ Cardinality(1..n) = IF 1 > n THEN 0 ELSE n - 1 + 1
      BY <3>1, FS_Interval
    <3> QED
      BY <3>1, <3>2
  <2>2. IsFiniteSet({t}) /\ Cardinality({t}) = 1
    BY FS_Singleton
  <2>3. IsFiniteSet({t} \X (1..n)) /\ Cardinality({t} \X (1..n)) = 1 * n
    <3>1. /\ IsFiniteSet({t} \X (1..n))
          /\ Cardinality({t} \X (1..n)) = Cardinality({t}) * Cardinality(1..n)
      BY Zenon, <2>1, <2>2, FS_Product
    <3> QED
      BY Zenon, <2>1, <2>2, <3>1
  <2> QED
    BY <2>1, <2>3
<1>2. IsFiniteSet(S \X (1..B))
  <2>1. 1 \in Int /\ B \in Int
    OBVIOUS
  <2>2. IsFiniteSet(1..B)
    BY <2>1, FS_Interval
  <2> QED
    BY <2>2, FS_Product
<1>3. IsFiniteSet(Rest(f)) /\ Cardinality(Rest(f)) \in Nat
  BY <1>2, FS_Subset, FS_CardinalityType
<1>4. Rest(g) = Rest(f)
  OBVIOUS
<1>5. ASSUME NEW h \in [S -> 0..B], Rest(h) = Rest(f)
      PROVE  Cardinality(Under(h)) = Cardinality(Rest(f)) + h[t]
  <2>1. Rest(h) \cap Column(h[t]) = {}
    OBVIOUS
  <2>3. ASSUME NEW p \in S \X (1..B)
        PROVE  p \in Under(h) <=> p \in Rest(h) \/ p \in Column(h[t])
    <3>1. PICK u \in S, i \in 1..B : p = <<u, i>>
      OBVIOUS
    <3>2. p[1] = u /\ p[2] = i
      BY <3>1
    <3> QED
      BY <3>1, <3>2
  <2>4. Under(h) \subseteq S \X (1..B) /\ Rest(h) \subseteq S \X (1..B)
    OBVIOUS
  <2>5. Column(h[t]) \subseteq S \X (1..B)
    <3>1. h[t] \in 0..B
      OBVIOUS
    <3> QED
      BY <3>1
  <2>6. Under(h) = Rest(h) \cup Column(h[t])
    <3> HIDE DEF Under, Rest, Column
    <3> QED
      BY <2>3, <2>4, <2>5
  <2>2. h[t] \in 0..B
    OBVIOUS
  <2>7. /\ IsFiniteSet(Column(h[t])) /\ Cardinality(Column(h[t])) = h[t]
        /\ IsFiniteSet(Rest(h)) /\ Cardinality(Rest(h)) = Cardinality(Rest(f))
        /\ Cardinality(Rest(h)) \in Nat /\ h[t] \in Nat
    <3> HIDE DEF Under, Rest, Column
    <3>1. IsFiniteSet(Column(h[t])) /\ Cardinality(Column(h[t])) = h[t]
      BY <1>1, <2>2
    <3> QED
      BY <1>3, <1>5, <2>2, <3>1
  <2>8. Cardinality({}) = 0
    BY FS_EmptySet
  <2> HIDE DEF Under, Rest, Column
  <2>9. Cardinality(Rest(h) \cup Column(h[t])) =
          Cardinality(Rest(h)) + Cardinality(Column(h[t])) - Cardinality(Rest(h) \cap Column(h[t]))
    BY <2>7, FS_Union
  <2> QED
    BY <2>1, <2>6, <2>7, <2>8, <2>9
<1>6. /\ Cardinality(Under(f)) = Cardinality(Rest(f)) + f[t]
      /\ Cardinality(Under(g)) = Cardinality(Rest(f)) + g[t]
  BY <1>4, <1>5
<1> HIDE DEF Under, Rest
<1>7. f[t] \in Nat /\ g[t] \in Nat
  OBVIOUS
<1>8. /\ Cardinality(Under(f)) \in Nat /\ Cardinality(Under(g)) \in Nat
      /\ Cardinality(Under(g)) = Cardinality(Under(f)) + g[t] - f[t]
  BY <1>3, <1>6, <1>7
<1> QED
  BY <1>8 DEF Under

(* The sum of two columns is at most the sum of all.                         *)
LEMMA ColumnsBound ==
  ASSUME NEW S, IsFiniteSet(S), NEW B \in Nat, NEW f \in [S -> 0..B]
  PROVE  LET Under(h) == {p \in S \X (1..B) : p[2] =< h[p[1]]}
         IN  /\ Cardinality(Under(f)) \in Nat
             /\ \A t \in S : f[t] =< Cardinality(Under(f))
             /\ \A t, u \in S : t # u => f[t] + f[u] =< Cardinality(Under(f))
<1> DEFINE Under(h) == {p \in S \X (1..B) : p[2] =< h[p[1]]}
           Without(h, t) == [h EXCEPT ![t] = 0]
<1>1. ASSUME NEW h \in [S -> 0..B], NEW t \in S
      PROVE  /\ Without(h, t) \in [S -> 0..B] /\ Without(h, t)[t] = 0
             /\ \A u \in S \ {t} : Without(h, t)[u] = h[u]
             /\ Cardinality(Under(h)) \in Nat /\ Cardinality(Under(Without(h, t))) \in Nat
             /\ Cardinality(Under(h)) = Cardinality(Under(Without(h, t))) + h[t]
  <2> DEFINE g == Without(h, t)
  <2>1. g \in [S -> 0..B] /\ g[t] = 0 /\ \A u \in S \ {t} : g[u] = h[u]
    OBVIOUS
  <2>2. h[t] \in Nat
    OBVIOUS
  <2> HIDE DEF g
  <2>3. /\ Cardinality(Under(h)) \in Nat /\ Cardinality(Under(g)) \in Nat
        /\ Cardinality(Under(g)) = Cardinality(Under(h)) + g[t] - h[t]
    BY <2>1, ColumnsMove
  <2> HIDE DEF Under
  <2>4. Cardinality(Under(h)) = Cardinality(Under(g)) + h[t]
    BY <2>1, <2>2, <2>3
  <2> QED
    BY <2>1, <2>3, <2>4 DEF g
<1> HIDE DEF Under
<1>2. Cardinality(Under(f)) \in Nat
  <2>1. CASE S = {}
    <3>1. Under(f) = {}
      BY <2>1 DEF Under
    <3> QED
      BY <3>1, FS_EmptySet
  <2>2. CASE S # {}
    BY <1>1, <2>2
  <2> QED
    BY <2>1, <2>2
<1>3. ASSUME NEW t \in S PROVE f[t] =< Cardinality(Under(f))
  <2>1. f[t] \in Nat
    OBVIOUS
  <2>2. /\ Cardinality(Under(f)) \in Nat /\ Cardinality(Under(Without(f, t))) \in Nat
        /\ Cardinality(Under(f)) = Cardinality(Under(Without(f, t))) + f[t]
    BY <1>1
  <2> HIDE DEF Without
  <2> QED
    BY <2>1, <2>2
<1>4. ASSUME NEW t \in S, NEW u \in S, t # u PROVE f[t] + f[u] =< Cardinality(Under(f))
  <2> DEFINE g == Without(f, t)
  <2>1. /\ g \in [S -> 0..B] /\ g[u] = f[u]
        /\ Cardinality(Under(f)) \in Nat /\ Cardinality(Under(g)) \in Nat
        /\ Cardinality(Under(f)) = Cardinality(Under(g)) + f[t]
    BY <1>1, <1>4
  <2> HIDE DEF g
  <2>2. /\ Cardinality(Under(Without(g, u))) \in Nat
        /\ Cardinality(Under(g)) = Cardinality(Under(Without(g, u))) + g[u]
    BY <1>1, <2>1
  <2>3. f[t] \in Nat /\ f[u] \in Nat
    OBVIOUS
  <2> HIDE DEF Without
  <2> QED
    BY <2>1, <2>2, <2>3
<1> QED
  BY <1>2, <1>3, <1>4 DEF Under

(* Smaller columns have a smaller sum, empty ones none.                      *)
LEMMA ColumnsOrdered ==
  ASSUME NEW S, IsFiniteSet(S), NEW B \in Nat, NEW f \in [S -> 0..B],
         NEW g \in [S -> 0..B], \A u \in S : f[u] =< g[u]
  PROVE  LET Under(h) == {p \in S \X (1..B) : p[2] =< h[p[1]]}
         IN  Cardinality(Under(f)) =< Cardinality(Under(g))
<1> DEFINE Under(h) == {p \in S \X (1..B) : p[2] =< h[p[1]]}
<1>1. IsFiniteSet(S \X (1..B))
  <2>1. 1 \in Int /\ B \in Int
    OBVIOUS
  <2>2. IsFiniteSet(1..B)
    BY <2>1, FS_Interval
  <2> QED
    BY <2>2, FS_Product
<1>2. IsFiniteSet(Under(g))
  BY <1>1, FS_Subset
<1>3. Under(f) \subseteq Under(g)
  <2>1. SUFFICES ASSUME NEW u \in S, NEW j \in 1..B, j =< f[u] PROVE j =< g[u]
    OBVIOUS
  <2>2. f[u] \in 0..B /\ g[u] \in 0..B /\ f[u] =< g[u]
    OBVIOUS
  <2> QED
    BY <2>1, <2>2
<1> QED
  BY <1>2, <1>3, FS_Subset

(* The least element of a set of natural numbers.                            *)
LEMMA LeastNat ==
  ASSUME NEW T, T \subseteq Nat, T # {}
  PROVE  \E x \in T : \A y \in T : x =< y
<1> DEFINE R == OpToRel(<, Nat)
<1>1. \E x \in T : \A y \in T : ~ (<<y, x>> \in R)
  BY Zenon, WFMin, NatLessThanWellFounded
<1>2. ASSUME NEW x \in T, NEW y \in T, y < x PROVE <<y, x>> \in R
  <2>1. <<y, x>> \in Nat \X Nat
    OBVIOUS
  <2> QED
    BY <1>2, <2>1 DEF OpToRel
<1> HIDE DEF R
<1>3. ASSUME NEW x \in T, NEW y \in T, ~(<<y, x>> \in R) PROVE x =< y
  BY <1>2, <1>3
<1> QED
  BY <1>1, <1>3
=============================================================================
