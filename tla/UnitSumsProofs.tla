--------------------------- MODULE UnitSumsProofs ---------------------------
(* Facts about sums over finite sets, proved from facts about              *)
(* cardinalities, and what first-in-first-out consumption takes from them. *)
EXTENDS UnitSums, FiniteSetTheorems, FunctionTheorems, WellFoundedInduction,
        TLAPS

(* Only finitely many units are counted. *)
LEMMA UnitsFinite ==
  ASSUME NEW S, IsFiniteSet(S), NEW f, \A i \in S : f[i] \in Nat
  PROVE  IsFiniteSet(Units(S, f))
<1> DEFINE T == {{i} \X (1..f[i]) : i \in S}
           g == [i \in S |-> {i} \X (1..f[i])]
<1>1. g \in Surjection(S, T)
  BY DEF Surjection
<1>2. IsFiniteSet(T)
  BY <1>1, FS_Surjection
<1>3. ASSUME NEW i \in S PROVE IsFiniteSet({i} \X (1..f[i]))
  <2>1. IsFiniteSet({i})
    BY FS_Singleton
  <2>2. IsFiniteSet(1..f[i])
    BY FS_Interval
  <2> QED
    BY <2>1, <2>2, FS_Product
<1> QED
  BY <1>2, <1>3, FS_UNION DEF Units

(* A sum is a natural number. *)
LEMMA SumNat ==
  ASSUME NEW S, IsFiniteSet(S), NEW f, \A i \in S : f[i] \in Nat
  PROVE  Sum(S, f) \in Nat
BY UnitsFinite, FS_CardinalityType DEF Sum

(* The sum over the empty set. *)
LEMMA SumEmpty == ASSUME NEW f PROVE Sum({}, f) = 0
<1>1. Units({}, f) = {}
  BY DEF Units
<1> QED
  BY <1>1, FS_EmptySet DEF Sum

(* The sum over one element. *)
LEMMA SumSingleton ==
  ASSUME NEW i, NEW f, f[i] \in Nat
  PROVE  Sum({i}, f) = f[i]
<1>1. Units({i}, f) = {i} \X (1..f[i])
  BY DEF Units
<1>2. IsFiniteSet({i}) /\ Cardinality({i}) = 1
  BY FS_Singleton
<1>3. IsFiniteSet(1..f[i]) /\ Cardinality(1..f[i]) = f[i]
  BY FS_Interval
<1>4. Cardinality({i} \X (1..f[i])) = Cardinality({i}) * Cardinality(1..f[i])
  BY <1>2, <1>3, FS_Product
<1>5. Cardinality({i} \X (1..f[i])) = f[i]
  <2> DEFINE c == Cardinality({i})
             n == Cardinality(1..f[i])
  <2>1. c = 1 /\ n = f[i] /\ Cardinality({i} \X (1..f[i])) = c * n
    BY <1>2, <1>3, <1>4
  <2> HIDE DEF c, n
  <2> QED
    BY <2>1
<1> QED
  BY <1>1, <1>5 DEF Sum

(* The sum of zeros. *)
LEMMA SumZero ==
  ASSUME NEW S, NEW f, \A i \in S : f[i] = 0
  PROVE  Sum(S, f) = 0
<1>1. \A i \in S : 1..f[i] = {}
  OBVIOUS
<1>2. Units(S, f) = {}
  BY <1>1 DEF Units
<1> QED
  BY <1>2, FS_EmptySet DEF Sum

(* Sums over disjoint sets add up. *)
LEMMA SumDisjoint ==
  ASSUME NEW S, IsFiniteSet(S), NEW T, IsFiniteSet(T), S \cap T = {},
         NEW f, \A i \in S \cup T : f[i] \in Nat
  PROVE  Sum(S \cup T, f) = Sum(S, f) + Sum(T, f)
<1>1. IsFiniteSet(Units(S, f)) /\ IsFiniteSet(Units(T, f))
  BY UnitsFinite
<1>2. Units(S \cup T, f) = Units(S, f) \cup Units(T, f)
  BY DEF Units
<1>3. Units(S, f) \cap Units(T, f) = {}
  BY DEF Units
<1>4. Cardinality(Units(S, f) \cap Units(T, f)) = 0
  BY <1>3, FS_EmptySet
<1>5. Cardinality(Units(S, f)) \in Nat /\ Cardinality(Units(T, f)) \in Nat
  BY <1>1, FS_CardinalityType
<1>6. Cardinality(Units(S, f) \cup Units(T, f)) =
        Cardinality(Units(S, f)) + Cardinality(Units(T, f))
        - Cardinality(Units(S, f) \cap Units(T, f))
  BY <1>1, FS_Union
<1>7. /\ Sum(S \cup T, f) = Cardinality(Units(S, f) \cup Units(T, f))
      /\ Sum(S, f) = Cardinality(Units(S, f))
      /\ Sum(T, f) = Cardinality(Units(T, f))
  BY <1>2 DEF Sum
<1> QED
  BY <1>4, <1>5, <1>6, <1>7

(* A sum depends only on the function's values on the set. *)
LEMMA SumExtensional ==
  ASSUME NEW S, NEW f, NEW g, \A i \in S : f[i] = g[i]
  PROVE  Sum(S, f) = Sum(S, g)
<1>1. Units(S, f) = Units(S, g)
  BY DEF Units
<1> QED
  BY <1>1 DEF Sum

(* A sum grows with the set and with the function. *)
LEMMA SumMonotone ==
  ASSUME NEW T, IsFiniteSet(T), NEW S \in SUBSET T,
         NEW f, NEW g, \A i \in T : g[i] \in Nat,
         \A i \in S : f[i] \in Nat /\ f[i] <= g[i]
  PROVE  Sum(S, f) <= Sum(T, g)
<1>1. IsFiniteSet(Units(T, g))
  BY UnitsFinite
<1>2. Units(S, f) \subseteq Units(T, g)
  <2> SUFFICES ASSUME NEW i \in S, NEW u \in 1..f[i]
               PROVE  <<i, u>> \in Units(T, g)
    BY DEF Units
  <2>1. u \in 1..g[i]
    OBVIOUS
  <2> QED
    BY <2>1 DEF Units
<1> QED
  BY <1>1, <1>2, FS_Subset DEF Sum

(* The sum of a pointwise sum. *)
LEMMA SumPlus ==
  ASSUME NEW S, IsFiniteSet(S), NEW f, NEW g, NEW h,
         \A i \in S : f[i] \in Nat /\ g[i] \in Nat /\ h[i] = f[i] + g[i]
  PROVE  Sum(S, h) = Sum(S, f) + Sum(S, g)
<1> DEFINE Upper == {x \in Units(S, h) : x[2] > f[x[1]]}
           shift == [x \in Units(S, g) |-> <<x[1], x[2] + f[x[1]]>>]
<1>1. \A i, u : <<i, u>> \in Units(S, g) <=> i \in S /\ u \in 1..g[i]
  BY DEF Units
<1>2. \A i, u : <<i, u>> \in Units(S, h) <=> i \in S /\ u \in 1..h[i]
  BY DEF Units
<1>3. \A i, u : <<i, u>> \in Units(S, f) <=> i \in S /\ u \in 1..f[i]
  BY DEF Units
<1>4. /\ \A x \in Units(S, h) : x = <<x[1], x[2]>>
      /\ \A x \in Units(S, g) : x = <<x[1], x[2]>>
      /\ \A x \in Units(S, f) : x = <<x[1], x[2]>>
  BY DEF Units
<1>5. IsFiniteSet(Units(S, h)) /\ IsFiniteSet(Units(S, f)) /\ IsFiniteSet(Units(S, g))
  BY UnitsFinite
<1>6. \A x \in Units(S, g) : shift[x] \in Upper
  BY <1>1, <1>2, <1>4
<1>7. \A x, y \in Units(S, g) : shift[x] = shift[y] => x = y
  <2> SUFFICES ASSUME NEW x \in Units(S, g), NEW y \in Units(S, g),
                      shift[x] = shift[y]
               PROVE  x = y
    OBVIOUS
  <2>1. x[1] = y[1] /\ x[2] + f[x[1]] = y[2] + f[y[1]]
    OBVIOUS
  <2>2. x[1] \in S /\ x[2] \in Nat /\ y[2] \in Nat
    BY <1>1, <1>4
  <2>3. x[2] = y[2]
    BY <2>1, <2>2
  <2> QED
    BY <2>1, <2>3, <1>4
<1>8. \A y \in Upper : \E x \in Units(S, g) : shift[x] = y
  <2> SUFFICES ASSUME NEW y \in Upper
               PROVE  \E x \in Units(S, g) : shift[x] = y
    OBVIOUS
  <2>1. y = <<y[1], y[2]>> /\ y[1] \in S /\ y[2] \in 1..h[y[1]] /\ y[2] > f[y[1]]
    BY <1>2, <1>4
  <2>2. <<y[1], y[2] - f[y[1]]>> \in Units(S, g)
    BY <2>1, <1>1
  <2>3. shift[<<y[1], y[2] - f[y[1]]>>] = y
    BY <2>1, <2>2
  <2> QED
    BY <2>2, <2>3
<1>9. shift \in Bijection(Units(S, g), Upper)
  <2>1. shift \in [Units(S, g) -> Upper]
    BY <1>6
  <2> QED
    BY <2>1, <1>7, <1>8, Fun_IsBij
<1>10. IsFiniteSet(Upper) /\ Cardinality(Upper) = Sum(S, g)
  BY <1>5, <1>9, FS_Bijection, Fun_ExistsBij DEF Sum
<1>11. Units(S, h) = Units(S, f) \cup Upper
  <2>1. Units(S, f) \subseteq Units(S, h)
    <3> SUFFICES ASSUME NEW x \in Units(S, f) PROVE x \in Units(S, h)
      OBVIOUS
    <3>1. x = <<x[1], x[2]>> /\ x[1] \in S /\ x[2] \in 1..f[x[1]]
      BY <1>3, <1>4
    <3> QED
      BY <3>1, <1>2
  <2>2. ASSUME NEW x \in Units(S, h), x \notin Upper PROVE x \in Units(S, f)
    <3>1. x = <<x[1], x[2]>> /\ x[1] \in S /\ x[2] \in 1..h[x[1]] /\ x[2] <= f[x[1]]
      BY <2>2, <1>2, <1>4
    <3> QED
      BY <3>1, <1>3
  <2> QED
    BY <2>1, <2>2
<1>12. Units(S, f) \cap Upper = {}
  <2> SUFFICES ASSUME NEW x \in Units(S, f), x \in Upper PROVE FALSE
    OBVIOUS
  <2>1. x[1] \in S /\ x[2] \in 1..f[x[1]]
    BY <1>3, <1>4
  <2> QED
    BY <2>1
<1>13. Cardinality(Units(S, f) \cap Upper) = 0
  BY <1>12, FS_EmptySet
<1>14. Cardinality(Units(S, f)) \in Nat /\ Cardinality(Upper) \in Nat
  BY <1>5, <1>10, FS_CardinalityType
<1>15. Cardinality(Units(S, f) \cup Upper) =
         Cardinality(Units(S, f)) + Cardinality(Upper)
         - Cardinality(Units(S, f) \cap Upper)
  <2> HIDE DEF Upper
  <2> QED
    BY <1>5, <1>10, FS_Union
<1>16. Sum(S, h) = Cardinality(Units(S, f) \cup Upper)
  BY <1>11 DEF Sum
<1>17. Sum(S, f) = Cardinality(Units(S, f))
  BY DEF Sum
<1> HIDE DEF Upper, shift
<1> QED
  BY <1>10, <1>13, <1>14, <1>15, <1>16, <1>17

(* A sum after one of its terms has changed.                               *)
LEMMA SumUpdate ==
  ASSUME NEW S, IsFiniteSet(S), NEW i \in S, NEW f, NEW g,
         \A j \in S : f[j] \in Nat /\ g[j] \in Nat,
         \A j \in S \ {i} : g[j] = f[j]
  PROVE  Sum(S, g) + f[i] = Sum(S, f) + g[i]
<1> DEFINE R == S \ {i}
<1>1. IsFiniteSet(R) /\ IsFiniteSet({i}) /\ R \cap {i} = {} /\ R \cup {i} = S
  BY FS_Subset, FS_Singleton
<1>2. Sum(R, f) = Sum(R, g) /\ Sum(R, f) \in Nat
  BY <1>1, SumExtensional, SumNat
<1>3. Sum({i}, f) = f[i] /\ Sum({i}, g) = g[i]
  BY SumSingleton
<1> HIDE DEF R
<1>4. Sum(S, f) = Sum(R, f) + Sum({i}, f)
  BY <1>1, SumDisjoint
<1>5. Sum(S, g) = Sum(R, g) + Sum({i}, g)
  BY <1>1, SumDisjoint
<1> QED
  BY <1>2, <1>3, <1>4, <1>5

(* A set of earlier elements, and one later element, fit into any set that *)
(* holds them all.                                                         *)
LEMMA SumBefore ==
  ASSUME NEW T, IsFiniteSet(T), NEW S \in SUBSET T, NEW i \in T \ S,
         NEW r, \A j \in T : r[j] \in Nat
  PROVE  Sum(S, r) + r[i] <= Sum(T, r)
<1>1. IsFiniteSet(S) /\ IsFiniteSet({i}) /\ S \cap {i} = {} /\ S \cup {i} \subseteq T
  BY FS_Subset, FS_Singleton
<1>2. Sum(S \cup {i}, r) = Sum(S, r) + Sum({i}, r)
  BY <1>1, SumDisjoint
<1>3. Sum({i}, r) = r[i]
  BY SumSingleton
<1>4. Sum(S \cup {i}, r) <= Sum(T, r)
  BY <1>1, SumMonotone
<1> QED
  BY <1>2, <1>3, <1>4

(* First-in-first-out consumption.  L is a finite set of lots, r what each *)
(* holds, B the lots before each in a strict total order, d an amount the  *)
(* lots cover, and t takes from a lot what the lots before it leave of d.  *)
(* Then t takes exactly d in all.                                          *)
LEMMA FifoTakesAll ==
  ASSUME NEW L, IsFiniteSet(L), NEW r, \A i \in L : r[i] \in Nat,
         NEW B, \A i \in L : B[i] \subseteq L /\ i \notin B[i],
         \A i, j \in L : i # j => i \in B[j] \/ j \in B[i],
         \A i, j \in L : i \in B[j] => B[i] \subseteq B[j],
         NEW d \in Nat, d <= Sum(L, r),
         NEW t,
         \A i \in L : /\ t[i] \in Nat /\ t[i] <= r[i]
                      /\ \A u \in 1..r[i] : u <= t[i] <=> Sum(B[i], r) + u <= d
  PROVE  Sum(L, t) = d
<1> DEFINE U == Units(L, r)
           N == Sum(L, r)
           rank == [x \in U |-> Sum(B[x[1]], r) + x[2]]
           V == {x \in U : rank[x] <= d}
<1>1. /\ \A x \in U : x = <<x[1], x[2]>> /\ x[1] \in L /\ x[2] \in 1..r[x[1]]
      /\ \A i \in L : \A u \in 1..r[i] : <<i, u>> \in U
  BY DEF Units
<1>2. IsFiniteSet(U) /\ N \in Nat /\ N = Cardinality(U)
  BY UnitsFinite, SumNat DEF Sum
<1>3. \A i \in L : Sum(B[i], r) \in Nat /\ Sum(B[i], r) + r[i] <= N
  <2> SUFFICES ASSUME NEW i \in L
               PROVE  Sum(B[i], r) \in Nat /\ Sum(B[i], r) + r[i] <= N
    OBVIOUS
  <2>1. IsFiniteSet(B[i])
    BY FS_Subset
  <2>2. Sum(B[i], r) \in Nat
    BY <2>1, SumNat
  <2> QED
    BY <2>2, SumBefore
<1>4. \A i, j \in L : i \in B[j] => Sum(B[i], r) + r[i] <= Sum(B[j], r)
  <2> SUFFICES ASSUME NEW i \in L, NEW j \in L, i \in B[j]
               PROVE  Sum(B[i], r) + r[i] <= Sum(B[j], r)
    OBVIOUS
  <2>1. IsFiniteSet(B[j]) /\ B[i] \subseteq B[j] /\ i \in B[j] \ B[i]
    BY FS_Subset
  <2>2. \A k \in B[j] : r[k] \in Nat
    OBVIOUS
  <2> QED
    BY <2>1, <2>2, SumBefore
<1>5. \A x \in U : rank[x] \in 1..N
  <2> SUFFICES ASSUME NEW x \in U PROVE rank[x] \in 1..N
    OBVIOUS
  <2>1. x[1] \in L /\ x[2] \in 1..r[x[1]] /\ r[x[1]] \in Nat
    BY <1>1
  <2>2. Sum(B[x[1]], r) \in Nat /\ Sum(B[x[1]], r) + r[x[1]] <= N
    BY <2>1, <1>3
  <2>3. rank[x] = Sum(B[x[1]], r) + x[2]
    OBVIOUS
  <2> HIDE DEF rank, N
  <2> QED
    BY <2>1, <2>2, <2>3, <1>2
<1>6. \A x, y \in U : rank[x] = rank[y] => x = y
  <2> SUFFICES ASSUME NEW x \in U, NEW y \in U, rank[x] = rank[y]
               PROVE  x = y
    OBVIOUS
  <2>1. /\ x[1] \in L /\ x[2] \in 1..r[x[1]] /\ r[x[1]] \in Nat
        /\ y[1] \in L /\ y[2] \in 1..r[y[1]] /\ r[y[1]] \in Nat
    BY <1>1
  <2>2. Sum(B[x[1]], r) + x[2] = Sum(B[y[1]], r) + y[2]
    OBVIOUS
  <2>3. Sum(B[x[1]], r) \in Nat /\ Sum(B[y[1]], r) \in Nat
    BY <2>1, <1>3
  <2>4. x[1] = y[1]
    <3>1. x[1] \notin B[y[1]]
      BY <2>1, <2>2, <2>3, <1>4
    <3>2. y[1] \notin B[x[1]]
      BY <2>1, <2>2, <2>3, <1>4
    <3> QED
      BY <2>1, <3>1, <3>2
  <2>5. x[2] = y[2]
    BY <2>1, <2>2, <2>3, <2>4
  <2> QED
    BY <2>4, <2>5, <1>1
<1>7. IsFiniteSet(1..N) /\ Cardinality(1..N) = N
  BY <1>2, FS_Interval
<1>8. rank \in Surjection(U, 1..N)
  <2>1. rank \in [U -> 1..N]
    BY <1>5
  <2>2. rank \in Injection(U, 1..N)
    BY <2>1, <1>6, Fun_IsInj
  <2> QED
    BY <2>2, <1>2, <1>7, FS_Injection
<1>9. \A n \in 1..d : \E x \in V : rank[x] = n
  <2>1. \A n \in 1..N : \E x \in U : rank[x] = n
    <3> HIDE DEF rank, N, U
    <3> QED
      BY <1>8 DEF Surjection
  <2> QED
    BY <2>1, <1>2
<1>10. Units(L, t) = V
  <2>1. ASSUME NEW i \in L, NEW u \in 1..r[i]
        PROVE  u \in 1..t[i] <=> rank[<<i, u>>] <= d
    <3>1. rank[<<i, u>>] = Sum(B[i], r) + u
      BY <1>1
    <3>2. u <= t[i] <=> Sum(B[i], r) + u <= d
      OBVIOUS
    <3>3. u \in 1..t[i] <=> u <= t[i]
      OBVIOUS
    <3> QED
      BY <3>1, <3>2, <3>3
  <2>2. \A x \in U : x \in V <=> x[2] \in 1..t[x[1]]
    BY <2>1, <1>1
  <2>3. ASSUME NEW x \in Units(L, t) PROVE x \in U /\ x[2] \in 1..t[x[1]]
    <3>1. x = <<x[1], x[2]>> /\ x[1] \in L /\ x[2] \in 1..t[x[1]]
      BY DEF Units
    <3>2. x[2] \in 1..r[x[1]]
      BY <3>1
    <3> QED
      BY <3>1, <3>2, <1>1
  <2>4. ASSUME NEW x \in U, x[2] \in 1..t[x[1]] PROVE x \in Units(L, t)
    BY <2>4, <1>1 DEF Units
  <2> QED
    BY <2>2, <2>3, <2>4
<1>11. IsFiniteSet(V)
  BY <1>2, FS_Subset
<1> DEFINE taken == [x \in V |-> rank[x]]
<1>12. taken \in Bijection(V, 1..d)
  <2>1. taken \in [V -> 1..d]
    BY <1>5
  <2>2. \A x, y \in V : taken[x] = taken[y] => x = y
    BY <1>6
  <2>3. \A n \in 1..d : \E x \in V : taken[x] = n
    BY <1>9
  <2> QED
    BY <2>1, <2>2, <2>3, Fun_IsBij
<1>13. Cardinality(1..d) = d
  BY FS_Interval
<1>14. Cardinality(1..d) = Cardinality(V)
  BY <1>11, <1>12, FS_Bijection, Fun_ExistsBij
<1> QED
  BY <1>10, <1>13, <1>14 DEF Sum

(* Every non-empty set of naturals has a least element. *)
LEMMA LeastNat ==
  ASSUME NEW S \in SUBSET Nat, S # {}
  PROVE  \E m \in S : \A n \in S : m <= n
<1>1. PICK m \in S : \A n \in S : ~ (<<n, m>> \in OpToRel(<, Nat))
  BY NatLessThanWellFounded, WFMin
<1>2. \A n \in S : ~(n < m)
  BY <1>1 DEF OpToRel
<1> QED
  BY <1>2

(* A bounded set of naturals has a greatest element. *)
LEMMA GreatestOf ==
  ASSUME NEW n \in Nat, NEW S \in SUBSET (1..n), S # {}
  PROVE  \E m \in S : \A j \in S : j <= m
<1> DEFINE D == {n - i : i \in S}
<1>0. \A i \in S : n - i \in Nat /\ i \in Nat
  OBVIOUS
<1>1. D \in SUBSET Nat /\ D # {}
  BY <1>0
<1>2. PICK d \in D : \A x \in D : d <= x
  BY <1>1, LeastNat
<1>3. PICK m \in S : d = n - m
  BY <1>2
<1>4. \A j \in S : n - m <= n - j
  BY <1>2, <1>3
<1>5. \A j \in S : j <= m
  BY <1>0, <1>4
<1> QED
  BY <1>5
=============================================================================
