--------------------------- MODULE JoinBaseProofs ---------------------------
(***************************************************************************)
(* The fetchers' shares partition a relation, for every number of tuples    *)
(* and threads; and what the sum over the threads' counters is when no pair *)
(* is counted by two of them.                                               *)
(***************************************************************************)
EXTENDS JoinBase, TLAPS, FiniteSetTheorems, WellFoundedInduction

LEMMA MulMono == ASSUME NEW a \in Nat, NEW b \in Nat, NEW c \in Nat, b <= c
                 PROVE  a * b <= a * c /\ a * b \in Nat
<1>1. c - b \in Nat /\ a * (c - b) \in Nat
  OBVIOUS
<1>2. a * c = a * b + a * (c - b)
  OBVIOUS
<1> QED
  BY <1>1, <1>2

LEMMA QuotientType ==
  ASSUME NEW n \in Nat
  PROVE  /\ n \div nthreads \in Nat
         /\ (n \div nthreads) * nthreads <= n
  BY JoinAssumption

LEMMA ShareType ==
  ASSUME NEW n \in Nat, NEW t \in Threads
  PROVE  /\ ShareBegin(n, t) \in Nat
         /\ ShareEnd(n, t) \in Nat
         /\ ShareBegin(n, t) <= ShareEnd(n, t)
         /\ ShareEnd(n, t) <= n
<1> DEFINE q == n \div nthreads
<1>1. t \in Nat /\ t + 1 \in Nat /\ t + 1 <= nthreads /\ nthreads \in Nat /\ t <= nthreads
  BY JoinAssumption DEF Threads
<1>2. q \in Nat /\ q * nthreads <= n
  BY QuotientType
<1> HIDE DEF q
<1>3. q * t \in Nat /\ q * t <= q * (t + 1) /\ q * (t + 1) \in Nat
  BY <1>1, <1>2, MulMono
<1>4. q * (t + 1) <= q * nthreads /\ q * nthreads \in Nat
  BY <1>1, <1>2, MulMono
<1> QED
  BY <1>1, <1>2, <1>3, <1>4 DEF ShareBegin, ShareEnd, q

LEMMA ShareOrder ==
  ASSUME NEW n \in Nat, NEW t \in Threads, NEW u \in Threads, t < u
  PROVE  ShareEnd(n, t) <= ShareBegin(n, u)
<1> DEFINE q == n \div nthreads
<1>1. t \in Nat /\ u \in Nat /\ t + 1 <= u /\ t # nthreads - 1
  BY JoinAssumption DEF Threads
<1>2. q \in Nat
  BY QuotientType
<1> HIDE DEF q
<1>3. q * (t + 1) <= q * u
  BY <1>1, <1>2, MulMono
<1> QED
  BY <1>1, <1>3 DEF ShareBegin, ShareEnd, q

(* No tuple is fetched by two threads (JB_NP_Fetcher, JM_NP_Fetcher on S). *)
THEOREM ShareUnique ==
  ASSUME NEW n \in Nat, NEW k \in Nat, NEW t \in Threads, NEW u \in Threads,
         ShareBegin(n, t) <= k, k < ShareEnd(n, t),
         ShareBegin(n, u) <= k, k < ShareEnd(n, u)
  PROVE  t = u
<1>1. CASE t < u
  BY <1>1, ShareOrder, ShareType
<1>2. CASE u < t
  BY <1>2, ShareOrder, ShareType
<1> QED
  BY <1>1, <1>2, JoinAssumption DEF Threads

(* Every tuple is in some thread's share, the remainder of the division too. *)
THEOREM ShareExists ==
  ASSUME NEW n \in Nat, NEW k \in Nat, k < n
  PROVE  \E t \in Threads : ShareBegin(n, t) <= k /\ k < ShareEnd(n, t)
<1> DEFINE q == n \div nthreads
<1>0. nthreads - 1 \in Threads /\ nthreads \in Nat /\ nthreads - 1 \in Nat
  BY JoinAssumption DEF Threads
<1>2. q \in Nat
  BY QuotientType
<1>3. CASE q * (nthreads - 1) <= k
  BY <1>3, <1>0 DEF ShareBegin, ShareEnd
<1>4. CASE k < q * (nthreads - 1)
  <2>1. q > 0
    BY <1>4, <1>2, <1>0
  <2> DEFINE t == k \div q
  <2> HIDE DEF q
  <2>2. t \in Nat /\ q * t <= k /\ k < q * (t + 1)
    BY <2>1, <1>2
  <2>3. t < nthreads - 1
    <3>1. SUFFICES ASSUME nthreads - 1 <= t PROVE FALSE
      BY <2>2, <1>0
    <3>2. q * (nthreads - 1) <= q * t
      BY <3>1, <2>2, <1>0, <1>2, MulMono
    <3> QED BY <3>2, <2>2, <1>4, <1>0, <1>2
  <2>4. t \in Threads /\ t # nthreads - 1
    BY <2>2, <2>3, <1>0 DEF Threads
  <2> HIDE DEF t
  <2> QED
    BY <2>2, <2>4 DEF ShareBegin, ShareEnd, q
<1> QED
  BY <1>0, <1>2, <1>3, <1>4

------------------------------------------------------------------------------
(* Sums over the threads *)

(* it is the recursive function that FoldFunction sums f up with: next to    *)
(* nothing of it can be seen without knowing that there is only one.         *)
Sums(it, f, D) ==
  it = [s \in SUBSET D |-> IF s = {} THEN 0
                           ELSE f[CHOOSE x \in s : TRUE] + it[s \ {CHOOSE x \in s : TRUE}]]

LEMMA SumDef ==
  ASSUME NEW f, NEW D, D = DOMAIN f
  PROVE  Total(f) = (CHOOSE it : Sums(it, f, D))[D]
  BY DEF Total, FoldFunction, FoldFunctionOnSet, MapThenFoldSet, Sums

LEMMA LeastNat ==
  ASSUME NEW T \in SUBSET Nat, T # {}
  PROVE  \E m \in T : \A k \in T : m <= k
<1> DEFINE L == OpToRel(<, Nat)
<1>1. IsWellFoundedOn(L, Nat)
  BY NatLessThanWellFounded
<1>2. \A y, x \in Nat : <<y, x>> \in L <=> y < x
  BY DEF OpToRel
<1> HIDE DEF L
<1>3. PICK x \in T : \A y \in T : ~(<<y, x>> \in L)
  BY <1>1, WFMin
<1>4. \A k \in T : ~(k < x)
  BY <1>2, <1>3
<1> QED
  BY <1>4

(* A set with 0 that is closed under successor has every natural number. *)
LEMMA SetInduction ==
  ASSUME NEW T, 0 \in T, \A n \in Nat : n \in T => n + 1 \in T
  PROVE  Nat \subseteq T
<1> SUFFICES ASSUME Nat \ T # {} PROVE FALSE
  OBVIOUS
<1>1. PICK m \in Nat \ T : \A k \in Nat \ T : m <= k
  BY LeastNat
<1>2. m # 0 /\ m - 1 \in Nat /\ m - 1 \in T
  BY <1>1
<1> QED
  BY <1>2

(* Two sums over a finite set agree. *)
LEMMA SumUnique ==
  ASSUME NEW f, NEW D, IsFiniteSet(D), NEW it, NEW jt, Sums(it, f, D), Sums(jt, f, D)
  PROVE  it[D] = jt[D]
<1> DEFINE Bad == {s \in SUBSET D : it[s] # jt[s]}
           T == {Cardinality(s) : s \in Bad}
<1> SUFFICES ASSUME Bad # {} PROVE FALSE
  OBVIOUS
<1>1. T \in SUBSET Nat /\ T # {}
  BY FS_Subset, FS_CardinalityType
<1>2. PICK m \in T : \A k \in T : m <= k
  BY <1>1, LeastNat
<1>3. PICK s \in Bad : Cardinality(s) = m
  OBVIOUS
<1> DEFINE x == CHOOSE x \in s : TRUE
<1>4. s # {}
  BY <1>3 DEF Sums
<1>5. x \in s /\ s \ {x} \in SUBSET D
  BY <1>4
<1>6. it[s] = f[x] + it[s \ {x}] /\ jt[s] = f[x] + jt[s \ {x}]
  BY <1>4 DEF Sums
<1>7. s \ {x} \in Bad
  BY <1>5, <1>6
<1>8. IsFiniteSet(s) /\ Cardinality(s) \in Nat
  BY FS_Subset, FS_CardinalityType
<1>9. Cardinality(s \ {x}) = Cardinality(s) - 1
  BY <1>5, <1>8, FS_RemoveElement
<1> QED
  BY <1>1, <1>2, <1>3, <1>7, <1>8, <1>9

(* All but one of the numbers are zero: the sum is that number. *)
LEMMA SumOfOne ==
  ASSUME NEW D, IsFiniteSet(D), NEW f \in [D -> Nat], NEW x \in D,
         \A y \in D : y # x => f[y] = 0
  PROVE  Total(f) = f[x]
<1> DEFINE g == [s \in SUBSET D |-> IF x \in s THEN f[x] ELSE 0]
<1>1. Sums(g, f, D)
  <2>1. ASSUME NEW s \in SUBSET D, s # {}
        PROVE  g[s] = f[CHOOSE y \in s : TRUE] + g[s \ {CHOOSE y \in s : TRUE}]
    <3> DEFINE y == CHOOSE y \in s : TRUE
    <3>1. y \in s /\ y \in D /\ s \ {y} \in SUBSET D
      BY <2>1
    <3> HIDE DEF y
    <3>2. g[s] = f[y] + g[s \ {y}]
      BY <3>1
    <3> QED BY <3>2 DEF y
  <2>2. g[{}] = 0
    OBVIOUS
  <2>3. g = [s \in SUBSET D |-> g[s]]
    OBVIOUS
  <2> HIDE DEF g
  <2> QED BY <2>1, <2>2, <2>3 DEF Sums
<1>2. g[D] = f[x]
  OBVIOUS
<1> HIDE DEF g
<1> DEFINE h == CHOOSE it : Sums(it, f, D)
<1>3. Sums(h, f, D)
  BY <1>1
<1> HIDE DEF h
<1>4. h[D] = g[D]
  BY <1>1, <1>3, SumUnique
<1>5. Total(f) = h[D]
  BY SumDef DEF h
<1> QED
  BY <1>2, <1>4, <1>5
------------------------------------------------------------------------------
(* Counting *)

(* The elements of a set in the order of their numbers *)
Rank(A, a) == Cardinality({b \in A : b < a})

LEMMA RankType ==
  ASSUME NEW A \in SUBSET Nat, IsFiniteSet(A), NEW a \in Nat
  PROVE  /\ Rank(A, a) \in 0 .. Cardinality(A)
         /\ a \in A => Rank(A, a) < Cardinality(A)
         /\ Cardinality(A) \in Nat
<1> DEFINE L == {b \in A : b < a}
<1>1. IsFiniteSet(L) /\ Cardinality(L) \in Nat /\ Cardinality(A) \in Nat /\ Cardinality(L) <= Cardinality(A)
  BY FS_Subset, FS_CardinalityType
<1>2. ASSUME a \in A PROVE Cardinality(L) # Cardinality(A)
  <2>1. Cardinality(A) = Cardinality(L) => A = L
    BY FS_Subset
  <2> QED
    BY <1>2, <2>1
<1> QED
  BY <1>1, <1>2 DEF Rank

LEMMA RankUp ==
  ASSUME NEW A \in SUBSET Nat, IsFiniteSet(A), NEW a \in Nat, NEW b \in Nat, a < b
  PROVE  /\ Rank(A, a) <= Rank(A, b)
         /\ a \in A => Rank(A, a) < Rank(A, b)
<1> DEFINE L == {c \in A : c < a}
           M == {c \in A : c < b}
<1>1. IsFiniteSet(M) /\ L \in SUBSET M
  <2>1. M \in SUBSET A
    OBVIOUS
  <2>2. \A c \in A : c < a => c < b
    OBVIOUS
  <2> QED
    BY <2>1, <2>2, FS_Subset
<1>2. IsFiniteSet(L) /\ Cardinality(L) <= Cardinality(M) /\ (Cardinality(M) = Cardinality(L) => M = L)
  BY <1>1, FS_Subset
<1>3. Cardinality(L) \in Nat /\ Cardinality(M) \in Nat
  BY <1>1, <1>2, FS_CardinalityType
<1>4. ASSUME a \in A PROVE M # L
  BY <1>4
<1> QED
  BY <1>2, <1>3, <1>4 DEF Rank

(* The number of those below the next number *)
LEMMA RankNext ==
  ASSUME NEW A \in SUBSET Nat, IsFiniteSet(A), NEW a \in Nat
  PROVE  Rank(A, a + 1) = IF a \in A THEN Rank(A, a) + 1 ELSE Rank(A, a)
<1> DEFINE L == {c \in A : c < a}
           M == {c \in A : c < a + 1}
<1>1. IsFiniteSet(L) /\ a \notin L
  BY FS_Subset
<1>2. M = IF a \in A THEN L \cup {a} ELSE L
  <2>1. \A c \in A : c < a + 1 <=> c < a \/ c = a
    OBVIOUS
  <2>2. CASE a \in A
    BY <2>1, <2>2
  <2>3. CASE a \notin A
    BY <2>1, <2>3
  <2> QED
    BY <2>2, <2>3
<1>3. Cardinality(L \cup {a}) = Cardinality(L) + 1
  BY <1>1, FS_AddElement
<1> HIDE DEF L, M
<1>4. Cardinality(M) = IF a \in A THEN Cardinality(L) + 1 ELSE Cardinality(L)
  BY <1>2, <1>3
<1> QED
  BY <1>4 DEF Rank, L, M

(* Each rank is the rank of one element. *)
LEMMA RankOnto ==
  ASSUME NEW A \in SUBSET Nat, IsFiniteSet(A), NEW k \in 0 .. Cardinality(A) - 1
  PROVE  \E a \in A : Rank(A, a) = k
<1> DEFINE n == Cardinality(A)
           K == 0 .. n - 1
           f == [a \in A |-> Rank(A, a)]
<1>1. n \in Nat /\ IsFiniteSet(K) /\ Cardinality(K) = n
  BY FS_CardinalityType, FS_Interval
<1>2. \A a \in A : Rank(A, a) \in K
  BY <1>1, RankType
<1>3. ASSUME NEW a \in A, NEW b \in A, Rank(A, a) = Rank(A, b) PROVE a = b
  <2>1. Rank(A, a) \in Nat /\ Rank(A, b) \in Nat
    BY <1>1, <1>2
  <2>2. CASE a < b
    BY <1>3, <2>1, <2>2, RankUp
  <2>3. CASE b < a
    BY <1>3, <2>1, <2>3, RankUp
  <2> QED
    BY <2>2, <2>3
<1>4. f \in Injection(A, K)
  BY <1>2, <1>3 DEF Injection, IsInjective
<1>5. f \in Surjection(A, K)
  BY <1>1, <1>4, FS_Injection
<1> QED
  BY <1>5 DEF Surjection

LEMMA RankUnique ==
  ASSUME NEW A \in SUBSET Nat, IsFiniteSet(A), NEW a \in A, NEW b \in A, Rank(A, a) = Rank(A, b)
  PROVE  a = b
<1>1. Rank(A, a) \in Nat /\ Rank(A, b) \in Nat
  BY RankType
<1>2. CASE a < b
  BY <1>1, <1>2, RankUp
<1>3. CASE b < a
  BY <1>1, <1>3, RankUp
<1> QED
  BY <1>2, <1>3

LEMMA CardDisjoint ==
  ASSUME NEW A, IsFiniteSet(A), NEW B, IsFiniteSet(B), A \cap B = {}
  PROVE  Cardinality(A \cup B) = Cardinality(A) + Cardinality(B)
<1>1. Cardinality(A \cap B) = 0
  BY FS_EmptySet
<1>2. Cardinality(A) \in Nat /\ Cardinality(B) \in Nat
  BY FS_CardinalityType
<1>3. Cardinality(A \cup B) = Cardinality(A) + Cardinality(B) - Cardinality(A \cap B)
  BY FS_Union
<1> QED
  BY <1>1, <1>2, <1>3

LEMMA SumOverDef ==
  ASSUME NEW f, NEW D
  PROVE  SumOver(f, D) = (CHOOSE it : Sums(it, f, D))[D]
  BY DEF SumOver, FoldFunctionOnSet, MapThenFoldSet, Sums

(* The sum of the sizes of disjoint sets is the size of their union. *)
LEMMA SumOfSets ==
  ASSUME NEW D, IsFiniteSet(D), NEW f, NEW F, NEW U, IsFiniteSet(U),
         \A u \in D : F[u] \in SUBSET U /\ f[u] = Cardinality(F[u]),
         \A u, v \in D : u # v => F[u] \cap F[v] = {}
  PROVE  SumOver(f, D) = Cardinality(UNION {F[u] : u \in D})
<1> DEFINE All(s) == UNION {F[u] : u \in s}
           g == [s \in SUBSET D |-> Cardinality(All(s))]
<1>1. ASSUME NEW s \in SUBSET D PROVE IsFiniteSet(All(s))
  <2>1. All(s) \in SUBSET U
    OBVIOUS
  <2> QED
    BY <2>1, FS_Subset
<1>2. Sums(g, f, D)
  <2>1. ASSUME NEW s \in SUBSET D, s # {}
        PROVE  g[s] = f[CHOOSE y \in s : TRUE] + g[s \ {CHOOSE y \in s : TRUE}]
    <3> DEFINE y == CHOOSE y \in s : TRUE
    <3>1. y \in s /\ y \in D /\ s \ {y} \in SUBSET D
      BY <2>1
    <3> HIDE DEF y
    <3>2. All(s) = F[y] \cup All(s \ {y})
      BY <3>1
    <3>3. F[y] \cap All(s \ {y}) = {}
      BY <3>1
    <3>4. IsFiniteSet(F[y]) /\ IsFiniteSet(All(s \ {y}))
      BY <1>1, <3>1, FS_Subset
    <3>5. Cardinality(All(s)) = Cardinality(F[y]) + Cardinality(All(s \ {y}))
      <4> HIDE DEF All
      <4> QED
        BY <3>2, <3>3, <3>4, CardDisjoint
    <3>6. g[s] = f[y] + g[s \ {y}]
      BY <3>1, <3>5
    <3> QED BY <3>6 DEF y
  <2>2. g[{}] = 0
    BY FS_EmptySet
  <2>3. g = [s \in SUBSET D |-> g[s]]
    OBVIOUS
  <2> HIDE DEF g
  <2> QED BY <2>1, <2>2, <2>3 DEF Sums
<1>3. g[D] = Cardinality(All(D))
  OBVIOUS
<1> HIDE DEF g
<1> DEFINE h == CHOOSE it : Sums(it, f, D)
<1>4. Sums(h, f, D)
  BY <1>2
<1> HIDE DEF h
<1>5. h[D] = g[D]
  BY <1>2, <1>4, SumUnique
<1>6. SumOver(f, D) = h[D]
  BY SumOverDef DEF h
<1> QED
  BY <1>3, <1>5, <1>6

(* A sum of one number more *)
LEMMA SumAdd ==
  ASSUME NEW D, IsFiniteSet(D), NEW x, x \notin D, NEW f, NEW N \in Nat,
         \A u \in D \cup {x} : f[u] \in 0 .. N
  PROVE  /\ SumOver(f, D) \in Nat
         /\ SumOver(f, D \cup {x}) = SumOver(f, D) + f[x]
<1> DEFINE E == D \cup {x}
           F == [u \in E |-> {u} \X (1 .. f[u])]
           U == E \X (1 .. N)
           All(s) == UNION {F[u] : u \in s}
<1>1. IsFiniteSet(E) /\ IsFiniteSet(1 .. N)
  BY FS_AddElement, FS_Interval
<1>2. IsFiniteSet(U)
  BY <1>1, FS_Product
<1>3. ASSUME NEW u \in E
      PROVE  /\ F[u] \in SUBSET U /\ IsFiniteSet(F[u])
             /\ f[u] = Cardinality(F[u])
  <2>1. f[u] \in Nat /\ f[u] <= N
    OBVIOUS
  <2>2. IsFiniteSet(1 .. f[u]) /\ Cardinality(1 .. f[u]) = f[u]
    <3> DEFINE n == f[u]
    <3>1. n \in Nat
      BY <2>1
    <3> HIDE DEF n
    <3>2. IsFiniteSet(1 .. n) /\ Cardinality(1 .. n) = n
      BY <3>1, FS_Interval
    <3> QED BY <3>2 DEF n
  <2>3. IsFiniteSet({u}) /\ Cardinality({u}) = 1
    BY FS_Singleton
  <2>4. IsFiniteSet({u} \X (1 .. f[u])) /\ Cardinality({u} \X (1 .. f[u])) = 1 * f[u]
    BY <2>2, <2>3, FS_Product
  <2>5. 1 .. f[u] \in SUBSET (1 .. N)
    BY <2>1
  <2> QED BY <2>1, <2>4, <2>5
<1>4. ASSUME NEW u \in E, NEW v \in E, u # v PROVE F[u] \cap F[v] = {}
  BY <1>4
<1> HIDE DEF F, U
<1>5. SumOver(f, D) = Cardinality(All(D))
  BY <1>2, <1>3, <1>4, SumOfSets
<1>6. SumOver(f, E) = Cardinality(All(E))
  <2>1. \A u \in E : F[u] \in SUBSET U /\ f[u] = Cardinality(F[u])
    BY <1>3
  <2>2. \A u, v \in E : u # v => F[u] \cap F[v] = {}
    BY <1>4
  <2> HIDE DEF E
  <2> QED BY <1>1, <1>2, <2>1, <2>2, SumOfSets
<1>7. All(E) = All(D) \cup F[x] /\ All(D) \cap F[x] = {}
  BY <1>4
<1>8. IsFiniteSet(All(D))
  <2>1. All(D) \in SUBSET U
    BY <1>3
  <2> QED BY <1>2, <2>1, FS_Subset
<1>9. Cardinality(All(D)) \in Nat
  BY <1>8, FS_CardinalityType
<1> HIDE DEF All
<1>10. Cardinality(All(D) \cup F[x]) = Cardinality(All(D)) + Cardinality(F[x])
  BY <1>3, <1>7, <1>8, CardDisjoint
<1> QED
  BY <1>3, <1>5, <1>6, <1>7, <1>9, <1>10

LEMMA SumEmpty == ASSUME NEW f PROVE SumOver(f, {}) = 0
<1>1. IsFiniteSet({}) /\ Cardinality({}) = 0
  BY FS_EmptySet
<1>2. SumOver(f, {}) = Cardinality(UNION {f[u] : u \in {}})
  <2>1. \A u \in {} : f[u] \in SUBSET {} /\ f[u] = Cardinality(f[u])
    OBVIOUS
  <2> QED BY <1>1, <2>1, SumOfSets
<1> QED
  BY <1>1, <1>2

------------------------------------------------------------------------------
(* What the joins' counters say of the pairs *)

Counting(o) == \A t \in Threads, i \in RIdx, j \in SIdx : o[t][i][j] \in Nat

LEMMA ProducedOnce ==
  ASSUME NEW o, Counting(o), CountedOnce(o), NEW p \in Pairs
  PROVE  /\ Produced(o)[p] = IF \E t \in Threads : o[t][p[1]][p[2]] = 1 THEN 1 ELSE 0
         /\ Produced(o)[p] = 1 => p \in Equal
<1> DEFINE f == [t \in Threads |-> o[t][p[1]][p[2]]]
<1>1. p[1] \in RIdx /\ p[2] \in SIdx
  BY DEF Pairs
<1>2. Produced(o)[p] = Total(f)
  BY DEF Produced
<1>3. f \in [Threads -> Nat] /\ \A t \in Threads : f[t] = o[t][p[1]][p[2]]
  BY <1>1 DEF Counting
<1>4. IsFiniteSet(Threads) /\ 0 \in Threads
  BY JoinAssumption, FS_Interval DEF Threads
<1> HIDE DEF f
<1>5. CASE \E t \in Threads : o[t][p[1]][p[2]] > 0
  <2>1. PICK t \in Threads : o[t][p[1]][p[2]] > 0
    BY <1>5
  <2>2. Matching(p[1], p[2]) /\ o[t][p[1]][p[2]] = 1 /\ \A u \in Threads \ {t} : o[u][p[1]][p[2]] = 0
    BY <1>1, <2>1 DEF CountedOnce
  <2>3. Total(f) = f[t]
    BY <1>3, <1>4, <2>2, SumOfOne
  <2> QED BY <1>2, <1>3, <2>2, <2>3 DEF Equal
<1>6. CASE \A t \in Threads : o[t][p[1]][p[2]] = 0
  <2>1. Total(f) = f[0]
    BY <1>3, <1>4, <1>6, SumOfOne
  <2> QED BY <1>2, <1>3, <1>4, <1>6, <2>1
<1> QED
  BY <1>1, <1>5, <1>6 DEF Counting

(* What JoinSpec calls Produce, of what was produced before and after *)
Grown(a, c) ==
  LET P == {p \in Equal : a[p] = 0 /\ c[p] = 1}
  IN  c = [p \in Pairs |-> IF p \in P THEN 1 ELSE a[p]]

(* Counters that never go down produce pairs that were missing. *)
LEMMA ProducedGrows ==
  ASSUME NEW o, Counting(o), NEW q, Counting(q), CountedOnce(o), CountedOnce(q),
         \A t \in Threads, i \in RIdx, j \in SIdx : o[t][i][j] = 1 => q[t][i][j] = 1
  PROVE  Grown(Produced(o), Produced(q))
<1> DEFINE a == Produced(o)
           c == Produced(q)
<1>1. ASSUME NEW p \in Pairs
      PROVE  /\ c[p] = 1 => p \in Equal
             /\ a[p] \in {0, 1} /\ c[p] \in {0, 1}
             /\ a[p] = 1 => c[p] = 1
  <2>1. p[1] \in RIdx /\ p[2] \in SIdx
    BY DEF Pairs
  <2>2. /\ a[p] = IF \E t \in Threads : o[t][p[1]][p[2]] = 1 THEN 1 ELSE 0
        /\ c[p] = IF \E t \in Threads : q[t][p[1]][p[2]] = 1 THEN 1 ELSE 0
        /\ c[p] = 1 => p \in Equal
    BY ProducedOnce
  <2> QED BY <2>1, <2>2
<1>2. c = [p \in Pairs |-> c[p]]
  BY DEF Produced
<1> HIDE DEF a, c
<1>3. Grown(a, c)
  BY <1>1, <1>2 DEF Grown
<1> QED
  BY <1>3 DEF a, c

LEMMA ProducedAll ==
  ASSUME NEW o, Counting(o), CountedOnce(o), CountedAll(o)
  PROVE  \A p \in Equal : Produced(o)[p] = 1
<1> SUFFICES ASSUME NEW p \in Equal PROVE Produced(o)[p] = 1
  OBVIOUS
<1>1. p \in Pairs /\ p[1] \in RIdx /\ p[2] \in SIdx /\ Matching(p[1], p[2])
  BY DEF Equal, Pairs
<1> QED
  BY <1>1, ProducedOnce DEF CountedAll

LEMMA ProducedNone ==
  ASSUME NEW o, Counting(o), \A t \in Threads, i \in RIdx, j \in SIdx : o[t][i][j] = 0
  PROVE  Produced(o) = [p \in Pairs |-> 0]
<1>1. CountedOnce(o)
  BY DEF CountedOnce
<1>2. ASSUME NEW p \in Pairs PROVE Produced(o)[p] = 0
  BY <1>1, ProducedOnce DEF Pairs
<1>3. Produced(o) = [p \in Pairs |-> Produced(o)[p]]
  BY DEF Produced
<1> QED
  BY <1>2, <1>3
==============================================================================
