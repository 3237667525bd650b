------------------------- MODULE SortMergeJoinProofs -------------------------
(***************************************************************************)
(* The sort-merge joins stay within their spaces, keep the sorted chunks    *)
(* intact until they are merged and join exactly, for every number of       *)
(* threads and radix bits, all relations and keys, every cache line size    *)
(* and every NUMA topology.  The second part is about the tree of ring      *)
(* buffers that the m-way join merges its runs with: it loses nothing and   *)
(* keeps the order.                                                         *)
(***************************************************************************)
EXTENDS SortMergeJoin, MergeTree, JoinBaseProofs

(* Powers of two count the subsets. *)
LEMMA PowerType ==
  ASSUME NEW n \in Nat
  PROVE  2 ^ n \in Nat \ {0}
<1> DEFINE S == 1 .. n
<1>1. IsFiniteSet(S) /\ Cardinality(S) = n
  BY FS_Interval
<1>2. IsFiniteSet(SUBSET S) /\ Cardinality(SUBSET S) = 2 ^ Cardinality(S)
  BY <1>1, FS_SUBSET
<1>3. Cardinality(SUBSET S) \in Nat /\ Cardinality(SUBSET S) # 0
  BY <1>2, FS_CardinalityType, FS_EmptySet
<1> QED
  BY <1>1, <1>2, <1>3

LEMMA PowerNext ==
  ASSUME NEW n \in Nat
  PROVE  2 ^ (n + 1) = 2 * 2 ^ n
<1> DEFINE S == 1 .. n
           T == 1 .. n + 1
           A == SUBSET S
           B == {s \in SUBSET T : n + 1 \in s}
           f == [s \in A |-> s \cup {n + 1}]
<1>1. IsFiniteSet(S) /\ Cardinality(S) = n /\ IsFiniteSet(T) /\ Cardinality(T) = n + 1
  BY FS_Interval
<1>2. /\ IsFiniteSet(A) /\ Cardinality(A) = 2 ^ n
      /\ IsFiniteSet(SUBSET T) /\ Cardinality(SUBSET T) = 2 ^ (n + 1)
  BY <1>1, FS_SUBSET
<1>3. n + 1 \notin S /\ T = S \cup {n + 1}
  OBVIOUS
<1> HIDE DEF S, T
<1>4. SUBSET T = A \cup B /\ A \cap B = {}
  BY <1>3
<1>5. f \in Injection(A, B)
  <2>1. ASSUME NEW s \in A PROVE s \cup {n + 1} \in B
    BY <1>3
  <2>2. ASSUME NEW s \in A, NEW r \in A, s \cup {n + 1} = r \cup {n + 1} PROVE s = r
    BY <1>3, <2>2
  <2> QED BY <2>1, <2>2 DEF Injection, IsInjective
<1>6. f \in Surjection(A, B)
  <2>1. ASSUME NEW s \in B PROVE \E r \in A : r \cup {n + 1} = s
    <3>1. s \ {n + 1} \in A /\ (s \ {n + 1}) \cup {n + 1} = s
      BY <1>3
    <3> QED BY <3>1
  <2>2. f \in [A -> B]
    BY <1>5 DEF Injection
  <2> QED BY <2>1, <2>2 DEF Surjection
<1>7. ExistsBijection(A, B)
  BY <1>5, <1>6 DEF ExistsBijection, Bijection
<1>8. IsFiniteSet(B) /\ Cardinality(B) = Cardinality(A)
  BY <1>2, <1>7, FS_Bijection
<1> HIDE DEF A, B
<1>9. Cardinality(A \cup B) = Cardinality(A) + Cardinality(B)
  BY <1>2, <1>4, <1>8, CardDisjoint
<1> QED
  BY <1>2, <1>4, <1>8, <1>9, PowerType

LEMMA PowerSum ==
  ASSUME NEW a \in Nat, NEW b \in Nat
  PROVE  2 ^ (a + b) = 2 ^ a * 2 ^ b
<1> DEFINE T == {n \in Nat : 2 ^ (a + n) = 2 ^ a * 2 ^ n}
<1>1. 0 \in T
  BY PowerType
<1>2. ASSUME NEW n \in T PROVE n + 1 \in T
  <2>1. 2 ^ (a + (n + 1)) = 2 * 2 ^ (a + n)
    <3>1. a + n \in Nat /\ a + (n + 1) = (a + n) + 1
      OBVIOUS
    <3> QED BY <3>1, PowerNext
  <2>2. 2 ^ (n + 1) = 2 * 2 ^ n
    BY PowerNext
  <2>3. 2 ^ a \in Nat /\ 2 ^ n \in Nat
    BY PowerType
  <2> DEFINE x == 2 ^ a
             y == 2 ^ n
  <2>4. 2 * (x * y) = x * (2 * y)
    <3> HIDE DEF x, y
    <3> QED BY <2>3 DEF x, y
  <2> QED BY <2>1, <2>2, <2>4
<1>3. b \in T
  <2>1. Nat \subseteq T
    <3> HIDE DEF T
    <3> QED BY <1>1, <1>2, SetInduction
  <2> QED BY <2>1
<1> QED
  BY <1>3

LEMMA PowerAbove ==
  ASSUME NEW n \in Nat
  PROVE  n < 2 ^ n
<1> DEFINE T == {k \in Nat : k < 2 ^ k}
<1>1. 0 \in T
  BY PowerType
<1>2. ASSUME NEW k \in T PROVE k + 1 \in T
  BY PowerNext, PowerType
<1>3. Nat \subseteq T
  <2> HIDE DEF T
  <2> QED BY <1>1, <1>2, SetInduction
<1> QED
  BY <1>3

------------------------------------------------------------------------------
(* Sizes and shares *)

Tuples(x) == 0 .. Num(x) - 1
Algos     == {b[1] : b \in Builds}

LEMMA Sizes ==
  /\ numR \in Nat /\ numS \in Nat /\ nthreads \in Nat \ {0} /\ 0 \in Threads /\ IsFiniteSet(Threads)
  /\ NRADIXBITS \in Nat /\ PARTFANOUT \in Nat \ {0} /\ TUPLESPERCACHELINE \in Nat \ {0}
  /\ CACHELINEPADDING \in Nat \ {0}
  /\ perthread \in Nat \ {0} /\ PARTFANOUT = perthread * nthreads
<1>1. NRADIXBITS \in Nat /\ TUPLESPERCACHELINE \in Nat \ {0}
  BY SortMergeAssumption
<1>2. PARTFANOUT \in Nat \ {0}
  BY <1>1, PowerType DEF PARTFANOUT
<1>3. nthreads \in Nat \ {0} /\ 0 \in Threads /\ IsFiniteSet(Threads) /\ numR \in Nat /\ numS \in Nat
  BY JoinAssumption, FS_Interval DEF Threads
<1>4. CACHELINEPADDING \in Nat \ {0}
  <2>1. ASSUME NEW a \in Nat \ {0}, NEW b \in Nat \ {0} PROVE a * b \in Nat \ {0}
    OBVIOUS
  <2> QED BY <1>1, <1>2, <2>1 DEF CACHELINEPADDING
<1>5. perthread \in Nat \ {0} /\ PARTFANOUT = perthread * nthreads
  <2>1. PICK b \in 0 .. NRADIXBITS : nthreads = 2 ^ b
    BY SortMergeAssumption
  <2>2. b \in Nat /\ NRADIXBITS - b \in Nat /\ (NRADIXBITS - b) + b = NRADIXBITS
    BY <1>1
  <2>3. 2 ^ NRADIXBITS = 2 ^ (NRADIXBITS - b) * 2 ^ b
    BY <2>2, PowerSum
  <2> DEFINE k == 2 ^ (NRADIXBITS - b)
  <2>4. k \in Nat \ {0} /\ PARTFANOUT = k * nthreads
    BY <2>1, <2>2, <2>3, PowerType DEF PARTFANOUT
  <2> HIDE DEF k
  <2>5. (k * nthreads) \div nthreads = k
    BY <1>3, <2>4
  <2> QED BY <2>4, <2>5 DEF perthread
<1> QED
  BY <1>1, <1>2, <1>3, <1>4, <1>5

LEMMA NumType ==
  ASSUME NEW x \in Rels
  PROVE  /\ Num(x) \in Nat /\ IsFiniteSet(Tuples(x)) /\ Tuples(x) \in SUBSET Nat
         /\ \A i \in Tuples(x) : Key(x, i) \in Nat
<1>1. Num(x) \in Nat
  BY Sizes DEF Num
<1>2. IsFiniteSet(0 .. Num(x) - 1)
  BY <1>1, FS_Interval
<1>3. \A i \in Tuples(x) : Key(x, i) \in Nat
  BY JoinAssumption DEF Key, Tuples, Num, Rels, RIdx, SIdx
<1> QED
  BY <1>1, <1>2, <1>3 DEF Tuples

LEMMA CeilLog2Type == ASSUME NEW n \in Nat PROVE CeilLog2(n) \in Nat
<1> DEFINE T == {b \in Nat : 2 ^ b >= n}
<1>1. n \in T
  BY PowerAbove, PowerType
<1>2. PICK b \in T : \A c \in T : b <= c
  BY <1>1, LeastNat
<1>3. \A c \in 0 .. b - 1 : 2 ^ c < n
  BY <1>2, PowerType
<1>4. b \in 0 .. n
  BY <1>1, <1>2
<1>5. \E d \in 0 .. n : 2 ^ d >= n /\ \A c \in 0 .. d - 1 : 2 ^ c < n
  BY <1>2, <1>3, <1>4
<1> QED
  BY <1>5 DEF CeilLog2

LEMMA ShiftType == ASSUME NEW a \in Algos, NEW t \in Threads PROVE Shift(a, t) \in Nat
<1>1. numR \in Nat /\ nthreads \in Nat /\ NRADIXBITS \in Nat
  BY Sizes
<1>2. NumShare(numR, t) \in Nat
  BY <1>1, ShareType DEF NumShare
<1>3. NumShare(numR, t) * nthreads \in Nat
  BY <1>1, <1>2
<1>4. CeilLog2(NumShare(numR, t) * nthreads) \in Nat
  BY <1>3, CeilLog2Type
<1>5. Shift(a, t) \in Int
  BY <1>1, <1>4 DEF Shift
<1>6. PICK b \in Builds : b[1] = a
  BY DEF Algos
<1> QED
  BY <1>5, <1>6, SortMergeAssumption

LEMMA HashType ==
  ASSUME NEW k \in Nat, NEW R \in Nat
  PROVE  HASH_BIT_MODULO(k, R) \in Parts
<1> DEFINE d == 2 ^ R
           f == PARTFANOUT
<1>1. d \in Nat \ {0} /\ f \in Nat \ {0}
  BY PowerType, Sizes
<1> HIDE DEF d, f
<1>2. (k - 1) \div d \in Int
  BY <1>1
<1>3. ASSUME NEW z \in Int PROVE z % f \in 0 .. f - 1
  BY <1>1
<1> QED
  BY <1>2, <1>3 DEF HASH_BIT_MODULO, Parts, d, f

(* The partition of a tuple for a thread *)
PartNo(a, x, t, i) == HASH_BIT_MODULO(Key(x, i), Shift(a, t))

LEMMA ShareIn ==
  ASSUME NEW x \in Rels, NEW t \in Threads
  PROVE  /\ Share(x, t) \in SUBSET Tuples(x) /\ IsFiniteSet(Share(x, t))
         /\ NumShare(Num(x), t) \in Nat /\ Cardinality(Share(x, t)) = NumShare(Num(x), t)
<1>1. Num(x) \in Nat
  BY NumType
<1> DEFINE b == ShareBegin(Num(x), t)
           e == ShareEnd(Num(x), t)
<1>2. b \in Nat /\ e \in Nat /\ b <= e /\ e <= Num(x)
  BY <1>1, ShareType
<1> HIDE DEF b, e
<1>3. Share(x, t) = b .. e - 1 /\ NumShare(Num(x), t) = e - b
  BY DEF Share, NumShare, b, e
<1>4. IsFiniteSet(b .. e - 1) /\ Cardinality(b .. e - 1) = e - b
  <2>1. b \in Int /\ e - 1 \in Int
    BY <1>2
  <2>2. /\ IsFiniteSet(b .. e - 1)
        /\ Cardinality(b .. e - 1) = IF b > e - 1 THEN 0 ELSE e - 1 - b + 1
    BY <2>1, FS_Interval
  <2> QED BY <1>2, <2>2
<1>5. b .. e - 1 \in SUBSET (0 .. Num(x) - 1)
  BY <1>1, <1>2
<1> QED
  BY <1>2, <1>3, <1>4, <1>5 DEF Tuples

LEMMA ShareDisjoint ==
  ASSUME NEW x \in Rels, NEW t \in Threads, NEW u \in Threads, NEW i \in Share(x, t), i \in Share(x, u)
  PROVE  t = u
<1>1. Num(x) \in Nat
  BY NumType
<1>2. /\ ShareBegin(Num(x), t) \in Nat /\ ShareEnd(Num(x), t) \in Nat
      /\ ShareBegin(Num(x), u) \in Nat /\ ShareEnd(Num(x), u) \in Nat
  BY <1>1, ShareType
<1>3. /\ i \in Nat /\ ShareBegin(Num(x), t) <= i /\ i < ShareEnd(Num(x), t)
      /\ ShareBegin(Num(x), u) <= i /\ i < ShareEnd(Num(x), u)
  BY <1>2 DEF Share
<1> QED
  BY <1>1, <1>3, ShareUnique

LEMMA ShareOf ==
  ASSUME NEW x \in Rels, NEW i \in Tuples(x)
  PROVE  \E t \in Threads : i \in Share(x, t)
<1>1. Num(x) \in Nat /\ i \in Nat /\ i < Num(x)
  BY NumType DEF Tuples
<1>2. PICK t \in Threads : ShareBegin(Num(x), t) <= i /\ i < ShareEnd(Num(x), t)
  BY <1>1, ShareExists
<1>3. ShareBegin(Num(x), t) \in Nat /\ ShareEnd(Num(x), t) \in Nat
  BY <1>1, ShareType
<1> QED
  BY <1>1, <1>2, <1>3 DEF Share

------------------------------------------------------------------------------
(* The temporary spaces *)

LEMMA AlignUp ==
  ASSUME NEW n \in Nat
  PROVE  /\ ALIGN_NUMTUPLES(n) \in Nat
         /\ n <= ALIGN_NUMTUPLES(n) /\ ALIGN_NUMTUPLES(n) <= n + TUPLESPERCACHELINE
<1> DEFINE c == TUPLESPERCACHELINE
           q == (n + c - 1) \div c
<1>1. c \in Nat \ {0}
  BY Sizes
<1> HIDE DEF c
<1>2. n + c - 1 \in Nat
  BY <1>1
<1>3. q \in Nat /\ q * c <= n + c - 1 /\ n + c - 1 < q * c + c
  BY <1>1, <1>2
<1> HIDE DEF q
<1>4. q * c \in Nat
  BY <1>1, <1>3
<1> QED
  BY <1>1, <1>3, <1>4 DEF ALIGN_NUMTUPLES, c, q

(* The tuples of a share in partitions before p *)
Lower(a, x, t, p) == {i \in Share(x, t) : PartNo(a, x, t, i) < p}

LEMMA PartSetIn ==
  ASSUME NEW a \in Algos, NEW x \in Rels, NEW t \in Threads, NEW p \in Parts
  PROVE  /\ PartSets[a][x][t][p] = {i \in Share(x, t) : PartNo(a, x, t, i) = p}
         /\ PartSets[a][x][t][p] \in SUBSET Nat
         /\ PartSets[a][x][t][p] \in SUBSET Tuples(x)
         /\ IsFiniteSet(PartSets[a][x][t][p])
         /\ Cardinality(PartSets[a][x][t][p]) \in Nat
         /\ Cardinality(PartSets[a][x][t][p]) <= Num(x)
<1>1. PartSets[a][x][t][p] = {i \in Share(x, t) : PartNo(a, x, t, i) = p}
  BY DEF PartSets, Algos, PartNo
<1>2. Share(x, t) \in SUBSET Tuples(x) /\ Tuples(x) \in SUBSET Nat /\ IsFiniteSet(Tuples(x))
  BY ShareIn, NumType
<1>3. PartSets[a][x][t][p] \in SUBSET Tuples(x)
  BY <1>1, <1>2
<1>4. /\ IsFiniteSet(PartSets[a][x][t][p])
      /\ Cardinality(PartSets[a][x][t][p]) <= Cardinality(Tuples(x))
  BY <1>2, <1>3, FS_Subset
<1>5. Cardinality(Tuples(x)) = Num(x)
  <2>1. Num(x) \in Nat
    BY NumType
  <2>2. Cardinality(0 .. Num(x) - 1) = IF 0 > Num(x) - 1 THEN 0 ELSE Num(x) - 1 - 0 + 1
    BY <2>1, FS_Interval
  <2> QED BY <2>1, <2>2 DEF Tuples
<1> QED
  BY <1>1, <1>2, <1>3, <1>4, <1>5, FS_CardinalityType

LEMMA LowerNext ==
  ASSUME NEW a \in Algos, NEW x \in Rels, NEW t \in Threads, NEW p \in Parts
  PROVE  /\ Cardinality(Lower(a, x, t, p)) \in Nat
         /\ Cardinality(Lower(a, x, t, p + 1))
              = Cardinality(Lower(a, x, t, p)) + Cardinality(PartSets[a][x][t][p])
         /\ Cardinality(Lower(a, x, t, p + 1)) <= NumShare(Num(x), t)
<1> DEFINE L == Lower(a, x, t, p)
           M == Lower(a, x, t, p + 1)
           P == PartSets[a][x][t][p]
<1>1. \A i \in Share(x, t) : PartNo(a, x, t, i) \in Nat
  BY ShareIn, NumType, ShiftType, HashType DEF PartNo, Parts
<1>2. P = {i \in Share(x, t) : PartNo(a, x, t, i) = p}
  BY PartSetIn
<1>3. p \in Nat
  BY DEF Parts
<1>4. M = L \cup P /\ L \cap P = {}
  <2>1. \A i \in Share(x, t) : PartNo(a, x, t, i) < p + 1 <=> PartNo(a, x, t, i) < p \/ PartNo(a, x, t, i) = p
    BY <1>1, <1>3
  <2>2. \A i \in Share(x, t) : ~(PartNo(a, x, t, i) < p /\ PartNo(a, x, t, i) = p)
    BY <1>3
  <2> QED BY <1>2, <2>1, <2>2 DEF Lower
<1>5. L \in SUBSET Share(x, t) /\ M \in SUBSET Share(x, t) /\ P \in SUBSET Share(x, t)
  BY <1>2 DEF Lower
<1>6. IsFiniteSet(L) /\ IsFiniteSet(P) /\ Cardinality(M) <= Cardinality(Share(x, t))
  BY <1>5, ShareIn, FS_Subset
<1> HIDE DEF L, M, P
<1>7. Cardinality(L) \in Nat
  BY <1>6, FS_CardinalityType
<1>8. Cardinality(L \cup P) = Cardinality(L) + Cardinality(P)
  BY <1>4, <1>6, CardDisjoint
<1> QED
  BY <1>4, <1>6, <1>7, <1>8, ShareIn DEF L, M, P

AlignedSizes(a, x, t) == [q \in Parts |-> ALIGN_NUMTUPLES(Cardinality(PartSets[a][x][t][q]))]

LEMMA OffsetIs ==
  ASSUME NEW a \in Algos, NEW x \in Rels, NEW t \in Threads, NEW p \in Parts
  PROVE  Offsets[a][x][t][p] = SumOver(AlignedSizes(a, x, t), 0 .. p - 1)
<1>1. DOMAIN PartSets = Algos
  BY DEF PartSets, Algos
<1> QED
  BY <1>1 DEF Offsets, AlignedSizes

LEMMA AlignedNext ==
  ASSUME NEW a \in Algos, NEW x \in Rels, NEW t \in Threads, NEW p \in Parts
  PROVE  /\ SumOver(AlignedSizes(a, x, t), 0 .. p - 1) \in Nat
         /\ SumOver(AlignedSizes(a, x, t), 0 .. (p + 1) - 1)
              = SumOver(AlignedSizes(a, x, t), 0 .. p - 1) + AlignedSizes(a, x, t)[p]
         /\ AlignedSizes(a, x, t)[p] \in Nat
         /\ Cardinality(PartSets[a][x][t][p]) <= AlignedSizes(a, x, t)[p]
         /\ AlignedSizes(a, x, t)[p] <= Cardinality(PartSets[a][x][t][p]) + TUPLESPERCACHELINE
<1> DEFINE f == AlignedSizes(a, x, t)
           D == 0 .. p - 1
           N == Num(x) + TUPLESPERCACHELINE
<1>1. p \in Nat /\ PARTFANOUT \in Nat /\ p < PARTFANOUT
  BY Sizes DEF Parts
<1>2. ASSUME NEW q \in Parts
      PROVE  /\ f[q] \in 0 .. N /\ Cardinality(PartSets[a][x][t][q]) <= f[q]
             /\ f[q] <= Cardinality(PartSets[a][x][t][q]) + TUPLESPERCACHELINE
  <2>1. Cardinality(PartSets[a][x][t][q]) \in Nat /\ Cardinality(PartSets[a][x][t][q]) <= Num(x)
    BY PartSetIn
  <2>2. f[q] = ALIGN_NUMTUPLES(Cardinality(PartSets[a][x][t][q]))
    BY DEF AlignedSizes
  <2> QED BY <2>1, <2>2, AlignUp, NumType, Sizes
<1>3. N \in Nat /\ IsFiniteSet(D) /\ p \notin D
  <2>1. p - 1 \in Int
    BY <1>1
  <2>2. IsFiniteSet(0 .. p - 1)
    BY <2>1, FS_Interval
  <2>3. Num(x) \in Nat /\ TUPLESPERCACHELINE \in Nat
    BY NumType, Sizes
  <2> QED BY <1>1, <2>2, <2>3
<1>4. D \cup {p} = 0 .. (p + 1) - 1 /\ \A q \in D \cup {p} : q \in Parts
  BY <1>1 DEF Parts
<1> HIDE DEF f, N, D
<1>5. SumOver(f, D) \in Nat /\ SumOver(f, D \cup {p}) = SumOver(f, D) + f[p]
  BY <1>2, <1>3, <1>4, SumAdd
<1>6. f[p] \in Nat
  BY <1>2, <1>3
<1>7. SumOver(f, 0 .. (p + 1) - 1) = SumOver(f, 0 .. p - 1) + f[p]
  <2>1. SumOver(f, D \cup {p}) = SumOver(f, D) + f[p]
    BY <1>5
  <2>2. D \cup {p} = 0 .. (p + 1) - 1
    BY <1>4
  <2>3. SumOver(f, 0 .. (p + 1) - 1) = SumOver(f, D) + f[p]
    BY ONLY <2>1, <2>2
  <2> QED BY <2>3 DEF D
<1>8. /\ Cardinality(PartSets[a][x][t][p]) <= f[p]
      /\ f[p] <= Cardinality(PartSets[a][x][t][p]) + TUPLESPERCACHELINE
  BY <1>2
<1> QED
  BY <1>5, <1>6, <1>7, <1>8 DEF f, D

LEMMA OffsetBound ==
  ASSUME NEW a \in Algos, NEW x \in Rels, NEW t \in Threads, NEW p \in Parts
  PROVE  /\ Offsets[a][x][t][p] \in Nat
         /\ Offsets[a][x][t][p] <= Cardinality(Lower(a, x, t, p)) + p * TUPLESPERCACHELINE
<1> DEFINE f == AlignedSizes(a, x, t)
           c == TUPLESPERCACHELINE
           T == {k \in Nat : k \in Parts => SumOver(f, 0 .. k - 1) <= Cardinality(Lower(a, x, t, k)) + k * c}
<1>0. c \in Nat /\ PARTFANOUT \in Nat
  BY Sizes
<1>1. 0 \in T
  <2>1. 0 .. 0 - 1 = {}
    OBVIOUS
  <2>2. SumOver(f, 0 .. 0 - 1) = 0
    BY <2>1, SumEmpty
  <2>3. 0 \in Parts => Cardinality(Lower(a, x, t, 0)) \in Nat
    BY LowerNext
  <2> QED BY <1>0, <2>2, <2>3
<1>2. ASSUME NEW k \in T PROVE k + 1 \in T
  <2> SUFFICES ASSUME k + 1 \in Parts
               PROVE  SumOver(f, 0 .. (k + 1) - 1) <= Cardinality(Lower(a, x, t, k + 1)) + (k + 1) * c
    OBVIOUS
  <2>1. k \in Parts
    BY <1>0 DEF Parts
  <2>2. (k + 1) * c = k * c + c /\ k * c \in Nat
    BY <1>0
  <2>3. Cardinality(PartSets[a][x][t][k]) \in Nat
    BY <2>1, PartSetIn
  <2>4. /\ SumOver(f, 0 .. k - 1) \in Nat /\ f[k] \in Nat
        /\ SumOver(f, 0 .. (k + 1) - 1) = SumOver(f, 0 .. k - 1) + f[k]
        /\ f[k] <= Cardinality(PartSets[a][x][t][k]) + c
    BY <2>1, AlignedNext
  <2>5. /\ Cardinality(Lower(a, x, t, k)) \in Nat
        /\ Cardinality(Lower(a, x, t, k + 1)) = Cardinality(Lower(a, x, t, k)) + Cardinality(PartSets[a][x][t][k])
    BY <2>1, LowerNext
  <2>6. SumOver(f, 0 .. k - 1) <= Cardinality(Lower(a, x, t, k)) + k * c
    BY <2>1
  <2> HIDE DEF f, c, T
  <2> QED BY <1>0, <2>2, <2>3, <2>4, <2>5, <2>6
<1>3. p \in T
  <2>1. Nat \subseteq T
    <3> HIDE DEF T
    <3> QED BY <1>1, <1>2, SetInduction
  <2> QED BY <2>1 DEF Parts
<1> QED
  BY <1>3, OffsetIs, AlignedNext

Size(a, x, t, p) == Cardinality(PartSets[a][x][t][p])

(* The runs of a thread lie one behind the other. *)
LEMMA OffsetOrder ==
  ASSUME NEW a \in Algos, NEW x \in Rels, NEW t \in Threads, NEW p \in Parts, NEW q \in Parts, p < q
  PROVE  Offsets[a][x][t][p] + Size(a, x, t, p) <= Offsets[a][x][t][q]
<1> DEFINE f == AlignedSizes(a, x, t)
           Off(k) == SumOver(f, 0 .. k - 1)
           T == {k \in Nat : p + 1 + k \in Parts => Off(p) + Size(a, x, t, p) <= Off(p + 1 + k)}
<1>0. PARTFANOUT \in Nat /\ p \in Nat /\ q \in Nat /\ Size(a, x, t, p) \in Nat
  BY Sizes, PartSetIn DEF Parts, Size
<1>1. ASSUME NEW k \in Parts
      PROVE  /\ Off(k) \in Nat /\ Off(k + 1) = Off(k) + f[k] /\ f[k] \in Nat
             /\ Size(a, x, t, k) <= f[k]
  BY AlignedNext DEF Size
<1> HIDE DEF f, Off
<1>2. 0 \in T
  BY <1>0, <1>1
<1>3. ASSUME NEW k \in T PROVE k + 1 \in T
  <2> SUFFICES ASSUME p + 1 + (k + 1) \in Parts
               PROVE  Off(p) + Size(a, x, t, p) <= Off(p + 1 + (k + 1))
    OBVIOUS
  <2>1. p + 1 + k \in Parts /\ p + 1 + (k + 1) = (p + 1 + k) + 1
    BY <1>0 DEF Parts
  <2> QED BY <1>0, <1>1, <2>1
<1>4. q - (p + 1) \in T
  <2>1. Nat \subseteq T
    <3> HIDE DEF T
    <3> QED BY <1>2, <1>3, SetInduction
  <2>2. q - (p + 1) \in Nat
    BY <1>0
  <2> QED BY <2>1, <2>2
<1>5. p + 1 + (q - (p + 1)) = q
  BY <1>0
<1>6. Off(p) + Size(a, x, t, p) <= Off(q)
  BY <1>4, <1>5
<1> QED
  BY <1>6, OffsetIs DEF Off, f

(* They fit into the share and its padding. *)
LEMMA OffsetEnd ==
  ASSUME NEW a \in Algos, NEW x \in Rels, NEW t \in Threads, NEW p \in Parts
  PROVE  Offsets[a][x][t][p] + Size(a, x, t, p) <= NumShare(Num(x), t) + CACHELINEPADDING
<1> DEFINE c == TUPLESPERCACHELINE
<1>1. /\ Offsets[a][x][t][p] \in Nat
      /\ Offsets[a][x][t][p] <= Cardinality(Lower(a, x, t, p)) + p * c
  BY OffsetBound
<1>2. /\ Cardinality(Lower(a, x, t, p)) \in Nat /\ Size(a, x, t, p) \in Nat
      /\ Cardinality(Lower(a, x, t, p)) + Size(a, x, t, p) <= NumShare(Num(x), t)
      /\ NumShare(Num(x), t) \in Nat
  BY LowerNext, PartSetIn, ShareIn DEF Size
<1>3. p * c <= PARTFANOUT * c /\ p * c \in Nat /\ PARTFANOUT * c \in Nat
  <2>1. c \in Nat /\ p \in Nat /\ PARTFANOUT \in Nat /\ p <= PARTFANOUT
    BY Sizes DEF Parts
  <2>2. c * p <= c * PARTFANOUT /\ c * p \in Nat
    BY <2>1, MulMono
  <2> QED BY <2>1, <2>2
<1>4. CACHELINEPADDING = PARTFANOUT * c
  BY DEF CACHELINEPADDING
<1> HIDE DEF c
<1> QED
  BY <1>1, <1>2, <1>3, <1>4

(* The part of a space that is a thread's, and where it ends *)
Limit(x, t) == Base(x, t) + NumShare(Num(x), t) + CACHELINEPADDING

LEMMA BaseType ==
  ASSUME NEW x \in Rels, NEW t \in Threads
  PROVE  Base(x, t) \in Nat /\ Limit(x, t) \in Nat
<1>1. t \in Nat /\ Num(x) \in Nat /\ CACHELINEPADDING \in Nat /\ NumShare(Num(x), t) \in Nat
  BY NumType, Sizes, ShareIn DEF Threads
<1>2. Num(x) \div nthreads \in Nat
  BY <1>1, QuotientType
<1>3. t * ((Num(x) \div nthreads) + CACHELINEPADDING) \in Nat
  BY <1>1, <1>2
<1> QED
  BY <1>1, <1>3 DEF Base, Limit

LEMMA BaseOrder ==
  ASSUME NEW x \in Rels, NEW t \in Threads, NEW u \in Threads, t < u
  PROVE  Limit(x, t) <= Base(x, u)
<1> DEFINE n == Num(x)
           q == n \div nthreads
           C == CACHELINEPADDING
           w == q + C
<1>1. n \in Nat /\ C \in Nat /\ q \in Nat /\ t \in Nat /\ u \in Nat /\ t + 1 <= u /\ nthreads \in Nat
      /\ t # nthreads - 1 /\ w \in Nat
  BY NumType, Sizes, QuotientType DEF Threads
<1>2. NumShare(n, t) = q * (t + 1) - q * t
  BY <1>1 DEF NumShare, ShareEnd, ShareBegin
<1> HIDE DEF q, C
<1>3. q * (t + 1) - q * t = q
  BY <1>1
<1>4. Limit(x, t) = t * w + q + C
  BY <1>2, <1>3 DEF Limit, Base, q, C
<1>5. Base(x, u) = u * w
  BY DEF Base, q, C
<1>6. t * w + q + C = w * (t + 1)
  BY <1>1
<1>7. w * (t + 1) <= w * u
  BY <1>1, MulMono
<1>8. w * u = u * w
  BY <1>1
<1> QED
  BY <1>4, <1>5, <1>6, <1>7, <1>8

LEMMA LimitIn ==
  ASSUME NEW x \in Rels, NEW t \in Threads
  PROVE  Limit(x, t) <= Num(x) + nthreads * CACHELINEPADDING
<1> DEFINE n == Num(x)
           q == n \div nthreads
           C == CACHELINEPADDING
           l == nthreads - 1
<1>1. n \in Nat /\ C \in Nat /\ q \in Nat /\ l \in Nat /\ l \in Threads /\ nthreads \in Nat /\ nthreads = l + 1
  BY NumType, Sizes, QuotientType DEF Threads
<1>2. NumShare(n, l) = n - q * l
  BY <1>1 DEF NumShare, ShareEnd, ShareBegin
<1>3. Limit(x, l) = l * (q + C) + (n - q * l) + C
  BY <1>2 DEF Limit, Base
<1> HIDE DEF q, C, l
<1>4. l * (q + C) + (n - q * l) + C = n + (l + 1) * C
  BY <1>1
<1>5. Limit(x, l) = n + nthreads * C
  BY <1>1, <1>3, <1>4
<1>6. CASE t = l
  BY <1>5, <1>6, BaseType DEF C
<1>7. CASE t # l
  <2>1. t < l
    BY <1>1, <1>7 DEF Threads, l
  <2>2. Limit(x, t) <= Base(x, l)
    BY <1>1, <2>1, BaseOrder
  <2>3. Base(x, l) <= Limit(x, l)
    <3>1. Base(x, l) \in Nat /\ NumShare(n, l) \in Nat
      BY <1>1, BaseType, ShareIn
    <3> QED BY <1>1, <3>1 DEF Limit, C
  <2>4. Limit(x, t) \in Nat /\ Base(x, l) \in Nat /\ Limit(x, l) \in Nat
    BY <1>1, BaseType
  <2>5. Limit(x, t) <= Limit(x, l)
    BY <2>2, <2>3, <2>4
  <2> QED BY <1>5, <2>5 DEF C
<1> QED
  BY <1>6, <1>7

(* The address of the k-th tuple of a thread's run *)
Spot(a, x, t, p, k) == Base(x, t) + Offsets[a][x][t][p] + k

LEMMA SpotIn ==
  ASSUME NEW a \in Algos, NEW x \in Rels, NEW t \in Threads, NEW p \in Parts,
         NEW k \in 0 .. Size(a, x, t, p) - 1
  PROVE  /\ Spot(a, x, t, p, k) \in Nat
         /\ Base(x, t) <= Spot(a, x, t, p, k) /\ Spot(a, x, t, p, k) < Limit(x, t)
         /\ Spot(a, x, t, p, k) \in Addr(x)
<1>1. Base(x, t) \in Nat /\ Limit(x, t) \in Nat /\ Size(a, x, t, p) \in Nat /\ Offsets[a][x][t][p] \in Nat
  BY BaseType, PartSetIn, OffsetBound DEF Size
<1>2. Offsets[a][x][t][p] + Size(a, x, t, p) <= NumShare(Num(x), t) + CACHELINEPADDING
  BY OffsetEnd
<1>3. NumShare(Num(x), t) \in Nat /\ CACHELINEPADDING \in Nat
  BY ShareIn, Sizes
<1>4. /\ Spot(a, x, t, p, k) \in Nat
      /\ Base(x, t) <= Spot(a, x, t, p, k) /\ Spot(a, x, t, p, k) < Limit(x, t)
  BY <1>1, <1>2, <1>3 DEF Spot, Limit
<1>5. Limit(x, t) <= Num(x) + nthreads * CACHELINEPADDING
  BY LimitIn
<1>6. Num(x) + nthreads * CACHELINEPADDING \in Nat
  <2>1. Num(x) \in Nat /\ nthreads \in Nat
    BY NumType, Sizes
  <2>2. nthreads * CACHELINEPADDING \in Nat
    BY <1>3, <2>1
  <2> QED BY <2>1, <2>2
<1>7. Spot(a, x, t, p, k) \in Addr(x)
  <2> DEFINE N == Num(x) + nthreads * CACHELINEPADDING
             s == Spot(a, x, t, p, k)
             l == Limit(x, t)
  <2>1. N \in Nat /\ s \in Nat /\ l \in Nat /\ s < l /\ l <= N
    BY <1>1, <1>4, <1>5, <1>6
  <2>2. Addr(x) = 0 .. N - 1
    <3> DEFINE m == nthreads * CACHELINEPADDING
    <3>1. Num(x) \in Nat /\ nthreads \in Nat
      BY NumType, Sizes
    <3>2. m \in Nat
      BY <1>3, <3>1
    <3>3. Addr(x) = 0 .. Num(x) + m - 1
      BY DEF Addr
    <3> HIDE DEF m
    <3>4. Num(x) + m - 1 = (Num(x) + m) - 1
      BY <3>1, <3>2
    <3> QED BY <3>3, <3>4 DEF m
  <2> HIDE DEF N, s, l
  <2>3. s \in 0 .. N - 1
    BY <2>1
  <2> QED BY <2>2, <2>3 DEF s
<1> QED
  BY <1>4, <1>7

LEMMA ZonesApart ==
  ASSUME NEW x \in Rels, NEW t \in Threads, NEW u \in Threads, NEW b \in Nat,
         Base(x, t) <= b, b < Limit(x, t), Base(x, u) <= b, b < Limit(x, u)
  PROVE  t = u
<1>1. t \in Nat /\ u \in Nat
  BY DEF Threads
<1>2. /\ Base(x, t) \in Nat /\ Limit(x, t) \in Nat
      /\ Base(x, u) \in Nat /\ Limit(x, u) \in Nat
  BY BaseType
<1>3. CASE t < u
  BY <1>2, <1>3, BaseOrder
<1>4. CASE u < t
  BY <1>2, <1>4, BaseOrder
<1> QED
  BY <1>1, <1>3, <1>4

LEMMA SpotUnique ==
  ASSUME NEW a \in Algos, NEW x \in Rels, NEW t \in Threads,
         NEW p \in Parts, NEW k \in 0 .. Size(a, x, t, p) - 1,
         NEW q \in Parts, NEW m \in 0 .. Size(a, x, t, q) - 1,
         Spot(a, x, t, p, k) = Spot(a, x, t, q, m)
  PROVE  p = q /\ k = m
<1>1. /\ Base(x, t) \in Nat /\ Offsets[a][x][t][p] \in Nat /\ Offsets[a][x][t][q] \in Nat
      /\ Size(a, x, t, p) \in Nat /\ Size(a, x, t, q) \in Nat
  BY BaseType, PartSetIn, OffsetBound DEF Size
<1>2. Offsets[a][x][t][p] + k = Offsets[a][x][t][q] + m
  BY <1>1 DEF Spot
<1>3. CASE p < q
  BY <1>1, <1>2, <1>3, OffsetOrder
<1>4. CASE q < p
  BY <1>1, <1>2, <1>4, OffsetOrder
<1>5. p \in Nat /\ q \in Nat
  BY DEF Parts
<1>6. p = q
  BY <1>3, <1>4, <1>5
<1> QED
  BY <1>1, <1>2, <1>6

------------------------------------------------------------------------------
(* Sequences that list a set, and sorting *)

Lists(q, S) == /\ Len(q) \in Nat /\ q \in [1 .. Len(q) -> S]
               /\ \A i \in S : \E n \in 1 .. Len(q) : q[n] = i
               /\ \A m, n \in 1 .. Len(q) : q[m] = q[n] => m = n

Ascending(x, q) == \A m, n \in 1 .. Len(q) : m < n => Key(x, q[m]) <= Key(x, q[n])

(* What comes before, in a sequence of tuples *)
Ahead(x, q, k) == {m \in 1 .. Len(q) : Before(x, q, m, k)}

LEMMA AheadCount ==
  ASSUME NEW x \in Rels, NEW q, Len(q) \in Nat, q \in [1 .. Len(q) -> Tuples(x)],
         NEW k \in 1 .. Len(q)
  PROVE  /\ Cardinality(Ahead(x, q, k)) \in 0 .. Len(q) - 1
         /\ \A j \in 1 .. Len(q) : Before(x, q, j, k) => Cardinality(Ahead(x, q, j)) < Cardinality(Ahead(x, q, k))
<1> DEFINE D == 1 .. Len(q)
<1>1. IsFiniteSet(D) /\ Cardinality(D) = Len(q)
  BY FS_Interval
<1>2. \A m \in D : Key(x, q[m]) \in Nat
  BY NumType
<1>3. ASSUME NEW j \in D
      PROVE  /\ IsFiniteSet(Ahead(x, q, j)) /\ Cardinality(Ahead(x, q, j)) \in Nat
             /\ Cardinality(Ahead(x, q, j)) < Len(q)
  <2>1. Ahead(x, q, j) \in SUBSET D
    BY DEF Ahead
  <2>2. j \notin Ahead(x, q, j)
    BY <1>2 DEF Ahead, Before
  <2>3. /\ IsFiniteSet(Ahead(x, q, j)) /\ Cardinality(Ahead(x, q, j)) <= Cardinality(D)
        /\ Cardinality(D) = Cardinality(Ahead(x, q, j)) => D = Ahead(x, q, j)
    BY <1>1, <2>1, FS_Subset
  <2>4. Cardinality(Ahead(x, q, j)) \in Nat
    BY <2>3, FS_CardinalityType
  <2> QED BY <1>1, <2>2, <2>3, <2>4
<1>4. ASSUME NEW j \in D, Before(x, q, j, k)
      PROVE  Cardinality(Ahead(x, q, j)) < Cardinality(Ahead(x, q, k))
  <2>1. Ahead(x, q, j) \in SUBSET Ahead(x, q, k)
    <3>1. ASSUME NEW m \in D, Before(x, q, m, j) PROVE Before(x, q, m, k)
      BY <1>2, <1>4, <3>1 DEF Before
    <3> QED BY <3>1 DEF Ahead
  <2>2. j \in Ahead(x, q, k) /\ j \notin Ahead(x, q, j)
    BY <1>2, <1>4 DEF Ahead, Before
  <2>3. /\ Cardinality(Ahead(x, q, j)) <= Cardinality(Ahead(x, q, k))
        /\ Cardinality(Ahead(x, q, k)) = Cardinality(Ahead(x, q, j)) => Ahead(x, q, k) = Ahead(x, q, j)
    BY <1>3, <2>1, FS_Subset
  <2> QED BY <1>3, <2>2, <2>3
<1> QED
  BY <1>3, <1>4

(* A sort delivers, in order, what it was given. *)
LEMMA SortIs ==
  ASSUME NEW x \in Rels, NEW q, Len(q) \in Nat, q \in [1 .. Len(q) -> Tuples(x)]
  PROVE  \E f \in [1 .. Len(q) -> 1 .. Len(q)] :
           /\ SortTuples(x, q) = [n \in 1 .. Len(q) |-> q[f[n]]]
           /\ \A k \in 1 .. Len(q) : \E n \in 1 .. Len(q) : f[n] = k
           /\ \A m, n \in 1 .. Len(q) : m # n => f[m] # f[n]
           /\ \A m, n \in 1 .. Len(q) : m < n => Key(x, q[f[m]]) <= Key(x, q[f[n]])
<1> DEFINE D == 1 .. Len(q)
           P(k) == Cardinality(Ahead(x, q, k)) + 1
           g == [k \in D |-> P(k)]
           f == [n \in D |-> CHOOSE k \in D : P(k) = n]
<1>1. IsFiniteSet(D) /\ Cardinality(D) = Len(q)
  BY FS_Interval
<1>2. \A m \in D : Key(x, q[m]) \in Nat
  BY NumType
<1>3. \A k \in D : P(k) \in D /\ Cardinality(Ahead(x, q, k)) \in Nat
  BY AheadCount
<1>4. ASSUME NEW j \in D, NEW k \in D, Before(x, q, j, k) PROVE P(j) < P(k)
  <2>1. Cardinality(Ahead(x, q, j)) < Cardinality(Ahead(x, q, k))
    BY <1>4, AheadCount
  <2>2. Cardinality(Ahead(x, q, j)) \in Nat /\ Cardinality(Ahead(x, q, k)) \in Nat
    BY <1>3
  <2> QED BY <2>1, <2>2
<1>5. ASSUME NEW j \in D, NEW k \in D, j # k PROVE Before(x, q, j, k) \/ Before(x, q, k, j)
  BY <1>2, <1>5 DEF Before
<1>16. \A k \in D : P(k) \in Nat
  BY <1>3
<1> HIDE DEF P
<1>6. ASSUME NEW j \in D, NEW k \in D, P(j) = P(k) PROVE j = k
  <2>1. P(j) \in Nat /\ P(k) \in Nat
    BY <1>16, Zenon
  <2>2. Before(x, q, j, k) => P(j) < P(k)
    BY <1>4, Zenon
  <2>3. Before(x, q, k, j) => P(k) < P(j)
    BY <1>4, Zenon
  <2>4. ~Before(x, q, j, k) /\ ~Before(x, q, k, j)
    BY <1>6, <2>1, <2>2, <2>3
  <2> QED BY <1>5, <2>4, Zenon
<1>7. g \in Injection(D, D)
  BY <1>3, <1>6 DEF Injection, IsInjective
<1>8. g \in Surjection(D, D)
  BY <1>1, <1>7, FS_Injection
<1>9. \A n \in D : \E k \in D : P(k) = n
  BY <1>8 DEF Surjection
<1>10. \A n \in D : f[n] \in D /\ P(f[n]) = n
  BY <1>9
<1>11. f \in [D -> D]
  BY <1>10
<1>12. SortTuples(x, q) = [n \in D |-> q[f[n]]]
  <2>1. Places(x, q) = {<<k, P(k)>> : k \in D}
    BY DEF Places, P, Ahead
  <2>2. ASSUME NEW n \in D PROVE (CHOOSE p \in Places(x, q) : p[2] = n)[1] = f[n]
    <3> DEFINE p == CHOOSE p \in Places(x, q) : p[2] = n
    <3>1. <<f[n], n>> \in Places(x, q) /\ <<f[n], n>>[2] = n
      BY <1>10, <2>1
    <3>2. p \in Places(x, q) /\ p[2] = n
      BY <3>1
    <3>3. PICK k \in D : p = <<k, P(k)>>
      BY <2>1, <3>2
    <3> HIDE DEF p
    <3>4. k = f[n]
      BY <1>6, <1>10, <3>2, <3>3
    <3>5. p[1] = f[n]
      BY <3>3, <3>4
    <3> QED BY <3>5 DEF p
  <2>3. SortTuples(x, q) = InOrder(q, Places(x, q))
    BY DEF SortTuples, With
  <2>4. \A n \in D : q[(CHOOSE p \in Places(x, q) : p[2] = n)[1]] = q[f[n]]
    BY <2>2
  <2> HIDE DEF f
  <2>5. [n \in D |-> q[(CHOOSE p \in Places(x, q) : p[2] = n)[1]]] = [n \in D |-> q[f[n]]]
    BY <2>4
  <2> QED BY <2>3, <2>5 DEF InOrder
<1>13. \A k \in D : \E n \in D : f[n] = k
  BY <1>3, <1>6, <1>10
<1>14. \A m, n \in D : m # n => f[m] # f[n]
  BY <1>10
<1>15. ASSUME NEW m \in D, NEW n \in D, m < n PROVE Key(x, q[f[m]]) <= Key(x, q[f[n]])
  <2>1. f[m] \in D /\ f[n] \in D /\ P(f[m]) = m /\ P(f[n]) = n
    BY <1>10
  <2>2. ~Before(x, q, f[n], f[m])
    BY <1>4, <1>15, <2>1
  <2>3. f[m] # f[n]
    BY <1>14, <1>15
  <2>4. Before(x, q, f[m], f[n])
    BY <1>5, <2>1, <2>2, <2>3
  <2> QED BY <1>2, <2>1, <2>4 DEF Before
<1> HIDE DEF f
<1> QED
  BY <1>11, <1>12, <1>13, <1>14, <1>15

(* A sort delivers a sorted list of the same tuples. *)
LEMMA SortLists ==
  ASSUME NEW x \in Rels, NEW S \in SUBSET Tuples(x), NEW q, Lists(q, S)
  PROVE  /\ Lists(SortTuples(x, q), S) /\ Ascending(x, SortTuples(x, q))
         /\ Len(SortTuples(x, q)) = Len(q)
<1> DEFINE D == 1 .. Len(q)
           r == SortTuples(x, q)
<1>1. Len(q) \in Nat /\ q \in [D -> S] /\ q \in [D -> Tuples(x)]
  BY DEF Lists
<1>2. PICK f \in [D -> D] :
           /\ r = [n \in D |-> q[f[n]]]
           /\ \A k \in D : \E n \in D : f[n] = k
           /\ \A m, n \in D : m # n => f[m] # f[n]
           /\ \A m, n \in D : m < n => Key(x, q[f[m]]) <= Key(x, q[f[n]])
  BY <1>1, SortIs
<1> HIDE DEF r
<1>3. DOMAIN r = D /\ r \in [D -> S] /\ \A n \in D : r[n] = q[f[n]]
  BY <1>1, <1>2
<1>4. Len(r) = Len(q)
  BY <1>1, <1>3
<1>5. \A i \in S : \E n \in D : r[n] = i
  BY <1>2, <1>3 DEF Lists
<1>6. \A m, n \in D : r[m] = r[n] => m = n
  BY <1>2, <1>3 DEF Lists
<1>7. \A m, n \in D : m < n => Key(x, r[m]) <= Key(x, r[n])
  BY <1>2, <1>3
<1>8. Lists(r, S) /\ Ascending(x, r)
  BY <1>1, <1>3, <1>4, <1>5, <1>6, <1>7 DEF Lists, Ascending
<1> QED
  BY <1>4, <1>8 DEF r

------------------------------------------------------------------------------
(* The partitioning phase *)

(* Where a thread puts a tuple of its share *)
Slot(a, x, t, i) == Spot(a, x, t, PartNo(a, x, t, i), Rank(PartSets[a][x][t][PartNo(a, x, t, i)], i))

LEMMA SlotIn ==
  ASSUME NEW a \in Algos, NEW x \in Rels, NEW t \in Threads, NEW i \in Share(x, t)
  PROVE  /\ PartNo(a, x, t, i) \in Parts
         /\ i \in PartSets[a][x][t][PartNo(a, x, t, i)]
         /\ Rank(PartSets[a][x][t][PartNo(a, x, t, i)], i) \in 0 .. Size(a, x, t, PartNo(a, x, t, i)) - 1
         /\ Slot(a, x, t, i) \in Nat /\ Slot(a, x, t, i) \in Addr(x)
         /\ Base(x, t) <= Slot(a, x, t, i) /\ Slot(a, x, t, i) < Limit(x, t)
<1> DEFINE p == PartNo(a, x, t, i)
           P == PartSets[a][x][t][p]
           k == Rank(P, i)
<1>1. p \in Parts
  BY ShareIn, NumType, ShiftType, HashType DEF PartNo
<1> HIDE DEF p
<1>2. P = {j \in Share(x, t) : PartNo(a, x, t, j) = p} /\ P \in SUBSET Nat /\ IsFiniteSet(P)
  BY <1>1, PartSetIn
<1>3. i \in P
  BY <1>2 DEF p
<1> HIDE DEF P
<1>4. k \in 0 .. Cardinality(P) - 1
  BY <1>2, <1>3, RankType
<1>5. k \in 0 .. Size(a, x, t, p) - 1
  BY <1>4 DEF Size, P
<1> HIDE DEF k
<1>6. /\ Spot(a, x, t, p, k) \in Nat /\ Spot(a, x, t, p, k) \in Addr(x)
      /\ Base(x, t) <= Spot(a, x, t, p, k) /\ Spot(a, x, t, p, k) < Limit(x, t)
  BY <1>1, <1>5, SpotIn
<1> QED
  BY <1>1, <1>3, <1>5, <1>6 DEF Slot, p, P, k

LEMMA SlotUnique ==
  ASSUME NEW a \in Algos, NEW x \in Rels, NEW t \in Threads, NEW i \in Share(x, t), NEW j \in Share(x, t),
         Slot(a, x, t, i) = Slot(a, x, t, j)
  PROVE  i = j
<1> DEFINE p == PartNo(a, x, t, i)
           q == PartNo(a, x, t, j)
           k == Rank(PartSets[a][x][t][p], i)
           m == Rank(PartSets[a][x][t][q], j)
<1>1. /\ p \in Parts /\ i \in PartSets[a][x][t][p] /\ k \in 0 .. Size(a, x, t, p) - 1
      /\ q \in Parts /\ j \in PartSets[a][x][t][q] /\ m \in 0 .. Size(a, x, t, q) - 1
  BY SlotIn
<1>2. Spot(a, x, t, p, k) = Spot(a, x, t, q, m)
  BY DEF Slot
<1> HIDE DEF p, q
<1>3. p = q /\ k = m
  <2> HIDE DEF k, m
  <2> QED BY <1>1, <1>2, SpotUnique
<1>4. PartSets[a][x][t][p] \in SUBSET Nat /\ IsFiniteSet(PartSets[a][x][t][p])
  BY <1>1, PartSetIn
<1> QED
  BY <1>1, <1>3, <1>4, RankUnique

(* Every place of a run is that of one of its tuples. *)
LEMMA SlotOnto ==
  ASSUME NEW a \in Algos, NEW x \in Rels, NEW t \in Threads, NEW p \in Parts,
         NEW k \in 0 .. Size(a, x, t, p) - 1
  PROVE  \E i \in PartSets[a][x][t][p] : i \in Share(x, t) /\ Slot(a, x, t, i) = Spot(a, x, t, p, k)
<1> DEFINE P == PartSets[a][x][t][p]
<1>1. P = {j \in Share(x, t) : PartNo(a, x, t, j) = p} /\ P \in SUBSET Nat /\ IsFiniteSet(P)
  BY PartSetIn
<1>2. k \in 0 .. Cardinality(P) - 1
  BY DEF Size
<1> HIDE DEF P
<1>3. PICK i \in P : Rank(P, i) = k
  BY <1>1, <1>2, RankOnto
<1>4. i \in Share(x, t) /\ PartNo(a, x, t, i) = p
  BY <1>1
<1>5. Slot(a, x, t, i) = Spot(a, x, t, p, k)
  BY <1>3, <1>4 DEF Slot, P
<1> QED
  BY <1>3, <1>4, <1>5 DEF P

(* The tuples of a thread's share are where it puts them in the space m. *)
InPlace(m, a, x, t) == \A i \in Share(x, t) : m[Slot(a, x, t, i)] = i

Space(x) == [Addr(x) -> Tuples(x) \cup {NoTuple}]

LEMMA ScatterIs ==
  ASSUME NEW x \in Rels, NEW t \in Threads, algo \in Algos, tmp_part[x] \in Space(x)
  PROVE  /\ Scatter(x, t) \in Space(x)
         /\ InPlace(Scatter(x, t), algo, x, t)
         /\ \A b \in Addr(x) : ~(Base(x, t) <= b /\ b < Limit(x, t)) => Scatter(x, t)[b] = tmp_part[x][b]
<1> DEFINE D    == Share(x, t)
           slot == [i \in D |-> SlotOf(x, t, i)]
           at   == {slot[i] : i \in D}
           Who(b) == CHOOSE i \in D : slot[i] = b
           m    == Scatter(x, t)
<1>1. ASSUME NEW i \in D PROVE SlotOf(x, t, i) = Slot(algo, x, t, i)
  BY DEF SlotOf, Slot, Spot, PartNo, PartOf, Offset, Rank
<1>2. D \in SUBSET Tuples(x)
  BY ShareIn
<1>3. /\ \A i \in D : /\ slot[i] = Slot(algo, x, t, i) /\ slot[i] \in Addr(x)
                      /\ Base(x, t) <= slot[i] /\ slot[i] < Limit(x, t)
      /\ \A i, j \in D : slot[i] = slot[j] => i = j
  BY <1>1, SlotIn, SlotUnique
<1>4. m = [b \in Addr(x) \cup at |-> IF b \in at THEN Who(b) ELSE tmp_part[x][b]]
  BY DEF Scatter
<1> HIDE DEF D, slot, m
<1>5. Addr(x) \cup at = Addr(x)
  BY <1>3
<1>6. \A i \in D : Who(slot[i]) = i
  BY <1>3
<1>7. \A b \in at : Who(b) \in D
  BY <1>6
<1> HIDE DEF Who
<1>8. m \in Space(x)
  BY <1>2, <1>4, <1>5, <1>7 DEF Space
<1>9. \A i \in D : m[slot[i]] = i
  BY <1>3, <1>4, <1>5, <1>6
<1>10. ASSUME NEW b \in Addr(x), ~(Base(x, t) <= b /\ b < Limit(x, t)) PROVE m[b] = tmp_part[x][b]
  BY <1>3, <1>4, <1>5, <1>10
<1>11. InPlace(m, algo, x, t)
  BY <1>3, <1>9 DEF InPlace, D
<1> QED
  BY <1>8, <1>10, <1>11 DEF m

(* What a run of a partition reads *)
LEMMA PartLists ==
  ASSUME NEW a \in Algos, NEW x \in Rels, NEW t \in Threads, NEW p \in Parts, NEW m, InPlace(m, a, x, t),
         NEW s, s = [n \in 1 .. Size(a, x, t, p) |-> m[Spot(a, x, t, p, n - 1)]]
  PROVE  Lists(s, PartSets[a][x][t][p]) /\ Len(s) = Size(a, x, t, p)
<1> DEFINE P == PartSets[a][x][t][p]
           k == Size(a, x, t, p)
<1>1. k \in Nat /\ P = {i \in Share(x, t) : PartNo(a, x, t, i) = p}
  BY PartSetIn DEF Size
<1>2. ASSUME NEW n \in 1 .. k
      PROVE  \E i \in P : s[n] = i /\ Slot(a, x, t, i) = Spot(a, x, t, p, n - 1)
  <2>1. n - 1 \in 0 .. Size(a, x, t, p) - 1
    BY <1>1
  <2>2. PICK i \in P : i \in Share(x, t) /\ Slot(a, x, t, i) = Spot(a, x, t, p, n - 1)
    BY <2>1, SlotOnto
  <2> QED BY <2>2 DEF InPlace
<1>3. DOMAIN s = 1 .. k /\ Len(s) = k
  BY <1>1
<1>4. s \in [1 .. k -> P]
  BY <1>2
<1>5. ASSUME NEW i \in P PROVE \E n \in 1 .. k : s[n] = i
  <2>1. i \in Share(x, t) /\ PartNo(a, x, t, i) = p
    BY <1>1
  <2>2. Rank(P, i) \in 0 .. k - 1 /\ Slot(a, x, t, i) = Spot(a, x, t, p, Rank(P, i))
    BY <2>1, SlotIn DEF Slot
  <2> DEFINE n == Rank(P, i) + 1
  <2>3. n \in 1 .. k /\ n - 1 = Rank(P, i)
    BY <1>1, <2>2
  <2>4. s[n] = i
    BY <2>1, <2>2, <2>3 DEF InPlace
  <2> QED BY <2>3, <2>4
<1>6. ASSUME NEW n \in 1 .. k, NEW l \in 1 .. k, s[n] = s[l] PROVE n = l
  <2>1. PICK i \in P : s[n] = i /\ Slot(a, x, t, i) = Spot(a, x, t, p, n - 1)
    BY <1>2
  <2>2. PICK j \in P : s[l] = j /\ Slot(a, x, t, j) = Spot(a, x, t, p, l - 1)
    BY <1>2
  <2>3. Spot(a, x, t, p, n - 1) = Spot(a, x, t, p, l - 1)
    BY <1>6, <2>1, <2>2
  <2>4. n - 1 \in 0 .. Size(a, x, t, p) - 1 /\ l - 1 \in 0 .. Size(a, x, t, p) - 1
    BY <1>1
  <2>5. n - 1 = l - 1
    BY <2>3, <2>4, SpotUnique
  <2> QED BY <2>5
<1> HIDE DEF P, k
<1> QED
  BY <1>1, <1>3, <1>4, <1>5, <1>6 DEF Lists, P, k

------------------------------------------------------------------------------
(* The sorting phase *)

LEMMA RunReads ==
  ASSUME NEW x \in Rels, NEW t \in Threads, NEW p \in Parts, algo \in Algos,
         parts[t] = PartRuns(t), InPlace(tmp_part[x], algo, x, t)
  PROVE  /\ parts[t][x][p].num = Size(algo, x, t, p)
         /\ Lists(Read(x, parts[t][x][p]), PartSets[algo][x][t][p])
         /\ Len(Read(x, parts[t][x][p])) = Size(algo, x, t, p)
<1> DEFINE run == parts[t][x][p]
           s == Read(x, run)
           k == Size(algo, x, t, p)
<1>1. run = [space |-> "part", at |-> Base(x, t) + Offset(x, t, p), num |-> k]
  BY DEF PartRuns, PartOf, Size
<1>2. Base(x, t) \in Nat /\ Offset(x, t, p) \in Nat /\ k \in Nat
  BY BaseType, OffsetBound, PartSetIn DEF Offset, Size
<1>3. ASSUME NEW n \in 1 .. k PROVE run.at + n - 1 = Spot(algo, x, t, p, n - 1)
  BY <1>1, <1>2 DEF Spot, Offset
<1>4. s = [n \in 1 .. k |-> tmp_part[x][run.at + n - 1]]
  BY <1>1 DEF Read
<1> HIDE DEF s, run
<1>5. s = [n \in 1 .. k |-> tmp_part[x][Spot(algo, x, t, p, n - 1)]]
  BY <1>3, <1>4
<1>6. Lists(s, PartSets[algo][x][t][p]) /\ Len(s) = k
  <2> HIDE DEF k
  <2> QED BY <1>5, PartLists DEF k
<1> QED
  BY <1>1, <1>6 DEF s, run

SortedPart(x, t, p) == SortTuples(x, Read(x, parts[t][x][p]))

LEMMA SortedPartIs ==
  ASSUME NEW x \in Rels, NEW t \in Threads, NEW p \in Parts, algo \in Algos,
         parts[t] = PartRuns(t), InPlace(tmp_part[x], algo, x, t)
  PROVE  /\ Lists(SortedPart(x, t, p), PartSets[algo][x][t][p])
         /\ Ascending(x, SortedPart(x, t, p))
         /\ Len(SortedPart(x, t, p)) = Size(algo, x, t, p)
<1>1. /\ Lists(Read(x, parts[t][x][p]), PartSets[algo][x][t][p])
      /\ Len(Read(x, parts[t][x][p])) = Size(algo, x, t, p)
  BY RunReads
<1>2. PartSets[algo][x][t][p] \in SUBSET Tuples(x)
  BY PartSetIn
<1> QED
  BY <1>1, <1>2, SortLists DEF SortedPart

LEMMA RunAtType ==
  ASSUME NEW space, NEW x \in Rels, NEW t \in Threads, NEW p \in Parts, algo \in Algos
  PROVE  RunAt(space, x, t, p) \in Nat
<1>1. Base(x, t) \in Nat /\ Offset(x, t, p) \in Nat
  BY BaseType, OffsetBound DEF Offset
<1>2. t * ((Num(x) \div nthreads) + TUPLESPERCACHELINE) \in Nat
  <2> DEFINE w == (Num(x) \div nthreads) + TUPLESPERCACHELINE
  <2>1. Num(x) \in Nat /\ TUPLESPERCACHELINE \in Nat /\ t \in Nat
    BY NumType, Sizes DEF Threads
  <2>2. w \in Nat
    BY <2>1, QuotientType
  <2> HIDE DEF w
  <2>3. t * w \in Nat
    BY <2>1, <2>2
  <2> QED BY <2>3 DEF w
<1> QED
  BY <1>1, <1>2 DEF RunAt, SortBase

(* What the sort of thread t does to a space *)
LEMMA AfterSortIs ==
  ASSUME NEW x \in Rels, NEW t \in Threads, algo \in Algos,
         parts[t] = PartRuns(t), InPlace(tmp_part[x], algo, x, t),
         NEW space, NEW mem, mem[x] \in Space(x)
  PROVE  /\ AfterSort(space, mem, x, t) \in Space(x)
         /\ (\A p \in Parts : RunAt(space, x, t, p) = Base(x, t) + Offset(x, t, p)) =>
              /\ \A b \in Addr(x) : ~(Base(x, t) <= b /\ b < Limit(x, t)) =>
                   AfterSort(space, mem, x, t)[b] = mem[x][b]
              /\ \A p \in Parts : \A k \in 0 .. Size(algo, x, t, p) - 1 :
                   SortSpace(Size(algo, x, t, p)) = space =>
                     AfterSort(space, mem, x, t)[Spot(algo, x, t, p, k)] = SortedPart(x, t, p)[k + 1]
<1> DEFINE N(p)  == Size(algo, x, t, p)
           at    == [p \in Parts |-> RunAt(space, x, t, p)]
           In(b) == {p \in Parts : at[p] <= b /\ b < at[p] + N(p)}
           Val(b, p) == IF SortSpace(N(p)) = space THEN SortedPart(x, t, p)[b - at[p] + 1]
                        ELSE IF scalarflag THEN mem[x][b] ELSE NoTuple
           m     == AfterSort(space, mem, x, t)
<1>1. \A p \in Parts : parts[t][x][p].num = N(p) /\ N(p) \in Nat /\ at[p] \in Nat
  BY RunReads, RunAtType, PartSetIn DEF Size
<1>2. DOMAIN mem[x] = Addr(x) /\ \A b \in Addr(x) : b \in Nat /\ mem[x][b] \in Tuples(x) \cup {NoTuple}
  <2>1. \A b \in Addr(x) : b \in Nat
    BY DEF Addr
  <2> QED BY <2>1 DEF Space
<1>3. m = [b \in Addr(x) |-> IF In(b) = {} THEN mem[x][b] ELSE Val(b, CHOOSE p \in In(b) : TRUE)]
  <2> DEFINE I(b) == {p \in Parts : at[p] <= b /\ b < at[p] + parts[t][x][p].num}
             V(b, p) == IF SortSpace(parts[t][x][p].num) = space
                        THEN SortTuples(x, Read(x, parts[t][x][p]))[b - at[p] + 1]
                        ELSE IF scalarflag THEN mem[x][b] ELSE NoTuple
  <2>1. m = [b \in Addr(x) |-> IF I(b) = {} THEN mem[x][b] ELSE V(b, CHOOSE p \in I(b) : TRUE)]
    BY <1>2 DEF AfterSort
  <2>2. \A b : I(b) = In(b)
    BY <1>1
  <2>3. \A p \in Parts : \A b : V(b, p) = Val(b, p)
    BY <1>1 DEF SortedPart
  <2>4. \A b : In(b) # {} => (CHOOSE p \in In(b) : TRUE) \in Parts
    OBVIOUS
  <2> HIDE DEF I, In, V, Val
  <2> QED BY <2>1, <2>2, <2>3, <2>4
<1> HIDE DEF m
<1>4. ASSUME NEW p \in Parts, NEW k \in 1 .. N(p) PROVE SortedPart(x, t, p)[k] \in Tuples(x)
  <2>1. /\ Lists(SortedPart(x, t, p), PartSets[algo][x][t][p])
        /\ Len(SortedPart(x, t, p)) = Size(algo, x, t, p)
    BY SortedPartIs
  <2>2. PartSets[algo][x][t][p] \in SUBSET Tuples(x)
    BY PartSetIn
  <2> QED BY <2>1, <2>2 DEF Lists
<1> HIDE DEF N, at
<1>5. ASSUME NEW b \in Addr(x), NEW p \in In(b) PROVE b - at[p] + 1 \in 1 .. N(p)
  BY <1>1, <1>2
<1>6. ASSUME NEW b \in Addr(x), NEW p \in In(b) PROVE Val(b, p) \in Tuples(x) \cup {NoTuple}
  <2>1. SortedPart(x, t, p)[b - at[p] + 1] \in Tuples(x)
    BY <1>4, <1>5
  <2> QED BY <1>2, <2>1
<1>7. m \in Space(x)
  <2>1. \A b \in Addr(x) : m[b] \in Tuples(x) \cup {NoTuple}
    <3> HIDE DEF In, Val
    <3> QED BY <1>2, <1>3, <1>6
  <2> HIDE DEF In, Val
  <2> QED BY <1>3, <2>1 DEF Space
<1>8. ASSUME \A p \in Parts : RunAt(space, x, t, p) = Base(x, t) + Offset(x, t, p)
      PROVE  /\ \A b \in Addr(x) : ~(Base(x, t) <= b /\ b < Limit(x, t)) => m[b] = mem[x][b]
             /\ \A p \in Parts : \A k \in 0 .. N(p) - 1 :
                  SortSpace(N(p)) = space => m[Spot(algo, x, t, p, k)] = SortedPart(x, t, p)[k + 1]
  <2>1. \A p \in Parts : \A k : Spot(algo, x, t, p, k) = at[p] + k
    BY <1>8 DEF Spot, Offset, at
  <2>2. ASSUME NEW b \in Addr(x), NEW p \in In(b)
        PROVE  b - at[p] \in 0 .. N(p) - 1 /\ b = Spot(algo, x, t, p, b - at[p])
    BY <1>1, <1>2, <2>1
  <2>3. ASSUME NEW b \in Addr(x), In(b) # {} PROVE Base(x, t) <= b /\ b < Limit(x, t)
    BY <2>2, <2>3, SpotIn DEF N
  <2>4. ASSUME NEW p \in Parts, NEW k \in 0 .. N(p) - 1, SortSpace(N(p)) = space
        PROVE  m[Spot(algo, x, t, p, k)] = SortedPart(x, t, p)[k + 1]
    <3> DEFINE b == Spot(algo, x, t, p, k)
    <3>1. b \in Addr(x) /\ b = at[p] + k
      BY <2>1, SpotIn DEF N
    <3> HIDE DEF b
    <3>2. p \in In(b) /\ b - at[p] + 1 = k + 1
      BY <1>1, <3>1
    <3>3. ASSUME NEW q \in In(b) PROVE q = p
      <4> DEFINE j == b - at[q]
      <4>1. j \in 0 .. N(q) - 1 /\ b = Spot(algo, x, t, q, j)
        BY <2>2, <3>1
      <4> HIDE DEF j
      <4>2. Spot(algo, x, t, p, k) = Spot(algo, x, t, q, j)
        BY <4>1 DEF b
      <4> QED BY <4>1, <4>2, SpotUnique DEF N
    <3>4. (CHOOSE q \in In(b) : TRUE) = p
      BY <3>2, <3>3
    <3>5. m[b] = Val(b, p)
      <4> HIDE DEF In, Val
      <4> QED BY <1>3, <3>1, <3>2, <3>4
    <3> QED BY <2>4, <3>2, <3>5 DEF b
  <2> QED BY <1>3, <2>3, <2>4
<1> QED
  BY <1>7, <1>8 DEF m, N

------------------------------------------------------------------------------
(* Phases.  A thread that is past a barrier has seen all of them reach it. *)

Pcs == {"none", "launched"} \cup Started

PhaseInv ==
  /\ pc \in [Threads -> Pcs]
  /\ \A t, u \in Threads :
       /\ pc[t] \in {"partition"} \cup Partitioned => pc[u] \in Started
       /\ pc[t] \in {"sort"} \cup Sorted => pc[u] \in Partitioned
       /\ pc[t] \in {"merge"} \cup FirstMerged => pc[u] \in Sorted
       /\ algo = "m-pass" /\ pc[t] \in {"fullmerge"} \cup Merged => pc[u] \in FirstMerged
       /\ pc[t] \in {"join"} \cup Joined => pc[u] \in Merged
       /\ pc[t] = "exited" => pc[u] \in Joined
  /\ algo = "m-way" => \A t \in Threads : pc[t] \notin {"firstmerged", "fullmerge"}

ConfInv ==
  /\ <<algo, scalarflag>> \in Builds
  /\ strategy \in NumaStrategies
  /\ active = {t \in Threads : pc[t] # "none"}

LEMMA ConfFacts ==
  ASSUME ConfInv
  PROVE  /\ algo \in Algos /\ algo \in {"m-way", "m-pass"} /\ scalarflag \in BOOLEAN
<1>1. <<algo, scalarflag>> \in {"m-way", "m-pass"} \X BOOLEAN
  BY SortMergeAssumption DEF ConfInv
<1>2. <<algo, scalarflag>>[1] \in Algos
  BY DEF ConfInv, Algos
<1> QED
  BY <1>1, <1>2

LEMMA PhaseInit == ASSUME Init PROVE PhaseInv /\ ConfInv
<1>1. PICK b \in Builds : algo = b[1] /\ scalarflag = b[2]
  BY DEF Init
<1>2. b \in {"m-way", "m-pass"} \X BOOLEAN
  BY SortMergeAssumption
<1>3. <<algo, scalarflag>> = b
  BY <1>1, <1>2
<1>4. ConfInv
  BY <1>3 DEF Init, ConfInv
<1>5. PhaseInv
  BY DEF Init, PhaseInv, Pcs, Started, Partitioned, Sorted, FirstMerged, Merged, Joined
<1> QED
  BY <1>4, <1>5

LEMMA ConfKept == ASSUME ConfInv, PhaseInv, [Next]_vars
                  PROVE  ConfInv' /\ algo' = algo /\ scalarflag' = scalarflag /\ strategy' = strategy
<1>1. ASSUME NEW t \in Threads, Launch(t) PROVE ConfInv' /\ algo' = algo /\ scalarflag' = scalarflag /\ strategy' = strategy
  BY <1>1 DEF ConfInv, PhaseInv, Launch, Goto
<1>2. ASSUME NEW t \in Threads, ThreadStep(t), ~Launch(t)
      PROVE  UNCHANGED config /\ pc[t] # "none" /\ \E l \in Pcs \ {"none"} : pc' = [pc EXCEPT ![t] = l]
  BY <1>2 DEF ThreadStep, Arrive, Start, Partition, StartSort, Sort, StartMerge, Merge, FirstMerge,
       StartFullMerge, FullMerge, StartJoin, Join, Exit, CrossBarrier, Goto, config,
       Pcs, Started, Partitioned, Sorted, FirstMerged, Merged, Joined
<1>3. ASSUME NEW t \in Threads, ThreadStep(t), ~Launch(t)
      PROVE  ConfInv' /\ algo' = algo /\ scalarflag' = scalarflag /\ strategy' = strategy
  BY <1>2, <1>3 DEF ConfInv, PhaseInv, config
<1>4. CASE UNCHANGED vars
  BY <1>4 DEF ConfInv, vars
<1> QED
  BY <1>1, <1>3, <1>4 DEF Next, Terminated

LEMMA PhaseStep == ASSUME ConfInv, PhaseInv, [Next]_vars PROVE PhaseInv'
<1> USE DEF PhaseInv, Pcs, Started, Partitioned, Sorted, FirstMerged, Merged, Joined
<1>0. algo' = algo /\ algo \in {"m-way", "m-pass"}
  BY ConfKept, ConfFacts
<1>1. ASSUME NEW t \in Threads, Launch(t) PROVE PhaseInv'
  BY <1>0, <1>1 DEF Launch, Goto
<1>2. ASSUME NEW t \in Threads, Arrive(t) PROVE PhaseInv'
  BY <1>0, <1>2 DEF Arrive, Goto
<1>3. ASSUME NEW t \in Threads, Start(t) PROVE PhaseInv'
  BY <1>0, <1>3 DEF Start, CrossBarrier, Goto
<1>4. ASSUME NEW t \in Threads, Partition(t) PROVE PhaseInv'
  BY <1>0, <1>4 DEF Partition, Goto
<1>5. ASSUME NEW t \in Threads, StartSort(t) PROVE PhaseInv'
  BY <1>0, <1>5 DEF StartSort, CrossBarrier, Goto
<1>6. ASSUME NEW t \in Threads, Sort(t) PROVE PhaseInv'
  BY <1>0, <1>6 DEF Sort, Goto
<1>7. ASSUME NEW t \in Threads, StartMerge(t) PROVE PhaseInv'
  BY <1>0, <1>7 DEF StartMerge, CrossBarrier, Goto
<1>8. ASSUME NEW t \in Threads, Merge(t) PROVE PhaseInv'
  BY <1>0, <1>8 DEF Merge, Goto
<1>9. ASSUME NEW t \in Threads, FirstMerge(t) PROVE PhaseInv'
  BY <1>0, <1>9 DEF FirstMerge, Goto
<1>10. ASSUME NEW t \in Threads, StartFullMerge(t) PROVE PhaseInv'
  BY <1>0, <1>10 DEF StartFullMerge, CrossBarrier, Goto
<1>11. ASSUME NEW t \in Threads, FullMerge(t) PROVE PhaseInv'
  BY <1>0, <1>11 DEF FullMerge, Goto
<1>12. ASSUME NEW t \in Threads, StartJoin(t) PROVE PhaseInv'
  BY <1>0, <1>12 DEF StartJoin, CrossBarrier, Goto
<1>13. ASSUME NEW t \in Threads, Join(t) PROVE PhaseInv'
  BY <1>0, <1>13 DEF Join, Goto
<1>14. ASSUME NEW t \in Threads, Exit(t) PROVE PhaseInv'
  BY <1>0, <1>14 DEF Exit, CrossBarrier, Goto
<1>15. CASE UNCHANGED vars
  BY <1>15 DEF vars
<1> QED
  BY <1>1, <1>2, <1>3, <1>4, <1>5, <1>6, <1>7, <1>8, <1>9, <1>10, <1>11, <1>12, <1>13, <1>14, <1>15
     DEF Next, ThreadStep, Terminated

------------------------------------------------------------------------------
(* Memory *)

(* The first thread of its NUMA region, once all are active *)
FirstIn(t) == \A u \in Threads : NumaRegion[u] = NumaRegion[t] => NumaSlot[t] <= NumaSlot[u]

Allocs(r) == IF algo = "m-way" /\ \E t \in Threads : FirstIn(t) /\ NumaRegion[t] = r /\ pc[t] \in Sorted
             THEN 1 ELSE 0
Frees(r)  == IF algo = "m-way" /\ FirstIn(0) /\ NumaRegion[0] = r /\ pc[0] \in {"join"} \cup Joined
             THEN 1 ELSE 0

BufInv ==
  /\ mergebuf = [r \in Regions |-> [allocs |-> Allocs(r), frees |-> Frees(r)]]
  /\ freed => algo = "m-pass" /\ \A t \in Threads : pc[t] \in FirstMerged

LEMMA FirstUnique ==
  ASSUME NEW t \in Threads, NEW u \in Threads, FirstIn(t), FirstIn(u), NumaRegion[t] = NumaRegion[u]
  PROVE  t = u
<1>1. NumaSlot[t] \in Nat /\ NumaSlot[u] \in Nat
  BY SortMergeAssumption
<1>2. NumaSlot[t] = NumaSlot[u]
  BY <1>1 DEF FirstIn
<1> QED
  BY <1>2, SortMergeAssumption

LEMMA FirstExists == ASSUME NEW t \in Threads PROVE \E u \in Threads : FirstIn(u) /\ NumaRegion[u] = NumaRegion[t]
<1> DEFINE T == {NumaSlot[u] : u \in {v \in Threads : NumaRegion[v] = NumaRegion[t]}}
<1>1. \A u \in Threads : NumaSlot[u] \in Nat
  BY SortMergeAssumption
<1>2. T \in SUBSET Nat /\ T # {}
  BY <1>1
<1>3. PICK m \in T : \A k \in T : m <= k
  BY <1>2, LeastNat
<1>4. PICK u \in Threads : NumaRegion[u] = NumaRegion[t] /\ NumaSlot[u] = m
  OBVIOUS
<1> QED
  BY <1>3, <1>4 DEF FirstIn

LEMMA FirstIs ==
  ASSUME NEW t \in Threads, ConfInv, \A u \in Threads : pc[u] # "none"
  PROVE  is_first_thread_in_numa_region(t) <=> FirstIn(t)
  BY DEF is_first_thread_in_numa_region, FirstIn, ConfInv

LEMMA BufInit == ASSUME Init PROVE BufInv
<1>1. \A r : Allocs(r) = 0 /\ Frees(r) = 0
  BY Sizes DEF Init, Allocs, Frees, Sorted, FirstMerged, Merged, Joined
<1> QED
  BY <1>1 DEF Init, BufInv

LEMMA BufSort ==
  ASSUME ConfInv, PhaseInv, BufInv, NEW t \in Threads, Sort(t)
  PROVE  BufInv'
<1>1. \A u \in Threads : pc[u] # "none"
  BY DEF Sort, PhaseInv, Partitioned, Sorted, FirstMerged, Merged, Joined
<1>2. algo' = algo /\ freed' = freed /\ pc[t] = "sort" /\ pc' = [pc EXCEPT ![t] = "sorted"] /\ pc \in [Threads -> Pcs]
  BY DEF Sort, Goto, config, mpass, PhaseInv
<1>3. \A r : Frees(r)' = Frees(r)
  BY <1>2, Sizes DEF Frees, Joined
<1>4. NumaRegion[t] \in Regions
  BY DEF Regions
<1>5. CASE algo = "m-way" /\ FirstIn(t)
  <2>1. mergebuf' = [mergebuf EXCEPT ![NumaRegion[t]].allocs = @ + 1]
    BY <1>1, <1>5, FirstIs DEF Sort, Allocate
  <2>2. \A r : r # NumaRegion[t] => Allocs(r)' = Allocs(r)
    BY <1>2 DEF Allocs, FirstIn
  <2>3. Allocs(NumaRegion[t]) = 0
    BY <1>2, <1>5, FirstUnique DEF Allocs, Sorted, FirstMerged, Merged, Joined
  <2>4. Allocs(NumaRegion[t])' = 1
    BY <1>2, <1>5 DEF Allocs, FirstIn, Sorted
  <2>5. mergebuf' = [r \in Regions |-> [allocs |-> Allocs(r)', frees |-> Frees(r)']]
    BY <1>3, <1>4, <2>1, <2>2, <2>3, <2>4 DEF BufInv
  <2> QED BY <1>2, <2>5 DEF BufInv, FirstMerged, Merged, Joined
<1>6. CASE ~(algo = "m-way" /\ FirstIn(t))
  <2>1. mergebuf' = mergebuf
    BY <1>1, <1>6, FirstIs DEF Sort, Allocate
  <2>2. \A r : Allocs(r)' = Allocs(r)
    BY <1>2, <1>6 DEF Allocs, FirstIn
  <2> QED BY <1>2, <1>3, <2>1, <2>2 DEF BufInv, FirstMerged, Merged, Joined
<1> QED
  BY <1>5, <1>6

LEMMA BufJoin ==
  ASSUME ConfInv, PhaseInv, BufInv, NEW t \in Threads, StartJoin(t)
  PROVE  BufInv'
<1>1. \A u \in Threads : pc[u] # "none"
  BY DEF StartJoin, CrossBarrier, Merged, Joined
<1>2. algo' = algo /\ freed' = freed /\ pc[t] = "merged" /\ pc' = [pc EXCEPT ![t] = "join"] /\ pc \in [Threads -> Pcs]
  BY DEF StartJoin, CrossBarrier, Goto, config, mpass, PhaseInv
<1>3. \A r : Allocs(r)' = Allocs(r)
  BY <1>2 DEF Allocs, FirstIn, Sorted, FirstMerged, Merged
<1>4. NumaRegion[t] \in Regions
  BY DEF Regions
<1>5. freed' => algo' = "m-pass" /\ \A u \in Threads : pc'[u] \in FirstMerged
  BY <1>2 DEF BufInv, FirstMerged, Merged
<1>6. CASE algo = "m-way" /\ FirstIn(t) /\ t = 0
  <2>1. mergebuf' = [mergebuf EXCEPT ![NumaRegion[t]].frees = @ + 1]
    BY <1>1, <1>6, FirstIs DEF StartJoin, FreesBuffer
  <2>2. \A r : r # NumaRegion[t] => Frees(r)' = Frees(r)
    BY <1>2, <1>6 DEF Frees, FirstIn
  <2>3. Frees(NumaRegion[t]) = 0
    BY <1>2, <1>6 DEF Frees, Joined
  <2>4. Frees(NumaRegion[t])' = 1
    BY <1>2, <1>6 DEF Frees, FirstIn
  <2>5. mergebuf' = [r \in Regions |-> [allocs |-> Allocs(r)', frees |-> Frees(r)']]
    BY <1>3, <1>4, <2>1, <2>2, <2>3, <2>4 DEF BufInv
  <2> QED BY <1>5, <2>5 DEF BufInv
<1>7. CASE ~(algo = "m-way" /\ FirstIn(t) /\ t = 0)
  <2>1. mergebuf' = mergebuf
    BY <1>1, <1>7, FirstIs DEF StartJoin, FreesBuffer
  <2>2. \A r : Frees(r)' = Frees(r)
    BY <1>2, <1>7, Sizes DEF Frees, FirstIn
  <2> QED BY <1>3, <1>5, <2>1, <2>2 DEF BufInv
<1> QED
  BY <1>6, <1>7

LEMMA BufStep == ASSUME ConfInv, PhaseInv, BufInv, [Next]_vars PROVE BufInv'
<1>0. algo' = algo /\ algo \in {"m-way", "m-pass"} /\ 0 \in Threads
  BY ConfKept, ConfFacts, Sizes
<1>1. ASSUME NEW t \in Threads, NEW l \in Pcs, pc' = [pc EXCEPT ![t] = l], mergebuf' = mergebuf,
             pc[t] \in Sorted <=> l \in Sorted,
             pc[t] \in {"join"} \cup Joined <=> l \in {"join"} \cup Joined,
             pc[t] \in FirstMerged => l \in FirstMerged,
             freed' => freed \/ (algo = "m-pass" /\ \A u \in Threads : pc'[u] \in FirstMerged)
      PROVE  BufInv'
  <2>1. pc \in [Threads -> Pcs]
    BY DEF PhaseInv
  <2>2. \A r : Allocs(r)' = Allocs(r)
    BY <1>0, <1>1, <2>1 DEF Allocs, FirstIn
  <2>3. \A r : Frees(r)' = Frees(r)
    BY <1>0, <1>1, <2>1 DEF Frees, FirstIn
  <2>4. freed' => algo' = "m-pass" /\ \A u \in Threads : pc'[u] \in FirstMerged
    BY <1>0, <1>1, <2>1 DEF BufInv
  <2> QED BY <1>1, <2>2, <2>3, <2>4 DEF BufInv
<1> USE DEF Pcs, Started, Partitioned, Sorted, FirstMerged, Merged, Joined
<1>2. ASSUME NEW t \in Threads, Launch(t) \/ Arrive(t) \/ Start(t) \/ Partition(t) \/ StartSort(t) \/ StartMerge(t)
      PROVE  BufInv'
  BY <1>1, <1>2 DEF Launch, Arrive, Start, Partition, StartSort, StartMerge, CrossBarrier, Goto, mpass
<1>3. ASSUME NEW t \in Threads, Merge(t) \/ FirstMerge(t) \/ FullMerge(t) \/ Join(t) \/ Exit(t)
      PROVE  BufInv'
  BY <1>1, <1>3 DEF Merge, FirstMerge, FullMerge, Join, Exit, CrossBarrier, Goto, mpass
<1>4. ASSUME NEW t \in Threads, StartFullMerge(t) PROVE BufInv'
  <2>1. algo = "m-pass" /\ pc[t] = "firstmerged" /\ pc' = [pc EXCEPT ![t] = "fullmerge"]
        /\ mergebuf' = mergebuf /\ \A u \in Threads : pc[u] \in FirstMerged
    BY <1>0, <1>4 DEF StartFullMerge, CrossBarrier, Goto, PhaseInv
  <2>2. \A u \in Threads : pc'[u] \in FirstMerged
    BY <2>1 DEF PhaseInv
  <2> QED BY <1>1, <2>1, <2>2
<1>5. CASE UNCHANGED vars
  BY <1>5 DEF BufInv, Allocs, Frees, FirstIn, vars
<1> QED
  BY <1>2, <1>3, <1>4, <1>5, BufSort, BufJoin DEF Next, ThreadStep, Terminated

SpaceInv == \A x \in Rels : tmp_part[x] \in Space(x) /\ tmp_sort[x] \in Space(x)

PartInv ==
  /\ DOMAIN parts = Threads
  /\ \A t \in Threads : pc[t] \in {"partitioned", "sort"} =>
       parts[t] = PartRuns(t) /\ \A x \in Rels : InPlace(tmp_part[x], algo, x, t)

LEMMA SpaceInit == ASSUME Init PROVE SpaceInv /\ PartInv
  BY DEF Init, SpaceInv, PartInv, Space

(* Another thread writes elsewhere. *)
LEMMA PlaceKept ==
  ASSUME NEW a \in Algos, NEW x \in Rels, NEW t \in Threads, NEW u \in Threads, t # u, NEW m, NEW n,
         InPlace(m, a, x, u),
         \A b \in Addr(x) : ~(Base(x, t) <= b /\ b < Limit(x, t)) => n[b] = m[b]
  PROVE  InPlace(n, a, x, u)
<1> SUFFICES ASSUME NEW i \in Share(x, u) PROVE n[Slot(a, x, u, i)] = i
  BY DEF InPlace
<1> DEFINE b == Slot(a, x, u, i)
<1>1. b \in Nat /\ b \in Addr(x) /\ Base(x, u) <= b /\ b < Limit(x, u)
  BY SlotIn
<1>2. m[b] = i
  BY DEF InPlace
<1> HIDE DEF b
<1>3. ~(Base(x, t) <= b /\ b < Limit(x, t))
  BY <1>1, ZonesApart
<1> QED
  BY <1>1, <1>2, <1>3 DEF b

LEMMA PartRunsKept == ASSUME algo' = algo, NEW t PROVE PartRuns(t)' = PartRuns(t)
  BY DEF PartRuns, Offset, PartOf

LEMMA SpacePartition ==
  ASSUME ConfInv, PhaseInv, SpaceInv, PartInv, NEW t \in Threads, Partition(t)
  PROVE  SpaceInv' /\ PartInv'
<1>1. algo \in Algos /\ algo' = algo
  BY ConfFacts DEF Partition, config
<1>2. pc \in [Threads -> Pcs] /\ pc' = [pc EXCEPT ![t] = "partitioned"]
      /\ DOMAIN parts = Threads /\ parts' = [parts EXCEPT ![t] = PartRuns(t)]
  BY DEF Partition, Goto, PhaseInv, PartInv
<1>3. ASSUME NEW x \in Rels
      PROVE  /\ tmp_part'[x] \in Space(x) /\ InPlace(tmp_part'[x], algo, x, t)
             /\ \A b \in Addr(x) : ~(Base(x, t) <= b /\ b < Limit(x, t)) => tmp_part'[x][b] = tmp_part[x][b]
  <2>1. tmp_part'[x] = Scatter(x, t)
    BY DEF Partition
  <2> QED BY <1>1, <2>1, ScatterIs DEF SpaceInv
<1>4. SpaceInv'
  BY <1>3 DEF SpaceInv, Partition
<1>5. ASSUME NEW u \in Threads, pc'[u] \in {"partitioned", "sort"}
      PROVE  parts'[u] = PartRuns(u)' /\ \A x \in Rels : InPlace(tmp_part'[x], algo', x, u)
  <2>1. CASE u = t
    BY <1>1, <1>2, <1>3, <2>1, PartRunsKept
  <2>2. CASE u # t
    <3>1. parts'[u] = PartRuns(u) /\ \A x \in Rels : InPlace(tmp_part[x], algo, x, u)
      BY <1>2, <1>5, <2>2 DEF PartInv
    <3>2. \A x \in Rels : InPlace(tmp_part'[x], algo, x, u)
      BY <1>1, <1>3, <2>2, <3>1, PlaceKept
    <3> QED BY <1>1, <3>1, <3>2, PartRunsKept
  <2> QED BY <2>1, <2>2
<1> QED
  BY <1>2, <1>4, <1>5 DEF PartInv

LEMMA PartRunAt ==
  ASSUME NEW x \in Rels, NEW t, NEW p PROVE RunAt("part", x, t, p) = Base(x, t) + Offset(x, t, p)
  BY DEF RunAt

LEMMA SpaceSort ==
  ASSUME ConfInv, PhaseInv, SpaceInv, PartInv, NEW t \in Threads, Sort(t)
  PROVE  /\ SpaceInv' /\ PartInv'
         /\ algo \in Algos /\ parts[t] = PartRuns(t)
         /\ \A x \in Rels : InPlace(tmp_part[x], algo, x, t)
         /\ \A x \in Rels : \A b \in Addr(x) :
              ~(Base(x, t) <= b /\ b < Limit(x, t)) => tmp_part'[x][b] = tmp_part[x][b]
<1>1. algo \in Algos /\ algo' = algo
  BY ConfFacts DEF Sort, config
<1>2. pc \in [Threads -> Pcs] /\ pc[t] = "sort" /\ pc' = [pc EXCEPT ![t] = "sorted"] /\ parts' = parts
  BY DEF Sort, Goto, PhaseInv
<1>3. parts[t] = PartRuns(t) /\ \A x \in Rels : InPlace(tmp_part[x], algo, x, t)
  BY <1>2 DEF PartInv
<1>4. ASSUME NEW x \in Rels
      PROVE  /\ tmp_part'[x] \in Space(x) /\ tmp_sort'[x] \in Space(x)
             /\ \A b \in Addr(x) : ~(Base(x, t) <= b /\ b < Limit(x, t)) => tmp_part'[x][b] = tmp_part[x][b]
  <2>1. tmp_part'[x] = AfterSort("part", tmp_part, x, t) /\ tmp_sort'[x] = AfterSort("sort", tmp_sort, x, t)
    BY DEF Sort
  <2>2. tmp_part[x] \in Space(x) /\ tmp_sort[x] \in Space(x) /\ InPlace(tmp_part[x], algo, x, t)
    BY <1>3 DEF SpaceInv
  <2>3. AfterSort("sort", tmp_sort, x, t) \in Space(x)
    BY <1>1, <1>3, <2>2, AfterSortIs
  <2>4. \A p \in Parts : RunAt("part", x, t, p) = Base(x, t) + Offset(x, t, p)
    BY PartRunAt
  <2>5. /\ AfterSort("part", tmp_part, x, t) \in Space(x)
        /\ \A b \in Addr(x) : ~(Base(x, t) <= b /\ b < Limit(x, t)) =>
             AfterSort("part", tmp_part, x, t)[b] = tmp_part[x][b]
    BY <1>1, <1>3, <2>2, <2>4, AfterSortIs
  <2> QED BY <2>1, <2>3, <2>5
<1>5. SpaceInv'
  BY <1>4 DEF SpaceInv
<1>6. ASSUME NEW u \in Threads, pc'[u] \in {"partitioned", "sort"}
      PROVE  parts'[u] = PartRuns(u)' /\ \A x \in Rels : InPlace(tmp_part'[x], algo', x, u)
  <2>1. u # t /\ parts'[u] = PartRuns(u) /\ \A x \in Rels : InPlace(tmp_part[x], algo, x, u)
    BY <1>2, <1>6 DEF PartInv
  <2>2. \A x \in Rels : InPlace(tmp_part'[x], algo, x, u)
    BY <1>1, <1>4, <2>1, PlaceKept
  <2> QED BY <1>1, <2>1, <2>2, PartRunsKept
<1> QED
  BY <1>1, <1>2, <1>3, <1>4, <1>5, <1>6 DEF PartInv

LEMMA SpaceStep == ASSUME ConfInv, PhaseInv, SpaceInv, PartInv, [Next]_vars PROVE SpaceInv' /\ PartInv'
<1>0. algo' = algo
  BY ConfKept
<1>1. ASSUME NEW t \in Threads, NEW l \in Pcs, pc' = [pc EXCEPT ![t] = l], UNCHANGED spaces,
             DOMAIN parts' = Threads, \A u \in Threads \ {t} : parts'[u] = parts[u],
             l \in {"partitioned", "sort"} => pc[t] \in {"partitioned", "sort"} /\ parts'[t] = parts[t]
      PROVE  SpaceInv' /\ PartInv'
  <2>1. SpaceInv'
    BY <1>1 DEF SpaceInv, spaces
  <2>2. ASSUME NEW u \in Threads, pc'[u] \in {"partitioned", "sort"}
        PROVE  parts'[u] = PartRuns(u)' /\ \A x \in Rels : InPlace(tmp_part'[x], algo', x, u)
    <3>1. pc[u] \in {"partitioned", "sort"} /\ parts'[u] = parts[u]
      BY <1>1, <2>2 DEF PhaseInv
    <3> QED BY <1>0, <1>1, <3>1, PartRunsKept DEF PartInv, spaces
  <2> QED BY <1>1, <2>1, <2>2 DEF PartInv
<1> USE DEF Pcs, Started, Partitioned, Sorted, FirstMerged, Merged, Joined
<1>2. ASSUME NEW t \in Threads, Launch(t) \/ Arrive(t) \/ Start(t) \/ StartSort(t) \/ StartMerge(t) \/ Merge(t)
      PROVE  SpaceInv' /\ PartInv'
  BY <1>1, <1>2 DEF Launch, Arrive, Start, StartSort, StartMerge, Merge, CrossBarrier, Goto, PartInv
<1>3. ASSUME NEW t \in Threads, FirstMerge(t) \/ StartFullMerge(t) \/ FullMerge(t) \/ StartJoin(t) \/ Join(t)
      PROVE  SpaceInv' /\ PartInv'
  BY <1>1, <1>3 DEF FirstMerge, StartFullMerge, FullMerge, StartJoin, Join, CrossBarrier, Goto, PartInv
<1>4. ASSUME NEW t \in Threads, Exit(t)
      PROVE  SpaceInv' /\ PartInv'
  BY <1>1, <1>4 DEF Exit, CrossBarrier, Goto, PartInv
<1>5. CASE UNCHANGED vars
  <2>1. \A u : PartRuns(u)' = PartRuns(u)
    BY <1>0, PartRunsKept
  <2> QED BY <1>5, <2>1 DEF SpaceInv, PartInv, vars
<1> QED
  BY <1>2, <1>3, <1>4, <1>5, SpacePartition, SpaceSort DEF Next, ThreadStep, Terminated

MemoryInv == ConfInv /\ PhaseInv /\ BufInv /\ SpaceInv /\ PartInv

(* What MemorySafe rests on, in every state: who has come how far, how often *)
(* each merge buffer has been allocated and freed, and where the            *)
(* partitioned tuples lie (partitioning_phase, sorting_phase).              *)
THEOREM MemoryInvariant == Spec => []MemoryInv
<1>1. Init => MemoryInv
  BY PhaseInit, BufInit, SpaceInit DEF MemoryInv
<1>2. MemoryInv /\ [Next]_vars => MemoryInv'
  BY ConfKept, PhaseStep, BufStep, SpaceStep DEF MemoryInv
<1> QED
  BY <1>1, <1>2, PTL DEF Spec

LEMMA MemorySafeFollows == ASSUME MemoryInv PROVE MemorySafe
<1>1. \A x \in Rels : /\ tmp_part[x] \in [Addr(x) -> 0 .. Num(x) - 1 \cup {NoTuple}]
                      /\ tmp_sort[x] \in [Addr(x) -> 0 .. Num(x) - 1 \cup {NoTuple}]
  BY DEF MemoryInv, SpaceInv, Space, Tuples
<1>2. ASSUME NEW t \in Threads, pc[t] = "merge"
      PROVE  IF algo = "m-pass" THEN ~freed
             ELSE nthreads > 1 => mergebuf[NumaRegion[t]] = [allocs |-> 1, frees |-> 0]
  <2>1. algo \in {"m-way", "m-pass"} /\ 0 \in Threads /\ NumaRegion[t] \in Regions
    BY ConfFacts, Sizes DEF MemoryInv, Regions
  <2>2. ~freed
    BY <1>2 DEF MemoryInv, BufInv, FirstMerged, Merged, Joined
  <2>3. \A u \in Threads : pc[u] \in Sorted
    BY <1>2 DEF MemoryInv, PhaseInv
  <2>4. PICK u \in Threads : FirstIn(u) /\ NumaRegion[u] = NumaRegion[t]
    BY FirstExists
  <2>5. algo = "m-way" => Allocs(NumaRegion[t]) = 1
    BY <2>3, <2>4 DEF Allocs
  <2>6. pc[0] \notin {"join"} \cup Joined
    BY <1>2, <2>1 DEF MemoryInv, PhaseInv, Merged, Joined
  <2>7. Frees(NumaRegion[t]) = 0
    BY <2>6 DEF Frees
  <2>8. mergebuf[NumaRegion[t]] = [allocs |-> Allocs(NumaRegion[t]), frees |-> Frees(NumaRegion[t])]
    BY <2>1 DEF MemoryInv, BufInv
  <2> QED BY <2>1, <2>2, <2>5, <2>7, <2>8
<1> QED
  BY <1>1, <1>2 DEF MemorySafe

(* For every number of threads, radix bits, cache line size and topology: no *)
(* thread of the sort-merge joins writes outside of the temporary spaces,   *)
(* one that merges has the buffer its NUMA region has allocated once and    *)
(* not freed, and m-pass has not given the spaces back (sorting_phase,      *)
(* multiwaymerge_phase, mpass_firstnumamerge_phase).                        *)
THEOREM MemoryIsSafe == Spec => []MemorySafe
  BY MemoryInvariant, MemorySafeFollows, PTL

------------------------------------------------------------------------------
(* Chunks.  m-pass with the AVX sort is left out: its runs of R overlap.    *)

SafeBuilds == <<"m-pass", FALSE>> \notin Builds

LEMMA OwnerIs ==
  ASSUME NEW p \in Parts
  PROVE  /\ p \div perthread \in Threads
         /\ \A u \in Threads : p \in MyParts(u) <=> u = p \div perthread
<1> DEFINE k == perthread
           n == nthreads
           o == p \div k
<1>1. k \in Nat \ {0} /\ n \in Nat \ {0} /\ PARTFANOUT = k * n /\ p \in Nat /\ p < PARTFANOUT
  BY Sizes DEF Parts
<1> HIDE DEF k, n
<1>2. o \in Nat /\ k * o <= p /\ p < k * o + k
  BY <1>1
<1> HIDE DEF o
<1>3. o < n
  <2> SUFFICES ASSUME n <= o PROVE FALSE
    BY <1>1, <1>2
  <2>1. k * n <= k * o
    BY <1>1, <1>2, MulMono
  <2> QED BY <1>1, <1>2, <2>1
<1>4. ASSUME NEW u \in Nat PROVE p \in u * k .. u * k + k - 1 <=> u = o
  <2>1. k * u \in Nat /\ u * k = k * u /\ k * o \in Nat
    BY <1>1, <1>2
  <2>2. CASE u < o
    <3>1. k * (u + 1) <= k * o /\ k * (u + 1) = k * u + k
      BY <1>1, <1>2, <2>2, MulMono
    <3> QED BY <1>1, <1>2, <2>1, <2>2, <3>1
  <2>3. CASE o < u
    <3>1. k * (o + 1) <= k * u /\ k * (o + 1) = k * o + k
      BY <1>1, <1>2, <2>3, MulMono
    <3> QED BY <1>1, <1>2, <2>1, <2>3, <3>1
  <2>4. CASE u = o
    BY <1>1, <1>2, <2>1, <2>4
  <2> QED BY <1>2, <2>2, <2>3, <2>4
<1>5. o \in Threads /\ \A u \in Threads : u \in Nat
  BY <1>1, <1>2, <1>3 DEF Threads, n
<1>6. \A u \in Threads : p \in MyParts(u) <=> u = o
  BY <1>4, <1>5 DEF MyParts, k
<1> QED
  BY <1>5, <1>6 DEF o, k

(* Where a sorted partition is and what it is to hold *)
ChunkOf(x, t, p) == [space |-> SortSpace(Size(algo, x, t, p)),
                     at    |-> Base(x, t) + Offset(x, t, p),
                     num   |-> Size(algo, x, t, p)]

Holds(x, t, p) == /\ chunks[t][x][p] = ChunkOf(x, t, p)
                  /\ Lists(Read(x, ChunkOf(x, t, p)), PartOf(x, t, p))
                  /\ Ascending(x, Read(x, ChunkOf(x, t, p)))

ChunkInv ==
  /\ DOMAIN chunks = Threads
  /\ \A t \in Threads, x \in Rels, p \in Parts :
       pc[t] \in Sorted /\ pc[p \div perthread] \notin FirstMerged => Holds(x, t, p)

(* The tuples of a run in given spaces *)
ReadIn(tp, ts, run) == [n \in 1 .. run.num |-> IF run.space = "sort" THEN ts[run.at + n - 1]
                                                                    ELSE tp[run.at + n - 1]]

LEMMA SortSpaceType ==
  ASSUME NEW x \in Rels, NEW t \in Threads, NEW p \in Parts, algo \in Algos, scalarflag \in BOOLEAN
  PROVE  /\ SortSpace(Size(algo, x, t, p)) \in {"part", "sort"}
         /\ scalarflag => SortSpace(Size(algo, x, t, p)) = "part"
<1> DEFINE k == Size(algo, x, t, p)
<1>1. k \in Nat /\ k <= Num(x)
  BY PartSetIn DEF Size
<1>2. Num(x) <= numR + numS /\ numR \in Nat /\ numS \in Nat /\ Num(x) \in Nat
  BY Sizes, NumType DEF Num
<1> HIDE DEF k
<1>3. k # 0 => k \in 1 .. numR + numS
  BY <1>1, <1>2
<1>4. k # 0 => AvxSpace[k] \in {"part", "sort"}
  BY <1>3, SortMergeAssumption
<1> QED
  BY <1>4 DEF SortSpace, k

(* A run's addresses *)
LEMMA ChunkAt ==
  ASSUME NEW x \in Rels, NEW t \in Threads, NEW p \in Parts, algo \in Algos,
         NEW n \in 1 .. Size(algo, x, t, p)
  PROVE  /\ n - 1 \in 0 .. Size(algo, x, t, p) - 1
         /\ Base(x, t) + Offset(x, t, p) + n - 1 = Spot(algo, x, t, p, n - 1)
         /\ Spot(algo, x, t, p, n - 1) \in Addr(x) /\ Spot(algo, x, t, p, n - 1) \in Nat
         /\ Base(x, t) <= Spot(algo, x, t, p, n - 1) /\ Spot(algo, x, t, p, n - 1) < Limit(x, t)
<1>1. Base(x, t) \in Nat /\ Offset(x, t, p) \in Nat /\ Size(algo, x, t, p) \in Nat
  BY BaseType, OffsetBound, PartSetIn DEF Offset, Size
<1>2. n - 1 \in 0 .. Size(algo, x, t, p) - 1
  BY <1>1
<1>3. Base(x, t) + Offset(x, t, p) + n - 1 = Spot(algo, x, t, p, n - 1)
  BY <1>1 DEF Spot, Offset
<1> QED
  BY <1>2, <1>3, SpotIn

LEMMA SafeRunAt ==
  ASSUME SafeBuilds, ConfInv, NEW x \in Rels, NEW t \in Threads, NEW p \in Parts,
         NEW space, space = "sort" => ~scalarflag
  PROVE  RunAt(space, x, t, p) = Base(x, t) + Offset(x, t, p)
<1>1. space = "sort" => algo # "m-pass"
  BY ConfFacts DEF SafeBuilds, ConfInv
<1> QED
  BY <1>1 DEF RunAt, SortBase

(* A chunk that another thread sorts is read as before. *)
LEMMA ChunkKept ==
  ASSUME SafeBuilds, ConfInv, PhaseInv, SpaceInv, PartInv, NEW t \in Threads, Sort(t),
         NEW x \in Rels, NEW u \in Threads, u # t, NEW p \in Parts
  PROVE  ReadIn(tmp_part'[x], tmp_sort'[x], ChunkOf(x, u, p)) = Read(x, ChunkOf(x, u, p))
<1> DEFINE run == ChunkOf(x, u, p)
<1>1. /\ algo \in Algos /\ parts[t] = PartRuns(t) /\ InPlace(tmp_part[x], algo, x, t)
      /\ \A b \in Addr(x) : ~(Base(x, t) <= b /\ b < Limit(x, t)) => tmp_part'[x][b] = tmp_part[x][b]
  BY SpaceSort
<1>2. scalarflag \in BOOLEAN
  BY ConfFacts
<1>3. tmp_sort'[x] = AfterSort("sort", tmp_sort, x, t) /\ tmp_sort[x] \in Space(x)
  BY DEF Sort, SpaceInv
<1>4. ASSUME ~scalarflag, NEW b \in Addr(x), ~(Base(x, t) <= b /\ b < Limit(x, t))
      PROVE  tmp_sort'[x][b] = tmp_sort[x][b]
  <2>1. \A q \in Parts : RunAt("sort", x, t, q) = Base(x, t) + Offset(x, t, q)
    BY <1>4, SafeRunAt
  <2> QED BY <1>1, <1>3, <1>4, <2>1, AfterSortIs
<1>5. run.num = Size(algo, x, u, p) /\ run.at = Base(x, u) + Offset(x, u, p)
      /\ run.space \in {"part", "sort"} /\ (run.space = "sort" => ~scalarflag)
  BY <1>1, <1>2, SortSpaceType DEF ChunkOf
<1> HIDE DEF run
<1>6. ASSUME NEW n \in 1 .. run.num
      PROVE  /\ tmp_part'[x][run.at + n - 1] = tmp_part[x][run.at + n - 1]
             /\ run.space = "sort" => tmp_sort'[x][run.at + n - 1] = tmp_sort[x][run.at + n - 1]
  <2> DEFINE b == run.at + n - 1
  <2>1. b \in Addr(x) /\ b \in Nat /\ Base(x, u) <= b /\ b < Limit(x, u)
    BY <1>1, <1>5, ChunkAt
  <2> HIDE DEF b
  <2>2. ~(Base(x, t) <= b /\ b < Limit(x, t))
    BY <2>1, ZonesApart
  <2>3. tmp_part'[x][b] = tmp_part[x][b] /\ (run.space = "sort" => tmp_sort'[x][b] = tmp_sort[x][b])
    BY <1>1, <1>4, <1>5, <2>1, <2>2
  <2> QED BY <2>3 DEF b
<1> QED
  BY <1>6 DEF Read, ReadIn, run

(* The thread's own chunks hold its sorted partitions. *)
LEMMA ChunkSorted ==
  ASSUME SafeBuilds, ConfInv, PhaseInv, SpaceInv, PartInv, NEW t \in Threads, Sort(t),
         NEW x \in Rels, NEW p \in Parts
  PROVE  /\ SortedRun(x, t, p) = ChunkOf(x, t, p)
         /\ ReadIn(tmp_part'[x], tmp_sort'[x], ChunkOf(x, t, p)) = SortedPart(x, t, p)
         /\ Lists(SortedPart(x, t, p), PartOf(x, t, p)) /\ Ascending(x, SortedPart(x, t, p))
<1> DEFINE run == ChunkOf(x, t, p)
           k == Size(algo, x, t, p)
           s == SortSpace(k)
           q == SortedPart(x, t, p)
<1>1. /\ algo \in Algos /\ parts[t] = PartRuns(t) /\ InPlace(tmp_part[x], algo, x, t)
      /\ scalarflag \in BOOLEAN
  BY SpaceSort, ConfFacts
<1>2. parts[t][x][p].num = k /\ k \in Nat
  BY <1>1, RunReads, PartSetIn DEF Size
<1>3. Lists(q, PartOf(x, t, p)) /\ Ascending(x, q) /\ Len(q) = k
  BY <1>1, SortedPartIs DEF PartOf
<1>4. s \in {"part", "sort"} /\ (s = "sort" => ~scalarflag)
  BY <1>1, SortSpaceType
<1>5. \A r \in Parts : RunAt(s, x, t, r) = Base(x, t) + Offset(x, t, r)
  <2> HIDE DEF s
  <2> QED BY <1>4, SafeRunAt
<1>6. SortedRun(x, t, p) = run
  BY <1>2, <1>5 DEF SortedRun, ChunkOf
<1>7. /\ tmp_part'[x] = AfterSort("part", tmp_part, x, t) /\ tmp_part[x] \in Space(x)
      /\ tmp_sort'[x] = AfterSort("sort", tmp_sort, x, t) /\ tmp_sort[x] \in Space(x)
  BY DEF Sort, SpaceInv
<1>8. ASSUME NEW n \in 1 .. k
      PROVE  (IF s = "sort" THEN tmp_sort'[x][run.at + n - 1] ELSE tmp_part'[x][run.at + n - 1]) = q[n]
  <2>1. n - 1 \in 0 .. k - 1 /\ run.at + n - 1 = Spot(algo, x, t, p, n - 1) /\ (n - 1) + 1 = n
    BY <1>1, <1>2, ChunkAt DEF ChunkOf
  <2>2. CASE s = "sort"
    <3>1. AfterSort("sort", tmp_sort, x, t)[Spot(algo, x, t, p, n - 1)] = q[(n - 1) + 1]
      BY <1>1, <1>5, <1>7, <2>1, <2>2, AfterSortIs
    <3> QED BY <1>7, <2>1, <2>2, <3>1
  <2>3. CASE s = "part"
    <3>1. AfterSort("part", tmp_part, x, t)[Spot(algo, x, t, p, n - 1)] = q[(n - 1) + 1]
      BY <1>1, <1>5, <1>7, <2>1, <2>3, AfterSortIs
    <3> QED BY <1>7, <2>1, <2>3, <3>1
  <2> QED BY <1>4, <2>2, <2>3
<1>9. run.num = k /\ run.space = s
  BY DEF ChunkOf
<1>10. q = [n \in 1 .. k |-> q[n]]
  BY <1>3 DEF Lists
<1> HIDE DEF run, k, s, q
<1>11. ReadIn(tmp_part'[x], tmp_sort'[x], run) = q
  BY <1>8, <1>9, <1>10 DEF ReadIn
<1> QED
  BY <1>3, <1>6, <1>11 DEF run, q

LEMMA HoldsPrimed ==
  ASSUME algo' = algo, scalarflag' = scalarflag, NEW x \in Rels, NEW t \in Threads, NEW p \in Parts,
         chunks'[t][x][p] = ChunkOf(x, t, p),
         Lists(ReadIn(tmp_part'[x], tmp_sort'[x], ChunkOf(x, t, p)), PartOf(x, t, p)),
         Ascending(x, ReadIn(tmp_part'[x], tmp_sort'[x], ChunkOf(x, t, p)))
  PROVE  Holds(x, t, p)'
<1>1. ChunkOf(x, t, p)' = ChunkOf(x, t, p) /\ PartOf(x, t, p)' = PartOf(x, t, p)
  BY DEF ChunkOf, SortSpace, Offset, PartOf
<1>2. Read(x, ChunkOf(x, t, p))' = ReadIn(tmp_part'[x], tmp_sort'[x], ChunkOf(x, t, p))
  BY <1>1 DEF Read, ReadIn
<1> QED
  BY <1>1, <1>2 DEF Holds, Lists, Ascending

LEMMA ReadNow == \A x, run : Read(x, run) = ReadIn(tmp_part[x], tmp_sort[x], run)
  BY DEF Read, ReadIn

LEMMA ChunkInit == ASSUME Init PROVE ChunkInv
  BY DEF Init, ChunkInv, Sorted, FirstMerged, Merged, Joined

LEMMA ChunkSort ==
  ASSUME SafeBuilds, MemoryInv, ChunkInv, NEW t \in Threads, Sort(t)
  PROVE  ChunkInv'
<1> USE DEF MemoryInv
<1>1. algo' = algo /\ scalarflag' = scalarflag
  BY DEF Sort, config
<1>2. pc \in [Threads -> Pcs] /\ pc[t] = "sort" /\ pc' = [pc EXCEPT ![t] = "sorted"]
      /\ DOMAIN chunks = Threads
      /\ chunks' = [chunks EXCEPT ![t] = [x \in Rels |-> [p \in Parts |-> SortedRun(x, t, p)]]]
  BY DEF Sort, Goto, PhaseInv, ChunkInv
<1>3. ASSUME NEW u \in Threads, NEW x \in Rels, NEW p \in Parts,
             pc'[u] \in Sorted, pc'[p \div perthread] \notin FirstMerged
      PROVE  Holds(x, u, p)'
  <2>1. CASE u = t
    <3>1. chunks'[t][x][p] = ChunkOf(x, t, p)
      BY <1>2, ChunkSorted
    <3> QED BY <1>1, <2>1, <3>1, ChunkSorted, HoldsPrimed
  <2>2. CASE u # t
    <3>1. pc[u] \in Sorted /\ pc[p \div perthread] \notin FirstMerged
      <4>1. p \div perthread \in Threads
        BY OwnerIs
      <4> QED BY <1>2, <1>3, <2>2, <4>1 DEF FirstMerged, Merged, Joined
    <3>2. Holds(x, u, p)
      BY <3>1 DEF ChunkInv
    <3>3. chunks'[u][x][p] = ChunkOf(x, u, p)
      BY <1>2, <2>2, <3>2 DEF Holds
    <3>4. ReadIn(tmp_part'[x], tmp_sort'[x], ChunkOf(x, u, p)) = Read(x, ChunkOf(x, u, p))
      BY <2>2, ChunkKept
    <3> QED BY <1>1, <3>2, <3>3, <3>4, HoldsPrimed DEF Holds
  <2> QED BY <2>1, <2>2
<1> QED
  BY <1>2, <1>3 DEF ChunkInv

(* A step that leaves the spaces alone and, of the chunks, those that are    *)
(* still to be merged.                                                      *)
LEMMA ChunkFrame ==
  ASSUME ChunkInv, algo' = algo, scalarflag' = scalarflag, UNCHANGED spaces, DOMAIN chunks' = Threads,
         \A t \in Threads, x \in Rels, p \in Parts :
           pc'[t] \in Sorted /\ pc'[p \div perthread] \notin FirstMerged =>
             /\ pc[t] \in Sorted /\ pc[p \div perthread] \notin FirstMerged
             /\ chunks'[t][x][p] = chunks[t][x][p]
  PROVE  ChunkInv'
<1>1. ASSUME NEW t \in Threads, NEW x \in Rels, NEW p \in Parts,
             pc'[t] \in Sorted, pc'[p \div perthread] \notin FirstMerged
      PROVE  Holds(x, t, p)'
  <2>1. chunks'[t][x][p] = chunks[t][x][p] /\ Holds(x, t, p)
    BY <1>1 DEF ChunkInv
  <2>2. ReadIn(tmp_part'[x], tmp_sort'[x], ChunkOf(x, t, p)) = Read(x, ChunkOf(x, t, p))
    BY ReadNow DEF spaces
  <2> QED BY <2>1, <2>2, HoldsPrimed DEF Holds
<1> QED
  BY <1>1 DEF ChunkInv

LEMMA ChunkStep ==
  ASSUME SafeBuilds, MemoryInv, ChunkInv, [Next]_vars
  PROVE  ChunkInv'
<1> USE DEF MemoryInv
<1>0. algo' = algo /\ scalarflag' = scalarflag /\ pc \in [Threads -> Pcs] /\ DOMAIN chunks = Threads
  BY ConfKept DEF PhaseInv, ChunkInv
<1>o. \A p \in Parts : p \div perthread \in Threads
  BY OwnerIs
<1>1. ASSUME NEW t \in Threads, NEW l \in Pcs, pc' = [pc EXCEPT ![t] = l], UNCHANGED spaces, chunks' = chunks,
             pc[t] \in FirstMerged => l \in FirstMerged,
             l \in Sorted => pc[t] \in Sorted
      PROVE  ChunkInv'
  BY <1>0, <1>o, <1>1, ChunkFrame
<1>2. ASSUME NEW t \in Threads, Partition(t) PROVE ChunkInv'
  <2>1. pc[t] = "partition" /\ pc' = [pc EXCEPT ![t] = "partitioned"] /\ DOMAIN chunks' = Threads
    BY <1>0, <1>2 DEF Partition, Goto
  <2>2. \A u \in Threads : pc'[u] \notin Sorted
    BY <1>0, <2>1 DEF PhaseInv, Partitioned, Sorted, FirstMerged, Merged, Joined
  <2> QED BY <2>1, <2>2 DEF ChunkInv
<1>3. ASSUME NEW t \in Threads, Merge(t) PROVE ChunkInv'
  <2>1. pc[t] = "merge" /\ pc' = [pc EXCEPT ![t] = "merged"] /\ UNCHANGED spaces /\ DOMAIN chunks' = Threads
        /\ chunks' = [u \in Threads |-> [x \in Rels |-> [p \in Parts |->
                        IF p \in MyParts(t) THEN Consumed(chunks[u][x][p]) ELSE chunks[u][x][p]]]]
    BY <1>3 DEF Merge, Goto
  <2>2. ASSUME NEW u \in Threads, NEW x \in Rels, NEW p \in Parts,
               pc'[u] \in Sorted, pc'[p \div perthread] \notin FirstMerged
        PROVE  /\ pc[u] \in Sorted /\ pc[p \div perthread] \notin FirstMerged
               /\ chunks'[u][x][p] = chunks[u][x][p]
    <3>1. p \div perthread # t
      BY <1>0, <2>1, <2>2 DEF FirstMerged, Merged
    <3>2. p \notin MyParts(t)
      BY <3>1, OwnerIs
    <3>3. pc[u] \in Sorted
      BY <1>0, <2>1, <2>2 DEF Sorted
    <3>4. pc[p \div perthread] \notin FirstMerged
      BY <1>0, <1>o, <2>1, <2>2, <3>1
    <3> QED BY <2>1, <3>2, <3>3, <3>4
  <2> QED BY <1>0, <2>1, <2>2, ChunkFrame
<1>4. ASSUME NEW t \in Threads, Exit(t) PROVE ChunkInv'
  <2>1. pc[t] = "joined" /\ pc' = [pc EXCEPT ![t] = "exited"] /\ DOMAIN chunks' = Threads
    BY <1>0, <1>4 DEF Exit, CrossBarrier, Goto
  <2>2. \A u \in Threads : pc'[u] \in FirstMerged
    BY <1>0, <2>1 DEF PhaseInv, FirstMerged, Merged, Joined
  <2> QED BY <1>o, <2>1, <2>2 DEF ChunkInv
<1>5. ASSUME NEW t \in Threads, Launch(t) \/ Arrive(t) \/ Start(t) \/ StartSort(t) \/ StartMerge(t)
      PROVE  ChunkInv'
  BY <1>1, <1>5 DEF Launch, Arrive, Start, StartSort, StartMerge, CrossBarrier, Goto,
                    Pcs, Started, Partitioned, Sorted, FirstMerged, Merged, Joined
<1>6. ASSUME NEW t \in Threads, FirstMerge(t) \/ StartFullMerge(t) \/ FullMerge(t) \/ StartJoin(t) \/ Join(t)
      PROVE  ChunkInv'
  BY <1>1, <1>6 DEF FirstMerge, StartFullMerge, FullMerge, StartJoin, Join, CrossBarrier, Goto,
                    Pcs, Started, Partitioned, Sorted, FirstMerged, Merged, Joined
<1>7. CASE UNCHANGED vars
  BY <1>0, <1>7, ChunkFrame DEF vars, spaces
<1> QED
  BY <1>2, <1>3, <1>4, <1>5, <1>6, <1>7, ChunkSort DEF Next, ThreadStep, Terminated

(* A chunk that is not merged yet lists its partition in order, where       *)
(* sorting_phase says it does.                                              *)
THEOREM ChunkInvariant == ASSUME SafeBuilds PROVE Spec => []ChunkInv
<1>1. Init => ChunkInv
  BY ChunkInit
<1>2. MemoryInv /\ ChunkInv /\ [Next]_vars => ChunkInv'
  BY ChunkStep
<1> QED
  BY <1>1, <1>2, MemoryInvariant, PTL DEF Spec

LEMMA ChunksIntactFollows == ASSUME MemoryInv, ChunkInv PROVE ChunksIntact
<1> SUFFICES ASSUME NEW t \in Threads, NEW x \in Rels, NEW p \in Parts,
                    pc[t] \in Sorted, pc[p \div perthread] \in {"sorted", "merge"}
             PROVE  LET run == Read(x, chunks[t][x][p]) IN
                      /\ Len(run) = Cardinality(PartOf(x, t, p))
                      /\ {run[n] : n \in DOMAIN run} = PartOf(x, t, p)
                      /\ \A m, n \in DOMAIN run : m < n => Key(x, run[m]) <= Key(x, run[n])
  BY DEF ChunksIntact
<1> DEFINE run == Read(x, chunks[t][x][p])
<1>1. pc[p \div perthread] \notin FirstMerged
  BY DEF FirstMerged, Merged, Joined
<1>2. Holds(x, t, p)
  BY <1>1 DEF ChunkInv
<1>3. Lists(run, PartOf(x, t, p)) /\ Ascending(x, run) /\ chunks[t][x][p].num = Size(algo, x, t, p)
  BY <1>2 DEF Holds, ChunkOf
<1>4. DOMAIN run = 1 .. Size(algo, x, t, p) /\ Size(algo, x, t, p) \in Nat
  <2>1. algo \in Algos
    BY ConfFacts DEF MemoryInv
  <2> QED BY <1>3, <2>1, PartSetIn DEF Read, Size
<1> HIDE DEF run
<1>5. Len(run) = Size(algo, x, t, p)
  BY <1>4
<1>6. {run[n] : n \in DOMAIN run} = PartOf(x, t, p)
  BY <1>3, <1>4, <1>5 DEF Lists
<1>7. \A m, n \in DOMAIN run : m < n => Key(x, run[m]) <= Key(x, run[n])
  BY <1>3, <1>4, <1>5 DEF Ascending
<1> QED
  BY <1>5, <1>6, <1>7 DEF run, Size, PartOf

(* Unless m-pass sorts with AVX, where the space for sorting R is too        *)
(* narrow: a sorted chunk holds its partition until the thread it belongs   *)
(* to has merged it, however the threads' sorts interleave and wherever     *)
(* avxsort_tuples leaves the runs (sorting_phase).                          *)
THEOREM ChunksAreIntact == ASSUME SafeBuilds PROVE Spec => []ChunksIntact
<1>1. MemoryInv /\ ChunkInv => ChunksIntact
  BY ChunksIntactFollows
<1> QED
  BY <1>1, MemoryInvariant, ChunkInvariant, PTL

------------------------------------------------------------------------------
(* Concatenation *)

(* The positions in the first n of a sequence of sequences *)
Positions(s, n) == {p \in (1 .. n) \X Nat : p[2] \in 1 .. Len(s[p[1]])}

(* q has the entries of the first n of s, each once. *)
Covers(q, s, n) ==
  \E g \in [1 .. Len(q) -> Positions(s, n)] :
    /\ \A k \in 1 .. Len(q) : q[k] = s[g[k][1]][g[k][2]]
    /\ \A p \in Positions(s, n) : \E k \in 1 .. Len(q) : g[k] = p
    /\ \A k, l \in 1 .. Len(q) : g[k] = g[l] => k = l

(* The function FlattenSeq is defined by *)
Flat(h, s, n) == h = [i \in 1 .. n |-> IF i = 1 THEN s[i] ELSE h[i - 1] \o s[i]]

LEMMA FlatExists == ASSUME NEW s, NEW n \in Nat PROVE \E h : Flat(h, s, n)
<1> DEFINE T == {k \in Nat : \E h : Flat(h, s, k)}
<1>1. 0 \in T
  <2> DEFINE h == [i \in 1 .. 0 |-> {}]
  <2>1. 1 .. 0 = {}
    OBVIOUS
  <2>2. h = [i \in 1 .. 0 |-> IF i = 1 THEN s[i] ELSE h[i - 1] \o s[i]]
    BY <2>1
  <2>3. Flat(h, s, 0)
    BY <2>2 DEF Flat
  <2> QED BY <2>3
<1>2. ASSUME NEW k \in T PROVE k + 1 \in T
  <2>1. PICK h : Flat(h, s, k)
    OBVIOUS
  <2> DEFINE e == IF k + 1 = 1 THEN s[k + 1] ELSE h[k] \o s[k + 1]
             j == [i \in 1 .. k + 1 |-> IF i = k + 1 THEN e ELSE h[i]]
  <2>2. \A i \in 1 .. k : h[i] = IF i = 1 THEN s[i] ELSE h[i - 1] \o s[i]
    BY <2>1 DEF Flat
  <2>3. ASSUME NEW i \in 1 .. k + 1 PROVE j[i] = IF i = 1 THEN s[i] ELSE j[i - 1] \o s[i]
    <3>1. CASE i = k + 1
      <4>1. j[i] = e
        BY <3>1
      <4>2. k # 0 => j[k] = h[k] /\ k \in 1 .. k + 1
        OBVIOUS
      <4>3. i - 1 = k
        BY <3>1
      <4> HIDE DEF j
      <4> QED BY <3>1, <4>1, <4>2, <4>3
    <3>2. CASE i # k + 1
      <4>1. i \in 1 .. k /\ j[i] = h[i]
        BY <3>2
      <4>2. i # 1 => i - 1 \in 1 .. k /\ j[i - 1] = h[i - 1]
        BY <4>1
      <4> HIDE DEF j, e
      <4> QED BY <2>2, <4>1, <4>2
    <3> QED BY <3>1, <3>2
  <2>4. DOMAIN j = 1 .. k + 1 /\ j = [i \in 1 .. k + 1 |-> j[i]]
    OBVIOUS
  <2> HIDE DEF j
  <2>5. Flat(j, s, k + 1)
    BY <2>3, <2>4 DEF Flat
  <2> QED BY <2>5
<1>3. Nat \subseteq T
  <2> HIDE DEF T
  <2> QED BY <1>1, <1>2, SetInduction
<1> QED
  BY <1>3

LEMMA FlattenIs ==
  ASSUME NEW s, Len(s) \in Nat \ {0}
  PROVE  \E h : Flat(h, s, Len(s)) /\ FlattenSeq(s) = h[Len(s)]
<1> DEFINE h == CHOOSE h : Flat(h, s, Len(s))
<1>1. FlattenSeq(s) = h[Len(s)]
  BY DEF FlattenSeq, Flat
<1>2. Flat(h, s, Len(s))
  BY FlatExists
<1> QED
  BY <1>1, <1>2

LEMMA ConcatIs ==
  ASSUME NEW U, NEW a \in Seq(U), NEW b \in Seq(U)
  PROVE  /\ Len(a) \in Nat /\ Len(b) \in Nat /\ a \o b \in Seq(U) /\ Len(a \o b) = Len(a) + Len(b)
         /\ \A k \in 1 .. Len(a) : (a \o b)[k] = a[k]
         /\ \A k \in 1 .. Len(b) : (a \o b)[Len(a) + k] = b[k]
  OBVIOUS

LEMMA CoverNext ==
  ASSUME NEW U, NEW s, NEW n \in Nat, NEW q \in Seq(U), s[n + 1] \in Seq(U), Covers(q, s, n)
  PROVE  Covers(q \o s[n + 1], s, n + 1)
<1> DEFINE b == s[n + 1]
           c == q \o b
           L == Len(q)
           M == Len(b)
           P == Positions(s, n)
           Q == Positions(s, n + 1)
<1>1. PICK g \in [1 .. L -> P] :
        /\ \A k \in 1 .. L : q[k] = s[g[k][1]][g[k][2]]
        /\ \A p \in P : \E k \in 1 .. L : g[k] = p
        /\ \A k, l \in 1 .. L : g[k] = g[l] => k = l
  BY DEF Covers
<1>2. /\ L \in Nat /\ M \in Nat /\ Len(c) = L + M
      /\ \A k \in 1 .. L : c[k] = q[k]
      /\ \A k \in 1 .. M : c[L + k] = b[k]
  BY ConcatIs
<1>3. /\ \A p \in P : p \in Q /\ p[1] # n + 1
      /\ \A p \in Q : p \in P \/ (p[1] = n + 1 /\ p[2] \in 1 .. M /\ p = <<n + 1, p[2]>>)
      /\ \A m \in 1 .. M : <<n + 1, m>> \in Q
  <2>1. \A i : i \in 1 .. n + 1 <=> i \in 1 .. n \/ i = n + 1
    OBVIOUS
  <2>2. n + 1 \notin 1 .. n
    OBVIOUS
  <2>3. \A m \in 1 .. M : m \in Nat
    BY <1>2
  <2> QED BY <2>1, <2>2, <2>3 DEF Positions
<1> HIDE DEF P, Q, L, M, c, b
<1> DEFINE f == [k \in 1 .. L + M |-> IF k <= L THEN g[k] ELSE <<n + 1, k - L>>]
<1>4. ASSUME NEW k \in 1 .. L + M
      PROVE  \/ k \in 1 .. L /\ f[k] = g[k] /\ g[k] \in P
             \/ k - L \in 1 .. M /\ k = L + (k - L) /\ f[k] = <<n + 1, k - L>>
  BY <1>1, <1>2
<1>5. \A k \in 1 .. L : k \in 1 .. L + M /\ f[k] = g[k]
  BY <1>2
<1>6. \A m \in 1 .. M : L + m \in 1 .. L + M /\ f[L + m] = <<n + 1, m>>
  BY <1>2
<1>7. DOMAIN f = 1 .. L + M
  OBVIOUS
<1>7a. f = [k \in 1 .. L + M |-> f[k]]
  OBVIOUS
<1> HIDE DEF f
<1>8. f \in [1 .. L + M -> Q]
  <2>1. ASSUME NEW k \in 1 .. L + M PROVE f[k] \in Q
    <3>1. CASE f[k] = g[k] /\ g[k] \in P
      BY <1>3, <3>1
    <3>2. CASE k - L \in 1 .. M /\ f[k] = <<n + 1, k - L>>
      BY <1>3, <3>2
    <3> QED BY <1>4, <3>1, <3>2
  <2> QED BY <1>7a, <2>1
<1>9. ASSUME NEW k \in 1 .. L + M PROVE c[k] = s[f[k][1]][f[k][2]]
  <2>1. CASE k \in 1 .. L /\ f[k] = g[k]
    BY <1>1, <1>2, <2>1
  <2>2. CASE k - L \in 1 .. M /\ k = L + (k - L) /\ f[k] = <<n + 1, k - L>>
    <3>1. c[L + (k - L)] = b[k - L]
      BY <1>2, <2>2
    <3> QED BY <2>2, <3>1 DEF b
  <2> QED BY <1>4, <2>1, <2>2
<1>10. ASSUME NEW p \in Q PROVE \E k \in 1 .. L + M : f[k] = p
  <2>1. CASE p \in P
    BY <1>1, <1>5, <2>1
  <2>2. CASE p[2] \in 1 .. M /\ p = <<n + 1, p[2]>>
    BY <1>6, <2>2
  <2> QED BY <1>3, <2>1, <2>2
<1>11. ASSUME NEW k \in 1 .. L + M, NEW l \in 1 .. L + M, f[k] = f[l] PROVE k = l
  <2>1. CASE k \in 1 .. L /\ f[k] = g[k] /\ l \in 1 .. L /\ f[l] = g[l]
    BY <1>1, <1>11, <2>1
  <2>2. CASE f[k] = <<n + 1, k - L>> /\ f[l] = <<n + 1, l - L>>
    <3>1. k - L = l - L
      <4>1. f[k][2] = k - L /\ f[l][2] = l - L
        BY <2>2
      <4> QED BY <1>11, <4>1
    <3>2. k \in Int /\ l \in Int
      OBVIOUS
    <3> QED BY <1>2, <3>1, <3>2
  <2>3. CASE g[k] \in P /\ f[k] = g[k] /\ f[l] = <<n + 1, l - L>>
    BY <1>3, <1>11, <2>3
  <2>4. CASE g[l] \in P /\ f[l] = g[l] /\ f[k] = <<n + 1, k - L>>
    BY <1>3, <1>11, <2>4
  <2> QED BY <1>4, <2>1, <2>2, <2>3, <2>4
<1>12. Covers(c, s, n + 1)
  <2> DEFINE N == L + M
  <2>1. Len(c) = N
    BY <1>2
  <2>2. /\ f \in [1 .. N -> Q]
        /\ \A k \in 1 .. N : c[k] = s[f[k][1]][f[k][2]]
        /\ \A p \in Q : \E k \in 1 .. N : f[k] = p
        /\ \A k, l \in 1 .. N : f[k] = f[l] => k = l
    BY <1>8, <1>9, <1>10, <1>11
  <2> HIDE DEF N
  <2> QED BY <2>1, <2>2 DEF Covers, Q
<1> QED
  BY <1>12 DEF c, b

LEMMA CoverFirst == ASSUME NEW U, NEW s, s[1] \in Seq(U) PROVE Covers(s[1], s, 1)
<1> DEFINE q == s[1]
           L == Len(q)
           g == [k \in 1 .. L |-> <<1, k>>]
<1>1. L \in Nat
  OBVIOUS
<1>2. \A p : p \in Positions(s, 1) <=> \E k \in 1 .. L : p = <<1, k>>
  <2>1. \A p \in Positions(s, 1) : p[1] = 1 /\ p[2] \in 1 .. L /\ p = <<1, p[2]>>
    BY DEF Positions
  <2>2. \A k \in 1 .. L : <<1, k>> \in Positions(s, 1)
    BY <1>1 DEF Positions
  <2> QED BY <2>1, <2>2
<1> HIDE DEF L
<1>3. g \in [1 .. L -> Positions(s, 1)]
  BY <1>2
<1>4. \A k \in 1 .. L : q[k] = s[g[k][1]][g[k][2]]
  OBVIOUS
<1>5. \A p \in Positions(s, 1) : \E k \in 1 .. L : g[k] = p
  BY <1>2
<1>6. \A k, l \in 1 .. L : g[k] = g[l] => k = l
  OBVIOUS
<1> QED
  BY <1>3, <1>4, <1>5, <1>6 DEF Covers, L

LEMMA FlattenCovers ==
  ASSUME NEW U, NEW s, Len(s) \in Nat \ {0}, \A i \in 1 .. Len(s) : s[i] \in Seq(U)
  PROVE  FlattenSeq(s) \in Seq(U) /\ Covers(FlattenSeq(s), s, Len(s))
<1> DEFINE n == Len(s)
<1>1. PICK h : Flat(h, s, n) /\ FlattenSeq(s) = h[n]
  BY FlattenIs
<1> HIDE DEF n
<1>2. \A i \in 1 .. n : h[i] = IF i = 1 THEN s[i] ELSE h[i - 1] \o s[i]
  BY <1>1 DEF Flat
<1> DEFINE T == {k \in Nat : k \in 1 .. n => h[k] \in Seq(U) /\ Covers(h[k], s, k)}
<1>3. 0 \in T
  OBVIOUS
<1>4. ASSUME NEW k \in T PROVE k + 1 \in T
  <2> SUFFICES ASSUME k + 1 \in 1 .. n PROVE h[k + 1] \in Seq(U) /\ Covers(h[k + 1], s, k + 1)
    OBVIOUS
  <2>0. s[k + 1] \in Seq(U)
    BY DEF n
  <2>1. CASE k = 0
    <3>1. h[1] = s[1]
      BY <1>2, <2>1
    <3>2. Covers(s[1], s, 1)
      BY <2>0, <2>1, CoverFirst
    <3> QED BY <2>0, <2>1, <3>1, <3>2
  <2>2. CASE k # 0
    <3>1. k \in 1 .. n /\ k + 1 # 1 /\ (k + 1) - 1 = k
      BY <2>2 DEF n
    <3>2. h[k + 1] = h[k] \o s[k + 1]
      BY <1>2, <3>1
    <3>3. h[k] \in Seq(U) /\ Covers(h[k], s, k)
      BY <3>1
    <3>4. Covers(h[k] \o s[k + 1], s, k + 1)
      BY <2>0, <3>3, CoverNext
    <3>5. h[k] \o s[k + 1] \in Seq(U)
      BY <2>0, <3>3, ConcatIs
    <3> QED BY <3>2, <3>4, <3>5
  <2> QED BY <2>1, <2>2
<1>5. n \in T
  <2>1. Nat \subseteq T
    <3> HIDE DEF T
    <3> QED BY <1>3, <1>4, SetInduction
  <2> QED BY <2>1 DEF n
<1>6. n \in 1 .. n
  BY DEF n
<1> QED
  BY <1>1, <1>5, <1>6 DEF n

LEMMA ListsSeq ==
  ASSUME NEW q, NEW S, NEW U, S \in SUBSET U
  PROVE  Lists(q, S) => q \in Seq(U) /\ Len(q) \in Nat
<1> SUFFICES ASSUME Lists(q, S) PROVE q \in Seq(U) /\ Len(q) \in Nat
  OBVIOUS
<1>1. Len(q) \in Nat /\ q \in [1 .. Len(q) -> U]
  BY DEF Lists
<1> QED
  BY <1>1

(* A concatenation of lists of disjoint sets lists their union. *)
LEMMA FlattenLists ==
  ASSUME NEW U, NEW s, Len(s) \in Nat \ {0}, NEW F,
         \A i \in 1 .. Len(s) : F[i] \in SUBSET U /\ Lists(s[i], F[i]),
         \A i, j \in 1 .. Len(s) : i # j => F[i] \cap F[j] = {},
         NEW A, \A a : a \in A <=> \E i \in 1 .. Len(s) : a \in F[i]
  PROVE  Lists(FlattenSeq(s), A)
<1> DEFINE n == Len(s)
           q == FlattenSeq(s)
<1>1. \A i \in 1 .. n : s[i] \in Seq(U) /\ Len(s[i]) \in Nat
  BY ListsSeq
<1>2. q \in Seq(U) /\ Covers(q, s, n)
  BY <1>1, FlattenCovers
<1>3. Len(q) \in Nat /\ DOMAIN q = 1 .. Len(q) /\ q = [k \in 1 .. Len(q) |-> q[k]]
  BY <1>2
<1> HIDE DEF q
<1>4. PICK g \in [1 .. Len(q) -> Positions(s, n)] :
        /\ \A k \in 1 .. Len(q) : q[k] = s[g[k][1]][g[k][2]]
        /\ \A p \in Positions(s, n) : \E k \in 1 .. Len(q) : g[k] = p
        /\ \A k, l \in 1 .. Len(q) : g[k] = g[l] => k = l
  BY <1>2 DEF Covers
<1>5. ASSUME NEW p \in Positions(s, n)
      PROVE  /\ p[1] \in 1 .. n /\ p[2] \in 1 .. Len(s[p[1]]) /\ p = <<p[1], p[2]>>
             /\ s[p[1]][p[2]] \in F[p[1]] /\ s[p[1]][p[2]] \in A
  <2>1. p[1] \in 1 .. n /\ p[2] \in 1 .. Len(s[p[1]]) /\ p = <<p[1], p[2]>>
    BY DEF Positions
  <2>2. s[p[1]][p[2]] \in F[p[1]]
    BY <2>1 DEF Lists
  <2> QED BY <2>1, <2>2
<1>6. \A k \in 1 .. Len(q) : g[k] \in Positions(s, n) /\ q[k] = s[g[k][1]][g[k][2]] /\ q[k] \in A
  BY <1>4, <1>5
<1>7. q \in [1 .. Len(q) -> A]
  BY <1>3, <1>6
<1>8. ASSUME NEW a \in A PROVE \E k \in 1 .. Len(q) : q[k] = a
  <2>1. PICK i \in 1 .. n : a \in F[i]
    OBVIOUS
  <2>2. PICK m \in 1 .. Len(s[i]) : s[i][m] = a
    BY <2>1 DEF Lists
  <2>3. <<i, m>> \in Positions(s, n)
    BY <1>1, <2>2 DEF Positions
  <2>4. PICK k \in 1 .. Len(q) : g[k] = <<i, m>>
    BY <1>4, <2>3
  <2> QED BY <1>4, <2>2, <2>4
<1>9. ASSUME NEW k \in 1 .. Len(q), NEW l \in 1 .. Len(q), q[k] = q[l] PROVE k = l
  <2> DEFINE p == g[k]
             r == g[l]
  <2>1. p \in Positions(s, n) /\ r \in Positions(s, n) /\ s[p[1]][p[2]] = s[r[1]][r[2]]
    BY <1>6, <1>9
  <2> HIDE DEF p, r
  <2>2. p[1] = r[1]
    BY <1>5, <2>1
  <2>3. p[2] = r[2]
    BY <1>5, <2>1, <2>2 DEF Lists
  <2>4. p = r
    BY <1>5, <2>1, <2>2, <2>3
  <2> QED BY <1>4, <2>4 DEF p, r
<1>10. Lists(q, A)
  BY <1>3, <1>7, <1>8, <1>9 DEF Lists
<1> QED
  BY <1>10 DEF q

LEMMA ConcatLists ==
  ASSUME NEW a, NEW b, NEW A, NEW B, Lists(a, A), Lists(b, B), A \cap B = {}
  PROVE  Lists(a \o b, A \cup B)
<1> DEFINE U == A \cup B
           c == a \o b
           L == Len(a)
           M == Len(b)
<1>1. a \in Seq(U) /\ b \in Seq(U)
  BY ListsSeq
<1>2. /\ L \in Nat /\ M \in Nat /\ c \in Seq(U) /\ Len(c) = L + M
      /\ \A k \in 1 .. L : c[k] = a[k]
      /\ \A k \in 1 .. M : c[L + k] = b[k]
  BY <1>1, ConcatIs
<1> HIDE DEF c
<1>3. c \in [1 .. Len(c) -> U] /\ Len(c) \in Nat
  BY <1>2
<1>4. ASSUME NEW i \in U PROVE \E k \in 1 .. Len(c) : c[k] = i
  <2>1. CASE i \in A
    <3>1. PICK k \in 1 .. L : a[k] = i
      BY <2>1 DEF Lists
    <3>2. k \in 1 .. Len(c) /\ c[k] = i
      BY <1>2, <3>1
    <3> QED BY <3>2
  <2>2. CASE i \in B
    <3>1. PICK k \in 1 .. M : b[k] = i
      BY <2>2 DEF Lists
    <3>2. L + k \in 1 .. Len(c) /\ c[L + k] = i
      BY <1>2, <3>1
    <3> QED BY <3>2
  <2> QED BY <2>1, <2>2
<1>5. ASSUME NEW k \in 1 .. Len(c)
      PROVE  \/ k \in 1 .. L /\ c[k] = a[k] /\ a[k] \in A
             \/ k - L \in 1 .. M /\ c[k] = b[k - L] /\ b[k - L] \in B
  <2>1. CASE k <= L
    <3>1. k \in 1 .. L
      BY <1>2, <2>1
    <3> QED BY <1>2, <3>1 DEF Lists
  <2>2. CASE ~(k <= L)
    <3>1. k - L \in 1 .. M /\ L + (k - L) = k
      BY <1>2, <2>2
    <3> QED BY <1>2, <3>1 DEF Lists
  <2> QED BY <2>1, <2>2
<1>6. ASSUME NEW k \in 1 .. Len(c), NEW l \in 1 .. Len(c), c[k] = c[l] PROVE k = l
  <2>1. CASE k \in 1 .. L /\ c[k] = a[k] /\ l \in 1 .. L /\ c[l] = a[l]
    BY <1>6, <2>1 DEF Lists
  <2>2. CASE k - L \in 1 .. M /\ c[k] = b[k - L] /\ l - L \in 1 .. M /\ c[l] = b[l - L]
    <3>1. k - L = l - L
      BY <1>6, <2>2 DEF Lists
    <3> QED BY <1>2, <3>1
  <2>3. ~(c[k] \in A /\ c[l] \in B) /\ ~(c[k] \in B /\ c[l] \in A)
    BY <1>6
  <2> QED BY <1>5, <2>1, <2>2, <2>3
<1> QED
  BY <1>3, <1>4, <1>6 DEF Lists, c

------------------------------------------------------------------------------
(* The order in which a thread takes the threads' runs *)

LEMMA ModUnique ==
  ASSUME NEW n \in Nat \ {0}, NEW c \in Nat, NEW i \in 0 .. n - 1, NEW j \in 0 .. n - 1,
         (c + i) % n = (c + j) % n
  PROVE  i = j
<1> DEFINE p == (c + i) \div n
           q == (c + j) \div n
           r == (c + i) % n
<1>1. p \in Nat /\ q \in Nat /\ r \in 0 .. n - 1
  OBVIOUS
<1>2. c + i = n * p + r /\ c + j = n * q + r
  OBVIOUS
<1> HIDE DEF p, q, r
<1>3. n * p \in Nat /\ n * q \in Nat
  BY <1>1
<1>4. CASE p < q
  <2>1. n * (p + 1) <= n * q /\ n * (p + 1) = n * p + n
    BY <1>1, <1>4, MulMono
  <2> QED BY <1>1, <1>2, <1>3, <2>1
<1>5. CASE q < p
  <2>1. n * (q + 1) <= n * p /\ n * (q + 1) = n * q + n
    BY <1>1, <1>5, MulMono
  <2> QED BY <1>1, <1>2, <1>3, <2>1
<1>6. CASE p = q
  BY <1>1, <1>2, <1>3, <1>6
<1> QED
  BY <1>1, <1>4, <1>5, <1>6

LEMMA RegionStep == nthreads \div Cardinality(Regions) \in Nat
<1> DEFINE k == Cardinality(Regions)
           f == [t \in Threads |-> NumaRegion[t]]
<1>1. IsFiniteSet(Threads) /\ 0 \in Threads /\ nthreads \in Nat
  BY Sizes
<1>2. f \in Surjection(Threads, Regions)
  BY DEF Surjection, Regions
<1>3. IsFiniteSet(Regions)
  BY <1>1, <1>2, FS_Surjection
<1>4. Regions # {}
  BY <1>1 DEF Regions
<1>5. k \in Nat \ {0}
  BY <1>3, <1>4, FS_CardinalityType, FS_EmptySet
<1> HIDE DEF k
<1>6. nthreads \div k \in Nat
  BY <1>1, <1>5
<1> QED
  BY <1>6 DEF k

LEMMA StrategyIn ==
  ASSUME ConfInv, NEW t \in Threads, NEW i \in Threads
  PROVE  get_numa_shuffle_strategy(t, i) \in Threads
<1>1. ASSUME NEW k \in Nat PROVE k % nthreads \in Threads
  BY Sizes DEF Threads
<1>2. t \in Nat /\ i \in Nat /\ nthreads \in Nat \ {0}
  BY Sizes DEF Threads
<1>3. nthreads \div Cardinality(Regions) \in Nat
  BY RegionStep
<1>4. strategy \in {"RANDOM", "RING", "NEXT"}
  BY SortMergeAssumption DEF ConfInv
<1>5. CASE strategy = "RANDOM"
  BY <1>5, SortMergeAssumption DEF get_numa_shuffle_strategy
<1>6. CASE strategy = "RING"
  <2>1. t + (nthreads \div Cardinality(Regions)) + i \in Nat
    BY <1>2, <1>3
  <2> QED BY <1>1, <1>6, <2>1 DEF get_numa_shuffle_strategy
<1>7. CASE strategy = "NEXT"
  <2>1. t + i \in Nat
    BY <1>2
  <2> QED BY <1>1, <1>7, <2>1 DEF get_numa_shuffle_strategy
<1> QED
  BY <1>4, <1>5, <1>6, <1>7

LEMMA StrategyUnique ==
  ASSUME ConfInv, NEW t \in Threads, NEW i \in Threads, NEW j \in Threads,
         get_numa_shuffle_strategy(t, i) = get_numa_shuffle_strategy(t, j)
  PROVE  i = j
<1>2. t \in Nat /\ i \in Nat /\ j \in Nat /\ nthreads \in Nat \ {0} /\ i \in 0 .. nthreads - 1 /\ j \in 0 .. nthreads - 1
  BY Sizes DEF Threads
<1>4. strategy \in {"RANDOM", "RING", "NEXT"}
  BY SortMergeAssumption DEF ConfInv
<1>5. CASE strategy = "RANDOM"
  BY <1>5, SortMergeAssumption DEF get_numa_shuffle_strategy
<1>6. CASE strategy = "RING"
  <2> DEFINE d == nthreads \div Cardinality(Regions)
             c == t + d
  <2>1. d \in Nat
    BY RegionStep
  <2>2. (t + d + i) % nthreads = (t + d + j) % nthreads
    BY <1>6 DEF get_numa_shuffle_strategy
  <2> HIDE DEF d
  <2>3. c \in Nat /\ t + d + i = c + i /\ t + d + j = c + j
    BY <1>2, <2>1
  <2> HIDE DEF c
  <2> QED BY <1>2, <2>2, <2>3, ModUnique
<1>7. CASE strategy = "NEXT"
  <2>1. (t + i) % nthreads = (t + j) % nthreads
    BY <1>7 DEF get_numa_shuffle_strategy
  <2> QED BY <1>2, <2>1, ModUnique
<1> QED
  BY <1>4, <1>5, <1>6, <1>7

(* An injection of the threads into the threads reaches all of them. *)
LEMMA ThreadsOnto ==
  ASSUME NEW f \in [Threads -> Threads], \A i, j \in Threads : f[i] = f[j] => i = j
  PROVE  \A u \in Threads : \E i \in Threads : f[i] = u
<1>1. IsFiniteSet(Threads)
  BY Sizes
<1>2. f \in Injection(Threads, Threads)
  BY DEF Injection, IsInjective
<1>3. f \in Surjection(Threads, Threads)
  BY <1>1, <1>2, FS_Injection
<1> QED
  BY <1>3 DEF Surjection

LEMMA StrategyOnto ==
  ASSUME ConfInv, NEW t \in Threads, NEW u \in Threads
  PROVE  \E i \in Threads : get_numa_shuffle_strategy(t, i) = u
<1> DEFINE f == [i \in Threads |-> get_numa_shuffle_strategy(t, i)]
<1>1. f \in [Threads -> Threads] /\ \A i, j \in Threads : f[i] = f[j] => i = j
  BY StrategyIn, StrategyUnique
<1>2. \A v \in Threads : \E i \in Threads : f[i] = v
  <2> HIDE DEF f
  <2> QED BY <1>1, ThreadsOnto
<1> QED
  BY <1>2

------------------------------------------------------------------------------
(* The tuples of a partition in all shares, and those a thread merges *)

Column(x, p) == UNION {PartOf(x, u, p) : u \in Threads}
Mine(x, t)   == UNION {Column(x, p) : p \in MyParts(t)}

LEMMA MyPartsIs ==
  ASSUME NEW t \in Threads
  PROVE  /\ MyParts(t) \in SUBSET Parts /\ Cardinality(MyParts(t)) = perthread
         /\ \A m \in 1 .. perthread : t * perthread + m - 1 \in MyParts(t)
         /\ \A p \in MyParts(t) : \E m \in 1 .. perthread : p = t * perthread + m - 1
<1> DEFINE k == perthread
           n == nthreads
           b == t * k
<1>1. k \in Nat \ {0} /\ n \in Nat \ {0} /\ PARTFANOUT = k * n /\ t \in Nat /\ t + 1 <= n
  BY Sizes DEF Threads
<1> HIDE DEF k, n
<1>2. b \in Nat /\ b + k <= PARTFANOUT /\ PARTFANOUT \in Nat
  <2>1. k * (t + 1) <= k * n /\ k * (t + 1) = t * k + k
    BY <1>1, MulMono
  <2> QED BY <1>1, <2>1
<1>3. MyParts(t) = b .. b + k - 1
  BY DEF MyParts, k
<1> HIDE DEF b
<1>4. b .. b + k - 1 \in SUBSET Parts
  BY <1>1, <1>2 DEF Parts
<1>5. Cardinality(b .. b + k - 1) = k
  <2>1. b \in Int /\ b + k - 1 \in Int
    BY <1>1, <1>2
  <2>2. Cardinality(b .. b + k - 1) = IF b > b + k - 1 THEN 0 ELSE (b + k - 1) - b + 1
    BY <2>1, FS_Interval
  <2> QED BY <1>1, <1>2, <2>2
<1>6. \A m \in 1 .. k : b + m - 1 \in b .. b + k - 1
  BY <1>1, <1>2
<1>7. ASSUME NEW p \in b .. b + k - 1 PROVE \E m \in 1 .. k : p = b + m - 1
  <2>1. p - b + 1 \in 1 .. k /\ p = b + (p - b + 1) - 1
    BY <1>1, <1>2
  <2> QED BY <2>1
<1> QED
  BY <1>3, <1>4, <1>5, <1>6, <1>7 DEF b, k

LEMMA PartOfIs ==
  ASSUME algo \in Algos, NEW x \in Rels, NEW u \in Threads, NEW p \in Parts
  PROVE  /\ PartOf(x, u, p) \in SUBSET Tuples(x)
         /\ \A i : i \in PartOf(x, u, p) <=> i \in Share(x, u) /\ PartNo(algo, x, u, i) = p
  BY PartSetIn DEF PartOf

LEMMA ColumnIn == ASSUME algo \in Algos, NEW x \in Rels, NEW p \in Parts PROVE Column(x, p) \in SUBSET Tuples(x)
  BY PartOfIs DEF Column

LEMMA ColumnApart ==
  ASSUME algo \in Algos, NEW x \in Rels, NEW p \in Parts, NEW q \in Parts, p # q
  PROVE  Column(x, p) \cap Column(x, q) = {}
<1> SUFFICES ASSUME NEW i, i \in Column(x, p), i \in Column(x, q) PROVE FALSE
  OBVIOUS
<1>1. PICK u \in Threads : i \in PartOf(x, u, p)
  BY DEF Column
<1>2. PICK v \in Threads : i \in PartOf(x, v, q)
  BY DEF Column
<1>3. i \in Share(x, u) /\ PartNo(algo, x, u, i) = p /\ i \in Share(x, v) /\ PartNo(algo, x, v, i) = q
  BY <1>1, <1>2, PartOfIs
<1>4. u = v
  BY <1>3, ShareDisjoint
<1> QED
  BY <1>3, <1>4

(* Parts of different threads' shares *)
LEMMA PartsApart ==
  ASSUME algo \in Algos, NEW x \in Rels, NEW p \in Parts, NEW u \in Threads, NEW v \in Threads, u # v
  PROVE  PartOf(x, u, p) \cap PartOf(x, v, p) = {}
  BY PartOfIs, ShareDisjoint

------------------------------------------------------------------------------
(* m-way: merging *)

LEMMA ColumnLists ==
  ASSUME ConfInv, NEW x \in Rels, NEW t \in Threads, NEW p \in Parts, \A u \in Threads : Holds(x, u, p)
  PROVE  Lists(FlattenSeq(RunsOf(x, t, p)), Column(x, p))
<1> DEFINE s == RunsOf(x, t, p)
           g(n) == get_numa_shuffle_strategy(t, n - 1)
           F == [n \in 1 .. nthreads |-> PartOf(x, g(n), p)]
<1>1. nthreads \in Nat \ {0} /\ algo \in Algos
  BY Sizes, ConfFacts
<1>2. \A n \in 1 .. nthreads : n - 1 \in Threads
  BY <1>1 DEF Threads
<1>3. \A n \in 1 .. nthreads : g(n) \in Threads
  BY <1>2, StrategyIn
<1>4. ASSUME NEW m \in 1 .. nthreads, NEW n \in 1 .. nthreads, m # n PROVE g(m) # g(n)
  <2>1. m - 1 # n - 1
    BY <1>4
  <2> QED BY <1>2, <2>1, StrategyUnique
<1>5. ASSUME NEW u \in Threads PROVE \E n \in 1 .. nthreads : g(n) = u
  <2>1. PICK i \in Threads : get_numa_shuffle_strategy(t, i) = u
    BY StrategyOnto
  <2>2. i + 1 \in 1 .. nthreads /\ (i + 1) - 1 = i
    BY <1>1 DEF Threads
  <2> QED BY <2>1, <2>2
<1> HIDE DEF g
<1>6. s = [n \in 1 .. nthreads |-> Read(x, chunks[g(n)][x][p])]
  BY DEF RunsOf, g
<1>7. Len(s) = nthreads
  BY <1>1, <1>6
<1>8. ASSUME NEW n \in 1 .. nthreads PROVE F[n] \in SUBSET Tuples(x) /\ Lists(s[n], F[n])
  <2>1. Holds(x, g(n), p)
    BY <1>3
  <2>2. s[n] = Read(x, ChunkOf(x, g(n), p)) /\ F[n] = PartOf(x, g(n), p)
    BY <1>6, <2>1 DEF Holds
  <2>3. PartOf(x, g(n), p) \in SUBSET Tuples(x)
    BY <1>1, <1>3, PartOfIs
  <2> QED BY <2>1, <2>2, <2>3 DEF Holds
<1>9. ASSUME NEW m \in 1 .. nthreads, NEW n \in 1 .. nthreads, m # n PROVE F[m] \cap F[n] = {}
  <2>1. g(m) \in Threads /\ g(n) \in Threads /\ g(m) # g(n)
    BY <1>3, <1>4, <1>9
  <2> QED BY <1>1, <2>1, PartsApart
<1>10. \A a : a \in Column(x, p) <=> \E n \in 1 .. nthreads : a \in F[n]
  BY <1>3, <1>5 DEF Column
<1> HIDE DEF s, F
<1>11. Lists(FlattenSeq(s), Column(x, p))
  <2>1. /\ Len(s) \in Nat \ {0}
        /\ \A n \in 1 .. Len(s) : F[n] \in SUBSET Tuples(x) /\ Lists(s[n], F[n])
        /\ \A m, n \in 1 .. Len(s) : m # n => F[m] \cap F[n] = {}
        /\ \A a : a \in Column(x, p) <=> \E n \in 1 .. Len(s) : a \in F[n]
    BY <1>1, <1>7, <1>8, <1>9, <1>10
  <2> QED BY <2>1, FlattenLists
<1> QED
  BY <1>11 DEF s

LEMMA MergeLists ==
  ASSUME ConfInv, NEW x \in Rels, NEW t \in Threads,
         \A u \in Threads, p \in MyParts(t) : Holds(x, u, p)
  PROVE  Lists(MergeRuns(x, t), Mine(x, t)) /\ Ascending(x, MergeRuns(x, t))
<1> DEFINE k == perthread
           P(m) == t * perthread + m - 1
           s == [m \in 1 .. k |-> FlattenSeq(RunsOf(x, t, P(m)))]
           F == [m \in 1 .. k |-> Column(x, P(m))]
<1>1. k \in Nat \ {0} /\ algo \in Algos
  BY Sizes, ConfFacts
<1>2. /\ Cardinality(MyParts(t)) = k
      /\ \A m \in 1 .. k : P(m) \in MyParts(t) /\ P(m) \in Parts
      /\ \A p \in MyParts(t) : \E m \in 1 .. k : p = P(m)
  BY MyPartsIs
<1>3. ASSUME NEW m \in 1 .. k, NEW n \in 1 .. k, m # n PROVE P(m) # P(n)
  <2> DEFINE b == t * perthread
  <2>1. b \in Int
    BY Sizes DEF Threads
  <2> HIDE DEF b
  <2>2. b + m - 1 # b + n - 1
    BY <1>3, <2>1
  <2> QED BY <2>2 DEF b
<1>4. MergeRuns(x, t) = SortTuples(x, FlattenSeq(s))
  BY <1>2 DEF MergeRuns
<1> HIDE DEF P, k
<1>5. Len(s) = k
  BY <1>1
<1>6. ASSUME NEW m \in 1 .. k PROVE F[m] \in SUBSET Tuples(x) /\ Lists(s[m], F[m])
  BY <1>1, <1>2, ColumnLists, ColumnIn
<1>7. ASSUME NEW m \in 1 .. k, NEW n \in 1 .. k, m # n PROVE F[m] \cap F[n] = {}
  <2>1. P(m) \in Parts /\ P(n) \in Parts /\ P(m) # P(n)
    BY <1>2, <1>3, <1>7
  <2> QED BY <1>1, <2>1, ColumnApart
<1>8. \A a : a \in Mine(x, t) <=> \E m \in 1 .. k : a \in F[m]
  BY <1>2 DEF Mine
<1>9. Mine(x, t) \in SUBSET Tuples(x)
  BY <1>6, <1>8
<1> HIDE DEF s, F
<1>10. Lists(FlattenSeq(s), Mine(x, t))
  <2>1. /\ Len(s) \in Nat \ {0}
        /\ \A n \in 1 .. Len(s) : F[n] \in SUBSET Tuples(x) /\ Lists(s[n], F[n])
        /\ \A m, n \in 1 .. Len(s) : m # n => F[m] \cap F[n] = {}
        /\ \A a : a \in Mine(x, t) <=> \E n \in 1 .. Len(s) : a \in F[n]
    BY <1>1, <1>5, <1>6, <1>7, <1>8
  <2> QED BY <2>1, FlattenLists
<1> QED
  BY <1>4, <1>9, <1>10, SortLists

------------------------------------------------------------------------------
(* m-pass: merging.  Sorted runs that between them list a set *)

SpreadBy(x, runs, M, F) ==
  /\ \A j \in 1 .. Len(runs) : F[j] \in SUBSET M /\ Lists(runs[j], F[j]) /\ Ascending(x, runs[j])
  /\ \A j, k \in 1 .. Len(runs) : j # k => F[j] \cap F[k] = {}
  /\ \A i \in M : \E j \in 1 .. Len(runs) : i \in F[j]

Spread(x, runs, M) ==
  /\ Len(runs) \in Nat /\ runs = [j \in 1 .. Len(runs) |-> runs[j]]
  /\ \E F : SpreadBy(x, runs, M, F)

LEMMA FlattenSpread ==
  ASSUME NEW x, NEW s, Len(s) \in Nat \ {0}, NEW G, NEW M,
         \A i \in 1 .. Len(s) : Spread(x, s[i], G[i]),
         \A i, j \in 1 .. Len(s) : i # j => G[i] \cap G[j] = {},
         \A a : a \in M <=> \E i \in 1 .. Len(s) : a \in G[i]
  PROVE  Spread(x, FlattenSeq(s), M)
<1> DEFINE n == Len(s)
           q == FlattenSeq(s)
           U == UNION {{s[i][m] : m \in 1 .. Len(s[i])} : i \in 1 .. n}
           H == [i \in 1 .. n |-> CHOOSE F : SpreadBy(x, s[i], G[i], F)]
<1>1. ASSUME NEW i \in 1 .. n PROVE Len(s[i]) \in Nat /\ s[i] \in Seq(U)
  <2>1. Len(s[i]) \in Nat /\ s[i] = [j \in 1 .. Len(s[i]) |-> s[i][j]]
    BY DEF Spread
  <2>2. \A j \in 1 .. Len(s[i]) : s[i][j] \in U
    OBVIOUS
  <2> HIDE DEF U
  <2>3. s[i] \in [1 .. Len(s[i]) -> U]
    BY <2>1, <2>2
  <2> QED BY <2>1, <2>3
<1>2. ASSUME NEW i \in 1 .. n PROVE SpreadBy(x, s[i], G[i], H[i])
  BY DEF Spread
<1> HIDE DEF U, H
<1>3. q \in Seq(U) /\ Covers(q, s, n)
  BY <1>1, FlattenCovers
<1>4. Len(q) \in Nat /\ q = [k \in 1 .. Len(q) |-> q[k]]
  BY <1>3
<1> HIDE DEF q
<1>5. PICK g \in [1 .. Len(q) -> Positions(s, n)] :
        /\ \A k \in 1 .. Len(q) : q[k] = s[g[k][1]][g[k][2]]
        /\ \A p \in Positions(s, n) : \E k \in 1 .. Len(q) : g[k] = p
        /\ \A k, l \in 1 .. Len(q) : g[k] = g[l] => k = l
  BY <1>3 DEF Covers
<1> DEFINE F == [k \in 1 .. Len(q) |-> H[g[k][1]][g[k][2]]]
<1>6. ASSUME NEW p \in Positions(s, n)
      PROVE  /\ p[1] \in 1 .. n /\ p[2] \in 1 .. Len(s[p[1]]) /\ p = <<p[1], p[2]>>
             /\ H[p[1]][p[2]] \in SUBSET G[p[1]] /\ H[p[1]][p[2]] \in SUBSET M
             /\ Lists(s[p[1]][p[2]], H[p[1]][p[2]]) /\ Ascending(x, s[p[1]][p[2]])
  <2>1. p[1] \in 1 .. n /\ p[2] \in 1 .. Len(s[p[1]]) /\ p = <<p[1], p[2]>>
    BY DEF Positions
  <2>2. /\ H[p[1]][p[2]] \in SUBSET G[p[1]]
        /\ Lists(s[p[1]][p[2]], H[p[1]][p[2]]) /\ Ascending(x, s[p[1]][p[2]])
    <3> DEFINE i == p[1]
               m == p[2]
    <3>1. i \in 1 .. n /\ m \in 1 .. Len(s[i])
      BY <2>1
    <3> HIDE DEF i, m
    <3>2. SpreadBy(x, s[i], G[i], H[i])
      BY <1>2, <3>1
    <3>3. H[i][m] \in SUBSET G[i] /\ Lists(s[i][m], H[i][m]) /\ Ascending(x, s[i][m])
      BY <3>1, <3>2 DEF SpreadBy
    <3> QED BY <3>3 DEF i, m
  <2>3. H[p[1]][p[2]] \in SUBSET M
    BY <2>1, <2>2
  <2> QED BY <2>1, <2>2, <2>3
<1>7. ASSUME NEW k \in 1 .. Len(q)
      PROVE  F[k] \in SUBSET M /\ Lists(q[k], F[k]) /\ Ascending(x, q[k])
  <2>1. g[k] \in Positions(s, n) /\ q[k] = s[g[k][1]][g[k][2]] /\ F[k] = H[g[k][1]][g[k][2]]
    BY <1>5
  <2> HIDE DEF F
  <2> QED BY <1>6, <2>1
<1>8. ASSUME NEW k \in 1 .. Len(q), NEW l \in 1 .. Len(q), k # l PROVE F[k] \cap F[l] = {}
  <2> DEFINE p == g[k]
             r == g[l]
  <2>1. p \in Positions(s, n) /\ r \in Positions(s, n) /\ p # r
    BY <1>5, <1>8
  <2> HIDE DEF p, r
  <2>2. CASE p[1] # r[1]
    <3>1. H[p[1]][p[2]] \cap H[r[1]][r[2]] = {}
      BY <1>6, <2>1, <2>2
    <3> QED BY <3>1 DEF p, r
  <2>3. CASE p[1] = r[1]
    <3>1. p[2] # r[2]
      BY <1>6, <2>1, <2>3
    <3>2. H[p[1]][p[2]] \cap H[r[1]][r[2]] = {}
      <4> DEFINE i == p[1]
                 m == p[2]
                 o == r[2]
      <4>1. i \in 1 .. n /\ m \in 1 .. Len(s[i]) /\ o \in 1 .. Len(s[i]) /\ m # o
        BY <1>6, <2>1, <2>3, <3>1
      <4> HIDE DEF i, m, o
      <4>2. SpreadBy(x, s[i], G[i], H[i])
        BY <1>2, <4>1
      <4>3. H[i][m] \cap H[i][o] = {}
        BY <4>1, <4>2 DEF SpreadBy
      <4> QED BY <2>3, <4>3 DEF i, m, o
    <3> QED BY <3>2 DEF p, r
  <2> QED BY <2>2, <2>3
<1>9. ASSUME NEW a \in M PROVE \E k \in 1 .. Len(q) : a \in F[k]
  <2>1. PICK i \in 1 .. n : a \in G[i]
    OBVIOUS
  <2>2. PICK m \in 1 .. Len(s[i]) : a \in H[i][m]
    BY <1>2, <2>1 DEF SpreadBy
  <2>3. <<i, m>> \in Positions(s, n)
    BY <1>1, <2>2 DEF Positions
  <2>4. PICK k \in 1 .. Len(q) : g[k] = <<i, m>>
    BY <1>5, <2>3
  <2> QED BY <2>2, <2>4
<1> HIDE DEF F
<1>10. SpreadBy(x, q, M, F)
  BY <1>7, <1>8, <1>9 DEF SpreadBy
<1> QED
  BY <1>4, <1>10 DEF Spread, q

LEMMA SpreadSeq == ASSUME NEW x, NEW runs, NEW M, Spread(x, runs, M)
                   PROVE  Len(runs) \in Nat /\ runs \in Seq({runs[j] : j \in 1 .. Len(runs)})
<1>1. Len(runs) \in Nat /\ runs = [j \in 1 .. Len(runs) |-> runs[j]]
  BY DEF Spread
<1>2. runs \in [1 .. Len(runs) -> {runs[j] : j \in 1 .. Len(runs)}]
  BY <1>1
<1> QED
  BY <1>1, <1>2

LEMMA FlattenLen ==
  ASSUME NEW U, NEW s, Len(s) \in Nat \ {0}, NEW c \in Nat,
         \A i \in 1 .. Len(s) : s[i] \in Seq(U) /\ Len(s[i]) = c
  PROVE  Len(FlattenSeq(s)) = c * Len(s)
<1> DEFINE n == Len(s)
<1>1. PICK h : Flat(h, s, n) /\ FlattenSeq(s) = h[n]
  BY FlattenIs
<1> HIDE DEF n
<1>2. \A i \in 1 .. n : h[i] = IF i = 1 THEN s[i] ELSE h[i - 1] \o s[i]
  BY <1>1 DEF Flat
<1> DEFINE T == {k \in Nat : k \in 1 .. n => h[k] \in Seq(U) /\ Len(h[k]) = c * k}
<1>3. 0 \in T
  OBVIOUS
<1>4. ASSUME NEW k \in T PROVE k + 1 \in T
  <2> SUFFICES ASSUME k + 1 \in 1 .. n PROVE h[k + 1] \in Seq(U) /\ Len(h[k + 1]) = c * (k + 1)
    OBVIOUS
  <2>0. s[k + 1] \in Seq(U) /\ Len(s[k + 1]) = c
    BY DEF n
  <2>1. CASE k = 0
    <3>1. h[1] = s[1]
      BY <1>2, <2>1
    <3> QED BY <2>0, <2>1, <3>1
  <2>2. CASE k # 0
    <3>1. k \in 1 .. n /\ k + 1 # 1 /\ (k + 1) - 1 = k
      BY <2>2 DEF n
    <3>2. h[k + 1] = h[k] \o s[k + 1]
      BY <1>2, <3>1
    <3>3. h[k] \in Seq(U) /\ Len(h[k]) = c * k
      BY <3>1
    <3>4. h[k] \o s[k + 1] \in Seq(U) /\ Len(h[k] \o s[k + 1]) = c * k + c
      <4>0. h[k] \in Seq(U) /\ s[k + 1] \in Seq(U)
        BY <2>0, <3>3, Zenon
      <4>1. h[k] \o s[k + 1] \in Seq(U) /\ Len(h[k] \o s[k + 1]) = Len(h[k]) + Len(s[k + 1])
        BY ONLY <4>0, ConcatIs, Zenon
      <4>2. Len(h[k]) = c * k /\ Len(s[k + 1]) = c
        BY <2>0, <3>3, Zenon
      <4> QED BY <4>1, <4>2, Zenon
    <3>5. c * k + c = c * (k + 1)
      OBVIOUS
    <3> QED BY <3>2, <3>4, <3>5
  <2> QED BY <2>1, <2>2
<1>5. n \in T
  <2>1. Nat \subseteq T
    <3> HIDE DEF T
    <3> QED BY <1>3, <1>4, SetInduction
  <2> QED BY <2>1 DEF n
<1>6. n \in 1 .. n
  BY DEF n
<1> QED
  BY <1>1, <1>5, <1>6 DEF n

(* Two lists merged *)
LEMMA MergeTwoLists ==
  ASSUME NEW x \in Rels, NEW A \in SUBSET Tuples(x), NEW B \in SUBSET Tuples(x), A \cap B = {},
         NEW a, NEW b, Lists(a, A), Lists(b, B)
  PROVE  Lists(MergeTwo(x, a, b), A \cup B) /\ Ascending(x, MergeTwo(x, a, b))
<1>1. Lists(a \o b, A \cup B)
  BY ConcatLists
<1>2. A \cup B \in SUBSET Tuples(x)
  OBVIOUS
<1> QED
  BY <1>1, <1>2, SortLists DEF MergeTwo

(* With more than one thread there is an even number of them. *)
LEMMA EvenThreads ==
  ASSUME nthreads > 1
  PROVE  \E h \in Nat \ {0} : /\ nthreads = 2 * h /\ nthreads \div 2 = h
                              /\ NRADIXBITS \in Nat \ {0} /\ h * perthread = 2 ^ (NRADIXBITS - 1)
<1>1. PICK b \in 0 .. NRADIXBITS : nthreads = 2 ^ b
  BY SortMergeAssumption
<1>2. NRADIXBITS \in Nat /\ b \in Nat /\ nthreads \in Nat /\ perthread \in Nat
  BY Sizes
<1>3. b # 0
  <2>1. 2 ^ 0 = 1
    OBVIOUS
  <2>2. b = 0 => 2 ^ b = 2 ^ 0
    BY Zenon
  <2>3. b = 0 => nthreads = 1
    BY ONLY <1>1, <2>1, <2>2, Zenon
  <2> QED BY <1>2, <2>3
<1>4. b - 1 \in Nat /\ (b - 1) + 1 = b /\ NRADIXBITS \in Nat \ {0}
      /\ NRADIXBITS - 1 \in Nat /\ (NRADIXBITS - 1) + 1 = NRADIXBITS
  BY <1>2, <1>3
<1> DEFINE h == 2 ^ (b - 1)
           k == 2 ^ (NRADIXBITS - 1)
<1>5. h \in Nat \ {0} /\ nthreads = 2 * h /\ k \in Nat /\ PARTFANOUT = 2 * k
  BY <1>1, <1>4, PowerNext, PowerType DEF PARTFANOUT
<1> HIDE DEF h, k
<1>6. nthreads \div 2 = h
  BY <1>5
<1>7. PARTFANOUT = perthread * nthreads
  BY Sizes
<1>8. h * perthread = k
  <2>1. 2 * k = perthread * (2 * h)
    BY <1>5, <1>7
  <2>2. perthread * (2 * h) = 2 * (h * perthread)
    BY <1>2, <1>5
  <2>3. h * perthread \in Nat
    BY <1>2, <1>5
  <2> DEFINE w == h * perthread
  <2> HIDE DEF w
  <2>4. 2 * k = 2 * w /\ w \in Nat
    BY <2>1, <2>2, <2>3 DEF w
  <2>5. k = w
    BY <1>5, <2>4
  <2> QED BY <2>5 DEF w
<1> QED
  BY <1>4, <1>5, <1>6, <1>8 DEF k

(* The i-th thread on from t *)
On(t, i) == (t + i) % nthreads

LEMMA OnIs ==
  ASSUME NEW t \in Threads
  PROVE  /\ \A i \in Nat : On(t, i) \in Threads /\ (On(t, i) + 1) % nthreads = On(t, i + 1)
         /\ \A i, j \in Threads : On(t, i) = On(t, j) => i = j
         /\ \A u \in Threads : \E i \in Threads : On(t, i) = u
<1>1. nthreads \in Nat \ {0} /\ t \in Nat /\ \A i \in Threads : i \in Nat /\ i \in 0 .. nthreads - 1
  BY Sizes DEF Threads
<1>2. ASSUME NEW a \in Nat PROVE a % nthreads \in Threads /\ ((a % nthreads) + 1) % nthreads = (a + 1) % nthreads
  <2> DEFINE n == nthreads
             q == a \div n
             r == a % n
  <2>1. n \in Nat \ {0}
    BY <1>1
  <2> HIDE DEF n
  <2>2. q \in Nat /\ r \in 0 .. n - 1 /\ a = n * q + r
    BY <2>1
  <2>3. r \in Threads
    BY <2>2 DEF Threads, n
  <2> HIDE DEF q, r
  <2>4. CASE r + 1 < n
    <3>1. (r + 1) % n = r + 1
      BY <2>1, <2>2, <2>4
    <3>2. a + 1 = n * q + (r + 1)
      BY <2>1, <2>2
    <3>3. (n * q + (r + 1)) % n = r + 1
      BY <2>1, <2>2, <2>4
    <3> QED BY <2>3, <3>1, <3>2, <3>3 DEF n, r
  <2>5. CASE r + 1 = n
    <3>1. (r + 1) % n = 0
      BY <2>1, <2>5
    <3>2. a + 1 = n * (q + 1) + 0
      BY <2>1, <2>2, <2>5
    <3>3. (n * (q + 1) + 0) % n = 0
      BY <2>1, <2>2
    <3> QED BY <2>3, <3>1, <3>2, <3>3 DEF n, r
  <2> QED BY <2>1, <2>2, <2>4, <2>5
<1>3. ASSUME NEW i \in Nat PROVE On(t, i) \in Threads /\ (On(t, i) + 1) % nthreads = On(t, i + 1)
  <2>1. t + i \in Nat /\ (t + i) + 1 = t + (i + 1)
    BY <1>1
  <2> QED BY <1>2, <2>1 DEF On
<1>4. ASSUME NEW i \in Threads, NEW j \in Threads, On(t, i) = On(t, j) PROVE i = j
  BY <1>1, <1>4, ModUnique DEF On
<1> DEFINE f == [i \in Threads |-> On(t, i)]
<1>5. f \in [Threads -> Threads] /\ \A i, j \in Threads : f[i] = f[j] => i = j
  BY <1>1, <1>3, <1>4
<1>6. \A u \in Threads : \E i \in Threads : f[i] = u
  <2> HIDE DEF f
  <2> QED BY <1>5, ThreadsOnto
<1> QED
  BY <1>3, <1>4, <1>6

(* The pairs of neighbours are all threads' runs of a partition. *)
LEMMA PairsSpread ==
  ASSUME ConfInv, NEW x \in Rels, NEW t \in Threads, NEW p \in Parts, nthreads > 1,
         \A u \in Threads : Holds(x, u, p)
  PROVE  LET row == [n \in 1 .. nthreads \div 2 |-> PairOf(x, t, p, 2 * (n - 1))]
         IN  Spread(x, row, Column(x, p)) /\ Len(row) = nthreads \div 2
<1>1. PICK h \in Nat \ {0} : nthreads = 2 * h /\ nthreads \div 2 = h
  BY EvenThreads
<1> DEFINE row == [n \in 1 .. h |-> PairOf(x, t, p, 2 * (n - 1))]
           A(i) == PartOf(x, On(t, i), p)
           F == [n \in 1 .. h |-> A(2 * (n - 1)) \cup A(2 * (n - 1) + 1)]
<1>2. ASSUME NEW n \in 1 .. h
      PROVE  /\ 2 * (n - 1) \in Threads /\ 2 * (n - 1) + 1 \in Threads
             /\ 2 * (n - 1) \in Nat /\ 2 * (n - 1) + 1 \in Nat
  BY <1>1 DEF Threads
<1>3. ASSUME NEW i \in Threads
      PROVE  \E n \in 1 .. h : i = 2 * (n - 1) \/ i = 2 * (n - 1) + 1
  <2> DEFINE n == (i \div 2) + 1
  <2>1. i \in Nat /\ i < 2 * h
    BY <1>1 DEF Threads
  <2>2. n \in 1 .. h /\ (i = 2 * (n - 1) \/ i = 2 * (n - 1) + 1)
    BY <1>1, <2>1
  <2> QED BY <2>2
<1>4. algo \in Algos
  BY ConfFacts
<1>5. ASSUME NEW i \in Threads
      PROVE  On(t, i) \in Threads /\ A(i) \in SUBSET Tuples(x) /\ A(i) \in SUBSET Column(x, p)
  <2>1. i \in Nat
    BY DEF Threads
  <2>2. On(t, i) \in Threads
    BY <2>1, OnIs
  <2> QED BY <1>4, <2>2, PartOfIs DEF Column
<1>6. ASSUME NEW i \in Threads, NEW j \in Threads, i # j PROVE A(i) \cap A(j) = {}
  <2>1. On(t, i) \in Threads /\ On(t, j) \in Threads /\ On(t, i) # On(t, j)
    BY <1>5, <1>6, OnIs
  <2> QED BY <1>4, <2>1, PartsApart
<1>7. ASSUME NEW n \in 1 .. h
      PROVE  Lists(row[n], F[n]) /\ Ascending(x, row[n]) /\ F[n] \in SUBSET Column(x, p)
  <2> DEFINE i == 2 * (n - 1)
             a == Read(x, chunks[On(t, i)][x][p])
             b == Read(x, chunks[On(t, i + 1)][x][p])
  <2>1. i \in Threads /\ i + 1 \in Threads /\ i \in Nat /\ i # i + 1
    BY <1>2
  <2>2. row[n] = PairOf(x, t, p, i) /\ F[n] = A(i) \cup A(i + 1)
    OBVIOUS
  <2> HIDE DEF i
  <2>3. PairOf(x, t, p, i) = MergeTwo(x, a, b)
    <3>1. (On(t, i) + 1) % nthreads = On(t, i + 1)
      BY <2>1, OnIs
    <3> QED BY <3>1 DEF PairOf, On
  <2>4. Holds(x, On(t, i), p) /\ Holds(x, On(t, i + 1), p)
    BY <1>5, <2>1
  <2>5. Lists(a, A(i)) /\ Lists(b, A(i + 1))
    BY <2>4 DEF Holds
  <2>6. A(i) \in SUBSET Tuples(x) /\ A(i + 1) \in SUBSET Tuples(x) /\ A(i) \cap A(i + 1) = {}
        /\ A(i) \in SUBSET Column(x, p) /\ A(i + 1) \in SUBSET Column(x, p)
    BY <1>5, <1>6, <2>1
  <2> HIDE DEF A, a, b, row, F
  <2>7. Lists(MergeTwo(x, a, b), A(i) \cup A(i + 1)) /\ Ascending(x, MergeTwo(x, a, b))
    BY <2>5, <2>6, MergeTwoLists
  <2> QED BY <2>2, <2>3, <2>6, <2>7
<1>8. ASSUME NEW m \in 1 .. h, NEW n \in 1 .. h, m # n PROVE F[m] \cap F[n] = {}
  <2> DEFINE i == 2 * (m - 1)
             j == 2 * (n - 1)
  <2>1. /\ i \in Threads /\ i + 1 \in Threads /\ j \in Threads /\ j + 1 \in Threads
        /\ i # j /\ i # j + 1 /\ i + 1 # j /\ i + 1 # j + 1
    BY <1>2, <1>8
  <2>2. F[m] = A(i) \cup A(i + 1) /\ F[n] = A(j) \cup A(j + 1)
    OBVIOUS
  <2> HIDE DEF i, j, A, F
  <2> QED BY <1>6, <2>1, <2>2
<1>9. ASSUME NEW a \in Column(x, p) PROVE \E n \in 1 .. h : a \in F[n]
  <2>1. PICK u \in Threads : a \in PartOf(x, u, p)
    BY DEF Column
  <2>2. PICK i \in Threads : On(t, i) = u
    BY OnIs
  <2>3. PICK n \in 1 .. h : i = 2 * (n - 1) \/ i = 2 * (n - 1) + 1
    BY <1>3
  <2> QED BY <2>1, <2>2, <2>3
<1>10. Len(row) = h /\ row = [n \in 1 .. h |-> row[n]]
  BY <1>1
<1> HIDE DEF row, F
<1>11. SpreadBy(x, row, Column(x, p), F)
  BY <1>7, <1>8, <1>9, <1>10 DEF SpreadBy
<1>12. Spread(x, row, Column(x, p)) /\ Len(row) = h
  BY <1>10, <1>11 DEF Spread
<1> QED
  BY <1>1, <1>12 DEF row

LEMMA FirstRunsSpread ==
  ASSUME ConfInv, NEW x \in Rels, NEW t \in Threads, nthreads > 1,
         \A u \in Threads, p \in MyParts(t) : Holds(x, u, p)
  PROVE  /\ Spread(x, FirstRuns(x, t), Mine(x, t))
         /\ \E c \in 0 .. NRADIXBITS : Len(FirstRuns(x, t)) = 2 ^ c
<1> DEFINE k == perthread
           P(m) == t * perthread + m - 1
           Row(m) == [n \in 1 .. nthreads \div 2 |-> PairOf(x, t, P(m), 2 * (n - 1))]
           s == [m \in 1 .. k |-> Row(m)]
           G == [m \in 1 .. k |-> Column(x, P(m))]
<1>1. k \in Nat \ {0} /\ algo \in Algos
  BY Sizes, ConfFacts
<1>2. PICK h \in Nat \ {0} : /\ nthreads = 2 * h /\ nthreads \div 2 = h
                             /\ NRADIXBITS \in Nat \ {0} /\ h * perthread = 2 ^ (NRADIXBITS - 1)
  BY EvenThreads
<1>3. /\ \A m \in 1 .. k : P(m) \in MyParts(t) /\ P(m) \in Parts
      /\ \A p \in MyParts(t) : \E m \in 1 .. k : p = P(m)
  BY MyPartsIs
<1>4. ASSUME NEW m \in 1 .. k, NEW n \in 1 .. k, m # n PROVE P(m) # P(n)
  <2> DEFINE b == t * perthread
  <2>1. b \in Int
    BY Sizes DEF Threads
  <2> HIDE DEF b
  <2>2. b + m - 1 # b + n - 1
    BY <1>4, <2>1
  <2> QED BY <2>2 DEF b
<1>5. nthreads # 1
  BY <1>2
<1>6. FirstRuns(x, t) = FlattenSeq(s)
  BY <1>5 DEF FirstRuns
<1> HIDE DEF P, k
<1>7. ASSUME NEW m \in 1 .. k PROVE Spread(x, Row(m), Column(x, P(m))) /\ Len(Row(m)) = h
  <2>1. P(m) \in Parts /\ \A u \in Threads : Holds(x, u, P(m))
    BY <1>3
  <2> DEFINE q == P(m)
  <2> HIDE DEF q
  <2>2. q \in Parts /\ \A u \in Threads : Holds(x, u, q)
    BY <2>1 DEF q
  <2>3. LET row == [n \in 1 .. nthreads \div 2 |-> PairOf(x, t, q, 2 * (n - 1))]
        IN  Spread(x, row, Column(x, q)) /\ Len(row) = nthreads \div 2
    BY <2>2, PairsSpread
  <2> QED BY <1>2, <2>3 DEF q
<1> HIDE DEF Row
<1>8. Len(s) = k
  BY <1>1
<1>9. \A m \in 1 .. k : s[m] = Row(m) /\ G[m] = Column(x, P(m))
  OBVIOUS
<1>10. ASSUME NEW m \in 1 .. k, NEW n \in 1 .. k, m # n PROVE G[m] \cap G[n] = {}
  <2>1. P(m) \in Parts /\ P(n) \in Parts /\ P(m) # P(n)
    BY <1>3, <1>4, <1>10
  <2> QED BY <1>1, <2>1, ColumnApart
<1>11. \A a : a \in Mine(x, t) <=> \E m \in 1 .. k : a \in G[m]
  BY <1>3 DEF Mine
<1> HIDE DEF s, G
<1>12. Spread(x, FlattenSeq(s), Mine(x, t))
  <2>1. /\ Len(s) \in Nat \ {0}
        /\ \A m \in 1 .. Len(s) : Spread(x, s[m], G[m])
        /\ \A m, n \in 1 .. Len(s) : m # n => G[m] \cap G[n] = {}
        /\ \A a : a \in Mine(x, t) <=> \E m \in 1 .. Len(s) : a \in G[m]
    BY <1>1, <1>7, <1>8, <1>9, <1>10, <1>11
  <2> QED BY <2>1, FlattenSpread
<1>13. Len(FlattenSeq(s)) = h * k
  <2> DEFINE U == UNION {{s[i][m] : m \in 1 .. Len(s[i])} : i \in 1 .. Len(s)}
  <2>1. ASSUME NEW i \in 1 .. Len(s) PROVE s[i] \in Seq(U) /\ Len(s[i]) = h
    <3>1. Spread(x, s[i], Column(x, P(i))) /\ Len(s[i]) = h
      BY <1>7, <1>8, <1>9
    <3>2. s[i] \in Seq({s[i][j] : j \in 1 .. Len(s[i])})
      BY <3>1, SpreadSeq
    <3>3. {s[i][j] : j \in 1 .. Len(s[i])} \in SUBSET U
      OBVIOUS
    <3> HIDE DEF U
    <3> QED BY <3>1, <3>2, <3>3
  <2> HIDE DEF U
  <2> QED BY <1>1, <1>8, <2>1, FlattenLen
<1>14. NRADIXBITS - 1 \in 0 .. NRADIXBITS /\ Len(FlattenSeq(s)) = 2 ^ (NRADIXBITS - 1)
  BY <1>2, <1>13 DEF k
<1> QED
  BY <1>6, <1>12, <1>14

(* A single thread has all partitions. *)
LEMMA OneThread ==
  ASSUME ConfInv, NEW x \in Rels, nthreads = 1, NEW t \in Threads, \A p \in Parts : Holds(x, t, p)
  PROVE  /\ FirstRuns(x, t) = [n \in 1 .. PARTFANOUT |-> Read(x, chunks[t][x][n - 1])]
         /\ Spread(x, FirstRuns(x, t), Mine(x, t))
         /\ \E c \in 0 .. NRADIXBITS : Len(FirstRuns(x, t)) = 2 ^ c
<1> DEFINE r == FirstRuns(x, t)
           n == PARTFANOUT
           F == [j \in 1 .. n |-> PartOf(x, t, j - 1)]
<1>1. t = 0 /\ Threads = {0} /\ n \in Nat \ {0} /\ perthread = n /\ algo \in Algos
  BY Sizes, ConfFacts DEF Threads
<1>2. MyParts(t) = Parts
  BY <1>1 DEF MyParts, Parts
<1>3. r = [j \in 1 .. n |-> Read(x, chunks[t][x][j - 1])]
  BY DEF FirstRuns
<1>4. \A j \in 1 .. n : j - 1 \in Parts
  BY <1>1 DEF Parts
<1>5. \A p \in Parts : \E j \in 1 .. n : j - 1 = p
  <2> SUFFICES ASSUME NEW p \in Parts PROVE \E j \in 1 .. n : j - 1 = p
    OBVIOUS
  <2>1. p + 1 \in 1 .. n /\ (p + 1) - 1 = p
    BY <1>1 DEF Parts
  <2> QED BY <2>1
<1>6. \A p \in Parts : Column(x, p) = PartOf(x, t, p)
  BY <1>1 DEF Column
<1>7. \A i : i \in Mine(x, t) <=> \E p \in Parts : i \in PartOf(x, t, p)
  BY <1>2, <1>6 DEF Mine
<1> HIDE DEF r
<1>8. Len(r) = n /\ r = [j \in 1 .. n |-> r[j]]
  BY <1>1, <1>3
<1>9. ASSUME NEW j \in 1 .. n PROVE F[j] \in SUBSET Mine(x, t) /\ Lists(r[j], F[j]) /\ Ascending(x, r[j])
  <2>1. Holds(x, t, j - 1) /\ j - 1 \in Parts
    BY <1>4
  <2> QED BY <1>3, <1>7, <2>1 DEF Holds
<1>10. ASSUME NEW j \in 1 .. n, NEW k \in 1 .. n, j # k PROVE F[j] \cap F[k] = {}
  <2>1. j - 1 \in Parts /\ k - 1 \in Parts /\ j - 1 # k - 1
    BY <1>4, <1>10
  <2> DEFINE p == j - 1
             q == k - 1
  <2> HIDE DEF p, q
  <2>2. p \in Parts /\ q \in Parts /\ p # q
    BY <2>1 DEF p, q
  <2>3. PartOf(x, t, p) \cap PartOf(x, t, q) = {}
    BY <1>1, <2>2, PartOfIs
  <2> QED BY <2>3 DEF p, q
<1>11. ASSUME NEW i \in Mine(x, t) PROVE \E j \in 1 .. n : i \in F[j]
  BY <1>5, <1>7
<1> HIDE DEF F
<1>12. SpreadBy(x, r, Mine(x, t), F)
  BY <1>8, <1>9, <1>10, <1>11 DEF SpreadBy
<1>13. Spread(x, r, Mine(x, t))
  BY <1>1, <1>8, <1>12 DEF Spread
<1>14. NRADIXBITS \in 0 .. NRADIXBITS /\ Len(r) = 2 ^ NRADIXBITS
  BY <1>8, Sizes DEF PARTFANOUT
<1> QED
  BY <1>3, <1>13, <1>14 DEF r

------------------------------------------------------------------------------
(* The passes of two-way merges *)

(* The runs after one pass *)
Pass(x, r) == IF Len(r) = 1 THEN r
              ELSE [j \in 1 .. Len(r) \div 2 |-> MergeTwo(x, r[2 * j - 1], r[2 * j])]

(* The function MultiPass is defined by *)
Passes(h, x, runs, n) == h = [k \in 0 .. n |-> IF k = 0 THEN runs ELSE Pass(x, h[k - 1])]

LEMMA PassesExist == ASSUME NEW x, NEW runs, NEW n \in Nat PROVE \E h : Passes(h, x, runs, n)
<1> DEFINE T == {k \in Nat : \E h : Passes(h, x, runs, k)}
<1>1. 0 \in T
  <2> DEFINE h == [i \in 0 .. 0 |-> runs]
  <2>1. \A i \in 0 .. 0 : i = 0
    OBVIOUS
  <2>2. h = [i \in 0 .. 0 |-> IF i = 0 THEN runs ELSE Pass(x, h[i - 1])]
    BY <2>1
  <2>3. Passes(h, x, runs, 0)
    BY <2>2 DEF Passes
  <2> QED BY <2>3
<1>2. ASSUME NEW k \in T PROVE k + 1 \in T
  <2>1. PICK h : Passes(h, x, runs, k)
    OBVIOUS
  <2> DEFINE j == [i \in 0 .. k + 1 |-> IF i = k + 1 THEN Pass(x, h[k]) ELSE h[i]]
  <2>2. \A i \in 0 .. k : h[i] = IF i = 0 THEN runs ELSE Pass(x, h[i - 1])
    BY <2>1 DEF Passes
  <2>3. ASSUME NEW i \in 0 .. k + 1 PROVE j[i] = IF i = 0 THEN runs ELSE Pass(x, j[i - 1])
    <3>1. CASE i = k + 1
      <4>1. j[i] = Pass(x, h[k])
        BY <3>1
      <4>2. i - 1 = k /\ i # 0 /\ j[k] = h[k]
        BY <3>1
      <4> HIDE DEF j
      <4> QED BY <4>1, <4>2
    <3>2. CASE i # k + 1
      <4>1. i \in 0 .. k /\ j[i] = h[i]
        BY <3>2
      <4>2. i # 0 => i - 1 \in 0 .. k /\ j[i - 1] = h[i - 1]
        BY <4>1
      <4> HIDE DEF j
      <4> QED BY <2>2, <4>1, <4>2
    <3> QED BY <3>1, <3>2
  <2>4. DOMAIN j = 0 .. k + 1 /\ j = [i \in 0 .. k + 1 |-> j[i]]
    OBVIOUS
  <2> HIDE DEF j
  <2>5. Passes(j, x, runs, k + 1)
    BY <2>3, <2>4 DEF Passes
  <2> QED BY <2>5
<1>3. Nat \subseteq T
  <2> HIDE DEF T
  <2> QED BY <1>1, <1>2, SetInduction
<1> QED
  BY <1>3

LEMMA MultiPassIs ==
  ASSUME NEW x, NEW runs
  PROVE  \E h : Passes(h, x, runs, NRADIXBITS) /\ MultiPass(x, runs) = h[NRADIXBITS][1]
<1> DEFINE h == CHOOSE h : Passes(h, x, runs, NRADIXBITS)
<1>1. MultiPass(x, runs) = h[NRADIXBITS][1]
  BY DEF MultiPass, Passes, Pass
<1>2. Passes(h, x, runs, NRADIXBITS)
  BY PassesExist, Sizes
<1> QED
  BY <1>1, <1>2

LEMMA PassSpread ==
  ASSUME NEW x \in Rels, NEW M \in SUBSET Tuples(x), NEW r, Spread(x, r, M), NEW l \in Nat, Len(r) = 2 * l
  PROVE  Spread(x, Pass(x, r), M) /\ Len(Pass(x, r)) = l
<1> DEFINE q == [j \in 1 .. l |-> MergeTwo(x, r[2 * j - 1], r[2 * j])]
<1>1. PICK F : SpreadBy(x, r, M, F)
  BY DEF Spread
<1>2. Len(r) # 1 /\ Len(r) \div 2 = l
  OBVIOUS
<1>3. Pass(x, r) = q
  BY <1>2 DEF Pass
<1> DEFINE G == [j \in 1 .. l |-> F[2 * j - 1] \cup F[2 * j]]
<1>4. ASSUME NEW j \in 1 .. l
      PROVE  2 * j - 1 \in 1 .. Len(r) /\ 2 * j \in 1 .. Len(r) /\ 2 * j - 1 # 2 * j
  OBVIOUS
<1>5. ASSUME NEW k \in 1 .. Len(r) PROVE \E j \in 1 .. l : k = 2 * j - 1 \/ k = 2 * j
  <2> DEFINE j == (k + 1) \div 2
  <2>1. j \in 1 .. l /\ (k = 2 * j - 1 \/ k = 2 * j)
    OBVIOUS
  <2> QED BY <2>1
<1>6. ASSUME NEW j \in 1 .. l
      PROVE  Lists(q[j], G[j]) /\ Ascending(x, q[j]) /\ G[j] \in SUBSET M
  <2> DEFINE a == 2 * j - 1
             b == 2 * j
  <2>1. a \in 1 .. Len(r) /\ b \in 1 .. Len(r) /\ a # b
    BY <1>4
  <2>2. q[j] = MergeTwo(x, r[a], r[b]) /\ G[j] = F[a] \cup F[b]
    OBVIOUS
  <2> HIDE DEF a, b, q, G
  <2>3. /\ F[a] \in SUBSET M /\ F[b] \in SUBSET M /\ F[a] \cap F[b] = {}
        /\ Lists(r[a], F[a]) /\ Lists(r[b], F[b])
    BY <1>1, <2>1 DEF SpreadBy
  <2>4. F[a] \in SUBSET Tuples(x) /\ F[b] \in SUBSET Tuples(x)
    BY <2>3
  <2> DEFINE A == F[a]
             B == F[b]
  <2> HIDE DEF A, B
  <2>5. Lists(MergeTwo(x, r[a], r[b]), A \cup B) /\ Ascending(x, MergeTwo(x, r[a], r[b]))
    BY <2>3, <2>4, MergeTwoLists DEF A, B
  <2> QED BY <2>2, <2>3, <2>5 DEF A, B
<1>7. ASSUME NEW j \in 1 .. l, NEW k \in 1 .. l, j # k PROVE G[j] \cap G[k] = {}
  <2> DEFINE a == 2 * j - 1
             b == 2 * j
             c == 2 * k - 1
             d == 2 * k
  <2>1. /\ a \in 1 .. Len(r) /\ b \in 1 .. Len(r) /\ c \in 1 .. Len(r) /\ d \in 1 .. Len(r)
        /\ a # c /\ a # d /\ b # c /\ b # d
    BY <1>4, <1>7
  <2>2. G[j] = F[a] \cup F[b] /\ G[k] = F[c] \cup F[d]
    OBVIOUS
  <2> HIDE DEF a, b, c, d, G
  <2> QED BY <1>1, <2>1, <2>2 DEF SpreadBy
<1>8. ASSUME NEW i \in M PROVE \E j \in 1 .. l : i \in G[j]
  <2>1. PICK k \in 1 .. Len(r) : i \in F[k]
    BY <1>1 DEF SpreadBy
  <2>2. PICK j \in 1 .. l : k = 2 * j - 1 \/ k = 2 * j
    BY <1>5
  <2> QED BY <2>1, <2>2
<1>9. Len(q) = l /\ q = [j \in 1 .. l |-> q[j]]
  OBVIOUS
<1> HIDE DEF q, G
<1>10. SpreadBy(x, q, M, G)
  BY <1>6, <1>7, <1>8, <1>9 DEF SpreadBy
<1>11. Spread(x, q, M)
  BY <1>9, <1>10 DEF Spread
<1> QED
  BY <1>3, <1>9, <1>11

(* The passes leave one run. *)
LEMMA MultiPassLists ==
  ASSUME NEW x \in Rels, NEW M \in SUBSET Tuples(x), NEW runs, Spread(x, runs, M),
         NEW c \in 0 .. NRADIXBITS, Len(runs) = 2 ^ c
  PROVE  Lists(MultiPass(x, runs), M) /\ Ascending(x, MultiPass(x, runs))
<1> DEFINE n == NRADIXBITS
<1>1. PICK h : Passes(h, x, runs, n) /\ MultiPass(x, runs) = h[n][1]
  BY MultiPassIs
<1>2. \A k \in 0 .. n : h[k] = IF k = 0 THEN runs ELSE Pass(x, h[k - 1])
  BY <1>1 DEF Passes
<1>3. n \in Nat
  BY Sizes
<1> HIDE DEF n
<1> DEFINE T == {k \in Nat : k <= n => Spread(x, h[k], M) /\ \E d \in 0 .. n - k : Len(h[k]) = 2 ^ d}
<1>4. 0 \in T
  <2>1. h[0] = runs /\ c \in 0 .. n - 0
    BY <1>2, <1>3 DEF n
  <2> QED BY <2>1
<1>5. ASSUME NEW k \in T PROVE k + 1 \in T
  <2> SUFFICES ASSUME k + 1 <= n
               PROVE  Spread(x, h[k + 1], M) /\ \E d \in 0 .. n - (k + 1) : Len(h[k + 1]) = 2 ^ d
    OBVIOUS
  <2>1. k <= n /\ k + 1 \in 0 .. n /\ (k + 1) - 1 = k /\ k + 1 # 0
    BY <1>3
  <2>2. h[k + 1] = Pass(x, h[k])
    BY <1>2, <2>1
  <2>3. Spread(x, h[k], M)
    BY <2>1
  <2>4. PICK d \in 0 .. n - k : Len(h[k]) = 2 ^ d
    BY <2>1
  <2>5. CASE d = 0
    <3>1. 2 ^ 0 = 1
      OBVIOUS
    <3>2. Len(h[k]) = 2 ^ 0
      BY ONLY <2>4, <2>5, Zenon
    <3>3. Len(h[k]) = 1
      BY ONLY <3>1, <3>2, Zenon
    <3>4. h[k + 1] = h[k]
      BY <2>2, <3>3 DEF Pass
    <3>5. 0 \in 0 .. n - (k + 1)
      BY <1>3
    <3> QED BY <2>3, <3>2, <3>4, <3>5
  <2>6. CASE d # 0
    <3>1. d - 1 \in Nat /\ (d - 1) + 1 = d /\ d - 1 \in 0 .. n - (k + 1)
      BY <1>3, <2>6
    <3> DEFINE l == 2 ^ (d - 1)
    <3>2. l \in Nat /\ 2 ^ d = 2 * l
      BY <3>1, PowerNext, PowerType
    <3> HIDE DEF l
    <3>3. Spread(x, Pass(x, h[k]), M) /\ Len(Pass(x, h[k])) = l
      BY <2>3, <2>4, <3>2, PassSpread
    <3> QED BY <2>2, <3>1, <3>3 DEF l
  <2> QED BY <2>5, <2>6
<1>6. n \in T
  <2>1. Nat \subseteq T
    <3> HIDE DEF T
    <3> QED BY <1>4, <1>5, SetInduction
  <2> QED BY <1>3, <2>1
<1>7. Spread(x, h[n], M) /\ Len(h[n]) = 1
  <2>1. PICK d \in 0 .. n - n : Len(h[n]) = 2 ^ d
    BY <1>3, <1>6
  <2>2. d = 0
    BY <1>3
  <2>3. 2 ^ 0 = 1
    OBVIOUS
  <2>4. Len(h[n]) = 1
    BY ONLY <2>1, <2>2, <2>3, Zenon
  <2> QED BY <1>3, <1>6, <2>4
<1> DEFINE r == h[n]
<1> HIDE DEF r
<1>8. Spread(x, r, M) /\ Len(r) = 1
  BY <1>7 DEF r
<1>9. PICK F : SpreadBy(x, r, M, F)
  BY <1>8 DEF Spread
<1>10. 1 \in 1 .. Len(r) /\ \A j \in 1 .. Len(r) : j = 1
  BY <1>8
<1>11. F[1] \in SUBSET M /\ Lists(r[1], F[1]) /\ Ascending(x, r[1]) /\ \A i \in M : i \in F[1]
  BY <1>9, <1>10 DEF SpreadBy
<1>12. F[1] = M
  BY <1>11
<1> QED
  BY <1>1, <1>11, <1>12 DEF r

------------------------------------------------------------------------------
(* The join of two sorted runs *)

LEMMA RunEndIs ==
  ASSUME NEW x \in Rels, NEW q, Len(q) \in Nat, q \in [1 .. Len(q) -> Tuples(x)], Ascending(x, q),
         NEW n \in 1 .. Len(q)
  PROVE  /\ RunEnd(x, q, n) \in n + 1 .. Len(q) + 1
         /\ \A k \in n .. RunEnd(x, q, n) - 1 : Key(x, q[k]) = Key(x, q[n])
         /\ \A k \in RunEnd(x, q, n) .. Len(q) : Key(x, q[k]) > Key(x, q[n])
<1> DEFINE l == Len(q)
           Good(m) == /\ m = l + 1 \/ Key(x, q[m]) # Key(x, q[n])
                      /\ \A k \in n .. m - 1 : Key(x, q[k]) = Key(x, q[n])
           T == {m \in Nat : n < m /\ m <= l + 1 /\ (m = l + 1 \/ Key(x, q[m]) # Key(x, q[n]))}
           e == RunEnd(x, q, n)
<1>1. l \in Nat /\ n \in Nat /\ n <= l /\ 1 <= n
  OBVIOUS
<1>2. l + 1 \in T
  BY <1>1
<1>3. PICK m \in T : \A k \in T : m <= k
  <2> HIDE DEF T
  <2>1. T \in SUBSET Nat /\ T # {}
    BY <1>2 DEF T
  <2> QED BY <2>1, LeastNat
<1>4. ASSUME NEW k \in n .. m - 1 PROVE Key(x, q[k]) = Key(x, q[n])
  <2>1. CASE k = n
    BY <2>1
  <2>2. CASE k # n
    <3>1. k \in Nat /\ n < k /\ k < m /\ k < l + 1
      BY <1>1, <2>2
    <3>2. k \notin T
      BY <1>3, <3>1
    <3> QED BY <3>1, <3>2
  <2> QED BY <2>1, <2>2
<1>5. m \in n + 1 .. l + 1 /\ Good(m)
  BY <1>1, <1>4
<1>6. e = CHOOSE k \in n + 1 .. l + 1 : Good(k)
  BY DEF RunEnd
<1>7. e \in n + 1 .. l + 1 /\ Good(e)
  <2> HIDE DEF Good, e
  <2> QED BY <1>5, <1>6
<1> HIDE DEF e
<1>8. ASSUME NEW k \in e .. l PROVE Key(x, q[k]) > Key(x, q[n])
  <2>1. e \in 1 .. l /\ k \in 1 .. l /\ n < e /\ e <= k /\ e # l + 1
    BY <1>1, <1>7
  <2>2. Key(x, q[n]) \in Nat /\ Key(x, q[e]) \in Nat /\ Key(x, q[k]) \in Nat
    BY <2>1, NumType
  <2>3. Key(x, q[e]) # Key(x, q[n])
    BY <1>7, <2>1
  <2>4. Key(x, q[n]) <= Key(x, q[e])
    BY <2>1 DEF Ascending
  <2>5. Key(x, q[e]) <= Key(x, q[k])
    <3>1. CASE e = k
      BY <2>2, <3>1
    <3>2. CASE e # k
      <4>1. e < k
        BY <1>1, <2>1, <3>2
      <4> QED BY <2>1, <4>1 DEF Ascending
    <3> QED BY <3>1, <3>2
  <2> QED BY <2>2, <2>3, <2>4, <2>5
<1> QED
  BY <1>7, <1>8 DEF e

(* A sorted run of tuples *)
IsRun(x, q) == Len(q) \in Nat /\ q \in [1 .. Len(q) -> Tuples(x)] /\ Ascending(x, q)

(* The matches from the i-th of r and the j-th of s on *)
Rest(r, s, i, j) == {p \in (i .. Len(r)) \X (j .. Len(s)) : KeyR[r[p[1]]] = KeyS[s[p[2]]]}

LEMMA RestIs ==
  ASSUME NEW r, NEW s, NEW i, NEW j, NEW m, NEW n
  PROVE  <<m, n>> \in Rest(r, s, i, j) <=>
           m \in i .. Len(r) /\ n \in j .. Len(s) /\ KeyR[r[m]] = KeyS[s[n]]
  BY DEF Rest

LEMMA RestPairs ==
  ASSUME NEW r, NEW s, NEW i, NEW j, NEW p \in Rest(r, s, i, j)
  PROVE  p = <<p[1], p[2]>>
  BY DEF Rest

LEMMA RunKeys ==
  ASSUME NEW r, NEW s, IsRun("R", r), IsRun("S", s)
  PROVE  /\ \A m \in 1 .. Len(r) : KeyR[r[m]] \in Nat /\ KeyR[r[m]] = Key("R", r[m])
         /\ \A n \in 1 .. Len(s) : KeyS[s[n]] \in Nat /\ KeyS[s[n]] = Key("S", s[n])
         /\ \A m, n \in 1 .. Len(r) : m <= n => KeyR[r[m]] <= KeyR[r[n]]
         /\ \A m, n \in 1 .. Len(s) : m <= n => KeyS[s[m]] <= KeyS[s[n]]
<1>1. \A m \in 1 .. Len(r) : KeyR[r[m]] \in Nat /\ KeyR[r[m]] = Key("R", r[m])
  BY NumType DEF IsRun, Key, Rels
<1>2. \A n \in 1 .. Len(s) : KeyS[s[n]] \in Nat /\ KeyS[s[n]] = Key("S", s[n])
  BY NumType DEF IsRun, Key, Rels
<1>3. ASSUME NEW m \in 1 .. Len(r), NEW n \in 1 .. Len(r), m <= n PROVE KeyR[r[m]] <= KeyR[r[n]]
  <2>1. CASE m = n
    BY <1>1, <2>1
  <2>2. CASE m # n
    <3>1. m < n
      BY <1>3, <2>2 DEF IsRun
    <3> QED BY <1>1, <3>1 DEF IsRun, Ascending
  <2> QED BY <2>1, <2>2
<1>4. ASSUME NEW m \in 1 .. Len(s), NEW n \in 1 .. Len(s), m <= n PROVE KeyS[s[m]] <= KeyS[s[n]]
  <2>1. CASE m = n
    BY <1>2, <2>1
  <2>2. CASE m # n
    <3>1. m < n
      BY <1>4, <2>2 DEF IsRun
    <3> QED BY <1>2, <3>1 DEF IsRun, Ascending
  <2> QED BY <2>1, <2>2
<1> QED
  BY <1>1, <1>2, <1>3, <1>4

LEMMA SameRest ==
  ASSUME NEW r, NEW s, NEW i, NEW j, NEW k, NEW l,
         \A m, n : <<m, n>> \in Rest(r, s, i, j) <=> <<m, n>> \in Rest(r, s, k, l)
  PROVE  Rest(r, s, i, j) = Rest(r, s, k, l)
<1>1. ASSUME NEW p \in Rest(r, s, i, j) PROVE p \in Rest(r, s, k, l)
  BY RestPairs
<1>2. ASSUME NEW p \in Rest(r, s, k, l) PROVE p \in Rest(r, s, i, j)
  BY RestPairs
<1> QED
  BY <1>1, <1>2

LEMMA RestStep ==
  ASSUME NEW r, NEW s, IsRun("R", r), IsRun("S", s), NEW i \in 1 .. Len(r), NEW j \in 1 .. Len(s)
  PROVE  /\ KeyR[r[i]] < KeyS[s[j]] => Rest(r, s, i, j) = Rest(r, s, i + 1, j)
         /\ KeyR[r[i]] > KeyS[s[j]] => Rest(r, s, i, j) = Rest(r, s, i, j + 1)
<1>1. Len(r) \in Nat /\ Len(s) \in Nat
  BY DEF IsRun
<1>2. ASSUME KeyR[r[i]] < KeyS[s[j]] PROVE Rest(r, s, i, j) = Rest(r, s, i + 1, j)
  <2>1. ASSUME NEW m, NEW n PROVE <<m, n>> \in Rest(r, s, i, j) <=> <<m, n>> \in Rest(r, s, i + 1, j)
    <3>1. ASSUME m \in i .. Len(r), n \in j .. Len(s), KeyR[r[m]] = KeyS[s[n]] PROVE m \in i + 1 .. Len(r)
      <4>1. KeyS[s[j]] <= KeyS[s[n]] /\ n \in 1 .. Len(s) /\ m \in 1 .. Len(r)
        BY <1>1, <3>1, RunKeys
      <4>2. KeyR[r[i]] \in Nat /\ KeyS[s[j]] \in Nat /\ KeyS[s[n]] \in Nat
        BY <4>1, RunKeys
      <4>3. m # i
        BY <1>2, <3>1, <4>1, <4>2
      <4> QED BY <1>1, <3>1, <4>3
    <3>2. m \in i + 1 .. Len(r) => m \in i .. Len(r)
      BY <1>1
    <3> QED BY <3>1, <3>2, RestIs
  <2> QED BY <2>1, SameRest
<1>3. ASSUME KeyR[r[i]] > KeyS[s[j]] PROVE Rest(r, s, i, j) = Rest(r, s, i, j + 1)
  <2>1. ASSUME NEW m, NEW n PROVE <<m, n>> \in Rest(r, s, i, j) <=> <<m, n>> \in Rest(r, s, i, j + 1)
    <3>1. ASSUME m \in i .. Len(r), n \in j .. Len(s), KeyR[r[m]] = KeyS[s[n]] PROVE n \in j + 1 .. Len(s)
      <4>1. KeyR[r[i]] <= KeyR[r[m]] /\ n \in 1 .. Len(s) /\ m \in 1 .. Len(r)
        BY <1>1, <3>1, RunKeys
      <4>2. KeyR[r[i]] \in Nat /\ KeyS[s[j]] \in Nat /\ KeyR[r[m]] \in Nat
        BY <4>1, RunKeys
      <4>3. n # j
        BY <1>3, <3>1, <4>1, <4>2
      <4> QED BY <1>1, <3>1, <4>3
    <3>2. n \in j + 1 .. Len(s) => n \in j .. Len(s)
      BY <1>1
    <3> QED BY <3>1, <3>2, RestIs
  <2> QED BY <2>1, SameRest
<1> QED
  BY <1>2, <1>3

(* Equal keys: the two groups match in full, and nothing of one matches     *)
(* what comes after the other.                                              *)
LEMMA RestGroup ==
  ASSUME NEW r, NEW s, IsRun("R", r), IsRun("S", s), NEW i \in 1 .. Len(r), NEW j \in 1 .. Len(s),
         KeyR[r[i]] = KeyS[s[j]]
  PROVE  LET ii == RunEnd("R", r, i)
             jj == RunEnd("S", s, j)
         IN  /\ ii \in i + 1 .. Len(r) + 1 /\ jj \in j + 1 .. Len(s) + 1
             /\ Rest(r, s, i, j) = ((i .. ii - 1) \X (j .. jj - 1)) \cup Rest(r, s, ii, jj)
<1> DEFINE ii == RunEnd("R", r, i)
           jj == RunEnd("S", s, j)
           k == KeyR[r[i]]
<1>1. Len(r) \in Nat /\ Len(s) \in Nat /\ k \in Nat /\ "R" \in Rels /\ "S" \in Rels
  BY RunKeys DEF IsRun, Rels
<1>2. /\ ii \in i + 1 .. Len(r) + 1
      /\ \A m \in i .. ii - 1 : Key("R", r[m]) = Key("R", r[i])
      /\ \A m \in ii .. Len(r) : Key("R", r[m]) > Key("R", r[i])
  BY <1>1, RunEndIs DEF IsRun
<1>3. /\ jj \in j + 1 .. Len(s) + 1
      /\ \A n \in j .. jj - 1 : Key("S", s[n]) = Key("S", s[j])
      /\ \A n \in jj .. Len(s) : Key("S", s[n]) > Key("S", s[j])
  BY <1>1, RunEndIs DEF IsRun
<1> HIDE DEF ii, jj
<1>4. ASSUME NEW m \in i .. Len(r)
      PROVE  /\ m \in i .. ii - 1 \/ m \in ii .. Len(r)
             /\ m \in i .. ii - 1 => KeyR[r[m]] = k
             /\ m \in ii .. Len(r) => KeyR[r[m]] > k
  <2>1. m \in 1 .. Len(r)
    BY <1>1
  <2>2. KeyR[r[m]] = Key("R", r[m]) /\ KeyR[r[i]] = Key("R", r[i])
    BY <2>1, RunKeys
  <2> QED BY <1>1, <1>2, <2>1, <2>2
<1>5. ASSUME NEW n \in j .. Len(s)
      PROVE  /\ n \in j .. jj - 1 \/ n \in jj .. Len(s)
             /\ n \in j .. jj - 1 => KeyS[s[n]] = k
             /\ n \in jj .. Len(s) => KeyS[s[n]] > k
  <2>1. n \in 1 .. Len(s)
    BY <1>1
  <2>2. KeyS[s[n]] = Key("S", s[n]) /\ KeyS[s[j]] = Key("S", s[j])
    BY <2>1, RunKeys
  <2> QED BY <1>1, <1>3, <2>1, <2>2
<1>6. /\ \A m \in i .. ii - 1 : m \in i .. Len(r)
      /\ \A m \in ii .. Len(r) : m \in i .. Len(r)
      /\ \A n \in j .. jj - 1 : n \in j .. Len(s)
      /\ \A n \in jj .. Len(s) : n \in j .. Len(s)
  BY <1>1, <1>2, <1>3
<1> HIDE DEF k
<1>7. ASSUME NEW m, NEW n
      PROVE  <<m, n>> \in Rest(r, s, i, j) <=>
               (m \in i .. ii - 1 /\ n \in j .. jj - 1) \/ <<m, n>> \in Rest(r, s, ii, jj)
  <2>1. ASSUME m \in i .. Len(r), n \in j .. Len(s), KeyR[r[m]] = KeyS[s[n]]
        PROVE  (m \in i .. ii - 1 /\ n \in j .. jj - 1) \/ (m \in ii .. Len(r) /\ n \in jj .. Len(s))
    <3>1. ~(m \in i .. ii - 1 /\ n \in jj .. Len(s))
      BY <1>1, <1>4, <1>5, <2>1
    <3>2. ~(m \in ii .. Len(r) /\ n \in j .. jj - 1)
      BY <1>1, <1>4, <1>5, <2>1
    <3> QED BY <1>4, <1>5, <2>1, <3>1, <3>2
  <2>2. ASSUME m \in i .. ii - 1, n \in j .. jj - 1 PROVE KeyR[r[m]] = KeyS[s[n]]
    BY <1>4, <1>5, <1>6, <2>2
  <2> QED BY <1>6, <2>1, <2>2, RestIs
<1>8. ASSUME NEW p \in Rest(r, s, i, j) PROVE p \in ((i .. ii - 1) \X (j .. jj - 1)) \cup Rest(r, s, ii, jj)
  <2>1. p = <<p[1], p[2]>>
    BY RestPairs
  <2> QED BY <1>7, <2>1
<1>9. ASSUME NEW p \in ((i .. ii - 1) \X (j .. jj - 1)) \cup Rest(r, s, ii, jj) PROVE p \in Rest(r, s, i, j)
  <2>1. p = <<p[1], p[2]>>
    BY RestPairs
  <2> QED BY <1>7, <2>1
<1>10. Rest(r, s, i, j) = ((i .. ii - 1) \X (j .. jj - 1)) \cup Rest(r, s, ii, jj)
  BY <1>8, <1>9
<1> QED
  BY <1>2, <1>3, <1>10 DEF ii, jj

(* The function merge_join is defined by *)
Joins(h, r, s) ==
  h = [p \in (1 .. Len(r) + 1) \X (1 .. Len(s) + 1) |->
        LET i == p[1] j == p[2] IN
          IF i > Len(r) \/ j > Len(s) THEN {}
          ELSE IF KeyR[r[i]] < KeyS[s[j]] THEN h[<<i + 1, j>>]
          ELSE IF KeyR[r[i]] > KeyS[s[j]] THEN h[<<i, j + 1>>]
          ELSE LET ii == RunEnd("R", r, i) jj == RunEnd("S", s, j)
               IN  ((i .. ii - 1) \X (j .. jj - 1)) \cup h[<<ii, jj>>]]

LEMMA MergeJoinDef ==
  ASSUME NEW r, NEW s
  PROVE  merge_join(r, s) = (CHOOSE h : Joins(h, r, s))[<<1, 1>>]
  BY DEF merge_join, Joins

(* One step of it, at i and j *)
JoinsAt(h, r, s, i, j) ==
  h[<<i, j>>] = IF i > Len(r) \/ j > Len(s) THEN {}
                ELSE IF KeyR[r[i]] < KeyS[s[j]] THEN h[<<i + 1, j>>]
                ELSE IF KeyR[r[i]] > KeyS[s[j]] THEN h[<<i, j + 1>>]
                ELSE LET ii == RunEnd("R", r, i) jj == RunEnd("S", s, j)
                     IN  ((i .. ii - 1) \X (j .. jj - 1)) \cup h[<<ii, jj>>]

LEMMA JoinsEach ==
  ASSUME NEW h, NEW r, NEW s, Joins(h, r, s), NEW i \in 1 .. Len(r) + 1, NEW j \in 1 .. Len(s) + 1
  PROVE  JoinsAt(h, r, s, i, j)
<1> DEFINE F(p) == LET k == p[1] l == p[2] IN
                     IF k > Len(r) \/ l > Len(s) THEN {}
                     ELSE IF KeyR[r[k]] < KeyS[s[l]] THEN h[<<k + 1, l>>]
                     ELSE IF KeyR[r[k]] > KeyS[s[l]] THEN h[<<k, l + 1>>]
                     ELSE LET ii == RunEnd("R", r, k) jj == RunEnd("S", s, l)
                          IN  ((k .. ii - 1) \X (l .. jj - 1)) \cup h[<<ii, jj>>]
           D == (1 .. Len(r) + 1) \X (1 .. Len(s) + 1)
<1>1. h = [p \in D |-> F(p)]
  BY DEF Joins
<1>2. <<i, j>> \in D
  OBVIOUS
<1>3. h[<<i, j>>] = F(<<i, j>>)
  <2> HIDE DEF F, D
  <2> QED BY <1>1, <1>2
<1> QED
  BY <1>3 DEF JoinsAt

LEMMA RestEmpty ==
  ASSUME NEW r, NEW s, Len(r) \in Nat, Len(s) \in Nat, NEW i \in 1 .. Len(r) + 1, NEW j \in 1 .. Len(s) + 1,
         i > Len(r) \/ j > Len(s)
  PROVE  Rest(r, s, i, j) = {}
<1>1. i .. Len(r) = {} \/ j .. Len(s) = {}
  OBVIOUS
<1> QED
  BY <1>1 DEF Rest

LEMMA JoinsExist ==
  ASSUME NEW r, NEW s, IsRun("R", r), IsRun("S", s)
  PROVE  \E h : Joins(h, r, s)
<1> DEFINE D == (1 .. Len(r) + 1) \X (1 .. Len(s) + 1)
           h == [p \in D |-> Rest(r, s, p[1], p[2])]
           F(p) == LET k == p[1] l == p[2] IN
                     IF k > Len(r) \/ l > Len(s) THEN {}
                     ELSE IF KeyR[r[k]] < KeyS[s[l]] THEN h[<<k + 1, l>>]
                     ELSE IF KeyR[r[k]] > KeyS[s[l]] THEN h[<<k, l + 1>>]
                     ELSE LET ii == RunEnd("R", r, k) jj == RunEnd("S", s, l)
                          IN  ((k .. ii - 1) \X (l .. jj - 1)) \cup h[<<ii, jj>>]
<1>0. Len(r) \in Nat /\ Len(s) \in Nat
  BY DEF IsRun
<1>1. \A i \in 1 .. Len(r) + 1, j \in 1 .. Len(s) + 1 : h[<<i, j>>] = Rest(r, s, i, j)
  OBVIOUS
<1>2. h = [p \in D |-> h[p]]
  OBVIOUS
<1> HIDE DEF h
<1>3. ASSUME NEW p \in D PROVE h[p] = F(p)
  <2> DEFINE i == p[1]
             j == p[2]
  <2>1. i \in 1 .. Len(r) + 1 /\ j \in 1 .. Len(s) + 1 /\ p = <<i, j>>
    OBVIOUS
  <2> HIDE DEF i, j
  <2>2. JoinsAt(h, r, s, i, j)
    <3>1. CASE i > Len(r) \/ j > Len(s)
      <4>1. Rest(r, s, i, j) = {}
        BY <1>0, <2>1, <3>1, RestEmpty
      <4> QED BY <1>1, <2>1, <3>1, <4>1 DEF JoinsAt
    <3>2. CASE ~(i > Len(r) \/ j > Len(s))
      <4>1. /\ i \in 1 .. Len(r) /\ j \in 1 .. Len(s)
            /\ i + 1 \in 1 .. Len(r) + 1 /\ j + 1 \in 1 .. Len(s) + 1
        BY <1>0, <2>1, <3>2
      <4>2. KeyR[r[i]] \in Nat /\ KeyS[s[j]] \in Nat
        BY <4>1, RunKeys
      <4>3. CASE KeyR[r[i]] < KeyS[s[j]]
        <5>1. Rest(r, s, i, j) = Rest(r, s, i + 1, j)
          BY <4>1, <4>3, RestStep
        <5> QED BY <1>1, <2>1, <3>2, <4>1, <4>3, <5>1 DEF JoinsAt
      <4>4. CASE KeyR[r[i]] > KeyS[s[j]]
        <5>1. Rest(r, s, i, j) = Rest(r, s, i, j + 1)
          BY <4>1, <4>4, RestStep
        <5>2. ~(KeyR[r[i]] < KeyS[s[j]])
          BY <4>2, <4>4
        <5> QED BY <1>1, <2>1, <3>2, <4>1, <4>4, <5>1, <5>2 DEF JoinsAt
      <4>5. CASE KeyR[r[i]] = KeyS[s[j]]
        <5> DEFINE ii == RunEnd("R", r, i)
                   jj == RunEnd("S", s, j)
        <5>1. /\ ii \in i + 1 .. Len(r) + 1 /\ jj \in j + 1 .. Len(s) + 1
              /\ Rest(r, s, i, j) = ((i .. ii - 1) \X (j .. jj - 1)) \cup Rest(r, s, ii, jj)
          BY <4>1, <4>5, RestGroup
        <5>2. ~(KeyR[r[i]] < KeyS[s[j]]) /\ ~(KeyR[r[i]] > KeyS[s[j]])
          BY <4>2, <4>5
        <5> HIDE DEF ii, jj
        <5>3. ii \in 1 .. Len(r) + 1 /\ jj \in 1 .. Len(s) + 1
          BY <1>0, <4>1, <5>1
        <5>4. h[<<i, j>>] = ((i .. ii - 1) \X (j .. jj - 1)) \cup h[<<ii, jj>>]
          BY <1>1, <2>1, <5>1, <5>3
        <5> QED BY <3>2, <5>2, <5>4 DEF JoinsAt, ii, jj
      <4> QED BY <4>2, <4>3, <4>4, <4>5
    <3> QED BY <3>1, <3>2
  <2>3. F(<<i, j>>) = F(p)
    BY <2>1
  <2>4. h[<<i, j>>] = F(<<i, j>>)
    BY <2>2 DEF JoinsAt
  <2> HIDE DEF F
  <2> QED BY <2>1, <2>3, <2>4
<1>4. h = [p \in D |-> F(p)]
  <2> HIDE DEF F, D
  <2> QED BY <1>2, <1>3
<1>5. Joins(h, r, s)
  BY <1>4 DEF Joins
<1> QED
  BY <1>5

LEMMA JoinsRest ==
  ASSUME NEW r, NEW s, IsRun("R", r), IsRun("S", s), NEW h, Joins(h, r, s),
         NEW i \in 1 .. Len(r) + 1, NEW j \in 1 .. Len(s) + 1
  PROVE  h[<<i, j>>] = Rest(r, s, i, j)
<1> DEFINE L == Len(r) + 1
           M == Len(s) + 1
           T == {d \in Nat : \A k \in 1 .. L, l \in 1 .. M :
                               (L - k) + (M - l) <= d => h[<<k, l>>] = Rest(r, s, k, l)}
<1>0. Len(r) \in Nat /\ Len(s) \in Nat /\ L \in Nat /\ M \in Nat /\ L = Len(r) + 1 /\ M = Len(s) + 1
  BY DEF IsRun
<1> HIDE DEF L, M
<1>e. ASSUME NEW k \in 1 .. L, NEW l \in 1 .. M, k > Len(r) \/ l > Len(s) PROVE h[<<k, l>>] = Rest(r, s, k, l)
  <2>1. JoinsAt(h, r, s, k, l) /\ Rest(r, s, k, l) = {}
    BY <1>0, <1>e, JoinsEach, RestEmpty
  <2> QED BY <1>e, <2>1 DEF JoinsAt
<1>1. 0 \in T
  <2>1. ASSUME NEW k \in 1 .. L, NEW l \in 1 .. M, (L - k) + (M - l) <= 0 PROVE h[<<k, l>>] = Rest(r, s, k, l)
    <3>1. k > Len(r)
      BY <1>0, <2>1
    <3> QED BY <1>e, <3>1
  <2> QED BY <2>1
<1>2. ASSUME NEW d \in Nat, d \in T PROVE d + 1 \in T
  <2>1. ASSUME NEW k \in 1 .. L, NEW l \in 1 .. M, (L - k) + (M - l) <= d + 1
        PROVE  h[<<k, l>>] = Rest(r, s, k, l)
    <3>0. ASSUME NEW m \in 1 .. L, NEW n \in 1 .. M, k <= m, l <= n, k + l < m + n
          PROVE  h[<<m, n>>] = Rest(r, s, m, n)
      <4>1. (L - m) + (M - n) <= d
        BY <1>0, <2>1, <3>0
      <4> QED BY <1>2, <4>1
    <3>1. CASE ~(k > Len(r) \/ l > Len(s))
      <4>1. /\ k \in 1 .. Len(r) /\ l \in 1 .. Len(s) /\ k + 1 \in 1 .. L /\ l + 1 \in 1 .. M
            /\ k <= k + 1 /\ l <= l + 1 /\ k <= k /\ l <= l /\ k + l < (k + 1) + l /\ k + l < k + (l + 1)
        BY <1>0, <3>1
      <4>2. KeyR[r[k]] \in Nat /\ KeyS[s[l]] \in Nat
        BY <4>1, RunKeys
      <4>a. JoinsAt(h, r, s, k, l)
        BY <1>0, JoinsEach
      <4>3. CASE KeyR[r[k]] < KeyS[s[l]]
        <5>1. Rest(r, s, k, l) = Rest(r, s, k + 1, l)
          BY <4>1, <4>3, RestStep
        <5>2. h[<<k + 1, l>>] = Rest(r, s, k + 1, l)
          BY <3>0, <4>1
        <5> QED BY <3>1, <4>a, <4>3, <5>1, <5>2 DEF JoinsAt
      <4>4. CASE KeyR[r[k]] > KeyS[s[l]]
        <5>1. Rest(r, s, k, l) = Rest(r, s, k, l + 1)
          BY <4>1, <4>4, RestStep
        <5>2. h[<<k, l + 1>>] = Rest(r, s, k, l + 1)
          BY <3>0, <4>1
        <5>3. ~(KeyR[r[k]] < KeyS[s[l]])
          BY <4>2, <4>4
        <5> QED BY <3>1, <4>a, <4>4, <5>1, <5>2, <5>3 DEF JoinsAt
      <4>5. CASE KeyR[r[k]] = KeyS[s[l]]
        <5> DEFINE ii == RunEnd("R", r, k)
                   jj == RunEnd("S", s, l)
        <5>1. /\ ii \in k + 1 .. Len(r) + 1 /\ jj \in l + 1 .. Len(s) + 1
              /\ Rest(r, s, k, l) = ((k .. ii - 1) \X (l .. jj - 1)) \cup Rest(r, s, ii, jj)
          BY <4>1, <4>5, RestGroup
        <5>2. ~(KeyR[r[k]] < KeyS[s[l]]) /\ ~(KeyR[r[k]] > KeyS[s[l]])
          BY <4>2, <4>5
        <5>3. h[<<k, l>>] = ((k .. ii - 1) \X (l .. jj - 1)) \cup h[<<ii, jj>>]
          BY <3>1, <4>a, <5>2 DEF JoinsAt
        <5> HIDE DEF ii, jj
        <5>4. ii \in 1 .. L /\ jj \in 1 .. M /\ k <= ii /\ l <= jj /\ k + l < ii + jj
          BY <1>0, <4>1, <5>1
        <5>5. h[<<ii, jj>>] = Rest(r, s, ii, jj)
          BY <3>0, <5>4
        <5> QED BY <5>1, <5>3, <5>5
      <4> QED BY <4>2, <4>3, <4>4, <4>5
    <3> QED BY <1>e, <3>1
  <2> QED BY <2>1
<1>3. Nat \subseteq T
  <2> HIDE DEF T
  <2> QED BY <1>1, <1>2, SetInduction
<1>4. (L - i) + (M - j) \in Nat /\ (L - i) + (M - j) <= (L - i) + (M - j) /\ i \in 1 .. L /\ j \in 1 .. M
  BY <1>0
<1> QED
  BY <1>3, <1>4

(* merge_join finds the matches of two sorted runs. *)
LEMMA MergeJoinIs ==
  ASSUME NEW r, NEW s, IsRun("R", r), IsRun("S", s)
  PROVE  merge_join(r, s) = Rest(r, s, 1, 1)
<1> DEFINE h == CHOOSE h : Joins(h, r, s)
<1>1. Joins(h, r, s)
  BY JoinsExist
<1>2. 1 \in 1 .. Len(r) + 1 /\ 1 \in 1 .. Len(s) + 1
  BY DEF IsRun
<1> HIDE DEF h
<1>3. h[<<1, 1>>] = Rest(r, s, 1, 1)
  BY <1>1, <1>2, JoinsRest
<1>4. merge_join(r, s) = h[<<1, 1>>]
  BY MergeJoinDef DEF h
<1> QED
  BY <1>3, <1>4

------------------------------------------------------------------------------
(* What a thread joins.  A single thread of m-way joins its partitions one   *)
(* by one; else each thread joins what it has merged.                       *)

Alone          == algo = "m-way" /\ nthreads = 1
Pieces         == IF Alone THEN 1 .. PARTFANOUT ELSE {1}
Piece(x, t, k) == IF Alone THEN PartOf(x, t, k - 1) ELSE Mine(x, t)

(* The pair is one that thread t is to count. *)
Due(t, i, j) == Matching(i, j) /\ \E k \in Pieces : i \in Piece("R", t, k) /\ j \in Piece("S", t, k)

Ready(t) == /\ DOMAIN merged[t] = Pieces
            /\ \A k \in Pieces, x \in Rels :
                 Lists(merged[t][k][x], Piece(x, t, k)) /\ Ascending(x, merged[t][k][x])

HalfMerged(t) == \A x \in Rels : /\ Spread(x, mergeruns[t][x], Mine(x, t))
                                 /\ \E c \in 0 .. NRADIXBITS : Len(mergeruns[t][x]) = 2 ^ c

MergeInv ==
  /\ DOMAIN merged = Threads /\ DOMAIN mergeruns = Threads
  /\ \A t \in Threads : /\ pc[t] \in {"merged", "join", "joined"} => Ready(t)
                        /\ pc[t] \in {"firstmerged", "fullmerge"} => HalfMerged(t)

OutInv ==
  out = [t \in Threads |-> [i \in RIdx |-> [j \in SIdx |-> IF pc[t] \in Joined /\ Due(t, i, j) THEN 1 ELSE 0]]]

LEMMA MineIn == ASSUME ConfInv, NEW x \in Rels, NEW t \in Threads PROVE Mine(x, t) \in SUBSET Tuples(x)
<1>1. algo \in Algos /\ MyParts(t) \in SUBSET Parts
  BY ConfFacts, MyPartsIs
<1> QED
  BY <1>1, ColumnIn DEF Mine

LEMMA PieceIn ==
  ASSUME ConfInv, NEW x \in Rels, NEW t \in Threads, NEW k \in Pieces
  PROVE  /\ Piece(x, t, k) \in SUBSET Tuples(x)
         /\ Alone => k - 1 \in Parts
         /\ \A l \in Pieces : l # k => Piece(x, t, k) \cap Piece(x, t, l) = {}
<1>1. algo \in Algos
  BY ConfFacts
<1>2. CASE Alone
  <2>1. Pieces = 1 .. PARTFANOUT /\ PARTFANOUT \in Nat
    BY <1>2, Sizes DEF Pieces
  <2>2. \A l \in Pieces : l - 1 \in Parts /\ Piece(x, t, l) = PartOf(x, t, l - 1)
    BY <1>2, <2>1 DEF Parts, Piece
  <2>3. ASSUME NEW l \in Pieces, l # k PROVE Piece(x, t, k) \cap Piece(x, t, l) = {}
    <3> DEFINE p == k - 1
               q == l - 1
    <3>0. k \in 1 .. PARTFANOUT /\ l \in 1 .. PARTFANOUT
      BY <2>1
    <3>1. p \in Parts /\ q \in Parts /\ p # q
      BY <2>1, <2>3, <3>0 DEF Parts
    <3>2. Piece(x, t, k) = PartOf(x, t, p) /\ Piece(x, t, l) = PartOf(x, t, q)
      BY <2>2
    <3> HIDE DEF p, q
    <3>3. PartOf(x, t, p) \cap PartOf(x, t, q) = {}
      BY <1>1, <3>1, PartOfIs
    <3> QED BY <3>2, <3>3
  <2>4. Piece(x, t, k) \in SUBSET Tuples(x)
    <3> DEFINE p == k - 1
    <3>1. p \in Parts /\ Piece(x, t, k) = PartOf(x, t, p)
      BY <2>2
    <3> HIDE DEF p
    <3> QED BY <1>1, <3>1, PartOfIs
  <2> QED BY <2>2, <2>3, <2>4
<1>3. CASE ~Alone
  BY <1>3, MineIn DEF Piece, Pieces
<1> QED
  BY <1>2, <1>3

(* What depends on the algorithm alone stays as it is. *)
LEMMA PiecesKept ==
  ASSUME algo' = algo
  PROVE  /\ Pieces' = Pieces /\ (Alone <=> Alone')
         /\ \A x, t : Mine(x, t)' = Mine(x, t)
         /\ \A x, t, k : Piece(x, t, k)' = Piece(x, t, k)
         /\ \A t, i, j : Due(t, i, j)' <=> Due(t, i, j)
<1>1. \A x, t, p : PartOf(x, t, p)' = PartOf(x, t, p)
  BY DEF PartOf
<1>2. \A x, t : Mine(x, t)' = Mine(x, t)
  BY <1>1 DEF Mine, Column
<1>3. (Alone <=> Alone') /\ Pieces' = Pieces
  BY DEF Alone, Pieces
<1>4. \A x, t, k : Piece(x, t, k)' = Piece(x, t, k)
  BY <1>1, <1>2, <1>3 DEF Piece
<1>5. \A t, i, j : Due(t, i, j)' <=> Due(t, i, j)
  BY <1>3, <1>4 DEF Due
<1> QED
  BY <1>2, <1>3, <1>4, <1>5

LEMMA MergeInit == ASSUME Init PROVE MergeInv /\ OutInv
  BY DEF Init, MergeInv, OutInv, Joined

LEMMA ReadyKept ==
  ASSUME algo' = algo, NEW t, merged'[t] = merged[t], Ready(t)
  PROVE  Ready(t)'
  BY PiecesKept DEF Ready, Lists, Ascending

LEMMA HalfKept ==
  ASSUME algo' = algo, NEW t, mergeruns'[t] = mergeruns[t], HalfMerged(t)
  PROVE  HalfMerged(t)'
<1>1. \A x \in Rels : /\ Spread(x, mergeruns'[t][x], Mine(x, t)')
                      /\ \E c \in 0 .. NRADIXBITS : Len(mergeruns'[t][x]) = 2 ^ c
  BY PiecesKept DEF HalfMerged
<1> QED
  BY <1>1 DEF HalfMerged, Spread, SpreadBy, Lists, Ascending

(* A step that leaves merged and mergeruns alone *)
LEMMA MergeFrame ==
  ASSUME algo' = algo, MergeInv, DOMAIN merged' = Threads, DOMAIN mergeruns' = Threads,
         \A t \in Threads :
           /\ pc'[t] \in {"merged", "join", "joined"} =>
                pc[t] \in {"merged", "join", "joined"} /\ merged'[t] = merged[t]
           /\ pc'[t] \in {"firstmerged", "fullmerge"} =>
                pc[t] \in {"firstmerged", "fullmerge"} /\ mergeruns'[t] = mergeruns[t]
  PROVE  MergeInv'
  BY ReadyKept, HalfKept DEF MergeInv

LEMMA OutFrame ==
  ASSUME algo' = algo, OutInv, out' = out, \A t \in Threads : pc'[t] \in Joined <=> pc[t] \in Joined
  PROVE  OutInv'
  BY PiecesKept DEF OutInv

LEMMA HeldByAll ==
  ASSUME MemoryInv, ChunkInv, NEW t \in Threads, pc[t] = "merge", NEW x \in Rels
  PROVE  \A u \in Threads, p \in MyParts(t) : p \in Parts /\ Holds(x, u, p)
<1> SUFFICES ASSUME NEW u \in Threads, NEW p \in MyParts(t) PROVE p \in Parts /\ Holds(x, u, p)
  OBVIOUS
<1>1. p \in Parts
  BY MyPartsIs
<1>2. p \div perthread = t
  BY <1>1, OwnerIs
<1>3. pc[u] \in Sorted
  BY DEF MemoryInv, PhaseInv
<1>4. pc[p \div perthread] \notin FirstMerged
  BY <1>2 DEF FirstMerged, Merged, Joined
<1> QED
  BY <1>1, <1>3, <1>4 DEF ChunkInv

LEMMA MergeReady ==
  ASSUME MemoryInv, ChunkInv, MergeInv, NEW t \in Threads, Merge(t)
  PROVE  Ready(t)'
<1>0. algo' = algo /\ algo = "m-way" /\ pc[t] = "merge" /\ ConfInv /\ merged'[t] = ToJoin(t)
  BY DEF Merge, config, MemoryInv, MergeInv
<1>1. \A x \in Rels : \A u \in Threads, p \in MyParts(t) : p \in Parts /\ Holds(x, u, p)
  BY <1>0, HeldByAll
<1>2. ASSUME nthreads > 1
      PROVE  /\ DOMAIN ToJoin(t) = Pieces
             /\ \A k \in Pieces, x \in Rels : Lists(ToJoin(t)[k][x], Piece(x, t, k)) /\ Ascending(x, ToJoin(t)[k][x])
  <2>1. ~Alone
    BY <1>2 DEF Alone
  <2>2. ToJoin(t) = <<[x \in Rels |-> MergeRuns(x, t)]>> /\ Pieces = {1}
    BY <1>2, <2>1 DEF ToJoin, Pieces
  <2>3. DOMAIN ToJoin(t) = Pieces /\ \A x \in Rels : ToJoin(t)[1][x] = MergeRuns(x, t)
    <3>1. DOMAIN <<[x \in Rels |-> MergeRuns(x, t)]>> = {1}
      OBVIOUS
    <3>2. <<[x \in Rels |-> MergeRuns(x, t)]>>[1] = [x \in Rels |-> MergeRuns(x, t)]
      OBVIOUS
    <3> QED BY <2>2, <3>1, <3>2
  <2>4. \A x \in Rels : Lists(MergeRuns(x, t), Mine(x, t)) /\ Ascending(x, MergeRuns(x, t))
    BY <1>0, <1>1, MergeLists
  <2> QED BY <2>1, <2>2, <2>3, <2>4 DEF Piece
<1>3. ASSUME nthreads = 1
      PROVE  /\ DOMAIN ToJoin(t) = Pieces
             /\ \A k \in Pieces, x \in Rels : Lists(ToJoin(t)[k][x], Piece(x, t, k)) /\ Ascending(x, ToJoin(t)[k][x])
  <2>1. Alone
    BY <1>0, <1>3 DEF Alone
  <2>2. /\ ToJoin(t) = [n \in 1 .. PARTFANOUT |-> [x \in Rels |-> Read(x, chunks[t][x][n - 1])]]
        /\ Pieces = 1 .. PARTFANOUT
    BY <1>3, <2>1 DEF ToJoin, Pieces
  <2>3. MyParts(t) = Parts
    BY <1>3, Sizes DEF MyParts, Parts, Threads
  <2>4. ASSUME NEW k \in Pieces, NEW x \in Rels
        PROVE  Lists(ToJoin(t)[k][x], Piece(x, t, k)) /\ Ascending(x, ToJoin(t)[k][x])
    <3> DEFINE p == k - 1
    <3>1. p \in Parts
      BY <1>0, <2>1, PieceIn
    <3>2. ToJoin(t)[k][x] = Read(x, chunks[t][x][p]) /\ Piece(x, t, k) = PartOf(x, t, p)
      BY <2>1, <2>2 DEF Piece
    <3> HIDE DEF p
    <3>3. Holds(x, t, p)
      BY <1>1, <2>3, <3>1
    <3> QED BY <3>2, <3>3 DEF Holds
  <2> QED BY <2>2, <2>4
<1>4. nthreads > 1 \/ nthreads = 1
  BY Sizes
<1>5. /\ DOMAIN ToJoin(t) = Pieces
      /\ \A k \in Pieces, x \in Rels : Lists(ToJoin(t)[k][x], Piece(x, t, k)) /\ Ascending(x, ToJoin(t)[k][x])
  BY <1>2, <1>3, <1>4
<1>6. /\ DOMAIN merged'[t] = Pieces'
      /\ \A k \in Pieces', x \in Rels : Lists(merged'[t][k][x], Piece(x, t, k)') /\ Ascending(x, merged'[t][k][x])
  BY <1>0, <1>5, PiecesKept
<1> QED
  BY <1>6 DEF Ready, Lists, Ascending

LEMMA FirstMergeHalf ==
  ASSUME MemoryInv, ChunkInv, MergeInv, NEW t \in Threads, FirstMerge(t)
  PROVE  HalfMerged(t)'
<1>0. algo' = algo /\ algo = "m-pass" /\ pc[t] = "merge" /\ ConfInv
      /\ mergeruns'[t] = [x \in Rels |-> FirstRuns(x, t)]
  BY DEF FirstMerge, config, MemoryInv, MergeInv
<1>1. ASSUME NEW x \in Rels
      PROVE  /\ Spread(x, FirstRuns(x, t), Mine(x, t))
             /\ \E c \in 0 .. NRADIXBITS : Len(FirstRuns(x, t)) = 2 ^ c
  <2>1. \A u \in Threads, p \in MyParts(t) : p \in Parts /\ Holds(x, u, p)
    BY <1>0, HeldByAll
  <2>2. CASE nthreads > 1
    BY <1>0, <2>1, <2>2, FirstRunsSpread
  <2>3. CASE nthreads = 1
    <3>1. MyParts(t) = Parts
      BY <2>3, Sizes DEF MyParts, Parts, Threads
    <3> QED BY <1>0, <2>1, <2>3, <3>1, OneThread
  <2> QED BY <2>2, <2>3, Sizes
<1>2. \A x \in Rels : /\ Spread(x, mergeruns'[t][x], Mine(x, t)')
                      /\ \E c \in 0 .. NRADIXBITS : Len(mergeruns'[t][x]) = 2 ^ c
  BY <1>0, <1>1, PiecesKept
<1> QED
  BY <1>2 DEF HalfMerged, Spread, SpreadBy, Lists, Ascending

LEMMA FullMergeReady ==
  ASSUME MemoryInv, MergeInv, NEW t \in Threads, FullMerge(t)
  PROVE  Ready(t)'
<1>0. algo' = algo /\ algo = "m-pass" /\ ConfInv /\ HalfMerged(t)
      /\ merged'[t] = <<[x \in Rels |-> MultiPass(x, mergeruns[t][x])]>>
  <2>1. pc[t] = "fullmerge" /\ algo' = algo /\ merged'[t] = <<[x \in Rels |-> MultiPass(x, mergeruns[t][x])]>>
    BY DEF FullMerge, config, MergeInv
  <2>2. algo \in {"m-way", "m-pass"} /\ ConfInv
    BY ConfFacts DEF MemoryInv
  <2> QED BY <2>1, <2>2 DEF MemoryInv, PhaseInv, MergeInv
<1>1. ~Alone /\ Pieces = {1} /\ \A x, k : Piece(x, t, k) = Mine(x, t)
  BY <1>0 DEF Alone, Pieces, Piece
<1>2. DOMAIN merged'[t] = {1} /\ \A x \in Rels : merged'[t][1][x] = MultiPass(x, mergeruns[t][x])
  <2> DEFINE f == [x \in Rels |-> MultiPass(x, mergeruns[t][x])]
  <2>1. DOMAIN <<f>> = {1} /\ <<f>>[1] = f
    OBVIOUS
  <2> QED BY <1>0, <2>1
<1>3. ASSUME NEW x \in Rels
      PROVE  Lists(MultiPass(x, mergeruns[t][x]), Mine(x, t)) /\ Ascending(x, MultiPass(x, mergeruns[t][x]))
  <2>1. Mine(x, t) \in SUBSET Tuples(x)
    BY <1>0, MineIn
  <2>2. Spread(x, mergeruns[t][x], Mine(x, t)) /\ \E c \in 0 .. NRADIXBITS : Len(mergeruns[t][x]) = 2 ^ c
    BY <1>0 DEF HalfMerged
  <2> QED BY <2>1, <2>2, MultiPassLists
<1>4. /\ DOMAIN merged'[t] = Pieces'
      /\ \A k \in Pieces', x \in Rels : Lists(merged'[t][k][x], Piece(x, t, k)') /\ Ascending(x, merged'[t][k][x])
  BY <1>0, <1>1, <1>2, <1>3, PiecesKept
<1> QED
  BY <1>4 DEF Ready, Lists, Ascending

(* A thread counts a pair once for each time it is in two of its runs. *)
LEMMA JoinCounts ==
  ASSUME ConfInv, NEW t \in Threads, Ready(t), NEW i \in RIdx, NEW j \in SIdx
  PROVE  LET R(k) == merged[t][k]["R"]
             S(k) == merged[t][k]["S"]
             found == UNION {{k} \X merge_join(R(k), S(k)) : k \in DOMAIN merged[t]}
         IN  Cardinality({f \in found : R(f[1])[f[2][1]] = i /\ S(f[1])[f[2][2]] = j})
               = IF Due(t, i, j) THEN 1 ELSE 0
<1> DEFINE R(k) == merged[t][k]["R"]
           S(k) == merged[t][k]["S"]
           found == UNION {{k} \X merge_join(R(k), S(k)) : k \in DOMAIN merged[t]}
           hits == {f \in found : R(f[1])[f[2][1]] = i /\ S(f[1])[f[2][2]] = j}
           At(k, m, n) == k \in Pieces /\ m \in 1 .. Len(R(k)) /\ n \in 1 .. Len(S(k)) /\ R(k)[m] = i /\ S(k)[n] = j
<1>1. ASSUME NEW k \in Pieces
      PROVE  /\ Lists(R(k), Piece("R", t, k)) /\ Lists(S(k), Piece("S", t, k))
             /\ IsRun("R", R(k)) /\ IsRun("S", S(k))
  <2>1. "R" \in Rels /\ "S" \in Rels
    BY DEF Rels
  <2>2. /\ Lists(R(k), Piece("R", t, k)) /\ Ascending("R", R(k))
        /\ Lists(S(k), Piece("S", t, k)) /\ Ascending("S", S(k))
    BY <2>1 DEF Ready
  <2>3. Piece("R", t, k) \in SUBSET Tuples("R") /\ Piece("S", t, k) \in SUBSET Tuples("S")
    BY <2>1, PieceIn
  <2> HIDE DEF R, S
  <2> QED BY <2>2, <2>3 DEF Lists, IsRun
<1>2. DOMAIN merged[t] = Pieces
  BY DEF Ready
<1>3. \A f : f \in found <=> \E k \in Pieces : f \in {k} \X merge_join(R(k), S(k))
  BY <1>2
<1> HIDE DEF R, S, found
<1>4. ASSUME NEW k, NEW m, NEW n
      PROVE  <<k, <<m, n>>>> \in hits <=> Matching(i, j) /\ At(k, m, n)
  <2>1. <<k, <<m, n>>>> \in found <=> k \in Pieces /\ <<m, n>> \in merge_join(R(k), S(k))
    BY <1>3
  <2>2. ASSUME k \in Pieces
        PROVE  <<m, n>> \in merge_join(R(k), S(k)) <=>
                 m \in 1 .. Len(R(k)) /\ n \in 1 .. Len(S(k)) /\ KeyR[R(k)[m]] = KeyS[S(k)[n]]
    BY <1>1, <2>2, MergeJoinIs, RestIs
  <2>3. <<k, <<m, n>>>> \in hits <=> <<k, <<m, n>>>> \in found /\ R(k)[m] = i /\ S(k)[n] = j
    OBVIOUS
  <2> QED BY <2>1, <2>2, <2>3 DEF Matching
<1>5. ASSUME NEW f \in hits PROVE \E k, m, n : f = <<k, <<m, n>>>>
  <2>1. PICK k \in Pieces : f \in {k} \X merge_join(R(k), S(k))
    BY <1>3
  <2>2. f = <<k, f[2]>> /\ f[2] \in merge_join(R(k), S(k))
    BY <2>1
  <2>3. f[2] \in Rest(R(k), S(k), 1, 1)
    BY <1>1, <2>2, MergeJoinIs
  <2>4. f[2] = <<f[2][1], f[2][2]>>
    BY <2>3, RestPairs
  <2> QED BY <2>2, <2>4
<1> HIDE DEF hits
<1>6. CASE Due(t, i, j)
  <2>1. Matching(i, j)
    BY <1>6 DEF Due
  <2>2. PICK k \in Pieces : i \in Piece("R", t, k) /\ j \in Piece("S", t, k)
    BY <1>6 DEF Due
  <2>3. PICK m \in 1 .. Len(R(k)) : R(k)[m] = i
    BY <1>1, <2>2 DEF Lists
  <2>4. PICK n \in 1 .. Len(S(k)) : S(k)[n] = j
    BY <1>1, <2>2 DEF Lists
  <2> DEFINE w == <<k, <<m, n>>>>
  <2>5. w \in hits
    BY <1>4, <2>1, <2>3, <2>4
  <2>6. ASSUME NEW f \in hits PROVE f = w
    <3>1. PICK l, a, b : f = <<l, <<a, b>>>>
      BY <1>5
    <3>2. At(l, a, b)
      BY <1>4, <3>1
    <3>3. i \in Piece("R", t, l)
      BY <1>1, <3>2 DEF Lists
    <3>4. l = k
      BY <2>2, <3>2, <3>3, PieceIn DEF Rels
    <3>5. a = m /\ b = n
      BY <1>1, <2>3, <2>4, <3>2, <3>4 DEF Lists
    <3> QED BY <3>1, <3>4, <3>5
  <2> HIDE DEF w
  <2>7. hits = {w}
    BY <2>5, <2>6
  <2>8. Cardinality(hits) = 1
    BY <2>7, FS_Singleton
  <2> QED BY <1>6, <2>8 DEF hits, found, R, S
<1>7. CASE ~Due(t, i, j)
  <2>1. ASSUME NEW f \in hits PROVE FALSE
    <3>1. PICK l, a, b : f = <<l, <<a, b>>>>
      BY <1>5
    <3>2. Matching(i, j) /\ At(l, a, b)
      BY <1>4, <3>1
    <3>3. i \in Piece("R", t, l) /\ j \in Piece("S", t, l)
      BY <1>1, <3>2 DEF Lists
    <3> QED BY <1>7, <3>2, <3>3 DEF Due
  <2>2. hits = {}
    BY <2>1
  <2>3. Cardinality(hits) = 0
    BY <2>2, FS_EmptySet
  <2> QED BY <1>7, <2>3 DEF hits, found, R, S
<1> QED
  BY <1>6, <1>7

LEMMA JoinOut ==
  ASSUME MemoryInv, MergeInv, OutInv, NEW t \in Threads, Join(t)
  PROVE  OutInv'
<1> DEFINE R(k) == merged[t][k]["R"]
           S(k) == merged[t][k]["S"]
           found == UNION {{k} \X merge_join(R(k), S(k)) : k \in DOMAIN merged[t]}
           N(i, j) == Cardinality({f \in found : R(f[1])[f[2][1]] = i /\ S(f[1])[f[2][2]] = j})
           D(u, i, j) == IF Due(u, i, j) THEN 1 ELSE 0
           mine == [i \in RIdx |-> [j \in SIdx |-> D(t, i, j)]]
<1>0. /\ algo' = algo /\ pc[t] = "join" /\ pc' = [pc EXCEPT ![t] = "joined"] /\ pc \in [Threads -> Pcs] /\ ConfInv
      /\ out' = [out EXCEPT ![t] = [i \in RIdx |-> [j \in SIdx |-> N(i, j)]]]
  BY DEF Join, Goto, config, MemoryInv, PhaseInv
<1>1. Ready(t)
  BY <1>0 DEF MergeInv
<1>2. \A i \in RIdx, j \in SIdx : N(i, j) = D(t, i, j)
  BY <1>0, <1>1, JoinCounts
<1> HIDE DEF N, D
<1>3. out' = [out EXCEPT ![t] = mine]
  BY <1>0, <1>2
<1> DEFINE V(u) == [i \in RIdx |-> [j \in SIdx |-> IF pc[u] \in Joined /\ Due(u, i, j) THEN 1 ELSE 0]]
           W(u) == [i \in RIdx |-> [j \in SIdx |-> IF pc'[u] \in Joined /\ Due(u, i, j)' THEN 1 ELSE 0]]
<1>4. out = [u \in Threads |-> V(u)]
  BY DEF OutInv
<1>5. ASSUME NEW u \in Threads, u # t PROVE W(u) = V(u)
  <2>1. pc'[u] = pc[u]
    BY <1>0, <1>5
  <2>2. \A i, j : Due(u, i, j)' <=> Due(u, i, j)
    BY <1>0, PiecesKept
  <2> QED BY <2>1, <2>2
<1>6. W(t) = mine
  <2>1. pc'[t] \in Joined
    BY <1>0 DEF Joined
  <2>2. \A i, j : Due(t, i, j)' <=> Due(t, i, j)
    BY <1>0, PiecesKept
  <2> QED BY <2>1, <2>2 DEF D
<1> HIDE DEF V, W, mine
<1>7. out' = [u \in Threads |-> W(u)]
  BY <1>3, <1>4, <1>5, <1>6
<1> QED
  BY <1>7 DEF OutInv, W

LEMMA MergeStep ==
  ASSUME MemoryInv, ChunkInv, MergeInv, OutInv, [Next]_vars
  PROVE  MergeInv' /\ OutInv'
<1>0. /\ algo' = algo /\ pc \in [Threads -> Pcs] /\ DOMAIN merged = Threads /\ DOMAIN mergeruns = Threads
  BY ConfKept DEF MemoryInv, PhaseInv, MergeInv
<1> DEFINE A == {"merged", "join", "joined"}
           B == {"firstmerged", "fullmerge"}
<1> USE DEF Joined
<1>1. ASSUME NEW t \in Threads, NEW l \in Pcs, pc' = [pc EXCEPT ![t] = l], merged' = merged, mergeruns' = mergeruns,
             out' = out, l \in A => pc[t] \in A, l \in B => pc[t] \in B, l \in Joined <=> pc[t] \in Joined
      PROVE  MergeInv' /\ OutInv'
  <2>1. \A u \in Threads : /\ pc'[u] \in A => pc[u] \in A
                           /\ pc'[u] \in B => pc[u] \in B
                           /\ pc'[u] \in Joined <=> pc[u] \in Joined
    BY <1>0, <1>1
  <2> QED BY <1>0, <1>1, <2>1, MergeFrame, OutFrame
<1>2. ASSUME NEW t \in Threads, Launch(t) \/ Arrive(t) \/ Start(t) \/ Partition(t) \/ StartSort(t) \/ Sort(t) \/ StartMerge(t)
      PROVE  MergeInv' /\ OutInv'
  BY <1>1, <1>2 DEF Launch, Arrive, Start, Partition, StartSort, Sort, StartMerge, CrossBarrier, Goto, mpass,
                    Pcs, Started, Partitioned, Sorted, FirstMerged, Merged
<1>3. ASSUME NEW t \in Threads, StartFullMerge(t) \/ StartJoin(t)
      PROVE  MergeInv' /\ OutInv'
  BY <1>1, <1>3 DEF StartFullMerge, StartJoin, CrossBarrier, Goto, mpass,
                    Pcs, Started, Partitioned, Sorted, FirstMerged, Merged
<1>4. ASSUME NEW t \in Threads, Merge(t) PROVE MergeInv' /\ OutInv'
  <2>1. /\ pc[t] = "merge" /\ pc' = [pc EXCEPT ![t] = "merged"] /\ out' = out /\ mergeruns' = mergeruns
        /\ merged' = [merged EXCEPT ![t] = ToJoin(t)]
    BY <1>4 DEF Merge, Goto, mpass
  <2>2. OutInv'
    BY <1>0, <2>1, OutFrame
  <2>3. Ready(t)'
    BY <1>4, MergeReady
  <2>4. ASSUME NEW u \in Threads
        PROVE  (pc'[u] \in A => Ready(u)') /\ (pc'[u] \in B => HalfMerged(u)')
    <3>1. CASE u = t
      BY <1>0, <2>1, <2>3, <3>1
    <3>2. CASE u # t
      <4>1. pc'[u] = pc[u] /\ merged'[u] = merged[u] /\ mergeruns'[u] = mergeruns[u]
        BY <1>0, <2>1, <3>2
      <4> QED BY <1>0, <4>1, ReadyKept, HalfKept DEF MergeInv
    <3> QED BY <3>1, <3>2
  <2> QED BY <1>0, <2>1, <2>2, <2>4 DEF MergeInv
<1>5. ASSUME NEW t \in Threads, FirstMerge(t) PROVE MergeInv' /\ OutInv'
  <2>1. /\ pc[t] = "merge" /\ pc' = [pc EXCEPT ![t] = "firstmerged"] /\ out' = out /\ merged' = merged
        /\ mergeruns' = [mergeruns EXCEPT ![t] = [x \in Rels |-> FirstRuns(x, t)]]
    BY <1>5 DEF FirstMerge, Goto
  <2>2. OutInv'
    BY <1>0, <2>1, OutFrame
  <2>3. HalfMerged(t)'
    BY <1>5, FirstMergeHalf
  <2>4. ASSUME NEW u \in Threads
        PROVE  (pc'[u] \in A => Ready(u)') /\ (pc'[u] \in B => HalfMerged(u)')
    <3>1. CASE u = t
      BY <1>0, <2>1, <2>3, <3>1
    <3>2. CASE u # t
      <4>1. pc'[u] = pc[u] /\ merged'[u] = merged[u] /\ mergeruns'[u] = mergeruns[u]
        BY <1>0, <2>1, <3>2
      <4> QED BY <1>0, <4>1, ReadyKept, HalfKept DEF MergeInv
    <3> QED BY <3>1, <3>2
  <2> QED BY <1>0, <2>1, <2>2, <2>4 DEF MergeInv
<1>6. ASSUME NEW t \in Threads, FullMerge(t) PROVE MergeInv' /\ OutInv'
  <2>1. /\ pc[t] = "fullmerge" /\ pc' = [pc EXCEPT ![t] = "merged"] /\ out' = out
        /\ merged' = [merged EXCEPT ![t] = <<[x \in Rels |-> MultiPass(x, mergeruns[t][x])]>>]
        /\ mergeruns' = [mergeruns EXCEPT ![t] = << >>]
    BY <1>6 DEF FullMerge, Goto
  <2>2. OutInv'
    BY <1>0, <2>1, OutFrame
  <2>3. Ready(t)'
    BY <1>6, FullMergeReady
  <2>4. ASSUME NEW u \in Threads
        PROVE  (pc'[u] \in A => Ready(u)') /\ (pc'[u] \in B => HalfMerged(u)')
    <3>1. CASE u = t
      BY <1>0, <2>1, <2>3, <3>1
    <3>2. CASE u # t
      <4>1. pc'[u] = pc[u] /\ merged'[u] = merged[u] /\ mergeruns'[u] = mergeruns[u]
        BY <1>0, <2>1, <3>2
      <4> QED BY <1>0, <4>1, ReadyKept, HalfKept DEF MergeInv
    <3> QED BY <3>1, <3>2
  <2> QED BY <1>0, <2>1, <2>2, <2>4 DEF MergeInv
<1>7. ASSUME NEW t \in Threads, Join(t) PROVE MergeInv' /\ OutInv'
  <2>1. pc[t] = "join" /\ pc' = [pc EXCEPT ![t] = "joined"] /\ merged' = merged /\ mergeruns' = mergeruns
    BY <1>7 DEF Join, Goto, mpass
  <2> QED BY <1>0, <1>7, <2>1, MergeFrame, JoinOut
<1>8. ASSUME NEW t \in Threads, Exit(t) PROVE MergeInv' /\ OutInv'
  <2>1. /\ pc[t] = "joined" /\ pc' = [pc EXCEPT ![t] = "exited"] /\ mergeruns' = mergeruns /\ out' = out
        /\ merged' = [merged EXCEPT ![t] = << >>]
    BY <1>8 DEF Exit, CrossBarrier, Goto, mpass
  <2> QED BY <1>0, <2>1, MergeFrame, OutFrame
<1>9. CASE UNCHANGED vars
  BY <1>0, <1>9, MergeFrame, OutFrame DEF vars
<1> QED
  BY <1>2, <1>3, <1>4, <1>5, <1>6, <1>7, <1>8, <1>9 DEF Next, ThreadStep, Terminated

(* What a thread has merged, at once or in passes, are sorted runs of just   *)
(* the tuples of its partitions, and it has counted just the equal pairs    *)
(* among them (multiwaymerge_phase, mergejoin_phase).                       *)
THEOREM MergeInvariant == ASSUME SafeBuilds PROVE Spec => [](MergeInv /\ OutInv)
<1>1. Init => MergeInv /\ OutInv
  BY MergeInit
<1>2. MemoryInv /\ ChunkInv /\ MergeInv /\ OutInv /\ [Next]_vars => MergeInv' /\ OutInv'
  BY MergeStep
<1> QED
  BY <1>1, <1>2, MemoryInvariant, ChunkInvariant, PTL DEF Spec

------------------------------------------------------------------------------
(* The whole join *)

(* The threads shift the keys by as many bits. *)
Agree == \A a \in Algos, t, u \in Threads : Shift(a, t) = Shift(a, u)

(* They do if the threads' shares of R are equal (partitioning_phase takes  *)
(* the number of tuples from the thread's own share).                       *)
THEOREM EvenSharesAgree == numR % nthreads = 0 => Agree
<1> SUFFICES ASSUME numR % nthreads = 0 PROVE Agree
  OBVIOUS
<1> DEFINE n == nthreads
           k == numR \div n
<1>1. n \in Nat \ {0} /\ numR \in Nat
  BY Sizes
<1>2. k \in Nat /\ numR = n * k
  BY <1>1
<1> HIDE DEF k
<1>3. ASSUME NEW t \in Threads PROVE NumShare(numR, t) = k
  <2>1. t \in Nat
    BY <1>1 DEF Threads
  <2>2. k * (t + 1) = k * t + k /\ k * t \in Nat
    BY <1>2, <2>1
  <2>3. NumShare(numR, t) = (IF t = n - 1 THEN numR ELSE k * (t + 1)) - k * t
    BY DEF NumShare, ShareBegin, ShareEnd, k
  <2>4. t = n - 1 => numR = k * (t + 1)
    BY <1>1, <1>2
  <2> QED BY <1>2, <2>2, <2>3, <2>4
<1> QED
  BY <1>3 DEF Agree, Shift

LEMMA MineApart ==
  ASSUME ConfInv, NEW x \in Rels, NEW t \in Threads, NEW u \in Threads, NEW i, i \in Mine(x, t), i \in Mine(x, u)
  PROVE  t = u
<1>1. PICK p \in MyParts(t) : i \in Column(x, p)
  BY DEF Mine
<1>2. PICK q \in MyParts(u) : i \in Column(x, q)
  BY DEF Mine
<1>3. p \in Parts /\ q \in Parts /\ algo \in Algos
  BY MyPartsIs, ConfFacts
<1>4. p = q
  BY <1>1, <1>2, <1>3, ColumnApart
<1> QED
  BY <1>3, <1>4, OwnerIs

LEMMA PieceMine ==
  ASSUME ConfInv, NEW x \in Rels, NEW t \in Threads, NEW k \in Pieces
  PROVE  Piece(x, t, k) \in SUBSET Mine(x, t)
<1>1. CASE Alone
  <2> DEFINE p == k - 1
  <2>1. p \in Parts /\ Piece(x, t, k) = PartOf(x, t, p)
    BY <1>1, PieceIn DEF Piece
  <2> HIDE DEF p
  <2>2. MyParts(t) = Parts
    BY <1>1, Sizes DEF Alone, MyParts, Parts, Threads
  <2> QED BY <2>1, <2>2 DEF Mine, Column
<1>2. CASE ~Alone
  BY <1>2 DEF Piece
<1> QED
  BY <1>1, <1>2

LEMMA CountersExact ==
  ASSUME ConfInv, OutInv
  PROVE  Counting(out) /\ CountedOnce(out)
<1>1. \A t \in Threads, i \in RIdx, j \in SIdx : out[t][i][j] = IF pc[t] \in Joined /\ Due(t, i, j) THEN 1 ELSE 0
  BY DEF OutInv
<1>2. ASSUME NEW t \in Threads, NEW u \in Threads, NEW i, NEW j, Due(t, i, j), Due(u, i, j) PROVE t = u
  <2>1. i \in Mine("R", t) /\ i \in Mine("R", u)
    BY <1>2, PieceMine DEF Due, Rels
  <2> QED BY <2>1, MineApart DEF Rels
<1>3. \A t, i, j : Due(t, i, j) => Matching(i, j)
  BY DEF Due
<1> QED
  BY <1>1, <1>2, <1>3 DEF Counting, CountedOnce

(* Equal keys meet. *)
LEMMA AllDue ==
  ASSUME Agree, ConfInv, NEW i \in RIdx, NEW j \in SIdx, Matching(i, j)
  PROVE  \E t \in Threads : Due(t, i, j)
<1>1. algo \in Algos /\ "R" \in Rels /\ "S" \in Rels /\ i \in Tuples("R") /\ j \in Tuples("S")
  BY ConfFacts DEF Rels, Tuples, RIdx, SIdx, Num
<1>2. PICK u \in Threads : i \in Share("R", u)
  BY <1>1, ShareOf
<1>3. PICK v \in Threads : j \in Share("S", v)
  BY <1>1, ShareOf
<1> DEFINE p == PartNo(algo, "R", u, i)
<1>4. p \in Parts
  BY <1>1, HashType, ShiftType, NumType DEF PartNo
<1>5. PartNo(algo, "S", v, j) = p
  <2>1. Shift(algo, u) = Shift(algo, v)
    BY <1>1 DEF Agree
  <2>2. Key("R", i) = Key("S", j)
    BY DEF Matching, Key
  <2> QED BY <2>1, <2>2 DEF PartNo
<1> HIDE DEF p
<1>6. i \in PartOf("R", u, p) /\ j \in PartOf("S", v, p)
  BY <1>1, <1>2, <1>3, <1>4, <1>5, PartOfIs DEF p
<1> DEFINE t == p \div perthread
<1>7. t \in Threads /\ p \in MyParts(t)
  BY <1>4, OwnerIs
<1> HIDE DEF t
<1>8. i \in Mine("R", t) /\ j \in Mine("S", t)
  BY <1>6, <1>7 DEF Mine, Column
<1>9. CASE Alone
  <2>1. u = 0 /\ v = 0 /\ t = 0
    BY <1>7, <1>9, Sizes DEF Alone, Threads
  <2>2. p + 1 \in Pieces /\ (p + 1) - 1 = p
    BY <1>4, <1>9, Sizes DEF Pieces, Parts
  <2>3. i \in Piece("R", t, p + 1) /\ j \in Piece("S", t, p + 1)
    BY <1>6, <1>9, <2>1, <2>2 DEF Piece
  <2> QED BY <1>7, <2>2, <2>3 DEF Due
<1>10. CASE ~Alone
  BY <1>7, <1>8, <1>10 DEF Due, Piece, Pieces
<1> QED
  BY <1>9, <1>10

LEMMA AllCounted == ASSUME Agree, ConfInv, OutInv, AllExited PROVE CountedAll(out)
<1> SUFFICES ASSUME NEW i \in RIdx, NEW j \in SIdx, Matching(i, j) PROVE \E t \in Threads : out[t][i][j] = 1
  BY DEF CountedAll
<1>1. PICK t \in Threads : Due(t, i, j)
  BY AllDue
<1>2. pc[t] \in Joined
  BY DEF AllExited, Joined
<1> QED
  BY <1>1, <1>2 DEF OutInv

LEMMA ExitSteps ==
  ASSUME PhaseInv, [Next]_vars
  PROVE  /\ AllExited => AllExited' /\ UNCHANGED out
         /\ ~AllExited /\ AllExited' => UNCHANGED out
         /\ \A t \in Threads : pc[t] \in Joined => pc'[t] \in Joined
<1>0. pc \in [Threads -> Pcs]
  BY DEF PhaseInv
<1>1. CASE UNCHANGED vars
  BY <1>1 DEF vars, AllExited
<1>2. ASSUME NEW t \in Threads, ThreadStep(t), ~Exit(t)
      PROVE  pc[t] \notin Joined /\ \E l \in Pcs \ {"exited"} : pc' = [pc EXCEPT ![t] = l]
  BY <1>2 DEF ThreadStep, Launch, Arrive, Start, Partition, StartSort, Sort, StartMerge, Merge, FirstMerge,
       StartFullMerge, FullMerge, StartJoin, Join, CrossBarrier, Goto,
       Pcs, Started, Partitioned, Sorted, FirstMerged, Merged, Joined
<1>3. ASSUME NEW t \in Threads, ThreadStep(t), ~Exit(t)
      PROVE  ~AllExited /\ ~AllExited' /\ \A u \in Threads : pc[u] \in Joined => pc'[u] \in Joined
  <2>1. pc'[t] # "exited" /\ pc[t] # "exited" /\ \A u \in Threads \ {t} : pc'[u] = pc[u]
    BY <1>0, <1>2, <1>3 DEF Joined
  <2> QED BY <1>2, <1>3, <2>1 DEF AllExited
<1>4. ASSUME NEW t \in Threads, Exit(t)
      PROVE  ~AllExited /\ UNCHANGED out /\ \A u \in Threads : pc[u] \in Joined => pc'[u] \in Joined
  <2>1. pc[t] = "joined" /\ pc' = [pc EXCEPT ![t] = "exited"] /\ UNCHANGED out
    BY <1>4 DEF Exit, CrossBarrier, Goto
  <2> QED BY <1>0, <2>1 DEF AllExited, Joined
<1> QED
  BY <1>1, <1>3, <1>4 DEF Next, Terminated

LEMMA JoinStep ==
  ASSUME Agree, MemoryInv, MemoryInv', OutInv, OutInv', [Next]_vars
  PROVE  [J!JoinNext]_J!joinVars
<1>0. ConfInv /\ ConfInv' /\ PhaseInv /\ algo' = algo
  BY ConfKept DEF MemoryInv
<1>1. Counting(out) /\ Counting(out') /\ CountedOnce(out) /\ CountedOnce(out')
  <2>1. Counting(out) /\ CountedOnce(out)
    BY <1>0, CountersExact
  <2>2. (ConfInv /\ OutInv => Counting(out) /\ CountedOnce(out))'
    BY CountersExact, PTL
  <2> QED BY <1>0, <2>1, <2>2 DEF Counting, CountedOnce
<1>4. /\ AllExited => AllExited' /\ UNCHANGED out
      /\ ~AllExited /\ AllExited' => UNCHANGED out
      /\ \A t \in Threads : pc[t] \in Joined => pc'[t] \in Joined
  BY <1>0, ExitSteps
<1>5. CASE AllExited
  <2>1. UNCHANGED out /\ AllExited /\ AllExited'
    BY <1>4, <1>5
  <2> QED
    BY <2>1 DEF J!joinVars, AllExited
<1>6. CASE ~AllExited /\ AllExited'
  <2>1. UNCHANGED out
    BY <1>4, <1>6
  <2>2. (Agree /\ ConfInv /\ OutInv /\ AllExited => CountedAll(out))'
    BY AllCounted, PTL
  <2>3. Agree'
    BY DEF Agree
  <2>4. CountedAll(out)
    BY <1>0, <1>6, <2>1, <2>2, <2>3 DEF CountedAll
  <2>5. \A p \in Equal : Produced(out)[p] = 1
    BY <1>1, <2>4, ProducedAll
  <2>6. J!Complete
    BY <1>6, <2>1, <2>5 DEF J!Complete
  <2> QED
    BY <2>6 DEF J!JoinNext
<1>7. CASE ~AllExited /\ ~AllExited'
  <2>1. \A t \in Threads, i \in RIdx, j \in SIdx : out[t][i][j] = 1 => out'[t][i][j] = 1
    <3> SUFFICES ASSUME NEW t \in Threads, NEW i \in RIdx, NEW j \in SIdx, out[t][i][j] = 1
                 PROVE  out'[t][i][j] = 1
      OBVIOUS
    <3>1. pc[t] \in Joined /\ Due(t, i, j)
      BY DEF OutInv
    <3>2. pc'[t] \in Joined /\ Due(t, i, j)'
      BY <1>0, <1>4, <3>1, PiecesKept
    <3>3. out'[t][i][j] = IF pc'[t] \in Joined /\ Due(t, i, j)' THEN 1 ELSE 0
      BY DEF OutInv
    <3> QED
      BY <3>2, <3>3
  <2>2. Grown(Produced(out), Produced(out'))
    BY <1>1, <2>1, ProducedGrows
  <2>3. J!Produce
    <3>1. Produced(out)' = Produced(out')
      BY DEF Produced
    <3>2. AllExited' = AllExited
      BY <1>7 DEF AllExited
    <3> QED
      BY <1>7, <2>2, <3>1, <3>2 DEF J!Produce, Grown
  <2> QED
    BY <2>3 DEF J!JoinNext
<1> QED
  BY <1>5, <1>6, <1>7

(* The m-way join and m-pass with the scalar sort, for any number of         *)
(* threads, tuples, keys and radix bits, any topology and strategy: if the  *)
(* threads agree on the shift, each equal pair is counted once, no other is, *)
(* none is missing when the threads have exited; so they implement the join *)
(* in every behaviour in which they do (sortmergejoin_multiway_thread,      *)
(* sortmergejoin_multipass_thread).                                         *)
THEOREM SortMergeImplements ==
  SafeBuilds /\ Agree => (Spec => J!JoinSafety /\ (<>AllExited => ImplementsJoin))
<1> SUFFICES ASSUME SafeBuilds, Agree PROVE Spec => J!JoinSafety /\ (<>AllExited => ImplementsJoin)
  OBVIOUS
<1>1. Init => J!JoinInit
  <2> SUFFICES ASSUME Init PROVE J!JoinInit
    OBVIOUS
  <2>1. Counting(out) /\ \A t \in Threads, i \in RIdx, j \in SIdx : out[t][i][j] = 0
    BY DEF Init, Counting
  <2>2. ~AllExited
    BY Sizes DEF Init, AllExited
  <2> QED
    BY <2>1, <2>2, ProducedNone DEF J!JoinInit
<1>2. MemoryInv /\ MemoryInv' /\ OutInv /\ OutInv' /\ [Next]_vars => [J!JoinNext]_J!joinVars
  BY JoinStep
<1>3. Spec => J!JoinSafety
  BY <1>1, <1>2, MemoryInvariant, MergeInvariant, PTL DEF Spec, J!JoinSafety
<1> QED
  BY <1>3, PTL DEF ImplementsJoin, J!JoinImplementation

------------------------------------------------------------------------------
(***************************************************************************)
(* The tree of rings that the m-way join merges its sorted runs with, for   *)
(* every fan-in and every size of a ring.  Every node of the tree has a     *)
(* mark: what went through it is not above the mark, what is behind it, in  *)
(* its children's rings or in the runs of a leaf, is not below.  A merge of *)
(* two sides moves the mark to the last tuple it takes, and takes none that *)
(* is above the last of a side that may get more.                           *)
(***************************************************************************)

------------------------------------------------------------------------------
(* The tree *)

Nodes == 0 .. nfifos - 1

(* The two runs of leaf i *)
RunA(i) == 2 * (nfifos - 1 - i)
RunB(i) == RunA(i) + 1

(* The children of an inner node, and of the root, -1 *)
Children(i) == {2 * i + 2, 2 * i + 3}
Inner(i)    == i \in -1 .. nfifos - 1 /\ i \notin Leaves

LEMMA TreeSize ==
  \E h \in Nat : h >= 2 /\ nparts = 2 * h /\ nfifos = 2 * h - 2 /\ Leaves = h - 2 .. 2 * h - 3
<1>1. PICK k \in 2 .. 8 : nparts = 2 ^ k
  BY TreeAssumption
<1>2. k - 1 \in Nat /\ k - 2 \in Nat /\ (k - 1) + 1 = k /\ (k - 2) + 1 = k - 1
  BY <1>1
<1>3. 2 ^ k = 2 * 2 ^ (k - 1) /\ 2 ^ (k - 1) = 2 * 2 ^ (k - 2) /\ 2 ^ (k - 2) \in Nat \ {0}
  <2>1. 2 ^ ((k - 1) + 1) = 2 * 2 ^ (k - 1) /\ 2 ^ ((k - 2) + 1) = 2 * 2 ^ (k - 2)
    BY <1>2, PowerNext
  <2> QED BY <1>2, <2>1, PowerType
<1> DEFINE q == 2 ^ (k - 2)
<1>4. q \in Nat /\ q >= 1 /\ nparts = 2 * (2 * q)
  BY <1>1, <1>3
<1> HIDE DEF q
<1>5. nparts \div 2 = 2 * q
  BY <1>4
<1> DEFINE h == 2 * q
<1>6. h \in Nat /\ h >= 2 /\ nparts = 2 * h /\ nfifos = 2 * h - 2 /\ Leaves = h - 2 .. 2 * h - 3
  BY <1>4, <1>5 DEF nfifos, Leaves
<1> QED
  BY <1>6

LEMMA TreeShape ==
  /\ nfifos \in Nat /\ nparts \in Nat /\ Leaves \subseteq Nodes /\ {0, 1} \subseteq Nodes
  /\ \A i \in Leaves : RunA(i) \in 0 .. nparts - 1 /\ RunB(i) \in 0 .. nparts - 1
  /\ \A i \in Leaves, j \in Leaves :
       i # j => RunA(i) # RunA(j) /\ RunA(i) # RunB(j) /\ RunB(i) # RunA(j) /\ RunB(i) # RunB(j)
  /\ \A i \in -1 .. nfifos - 1 : i \notin Leaves =>
       /\ Children(i) \subseteq Nodes /\ i \notin Children(i)
       /\ \A j \in -1 .. nfifos - 1 : i # j => Children(i) \cap Children(j) = {}
  /\ -1 \notin Leaves
<1>1. PICK h \in Nat : h >= 2 /\ nparts = 2 * h /\ nfifos = 2 * h - 2 /\ Leaves = h - 2 .. 2 * h - 3
  BY TreeSize
<1> QED
  BY <1>1 DEF Nodes, RunA, RunB, Children
------------------------------------------------------------------------------
(* The rings *)

(* A position of the buffer, for indices that run over its end once *)
Wrap(n) == IF n < fifosize THEN n ELSE n - fifosize

Ring(node) ==
  /\ node \in [buffer : [0 .. fifosize - 1 -> Nat], head : 0 .. fifosize - 1,
               tail : 0 .. fifosize - 1, count : 0 .. fifosize]
  /\ node.tail = Wrap(node.head + node.count)

InRing(node) == [k \in 1 .. node.count |-> node.buffer[Wrap(node.head + k - 1)]]

(* What a concatenation is *)
LEMMA ConcatAt ==
  ASSUME NEW U, NEW s \in Seq(U), NEW t \in Seq(U)
  PROVE  /\ s \o t \in Seq(U) /\ Len(s \o t) = Len(s) + Len(t) /\ DOMAIN (s \o t) = 1 .. Len(s) + Len(t)
         /\ \A k \in 1 .. Len(s) : (s \o t)[k] = s[k]
         /\ \A k \in 1 .. Len(t) : (s \o t)[Len(s) + k] = t[k]
  OBVIOUS

LEMMA ConcatIndex ==
  ASSUME NEW U, NEW s \in Seq(U), NEW t \in Seq(U), NEW j \in 1 .. Len(s) + Len(t)
  PROVE  (s \o t)[j] = IF j <= Len(s) THEN s[j] ELSE t[j - Len(s)]
  OBVIOUS

LEMMA WrapMod ==
  ASSUME fifosize \in Nat \ {0}, NEW n \in Nat, n < 2 * fifosize
  PROVE  n % fifosize = Wrap(n) /\ Wrap(n) \in 0 .. fifosize - 1
<1>1. CASE n < fifosize
  BY <1>1 DEF Wrap
<1>2. CASE n >= fifosize
  <2>1. n - fifosize \in 0 .. fifosize - 1
    BY <1>2
  <2>2. n % fifosize = n - fifosize
    BY <1>2, <2>1
  <2> QED BY <1>2, <2>1, <2>2 DEF Wrap
<1> QED
  BY <1>1, <1>2

LEMMA UsedSlotsAt ==
  ASSUME fifosize \in Nat \ {0}, NEW node, Ring(node), node.count # 0
  PROVE  /\ DOMAIN UsedSlots(node) = 1 .. node.count
         /\ \A k \in 1 .. node.count : UsedSlots(node)[k] = Wrap(node.head + k - 1)
<1> DEFINE h == node.head
           t == node.tail
           c == node.count
<1>1. h \in 0 .. fifosize - 1 /\ t \in 0 .. fifosize - 1 /\ c \in 1 .. fifosize /\ t = Wrap(h + c)
  BY DEF Ring
<1> HIDE DEF h, t, c
<1>2. CASE h >= t
  <2>1. c = fifosize - h + t
    BY <1>1, <1>2 DEF Wrap
  <2>2. /\ Slots(h, fifosize) \in Seq(Nat) /\ Len(Slots(h, fifosize)) = fifosize - h
        /\ Slots(0, t) \in Seq(Nat) /\ Len(Slots(0, t)) = t
        /\ \A k \in 1 .. fifosize - h : Slots(h, fifosize)[k] = h + k - 1
        /\ \A k \in 1 .. t : Slots(0, t)[k] = k - 1
    BY <1>1 DEF Slots
  <2>3. UsedSlots(node) = Slots(h, fifosize) \o Slots(0, t)
    BY <1>2 DEF UsedSlots, h, t
  <2> DEFINE s == Slots(h, fifosize)
             r == Slots(0, t)
  <2> HIDE DEF s, r
  <2>s. s \in Seq(Nat) /\ r \in Seq(Nat) /\ Len(s) = fifosize - h /\ Len(r) = t
    BY <2>2 DEF s, r
  <2>4. DOMAIN UsedSlots(node) = 1 .. c
    <3> DEFINE u == s \o r
    <3>1. u \in Seq(Nat) /\ Len(u) = Len(s) + Len(r)
      BY <2>s, ConcatAt
    <3>2. UsedSlots(node) = u
      BY <2>3 DEF s, r
    <3>3. Len(s) + Len(r) = c
      BY <1>1, <2>1, <2>s
    <3> HIDE DEF u
    <3>4. DOMAIN u = 1 .. Len(u)
      BY <3>1
    <3> QED BY <3>1, <3>2, <3>3, <3>4
  <2>5. ASSUME NEW k \in 1 .. c PROVE UsedSlots(node)[k] = Wrap(h + k - 1)
    <3>0. k \in 1 .. Len(s) + Len(r)
      BY <1>1, <2>1, <2>s
    <3>1. (s \o r)[k] = IF k <= Len(s) THEN s[k] ELSE r[k - Len(s)]
      BY <2>s, <3>0, ConcatIndex
    <3>2. k <= fifosize - h => s[k] = h + k - 1
      BY <1>1, <2>2 DEF s
    <3>3. k > fifosize - h => r[k - Len(s)] = k - Len(s) - 1
      <4>1. \A j \in 1 .. t : r[j] = j - 1
        BY <2>2 DEF r
      <4>2. k > fifosize - h => k - Len(s) \in 1 .. t
        BY <1>1, <2>1, <2>s
      <4>3. Len(s) \in Int /\ Len(s) = fifosize - h
        BY <1>1, <2>s
      <4> DEFINE j == k - Len(s)
      <4> HIDE DEF j
      <4>4. k > fifosize - h => r[j] = j - 1
        BY <4>1, <4>2 DEF j
      <4> QED BY <4>4 DEF j
    <3>4. UsedSlots(node)[k] = (s \o r)[k]
      BY <2>3 DEF s, r
    <3> QED BY <1>1, <2>1, <2>s, <3>1, <3>2, <3>3, <3>4 DEF Wrap
  <2> QED BY <2>4, <2>5 DEF h, c
<1>3. CASE h < t
  <2>1. c = t - h
    BY <1>1, <1>3 DEF Wrap
  <2>2. UsedSlots(node) = Slots(h, t)
    BY <1>1, <1>3 DEF UsedSlots, h, t
  <2>3. UsedSlots(node) = [k \in 1 .. c |-> h + k - 1]
    BY <2>1, <2>2 DEF Slots
  <2>4. \A k \in 1 .. c : Wrap(h + k - 1) = h + k - 1
    BY <1>1, <2>1 DEF Wrap
  <2> QED BY <2>3, <2>4 DEF h, c
<1> QED
  BY <1>1, <1>2, <1>3

LEMMA RingContents ==
  ASSUME fifosize \in Nat \ {0}, NEW node, Ring(node)
  PROVE  /\ Contents(node) = InRing(node) /\ Contents(node) \in Seq(Nat)
         /\ Len(Contents(node)) = node.count
<1> DEFINE c == node.count
<1>1. c \in 0 .. fifosize /\ node.head \in 0 .. fifosize - 1 /\ node.buffer \in [0 .. fifosize - 1 -> Nat]
  BY DEF Ring
<1>2. Contents(node) = InRing(node)
  <2>1. CASE c = 0
    BY <2>1 DEF Contents, InRing
  <2>2. CASE c # 0
    BY <2>2, UsedSlotsAt DEF Contents, InRing
  <2> QED BY <2>1, <2>2
<1>3. ASSUME NEW k \in 1 .. c PROVE node.buffer[Wrap(node.head + k - 1)] \in Nat
  <2>1. Wrap(node.head + k - 1) \in 0 .. fifosize - 1
    BY <1>1 DEF Wrap
  <2> QED BY <1>1, <2>1
<1>4. InRing(node) \in Seq(Nat) /\ Len(InRing(node)) = c
  <2> DEFINE s == [k \in 1 .. c |-> node.buffer[Wrap(node.head + k - 1)]]
  <2>1. s \in [1 .. c -> Nat] /\ c \in Nat
    BY <1>1, <1>3
  <2>2. InRing(node) = s
    BY DEF InRing
  <2> HIDE DEF s, c
  <2> QED BY <2>1, <2>2
<1> QED
  BY <1>2, <1>4

LEMMA SlotsAre ==
  ASSUME NEW from \in Nat, NEW to \in Nat, from <= to
  PROVE  /\ Slots(from, to) \in Seq(Nat) /\ Len(Slots(from, to)) = to - from
         /\ \A j \in 1 .. to - from : Slots(from, to)[j] = from + j - 1
<1> DEFINE s == [k \in 1 .. to - from |-> from + k - 1]
<1>1. Slots(from, to) = s /\ to - from \in Nat /\ \A k \in 1 .. to - from : from + k - 1 \in Nat
  BY DEF Slots
<1>2. s \in Seq(Nat) /\ Len(s) = to - from
  BY <1>1
<1> QED
  BY <1>1, <1>2

(* The free slots of a ring follow its tail. *)
LEMMA FreeSlotsAt ==
  ASSUME fifosize \in Nat \ {0}, NEW node, Ring(node), NEW n \in 1 .. fifosize - node.count, NEW k \in 1 .. n
  PROVE  FreeSlots(node)[k] = Wrap(node.tail + k - 1)
<1> DEFINE h == node.head
           t == node.tail
           c == node.count
<1>1. h \in 0 .. fifosize - 1 /\ t \in 0 .. fifosize - 1 /\ c \in 0 .. fifosize /\ t = Wrap(h + c) /\ c < fifosize
      /\ k \in Nat /\ k >= 1 /\ k <= fifosize - c
  BY DEF Ring
<1> HIDE DEF h, t, c
<1>2. CASE h > t
  <2>1. c = fifosize - h + t
    BY <1>1, <1>2 DEF Wrap
  <2>2. FreeSlots(node) = Slots(t, h)
    BY <1>2 DEF FreeSlots, h, t
  <2>3. k \in 1 .. h - t /\ Wrap(t + k - 1) = t + k - 1
    BY <1>1, <2>1 DEF Wrap
  <2>4. Slots(t, h)[k] = t + k - 1
    BY <2>3 DEF Slots
  <2> QED BY <2>2, <2>3, <2>4 DEF t
<1>3. CASE h <= t
  <2>1. c = t - h
    BY <1>1, <1>3 DEF Wrap
  <2> DEFINE s == Slots(t, fifosize)
             r == Slots(0, h)
  <2>z. fifosize \in Nat /\ h \in Nat /\ t \in Nat /\ t <= fifosize /\ 0 <= h /\ h - 0 = h
    BY <1>1
  <2>s. s \in Seq(Nat) /\ Len(s) = fifosize - t /\ r \in Seq(Nat) /\ Len(r) = h
    BY <2>z, SlotsAre
  <2>q. \A j \in 1 .. fifosize - t : s[j] = t + j - 1
    BY <2>z, SlotsAre
  <2>r. \A j \in 1 .. h : r[j] = j - 1
    BY <2>z, SlotsAre
  <2> HIDE DEF s, r
  <2>3. FreeSlots(node) = s \o r
    BY <1>1, <1>3 DEF FreeSlots, h, t, s, r
  <2>l. Len(s) + Len(r) = fifosize - c
    <3>1. Len(s) + Len(r) = (fifosize - t) + h
      BY <2>s
    <3>2. (fifosize - t) + h = fifosize - c
      BY <1>1, <2>1
    <3> QED BY <3>1, <3>2
  <2>4. k \in 1 .. Len(s) + Len(r)
    <3>1. k \in 1 .. fifosize - c
      BY <1>1
    <3> QED BY <2>l, <3>1
  <2>5. (s \o r)[k] = IF k <= Len(s) THEN s[k] ELSE r[k - Len(s)]
    BY <2>s, <2>4, ConcatIndex
  <2>6. k <= fifosize - t => s[k] = t + k - 1
    BY <1>1, <2>q
  <2>7. k > fifosize - t => r[k - Len(s)] = k - Len(s) - 1
    <3> DEFINE j == k - Len(s)
    <3>1. k > fifosize - t => j \in 1 .. h
      <4>1. k > fifosize - t => k - (fifosize - t) \in 1 .. h
        BY <1>1, <2>1
      <4> QED BY <2>s, <4>1
    <3> HIDE DEF j
    <3>2. k > fifosize - t => r[j] = j - 1
      BY <2>r, <3>1
    <3> QED BY <3>2 DEF j
  <2>8. (s \o r)[k] = Wrap(t + k - 1)
    BY <1>1, <2>s, <2>5, <2>6, <2>7 DEF Wrap
  <2> QED BY <2>3, <2>8 DEF t
<1> QED
  BY <1>1, <1>2, <1>3

(* The first n tuples of s and the others *)
LEMMA TakeRing ==
  ASSUME fifosize \in Nat \ {0}, NEW node, Ring(node), NEW n \in 0 .. node.count
  PROVE  /\ Ring(Take(node, n)) /\ Take(node, n).count = node.count - n
         /\ Contents(Take(node, n)) = Skip(Contents(node), n)
<1> DEFINE x == Take(node, n)
           h == node.head
           c == node.count
<1>0. /\ node \in [buffer : [0 .. fifosize - 1 -> Nat], head : 0 .. fifosize - 1,
                   tail : 0 .. fifosize - 1, count : 0 .. fifosize]
      /\ node.tail = Wrap(h + c)
  BY DEF Ring
<1>1. h \in 0 .. fifosize - 1 /\ c \in 0 .. fifosize /\ n \in Nat /\ n <= c
  BY <1>0
<1>2. x = [node EXCEPT !.head = (h + n) % fifosize, !.count = c - n]
  BY <1>0, <1>1 DEF Take
<1>3. (h + n) % fifosize = Wrap(h + n) /\ Wrap(h + n) \in 0 .. fifosize - 1
  <2> DEFINE g == h + n
  <2>1. g \in Nat /\ g < 2 * fifosize
    BY <1>1
  <2> HIDE DEF g
  <2>2. g % fifosize = Wrap(g) /\ Wrap(g) \in 0 .. fifosize - 1
    BY <2>1, WrapMod
  <2> QED BY <2>2 DEF g
<1>4. x.head = Wrap(h + n) /\ x.count = c - n /\ x.tail = node.tail /\ x.buffer = node.buffer
  BY <1>0, <1>2, <1>3
<1>5. x.tail = Wrap(x.head + x.count)
  <2>1. Wrap(h + c) = Wrap(Wrap(h + n) + (c - n))
    BY <1>1 DEF Wrap
  <2> QED BY <1>0, <1>4, <2>1
<1>6. Ring(x)
  <2>1. c - n \in 0 .. fifosize
    BY <1>1
  <2>2. x \in [buffer : [0 .. fifosize - 1 -> Nat], head : 0 .. fifosize - 1,
               tail : 0 .. fifosize - 1, count : 0 .. fifosize]
    BY <1>0, <1>2, <1>3, <2>1
  <2> QED BY <1>5, <2>2 DEF Ring
<1> HIDE DEF x
<1>7. Contents(x) = InRing(x) /\ Contents(node) = InRing(node) /\ Contents(node) \in Seq(Nat) /\ Len(Contents(node)) = c
  BY <1>6, RingContents
<1>8. ASSUME NEW k \in 1 .. c - n PROVE Wrap(x.head + k - 1) = Wrap(h + (n + k) - 1)
  <2>1. Wrap(Wrap(h + n) + k - 1) = Wrap(h + (n + k) - 1)
    BY <1>1 DEF Wrap
  <2> QED BY <1>4, <2>1
<1>9. InRing(x) = [k \in 1 .. c - n |-> InRing(node)[n + k]]
  <2>1. ASSUME NEW k \in 1 .. c - n PROVE InRing(node)[n + k] = node.buffer[Wrap(x.head + k - 1)]
    <3>1. n + k \in 1 .. c
      BY <1>1
    <3>2. InRing(node)[n + k] = node.buffer[Wrap(h + (n + k) - 1)]
      BY <3>1 DEF InRing
    <3> QED BY <1>8, <3>2
  <2> QED BY <1>4, <2>1 DEF InRing
<1>10. Skip(Contents(node), n) = [k \in 1 .. c - n |-> Contents(node)[n + k]]
  <2> DEFINE s == Contents(node)
  <2>1. s \in Seq(Nat) /\ Len(s) = c
    BY <1>7
  <2> HIDE DEF s
  <2>2. SubSeq(s, n + 1, Len(s)) = [k \in 1 .. c - n |-> s[n + k]]
    BY <1>1, <2>1
  <2> QED BY <2>2 DEF Skip, s
<1> QED
  BY <1>4, <1>6, <1>7, <1>9, <1>10 DEF x

PutBuffer(node, s, free) ==
  [slot \in DOMAIN node.buffer |->
     IF \E k \in DOMAIN s : free[k] = slot THEN s[CHOOSE k \in DOMAIN s : free[k] = slot] ELSE node.buffer[slot]]

LEMMA PutIs ==
  ASSUME NEW node, NEW s
  PROVE  Put(node, s) = [node EXCEPT !.buffer = PutBuffer(node, s, FreeSlots(node)),
                                     !.tail = (node.tail + Len(s)) % fifosize, !.count = node.count + Len(s)]
<1>1. Put(node, s) = Filled(node, s, FreeSlots(node))
  BY DEF Put, Once
<1> QED
  BY <1>1 DEF Filled, PutBuffer

(* What is put in a ring comes after what is there. *)
LEMMA PutRing ==
  ASSUME fifosize \in Nat \ {0}, NEW node, Ring(node), NEW s \in Seq(Nat), Len(s) <= Room(node)
  PROVE  /\ Ring(Put(node, s)) /\ Put(node, s).count = node.count + Len(s)
         /\ Contents(Put(node, s)) = Contents(node) \o s
<1> DEFINE x == Put(node, s)
           h == node.head
           t == node.tail
           c == node.count
           l == Len(s)
           free == FreeSlots(node)
           buf == PutBuffer(node, s, free)
           P == 0 .. fifosize - 1
<1>0. /\ node \in [buffer : [P -> Nat], head : P, tail : P, count : 0 .. fifosize]
      /\ t = Wrap(h + c)
  BY DEF Ring
<1>1. h \in P /\ t \in P /\ c \in 0 .. fifosize /\ l \in Nat /\ c + l <= fifosize
  BY <1>0 DEF Room
<1>2. \A k \in 1 .. l : free[k] = Wrap(t + k - 1)
  <2> SUFFICES ASSUME NEW k \in 1 .. l PROVE free[k] = Wrap(t + k - 1)
    OBVIOUS
  <2>1. l \in 1 .. fifosize - c
    <3>1. l >= 1
      <4> HIDE DEF l
      <4> QED BY <1>1
    <3> HIDE DEF l, c
    <3> QED BY <1>1, <3>1
  <2> QED BY <2>1, FreeSlotsAt
<1>3. DOMAIN s = 1 .. l /\ \A k \in 1 .. l : s[k] \in Nat
  OBVIOUS
<1>4. node.buffer \in [P -> Nat] /\ DOMAIN node.buffer = P
  BY <1>0
<1>12. x = [node EXCEPT !.buffer = buf, !.tail = (t + l) % fifosize, !.count = c + l]
  BY PutIs, Zenon
<1> HIDE DEF h, t, c, l, free, x
(* The free slots are apart from each other and from the used ones. *)
<1>5. ASSUME NEW k \in 1 .. l, NEW j \in 1 .. l, free[k] = free[j] PROVE k = j
  <2>1. Wrap(t + k - 1) = Wrap(t + j - 1)
    BY <1>2, <1>5
  <2> QED BY <1>1, <2>1 DEF Wrap
<1>6. ASSUME NEW k \in 1 .. l PROVE free[k] \in P
  <2>1. Wrap(t + k - 1) \in P
    BY <1>1 DEF Wrap
  <2> QED BY <1>2, <2>1
<1>7. ASSUME NEW k \in 1 .. l, NEW j \in 1 .. c PROVE free[k] # Wrap(h + j - 1)
  <2>1. Wrap(Wrap(h + c) + k - 1) # Wrap(h + j - 1)
    BY <1>1 DEF Wrap
  <2> QED BY <1>0, <1>2, <2>1
<1>8. buf \in [P -> Nat]
  <2>1. ASSUME NEW slot \in P, \E k \in 1 .. l : free[k] = slot
        PROVE  s[CHOOSE k \in 1 .. l : free[k] = slot] \in Nat
    BY <1>3, <2>1
  <2> QED BY <1>3, <1>4, <2>1 DEF PutBuffer
<1>9. ASSUME NEW k \in 1 .. l PROVE buf[free[k]] = s[k]
  <2>1. (CHOOSE j \in 1 .. l : free[j] = free[k]) = k
    BY <1>5
  <2> QED BY <1>3, <1>4, <1>6, <2>1 DEF PutBuffer
<1>10. ASSUME NEW j \in 1 .. c PROVE buf[Wrap(h + j - 1)] = node.buffer[Wrap(h + j - 1)]
  <2>1. Wrap(h + j - 1) \in P
    BY <1>1 DEF Wrap
  <2>2. ~ \E k \in 1 .. l : free[k] = Wrap(h + j - 1)
    BY <1>7
  <2> QED BY <1>3, <1>4, <2>1, <2>2 DEF PutBuffer
<1>11. (t + l) % fifosize = Wrap(t + l) /\ Wrap(t + l) \in P
  <2> DEFINE g == t + l
  <2>1. g \in Nat /\ g < 2 * fifosize
    BY <1>1
  <2> HIDE DEF g
  <2>2. g % fifosize = Wrap(g) /\ Wrap(g) \in P
    BY <2>1, WrapMod
  <2> QED BY <2>2 DEF g
<1> HIDE DEF buf
<1>13. x.head = h /\ x.tail = Wrap(t + l) /\ x.count = c + l /\ x.buffer = buf
  BY <1>0, <1>11, <1>12 DEF h
<1>14. Ring(x)
  <2>1. x.tail = Wrap(x.head + x.count)
    <3>1. Wrap(Wrap(h + c) + l) = Wrap(h + (c + l))
      BY <1>1 DEF Wrap
    <3> QED BY <1>0, <1>13, <3>1
  <2>2. c + l \in 0 .. fifosize
    BY <1>1
  <2>3. x \in [buffer : [P -> Nat], head : P, tail : P, count : 0 .. fifosize]
    BY <1>0, <1>8, <1>11, <1>12, <2>2
  <2> QED BY <2>1, <2>3 DEF Ring
<1>15. /\ Contents(x) = InRing(x) /\ Contents(node) = InRing(node)
       /\ Contents(node) \in Seq(Nat) /\ Len(Contents(node)) = c
  BY <1>14, RingContents DEF c
<1>16. InRing(x) = [j \in 1 .. c + l |-> buf[Wrap(h + j - 1)]] /\ InRing(node) = [j \in 1 .. c |-> node.buffer[Wrap(h + j - 1)]]
  BY <1>13 DEF InRing, h, c
<1>17. ASSUME NEW j \in 1 .. c + l PROVE InRing(x)[j] = (InRing(node) \o s)[j]
  <2> DEFINE H == InRing(node)
  <2>1. H \in Seq(Nat) /\ Len(H) = c /\ Len(s) = l
    BY <1>15 DEF l
  <2> HIDE DEF H
  <2>2. j \in 1 .. Len(H) + Len(s)
    BY <2>1
  <2>3. (H \o s)[j] = IF j <= Len(H) THEN H[j] ELSE s[j - Len(H)]
    BY <2>1, <2>2, ConcatIndex
  <2>4. CASE j <= c
    <3>1. j \in 1 .. c
      BY <1>1, <2>4
    <3>2. InRing(x)[j] = buf[Wrap(h + j - 1)] /\ H[j] = node.buffer[Wrap(h + j - 1)]
      BY <1>16, <3>1 DEF H
    <3> QED BY <1>10, <2>1, <2>3, <2>4, <3>1, <3>2 DEF H
  <2>5. CASE j > c
    <3> DEFINE k == j - c
    <3>1. k \in 1 .. l /\ ~ (j <= c)
      BY <1>1, <2>5
    <3>2. Wrap(Wrap(h + c) + k - 1) = Wrap(h + j - 1)
      BY <1>1, <2>5 DEF Wrap
    <3>3. free[k] = Wrap(h + j - 1)
      <4> HIDE DEF k
      <4>1. free[k] = Wrap(t + k - 1)
        BY <1>2, <3>1
      <4> QED BY <1>0, <3>2, <4>1
    <3>4. InRing(x)[j] = buf[free[k]]
      BY <1>16, <3>3
    <3>5. buf[free[k]] = s[k]
      BY <1>9, <3>1
    <3>6. (H \o s)[j] = s[k]
      BY <2>1, <2>3, <3>1
    <3> QED BY <3>4, <3>5, <3>6 DEF H
  <2>6. j <= c \/ j > c
    BY <1>1
  <2> QED BY <2>4, <2>5, <2>6
<1>18. InRing(x) = InRing(node) \o s
  <2> DEFINE H == InRing(node)
             u == H \o s
             v == InRing(x)
  <2>1. H \in Seq(Nat) /\ Len(H) = c /\ Len(s) = l
    BY <1>15 DEF l
  <2>2. u \in Seq(Nat) /\ Len(u) = c + l
    <3> HIDE DEF H
    <3> QED BY <2>1, ConcatAt
  <2>3. v = [j \in 1 .. c + l |-> v[j]]
    BY <1>16
  <2>4. \A j \in 1 .. c + l : v[j] = u[j]
    BY <1>17
  <2> HIDE DEF u, v
  <2>5. u = [j \in 1 .. c + l |-> u[j]]
    BY <2>2
  <2>6. u = v
    BY <2>3, <2>4, <2>5
  <2> QED BY <2>6 DEF u, v
<1> QED
  BY <1>13, <1>14, <1>15, <1>18 DEF x, c, l

------------------------------------------------------------------------------
(* Sequences of keys *)

Rising(s) == \A i, j \in 1 .. Len(s) : i < j => s[i] <= s[j]

LEMMA OrderedRising ==
  ASSUME NEW s \in Seq(Nat)
  PROVE  Ordered(s) <=> Rising(s)
<1>1. Rising(s) => Ordered(s)
  <2> SUFFICES ASSUME Rising(s), NEW k \in 1 .. Len(s) - 1 PROVE s[k] <= s[k + 1]
    BY DEF Ordered
  <2>1. k \in 1 .. Len(s) /\ k + 1 \in 1 .. Len(s) /\ k < k + 1
    OBVIOUS
  <2> QED BY <2>1 DEF Rising
<1>2. ASSUME Ordered(s) PROVE Rising(s)
  <2> DEFINE l == Len(s)
             T == {n \in Nat : \A i \in 1 .. l : i + n \in 1 .. l => s[i] <= s[i + n]}
  <2>0. l \in Nat /\ \A i \in 1 .. l : s[i] \in Nat
    OBVIOUS
  <2>1. 0 \in T
    BY <2>0
  <2>2. ASSUME NEW n \in Nat, n \in T PROVE n + 1 \in T
    <3> SUFFICES ASSUME NEW i \in 1 .. l, i + (n + 1) \in 1 .. l PROVE s[i] <= s[i + (n + 1)]
      OBVIOUS
    <3> DEFINE j == i + n
    <3>1. j \in 1 .. l /\ j \in 1 .. l - 1 /\ i + (n + 1) = j + 1 /\ j + 1 \in 1 .. l
      BY <2>0
    <3>2. s[i] <= s[j]
      BY <2>2, <3>1
    <3> HIDE DEF j
    <3>3. s[j] <= s[j + 1]
      BY <1>2, <3>1 DEF Ordered
    <3>4. s[i] \in Nat /\ s[j] \in Nat /\ s[j + 1] \in Nat
      BY <2>0, <3>1
    <3>5. s[i] <= s[j + 1]
      <4> DEFINE x == s[i]
                 y == s[j]
                 z == s[j + 1]
      <4>1. x <= y /\ y <= z /\ x \in Nat /\ y \in Nat /\ z \in Nat
        BY <3>2, <3>3, <3>4
      <4> HIDE DEF x, y, z
      <4>2. x <= z
        BY <4>1
      <4> QED BY <4>2 DEF x, z
    <3> QED BY <3>1, <3>5
  <2> HIDE DEF T
  <2>3. Nat \subseteq T
    BY <2>1, <2>2, SetInduction
  <2>4. ASSUME NEW i \in 1 .. Len(s), NEW j \in 1 .. Len(s), i < j PROVE s[i] <= s[j]
    <3> DEFINE n == j - i
    <3>1. n \in Nat /\ i + n = j /\ i + n \in 1 .. l
      BY <2>4
    <3>2. \A e \in 1 .. l : e + n \in 1 .. l => s[e] <= s[e + n]
      BY <2>3, <3>1 DEF T
    <3> HIDE DEF n
    <3>3. s[i] <= s[i + n]
      BY <3>1, <3>2
    <3> QED BY <3>1, <3>3
  <2> QED BY <2>4 DEF Rising
<1> QED
  BY <1>1, <1>2

AtLeast(x, s) == \A k \in 1 .. Len(s) : x <= s[k]
AtMost(s, x)  == \A k \in 1 .. Len(s) : s[k] <= x

Spots(x, s) == {k \in 1 .. Len(s) : s[k] = x}

LEMMA CopiesType ==
  ASSUME NEW x, NEW s, Len(s) \in Nat
  PROVE  IsFiniteSet(Spots(x, s)) /\ Copies(x, s) = Cardinality(Spots(x, s)) /\ Copies(x, s) \in Nat
<1>1. IsFiniteSet(1 .. Len(s))
  BY FS_Interval
<1>2. IsFiniteSet(Spots(x, s))
  BY <1>1, FS_Subset DEF Spots
<1> QED
  BY <1>2, FS_CardinalityType DEF Copies, Spots

LEMMA CopiesEmpty == ASSUME NEW x PROVE Copies(x, <<>>) = 0
<1>1. {k \in 1 .. Len(<<>>) : <<>>[k] = x} = {}
  OBVIOUS
<1> QED
  BY <1>1, FS_EmptySet DEF Copies

LEMMA CopiesAppend ==
  ASSUME NEW x, NEW s \in Seq(Nat), NEW v \in Nat
  PROVE  Copies(x, Append(s, v)) = Copies(x, s) + (IF v = x THEN 1 ELSE 0)
<1> DEFINE l == Len(s)
           u == Append(s, v)
<1>1. l \in Nat /\ Len(s) = l /\ u \in Seq(Nat) /\ Len(u) = l + 1 /\ u[l + 1] = v /\ \A k \in 1 .. l : u[k] = s[k]
  OBVIOUS
<1> HIDE DEF u, l
<1>2. Spots(x, s) = {k \in 1 .. l : s[k] = x} /\ Spots(x, u) = {k \in 1 .. l + 1 : u[k] = x}
  BY <1>1 DEF Spots
<1>3. \A k : k \in 1 .. l + 1 <=> k \in 1 .. l \/ k = l + 1
  BY <1>1
<1>4. l + 1 \notin 1 .. l
  BY <1>1
<1>5. /\ IsFiniteSet(Spots(x, s)) /\ Copies(x, s) = Cardinality(Spots(x, s)) /\ Copies(x, s) \in Nat
      /\ Copies(x, u) = Cardinality(Spots(x, u))
  BY <1>1, CopiesType
<1>6. CASE v = x
  <2>1. Spots(x, u) = Spots(x, s) \cup {l + 1} /\ l + 1 \notin Spots(x, s)
    <3>1. \A k : k \in Spots(x, u) <=> k \in Spots(x, s) \/ k = l + 1
      BY <1>1, <1>2, <1>3, <1>6
    <3> QED BY <1>2, <1>4, <3>1
  <2>2. Cardinality(Spots(x, s) \cup {l + 1}) = Cardinality(Spots(x, s)) + 1
    BY <1>5, <2>1, FS_AddElement
  <2>3. Copies(x, u) = Copies(x, s) + 1
    BY <1>5, <2>1, <2>2
  <2> QED BY <1>6, <2>3 DEF u
<1>7. CASE v # x
  <2>1. Spots(x, u) = Spots(x, s)
    <3>1. \A k : k \in Spots(x, u) <=> k \in Spots(x, s)
      BY <1>1, <1>2, <1>3, <1>4, <1>7
    <3> QED BY <3>1
  <2>2. Copies(x, u) = Copies(x, s) + 0
    BY <1>5, <2>1
  <2> QED BY <1>7, <2>2 DEF u
<1> QED
  BY <1>6, <1>7

LEMMA SubSeqNext ==
  ASSUME NEW s \in Seq(Nat), NEW n \in Nat, n + 1 <= Len(s)
  PROVE  SubSeq(s, 1, n + 1) = Append(SubSeq(s, 1, n), s[n + 1]) /\ s[n + 1] \in Nat /\ SubSeq(s, 1, n) \in Seq(Nat)
<1> DEFINE u == SubSeq(s, 1, n)
           v == SubSeq(s, 1, n + 1)
<1>1. u = [k \in 1 .. n |-> s[k]] /\ v = [k \in 1 .. n + 1 |-> s[k]] /\ \A k \in 1 .. n + 1 : s[k] \in Nat
  OBVIOUS
<1>2. u \in Seq(Nat) /\ Len(u) = n
  BY <1>1
<1>3. Append(u, s[n + 1]) = [k \in 1 .. n + 1 |-> IF k = n + 1 THEN s[n + 1] ELSE u[k]]
  <2> HIDE DEF u
  <2> QED BY <1>2
<1> HIDE DEF u, v
<1>4. \A k \in 1 .. n + 1 : s[k] = IF k = n + 1 THEN s[n + 1] ELSE u[k]
  BY <1>1
<1>5. v = Append(u, s[n + 1])
  BY <1>1, <1>3, <1>4
<1> QED
  BY <1>1, <1>2, <1>5 DEF u, v

LEMMA CopiesConcat ==
  ASSUME NEW x, NEW s \in Seq(Nat), NEW t \in Seq(Nat)
  PROVE  Copies(x, s \o t) = Copies(x, s) + Copies(x, t)
<1> DEFINE T == {n \in Nat : n <= Len(t) => Copies(x, s \o SubSeq(t, 1, n)) = Copies(x, s) + Copies(x, SubSeq(t, 1, n))}
<1>1. 0 \in T
  <2>1. SubSeq(t, 1, 0) = <<>> /\ s \o <<>> = s
    OBVIOUS
  <2>2. Copies(x, s) = Copies(x, s) + Copies(x, <<>>)
    BY CopiesEmpty, CopiesType
  <2> QED BY <2>1, <2>2
<1>2. ASSUME NEW n \in Nat, n \in T PROVE n + 1 \in T
  <2> SUFFICES ASSUME n + 1 <= Len(t)
      PROVE  Copies(x, s \o SubSeq(t, 1, n + 1)) = Copies(x, s) + Copies(x, SubSeq(t, 1, n + 1))
    OBVIOUS
  <2> DEFINE u == SubSeq(t, 1, n)
             v == t[n + 1]
             d == IF v = x THEN 1 ELSE 0
  <2>1. SubSeq(t, 1, n + 1) = Append(u, v) /\ v \in Nat /\ u \in Seq(Nat)
    BY SubSeqNext
  <2>2. Copies(x, s \o u) = Copies(x, s) + Copies(x, u)
    <3>1. n <= Len(t) => Copies(x, s \o u) = Copies(x, s) + Copies(x, u)
      BY <1>2
    <3>2. n <= Len(t)
      OBVIOUS
    <3> QED BY <3>1, <3>2
  <2> HIDE DEF u, v
  <2>3. s \o u \in Seq(Nat) /\ s \o Append(u, v) = Append(s \o u, v)
    BY <2>1
  <2>4. Copies(x, Append(s \o u, v)) = Copies(x, s \o u) + d /\ Copies(x, Append(u, v)) = Copies(x, u) + d
    BY <2>1, <2>3, CopiesAppend
  <2>5. Copies(x, s) \in Nat /\ Copies(x, u) \in Nat /\ d \in Nat
    BY <2>1, CopiesType
  <2> HIDE DEF d
  <2>6. Copies(x, Append(s \o u, v)) = Copies(x, s) + Copies(x, Append(u, v))
    BY <2>2, <2>4, <2>5
  <2>7. s \o SubSeq(t, 1, n + 1) = Append(s \o u, v)
    BY <2>1, <2>3
  <2> QED BY <2>1, <2>6, <2>7
<1> HIDE DEF T
<1>3. Nat \subseteq T
  BY <1>1, <1>2, SetInduction
<1>4. Len(t) \in Nat /\ SubSeq(t, 1, Len(t)) = t
  OBVIOUS
<1>5. Len(t) \in T
  BY <1>3, <1>4
<1>6. Copies(x, s \o SubSeq(t, 1, Len(t))) = Copies(x, s) + Copies(x, SubSeq(t, 1, Len(t)))
  BY <1>4, <1>5 DEF T
<1> QED
  BY <1>4, <1>6

------------------------------------------------------------------------------
(* Merging *)

(* s is a merge of the first a of A and the first b of B, and nothing of    *)
(* what is left of them is smaller than what is in s.                       *)
Split(A, B, a, b, s) ==
  /\ a \in 0 .. Len(A) /\ b \in 0 .. Len(B)
  /\ s \in Seq(Nat) /\ Len(s) = a + b
  /\ Rising(s)
  /\ \A k \in 1 .. Len(s) : (\E i \in 1 .. a : s[k] = A[i]) \/ (\E i \in 1 .. b : s[k] = B[i])
  /\ \A k \in 1 .. Len(s) : (\A i \in a + 1 .. Len(A) : s[k] <= A[i]) /\ (\A i \in b + 1 .. Len(B) : s[k] <= B[i])
  /\ \A x : Copies(x, s) = Copies(x, SubSeq(A, 1, a)) + Copies(x, SubSeq(B, 1, b))

LEMMA SubSeqIs ==
  ASSUME NEW A \in Seq(Nat), NEW a \in Nat, NEW m \in Nat, a + m <= Len(A)
  PROVE  /\ SubSeq(A, a + 1, a + m) \in Seq(Nat)
         /\ Len(SubSeq(A, a + 1, a + m)) = m
         /\ \A k \in 1 .. m : SubSeq(A, a + 1, a + m)[k] = A[a + k]
<1>1. \A k \in 1 .. m : A[a + k] \in Nat
  OBVIOUS
<1>2. SubSeq(A, a + 1, a + m) = [k \in 1 .. m |-> A[a + k]]
  <2>1. SubSeq(A, a + 1, a + m) = [k \in 1 .. (1 + (a + m) - (a + 1)) |-> A[k + (a + 1) - 1]]
    OBVIOUS
  <2>2. 1 + (a + m) - (a + 1) = m /\ \A k \in 1 .. m : k + (a + 1) - 1 = a + k
    OBVIOUS
  <2> QED BY <2>1, <2>2
<1> QED
  BY <1>1, <1>2

LEMMA ConcatAtEnd ==
  ASSUME NEW s \in Seq(Nat), NEW t \in Seq(Nat)
  PROVE  /\ s \o t \in Seq(Nat) /\ Len(s \o t) = Len(s) + Len(t)
         /\ \A k \in 1 .. Len(s) : (s \o t)[k] = s[k]
         /\ \A k \in 1 .. Len(t) : (s \o t)[Len(s) + k] = t[k]
         /\ \A k \in 1 .. Len(s \o t) : k \in 1 .. Len(s) \/ \E i \in 1 .. Len(t) : k = Len(s) + i
<1>1. s \o t \in Seq(Nat) /\ Len(s \o t) = Len(s) + Len(t)
  OBVIOUS
<1>2. \A k \in 1 .. Len(s) : (s \o t)[k] = s[k]
  OBVIOUS
<1>3. \A k \in 1 .. Len(t) : (s \o t)[Len(s) + k] = t[k]
  OBVIOUS
<1>4. ASSUME NEW k \in 1 .. Len(s \o t) PROVE k \in 1 .. Len(s) \/ \E i \in 1 .. Len(t) : k = Len(s) + i
  <2> DEFINE l == Len(s)
             n == Len(t)
  <2>1. l \in Nat /\ n \in Nat /\ k \in 1 .. l + n
    BY <1>1
  <2> HIDE DEF l, n
  <2>2. k \in 1 .. l \/ (k - l \in 1 .. n /\ k = l + (k - l))
    BY <2>1
  <2> QED BY <2>2 DEF l, n
<1> QED
  BY <1>1, <1>2, <1>3, <1>4

LEMMA SeqEqual ==
  ASSUME NEW u, NEW w, u \in Seq(Nat), w \in Seq(Nat), Len(u) = Len(w), \A k \in 1 .. Len(u) : u[k] = w[k]
  PROVE  u = w
<1> DEFINE l == Len(u)
<1>1. u = [k \in 1 .. l |-> u[k]]
  OBVIOUS
<1>2. w = [k \in 1 .. l |-> w[k]]
  OBVIOUS
<1>3. [k \in 1 .. l |-> u[k]] = [k \in 1 .. l |-> w[k]]
  OBVIOUS
<1> HIDE DEF l
<1> QED
  BY <1>1, <1>2, <1>3, Zenon

LEMMA SubSeqJoin ==
  ASSUME NEW A \in Seq(Nat), NEW a \in Nat, NEW m \in Nat, a + m <= Len(A)
  PROVE  SubSeq(A, 1, a + m) = SubSeq(A, 1, a) \o SubSeq(A, a + 1, a + m)
<1> DEFINE p == SubSeq(A, 1, a)
           q == SubSeq(A, a + 1, a + m)
           r == SubSeq(A, 1, a + m)
<1>0. Len(A) \in Nat
  OBVIOUS
<1>1. p \in Seq(Nat) /\ Len(p) = a /\ \A k \in 1 .. a : p[k] = A[k]
  <2>1. SubSeq(A, 0 + 1, 0 + a) \in Seq(Nat) /\ Len(SubSeq(A, 0 + 1, 0 + a)) = a
        /\ \A k \in 1 .. a : SubSeq(A, 0 + 1, 0 + a)[k] = A[0 + k]
    BY <1>0, SubSeqIs
  <2>2. 0 + 1 = 1 /\ 0 + a = a /\ \A k \in 1 .. a : 0 + k = k
    OBVIOUS
  <2> QED BY <2>1, <2>2
<1>2. q \in Seq(Nat) /\ Len(q) = m /\ \A k \in 1 .. m : q[k] = A[a + k]
  BY SubSeqIs
<1>3. r \in Seq(Nat) /\ Len(r) = a + m /\ \A k \in 1 .. a + m : r[k] = A[k]
  <2> DEFINE n == a + m
  <2>1. SubSeq(A, 0 + 1, 0 + n) \in Seq(Nat) /\ Len(SubSeq(A, 0 + 1, 0 + n)) = n
        /\ \A k \in 1 .. n : SubSeq(A, 0 + 1, 0 + n)[k] = A[0 + k]
    <3>1. n \in Nat /\ 0 \in Nat /\ 0 + n <= Len(A)
      BY <1>0
    <3> HIDE DEF n
    <3> QED BY ONLY A \in Seq(Nat), <3>1, SubSeqIs
  <2>2. 0 + 1 = 1 /\ 0 + n = n /\ \A k \in 1 .. n : 0 + k = k
    OBVIOUS
  <2> QED BY <2>1, <2>2
<1> HIDE DEF p, q, r
<1>4. /\ p \o q \in Seq(Nat) /\ Len(p \o q) = a + m
      /\ \A k \in 1 .. a : (p \o q)[k] = p[k]
      /\ \A k \in 1 .. m : (p \o q)[a + k] = q[k]
      /\ \A k \in 1 .. a + m : k \in 1 .. a \/ \E i \in 1 .. m : k = a + i
  <2>1. p \in Seq(Nat) /\ q \in Seq(Nat) /\ Len(p) = a /\ Len(q) = m
    BY <1>1, <1>2
  <2>2. /\ p \o q \in Seq(Nat) /\ Len(p \o q) = Len(p) + Len(q)
        /\ \A k \in 1 .. Len(p) : (p \o q)[k] = p[k]
        /\ \A k \in 1 .. Len(q) : (p \o q)[Len(p) + k] = q[k]
        /\ \A k \in 1 .. Len(p \o q) : k \in 1 .. Len(p) \/ \E i \in 1 .. Len(q) : k = Len(p) + i
    BY <2>1, ConcatAtEnd, Zenon
  <2> QED BY <2>1, <2>2, Zenon
<1>5. ASSUME NEW k \in 1 .. a + m PROVE (p \o q)[k] = r[k]
  <2>1. CASE k \in 1 .. a
    BY <1>1, <1>3, <1>4, <2>1
  <2>2. CASE \E i \in 1 .. m : k = a + i
    <3>1. PICK i \in 1 .. m : k = a + i
      BY <2>2
    <3>2. (p \o q)[a + i] = q[i] /\ q[i] = A[a + i] /\ r[k] = A[k]
      BY <1>2, <1>3, <1>4
    <3>3. a + i = k
      BY <3>1
    <3> QED BY <3>2, <3>3, Zenon
  <2> QED BY <1>4, <2>1, <2>2
<1>6. p \o q = r
  <2>1. p \o q \in Seq(Nat) /\ r \in Seq(Nat) /\ Len(p \o q) = Len(r) /\ \A k \in 1 .. Len(r) : (p \o q)[k] = r[k]
    BY <1>3, <1>4, <1>5
  <2> DEFINE w == p \o q
  <2>2. w \in Seq(Nat) /\ r \in Seq(Nat) /\ Len(w) = Len(r) /\ \A k \in 1 .. Len(w) : w[k] = r[k]
    BY <2>1
  <2> HIDE DEF w
  <2>3. w = r
    BY ONLY <2>2, SeqEqual
  <2> QED BY <2>3 DEF w
<1> QED
  BY <1>6 DEF p, q, r

LEMMA ElementsType ==
  ASSUME NEW A \in Seq(Nat)
  PROVE  Len(A) \in Nat /\ \A i \in 1 .. Len(A) : A[i] \in Nat
  OBVIOUS

LEMMA PrefixIs ==
  ASSUME NEW A \in Seq(Nat), NEW a \in Nat, a <= Len(A)
  PROVE  SubSeq(A, 1, a) \in Seq(Nat) /\ Len(SubSeq(A, 1, a)) = a /\ \A k \in 1 .. a : SubSeq(A, 1, a)[k] = A[k]
<1>1. SubSeq(A, 0 + 1, 0 + a) \in Seq(Nat) /\ Len(SubSeq(A, 0 + 1, 0 + a)) = a
      /\ \A k \in 1 .. a : SubSeq(A, 0 + 1, 0 + a)[k] = A[0 + k]
  BY SubSeqIs
<1>2. 0 + 1 = 1 /\ 0 + a = a /\ \A k \in 1 .. a : 0 + k = k
  OBVIOUS
<1> QED
  BY <1>1, <1>2

LEMMA ConcatEnds ==
  ASSUME NEW s \in Seq(Nat), NEW t \in Seq(Nat), NEW l, NEW n, Len(s) = l, Len(t) = n
  PROVE  /\ s \o t \in Seq(Nat) /\ Len(s \o t) = l + n
         /\ \A k \in 1 .. l : (s \o t)[k] = s[k]
         /\ \A k \in 1 .. n : (s \o t)[l + k] = t[k]
         /\ \A k \in 1 .. l + n : k \in 1 .. l \/ \E i \in 1 .. n : k = l + i
<1>1. /\ s \o t \in Seq(Nat) /\ Len(s \o t) = Len(s) + Len(t)
      /\ \A k \in 1 .. Len(s) : (s \o t)[k] = s[k]
      /\ \A k \in 1 .. Len(t) : (s \o t)[Len(s) + k] = t[k]
      /\ \A k \in 1 .. Len(s \o t) : k \in 1 .. Len(s) \/ \E i \in 1 .. Len(t) : k = Len(s) + i
  BY ConcatAtEnd, Zenon
<1> QED
  BY <1>1, Zenon

LEMMA SplitTake ==
  ASSUME NEW A \in Seq(Nat), NEW B \in Seq(Nat), Rising(A), Rising(B),
         NEW a, NEW b, NEW s, Split(A, B, a, b, s),
         NEW m \in Nat, a + m <= Len(A),
         m = 0 \/ b = Len(B) \/ A[a + m] <= B[b + 1]
  PROVE  Split(A, B, a + m, b, s \o SubSeq(A, a + 1, a + m))
<1> DEFINE la == Len(A)
           lb == Len(B)
           l  == a + b
           t  == SubSeq(A, a + 1, a + m)
           u  == s \o t
<1>1. la \in Nat /\ lb \in Nat /\ Len(A) = la /\ Len(B) = lb
      /\ (\A i \in 1 .. la : A[i] \in Nat) /\ (\A i \in 1 .. lb : B[i] \in Nat)
  BY ElementsType
<1>2. /\ a \in 0 .. la /\ b \in 0 .. lb /\ s \in Seq(Nat) /\ Len(s) = l
      /\ \A i, j \in 1 .. l : i < j => s[i] <= s[j]
      /\ \A k \in 1 .. l : (\E i \in 1 .. a : s[k] = A[i]) \/ (\E i \in 1 .. b : s[k] = B[i])
      /\ \A k \in 1 .. l : (\A i \in a + 1 .. la : s[k] <= A[i]) /\ (\A i \in b + 1 .. lb : s[k] <= B[i])
      /\ \A x : Copies(x, s) = Copies(x, SubSeq(A, 1, a)) + Copies(x, SubSeq(B, 1, b))
  BY DEF Split, Rising
<1>3. a + m \in 0 .. la /\ a \in Nat /\ b \in Nat /\ l \in Nat /\ a + m <= la /\ l + m = a + m + b
  BY <1>1, <1>2
<1>4. t \in Seq(Nat) /\ Len(t) = m /\ \A k \in 1 .. m : t[k] = A[a + k]
  <2>1. a \in Nat /\ a + m <= Len(A)
    BY <1>3
  <2> QED BY <2>1, SubSeqIs
<1>5. SubSeq(A, 1, a + m) = SubSeq(A, 1, a) \o t /\ SubSeq(A, 1, a) \in Seq(Nat)
  BY <1>3, SubSeqJoin
<1> HIDE DEF t
<1>6. /\ u \in Seq(Nat) /\ Len(u) = l + m
      /\ \A k \in 1 .. l : u[k] = s[k]
      /\ \A k \in 1 .. m : u[l + k] = t[k]
      /\ \A k \in 1 .. l + m : k \in 1 .. l \/ \E i \in 1 .. m : k = l + i
  <2>1. s \in Seq(Nat) /\ t \in Seq(Nat) /\ Len(s) = l /\ Len(t) = m
    BY <1>2, <1>4
  <2> HIDE DEF l, u
  <2>2. /\ s \o t \in Seq(Nat) /\ Len(s \o t) = l + m
        /\ \A k \in 1 .. l : (s \o t)[k] = s[k]
        /\ \A k \in 1 .. m : (s \o t)[l + k] = t[k]
        /\ \A k \in 1 .. l + m : k \in 1 .. l \/ \E i \in 1 .. m : k = l + i
    <3>1. /\ s \o t \in Seq(Nat) /\ Len(s \o t) = Len(s) + Len(t)
          /\ \A k \in 1 .. Len(s) : (s \o t)[k] = s[k]
          /\ \A k \in 1 .. Len(t) : (s \o t)[Len(s) + k] = t[k]
          /\ \A k \in 1 .. Len(s \o t) : k \in 1 .. Len(s) \/ \E i \in 1 .. Len(t) : k = Len(s) + i
      BY ONLY <2>1, ConcatAtEnd, Zenon
    <3> QED BY ONLY <3>1, <2>1, Zenon
  <2> QED BY <2>2 DEF u
<1> HIDE DEF u, l, la, lb
<1>7. \A k \in 1 .. m : u[l + k] = A[a + k]
  BY <1>4, <1>6
<1>8. \A k \in 1 .. m : a + k \in 1 .. la /\ a + k \in a + 1 .. la /\ a + k \in 1 .. a + m
  BY <1>1, <1>3
<1>9. \A i, j \in 1 .. la : i < j => A[i] <= A[j]
  BY <1>1 DEF Rising
<1>10. \A i, j \in 1 .. lb : i < j => B[i] <= B[j]
  BY <1>1 DEF Rising
<1>11. \A i \in 1 .. l : s[i] \in Nat
  BY <1>2
<1>12. Rising(u)
  <2> SUFFICES ASSUME NEW i \in 1 .. l + m, NEW j \in 1 .. l + m, i < j PROVE u[i] <= u[j]
    BY <1>6 DEF Rising
  <2>1. CASE i \in 1 .. l /\ j \in 1 .. l
    BY <1>2, <1>6, <2>1
  <2>2. ASSUME i \in 1 .. l, NEW n \in 1 .. m, j = l + n PROVE u[i] <= u[j]
    <3>1. s[i] <= A[a + n] /\ u[i] = s[i]
      BY <1>2, <1>6, <1>8, <2>2
    <3>2. u[j] = A[a + n]
      BY <1>7, <2>2
    <3> QED BY <3>1, <3>2
  <2>3. ASSUME NEW n \in 1 .. m, i = l + n, NEW o \in 1 .. m, j = l + o PROVE u[i] <= u[j]
    <3>1. a + n < a + o
      BY <1>3, <2>3
    <3>2. A[a + n] <= A[a + o]
      <4> DEFINE p == a + n
                 q == a + o
      <4>1. p \in 1 .. la /\ q \in 1 .. la /\ p < q
        BY <1>8, <3>1
      <4> HIDE DEF p, q
      <4>2. A[p] <= A[q]
        BY <1>9, <4>1
      <4> QED BY <4>2 DEF p, q
    <3> QED BY <1>7, <2>3, <3>2
  <2>4. ASSUME NEW n \in 1 .. m, i = l + n, j \in 1 .. l PROVE FALSE
    BY <1>3, <2>4
  <2>5. (i \in 1 .. l \/ \E n \in 1 .. m : i = l + n) /\ (j \in 1 .. l \/ \E o \in 1 .. m : j = l + o)
    BY <1>6
  <2> QED BY <2>1, <2>2, <2>3, <2>4, <2>5
<1>13. ASSUME NEW k \in 1 .. l + m
       PROVE  (\E i \in 1 .. a + m : u[k] = A[i]) \/ (\E i \in 1 .. b : u[k] = B[i])
  <2>1. CASE k \in 1 .. l
    <3>1. u[k] = s[k] /\ ((\E i \in 1 .. a : s[k] = A[i]) \/ (\E i \in 1 .. b : s[k] = B[i]))
      BY <1>2, <1>6, <2>1
    <3>2. \A i \in 1 .. a : i \in 1 .. a + m
      BY <1>3
    <3> QED BY <3>1, <3>2
  <2>2. ASSUME NEW n \in 1 .. m, k = l + n PROVE \E i \in 1 .. a + m : u[k] = A[i]
    BY <1>7, <1>8, <2>2
  <2> QED BY <1>6, <2>1, <2>2
<1>14. ASSUME NEW k \in 1 .. l + m, NEW i \in a + m + 1 .. la PROVE u[k] <= A[i]
  <2>1. CASE k \in 1 .. l
    <3>1. i \in a + 1 .. la
      BY <1>1, <1>3
    <3> QED BY <1>2, <1>6, <2>1, <3>1
  <2>2. ASSUME NEW n \in 1 .. m, k = l + n PROVE u[k] <= A[i]
    <3> DEFINE p == a + n
    <3>1. p \in 1 .. la /\ i \in 1 .. la /\ p < i
      BY <1>1, <1>3
    <3>2. u[k] = A[p]
      BY <1>7, <2>2
    <3> HIDE DEF p
    <3> QED BY <1>9, <3>1, <3>2
  <2> QED BY <1>6, <2>1, <2>2
<1>15. ASSUME NEW k \in 1 .. l + m, NEW i \in b + 1 .. lb PROVE u[k] <= B[i]
  <2>1. CASE k \in 1 .. l
    BY <1>2, <1>6, <2>1
  <2>2. ASSUME NEW n \in 1 .. m, k = l + n PROVE u[k] <= B[i]
    <3>1. b # lb /\ m # 0
      BY <1>1, <1>3
    <3>2. A[a + m] <= B[b + 1]
      BY <1>1, <3>1
    <3> DEFINE p == a + n
               q == a + m
               r == b + 1
    <3>3. p \in 1 .. la /\ q \in 1 .. la /\ (p = q \/ p < q) /\ r \in 1 .. lb /\ i \in 1 .. lb /\ (r = i \/ r < i)
      <4>1. a \in Nat /\ b \in Nat /\ la \in Nat /\ lb \in Nat /\ a + m <= la
        BY <1>1, <1>3
      <4> QED BY <4>1
    <3>4. u[k] = A[p] /\ A[q] <= B[r]
      BY <1>7, <2>2, <3>2
    <3> HIDE DEF p, q, r
    <3>5. A[p] \in Nat /\ A[q] \in Nat /\ B[r] \in Nat /\ B[i] \in Nat
      BY <1>1, <3>3
    <3>6. A[p] <= A[q] /\ B[r] <= B[i]
      <4>1. p < q => A[p] <= A[q]
        BY <1>9, <3>3
      <4>2. r < i => B[r] <= B[i]
        BY <1>10, <3>3
      <4>3. p = q => A[p] <= A[q]
        BY <3>5
      <4>4. r = i => B[r] <= B[i]
        BY <3>5
      <4> QED BY <3>3, <4>1, <4>2, <4>3, <4>4
    <3> DEFINE w == A[p]
               x == A[q]
               y == B[r]
               z == B[i]
    <3>7. w <= x /\ x <= y /\ y <= z /\ w \in Nat /\ x \in Nat /\ y \in Nat /\ z \in Nat /\ u[k] = w
      BY <3>4, <3>5, <3>6
    <3> HIDE DEF w, x, y, z
    <3>8. u[k] <= z
      BY <3>7
    <3> QED BY <3>8 DEF z
  <2> QED BY <1>6, <2>1, <2>2
<1>16. ASSUME NEW x PROVE Copies(x, u) = Copies(x, SubSeq(A, 1, a + m)) + Copies(x, SubSeq(B, 1, b))
  <2> DEFINE p == SubSeq(A, 1, a)
             q == SubSeq(B, 1, b)
  <2>1. p \in Seq(Nat) /\ q \in Seq(Nat) /\ s \in Seq(Nat) /\ t \in Seq(Nat) /\ SubSeq(A, 1, a + m) = p \o t
    <3>1. b \in Nat /\ b <= Len(B)
      BY <1>1, <1>2, <1>3
    <3>2. q \in Seq(Nat)
      BY <3>1, PrefixIs
    <3> QED BY <1>2, <1>4, <1>5, <3>2
  <2>2. Copies(x, s) = Copies(x, p) + Copies(x, q)
    BY <1>2
  <2> HIDE DEF p, q
  <2>3. Copies(x, u) = Copies(x, s) + Copies(x, t) /\ Copies(x, p \o t) = Copies(x, p) + Copies(x, t)
    BY <2>1, CopiesConcat DEF u
  <2>4. Copies(x, s) \in Nat /\ Copies(x, t) \in Nat /\ Copies(x, p) \in Nat /\ Copies(x, q) \in Nat
    <3>1. Len(s) \in Nat /\ Len(t) \in Nat /\ Len(p) \in Nat /\ Len(q) \in Nat
      BY <2>1
    <3> QED BY <3>1, CopiesType
  <2>5. Copies(x, u) = Copies(x, p \o t) + Copies(x, q)
    BY <2>2, <2>3, <2>4
  <2> QED BY <2>1, <2>5 DEF q
<1>17. /\ a + m \in 0 .. Len(A) /\ b \in 0 .. Len(B)
       /\ u \in Seq(Nat) /\ Len(u) = a + m + b
       /\ \A k \in 1 .. Len(u) : (\E i \in 1 .. a + m : u[k] = A[i]) \/ (\E i \in 1 .. b : u[k] = B[i])
       /\ \A k \in 1 .. Len(u) : (\A i \in a + m + 1 .. Len(A) : u[k] <= A[i]) /\ (\A i \in b + 1 .. Len(B) : u[k] <= B[i])
  BY <1>1, <1>2, <1>3, <1>6, <1>13, <1>14, <1>15
<1>18. Split(A, B, a + m, b, u)
  BY <1>12, <1>16, <1>17 DEF Split
<1> QED
  BY <1>18 DEF u, t

LEMMA SplitSym ==
  ASSUME NEW A, NEW B, NEW a, NEW b, NEW s, Split(A, B, a, b, s), A \in Seq(Nat), B \in Seq(Nat)
  PROVE  Split(B, A, b, a, s)
<1>1. a \in Nat /\ b \in Nat /\ a <= Len(A) /\ b <= Len(B)
  <2>1. a \in 0 .. Len(A) /\ b \in 0 .. Len(B) /\ Len(A) \in Nat /\ Len(B) \in Nat
    BY DEF Split
  <2> QED BY <2>1
<1>2. a + b = b + a
  BY <1>1
<1>3. ASSUME NEW x PROVE Copies(x, s) = Copies(x, SubSeq(B, 1, b)) + Copies(x, SubSeq(A, 1, a))
  <2> DEFINE p == SubSeq(A, 1, a)
             q == SubSeq(B, 1, b)
  <2>1. Len(p) \in Nat /\ Len(q) \in Nat
    BY <1>1, PrefixIs
  <2>2. Copies(x, s) = Copies(x, p) + Copies(x, q)
    BY DEF Split
  <2> HIDE DEF p, q
  <2>3. Copies(x, p) \in Nat /\ Copies(x, q) \in Nat
    BY <2>1, CopiesType
  <2>4. Copies(x, s) = Copies(x, q) + Copies(x, p)
    BY <2>2, <2>3
  <2> QED BY <2>4 DEF p, q
<1>4. /\ a \in 0 .. Len(A) /\ b \in 0 .. Len(B)
      /\ s \in Seq(Nat) /\ Len(s) = a + b
      /\ Rising(s)
      /\ \A k \in 1 .. Len(s) : (\E i \in 1 .. a : s[k] = A[i]) \/ (\E i \in 1 .. b : s[k] = B[i])
      /\ \A k \in 1 .. Len(s) : (\A i \in a + 1 .. Len(A) : s[k] <= A[i]) /\ (\A i \in b + 1 .. Len(B) : s[k] <= B[i])
  BY DEF Split
<1> QED
  BY <1>2, <1>3, <1>4, Zenon DEF Split

LEMMA SplitNone ==
  ASSUME NEW A \in Seq(Nat), NEW B \in Seq(Nat)
  PROVE  Split(A, B, 0, 0, <<>>)
<1>1. Len(A) \in Nat /\ Len(B) \in Nat /\ SubSeq(A, 1, 0) = <<>> /\ SubSeq(B, 1, 0) = <<>>
      /\ <<>> \in Seq(Nat) /\ Len(<<>>) = 0 /\ 1 .. 0 = {} /\ 0 + 0 = 0
  OBVIOUS
<1>2. Rising(<<>>)
  BY <1>1 DEF Rising
<1>3. \A x : Copies(x, <<>>) = Copies(x, SubSeq(A, 1, 0)) + Copies(x, SubSeq(B, 1, 0))
  BY <1>1, CopiesEmpty
<1>4. 0 \in 0 .. Len(A) /\ 0 \in 0 .. Len(B)
  BY <1>1
<1> QED
  BY <1>1, <1>2, <1>3, <1>4, Zenon DEF Split

LEMMA AppendIs ==
  ASSUME NEW s, NEW t, NEW x, s \in Seq(Nat), t \in Seq(Nat), x \in Nat, Len(t) = 1, t[1] = x
  PROVE  Append(s, x) = s \o t
<1> DEFINE u == Append(s, x)
           l == Len(s)
           w == s \o t
<1>1. l \in Nat /\ u \in Seq(Nat) /\ Len(u) = l + 1 /\ u[l + 1] = x /\ \A k \in 1 .. l : u[k] = s[k]
  OBVIOUS
<1>2. /\ w \in Seq(Nat) /\ Len(w) = Len(s) + Len(t)
      /\ \A k \in 1 .. Len(s) : w[k] = s[k]
      /\ \A k \in 1 .. Len(t) : w[Len(s) + k] = t[k]
      /\ \A k \in 1 .. Len(w) : k \in 1 .. Len(s) \/ \E i \in 1 .. Len(t) : k = Len(s) + i
  BY ConcatAtEnd
<1> HIDE DEF w, u
<1>3. /\ Len(w) = l + 1
      /\ \A k \in 1 .. l : w[k] = s[k]
      /\ \A k \in 1 .. 1 : w[l + k] = t[k]
  BY <1>2, Zenon
<1>4. 1 \in 1 .. 1
  OBVIOUS
<1>5. w[l + 1] = x
  BY <1>3, <1>4, Zenon
<1> HIDE DEF l
<1>6. \A k \in 1 .. l + 1 : k \in 1 .. l \/ k = l + 1
  BY <1>1
<1>7. \A k \in 1 .. l + 1 : u[k] = w[k]
  BY <1>1, <1>3, <1>5, <1>6
<1>8. u = w
  <2>1. u \in Seq(Nat) /\ w \in Seq(Nat) /\ Len(u) = Len(w) /\ \A k \in 1 .. Len(u) : u[k] = w[k]
    BY <1>1, <1>2, <1>3, <1>7, Zenon
  <2> QED BY <2>1, SeqEqual
<1> QED
  BY <1>8 DEF u, w

LEMMA SubSeqOne ==
  ASSUME NEW A \in Seq(Nat), NEW a \in Nat, a + 1 <= Len(A), NEW s \in Seq(Nat)
  PROVE  Append(s, A[a + 1]) = s \o SubSeq(A, a + 1, a + 1)
<1>1. A[a + 1] \in Nat
  OBVIOUS
<1>2. SubSeq(A, a + 1, a + 1) = <<A[a + 1]>>
  <2>1. SubSeq(A, a + 1, a + 1) \in Seq(Nat) /\ Len(SubSeq(A, a + 1, a + 1)) = 1
        /\ \A k \in 1 .. 1 : SubSeq(A, a + 1, a + 1)[k] = A[a + k]
    BY SubSeqIs
  <2> DEFINE t == SubSeq(A, a + 1, a + 1)
  <2>2. t \in Seq(Nat) /\ Len(t) = 1 /\ t[1] = A[a + 1]
    BY <2>1
  <2> HIDE DEF t
  <2>3. t = <<A[a + 1]>>
    BY <1>1, <2>2
  <2> QED BY <2>3 DEF t
<1>3. <<A[a + 1]>> \in Seq(Nat) /\ Len(<<A[a + 1]>>) = 1 /\ <<A[a + 1]>>[1] = A[a + 1]
  BY <1>1
<1>4. Append(s, A[a + 1]) = s \o <<A[a + 1]>>
  BY <1>1, <1>3, AppendIs
<1> QED
  BY <1>2, <1>4, Zenon


(* What st, after k steps of the kernel, has of A and B *)
MergedSoFar(A, B, k, st) ==
  /\ Split(A, B, st.a, st.b, st.out)
  /\ st.a + st.b <= k
  /\ st.a = Len(A) \/ st.b = Len(B) \/ st.a + st.b = k
  /\ \A i \in 1 .. Len(st.out) : Len(A) > 0 /\ Len(B) > 0 /\ st.out[i] <= A[Len(A)] /\ st.out[i] <= B[Len(B)]

LEMMA GoodLast ==
  ASSUME NEW A \in Seq(Nat), NEW B \in Seq(Nat), NEW s \in Seq(Nat), NEW v \in Nat,
         Rising(A), Rising(B),
         NEW i \in 1 .. Len(A), NEW j \in 1 .. Len(B), v = A[i], v <= B[j],
         \A k \in 1 .. Len(s) : Len(A) > 0 /\ Len(B) > 0 /\ s[k] <= A[Len(A)] /\ s[k] <= B[Len(B)]
  PROVE  \A k \in 1 .. Len(Append(s, v)) :
           Len(A) > 0 /\ Len(B) > 0 /\ Append(s, v)[k] <= A[Len(A)] /\ Append(s, v)[k] <= B[Len(B)]
<1> DEFINE la == Len(A)
           lb == Len(B)
           x == A[la]
           y == B[lb]
           z == B[j]
<1>1. la \in Nat /\ lb \in Nat /\ la > 0 /\ lb > 0 /\ la \in 1 .. la /\ lb \in 1 .. lb /\ i \in 1 .. la /\ j \in 1 .. lb
  OBVIOUS
<1>2. x \in Nat /\ y \in Nat /\ z \in Nat
  BY <1>1, ElementsType
<1>3. v <= x
  <2>1. CASE i = la
    BY <1>2, <2>1
  <2>2. CASE i # la
    BY <1>1, <2>2 DEF Rising
  <2> QED BY <2>1, <2>2
<1>4. z <= y
  <2>1. CASE j = lb
    BY <1>2, <2>1
  <2>2. CASE j # lb
    BY <1>1, <2>2 DEF Rising
  <2> QED BY <2>1, <2>2
<1> HIDE DEF x, y
<1>5. v <= y
  <2> HIDE DEF z
  <2>1. v <= z
    BY DEF z
  <2>2. \A p, q, r \in Nat : p <= q /\ q <= r => p <= r
    OBVIOUS
  <2> QED BY <1>2, <1>4, <2>1, <2>2
<1>6. Len(Append(s, v)) = Len(s) + 1 /\ Append(s, v)[Len(s) + 1] = v /\ \A k \in 1 .. Len(s) : Append(s, v)[k] = s[k]
  OBVIOUS
<1>7. \A k \in 1 .. Len(s) + 1 : k \in 1 .. Len(s) \/ k = Len(s) + 1
  <2> DEFINE l == Len(s)
  <2>1. l \in Nat
    OBVIOUS
  <2> HIDE DEF l
  <2>2. \A k \in 1 .. l + 1 : k \in 1 .. l \/ k = l + 1
    BY <2>1
  <2> QED BY <2>2 DEF l
<1> QED
  BY <1>1, <1>3, <1>5, <1>6, <1>7, Zenon DEF x, y, la, lb

LEMMA MergeOneGood ==
  ASSUME NEW A \in Seq(Nat), NEW B \in Seq(Nat), Rising(A), Rising(B),
         NEW k \in Nat, NEW st, MergedSoFar(A, B, k, st)
  PROVE  MergedSoFar(A, B, k + 1, MergeOne(A, B, st))
<1> DEFINE a == st.a
           b == st.b
           s == st.out
           u == MergeOne(A, B, st)
<1>1. /\ Split(A, B, a, b, s) /\ a + b <= k /\ (a = Len(A) \/ b = Len(B) \/ a + b = k)
      /\ \A i \in 1 .. Len(s) : Len(A) > 0 /\ Len(B) > 0 /\ s[i] <= A[Len(A)] /\ s[i] <= B[Len(B)]
  BY DEF MergedSoFar
<1>2. Len(A) \in Nat /\ Len(B) \in Nat /\ a \in 0 .. Len(A) /\ b \in 0 .. Len(B) /\ s \in Seq(Nat)
  BY <1>1 DEF Split
<1>3. a \in Nat /\ b \in Nat
  BY <1>2
<1>4. CASE a = Len(A) \/ b = Len(B)
  <2>1. u = st
    BY <1>4 DEF MergeOne
  <2>2. a + b <= k + 1
    <3> HIDE DEF a, b
    <3> QED BY <1>1, <1>3
  <2> QED BY <1>1, <1>4, <2>1, <2>2, Zenon DEF MergedSoFar
<1>5. ASSUME a # Len(A), b # Len(B) PROVE MergedSoFar(A, B, k + 1, u)
  <2> DEFINE x == A[a + 1]
             y == B[b + 1]
  <2>1. a + 1 \in 1 .. Len(A) /\ b + 1 \in 1 .. Len(B) /\ a + 1 <= Len(A) /\ b + 1 <= Len(B) /\ a + b = k
    <3> HIDE DEF a, b
    <3> QED BY <1>1, <1>2, <1>5
  <2>2. x \in Nat /\ y \in Nat
    BY <2>1, ElementsType DEF x, y
  <2> HIDE DEF x, y
  <2>3. CASE x < y
    <3>1. u = [a |-> a + 1, b |-> b, out |-> Append(s, x)]
      BY <1>5, <2>3 DEF MergeOne, x, y
    <3>2. Append(s, x) = s \o SubSeq(A, a + 1, a + 1)
      BY <1>2, <1>3, <2>1, SubSeqOne DEF x
    <3>3. Split(A, B, a + 1, b, s \o SubSeq(A, a + 1, a + 1))
      <4>0. x <= y
        BY <2>2, <2>3
      <4>1. 1 \in Nat /\ A[a + 1] <= B[b + 1]
        BY <4>0 DEF x, y
      <4> HIDE DEF a, b, s
      <4> QED BY <1>1, <2>1, <4>1, SplitTake
    <3>4. \A i \in 1 .. Len(Append(s, x)) :
            Len(A) > 0 /\ Len(B) > 0 /\ Append(s, x)[i] <= A[Len(A)] /\ Append(s, x)[i] <= B[Len(B)]
      <4>1. x <= y
        BY <2>2, <2>3
      <4> DEFINE i == a + 1
                 j == b + 1
      <4>2. i \in 1 .. Len(A) /\ j \in 1 .. Len(B) /\ x = A[i] /\ x <= B[j]
        BY <2>1, <4>1 DEF x, y
      <4> HIDE DEF s, i, j
      <4> QED BY <1>1, <1>2, <2>2, <4>2, GoodLast
    <3>5. a + 1 + b = k + 1 /\ a + 1 + b <= k + 1
      <4> HIDE DEF a, b
      <4> QED BY <1>3, <2>1
    <3>6. Split(A, B, a + 1, b, Append(s, x))
      BY <3>2, <3>3, Zenon
    <3>7. u.a = a + 1 /\ u.b = b /\ u.out = Append(s, x)
      BY <3>1
    <3> HIDE DEF u
    <3> QED BY <3>4, <3>5, <3>6, <3>7, Zenon DEF MergedSoFar
  <2>4. CASE ~(x < y)
    <3>1. u = [a |-> a, b |-> b + 1, out |-> Append(s, y)]
      BY <1>5, <2>4 DEF MergeOne, x, y
    <3>2. Append(s, y) = s \o SubSeq(B, b + 1, b + 1)
      BY <1>2, <1>3, <2>1, SubSeqOne DEF y
    <3>3. Split(A, B, a, b + 1, s \o SubSeq(B, b + 1, b + 1))
      <4>0. y <= x
        BY <2>2, <2>4
      <4>1. 1 \in Nat /\ B[b + 1] <= A[a + 1]
        BY <4>0 DEF x, y
      <4> HIDE DEF a, b, s
      <4>2. Split(B, A, b, a, s)
        BY <1>1, SplitSym
      <4>3. Split(B, A, b + 1, a, s \o SubSeq(B, b + 1, b + 1))
        BY <2>1, <4>1, <4>2, SplitTake
      <4> QED BY <4>3, SplitSym
    <3>4. \A i \in 1 .. Len(Append(s, y)) :
            Len(B) > 0 /\ Len(A) > 0 /\ Append(s, y)[i] <= B[Len(B)] /\ Append(s, y)[i] <= A[Len(A)]
      <4>1. y <= x
        BY <2>2, <2>4
      <4> DEFINE i == b + 1
                 j == a + 1
      <4>2. i \in 1 .. Len(B) /\ j \in 1 .. Len(A) /\ y = B[i] /\ y <= A[j]
        BY <2>1, <4>1 DEF x, y
      <4>3. \A n \in 1 .. Len(s) : Len(B) > 0 /\ Len(A) > 0 /\ s[n] <= B[Len(B)] /\ s[n] <= A[Len(A)]
        BY <1>1
      <4> HIDE DEF s, i, j
      <4> QED BY <1>2, <2>2, <4>2, <4>3, GoodLast
    <3>5. a + (b + 1) = k + 1 /\ a + (b + 1) <= k + 1
      <4> HIDE DEF a, b
      <4> QED BY <1>3, <2>1
    <3>6. Split(A, B, a, b + 1, Append(s, y))
      BY <3>2, <3>3, Zenon
    <3>7. u.a = a /\ u.b = b + 1 /\ u.out = Append(s, y)
      BY <3>1
    <3> HIDE DEF u
    <3> QED BY <3>4, <3>5, <3>6, <3>7, Zenon DEF MergedSoFar
  <2> QED BY <2>3, <2>4
<1> QED
  BY <1>4, <1>5

(* The recursive function that Merge2 is the end of *)
MergesBy(f, A, B, n) ==
  f = [k \in 0 .. n |-> IF k = 0 THEN [a |-> 0, b |-> 0, out |-> <<>>] ELSE MergeOne(A, B, f[k - 1])]

LEMMA MergesExists == ASSUME NEW A, NEW B, NEW n \in Nat PROVE \E f : MergesBy(f, A, B, n)
<1> DEFINE T == {k \in Nat : \E f : MergesBy(f, A, B, k)}
           z == [a |-> 0, b |-> 0, out |-> <<>>]
<1>1. 0 \in T
  <2> DEFINE f == [k \in 0 .. 0 |-> z]
  <2>1. \A k \in 0 .. 0 : k = 0
    OBVIOUS
  <2>2. f = [k \in 0 .. 0 |-> IF k = 0 THEN z ELSE MergeOne(A, B, f[k - 1])]
    <3> HIDE DEF z
    <3> QED BY <2>1
  <2>3. MergesBy(f, A, B, 0)
    BY <2>2 DEF MergesBy
  <2> QED BY <2>3
<1>2. ASSUME NEW k \in T PROVE k + 1 \in T
  <2>1. PICK f : MergesBy(f, A, B, k)
    OBVIOUS
  <2> DEFINE e == MergeOne(A, B, f[k])
             j == [i \in 0 .. k + 1 |-> IF i = k + 1 THEN e ELSE f[i]]
  <2>2. \A i \in 0 .. k : f[i] = IF i = 0 THEN z ELSE MergeOne(A, B, f[i - 1])
    BY <2>1 DEF MergesBy
  <2> HIDE DEF z
  <2>3. ASSUME NEW i \in 0 .. k + 1 PROVE j[i] = IF i = 0 THEN z ELSE MergeOne(A, B, j[i - 1])
    <3>1. CASE i = k + 1
      <4>1. j[i] = e
        BY <3>1
      <4>2. j[k] = f[k] /\ k \in 0 .. k + 1
        OBVIOUS
      <4>3. i - 1 = k /\ i # 0
        BY <3>1
      <4> HIDE DEF j
      <4> QED BY <4>1, <4>2, <4>3
    <3>2. CASE i # k + 1
      <4>1. i \in 0 .. k /\ j[i] = f[i]
        BY <3>2
      <4>2. i # 0 => i - 1 \in 0 .. k /\ j[i - 1] = f[i - 1]
        BY <4>1
      <4> HIDE DEF j, e
      <4> QED BY <2>2, <4>1, <4>2
    <3> QED BY <3>1, <3>2
  <2>4. DOMAIN j = 0 .. k + 1 /\ j = [i \in 0 .. k + 1 |-> j[i]]
    OBVIOUS
  <2> HIDE DEF j
  <2>5. MergesBy(j, A, B, k + 1)
    BY <2>3, <2>4 DEF MergesBy, z
  <2> QED BY <2>5
<1>3. Nat \subseteq T
  <2> HIDE DEF T
  <2> QED BY <1>1, <1>2, SetInduction
<1> QED
  BY <1>3

LEMMA Merge2Is ==
  ASSUME NEW A, NEW B, NEW n \in Nat
  PROVE  \E f : MergesBy(f, A, B, n) /\ Merge2(A, B, n) = f[n]
<1> DEFINE f == CHOOSE f : MergesBy(f, A, B, n)
<1>1. Merge2(A, B, n) = f[n]
  BY DEF Merge2, MergesBy
<1>2. MergesBy(f, A, B, n)
  BY MergesExists
<1> QED
  BY <1>1, <1>2

(* serialmergekernel merges, and stops when a side or the space is used up. *)
LEMMA Merge2Good ==
  ASSUME NEW A \in Seq(Nat), NEW B \in Seq(Nat), Rising(A), Rising(B), NEW n \in Nat
  PROVE  MergedSoFar(A, B, n, Merge2(A, B, n))
<1>1. PICK f : MergesBy(f, A, B, n) /\ Merge2(A, B, n) = f[n]
  BY Merge2Is
<1> DEFINE z == [a |-> 0, b |-> 0, out |-> <<>>]
           T == {k \in Nat : k <= n => MergedSoFar(A, B, k, f[k])}
<1>2. \A k \in 0 .. n : f[k] = IF k = 0 THEN z ELSE MergeOne(A, B, f[k - 1])
  BY <1>1 DEF MergesBy
<1>3. 0 \in T
  <2>1. f[0] = z
    BY <1>2
  <2>2. z.a = 0 /\ z.b = 0 /\ z.out = <<>> /\ Len(<<>>) = 0 /\ 1 .. 0 = {}
    OBVIOUS
  <2> HIDE DEF z
  <2>3. 0 + 0 = 0 /\ 0 <= 0
    OBVIOUS
  <2>4. MergedSoFar(A, B, 0, z)
    BY <2>2, <2>3, SplitNone DEF MergedSoFar
  <2> QED BY <2>1, <2>4
<1>4. ASSUME NEW k \in Nat, k \in T PROVE k + 1 \in T
  <2> SUFFICES ASSUME k + 1 <= n PROVE MergedSoFar(A, B, k + 1, f[k + 1])
    OBVIOUS
  <2>1. k <= n /\ k + 1 \in 0 .. n /\ k + 1 # 0 /\ (k + 1) - 1 = k
    OBVIOUS
  <2>2. f[k + 1] = MergeOne(A, B, f[k])
    BY <1>2, <2>1
  <2>3. MergedSoFar(A, B, k, f[k])
    BY <1>4, <2>1
  <2>4. MergedSoFar(A, B, k + 1, MergeOne(A, B, f[k]))
    BY <2>3, MergeOneGood
  <2> QED BY <2>2, <2>4
<1> HIDE DEF T
<1>5. Nat \subseteq T
  BY <1>3, <1>4, SetInduction
<1> QED
  BY <1>1, <1>5 DEF T

------------------------------------------------------------------------------
(* The first of a sequence, and the rest *)

LEMMA MinOfTwo ==
  ASSUME NEW a \in Nat, NEW b \in Nat
  PROVE  /\ Min({a, b}) \in Nat /\ Min({a, b}) <= a /\ Min({a, b}) <= b
         /\ Min({a, b}) = a \/ Min({a, b}) = b
<1> DEFINE P(x) == x \in {a, b} /\ \A y \in {a, b} : x <= y
<1>1. P(a) \/ P(b)
  OBVIOUS
<1>2. Min({a, b}) = CHOOSE x \in {a, b} : \A y \in {a, b} : x <= y
  BY DEF Min
<1>3. P(CHOOSE x : P(x))
  BY <1>1
<1>4. P(Min({a, b}))
  BY <1>2, <1>3
<1> QED
  BY <1>4

LEMMA SkipIs ==
  ASSUME NEW A \in Seq(Nat), NEW a \in Nat, a <= Len(A)
  PROVE  /\ Skip(A, a) \in Seq(Nat) /\ Len(Skip(A, a)) = Len(A) - a
         /\ Len(A) - a \in Nat /\ Skip(A, a) = SubSeq(A, a + 1, Len(A))
         /\ \A k \in 1 .. Len(A) - a : Skip(A, a)[k] = A[a + k]
<1> DEFINE m == Len(A) - a
<1>1. m \in Nat /\ a + m = Len(A) /\ a + m <= Len(A)
  OBVIOUS
<1> HIDE DEF m
<1>2. /\ SubSeq(A, a + 1, a + m) \in Seq(Nat)
      /\ Len(SubSeq(A, a + 1, a + m)) = m
      /\ \A k \in 1 .. m : SubSeq(A, a + 1, a + m)[k] = A[a + k]
  BY <1>1, SubSeqIs
<1>3. SubSeq(A, a + 1, a + m) = Skip(A, a) /\ Skip(A, a) = SubSeq(A, a + 1, Len(A))
  BY <1>1, Zenon DEF Skip
<1>4. /\ Skip(A, a) \in Seq(Nat)
      /\ Len(Skip(A, a)) = m
      /\ \A k \in 1 .. m : Skip(A, a)[k] = A[a + k]
  BY <1>2, <1>3, Zenon
<1> QED
  BY <1>1, <1>3, <1>4, Zenon DEF m

LEMMA FirstPart ==
  ASSUME NEW A \in Seq(Nat), NEW a \in Nat, a <= Len(A), NEW n \in Nat
  PROVE  \E m \in Nat :
           /\ a + m <= Len(A) /\ m <= n
           /\ First(Skip(A, a), n) = SubSeq(A, a + 1, a + m)
           /\ First(Skip(A, a), n) \in Seq(Nat) /\ Len(First(Skip(A, a), n)) = m
           /\ m = n \/ a + m = Len(A)
<1> DEFINE R == Skip(A, a)
           m == Min({n, Len(R)})
<1>1. R \in Seq(Nat) /\ Len(R) = Len(A) - a /\ Len(A) - a \in Nat /\ \A k \in 1 .. Len(A) - a : R[k] = A[a + k]
  BY SkipIs
<1>2. m \in Nat /\ m <= n /\ m <= Len(R) /\ (m = n \/ m = Len(R))
  BY <1>1, MinOfTwo
<1>3. First(R, n) = SubSeq(R, 1, m)
  BY DEF First
<1> HIDE DEF R, m
<1>4. SubSeq(R, 1, m) \in Seq(Nat) /\ Len(SubSeq(R, 1, m)) = m /\ \A k \in 1 .. m : SubSeq(R, 1, m)[k] = R[k]
  BY <1>1, <1>2, PrefixIs
<1>5. a + m <= Len(A) /\ (m = n \/ a + m = Len(A)) /\ m <= Len(A) - a
  <2> DEFINE l == Len(A)
  <2>1. l \in Nat
    OBVIOUS
  <2> HIDE DEF l
  <2>2. a + m <= l /\ (m = n \/ a + m = l) /\ m <= l - a
    BY <1>1, <1>2, <2>1 DEF l
  <2> QED BY <2>2 DEF l
<1>6. /\ SubSeq(A, a + 1, a + m) \in Seq(Nat)
      /\ Len(SubSeq(A, a + 1, a + m)) = m
      /\ \A k \in 1 .. m : SubSeq(A, a + 1, a + m)[k] = A[a + k]
  BY <1>2, <1>5, SubSeqIs
<1>7. \A k \in 1 .. m : k \in 1 .. Len(A) - a
  BY <1>1, <1>2, <1>5
<1>8. \A k \in 1 .. m : SubSeq(R, 1, m)[k] = SubSeq(A, a + 1, a + m)[k]
  BY <1>1, <1>4, <1>6, <1>7, Zenon
<1>9. SubSeq(R, 1, m) = SubSeq(A, a + 1, a + m)
  <2> DEFINE u == SubSeq(R, 1, m)
             w == SubSeq(A, a + 1, a + m)
  <2>1. u \in Seq(Nat) /\ w \in Seq(Nat) /\ Len(u) = Len(w) /\ \A k \in 1 .. Len(u) : u[k] = w[k]
    BY <1>4, <1>6, <1>8, Zenon
  <2> HIDE DEF u, w
  <2>2. u = w
    BY <2>1, SeqEqual
  <2> QED BY <2>2 DEF u, w
<1> QED
  BY <1>2, <1>3, <1>4, <1>5, <1>9 DEF R

(* More of A follows when B is used up. *)
LEMMA SplitMore ==
  ASSUME NEW A \in Seq(Nat), NEW B \in Seq(Nat), Rising(A), Rising(B),
         NEW a, NEW b, NEW s, Split(A, B, a, b, s), NEW n \in Nat, b = Len(B) \/ n = 0,
         NEW t, t = First(Skip(A, a), n)
  PROVE  /\ t \in Seq(Nat) /\ Len(t) \in Nat /\ Len(t) <= n
         /\ Split(A, B, a + Len(t), b, s \o t)
         /\ Len(t) = n \/ a + Len(t) = Len(A)
<1>1. a \in Nat /\ a <= Len(A) /\ b \in 0 .. Len(B)
  <2>1. a \in 0 .. Len(A) /\ Len(A) \in Nat /\ b \in 0 .. Len(B)
    BY DEF Split
  <2> QED BY <2>1
<1>2. PICK m \in Nat :
        /\ a + m <= Len(A) /\ m <= n
        /\ First(Skip(A, a), n) = SubSeq(A, a + 1, a + m)
        /\ First(Skip(A, a), n) \in Seq(Nat) /\ Len(First(Skip(A, a), n)) = m
        /\ m = n \/ a + m = Len(A)
  BY <1>1, FirstPart
<1>2a. t = SubSeq(A, a + 1, a + m) /\ t \in Seq(Nat) /\ Len(t) = m
  BY <1>2, Zenon
<1>3. m = 0 \/ b = Len(B) \/ A[a + m] <= B[b + 1]
  BY <1>2
<1>4. Split(A, B, a + m, b, s \o SubSeq(A, a + 1, a + m))
  BY <1>2, <1>3, SplitTake
<1>5. Split(A, B, a + m, b, s \o t)
  BY <1>2a, <1>4, Zenon
<1> QED
  BY <1>2, <1>2a, <1>5, Zenon

LEMMA SplitNothing ==
  ASSUME NEW A, NEW B, NEW a, NEW b, NEW s, Split(A, B, a, b, s), A \in Seq(Nat), B \in Seq(Nat)
  PROVE  Split(A, B, a + Len(<<>>), b, s \o <<>>) /\ Split(A, B, a, b + Len(<<>>), s \o <<>>)
<1>1. a \in 0 .. Len(A) /\ b \in 0 .. Len(B) /\ s \in Seq(Nat) /\ Len(A) \in Nat /\ Len(B) \in Nat
  BY DEF Split
<1>2. a + Len(<<>>) = a /\ b + Len(<<>>) = b
  BY <1>1
<1>3. s \o <<>> = s
  BY <1>1
<1> QED
  BY <1>2, <1>3, Zenon

RestOf(A, B, a, b, left, moreA, moreB) ==
  moreA = First(Skip(A, a), left) /\ moreB = IF a = Len(A) THEN First(Skip(B, b), left) ELSE <<>>

(* When the kernel has stopped, what is left of one side may follow. *)
LEMMA SplitRest ==
  ASSUME NEW A \in Seq(Nat), NEW B \in Seq(Nat), Rising(A), Rising(B),
         NEW a, NEW b, NEW o, Split(A, B, a, b, o),
         NEW left \in Nat, b = Len(B) \/ left = 0 \/ a = Len(A),
         NEW moreA, NEW moreB, RestOf(A, B, a, b, left, moreA, moreB)
  PROVE  /\ moreA \in Seq(Nat) /\ Len(moreA) \in Nat /\ moreB \in Seq(Nat) /\ Len(moreB) \in Nat
         /\ Len(moreA) + Len(moreB) <= left
         /\ Split(A, B, a + Len(moreA), b + Len(moreB), o \o moreA \o moreB)
         /\ Len(moreA) + Len(moreB) = left \/ (a + Len(moreA) = Len(A) /\ b + Len(moreB) = Len(B))
<1> DEFINE s     == o \o moreA \o moreB
           aa    == a + Len(moreA)
           bb    == b + Len(moreB)
<1>4. Split(A, B, a, b, o)
  OBVIOUS
<1>5. /\ Len(A) \in Nat /\ Len(B) \in Nat /\ a \in 0 .. Len(A) /\ b \in 0 .. Len(B)
      /\ o \in Seq(Nat) /\ Len(o) = a + b
  BY <1>4 DEF Split
<1>6. left \in Nat /\ a \in Nat /\ b \in Nat
  BY <1>5
<1>7. b = Len(B) \/ left = 0 \/ a = Len(A)
  OBVIOUS
<1>7a. moreA = First(Skip(A, a), left) /\ moreB = IF a = Len(A) THEN First(Skip(B, b), left) ELSE <<>>
  BY DEF RestOf
<1>8. /\ moreA \in Seq(Nat) /\ Len(moreA) \in Nat /\ Len(moreA) <= left
      /\ Split(A, B, aa, b, o \o moreA)
      /\ Len(moreA) = left \/ aa = Len(A)
      /\ a = Len(A) => moreA = <<>>
  <2>1. CASE b = Len(B) \/ left = 0
    <3>1. /\ moreA \in Seq(Nat) /\ Len(moreA) \in Nat /\ Len(moreA) <= left
          /\ Split(A, B, a + Len(moreA), b, o \o moreA)
          /\ Len(moreA) = left \/ a + Len(moreA) = Len(A)
      <4> HIDE DEF s
      <4>1. moreA = First(Skip(A, a), left)
        BY <1>7a
      <4>2. Split(A, B, a, b, o) /\ left \in Nat /\ (b = Len(B) \/ left = 0)
        BY <1>4, <1>6, <2>1
      <4> QED BY ONLY A \in Seq(Nat), B \in Seq(Nat), Rising(A), Rising(B), <4>1, <4>2, SplitMore
    <3>2. a + Len(moreA) \in 0 .. Len(A)
      BY <3>1 DEF Split
    <3>3. a = Len(A) => Len(moreA) = 0
      BY <1>5, <1>6, <3>1, <3>2
    <3>4. a = Len(A) => moreA = <<>>
      BY <3>1, <3>3
    <3> QED BY <3>1, <3>4
  <2>2. CASE a = Len(A)
    <3>1. a <= Len(A)
      BY <1>5, <2>2
    <3>1a. PICK m \in Nat :
        /\ a + m <= Len(A) /\ m <= left
        /\ First(Skip(A, a), left) = SubSeq(A, a + 1, a + m)
        /\ First(Skip(A, a), left) \in Seq(Nat) /\ Len(First(Skip(A, a), left)) = m
        /\ m = left \/ a + m = Len(A)
      BY <1>6, <3>1, FirstPart
    <3>2. a + m <= Len(A) /\ m <= left /\ moreA \in Seq(Nat) /\ Len(moreA) = m
      BY <1>7a, <3>1a, Zenon
    <3>3. Len(moreA) = 0
      BY <1>5, <1>6, <2>2, <3>2
    <3>4. moreA = <<>>
      BY <3>2, <3>3
    <3>5. Split(A, B, a + Len(<<>>), b, o \o <<>>)
      BY <1>4, SplitNothing
    <3>6. Split(A, B, aa, b, o \o moreA)
      BY <3>4, <3>5, Zenon
    <3>7. aa = Len(A)
      BY <1>6, <2>2, <3>3
    <3>8. Len(moreA) \in Nat /\ Len(moreA) <= left
      BY <1>6, <3>3
    <3> QED BY <3>2, <3>4, <3>6, <3>7, <3>8, Zenon
  <2> QED BY <1>7, <2>1, <2>2
<1>9. /\ moreB \in Seq(Nat) /\ Len(moreB) \in Nat
      /\ Len(moreA) + Len(moreB) <= left
      /\ Split(A, B, aa, bb, s)
      /\ Len(moreA) + Len(moreB) = left \/ (aa = Len(A) /\ bb = Len(B))
  <2>1. CASE a = Len(A)
    <3>0. moreB = First(Skip(B, b), left)
      BY <1>7a, <2>1
    <3>1. moreA = <<>> /\ Len(moreA) = 0 /\ aa = a
      <4>1. moreA = <<>>
        BY <1>8, <2>1
      <4>2. Len(moreA) = 0
        BY <4>1
      <4> QED BY <1>6, <4>1, <4>2
    <3>2. Split(B, A, b, aa, o \o moreA)
      BY <1>8, SplitSym
    <3>3. /\ moreB \in Seq(Nat) /\ Len(moreB) \in Nat /\ Len(moreB) <= left
          /\ Split(B, A, b + Len(moreB), aa, (o \o moreA) \o moreB)
          /\ Len(moreB) = left \/ b + Len(moreB) = Len(B)
      <4>1. aa = Len(A)
        BY <2>1, <3>1
      <4>0. left \in Nat /\ moreB = First(Skip(B, b), left)
        BY <1>6, <3>0
      <4> DEFINE om == o \o moreA
      <4>2. Split(B, A, b, aa, om)
        BY <3>2
      <4> HIDE DEF aa, s, om
      <4>3. /\ moreB \in Seq(Nat) /\ Len(moreB) \in Nat /\ Len(moreB) <= left
            /\ Split(B, A, b + Len(moreB), aa, om \o moreB)
            /\ Len(moreB) = left \/ b + Len(moreB) = Len(B)
        BY ONLY A \in Seq(Nat), B \in Seq(Nat), Rising(A), Rising(B), <4>0, <4>1, <4>2, SplitMore
      <4> QED BY <4>3 DEF om
    <3>4. Split(A, B, aa, bb, s)
      BY <3>3, SplitSym
    <3>5. Len(moreA) + Len(moreB) = Len(moreB)
      BY <3>1, <3>3
    <3>6. aa = Len(A)
      BY <2>1, <3>1
    <3> QED BY <3>3, <3>4, <3>5, <3>6, Zenon
  <2>2. CASE a # Len(A)
    <3>1. moreB = <<>> /\ Len(moreB) = 0
      <4>1. moreB = <<>>
        BY <1>7a, <2>2
      <4>2. Len(<<>>) = 0
        OBVIOUS
      <4> QED BY <4>1, <4>2, Zenon
    <3>2. Split(A, B, aa, b + Len(<<>>), (o \o moreA) \o <<>>)
      <4> HIDE DEF aa
      <4> QED BY <1>8, SplitNothing
    <3>3. Split(A, B, aa, bb, s)
      BY <3>1, <3>2, Zenon
    <3>4. Len(moreA) + Len(moreB) = Len(moreA)
      BY <1>8, <3>1
    <3>5. left = 0 => Len(moreA) = left
      BY <1>6, <1>8
    <3>6. bb = b
      <4>1. b + 0 = b
        BY <1>6
      <4> QED BY ONLY <3>1, <4>1, Zenon
    <3>7. Len(moreA) = left \/ (aa = Len(A) /\ b = Len(B))
      BY <1>7, <1>8, <2>2, <3>5
    <3>8. <<>> \in Seq(Nat) /\ 0 \in Nat
      OBVIOUS
    <3> QED BY <1>8, <3>1, <3>3, <3>4, <3>6, <3>7, <3>8, Zenon
  <2> QED BY <2>1, <2>2
<1> QED
  BY <1>8, <1>9, Zenon

ReadmergeOf(node, A, B, both) ==
  LET left  == Room(node) - Len(both.out)
      moreA == First(Skip(A, both.a), left)
      moreB == IF both.a = Len(A) THEN First(Skip(B, both.b), left) ELSE <<>>
  IN [node |-> Put(node, both.out \o moreA \o moreB),
      A |-> Skip(A, both.a + Len(moreA)), B |-> Skip(B, both.b + Len(moreB)),
      nread |-> Len(both.out \o moreA \o moreB)]

LEMMA ReadmergeUnfold ==
  ASSUME NEW node, NEW A, NEW B
  PROVE  Readmerge(node, A, B) = ReadmergeOf(node, A, B, Merge2(A, B, Room(node)))
<1> DEFINE m == Merge2(A, B, Room(node))
<1>1. Readmerge(node, A, B) = CHOOSE y \in {ReadmergeOf(node, A, B, z) : z \in {m}} : TRUE
  BY DEF Readmerge, ReadmergeOf, Once
<1>2. {ReadmergeOf(node, A, B, z) : z \in {m}} = {ReadmergeOf(node, A, B, m)}
  OBVIOUS
<1> HIDE DEF m
<1>3. Readmerge(node, A, B) = ReadmergeOf(node, A, B, m)
  BY <1>1, <1>2
<1> QED
  BY <1>3 DEF m

(* A leaf reads a merge of its runs, and reads nothing only if they are     *)
(* used up.                                                                 *)
LEMMA ReadmergeIs ==
  ASSUME fifosize \in Nat \ {0}, NEW node, Ring(node),
         NEW A \in Seq(Nat), NEW B \in Seq(Nat), Rising(A), Rising(B)
  PROVE  LET rd == Readmerge(node, A, B) IN
         \E a, b, s :
           /\ Split(A, B, a, b, s)
           /\ Ring(rd.node) /\ Contents(rd.node) = Contents(node) \o s
           /\ rd.A = Skip(A, a) /\ rd.B = Skip(B, b)
           /\ rd.nread = 0 /\ node.count < fifosize => rd.A = <<>> /\ rd.B = <<>>
<1> DEFINE n     == Room(node)
           both  == Merge2(A, B, n)
           a     == both.a
           b     == both.b
           o     == both.out
           left  == n - Len(o)
           moreA == First(Skip(A, a), left)
           moreB == IF a = Len(A) THEN First(Skip(B, b), left) ELSE <<>>
           s     == o \o moreA \o moreB
           aa    == a + Len(moreA)
           bb    == b + Len(moreB)
           rd    == Readmerge(node, A, B)
<1>1. n \in Nat /\ n = fifosize - node.count
  BY DEF Ring, Room
<1>2. MergedSoFar(A, B, n, both)
  <2> HIDE DEF n
  <2> QED BY <1>1, Merge2Good
<1>3. rd = [node |-> Put(node, s), A |-> Skip(A, aa), B |-> Skip(B, bb), nread |-> Len(s)]
  BY ReadmergeUnfold DEF ReadmergeOf
<1> HIDE DEF n, both
<1>4. Split(A, B, a, b, o) /\ a + b <= n /\ (a = Len(A) \/ b = Len(B) \/ a + b = n)
  BY <1>2 DEF MergedSoFar
<1>5. /\ Len(A) \in Nat /\ Len(B) \in Nat /\ a \in 0 .. Len(A) /\ b \in 0 .. Len(B)
      /\ o \in Seq(Nat) /\ Len(o) = a + b
  BY <1>4 DEF Split
<1> HIDE DEF a, b, o, rd
<1>6. left \in Nat /\ left = n - (a + b) /\ a \in Nat /\ b \in Nat
  BY <1>1, <1>4, <1>5
<1> HIDE DEF left
<1>7. b = Len(B) \/ left = 0 \/ a = Len(A)
  BY <1>1, <1>4, <1>6
<1>8. moreA = First(Skip(A, a), left) /\ moreB = IF a = Len(A) THEN First(Skip(B, b), left) ELSE <<>>
  OBVIOUS
<1> HIDE DEF moreA, moreB
<1>9. /\ moreA \in Seq(Nat) /\ Len(moreA) \in Nat /\ moreB \in Seq(Nat) /\ Len(moreB) \in Nat
      /\ Len(moreA) + Len(moreB) <= left
      /\ Split(A, B, aa, bb, s)
      /\ Len(moreA) + Len(moreB) = left \/ (aa = Len(A) /\ bb = Len(B))
  <2>1. left \in Nat
    BY <1>6
  <2>2. Split(A, B, a, b, o) /\ moreA = First(Skip(A, a), left)
        /\ RestOf(A, B, a, b, left, moreA, moreB)
    BY <1>4, <1>8 DEF RestOf
  <2>3. /\ moreA \in Seq(Nat) /\ Len(moreA) \in Nat /\ moreB \in Seq(Nat) /\ Len(moreB) \in Nat
        /\ Len(moreA) + Len(moreB) <= left
        /\ Split(A, B, a + Len(moreA), b + Len(moreB), o \o moreA \o moreB)
        /\ Len(moreA) + Len(moreB) = left \/ (a + Len(moreA) = Len(A) /\ b + Len(moreB) = Len(B))
    BY ONLY A \in Seq(Nat), B \in Seq(Nat), Rising(A), Rising(B), <1>7, <2>1, <2>2, SplitRest
  <2> QED BY <2>3, Zenon
<1>10. s \in Seq(Nat) /\ Len(s) = Len(o) + (Len(moreA) + Len(moreB)) /\ Len(s) <= n /\ aa \in 0 .. Len(A) /\ bb \in 0 .. Len(B)
  <2>1. s \in Seq(Nat) /\ aa \in 0 .. Len(A) /\ bb \in 0 .. Len(B) /\ Len(s) = aa + bb
    BY <1>9 DEF Split
  <2> HIDE DEF s
  <2>2. aa + bb = a + b + (Len(moreA) + Len(moreB))
    BY <1>6, <1>9
  <2>3. Len(s) <= n
    <3>1. Len(moreA) + Len(moreB) <= n - (a + b)
      BY <1>6, <1>9
    <3>2. Len(moreA) + Len(moreB) \in Nat
      BY <1>9
    <3>3. Len(s) = a + b + (Len(moreA) + Len(moreB))
      BY <2>1, <2>2
    <3> DEFINE k == Len(moreA) + Len(moreB)
    <3> HIDE DEF k
    <3>4. k \in Nat /\ k <= n - (a + b) => a + b + k <= n
      BY <1>1, <1>6
    <3> QED BY <3>1, <3>2, <3>3, <3>4 DEF k
  <2> QED BY <1>5, <2>1, <2>2, <2>3
<1>11. Ring(Put(node, s)) /\ Contents(Put(node, s)) = Contents(node) \o s
  <2> HIDE DEF s
  <2>1. Len(s) <= Room(node)
    BY <1>10 DEF n
  <2> QED BY <1>10, <2>1, PutRing
<1>12. ASSUME Len(s) = 0, node.count < fifosize PROVE Skip(A, aa) = <<>> /\ Skip(B, bb) = <<>>
  <2> HIDE DEF s, aa, bb
  <2>0. Len(moreA) + Len(moreB) \in Nat /\ a + b + (Len(moreA) + Len(moreB)) = 0
    <3>1. Len(moreA) + Len(moreB) \in Nat
      BY <1>9
    <3>2. Len(s) = Len(o) + (Len(moreA) + Len(moreB)) /\ Len(o) = a + b
      BY <1>5, <1>10
    <3> QED BY <1>12, <3>1, <3>2
  <2>1. left > 0
    <3>1. node.count \in Nat
      BY DEF Ring
    <3>2. n > 0
      BY <1>1, <1>12, <3>1
    <3>3. a + b = 0
      BY <1>6, <2>0
    <3> QED BY <1>1, <1>6, <3>2, <3>3
  <2>2. Len(moreA) + Len(moreB) = 0
    BY <1>6, <2>0
  <2>3. aa = Len(A) /\ bb = Len(B)
    BY <1>9, <2>1, <2>2
  <2>4. Skip(A, Len(A)) \in Seq(Nat) /\ Len(Skip(A, Len(A))) = Len(A) - Len(A)
    <3>1. Len(A) <= Len(A)
      BY <1>5
    <3> QED BY <1>5, <3>1, SkipIs
  <2>5. Skip(B, Len(B)) \in Seq(Nat) /\ Len(Skip(B, Len(B))) = Len(B) - Len(B)
    <3>1. Len(B) <= Len(B)
      BY <1>5
    <3> QED BY <1>5, <3>1, SkipIs
  <2>6. Len(A) - Len(A) = 0 /\ Len(B) - Len(B) = 0
    BY <1>5
  <2>7. Skip(A, Len(A)) = <<>>
    BY <2>4, <2>6
  <2>8. Skip(B, Len(B)) = <<>>
    BY <2>5, <2>6
  <2> QED BY <2>3, <2>7, <2>8
<1>13. rd.node = Put(node, s) /\ rd.A = Skip(A, aa) /\ rd.B = Skip(B, bb) /\ rd.nread = Len(s)
  <2> HIDE DEF s, aa, bb
  <2> QED BY <1>3
<1>14. rd.nread = 0 /\ node.count < fifosize => rd.A = <<>> /\ rd.B = <<>>
  BY <1>12, <1>13, Zenon
<1>15. Split(A, B, aa, bb, s)
  BY <1>9
<1>16. \E x, y, z : /\ Split(A, B, x, y, z)
                    /\ Ring(rd.node) /\ Contents(rd.node) = Contents(node) \o z
                    /\ rd.A = Skip(A, x) /\ rd.B = Skip(B, y)
                    /\ rd.nread = 0 /\ node.count < fifosize => rd.A = <<>> /\ rd.B = <<>>
  <2> HIDE DEF s, aa, bb
  <2> QED BY <1>11, <1>13, <1>14, <1>15, Zenon
<1> QED
  BY <1>16 DEF rd

LEMMA ConcatAssoc ==
  ASSUME NEW s, NEW t, NEW u, s \in Seq(Nat), t \in Seq(Nat), u \in Seq(Nat)
  PROVE  (s \o t) \o u = s \o (t \o u)
<1> DEFINE st == s \o t
           tu == t \o u
           x  == st \o u
           y  == s \o tu
           a  == Len(s)
           b  == Len(t)
           c  == Len(u)
<1>1. a \in Nat /\ b \in Nat /\ c \in Nat /\ st \in Seq(Nat) /\ Len(st) = a + b /\ tu \in Seq(Nat) /\ Len(tu) = b + c
  OBVIOUS
<1>2. /\ \A j \in 1 .. Len(s) + Len(t) : st[j] = IF j <= Len(s) THEN s[j] ELSE t[j - Len(s)]
      /\ \A j \in 1 .. Len(t) + Len(u) : tu[j] = IF j <= Len(t) THEN t[j] ELSE u[j - Len(t)]
  BY ConcatIndex
<1> HIDE DEF st, tu
<1>3. x \in Seq(Nat) /\ y \in Seq(Nat) /\ Len(x) = Len(st) + Len(u) /\ Len(y) = Len(s) + Len(tu)
  BY <1>1, ConcatAtEnd
<1>4. /\ \A j \in 1 .. Len(st) + Len(u) : x[j] = IF j <= Len(st) THEN st[j] ELSE u[j - Len(st)]
      /\ \A j \in 1 .. Len(s) + Len(tu) : y[j] = IF j <= Len(s) THEN s[j] ELSE tu[j - Len(s)]
  BY <1>1, ConcatIndex
<1> HIDE DEF x, y
<1>5. /\ \A j \in 1 .. (a + b) + c : x[j] = IF j <= a + b THEN st[j] ELSE u[j - (a + b)]
      /\ \A j \in 1 .. a + (b + c) : y[j] = IF j <= a THEN s[j] ELSE tu[j - a]
      /\ \A j \in 1 .. a + b : st[j] = IF j <= a THEN s[j] ELSE t[j - a]
      /\ \A j \in 1 .. b + c : tu[j] = IF j <= b THEN t[j] ELSE u[j - b]
      /\ Len(x) = (a + b) + c /\ Len(y) = a + (b + c)
  BY <1>1, <1>2, <1>3, <1>4, Zenon
<1> HIDE DEF a, b, c
<1>6. Len(x) = a + b + c /\ Len(y) = a + b + c
  BY <1>1, <1>5
<1>7. ASSUME NEW j \in 1 .. a + b + c PROVE x[j] = y[j]
  <2>1. j \in 1 .. (a + b) + c /\ j \in 1 .. a + (b + c)
    BY <1>1
  <2>2. CASE j <= a
    <3>1. j <= a + b /\ j \in 1 .. a + b
      BY <1>1, <2>2
    <3>2. x[j] = st[j] /\ st[j] = s[j] /\ y[j] = s[j]
      BY <1>5, <2>1, <2>2, <3>1, Zenon
    <3> QED BY <3>2
  <2>3. CASE ~(j <= a) /\ j <= a + b
    <3>1. j \in 1 .. a + b /\ j - a \in 1 .. b + c /\ j - a <= b
      BY <1>1, <2>3
    <3>2. x[j] = st[j] /\ st[j] = t[j - a]
      BY <1>5, <2>1, <2>3, <3>1, Zenon
    <3>3. y[j] = tu[j - a] /\ tu[j - a] = t[j - a]
      BY <1>5, <2>1, <2>3, <3>1, Zenon
    <3> QED BY <3>2, <3>3
  <2>4. CASE ~(j <= a) /\ ~(j <= a + b)
    <3>1. j - a \in 1 .. b + c /\ ~(j - a <= b) /\ (j - a) - b = j - (a + b)
      BY <1>1, <2>4
    <3>2. x[j] = u[j - (a + b)]
      BY <1>5, <2>1, <2>4, Zenon
    <3>3. y[j] = tu[j - a] /\ tu[j - a] = u[(j - a) - b]
      BY <1>5, <2>1, <2>4, <3>1, Zenon
    <3> QED BY <3>1, <3>2, <3>3, Zenon
  <2> QED BY <2>2, <2>3, <2>4
<1>8. Len(x) = Len(y) /\ \A k \in 1 .. Len(x) : x[k] = y[k]
  BY <1>6, <1>7
<1>9. x = y
  BY <1>3, <1>8, SeqEqual
<1> QED
  BY <1>9 DEF x, y, st, tu

LEMMA SkipEnds ==
  ASSUME NEW A \in Seq(Nat)
  PROVE  Skip(A, 0) = A /\ Skip(A, Len(A)) = <<>>
<1>1. Len(A) \in Nat /\ 0 \in Nat /\ 0 <= Len(A) /\ Len(A) <= Len(A) /\ Len(A) - Len(A) = 0 /\ Len(A) - 0 = Len(A)
  OBVIOUS
<1>2. Skip(A, Len(A)) = <<>>
  <2>1. Skip(A, Len(A)) \in Seq(Nat) /\ Len(Skip(A, Len(A))) = Len(A) - Len(A)
    BY <1>1, SkipIs
  <2>2. Len(Skip(A, Len(A))) = 0
    BY <1>1, <2>1, Zenon
  <2> QED BY <2>1, <2>2
<1>3. Skip(A, 0) = A
  <2>1. Skip(A, 0) \in Seq(Nat) /\ Len(Skip(A, 0)) = Len(A) - 0 /\ \A k \in 1 .. Len(A) - 0 : Skip(A, 0)[k] = A[0 + k]
    BY <1>1, SkipIs
  <2>2. \A k \in 1 .. Len(A) : 0 + k = k
    OBVIOUS
  <2>3. Len(Skip(A, 0)) = Len(A) /\ \A k \in 1 .. Len(Skip(A, 0)) : Skip(A, 0)[k] = A[k]
    BY <1>1, <2>1, <2>2, Zenon
  <2> QED BY <2>1, <2>3, SeqEqual
<1> QED
  BY <1>2, <1>3

(* Nothing of s is beyond the end of A. *)
Within(s, A) == \A k \in 1 .. Len(s) : Len(A) > 0 /\ s[k] <= A[Len(A)]

LEMMA SplitWithin ==
  ASSUME NEW A \in Seq(Nat), NEW B \in Seq(Nat), Rising(B), NEW a, NEW b, NEW s, Split(A, B, a, b, s), Len(A) = 0
  PROVE  Within(s, B)
<1> SUFFICES ASSUME NEW k \in 1 .. Len(s) PROVE Len(B) > 0 /\ s[k] <= B[Len(B)]
  BY DEF Within
<1> DEFINE l == Len(B)
<1>1. a \in 0 .. 0 /\ b \in 0 .. l /\ l \in Nat
  BY DEF Split
<1>2. (\E i \in 1 .. a : s[k] = A[i]) \/ (\E i \in 1 .. b : s[k] = B[i])
  BY DEF Split
<1>3. a = 0 /\ 1 .. 0 = {}
  BY <1>1
<1>4. PICK i \in 1 .. b : s[k] = B[i]
  BY <1>2, <1>3
<1>5. i \in 1 .. l /\ l \in 1 .. l /\ l > 0
  BY <1>1
<1>6. B[i] <= B[l]
  <2>1. B[i] \in Nat /\ B[l] \in Nat
    BY <1>5, ElementsType
  <2>2. CASE i = l
    <3>1. \A x, y \in Nat : x = y => x <= y
      OBVIOUS
    <3>2. B[i] = B[l]
      BY <2>2
    <3> QED BY <2>1, <3>1, <3>2
  <2>3. CASE i # l
    <3>1. i < l
      BY <1>5, <2>3
    <3> QED BY <1>5, <3>1 DEF Rising
  <2> QED BY <2>2, <2>3
<1> QED
  BY <1>4, <1>5, <1>6

(* direct_copy: the other side, R, has nothing *)
LEMMA DirectCopyIs ==
  ASSUME fifosize \in Nat \ {0}, NEW dest, NEW src, Ring(dest), Ring(src), Rising(Contents(src)),
         NEW R, R = <<>>
  PROVE  LET c == direct_copy(dest, src) IN
         \E b, s :
           /\ Split(R, Contents(src), 0, b, s)
           /\ Ring(c.dest) /\ Contents(c.dest) = Contents(dest) \o s
           /\ Ring(c.src) /\ Contents(c.src) = Skip(Contents(src), b)
           /\ Within(s, Contents(src))
<1> DEFINE L == Contents(src)
           n == Room(dest)
           s == First(L, n)
           c == direct_copy(dest, src)
           b == Len(s)
<1>1. n \in Nat /\ n = fifosize - dest.count
  BY ONLY fifosize \in Nat \ {0}, Ring(dest) DEF Ring, Room
<1>2. L \in Seq(Nat) /\ Len(L) = src.count
  BY RingContents
<1>3. c = [dest |-> Put(dest, s), src |-> Take(src, b)]
  BY DEF direct_copy
<1>4. Rising(L)
  OBVIOUS
<1>5. R \in Seq(Nat) /\ Rising(R) /\ Len(R) = 0
  <2>1. <<>> \in Seq(Nat) /\ Len(<<>>) = 0 /\ 1 .. 0 = {}
    OBVIOUS
  <2> QED BY <2>1 DEF Rising
<1> HIDE DEF L, n
<1>6. Split(L, R, 0, 0, <<>>)
  BY <1>2, <1>5, SplitNone
<1>7. s = First(Skip(L, 0), n)
  BY <1>2, SkipEnds
<1> HIDE DEF s
<1>8. /\ s \in Seq(Nat) /\ Len(s) \in Nat /\ Len(s) <= n
      /\ Split(L, R, 0 + Len(s), 0, <<>> \o s)
  BY ONLY <1>1, <1>2, <1>4, <1>5, <1>6, <1>7, SplitMore
<1>9. 0 + Len(s) = Len(s) /\ <<>> \o s = s
  BY <1>8
<1>10. Split(L, R, b, 0, s)
  BY <1>8, <1>9, Zenon
<1>11. Split(R, L, 0, b, s) /\ b \in 0 .. Len(L)
  <2>1. \A x : Split(L, R, x, 0, s) => x \in 0 .. Len(L)
    BY DEF Split
  <2>2. Split(R, L, 0, b, s)
    <3> HIDE DEF b
    <3> QED BY ONLY <1>2, <1>5, <1>10, SplitSym
  <2> QED BY <1>10, <2>1, <2>2
<1>12. Within(s, L)
  <2> HIDE DEF b
  <2> QED BY <1>2, <1>4, <1>5, <1>11, SplitWithin
<1>13. Ring(Put(dest, s)) /\ Contents(Put(dest, s)) = Contents(dest) \o s
  BY <1>8, PutRing DEF n
<1>14. Ring(Take(src, b)) /\ Contents(Take(src, b)) = Skip(L, b)
  <2>1. b \in 0 .. src.count
    BY <1>2, <1>11
  <2> HIDE DEF b
  <2> QED BY <2>1, TakeRing DEF L
<1>15. c.dest = Put(dest, s) /\ c.src = Take(src, b)
  BY <1>3
<1> HIDE DEF b, c
<1>16. \E x, y : /\ Split(R, L, 0, x, y)
                 /\ Ring(c.dest) /\ Contents(c.dest) = Contents(dest) \o y
                 /\ Ring(c.src) /\ Contents(c.src) = Skip(L, x)
                 /\ Within(y, L)
  BY <1>11, <1>12, <1>13, <1>14, <1>15, Zenon
<1> QED
  BY <1>16 DEF c, L

(* res is what a merge of the children right and left into node leaves. *)
MergesInto(res, node, right, left, rd, ld, a, b, s) ==
  /\ Split(Contents(right), Contents(left), a, b, s)
  /\ Ring(res.node)  /\ Contents(res.node)  = Contents(node) \o s
  /\ Ring(res.right) /\ Contents(res.right) = Skip(Contents(right), a)
  /\ Ring(res.left)  /\ Contents(res.left)  = Skip(Contents(left), b)
  /\ ~rd => Within(s, Contents(right))
  /\ ~ld => Within(s, Contents(left))

StoredOf(node, right, left, rd, ld, both, n) ==
  LET R     == Contents(right)
      L     == Contents(left)
      room  == Min({Room(n), fifosize - n.tail})
      moreR == IF BothDone(rd, ld) THEN First(Skip(R, both.a), room) ELSE <<>>
      moreL == IF BothDone(rd, ld) /\ both.a = Len(R) THEN First(Skip(L, both.b), room) ELSE <<>>
  IN [node |-> Put(n, moreR \o moreL),
      right |-> Take(right, both.a + Len(moreR)), left |-> Take(left, both.b + Len(moreL))]

LEMMA MergeChildrenUnfold ==
  ASSUME NEW node, NEW right, NEW left, NEW rd, NEW ld
  PROVE  LET both == Merge2(Contents(right), Contents(left), Room(node)) IN
         MergeChildren(node, right, left, rd, ld) = StoredOf(node, right, left, rd, ld, both, Put(node, both.out))
<1> DEFINE m == Merge2(Contents(right), Contents(left), Room(node))
           Then(both, n) == StoredOf(node, right, left, rd, ld, both, n)
           Inside(both) == CHOOSE y \in {Then(both, n) : n \in {Put(node, both.out)}} : TRUE
<1>1. MergeChildren(node, right, left, rd, ld) = CHOOSE y \in {Inside(z) : z \in {m}} : TRUE
  BY DEF MergeChildren, StoredOf, Once
<1> HIDE DEF m
<1>2. \A z : Inside(z) = Then(z, Put(node, z.out))
  <2> SUFFICES ASSUME NEW z PROVE Inside(z) = Then(z, Put(node, z.out))
    OBVIOUS
  <2> DEFINE q == Put(node, z.out)
  <2>1. {Then(z, n) : n \in {q}} = {Then(z, q)}
    OBVIOUS
  <2> HIDE DEF Then, q
  <2> QED BY <2>1
<1> HIDE DEF Inside
<1>3. {Inside(z) : z \in {m}} = {Inside(m)}
  OBVIOUS
<1>4. MergeChildren(node, right, left, rd, ld) = Inside(m)
  BY <1>1, <1>3
<1> QED
  BY <1>2, <1>4 DEF m

Cat(s, t) == s \o t

LEMMA CatAssoc ==
  ASSUME NEW s, NEW t, NEW u, s \in Seq(Nat), t \in Seq(Nat), u \in Seq(Nat)
  PROVE  Cat(Cat(s, t), u) = Cat(s, Cat(t, u))
<1>1. (s \o t) \o u = s \o (t \o u)
  BY ConcatAssoc
<1> QED
  BY ONLY <1>1 DEF Cat

LEMMA MergeChildrenIs ==
  ASSUME fifosize \in Nat \ {0}, NEW node, NEW right, NEW left, Ring(node), Ring(right), Ring(left),
         Rising(Contents(right)), Rising(Contents(left)), NEW rd \in BOOLEAN, NEW ld \in BOOLEAN
  PROVE  \E a, b, s : MergesInto(MergeChildren(node, right, left, rd, ld), node, right, left, rd, ld, a, b, s)
<1> DEFINE R     == Contents(right)
           L     == Contents(left)
           n0    == Room(node)
           both  == Merge2(R, L, n0)
           a     == both.a
           b     == both.b
           o     == both.out
           n     == Put(node, o)
           room  == Min({Room(n), fifosize - n.tail})
           moreR == IF BothDone(rd, ld) THEN First(Skip(R, a), room) ELSE <<>>
           moreL == IF BothDone(rd, ld) /\ a = Len(R) THEN First(Skip(L, b), room) ELSE <<>>
           s     == o \o moreR \o moreL
           aa    == a + Len(moreR)
           bb    == b + Len(moreL)
           res   == MergeChildren(node, right, left, rd, ld)
<1>1. n0 \in Nat /\ n0 = fifosize - node.count
  BY ONLY fifosize \in Nat \ {0}, Ring(node) DEF Ring, Room
<1>2. R \in Seq(Nat) /\ Len(R) = right.count /\ L \in Seq(Nat) /\ Len(L) = left.count /\ Rising(R) /\ Rising(L)
      /\ Contents(node) \in Seq(Nat)
  BY RingContents
<1>3. res = [node |-> Put(n, moreR \o moreL), right |-> Take(right, aa), left |-> Take(left, bb)]
  <2>1. res = StoredOf(node, right, left, rd, ld, both, n)
    BY MergeChildrenUnfold
  <2> HIDE DEF res, n, both
  <2> QED BY <2>1 DEF StoredOf
<1>4. MergedSoFar(R, L, n0, both)
  <2> HIDE DEF R, L, n0
  <2> QED BY <1>1, <1>2, Merge2Good
<1> HIDE DEF R, L, n0, both, res
<1>5. /\ Split(R, L, a, b, o) /\ a + b <= n0 /\ (a = Len(R) \/ b = Len(L) \/ a + b = n0)
      /\ Within(o, R) /\ Within(o, L)
  BY <1>4 DEF MergedSoFar, Within
<1> HIDE DEF a, b, o
<1>6. /\ Len(R) \in Nat /\ Len(L) \in Nat /\ a \in 0 .. Len(R) /\ b \in 0 .. Len(L)
      /\ o \in Seq(Nat) /\ Len(o) = a + b
  BY <1>5 DEF Split
<1>7. Len(o) <= n0
  BY <1>5, <1>6
<1>8. Ring(n) /\ n.count = node.count + Len(o) /\ Contents(n) = Contents(node) \o o
  <2>1. Len(o) <= Room(node)
    BY <1>7 DEF n0
  <2>2. /\ Ring(Put(node, o)) /\ Put(node, o).count = node.count + Len(o)
        /\ Contents(Put(node, o)) = Contents(node) \o o
    BY <1>6, <2>1, PutRing
  <2> QED BY <2>2
<1> HIDE DEF n
<1>9. Room(n) \in Nat /\ fifosize - n.tail \in Nat /\ Room(n) = n0 - (a + b)
  <2>1. Room(n) \in Nat /\ fifosize - n.tail \in Nat /\ Room(n) = fifosize - n.count
    BY ONLY fifosize \in Nat \ {0}, <1>8 DEF Ring, Room
  <2>2. node.count \in Nat
    BY ONLY fifosize \in Nat \ {0}, Ring(node) DEF Ring
  <2>3. n.count = node.count + (a + b)
    BY <1>6, <1>8
  <2>4. fifosize \in Nat /\ a + b \in Nat
    BY <1>6
  <2>5. fifosize - (node.count + (a + b)) = (fifosize - node.count) - (a + b)
    BY ONLY <2>2, <2>4
  <2> QED BY ONLY <1>1, <2>1, <2>3, <2>5
<1>10. room \in Nat /\ room <= Room(n)
  BY <1>9, MinOfTwo
<1> HIDE DEF room
<1>11. b = Len(L) \/ room = 0 \/ a = Len(R)
  <2>1. CASE a + b = n0
    <3>1. n0 - (a + b) = 0
      BY ONLY <1>1, <2>1
    <3>2. Room(n) = 0
      BY ONLY <1>9, <3>1
    <3> QED BY ONLY <1>10, <3>2
  <2> QED BY <1>5, <2>1
<1>12. /\ moreR \in Seq(Nat) /\ Len(moreR) \in Nat /\ moreL \in Seq(Nat) /\ Len(moreL) \in Nat
       /\ Len(moreR) + Len(moreL) <= room
       /\ Split(R, L, aa, bb, s)
       /\ ~rd \/ ~ld => s = o
  <2>1. CASE rd /\ ld
    <3>1. RestOf(R, L, a, b, room, moreR, moreL)
      BY <2>1 DEF RestOf, BothDone
    <3> HIDE DEF moreR, moreL
    <3>2. room \in Nat
      BY <1>10
    <3>3. /\ moreR \in Seq(Nat) /\ Len(moreR) \in Nat /\ moreL \in Seq(Nat) /\ Len(moreL) \in Nat
          /\ Len(moreR) + Len(moreL) <= room
          /\ Split(R, L, a + Len(moreR), b + Len(moreL), o \o moreR \o moreL)
      BY ONLY <1>2, <1>5, <1>11, <3>1, <3>2, SplitRest
    <3> QED BY <2>1, <3>3, Zenon
  <2>2. CASE ~(rd /\ ld)
    <3>1. moreR = <<>> /\ moreL = <<>>
      BY <2>2 DEF BothDone
    <3> HIDE DEF moreR, moreL
    <3>2. <<>> \in Seq(Nat) /\ Len(<<>>) = 0 /\ 0 \in Nat /\ a + 0 = a /\ b + 0 = b /\ 0 + 0 = 0 /\ o \o <<>> = o /\ 0 <= room
      BY <1>6, <1>10
    <3>3. aa = a /\ bb = b /\ s = o /\ Len(moreR) = 0 /\ Len(moreL) = 0
      BY ONLY <3>1, <3>2, Zenon
    <3> QED BY ONLY <1>5, <3>1, <3>2, <3>3, Zenon
  <2> QED BY <2>1, <2>2
<1> HIDE DEF moreR, moreL
<1>13. Ring(Put(n, moreR \o moreL)) /\ Contents(Put(n, moreR \o moreL)) = Contents(node) \o s
  <2> DEFINE more == moreR \o moreL
  <2>1. more \in Seq(Nat) /\ Len(more) = Len(moreR) + Len(moreL)
    BY ONLY <1>12, ConcatAtEnd
  <2>2. Len(more) <= Room(n)
    BY ONLY <1>9, <1>10, <1>12, <2>1
  <2>3. Ring(Put(n, more)) /\ Contents(Put(n, more)) = Contents(n) \o more
    <3> HIDE DEF more
    <3> QED BY <1>8, <2>1, <2>2, PutRing
  <2>4. (Contents(node) \o o) \o more = Contents(node) \o (o \o more)
    <3> DEFINE c == Contents(node)
    <3>1. c \in Seq(Nat) /\ o \in Seq(Nat) /\ more \in Seq(Nat)
      BY ONLY <1>2, <1>6, <2>1
    <3> HIDE DEF more, c
    <3>2. Cat(Cat(c, o), more) = Cat(c, Cat(o, more))
      BY ONLY <3>1, CatAssoc
    <3>3. (c \o o) \o more = c \o (o \o more)
      BY ONLY <3>2 DEF Cat
    <3> QED BY ONLY <3>3 DEF c
  <2>5. o \o more = s
    <3>1. o \in Seq(Nat) /\ moreR \in Seq(Nat) /\ moreL \in Seq(Nat)
      BY ONLY <1>6, <1>12
    <3>2. Cat(Cat(o, moreR), moreL) = Cat(o, Cat(moreR, moreL))
      BY ONLY <3>1, CatAssoc
    <3> QED BY ONLY <3>2 DEF Cat
  <2> QED BY ONLY <1>8, <2>3, <2>4, <2>5, Zenon
<1> HIDE DEF s
<1>14. Ring(Take(right, aa)) /\ Contents(Take(right, aa)) = Skip(R, aa)
       /\ Ring(Take(left, bb)) /\ Contents(Take(left, bb)) = Skip(L, bb)
  <2>1. aa \in 0 .. Len(R) /\ bb \in 0 .. Len(L)
    BY <1>12 DEF Split
  <2> HIDE DEF aa, bb
  <2>2. aa \in 0 .. right.count /\ bb \in 0 .. left.count
    BY <1>2, <2>1
  <2> QED BY <2>2, TakeRing DEF R, L
<1>15. (~rd => Within(s, R)) /\ (~ld => Within(s, L))
  BY ONLY <1>5, <1>12, Zenon
<1>16. res.node = Put(n, moreR \o moreL) /\ res.right = Take(right, aa) /\ res.left = Take(left, bb)
  BY ONLY <1>3
<1> HIDE DEF aa, bb
<1>17. MergesInto(res, node, right, left, rd, ld, aa, bb, s)
  BY ONLY <1>12, <1>13, <1>14, <1>15, <1>16, Zenon DEF MergesInto, R, L
<1> QED
  BY <1>17 DEF res

(* An inner node merges what its children hold. *)
LEMMA MergeIs ==
  ASSUME fifosize \in Nat \ {0}, NEW node, NEW right, NEW left, Ring(node), Ring(right), Ring(left),
         Rising(Contents(right)), Rising(Contents(left)), NEW rd \in BOOLEAN, NEW ld \in BOOLEAN
  PROVE  \E a, b, s : MergesInto(merge_scalar_decomposed(node, right, left, rd, ld), node, right, left, rd, ld, a, b, s)
<1> DEFINE R   == Contents(right)
           L   == Contents(left)
           res == merge_scalar_decomposed(node, right, left, rd, ld)
           way == Through(right, left, rd, ld)
<1>1. R \in Seq(Nat) /\ Len(R) = right.count /\ L \in Seq(Nat) /\ Len(L) = left.count
  BY RingContents
<1>2. "left" # "right"
  OBVIOUS
<1>3. CASE way = "left"
  <2> DEFINE c == direct_copy(node, left)
  <2>1. rd /\ ~ld /\ right.count = 0
    BY <1>3 DEF Through
  <2>2. res = [node |-> c.dest, right |-> right, left |-> c.src]
    BY <1>3 DEF merge_scalar_decomposed
  <2> HIDE DEF R, c, res
  <2>3. R = <<>>
    BY <1>1, <2>1
  <2>4. PICK b, s :
          /\ Split(R, L, 0, b, s)
          /\ Ring(c.dest) /\ Contents(c.dest) = Contents(node) \o s
          /\ Ring(c.src) /\ Contents(c.src) = Skip(L, b)
          /\ Within(s, L)
    BY <2>3, DirectCopyIs DEF c
  <2>5. Contents(right) = Skip(R, 0)
    BY <1>1, SkipEnds DEF R
  <2>6. res.node = c.dest /\ res.right = right /\ res.left = c.src
    BY <2>2
  <2> HIDE DEF L
  <2>7. MergesInto(res, node, right, left, rd, ld, 0, b, s)
    BY <2>1, <2>4, <2>5, <2>6, Zenon DEF MergesInto, R, L
  <2> QED BY <2>7 DEF res
<1>4. CASE way = "right"
  <2> DEFINE c == direct_copy(node, right)
  <2>1. ld /\ ~rd /\ left.count = 0
    BY <1>2, <1>4 DEF Through
  <2>2. res = [node |-> c.dest, right |-> c.src, left |-> left]
    BY <1>2, <1>4 DEF merge_scalar_decomposed
  <2> HIDE DEF L, c, res
  <2>3. L = <<>>
    BY <1>1, <2>1
  <2>4. PICK b, s :
          /\ Split(L, R, 0, b, s)
          /\ Ring(c.dest) /\ Contents(c.dest) = Contents(node) \o s
          /\ Ring(c.src) /\ Contents(c.src) = Skip(R, b)
          /\ Within(s, R)
    BY <2>3, DirectCopyIs DEF c
  <2>5. Contents(left) = Skip(L, 0)
    BY <1>1, SkipEnds DEF L
  <2>6. res.node = c.dest /\ res.left = left /\ res.right = c.src
    BY <2>2
  <2>7. Split(R, L, b, 0, s)
    <3> HIDE DEF R
    <3> QED BY ONLY <1>1, <2>4, SplitSym
  <2> HIDE DEF R
  <2>8. MergesInto(res, node, right, left, rd, ld, b, 0, s)
    BY <2>1, <2>4, <2>5, <2>6, <2>7, Zenon DEF MergesInto, R, L
  <2> QED BY <2>8 DEF res
<1>5. CASE way # "left" /\ way # "right"
  <2>1. res = MergeChildren(node, right, left, rd, ld)
    BY <1>5 DEF merge_scalar_decomposed
  <2>2. \E a, b, s : MergesInto(MergeChildren(node, right, left, rd, ld), node, right, left, rd, ld, a, b, s)
    BY MergeChildrenIs
  <2> HIDE DEF res
  <2>3. \E a, b, s : MergesInto(res, node, right, left, rd, ld, a, b, s)
    BY <2>1, <2>2, Zenon
  <2> QED BY <2>3 DEF res
<1> QED
  BY <1>3, <1>4, <1>5

LEMMA FirstAll ==
  ASSUME NEW s \in Seq(Nat), NEW n \in Nat, Len(s) <= n
  PROVE  First(s, n) = s
<1>1. Len(s) \in Nat
  OBVIOUS
<1>2. Min({n, Len(s)}) \in Nat /\ Min({n, Len(s)}) <= Len(s) /\ (Min({n, Len(s)}) = n \/ Min({n, Len(s)}) = Len(s))
  BY <1>1, MinOfTwo
<1>3. Min({n, Len(s)}) = Len(s)
  BY <1>1, <1>2
<1>4. SubSeq(s, 1, Len(s)) = s
  OBVIOUS
<1> QED
  BY <1>3, <1>4 DEF First

(* With nothing on the other side, all of L is a merge. *)
LEMMA SplitAll ==
  ASSUME NEW R \in Seq(Nat), NEW L \in Seq(Nat), Rising(R), Rising(L), Len(R) = 0
  PROVE  Split(R, L, 0, Len(L), L) /\ Within(L, L)
<1>1. Split(L, R, 0, 0, <<>>)
  BY SplitNone
<1>2. Skip(L, 0) = L /\ Len(L) \in Nat /\ Len(L) <= Len(L) /\ First(L, Len(L)) = L
  <2>1. Len(L) \in Nat /\ Len(L) <= Len(L)
    OBVIOUS
  <2> QED BY <2>1, SkipEnds, FirstAll
<1>3. L = First(Skip(L, 0), Len(L)) /\ Len(L) \in Nat /\ 0 = Len(R)
  BY <1>2
<1>4. Split(L, R, 0 + Len(L), 0, <<>> \o L)
  BY ONLY L \in Seq(Nat), R \in Seq(Nat), Rising(R), Rising(L), <1>1, <1>3, SplitMore
<1>5. 0 + Len(L) = Len(L) /\ <<>> \o L = L
  OBVIOUS
<1>6. Split(L, R, Len(L), 0, L)
  BY <1>4, <1>5, Zenon
<1>7. Split(R, L, 0, Len(L), L)
  BY ONLY L \in Seq(Nat), R \in Seq(Nat), <1>6, SplitSym
<1>8. Within(L, L)
  BY <1>7, SplitWithin
<1> QED
  BY <1>7, <1>8

(* st is what the root takes of its children. *)
StoresOf(st, right, left, rd, ld) ==
  /\ Split(Contents(right), Contents(left), st.a, st.b, st.out)
  /\ ~rd => Within(st.out, Contents(right))
  /\ ~ld => Within(st.out, Contents(left))
  /\ rd /\ ld => st.a = Len(Contents(right)) /\ st.b = Len(Contents(left))

StoreAll(R, L, rd, ld, both) ==
  IF BothDone(rd, ld)
  THEN [a |-> Len(R), b |-> Len(L), out |-> both.out \o Skip(R, both.a) \o Skip(L, both.b)]
  ELSE both

LEMMA StoreUnfold ==
  ASSUME NEW right, NEW left, NEW rd, NEW ld,
         Through(right, left, rd, ld) # "left", Through(right, left, rd, ld) # "right",
         NEW R, R = Contents(right), NEW L, L = Contents(left)
  PROVE  mergestore_scalar_decomposed(right, left, rd, ld) = StoreAll(R, L, rd, ld, Merge2(R, L, Len(R) + Len(L)))
<1> DEFINE m == Merge2(R, L, Len(R) + Len(L))
<1>1. mergestore_scalar_decomposed(right, left, rd, ld) = CHOOSE y \in {StoreAll(R, L, rd, ld, z) : z \in {m}} : TRUE
  BY DEF mergestore_scalar_decomposed, direct_copy_to_output, StoreAll, Once
<1> HIDE DEF m
<1>2. {StoreAll(R, L, rd, ld, z) : z \in {m}} = {StoreAll(R, L, rd, ld, m)}
  OBVIOUS
<1>3. mergestore_scalar_decomposed(right, left, rd, ld) = StoreAll(R, L, rd, ld, m)
  BY <1>1, <1>2
<1> QED
  BY <1>3 DEF m

StoreWay(way, R, L, rest) ==
  CASE way = "left"  -> [a |-> 0, b |-> Len(L), out |-> L]
    [] way = "right" -> [a |-> Len(R), b |-> 0, out |-> R]
    [] OTHER -> rest

LEMMA StoreWays ==
  ASSUME NEW right, NEW left, NEW rd, NEW ld
  PROVE  \E rest : mergestore_scalar_decomposed(right, left, rd, ld)
                      = StoreWay(Through(right, left, rd, ld), Contents(right), Contents(left), rest)
<1> DEFINE R == Contents(right)
           L == Contents(left)
           rest == Once(Merge2(R, L, Len(R) + Len(L)), LAMBDA both :
                     IF BothDone(rd, ld)
                     THEN [a |-> Len(R), b |-> Len(L), out |-> both.out \o Skip(R, both.a) \o Skip(L, both.b)]
                     ELSE both)
<1>1. mergestore_scalar_decomposed(right, left, rd, ld) = StoreWay(Through(right, left, rd, ld), R, L, rest)
  BY DEF mergestore_scalar_decomposed, StoreWay, direct_copy_to_output, Once
<1> HIDE DEF rest
<1> QED
  BY <1>1

LEMMA StoreIs ==
  ASSUME fifosize \in Nat \ {0}, NEW right, NEW left, Ring(right), Ring(left),
         Rising(Contents(right)), Rising(Contents(left)), NEW rd \in BOOLEAN, NEW ld \in BOOLEAN
  PROVE  StoresOf(mergestore_scalar_decomposed(right, left, rd, ld), right, left, rd, ld)
<1> DEFINE R   == Contents(right)
           L   == Contents(left)
           st  == mergestore_scalar_decomposed(right, left, rd, ld)
           way == Through(right, left, rd, ld)
<1>1. R \in Seq(Nat) /\ Len(R) = right.count /\ L \in Seq(Nat) /\ Len(L) = left.count /\ Rising(R) /\ Rising(L)
  BY RingContents
<1>2. "left" # "right" /\ Len(R) \in Nat /\ Len(L) \in Nat
  BY <1>1
<1>3. CASE way = "left"
  <2>1. rd /\ ~ld /\ right.count = 0
    BY <1>3 DEF Through
  <2>2. st = [a |-> 0, b |-> Len(L), out |-> L]
    BY <1>2, <1>3, StoreWays DEF StoreWay
  <2> HIDE DEF R, L, st
  <2>3. st.a = 0 /\ st.b = Len(L) /\ st.out = L
    BY <2>2
  <2>4. Split(R, L, 0, Len(L), L) /\ Within(L, L)
    BY ONLY <1>1, <2>1, SplitAll
  <2> QED BY <2>1, <2>3, <2>4, Zenon DEF StoresOf, R, L, st
<1>4. CASE way = "right"
  <2>1. ld /\ ~rd /\ left.count = 0
    BY <1>2, <1>4 DEF Through
  <2>2. st = [a |-> Len(R), b |-> 0, out |-> R]
    BY <1>2, <1>4, StoreWays DEF StoreWay
  <2> HIDE DEF R, L, st
  <2>3. st.a = Len(R) /\ st.b = 0 /\ st.out = R
    BY <2>2
  <2>4. Split(L, R, 0, Len(R), R) /\ Within(R, R)
    BY ONLY <1>1, <2>1, SplitAll
  <2>5. Split(R, L, Len(R), 0, R)
    BY ONLY <1>1, <2>4, SplitSym
  <2> QED BY <2>1, <2>3, <2>4, <2>5, Zenon DEF StoresOf, R, L, st
<1>5. CASE way # "left" /\ way # "right"
  <2> DEFINE n    == Len(R) + Len(L)
             both == Merge2(R, L, n)
             a    == both.a
             b    == both.b
             o    == both.out
  <2>1. st = StoreAll(R, L, rd, ld, both)
    BY <1>5, StoreUnfold
  <2> HIDE DEF R, L, st
  <2>2. n \in Nat
    BY <1>2
  <2>3. MergedSoFar(R, L, n, both)
    <3> HIDE DEF n
    <3> QED BY <1>1, <2>2, Merge2Good
  <2> HIDE DEF both
  <2>4. /\ Split(R, L, a, b, o) /\ (a = Len(R) \/ b = Len(L) \/ a + b = n)
        /\ Within(o, R) /\ Within(o, L)
    BY <2>3 DEF MergedSoFar, Within
  <2>5. CASE ~(rd /\ ld)
    <3>1. st = both
      BY <2>1, <2>5 DEF StoreAll, BothDone
    <3> QED BY <2>4, <2>5, <3>1, Zenon DEF StoresOf, R, L, st
  <2>6. CASE rd /\ ld
    <3> DEFINE moreR == Skip(R, a)
               moreL == Skip(L, b)
               left_ == (Len(R) - a) + (Len(L) - b)
    <3>1. st = [a |-> Len(R), b |-> Len(L), out |-> o \o moreR \o moreL]
      BY <2>1, <2>6 DEF StoreAll, BothDone
    <3> HIDE DEF a, b, o
    <3>2. a \in Nat /\ a <= Len(R) /\ b \in Nat /\ b <= Len(L)
      <4>1. a \in 0 .. Len(R) /\ b \in 0 .. Len(L)
        BY <2>4 DEF Split
      <4> QED BY <1>2, <4>1
    <3>3. a = Len(R) \/ b = Len(L)
      BY <1>2, <2>4, <3>2
    <3>4. moreR \in Seq(Nat) /\ Len(moreR) = Len(R) - a /\ moreL \in Seq(Nat) /\ Len(moreL) = Len(L) - b
      BY <1>1, <3>2, SkipIs
    <3>5. left_ \in Nat /\ Len(moreR) <= left_ /\ Len(moreL) <= left_
      BY <1>2, <3>2, <3>4
    <3> HIDE DEF left_
    <3>6. First(moreR, left_) = moreR /\ First(moreL, left_) = moreL
      <4> HIDE DEF moreR, moreL
      <4> QED BY <3>4, <3>5, FirstAll
    <3>7. a # Len(R) => moreL = <<>>
      <4>1. Skip(L, Len(L)) = <<>>
        BY <1>1, SkipEnds
      <4> QED BY <3>3, <4>1
    <3>8. RestOf(R, L, a, b, left_, moreR, moreL)
      BY <3>6, <3>7, Zenon DEF RestOf
    <3> HIDE DEF moreR, moreL
    <3>9. b = Len(L) \/ left_ = 0 \/ a = Len(R)
      BY <3>3
    <3>10. left_ \in Nat
      BY <3>5
    <3>11. Split(R, L, a + Len(moreR), b + Len(moreL), o \o moreR \o moreL)
      BY ONLY <1>1, <2>4, <3>8, <3>9, <3>10, SplitRest
    <3>12. a + Len(moreR) = Len(R) /\ b + Len(moreL) = Len(L)
      BY <1>2, <3>2, <3>4
    <3>13. st.a = Len(R) /\ st.b = Len(L) /\ st.out = o \o moreR \o moreL
      BY ONLY <3>1
    <3>14. Split(R, L, st.a, st.b, st.out)
      BY ONLY <3>11, <3>12, <3>13, Zenon
    <3> QED BY <2>6, <3>13, <3>14, Zenon DEF StoresOf, R, L, st
  <2> QED BY <2>5, <2>6
<1> QED
  BY <1>3, <1>4, <1>5

------------------------------------------------------------------------------
(* What a merge does to the order of the tree *)

LEMMA SkipKeeps ==
  ASSUME NEW A \in Seq(Nat), NEW a \in Nat, a <= Len(A), Rising(A), NEW x
  PROVE  /\ Skip(A, a) \in Seq(Nat) /\ Rising(Skip(A, a))
         /\ AtMost(A, x) => AtMost(Skip(A, a), x)
         /\ AtLeast(x, A) => AtLeast(x, Skip(A, a))
<1> DEFINE S == Skip(A, a)
           l == Len(A)
           m == l - a
<1>1. S \in Seq(Nat) /\ Len(S) = m /\ m \in Nat /\ \A k \in 1 .. m : S[k] = A[a + k]
  BY SkipIs
<1>2. l \in Nat
  OBVIOUS
<1> HIDE DEF S
<1>3. \A k \in 1 .. m : a + k \in 1 .. l
  BY <1>1, <1>2
<1> HIDE DEF m
<1>4. Rising(S)
  <2> SUFFICES ASSUME NEW i \in 1 .. m, NEW j \in 1 .. m, i < j PROVE S[i] <= S[j]
    BY <1>1 DEF Rising
  <2> DEFINE p == a + i
             q == a + j
  <2>1. p \in 1 .. l /\ q \in 1 .. l /\ p < q
    <3>1. p \in 1 .. l /\ q \in 1 .. l
      BY <1>3
    <3>2. i \in Nat /\ j \in Nat
      BY <1>1
    <3>3. p < q
      BY ONLY a \in Nat, i < j, <3>2
    <3> QED BY <3>1, <3>3
  <2>2. S[i] = A[p] /\ S[j] = A[q]
    BY <1>1
  <2> HIDE DEF p, q
  <2>3. A[p] <= A[q]
    BY <2>1 DEF Rising
  <2> QED BY <2>2, <2>3
<1>5. AtMost(A, x) => AtMost(S, x)
  BY <1>1, <1>3 DEF AtMost
<1>6. AtLeast(x, A) => AtLeast(x, S)
  BY <1>1, <1>3 DEF AtLeast
<1> QED
  BY <1>1, <1>4, <1>5, <1>6 DEF S

(* c has come through a node before s, and lo is between c and what is      *)
(* behind the node; then v is so after s.                                   *)
LEMMA PassMerge ==
  ASSUME NEW c \in Seq(Nat), NEW A \in Seq(Nat), NEW B \in Seq(Nat), NEW lo \in Nat,
         Rising(c), AtMost(c, lo), Rising(A), Rising(B), AtLeast(lo, A), AtLeast(lo, B),
         NEW a, NEW b, NEW s, Split(A, B, a, b, s)
  PROVE  \E v \in Nat :
           /\ lo <= v
           /\ c \o s \in Seq(Nat) /\ Rising(c \o s) /\ AtMost(c \o s, v)
           /\ Skip(A, a) \in Seq(Nat) /\ Rising(Skip(A, a)) /\ AtLeast(v, Skip(A, a))
           /\ Skip(B, b) \in Seq(Nat) /\ Rising(Skip(B, b)) /\ AtLeast(v, Skip(B, b))
           /\ \A x \in Nat : x <= lo /\ AtLeast(x, c) => AtLeast(x, c \o s)
           /\ \A x \in Nat : AtMost(A, x) => AtMost(Skip(A, a), x)
           /\ \A x \in Nat : AtMost(B, x) => AtMost(Skip(B, b), x)
           /\ \A x \in Nat : Within(s, A) /\ AtMost(A, x) /\ lo <= x => v <= x
           /\ \A x \in Nat : Within(s, B) /\ AtMost(B, x) /\ lo <= x => v <= x
           /\ \A x \in Nat : AtLeast(x, A) => AtLeast(x, Skip(A, a))
           /\ \A x \in Nat : AtLeast(x, B) => AtLeast(x, Skip(B, b))
<1> DEFINE n  == Len(s)
           l  == Len(c)
           la == Len(A)
           lb == Len(B)
           u  == c \o s
           v  == IF n = 0 THEN lo ELSE s[n]
<1>1. /\ a \in 0 .. la /\ b \in 0 .. lb /\ s \in Seq(Nat) /\ n \in Nat /\ l \in Nat /\ la \in Nat /\ lb \in Nat
      /\ Rising(s)
  BY DEF Split
<1>2. /\ \A k \in 1 .. n : (\E i \in 1 .. a : s[k] = A[i]) \/ (\E i \in 1 .. b : s[k] = B[i])
      /\ \A k \in 1 .. n : (\A i \in a + 1 .. la : s[k] <= A[i]) /\ (\A i \in b + 1 .. lb : s[k] <= B[i])
  BY DEF Split
<1>3. /\ \A k \in 1 .. n : s[k] \in Nat
      /\ \A k \in 1 .. l : c[k] \in Nat
      /\ \A k \in 1 .. la : A[k] \in Nat
      /\ \A k \in 1 .. lb : B[k] \in Nat
  BY <1>1, ElementsType
<1>4. a \in Nat /\ b \in Nat /\ a <= la /\ b <= lb
  BY <1>1
<1>5. \A x : /\ Skip(A, a) \in Seq(Nat) /\ Rising(Skip(A, a))
             /\ AtMost(A, x) => AtMost(Skip(A, a), x)
             /\ AtLeast(x, A) => AtLeast(x, Skip(A, a))
  BY <1>4, SkipKeeps
<1>6. \A x : /\ Skip(B, b) \in Seq(Nat) /\ Rising(Skip(B, b))
             /\ AtMost(B, x) => AtMost(Skip(B, b), x)
             /\ AtLeast(x, B) => AtLeast(x, Skip(B, b))
  BY <1>4, SkipKeeps
<1>7. /\ u \in Seq(Nat) /\ Len(u) = l + n
      /\ \A k \in 1 .. l : u[k] = c[k]
      /\ \A k \in 1 .. n : u[l + k] = s[k]
      /\ \A k \in 1 .. l + n : k \in 1 .. l \/ \E i \in 1 .. n : k = l + i
  <2> DEFINE ll == l
             nn == n
  <2>1. c \in Seq(Nat) /\ s \in Seq(Nat) /\ Len(c) = ll /\ Len(s) = nn
    BY <1>1
  <2> HIDE DEF ll, nn
  <2>2. /\ c \o s \in Seq(Nat) /\ Len(c \o s) = ll + nn
        /\ \A k \in 1 .. ll : (c \o s)[k] = c[k]
        /\ \A k \in 1 .. nn : (c \o s)[ll + k] = s[k]
        /\ \A k \in 1 .. ll + nn : k \in 1 .. ll \/ \E i \in 1 .. nn : k = ll + i
    <3>1. /\ c \o s \in Seq(Nat) /\ Len(c \o s) = Len(c) + Len(s)
          /\ \A k \in 1 .. Len(c) : (c \o s)[k] = c[k]
          /\ \A k \in 1 .. Len(s) : (c \o s)[Len(c) + k] = s[k]
          /\ \A k \in 1 .. Len(c \o s) : k \in 1 .. Len(c) \/ \E i \in 1 .. Len(s) : k = Len(c) + i
      BY <2>1, ConcatAtEnd
    <3> QED BY ONLY <2>1, <3>1, Zenon
  <2> QED BY <2>2, Zenon DEF ll, nn
<1> HIDE DEF u
<1>8. \A k \in 1 .. n : lo <= s[k]
  <2>1. \A i \in 1 .. la : lo <= A[i]
    BY DEF AtLeast
  <2>2. \A i \in 1 .. lb : lo <= B[i]
    BY DEF AtLeast
  <2>3. \A i \in 1 .. a : i \in 1 .. la
    BY <1>1, <1>4
  <2>4. \A i \in 1 .. b : i \in 1 .. lb
    BY <1>1, <1>4
  <2> HIDE DEF n, la, lb
  <2> QED BY <1>2, <2>1, <2>2, <2>3, <2>4
<1>9. \A k \in 1 .. l : c[k] <= lo
  BY DEF AtMost
<1>10. \A i, j \in 1 .. l : i < j => c[i] <= c[j]
  BY DEF Rising
<1>11. \A i, j \in 1 .. n : i < j => s[i] <= s[j]
  BY <1>1 DEF Rising
<1> HIDE DEF n, l, la, lb
<1>12. n # 0 => n \in 1 .. n
  BY <1>1
<1>13. v \in Nat /\ lo <= v
  <2>1. CASE n = 0
    BY <2>1
  <2>2. CASE n # 0
    <3>1. s[n] \in Nat /\ lo <= s[n]
      BY <1>3, <1>8, <1>12, <2>2
    <3> QED BY <2>2, <3>1
  <2> QED BY <2>1, <2>2
<1>14. \A k \in 1 .. n : s[k] <= v
  <2> SUFFICES ASSUME NEW k \in 1 .. n PROVE s[k] <= v
    OBVIOUS
  <2>1. n # 0 /\ v = s[n]
    BY <1>1
  <2>2. CASE k = n
    <3>1. \A x \in Nat : x <= x
      OBVIOUS
    <3> QED BY <1>3, <2>1, <2>2, <3>1
  <2>3. CASE k # n
    <3>1. k < n
      BY <1>1, <2>3
    <3> QED BY <1>11, <1>12, <2>1, <3>1
  <2> QED BY <2>2, <2>3
<1>15. Rising(u)
  <2> SUFFICES ASSUME NEW i \in 1 .. l + n, NEW j \in 1 .. l + n, i < j PROVE u[i] <= u[j]
    BY <1>7 DEF Rising
  <2>1. CASE i \in 1 .. l /\ j \in 1 .. l
    BY <1>7, <1>10, <2>1
  <2>2. ASSUME i \in 1 .. l, NEW k \in 1 .. n, j = l + k PROVE u[i] <= u[j]
    <3>1. u[i] = c[i] /\ u[j] = s[k] /\ c[i] \in Nat /\ s[k] \in Nat /\ c[i] <= lo /\ lo <= s[k]
      BY <1>3, <1>7, <1>8, <1>9, <2>2
    <3>2. \A x, y, z \in Nat : x <= y /\ y <= z => x <= z
      OBVIOUS
    <3> QED BY <3>1, <3>2
  <2>3. ASSUME NEW k \in 1 .. n, i = l + k, NEW m \in 1 .. n, j = l + m PROVE u[i] <= u[j]
    <3>1. k < m
      BY <1>1, <2>3
    <3>2. s[k] <= s[m]
      BY <1>11, <3>1
    <3>3. u[i] = s[k] /\ u[j] = s[m]
      BY <1>7, <2>3
    <3> QED BY <3>2, <3>3
  <2>4. ASSUME NEW k \in 1 .. n, i = l + k, j \in 1 .. l PROVE FALSE
    BY <1>1, <2>4
  <2> QED BY <1>7, <2>1, <2>2, <2>3, <2>4
<1>16. AtMost(u, v)
  <2> SUFFICES ASSUME NEW i \in 1 .. l + n PROVE u[i] <= v
    BY <1>7 DEF AtMost
  <2>1. CASE i \in 1 .. l
    <3>1. u[i] = c[i] /\ c[i] \in Nat /\ c[i] <= lo
      BY <1>3, <1>7, <1>9, <2>1
    <3>2. \A x, y, z \in Nat : x <= y /\ y <= z => x <= z
      OBVIOUS
    <3> HIDE DEF v
    <3> QED BY <1>13, <3>1, <3>2
  <2>2. ASSUME NEW k \in 1 .. n, i = l + k PROVE u[i] <= v
    <3> HIDE DEF v
    <3> QED BY <1>7, <1>14, <2>2
  <2> QED BY <1>7, <2>1, <2>2
<1>17. AtLeast(v, Skip(A, a)) /\ AtLeast(v, Skip(B, b))
  <2>1. CASE n = 0
    BY <1>5, <1>6, <2>1
  <2>2. CASE n # 0
    <3>1. v = s[n] /\ n \in 1 .. n
      BY <1>12, <2>2
    <3>2. Len(Skip(A, a)) = la - a /\ \A k \in 1 .. la - a : Skip(A, a)[k] = A[a + k]
      BY <1>4, SkipIs DEF la
    <3>3. Len(Skip(B, b)) = lb - b /\ \A k \in 1 .. lb - b : Skip(B, b)[k] = B[b + k]
      BY <1>4, SkipIs DEF lb
    <3>4. \A k \in 1 .. la - a : a + k \in a + 1 .. la
      BY <1>1, <1>4
    <3>5. \A k \in 1 .. lb - b : b + k \in b + 1 .. lb
      BY <1>1, <1>4
    <3>6. \A k \in 1 .. la - a : v <= A[a + k]
      BY <1>2, <3>1, <3>4
    <3>7. \A k \in 1 .. lb - b : v <= B[b + k]
      BY <1>2, <3>1, <3>5
    <3> HIDE DEF v
    <3> QED BY <3>2, <3>3, <3>6, <3>7 DEF AtLeast
  <2> QED BY <2>1, <2>2
<1>18. ASSUME NEW x \in Nat, x <= lo, AtLeast(x, c) PROVE AtLeast(x, u)
  <2> SUFFICES ASSUME NEW i \in 1 .. l + n PROVE x <= u[i]
    BY <1>7 DEF AtLeast
  <2>1. CASE i \in 1 .. l
    BY <1>7, <1>18, <2>1 DEF AtLeast, l
  <2>2. ASSUME NEW k \in 1 .. n, i = l + k PROVE x <= u[i]
    <3>1. u[i] = s[k] /\ s[k] \in Nat /\ lo <= s[k]
      BY <1>3, <1>7, <1>8, <2>2
    <3>2. \A w, y, z \in Nat : w <= y /\ y <= z => w <= z
      OBVIOUS
    <3> QED BY <1>18, <3>1, <3>2
  <2> QED BY <1>7, <2>1, <2>2
<1>19. ASSUME NEW C \in Seq(Nat), NEW x \in Nat, Within(s, C), AtMost(C, x), lo <= x PROVE v <= x
  <2>1. CASE n = 0
    BY <1>19, <2>1
  <2>2. CASE n # 0
    <3>1. v = s[n] /\ n \in 1 .. n
      BY <1>12, <2>2
    <3>2. Len(C) > 0 /\ s[n] <= C[Len(C)]
      BY <1>19, <3>1 DEF Within, n
    <3>3. Len(C) \in 1 .. Len(C)
      BY <3>2
    <3>4. C[Len(C)] <= x /\ C[Len(C)] \in Nat /\ s[n] \in Nat
      BY <1>3, <1>19, <3>1, <3>3, ElementsType DEF AtMost
    <3>5. \A w, y, z \in Nat : w <= y /\ y <= z => w <= z
      OBVIOUS
    <3> QED BY <1>19, <3>1, <3>2, <3>4, <3>5
  <2> QED BY <2>1, <2>2
<1> HIDE DEF v
<1> QED
  BY <1>5, <1>6, <1>7, <1>13, <1>15, <1>16, <1>17, <1>18, <1>19, Zenon DEF u

LEMMA SkipCopies ==
  ASSUME NEW x, NEW A \in Seq(Nat), NEW a \in Nat, a <= Len(A)
  PROVE  /\ Copies(x, A) = Copies(x, SubSeq(A, 1, a)) + Copies(x, Skip(A, a))
         /\ Copies(x, A) \in Nat /\ Copies(x, SubSeq(A, 1, a)) \in Nat /\ Copies(x, Skip(A, a)) \in Nat
<1> DEFINE m == Len(A) - a
           p == SubSeq(A, 1, a)
           q == Skip(A, a)
<1>1. m \in Nat /\ a + m = Len(A) /\ a + m <= Len(A) /\ Len(A) \in Nat
  OBVIOUS
<1> HIDE DEF m
<1>2. SubSeq(A, 1, a + m) = p \o SubSeq(A, a + 1, a + m)
  BY <1>1, SubSeqJoin
<1>3. SubSeq(A, 1, Len(A)) = A
  OBVIOUS
<1>4. q = SubSeq(A, a + 1, Len(A))
  BY DEF Skip
<1>5. A = p \o q
  BY ONLY <1>1, <1>2, <1>3, <1>4, Zenon
<1>6. p \in Seq(Nat) /\ q \in Seq(Nat)
  BY PrefixIs, SkipIs
<1> HIDE DEF p, q
<1>7. Copies(x, p \o q) = Copies(x, p) + Copies(x, q)
  BY <1>6, CopiesConcat
<1>8. Copies(x, A) = Copies(x, p) + Copies(x, q)
  BY ONLY <1>5, <1>7, Zenon
<1>9. Len(p) \in Nat /\ Len(q) \in Nat
  BY <1>6
<1>10. Copies(x, A) \in Nat /\ Copies(x, p) \in Nat /\ Copies(x, q) \in Nat
  BY <1>1, <1>9, CopiesType
<1> QED
  BY <1>8, <1>10 DEF p, q

(* A merge moves tuples and loses none. *)
LEMMA PassCopies ==
  ASSUME NEW x, NEW c \in Seq(Nat), NEW A \in Seq(Nat), NEW B \in Seq(Nat), NEW a, NEW b, NEW s, Split(A, B, a, b, s)
  PROVE  /\ Copies(x, c \o s) + (Copies(x, Skip(A, a)) + Copies(x, Skip(B, b)))
              = Copies(x, c) + (Copies(x, A) + Copies(x, B))
         /\ Copies(x, c) \in Nat /\ Copies(x, A) \in Nat /\ Copies(x, B) \in Nat
         /\ Copies(x, c \o s) \in Nat /\ Copies(x, Skip(A, a)) \in Nat /\ Copies(x, Skip(B, b)) \in Nat
<1>1. a \in Nat /\ a <= Len(A) /\ b \in Nat /\ b <= Len(B) /\ s \in Seq(Nat) /\ Len(s) \in Nat /\ Len(c) \in Nat
  <2>1. a \in 0 .. Len(A) /\ b \in 0 .. Len(B) /\ s \in Seq(Nat) /\ Len(A) \in Nat /\ Len(B) \in Nat
    BY DEF Split
  <2>2. Len(s) \in Nat /\ Len(c) \in Nat
    BY <2>1
  <2> QED BY <2>1, <2>2
<1>2. Copies(x, c \o s) = Copies(x, c) + Copies(x, s) /\ Copies(x, c) \in Nat /\ Copies(x, s) \in Nat
  <2>1. Copies(x, c \o s) = Copies(x, c) + Copies(x, s)
    BY <1>1, CopiesConcat
  <2>2. Copies(x, c) \in Nat /\ Copies(x, s) \in Nat
    BY <1>1, CopiesType
  <2> QED BY <2>1, <2>2
<1>3. Copies(x, s) = Copies(x, SubSeq(A, 1, a)) + Copies(x, SubSeq(B, 1, b))
  BY DEF Split
<1>4. /\ Copies(x, A) = Copies(x, SubSeq(A, 1, a)) + Copies(x, Skip(A, a))
      /\ Copies(x, A) \in Nat /\ Copies(x, SubSeq(A, 1, a)) \in Nat /\ Copies(x, Skip(A, a)) \in Nat
  BY <1>1, SkipCopies
<1>5. /\ Copies(x, B) = Copies(x, SubSeq(B, 1, b)) + Copies(x, Skip(B, b))
      /\ Copies(x, B) \in Nat /\ Copies(x, SubSeq(B, 1, b)) \in Nat /\ Copies(x, Skip(B, b)) \in Nat
  BY <1>1, SkipCopies
<1> DEFINE cs == Copies(x, c \o s)
<1>6. cs = Copies(x, c) + Copies(x, s)
  BY <1>2
<1> HIDE DEF cs
<1>7. cs \in Nat /\ cs + (Copies(x, Skip(A, a)) + Copies(x, Skip(B, b))) = Copies(x, c) + (Copies(x, A) + Copies(x, B))
  <2> DEFINE cc == Copies(x, c)
             cx == Copies(x, s)
             ca == Copies(x, A)
             cb == Copies(x, B)
             pa == Copies(x, SubSeq(A, 1, a))
             pb == Copies(x, SubSeq(B, 1, b))
             ra == Copies(x, Skip(A, a))
             rb == Copies(x, Skip(B, b))
  <2>1. cs = cc + cx /\ cx = pa + pb /\ ca = pa + ra /\ cb = pb + rb
    BY <1>2, <1>3, <1>4, <1>5, <1>6, Zenon
  <2>2. cc \in Nat /\ pa \in Nat /\ pb \in Nat /\ ra \in Nat /\ rb \in Nat
    BY <1>2, <1>4, <1>5, Zenon
  <2> HIDE DEF cc, cx, ca, cb, pa, pb, ra, rb
  <2>3. cs \in Nat /\ cs + (ra + rb) = cc + (ca + cb)
    BY ONLY <2>1, <2>2
  <2> QED BY <2>3 DEF cc, ca, cb, ra, rb
<1> QED
  BY <1>2, <1>4, <1>5, <1>7 DEF cs

------------------------------------------------------------------------------
(* The order of the tree, of which held[i] is what node i holds, or for the *)
(* root what it has stored, rest what the runs still have and fin which     *)
(* nodes are done.  lo[i] is between what came through i and what is behind *)
(* it.                                                                      *)
Tree   == -1 .. nfifos - 1
RunIds == 0 .. nparts - 1

Behind(lo, held, fin, i) ==
  \A j \in Children(i) : AtLeast(lo[i], held[j]) /\ (~fin[j] => lo[i] <= lo[j])

Emptied(held, fin, i) == \A j \in Children(i) : fin[j] /\ held[j] = <<>>

Marks(lo, held, rest, fin) ==
  /\ lo \in [Tree -> Nat] /\ held \in [Tree -> Seq(Nat)] /\ rest \in [RunIds -> Seq(Nat)] /\ fin \in [Nodes -> BOOLEAN]
  /\ \A i \in Tree : Rising(held[i]) /\ AtMost(held[i], lo[i])
  /\ \A p \in RunIds : Rising(rest[p])
  /\ \A i \in Leaves : AtLeast(lo[i], rest[RunA(i)]) /\ AtLeast(lo[i], rest[RunB(i)])
  /\ \A i \in Leaves : fin[i] => rest[RunA(i)] = <<>> /\ rest[RunB(i)] = <<>>
  /\ \A i \in Tree \ Leaves : Behind(lo, held, fin, i)
  /\ \A i \in Nodes \ Leaves : fin[i] => Emptied(held, fin, i)

LEMMA TreeFacts ==
  /\ Nodes \subseteq Tree /\ -1 \in Tree /\ -1 \notin Nodes /\ -1 \notin Leaves /\ Leaves \subseteq Nodes
  /\ \A i \in Leaves : RunA(i) \in RunIds /\ RunB(i) \in RunIds /\ RunA(i) # RunB(i)
  /\ \A i, j \in Leaves :
       i # j => RunA(i) # RunA(j) /\ RunA(i) # RunB(j) /\ RunB(i) # RunA(j) /\ RunB(i) # RunB(j)
  /\ \A i \in Tree \ Leaves : Children(i) \subseteq Nodes /\ i \notin Children(i)
  /\ \A i, j \in Tree \ Leaves : i # j => Children(i) \cap Children(j) = {}
  /\ \A i \in Tree : i = -1 \/ i \in Nodes
<1>1. nfifos \in Nat
  BY TreeShape
<1>2. Nodes \subseteq Tree /\ -1 \in Tree /\ -1 \notin Nodes /\ \A i \in Tree : i = -1 \/ i \in Nodes
  BY <1>1 DEF Nodes, Tree
<1>3. \A i \in Leaves : RunA(i) \in RunIds /\ RunB(i) \in RunIds
  BY TreeShape DEF RunIds
<1>4. \A i \in Leaves : RunA(i) # RunB(i)
  <2> SUFFICES ASSUME NEW i \in Leaves PROVE RunA(i) # RunB(i)
    OBVIOUS
  <2>1. RunA(i) \in Int
    BY <1>3 DEF RunIds
  <2> QED BY <2>1 DEF RunB
<1>5. \A i \in Tree \ Leaves : Children(i) \subseteq Nodes /\ i \notin Children(i)
  BY TreeShape DEF Tree
<1>6. \A i, j \in Tree \ Leaves : i # j => Children(i) \cap Children(j) = {}
  BY TreeShape DEF Tree
<1>7. \A i, j \in Leaves :
       i # j => RunA(i) # RunA(j) /\ RunA(i) # RunB(j) /\ RunB(i) # RunA(j) /\ RunB(i) # RunB(j)
  BY TreeShape
<1>8. -1 \notin Leaves /\ Leaves \subseteq Nodes
  BY TreeShape
<1> QED
  BY <1>2, <1>3, <1>4, <1>5, <1>6, <1>7, <1>8

(* Leaf t reads a tuples of one run and b of the other. *)
LeafReads(held, rest, t, a, b, s, held2, rest2) ==
  /\ t \in Leaves /\ Split(rest[RunA(t)], rest[RunB(t)], a, b, s)
  /\ held2 = [held EXCEPT ![t] = held[t] \o s]
  /\ rest2 = [rest EXCEPT ![RunA(t)] = Skip(rest[RunA(t)], a), ![RunB(t)] = Skip(rest[RunB(t)], b)]

LeafDone(rest, fin, t, a, b, d, fin2) ==
  /\ ~fin[t] /\ d \in BOOLEAN /\ fin2 = [fin EXCEPT ![t] = d]
  /\ d => Skip(rest[RunA(t)], a) = <<>> /\ Skip(rest[RunB(t)], b) = <<>>

LEMMA LeafStep ==
  ASSUME NEW lo, NEW held, NEW rest, NEW fin, Marks(lo, held, rest, fin),
         NEW t, NEW a, NEW b, NEW s, NEW d, NEW held2, NEW rest2, NEW fin2,
         LeafReads(held, rest, t, a, b, s, held2, rest2), LeafDone(rest, fin, t, a, b, d, fin2)
  PROVE  \E lo2 : Marks(lo2, held2, rest2, fin2)
<1>0. /\ t \in Leaves /\ ~fin[t] /\ d \in BOOLEAN
      /\ Split(rest[RunA(t)], rest[RunB(t)], a, b, s)
      /\ d => Skip(rest[RunA(t)], a) = <<>> /\ Skip(rest[RunB(t)], b) = <<>>
      /\ held2 = [held EXCEPT ![t] = held[t] \o s]
      /\ rest2 = [rest EXCEPT ![RunA(t)] = Skip(rest[RunA(t)], a), ![RunB(t)] = Skip(rest[RunB(t)], b)]
      /\ fin2 = [fin EXCEPT ![t] = d]
  BY DEF LeafReads, LeafDone
<1> USE <1>0
<1> DEFINE pa == RunA(t)
           pb == RunB(t)
           A  == rest[pa]
           B  == rest[pb]
           c  == held[t]
<1>1. /\ lo \in [Tree -> Nat] /\ held \in [Tree -> Seq(Nat)] /\ rest \in [RunIds -> Seq(Nat)] /\ fin \in [Nodes -> BOOLEAN]
      /\ \A i \in Tree : Rising(held[i]) /\ AtMost(held[i], lo[i])
      /\ \A p \in RunIds : Rising(rest[p])
      /\ \A i \in Leaves : AtLeast(lo[i], rest[RunA(i)]) /\ AtLeast(lo[i], rest[RunB(i)])
      /\ \A i \in Leaves : fin[i] => rest[RunA(i)] = <<>> /\ rest[RunB(i)] = <<>>
      /\ \A i \in Tree \ Leaves : Behind(lo, held, fin, i)
      /\ \A i \in Nodes \ Leaves : fin[i] => Emptied(held, fin, i)
  BY DEF Marks
<1>2. pa \in RunIds /\ pb \in RunIds /\ pa # pb /\ t \in Nodes /\ t \in Tree
  BY TreeFacts
<1>3. /\ c \in Seq(Nat) /\ A \in Seq(Nat) /\ B \in Seq(Nat) /\ lo[t] \in Nat
      /\ Rising(c) /\ AtMost(c, lo[t]) /\ Rising(A) /\ Rising(B) /\ AtLeast(lo[t], A) /\ AtLeast(lo[t], B)
      /\ Split(A, B, a, b, s)
  BY <1>1, <1>2
<1> HIDE DEF c, A, B
<1>4. PICK v \in Nat :
           /\ lo[t] <= v
           /\ c \o s \in Seq(Nat) /\ Rising(c \o s) /\ AtMost(c \o s, v)
           /\ Skip(A, a) \in Seq(Nat) /\ Rising(Skip(A, a)) /\ AtLeast(v, Skip(A, a))
           /\ Skip(B, b) \in Seq(Nat) /\ Rising(Skip(B, b)) /\ AtLeast(v, Skip(B, b))
           /\ \A x \in Nat : x <= lo[t] /\ AtLeast(x, c) => AtLeast(x, c \o s)
  BY <1>3, PassMerge
<1> DEFINE lo2 == [lo EXCEPT ![t] = v]
           cs  == c \o s
           A2  == Skip(A, a)
           B2  == Skip(B, b)
<1>5. held2 = [held EXCEPT ![t] = cs] /\ rest2 = [rest EXCEPT ![pa] = A2, ![pb] = B2] /\ (d => A2 = <<>> /\ B2 = <<>>)
  BY DEF A, B, c
<1>6. /\ lo[t] <= v /\ v \in Nat
      /\ cs \in Seq(Nat) /\ Rising(cs) /\ AtMost(cs, v)
      /\ A2 \in Seq(Nat) /\ Rising(A2) /\ AtLeast(v, A2)
      /\ B2 \in Seq(Nat) /\ Rising(B2) /\ AtLeast(v, B2)
      /\ \A x \in Nat : x <= lo[t] /\ AtLeast(x, c) => AtLeast(x, cs)
  BY <1>4
<1> HIDE DEF cs, A2, B2, pa, pb
<1>7. lo2 \in [Tree -> Nat] /\ held2 \in [Tree -> Seq(Nat)] /\ rest2 \in [RunIds -> Seq(Nat)] /\ fin2 \in [Nodes -> BOOLEAN]
  BY <1>1, <1>2, <1>5, <1>6
<1>8. /\ lo2[t] = v /\ held2[t] = cs /\ rest2[pa] = A2 /\ rest2[pb] = B2 /\ fin2[t] = d
      /\ \A i \in Tree : i # t => lo2[i] = lo[i] /\ held2[i] = held[i]
      /\ \A p \in RunIds : p # pa /\ p # pb => rest2[p] = rest[p]
      /\ \A i \in Nodes : i # t => fin2[i] = fin[i]
  BY <1>1, <1>2, <1>5
<1> HIDE DEF lo2
<1>9. ASSUME NEW i \in Tree PROVE Rising(held2[i]) /\ AtMost(held2[i], lo2[i])
  <2>1. CASE i = t
    BY <1>6, <1>8, <2>1
  <2>2. CASE i # t
    BY <1>1, <1>8, <2>2
  <2> QED BY <2>1, <2>2
<1>10. ASSUME NEW p \in RunIds PROVE Rising(rest2[p])
  <2>1. CASE p = pa \/ p = pb
    BY <1>6, <1>8, <2>1
  <2>2. CASE p # pa /\ p # pb
    BY <1>1, <1>8, <2>2
  <2> QED BY <2>1, <2>2
<1>11. ASSUME NEW i \in Leaves
       PROVE  /\ AtLeast(lo2[i], rest2[RunA(i)]) /\ AtLeast(lo2[i], rest2[RunB(i)])
              /\ fin2[i] => rest2[RunA(i)] = <<>> /\ rest2[RunB(i)] = <<>>
  <2>0. i \in Nodes /\ i \in Tree /\ RunA(i) \in RunIds /\ RunB(i) \in RunIds
    BY TreeFacts
  <2>1. CASE i = t
    <3>1. lo2[i] = v /\ rest2[RunA(i)] = A2 /\ rest2[RunB(i)] = B2 /\ fin2[i] = d
      BY <1>8, <2>1 DEF pa, pb
    <3> QED BY <1>5, <1>6, <3>1
  <2>2. CASE i # t
    <3>1. RunA(i) # pa /\ RunA(i) # pb /\ RunB(i) # pa /\ RunB(i) # pb
      BY <2>2, TreeFacts DEF pa, pb
    <3>2. lo2[i] = lo[i] /\ rest2[RunA(i)] = rest[RunA(i)] /\ rest2[RunB(i)] = rest[RunB(i)] /\ fin2[i] = fin[i]
      BY <1>8, <2>0, <2>2, <3>1
    <3> QED BY <1>1, <3>2
  <2> QED BY <2>1, <2>2
<1>12. ASSUME NEW i \in Tree \ Leaves PROVE Behind(lo2, held2, fin2, i)
  <2> SUFFICES ASSUME NEW j \in Children(i) PROVE AtLeast(lo2[i], held2[j]) /\ (~fin2[j] => lo2[i] <= lo2[j])
    BY DEF Behind
  <2>1. j \in Nodes /\ j \in Tree /\ i # t /\ lo2[i] = lo[i] /\ lo[i] \in Nat
    BY <1>1, <1>8, TreeFacts
  <2>2. AtLeast(lo[i], held[j]) /\ (~fin[j] => lo[i] <= lo[j])
    BY <1>1 DEF Behind
  <2>3. CASE j = t
    <3>1. AtLeast(lo[i], c) /\ lo[i] <= lo[t]
      BY <2>2, <2>3 DEF c
    <3>2. AtLeast(lo[i], cs)
      BY <1>6, <2>1, <3>1
    <3>3. lo[i] <= v
      BY ONLY <1>3, <1>6, <2>1, <3>1
    <3> QED BY <1>8, <2>1, <2>3, <3>2, <3>3
  <2>4. CASE j # t
    BY <1>8, <2>1, <2>2, <2>4
  <2> QED BY <2>3, <2>4
<1>13. ASSUME NEW i \in Nodes \ Leaves, fin2[i] PROVE Emptied(held2, fin2, i)
  <2>1. i # t /\ fin[i] /\ i \in Tree
    BY <1>8, <1>13, TreeFacts
  <2>2. Emptied(held, fin, i)
    BY <1>1, <2>1
  <2> SUFFICES ASSUME NEW j \in Children(i) PROVE fin2[j] /\ held2[j] = <<>>
    BY DEF Emptied
  <2>3. fin[j] /\ held[j] = <<>> /\ j \in Nodes /\ j \in Tree
    BY <2>1, <2>2, TreeFacts DEF Emptied
  <2>4. j # t
    BY <2>3
  <2> QED BY <1>8, <2>3, <2>4
<1>14. Marks(lo2, held2, rest2, fin2)
  BY ONLY <1>7, <1>9, <1>10, <1>11, <1>12, <1>13 DEF Marks
<1> QED
  BY <1>14


(* Node t, or the root, takes a merge of what its children r and l hold. *)
InnerTakes(held, t, r, l, a, b, s, held2) ==
  /\ t \in Tree \ Leaves /\ r = 2 * t + 2 /\ l = 2 * t + 3
  /\ Split(held[r], held[l], a, b, s)
  /\ held2 = [held EXCEPT ![t] = held[t] \o s, ![r] = Skip(held[r], a), ![l] = Skip(held[l], b)]

InnerDone(held, fin, t, r, l, s, held2, fin2) ==
  /\ t \in Nodes => ~fin[t]
  /\ ~fin[r] => Within(s, held[r])
  /\ ~fin[l] => Within(s, held[l])
  /\ fin2 \in [Nodes -> BOOLEAN] /\ \A i \in Nodes : i # t => fin2[i] = fin[i]
  /\ t \in Nodes /\ fin2[t] => fin[r] /\ fin[l] /\ held2[r] = <<>> /\ held2[l] = <<>>

LEMMA InnerStep ==
  ASSUME NEW lo, NEW held, NEW rest, NEW fin, Marks(lo, held, rest, fin),
         NEW t, NEW r, NEW l, NEW a, NEW b, NEW s, NEW held2, NEW fin2,
         InnerTakes(held, t, r, l, a, b, s, held2), InnerDone(held, fin, t, r, l, s, held2, fin2)
  PROVE  \E lo2 : Marks(lo2, held2, rest, fin2)
<1>0. /\ t \in Tree \ Leaves /\ (t \in Nodes => ~fin[t]) /\ r = 2 * t + 2 /\ l = 2 * t + 3
      /\ Split(held[r], held[l], a, b, s) /\ (~fin[r] => Within(s, held[r])) /\ (~fin[l] => Within(s, held[l]))
      /\ held2 = [held EXCEPT ![t] = held[t] \o s, ![r] = Skip(held[r], a), ![l] = Skip(held[l], b)]
      /\ fin2 \in [Nodes -> BOOLEAN] /\ \A i \in Nodes : i # t => fin2[i] = fin[i]
      /\ t \in Nodes /\ fin2[t] => fin[r] /\ fin[l] /\ held2[r] = <<>> /\ held2[l] = <<>>
  BY DEF InnerTakes, InnerDone
<1> USE <1>0
<1> DEFINE A == held[r]
           B == held[l]
           c == held[t]
<1>1. /\ lo \in [Tree -> Nat] /\ held \in [Tree -> Seq(Nat)] /\ rest \in [RunIds -> Seq(Nat)] /\ fin \in [Nodes -> BOOLEAN]
      /\ \A i \in Tree : Rising(held[i]) /\ AtMost(held[i], lo[i])
      /\ \A p \in RunIds : Rising(rest[p])
      /\ \A i \in Leaves : AtLeast(lo[i], rest[RunA(i)]) /\ AtLeast(lo[i], rest[RunB(i)])
      /\ \A i \in Leaves : fin[i] => rest[RunA(i)] = <<>> /\ rest[RunB(i)] = <<>>
      /\ \A i \in Tree \ Leaves : Behind(lo, held, fin, i)
      /\ \A i \in Nodes \ Leaves : fin[i] => Emptied(held, fin, i)
  BY DEF Marks
<1>2. Children(t) = {r, l}
  BY DEF Children
<1>3. r \in Nodes /\ l \in Nodes /\ r \in Tree /\ l \in Tree /\ r # t /\ l # t /\ t \in Tree
  BY <1>2, TreeFacts
<1>4. r # l
  <2>1. t \in Int
    BY TreeShape DEF Tree
  <2> QED BY <2>1
<1>5. /\ AtLeast(lo[t], A) /\ (~fin[r] => lo[t] <= lo[r])
      /\ AtLeast(lo[t], B) /\ (~fin[l] => lo[t] <= lo[l])
  BY <1>1, <1>2 DEF Behind
<1>6. /\ c \in Seq(Nat) /\ A \in Seq(Nat) /\ B \in Seq(Nat) /\ lo[t] \in Nat /\ lo[r] \in Nat /\ lo[l] \in Nat
      /\ Rising(c) /\ AtMost(c, lo[t]) /\ Rising(A) /\ Rising(B)
      /\ Split(A, B, a, b, s) /\ AtMost(A, lo[r]) /\ AtMost(B, lo[l])
      /\ (~fin[r] => Within(s, A)) /\ (~fin[l] => Within(s, B))
  BY <1>1, <1>3
<1> DEFINE cs  == c \o s
           A2  == Skip(A, a)
           B2  == Skip(B, b)
<1>7. held2 = [held EXCEPT ![t] = cs, ![r] = A2, ![l] = B2]
  OBVIOUS
<1> HIDE DEF c, A, B
<1>20. /\ c \in Seq(Nat) /\ A \in Seq(Nat) /\ B \in Seq(Nat) /\ lo[t] \in Nat
      /\ Rising(c) /\ AtMost(c, lo[t]) /\ Rising(A) /\ Rising(B) /\ AtLeast(lo[t], A) /\ AtLeast(lo[t], B)
      /\ Split(A, B, a, b, s)
  BY <1>5, <1>6
<1>8. PICK v \in Nat :
           /\ lo[t] <= v
           /\ c \o s \in Seq(Nat) /\ Rising(c \o s) /\ AtMost(c \o s, v)
           /\ Skip(A, a) \in Seq(Nat) /\ Rising(Skip(A, a)) /\ AtLeast(v, Skip(A, a))
           /\ Skip(B, b) \in Seq(Nat) /\ Rising(Skip(B, b)) /\ AtLeast(v, Skip(B, b))
           /\ \A x \in Nat : x <= lo[t] /\ AtLeast(x, c) => AtLeast(x, c \o s)
           /\ \A x \in Nat : AtMost(A, x) => AtMost(Skip(A, a), x)
           /\ \A x \in Nat : AtMost(B, x) => AtMost(Skip(B, b), x)
           /\ \A x \in Nat : Within(s, A) /\ AtMost(A, x) /\ lo[t] <= x => v <= x
           /\ \A x \in Nat : Within(s, B) /\ AtMost(B, x) /\ lo[t] <= x => v <= x
  <2> DEFINE w == lo[t]
  <2>1. /\ c \in Seq(Nat) /\ A \in Seq(Nat) /\ B \in Seq(Nat) /\ w \in Nat
        /\ Rising(c) /\ AtMost(c, w) /\ Rising(A) /\ Rising(B) /\ AtLeast(w, A) /\ AtLeast(w, B)
        /\ Split(A, B, a, b, s)
    BY <1>20
  <2> HIDE DEF w
  <2>2. \E v \in Nat :
           /\ w <= v
           /\ c \o s \in Seq(Nat) /\ Rising(c \o s) /\ AtMost(c \o s, v)
           /\ Skip(A, a) \in Seq(Nat) /\ Rising(Skip(A, a)) /\ AtLeast(v, Skip(A, a))
           /\ Skip(B, b) \in Seq(Nat) /\ Rising(Skip(B, b)) /\ AtLeast(v, Skip(B, b))
           /\ \A x \in Nat : x <= w /\ AtLeast(x, c) => AtLeast(x, c \o s)
           /\ \A x \in Nat : AtMost(A, x) => AtMost(Skip(A, a), x)
           /\ \A x \in Nat : AtMost(B, x) => AtMost(Skip(B, b), x)
           /\ \A x \in Nat : Within(s, A) /\ AtMost(A, x) /\ w <= x => v <= x
           /\ \A x \in Nat : Within(s, B) /\ AtMost(B, x) /\ w <= x => v <= x
           /\ \A x \in Nat : AtLeast(x, A) => AtLeast(x, Skip(A, a))
           /\ \A x \in Nat : AtLeast(x, B) => AtLeast(x, Skip(B, b))
    BY ONLY <2>1, PassMerge
  <2> QED BY <2>2 DEF w
<1> DEFINE lo2 == [lo EXCEPT ![t] = v]
<1>9. /\ lo[t] <= v /\ v \in Nat
      /\ cs \in Seq(Nat) /\ Rising(cs) /\ AtMost(cs, v)
      /\ A2 \in Seq(Nat) /\ Rising(A2) /\ AtLeast(v, A2) /\ AtMost(A2, lo[r])
      /\ B2 \in Seq(Nat) /\ Rising(B2) /\ AtLeast(v, B2) /\ AtMost(B2, lo[l])
      /\ \A x \in Nat : x <= lo[t] /\ AtLeast(x, c) => AtLeast(x, cs)
  BY <1>6, <1>8
<1>10. (~fin[r] => v <= lo[r]) /\ (~fin[l] => v <= lo[l])
  BY <1>5, <1>6, <1>8
<1> HIDE DEF cs, A2, B2
<1>11. lo2 \in [Tree -> Nat] /\ held2 \in [Tree -> Seq(Nat)]
  <2>1. lo2 \in [Tree -> Nat]
    BY <1>1, <1>3, <1>9
  <2>2. held2 \in [Tree -> Seq(Nat)]
    BY ONLY <1>1, <1>3, <1>7, <1>9
  <2> QED BY <2>1, <2>2
<1>12. /\ lo2[t] = v /\ held2[t] = cs /\ held2[r] = A2 /\ held2[l] = B2
       /\ \A i \in Tree : i # t => lo2[i] = lo[i]
       /\ \A i \in Tree : i # t /\ i # r /\ i # l => held2[i] = held[i]
  BY <1>1, <1>3, <1>4, <1>7
<1> HIDE DEF lo2
<1>13. ASSUME NEW i \in Tree PROVE Rising(held2[i]) /\ AtMost(held2[i], lo2[i])
  <2>1. CASE i = t
    BY <1>9, <1>12, <2>1
  <2>2. CASE i = r \/ i = l
    <3>1. lo2[i] = lo[i]
      BY <1>3, <1>12, <2>2
    <3> QED BY <1>9, <1>12, <2>2, <3>1
  <2>3. CASE i # t /\ i # r /\ i # l
    BY <1>1, <1>12, <2>3
  <2> QED BY <2>1, <2>2, <2>3
<1>14. ASSUME NEW i \in Leaves
       PROVE  /\ AtLeast(lo2[i], rest[RunA(i)]) /\ AtLeast(lo2[i], rest[RunB(i)])
              /\ fin2[i] => rest[RunA(i)] = <<>> /\ rest[RunB(i)] = <<>>
  <2>1. i # t /\ i \in Nodes /\ i \in Tree
    BY TreeFacts
  <2>2. lo2[i] = lo[i] /\ fin2[i] = fin[i]
    BY <1>12, <2>1
  <2> QED BY <1>1, <2>2
<1>15. ASSUME NEW i \in Tree \ Leaves PROVE Behind(lo2, held2, fin2, i)
  <2> SUFFICES ASSUME NEW j \in Children(i) PROVE AtLeast(lo2[i], held2[j]) /\ (~fin2[j] => lo2[i] <= lo2[j])
    BY DEF Behind
  <2>1. j \in Nodes /\ j \in Tree /\ i # j
    BY TreeFacts
  <2>2. AtLeast(lo[i], held[j]) /\ (~fin[j] => lo[i] <= lo[j]) /\ lo[i] \in Nat
    BY <1>1 DEF Behind
  <2>3. CASE i = t
    <3>1. lo2[i] = v /\ (j = r \/ j = l) /\ j # t /\ fin2[j] = fin[j] /\ lo2[j] = lo[j]
      BY <1>2, <1>3, <1>12, <2>1, <2>3
    <3>2. CASE j = r
      BY <1>9, <1>10, <1>12, <3>1, <3>2
    <3>3. CASE j = l
      BY <1>9, <1>10, <1>12, <3>1, <3>3
    <3> QED BY <3>1, <3>2, <3>3
  <2>4. CASE i # t /\ j = t
    <3>1. ~fin[j] /\ lo2[i] = lo[i] /\ lo2[j] = v /\ held2[j] = cs
      BY <1>12, <2>1, <2>4
    <3>2. lo[i] <= lo[t] /\ AtLeast(lo[i], c)
      BY <2>2, <2>4, <3>1 DEF c
    <3>3. AtLeast(lo[i], cs)
      BY <1>9, <2>2, <3>2
    <3>4. lo[i] <= v
      BY ONLY <1>6, <1>9, <2>2, <3>2
    <3> QED BY <3>1, <3>3, <3>4
  <2>5. CASE i # t /\ j # t
    <3>1. j # r /\ j # l
      BY <1>2, <2>5, TreeFacts
    <3>2. lo2[i] = lo[i] /\ lo2[j] = lo[j] /\ held2[j] = held[j] /\ fin2[j] = fin[j]
      BY <1>12, <2>1, <2>5, <3>1
    <3> QED BY <2>2, <3>2
  <2> QED BY <2>3, <2>4, <2>5
<1>16. ASSUME NEW i \in Nodes \ Leaves, fin2[i] PROVE Emptied(held2, fin2, i)
  <2> SUFFICES ASSUME NEW j \in Children(i) PROVE fin2[j] /\ held2[j] = <<>>
    BY DEF Emptied
  <2>0. i \in Tree \ Leaves /\ j \in Nodes /\ j \in Tree
    BY TreeFacts
  <2>1. CASE i = t
    <3>1. (j = r \/ j = l) /\ j # t /\ fin2[j] = fin[j]
      BY <1>2, <1>3, <2>0, <2>1
    <3>2. fin[r] /\ fin[l] /\ held2[r] = <<>> /\ held2[l] = <<>>
      BY <1>16, <2>1
    <3> QED BY <3>1, <3>2
  <2>2. CASE i # t
    <3>1. fin[i] /\ Emptied(held, fin, i)
      BY <1>1, <1>16, <2>2
    <3>2. fin[j] /\ held[j] = <<>>
      BY <3>1 DEF Emptied
    <3>3. j # t
      BY <2>0, <3>2
    <3>4. j # r /\ j # l
      BY <1>2, <2>0, <2>2, TreeFacts
    <3> QED BY <1>12, <2>0, <3>2, <3>3, <3>4
  <2> QED BY <2>1, <2>2
<1>17. Marks(lo2, held2, rest, fin2)
  BY ONLY <1>0, <1>1, <1>11, <1>13, <1>14, <1>15, <1>16 DEF Marks
<1> QED
  BY <1>17

------------------------------------------------------------------------------
(* Sums of numbers over the places of the tree *)

LEMMA SumBound ==
  ASSUME NEW D, IsFiniteSet(D), NEW f, \A u \in D : f[u] \in Nat
  PROVE  \E N \in Nat : \A u \in D : f[u] \in 0 .. N
<1> DEFINE Bounded(S) == \E N \in Nat : \A u \in S : f[u] \in 0 .. N
           T == {n \in Nat : \A S \in SUBSET D : Cardinality(S) = n => Bounded(S)}
<1>1. 0 \in T
  <2> SUFFICES ASSUME NEW S \in SUBSET D, Cardinality(S) = 0 PROVE Bounded(S)
    OBVIOUS
  <2>1. IsFiniteSet(S)
    BY FS_Subset
  <2>2. S = {}
    BY <2>1, FS_EmptySet
  <2> QED BY <2>2
<1>2. ASSUME NEW n \in Nat, n \in T PROVE n + 1 \in T
  <2> SUFFICES ASSUME NEW S \in SUBSET D, Cardinality(S) = n + 1 PROVE Bounded(S)
    OBVIOUS
  <2>1. IsFiniteSet(S)
    BY FS_Subset
  <2>2. S # {}
    BY <2>1, FS_EmptySet
  <2>3. PICK x : x \in S
    BY <2>2
  <2>4. S \ {x} \in SUBSET D /\ Cardinality(S \ {x}) = n
    <3>1. Cardinality(S \ {x}) = IF x \in S THEN Cardinality(S) - 1 ELSE Cardinality(S)
      BY ONLY <2>1, FS_RemoveElement
    <3>2. Cardinality(S \ {x}) = (n + 1) - 1
      BY <2>3, <3>1
    <3> QED BY <3>2
  <2>5. Bounded(S \ {x})
    BY <1>2, <2>4
  <2>6. PICK N \in Nat : \A u \in S \ {x} : f[u] \in 0 .. N
    BY <2>5
  <2>7. f[x] \in Nat
    BY <2>3
  <2>8. N + f[x] \in Nat /\ f[x] \in 0 .. N + f[x]
    BY <2>7
  <2>9. ASSUME NEW u \in S PROVE f[u] \in 0 .. N + f[x]
    <3>1. CASE u = x
      BY <2>8, <3>1
    <3>2. CASE u # x
      <4>1. f[u] \in 0 .. N
        BY <2>6, <3>2
      <4> QED BY <2>7, <4>1
    <3> QED BY <3>1, <3>2
  <2> QED BY <2>8, <2>9
<1> HIDE DEF Bounded
<1>3. Nat \subseteq T
  <2>1. \A n \in Nat : n \in T => n + 1 \in T
    BY <1>2
  <2> HIDE DEF T
  <2> QED BY <1>1, <2>1, SetInduction
<1>4. Cardinality(D) \in Nat
  BY FS_CardinalityType
<1>5. Cardinality(D) \in T
  BY <1>3, <1>4
<1>6. Bounded(D)
  BY <1>5
<1> QED
  BY <1>6 DEF Bounded

LEMMA SumSame ==
  ASSUME NEW D, IsFiniteSet(D), NEW f, NEW g, \A u \in D : f[u] \in Nat /\ g[u] = f[u]
  PROVE  SumOver(g, D) = SumOver(f, D)
<1> DEFINE F == [u \in D |-> {u} \X (1 .. f[u])]
<1>1. PICK N \in Nat : \A u \in D : f[u] \in 0 .. N
  BY SumBound
<1> DEFINE U == D \X (1 .. N)
<1>2. IsFiniteSet(U)
  <2>1. IsFiniteSet(1 .. N)
    BY FS_Interval
  <2> QED BY <2>1, FS_Product
<1>3. ASSUME NEW u \in D PROVE F[u] \in SUBSET U /\ f[u] = Cardinality(F[u])
  <2> DEFINE n == f[u]
  <2>1. n \in Nat /\ n <= N
    BY <1>1
  <2> HIDE DEF n
  <2>2. IsFiniteSet(1 .. n) /\ Cardinality(1 .. n) = n
    BY <2>1, FS_Interval
  <2>3. IsFiniteSet({u}) /\ Cardinality({u}) = 1
    BY FS_Singleton
  <2>4. Cardinality({u} \X (1 .. n)) = 1 * n
    <3> DEFINE V == 1 .. n
               W == {u}
    <3>1. IsFiniteSet(V) /\ Cardinality(V) = n /\ IsFiniteSet(W) /\ Cardinality(W) = 1
      BY <2>2, <2>3
    <3> HIDE DEF V, W
    <3>2. Cardinality(W \X V) = Cardinality(W) * Cardinality(V)
      BY ONLY <3>1, FS_Product
    <3>3. Cardinality(W \X V) = 1 * n
      BY ONLY <3>1, <3>2
    <3> QED BY <3>3 DEF V, W
  <2>5. 1 .. n \in SUBSET (1 .. N)
    BY <2>1
  <2>6. F[u] = {u} \X (1 .. n)
    BY DEF n
  <2>7. Cardinality(F[u]) = n
    BY <2>1, <2>4, <2>6
  <2> QED BY <2>5, <2>6, <2>7 DEF n
<1>4. ASSUME NEW u \in D, NEW v \in D, u # v PROVE F[u] \cap F[v] = {}
  BY <1>4
<1> HIDE DEF F, U
<1>5. SumOver(f, D) = Cardinality(UNION {F[u] : u \in D})
  BY <1>2, <1>3, <1>4, SumOfSets
<1>6. \A u \in D : F[u] \in SUBSET U /\ g[u] = Cardinality(F[u])
  BY <1>3
<1>7. SumOver(g, D) = Cardinality(UNION {F[u] : u \in D})
  BY <1>2, <1>4, <1>6, SumOfSets
<1> QED
  BY <1>5, <1>7

(* Two sums that differ at one place *)
LEMMA SumPoint ==
  ASSUME NEW D, IsFiniteSet(D), NEW f, NEW g, NEW x \in D,
         \A u \in D : f[u] \in Nat /\ g[u] \in Nat, \A u \in D : u # x => g[u] = f[u]
  PROVE  /\ SumOver(g, D) + f[x] = SumOver(f, D) + g[x]
         /\ SumOver(f, D) \in Nat /\ SumOver(g, D) \in Nat
<1> DEFINE E == D \ {x}
<1>1. IsFiniteSet(E) /\ x \notin E /\ E \cup {x} = D
  BY FS_RemoveElement
<1>2. SumOver(g, E) = SumOver(f, E)
  BY <1>1, SumSame
<1>3. PICK N \in Nat : \A u \in D : f[u] \in 0 .. N
  BY SumBound
<1>4. PICK M \in Nat : \A u \in D : g[u] \in 0 .. M
  BY SumBound
<1> HIDE DEF E
<1>5. SumOver(f, E) \in Nat /\ SumOver(f, D) = SumOver(f, E) + f[x]
  <2>1. \A u \in E \cup {x} : f[u] \in 0 .. N
    BY <1>1, <1>3
  <2>2. SumOver(f, E) \in Nat /\ SumOver(f, E \cup {x}) = SumOver(f, E) + f[x]
    BY ONLY <1>1, <1>3, <2>1, SumAdd
  <2> QED BY <1>1, <2>2
<1>6. SumOver(g, D) = SumOver(g, E) + g[x]
  <2>1. \A u \in E \cup {x} : g[u] \in 0 .. M
    BY <1>1, <1>4
  <2>2. SumOver(g, E \cup {x}) = SumOver(g, E) + g[x]
    BY ONLY <1>1, <1>4, <2>1, SumAdd
  <2> QED BY <1>1, <2>2
<1>7. f[x] \in Nat /\ g[x] \in Nat
  OBVIOUS
<1> QED
  BY <1>2, <1>5, <1>6, <1>7

LEMMA SumZero ==
  ASSUME NEW D, IsFiniteSet(D), NEW f, \A u \in D : f[u] = 0
  PROVE  SumOver(f, D) = 0
<1> DEFINE F == [u \in D |-> {}]
           U == {}
<1>1. IsFiniteSet(U) /\ Cardinality({}) = 0
  BY FS_EmptySet
<1>2. \A u \in D : F[u] \in SUBSET U /\ f[u] = Cardinality(F[u])
  BY <1>1
<1>3. \A u, v \in D : u # v => F[u] \cap F[v] = {}
  OBVIOUS
<1>4. UNION {F[u] : u \in D} = {}
  OBVIOUS
<1> HIDE DEF F, U
<1>5. SumOver(f, D) = Cardinality(UNION {F[u] : u \in D})
  BY <1>1, <1>2, <1>3, SumOfSets
<1> QED
  BY <1>1, <1>4, <1>5

(* What changes at two or three places without a change of their sum *)
LEMMA SumTwo ==
  ASSUME NEW D, IsFiniteSet(D), NEW f \in [D -> Nat], NEW g \in [D -> Nat], NEW x \in D, NEW y \in D, x # y,
         \A u \in D : u # x /\ u # y => g[u] = f[u]
  PROVE  /\ SumOver(g, D) + (f[x] + f[y]) = SumOver(f, D) + (g[x] + g[y])
         /\ SumOver(f, D) \in Nat /\ SumOver(g, D) \in Nat
<1> DEFINE h == [f EXCEPT ![x] = g[x]]
<1>1. h \in [D -> Nat] /\ h[x] = g[x] /\ \A u \in D : u # x => h[u] = f[u]
  OBVIOUS
<1>2. h[y] = f[y] /\ \A u \in D : u # y => g[u] = h[u]
  BY <1>1
<1> HIDE DEF h
<1>3. (\A u \in D : f[u] \in Nat /\ h[u] \in Nat) /\ (\A u \in D : h[u] \in Nat /\ g[u] \in Nat)
  BY <1>1
<1>4. SumOver(h, D) + f[x] = SumOver(f, D) + h[x] /\ SumOver(f, D) \in Nat /\ SumOver(h, D) \in Nat
  BY ONLY IsFiniteSet(D), x \in D, <1>1, <1>3, SumPoint
<1>5. SumOver(g, D) + h[y] = SumOver(h, D) + g[y] /\ SumOver(g, D) \in Nat
  BY ONLY IsFiniteSet(D), y \in D, <1>2, <1>3, SumPoint
<1>6. SumOver(h, D) + f[x] = SumOver(f, D) + g[x] /\ SumOver(g, D) + f[y] = SumOver(h, D) + g[y]
  BY <1>1, <1>2, <1>4, <1>5
<1>7. f[x] \in Nat /\ f[y] \in Nat /\ g[x] \in Nat /\ g[y] \in Nat
  OBVIOUS
<1> QED
  BY <1>4, <1>5, <1>6, <1>7

LEMMA SumThree ==
  ASSUME NEW D, IsFiniteSet(D), NEW f \in [D -> Nat], NEW g \in [D -> Nat],
         NEW x \in D, NEW y \in D, NEW z \in D, x # y, x # z, y # z,
         \A u \in D : u # x /\ u # y /\ u # z => g[u] = f[u],
         g[x] + (g[y] + g[z]) = f[x] + (f[y] + f[z])
  PROVE  SumOver(g, D) = SumOver(f, D) /\ SumOver(f, D) \in Nat
<1> DEFINE h == [f EXCEPT ![x] = g[x]]
<1>1. h \in [D -> Nat] /\ h[x] = g[x] /\ \A u \in D : u # x => h[u] = f[u]
  OBVIOUS
<1>2. h[y] = f[y] /\ h[z] = f[z] /\ \A u \in D : u # y /\ u # z => g[u] = h[u]
  BY <1>1
<1> HIDE DEF h
<1>3. (\A u \in D : f[u] \in Nat /\ h[u] \in Nat)
  BY <1>1
<1>4. SumOver(h, D) + f[x] = SumOver(f, D) + h[x] /\ SumOver(f, D) \in Nat /\ SumOver(h, D) \in Nat
  BY ONLY IsFiniteSet(D), x \in D, <1>1, <1>3, SumPoint
<1>5. SumOver(g, D) + (h[y] + h[z]) = SumOver(h, D) + (g[y] + g[z]) /\ SumOver(g, D) \in Nat
  BY ONLY IsFiniteSet(D), g \in [D -> Nat], y \in D, z \in D, y # z, <1>1, <1>2, SumTwo
<1>6. /\ SumOver(h, D) + f[x] = SumOver(f, D) + g[x]
      /\ SumOver(g, D) + (f[y] + f[z]) = SumOver(h, D) + (g[y] + g[z])
  BY <1>1, <1>2, <1>4, <1>5
<1>7. f[x] \in Nat /\ f[y] \in Nat /\ g[x] \in Nat /\ g[y] \in Nat /\ f[z] \in Nat /\ g[z] \in Nat
  OBVIOUS
<1> QED
  BY <1>4, <1>5, <1>6, <1>7

------------------------------------------------------------------------------
(* How often key x is in the tree and in the runs *)
InTree(x, held) == [i \in Tree |-> Copies(x, held[i])]
InRuns(x, rest) == [p \in RunIds |-> Copies(x, rest[p])]

Flow(x, held, rest) == SumOver(InTree(x, held), Tree) + SumOver(InRuns(x, rest), RunIds)

LEMMA CopiesNat == \A x, s : s \in Seq(Nat) => Copies(x, s) \in Nat
<1> SUFFICES ASSUME NEW x, NEW s \in Seq(Nat) PROVE Copies(x, s) \in Nat
  OBVIOUS
<1>1. Len(s) \in Nat
  OBVIOUS
<1> QED
  BY <1>1, CopiesType

LEMMA FiniteTree == IsFiniteSet(Tree) /\ IsFiniteSet(RunIds)
<1>1. nfifos \in Nat /\ nparts \in Nat
  BY TreeShape
<1>2. -1 \in Int /\ nfifos - 1 \in Int /\ 0 \in Int /\ nparts - 1 \in Int
  BY <1>1
<1> QED
  BY <1>2, FS_Interval DEF Tree, RunIds

LEMMA InTreeIs ==
  ASSUME NEW x, NEW held \in [Tree -> Seq(Nat)]
  PROVE  InTree(x, held) \in [Tree -> Nat] /\ \A i \in Tree : InTree(x, held)[i] = Copies(x, held[i])
<1>1. \A i \in Tree : Copies(x, held[i]) \in Nat
  BY CopiesNat
<1> QED
  BY <1>1 DEF InTree

LEMMA InRunsIs ==
  ASSUME NEW x, NEW rest \in [RunIds -> Seq(Nat)]
  PROVE  InRuns(x, rest) \in [RunIds -> Nat] /\ \A p \in RunIds : InRuns(x, rest)[p] = Copies(x, rest[p])
<1>1. \A p \in RunIds : Copies(x, rest[p]) \in Nat
  BY CopiesNat
<1> QED
  BY <1>1 DEF InRuns

Stored(held, rest) == held \in [Tree -> Seq(Nat)] /\ rest \in [RunIds -> Seq(Nat)]

LEMMA LeafFlow ==
  ASSUME NEW x, NEW held, NEW rest, Stored(held, rest), NEW held2, NEW rest2, Stored(held2, rest2),
         NEW t, NEW a, NEW b, NEW s, LeafReads(held, rest, t, a, b, s, held2, rest2)
  PROVE  Flow(x, held2, rest2) = Flow(x, held, rest)
<1>0. /\ t \in Leaves /\ Split(rest[RunA(t)], rest[RunB(t)], a, b, s)
      /\ held2 = [held EXCEPT ![t] = held[t] \o s]
      /\ rest2 = [rest EXCEPT ![RunA(t)] = Skip(rest[RunA(t)], a), ![RunB(t)] = Skip(rest[RunB(t)], b)]
      /\ held \in [Tree -> Seq(Nat)] /\ rest \in [RunIds -> Seq(Nat)]
      /\ held2 \in [Tree -> Seq(Nat)] /\ rest2 \in [RunIds -> Seq(Nat)]
  BY DEF LeafReads, Stored
<1> USE <1>0
<1> DEFINE pa == RunA(t)
           pb == RunB(t)
           A  == rest[pa]
           B  == rest[pb]
           c  == held[t]
           F  == InTree(x, held)
           G  == InTree(x, held2)
           H  == InRuns(x, rest)
           K  == InRuns(x, rest2)
<1>1. pa \in RunIds /\ pb \in RunIds /\ pa # pb /\ t \in Tree
  BY TreeFacts
<1>2. c \in Seq(Nat) /\ A \in Seq(Nat) /\ B \in Seq(Nat) /\ Split(A, B, a, b, s)
  BY <1>1
<1>3. /\ held2[t] = c \o s /\ rest2[pa] = Skip(A, a) /\ rest2[pb] = Skip(B, b)
      /\ \A i \in Tree : i # t => held2[i] = held[i]
      /\ \A p \in RunIds : p # pa /\ p # pb => rest2[p] = rest[p]
  BY <1>1
<1>4. /\ F \in [Tree -> Nat] /\ \A i \in Tree : F[i] = Copies(x, held[i])
      /\ H \in [RunIds -> Nat] /\ \A p \in RunIds : H[p] = Copies(x, rest[p])
  <2>1. F \in [Tree -> Nat] /\ \A i \in Tree : F[i] = Copies(x, held[i])
    BY ONLY <1>0, InTreeIs
  <2>2. H \in [RunIds -> Nat] /\ \A p \in RunIds : H[p] = Copies(x, rest[p])
    BY ONLY <1>0, InRunsIs
  <2> QED BY <2>1, <2>2
<1>5. /\ G \in [Tree -> Nat] /\ \A i \in Tree : G[i] = Copies(x, held2[i])
      /\ K \in [RunIds -> Nat] /\ \A p \in RunIds : K[p] = Copies(x, rest2[p])
  <2>1. G \in [Tree -> Nat] /\ \A i \in Tree : G[i] = Copies(x, held2[i])
    <3>1. held2 \in [Tree -> Seq(Nat)]
      BY <1>0
    <3> QED BY ONLY <3>1, InTreeIs
  <2>2. K \in [RunIds -> Nat] /\ \A p \in RunIds : K[p] = Copies(x, rest2[p])
    BY ONLY <1>0, InRunsIs
  <2> QED BY <2>1, <2>2
<1> HIDE DEF c, A, B
<1>6. /\ Copies(x, c \o s) + (Copies(x, Skip(A, a)) + Copies(x, Skip(B, b)))
              = Copies(x, c) + (Copies(x, A) + Copies(x, B))
  BY <1>2, PassCopies
<1>7. /\ F[t] = Copies(x, c) /\ H[pa] = Copies(x, A) /\ H[pb] = Copies(x, B)
      /\ G[t] = Copies(x, c \o s) /\ K[pa] = Copies(x, Skip(A, a)) /\ K[pb] = Copies(x, Skip(B, b))
  BY <1>1, <1>3, <1>4, <1>5 DEF c, A, B
<1> HIDE DEF F, G, H, K, pa, pb
<1>8. G[t] + (K[pa] + K[pb]) = F[t] + (H[pa] + H[pb])
  BY <1>6, <1>7
<1>9. /\ \A i \in Tree : i # t => G[i] = F[i]
      /\ \A p \in RunIds : p # pa /\ p # pb => K[p] = H[p]
  <2>1. \A i \in Tree : i # t => G[i] = F[i]
    BY ONLY <1>3, <1>4, <1>5
  <2>2. \A p \in RunIds : p # pa /\ p # pb => K[p] = H[p]
    BY ONLY <1>3, <1>4, <1>5
  <2> QED BY <2>1, <2>2
<1>10. /\ SumOver(G, Tree) + F[t] = SumOver(F, Tree) + G[t]
       /\ SumOver(F, Tree) \in Nat /\ SumOver(G, Tree) \in Nat
  <2>1. \A u \in Tree : F[u] \in Nat /\ G[u] \in Nat
    BY <1>4, <1>5
  <2> DEFINE D == Tree
  <2>2. /\ IsFiniteSet(D) /\ t \in D
        /\ \A u \in D : F[u] \in Nat /\ G[u] \in Nat
        /\ \A u \in D : u # t => G[u] = F[u]
    BY <1>1, <1>9, <2>1, FiniteTree
  <2> HIDE DEF D
  <2>3. /\ SumOver(G, D) + F[t] = SumOver(F, D) + G[t]
        /\ SumOver(F, D) \in Nat /\ SumOver(G, D) \in Nat
    BY ONLY <2>2, SumPoint
  <2> QED BY <2>3 DEF D
<1>11. /\ SumOver(K, RunIds) + (H[pa] + H[pb]) = SumOver(H, RunIds) + (K[pa] + K[pb])
       /\ SumOver(H, RunIds) \in Nat /\ SumOver(K, RunIds) \in Nat
  <2>1. H \in [RunIds -> Nat] /\ K \in [RunIds -> Nat]
    BY <1>4, <1>5
  <2> DEFINE D == RunIds
  <2>2. /\ IsFiniteSet(D) /\ pa \in D /\ pb \in D /\ pa # pb /\ H \in [D -> Nat] /\ K \in [D -> Nat]
        /\ \A u \in D : u # pa /\ u # pb => K[u] = H[u]
    BY <1>1, <1>9, <2>1, FiniteTree
  <2> HIDE DEF D
  <2>3. /\ SumOver(K, D) + (H[pa] + H[pb]) = SumOver(H, D) + (K[pa] + K[pb])
        /\ SumOver(H, D) \in Nat /\ SumOver(K, D) \in Nat
    BY ONLY <2>2, SumTwo
  <2> QED BY <2>3 DEF D
<1>12. F[t] \in Nat /\ H[pa] \in Nat /\ H[pb] \in Nat /\ G[t] \in Nat /\ K[pa] \in Nat /\ K[pb] \in Nat
  BY <1>1, <1>4, <1>5
<1>13. SumOver(G, Tree) + SumOver(K, RunIds) = SumOver(F, Tree) + SumOver(H, RunIds)
  <2> DEFINE u == SumOver(G, Tree)
             v == SumOver(F, Tree)
             w == SumOver(K, RunIds)
             z == SumOver(H, RunIds)
             f == F[t]
             g == G[t]
             h == H[pa] + H[pb]
             k == K[pa] + K[pb]
  <2>1. u + f = v + g /\ w + h = z + k /\ g + k = f + h
    BY ONLY <1>8, <1>10, <1>11
  <2>2. u \in Nat /\ v \in Nat /\ w \in Nat /\ z \in Nat /\ f \in Nat /\ g \in Nat /\ h \in Nat /\ k \in Nat
    <3>1. H[pa] + H[pb] \in Nat /\ K[pa] + K[pb] \in Nat /\ F[t] \in Nat /\ G[t] \in Nat
      BY ONLY <1>12
    <3> QED BY ONLY <1>10, <1>11, <3>1
  <2> HIDE DEF u, v, w, z, f, g, h, k
  <2>3. u + w = v + z
    BY ONLY <2>1, <2>2
  <2> QED BY <2>3 DEF u, v, w, z
<1> QED
  BY <1>13 DEF Flow, F, G, H, K

LEMMA InnerFlow ==
  ASSUME NEW x, NEW held, NEW rest, Stored(held, rest), NEW held2, Stored(held2, rest),
         NEW t, NEW r, NEW l, NEW a, NEW b, NEW s, InnerTakes(held, t, r, l, a, b, s, held2)
  PROVE  Flow(x, held2, rest) = Flow(x, held, rest)
<1>0. /\ t \in Tree \ Leaves /\ r = 2 * t + 2 /\ l = 2 * t + 3
      /\ Split(held[r], held[l], a, b, s)
      /\ held2 = [held EXCEPT ![t] = held[t] \o s, ![r] = Skip(held[r], a), ![l] = Skip(held[l], b)]
      /\ held \in [Tree -> Seq(Nat)] /\ held2 \in [Tree -> Seq(Nat)]
  BY DEF InnerTakes, Stored
<1> USE <1>0
<1> DEFINE A == held[r]
           B == held[l]
           c == held[t]
           F == InTree(x, held)
           G == InTree(x, held2)
<1>1. r \in Tree /\ l \in Tree /\ r # t /\ l # t /\ t \in Tree /\ r # l
  <2>1. Children(t) = {r, l}
    BY DEF Children
  <2>2. t \in Int
    BY TreeShape DEF Tree
  <2>3. r # l
    BY <2>2
  <2> QED BY <2>1, <2>3, TreeFacts
<1>2. c \in Seq(Nat) /\ A \in Seq(Nat) /\ B \in Seq(Nat) /\ Split(A, B, a, b, s)
  BY <1>1
<1>3. /\ held2[t] = c \o s /\ held2[r] = Skip(A, a) /\ held2[l] = Skip(B, b)
      /\ \A i \in Tree : i # t /\ i # r /\ i # l => held2[i] = held[i]
  BY <1>1
<1>4. F \in [Tree -> Nat] /\ \A i \in Tree : F[i] = Copies(x, held[i])
  BY ONLY <1>0, InTreeIs
<1>5. G \in [Tree -> Nat] /\ \A i \in Tree : G[i] = Copies(x, held2[i])
  <2>1. held2 \in [Tree -> Seq(Nat)]
    BY <1>0
  <2> QED BY ONLY <2>1, InTreeIs
<1> HIDE DEF c, A, B
<1>6. Copies(x, c \o s) + (Copies(x, Skip(A, a)) + Copies(x, Skip(B, b)))
        = Copies(x, c) + (Copies(x, A) + Copies(x, B))
  BY <1>2, PassCopies
<1>7. /\ F[t] = Copies(x, c) /\ F[r] = Copies(x, A) /\ F[l] = Copies(x, B)
      /\ G[t] = Copies(x, c \o s) /\ G[r] = Copies(x, Skip(A, a)) /\ G[l] = Copies(x, Skip(B, b))
  BY <1>1, <1>3, <1>4, <1>5 DEF c, A, B
<1> HIDE DEF F, G
<1>8. G[t] + (G[r] + G[l]) = F[t] + (F[r] + F[l])
  BY <1>6, <1>7
<1>9. \A i \in Tree : i # t /\ i # r /\ i # l => G[i] = F[i]
  BY <1>3, <1>4, <1>5
<1>10. SumOver(G, Tree) = SumOver(F, Tree)
  <2>1. t # r /\ t # l
    BY <1>1
  <2>2. r # l /\ r \in Tree /\ l \in Tree /\ t \in Tree /\ F \in [Tree -> Nat] /\ G \in [Tree -> Nat]
    BY <1>1, <1>4, <1>5
  <2> DEFINE D == Tree
  <2>3. /\ IsFiniteSet(D) /\ t \in D /\ r \in D /\ l \in D /\ F \in [D -> Nat] /\ G \in [D -> Nat]
        /\ \A u \in D : u # t /\ u # r /\ u # l => G[u] = F[u]
    BY <1>9, <2>2, FiniteTree
  <2> HIDE DEF D
  <2>4. SumOver(G, D) = SumOver(F, D)
    BY ONLY <1>8, <2>1, <2>2, <2>3, SumThree
  <2> QED BY <2>4 DEF D
<1> QED
  BY <1>10 DEF Flow, F, G

------------------------------------------------------------------------------
(* The inductive invariant *)

Held == [i \in Tree |-> IF i = -1 THEN output ELSE Contents(nodes[i])]

TreeTypes ==
  /\ fifosize \in FifoSizes /\ input \in Inputs
  /\ unread \in [RunIds -> Seq(Nat)]
  /\ DOMAIN nodes = Nodes /\ \A i \in Nodes : Ring(nodes[i])
  /\ done \in [Nodes -> BOOLEAN]
  /\ output \in Seq(Nat)
  /\ finished \in BOOLEAN /\ running \in BOOLEAN
  /\ turn \in Tree

(* In a pass so far without an unfinished node the inner nodes that were    *)
(* visited are done.                                                        *)
Flags == finished => \A i \in Nodes \ Leaves : i > turn => done[i]

TreeInv ==
  /\ TreeTypes
  /\ \E lo : Marks(lo, Held, unread, done)
  /\ \A x \in Nat : Flow(x, Held, unread) = SumOver(InRuns(x, input), RunIds)
  /\ Flags

LEMMA HeldIs ==
  ASSUME TreeTypes
  PROVE  /\ fifosize \in Nat \ {0} /\ Held \in [Tree -> Seq(Nat)] /\ Held[-1] = output
         /\ \A i \in Nodes : Held[i] = Contents(nodes[i]) /\ nodes[i].count = Len(Contents(nodes[i]))
<1>1. fifosize \in Nat \ {0}
  BY TreeAssumption DEF TreeTypes
<1>2. ASSUME NEW i \in Nodes PROVE Contents(nodes[i]) \in Seq(Nat) /\ nodes[i].count = Len(Contents(nodes[i]))
  <2>1. Ring(nodes[i])
    BY DEF TreeTypes
  <2> QED BY <1>1, <2>1, RingContents
<1>3. ASSUME NEW i \in Tree PROVE Held[i] \in Seq(Nat)
  <2>1. CASE i = -1
    <3>1. Held[i] = output
      BY <2>1 DEF Held
    <3> QED BY <3>1 DEF TreeTypes
  <2>2. CASE i # -1
    <3>1. i \in Nodes /\ Held[i] = Contents(nodes[i])
      BY <2>2, TreeFacts DEF Held
    <3> QED BY <1>2, <3>1
  <2> QED BY <2>1, <2>2
<1>4. Held \in [Tree -> Seq(Nat)]
  BY <1>3 DEF Held
<1>5. Held[-1] = output /\ \A i \in Nodes : Held[i] = Contents(nodes[i])
  BY TreeFacts DEF Held
<1> QED
  BY <1>1, <1>2, <1>4, <1>5

LEMMA HeldNext ==
  ASSUME fifosize' = fifosize
  PROVE  /\ Held' = [i \in Tree |-> IF i = -1 THEN output' ELSE Contents(nodes'[i])]
         /\ (\A i \in Nodes : Ring(nodes'[i])) => (\A i \in Nodes : Ring(nodes[i]))'
  BY DEF Held, Contents, UsedSlots, Ring, Wrap, Nodes

(* At the start everything is in the runs. *)
LEMMA TreeStarts == TreeInit => TreeInv
<1> SUFFICES ASSUME TreeInit PROVE TreeInv
  OBVIOUS
<1>1. fifosize \in FifoSizes /\ fifosize \in Nat \ {0} /\ input \in Inputs /\ unread = input
  BY TreeAssumption DEF TreeInit
<1>2. unread \in [RunIds -> Seq(Nat)] /\ \A p \in RunIds : Rising(unread[p])
  <2>1. unread \in [RunIds -> Seq(Nat)] /\ \A p \in RunIds : Ordered(unread[p])
    BY <1>1, TreeAssumption DEF RunIds
  <2>2. ASSUME NEW p \in RunIds PROVE Rising(unread[p])
    <3>1. unread[p] \in Seq(Nat) /\ Ordered(unread[p])
      BY <2>1
    <3> QED BY <3>1, OrderedRising
  <2> QED BY <2>1, <2>2
<1> DEFINE e == [buffer |-> [slot \in 0 .. fifosize - 1 |-> 0], head |-> 0, tail |-> 0, count |-> 0]
<1>3. Ring(e) /\ Contents(e) = <<>>
  <2>1. e.count = 0 /\ e.head = 0 /\ e.tail = 0
    OBVIOUS
  <2>2. 0 \in 0 .. fifosize - 1 /\ 0 \in 0 .. fifosize /\ Wrap(0 + 0) = 0
    BY <1>1 DEF Wrap
  <2>3. e \in [buffer : [0 .. fifosize - 1 -> Nat], head : 0 .. fifosize - 1,
               tail : 0 .. fifosize - 1, count : 0 .. fifosize]
    BY <2>2
  <2> HIDE DEF e
  <2> QED BY <2>1, <2>2, <2>3 DEF Ring, Contents
<1>4. nodes = [i \in Nodes |-> e] /\ done = [i \in Nodes |-> FALSE]
  BY DEF TreeInit, Nodes
<1> HIDE DEF e
<1>5. DOMAIN nodes = Nodes /\ \A i \in Nodes : nodes[i] = e
  BY <1>4
<1>6. nfifos - 1 \in Tree
  BY TreeShape DEF Tree
<1>7. TreeTypes
  <2>1. output \in Seq(Nat) /\ finished \in BOOLEAN /\ running \in BOOLEAN /\ turn \in Tree /\ done \in [Nodes -> BOOLEAN]
    BY <1>4, <1>6 DEF TreeInit
  <2> QED BY <1>1, <1>2, <1>3, <1>5, <2>1 DEF TreeTypes
<1>8. \A i \in Tree : Held[i] = <<>>
  BY <1>3, <1>5, TreeFacts DEF Held, TreeInit
<1>9. \E lo : Marks(lo, Held, unread, done)
  <2> DEFINE lo == [i \in Tree |-> 0]
  <2>1. lo \in [Tree -> Nat] /\ \A i \in Tree : lo[i] = 0
    OBVIOUS
  <2>2. Held \in [Tree -> Seq(Nat)] /\ done \in [Nodes -> BOOLEAN]
    BY <1>4, <1>7, HeldIs
  <2>3. Rising(<<>>) /\ AtMost(<<>>, 0) /\ AtLeast(0, <<>>)
    BY DEF Rising, AtMost, AtLeast
  <2>4. ASSUME NEW s \in Seq(Nat) PROVE AtLeast(0, s)
    BY DEF AtLeast
  <2> HIDE DEF lo
  <2>5. \A i \in Tree : Rising(Held[i]) /\ AtMost(Held[i], lo[i])
    BY <1>8, <2>1, <2>3
  <2>6. \A i \in Leaves : AtLeast(lo[i], unread[RunA(i)]) /\ AtLeast(lo[i], unread[RunB(i)])
    <3> SUFFICES ASSUME NEW i \in Leaves PROVE AtLeast(lo[i], unread[RunA(i)]) /\ AtLeast(lo[i], unread[RunB(i)])
      OBVIOUS
    <3>1. i \in Tree /\ unread[RunA(i)] \in Seq(Nat) /\ unread[RunB(i)] \in Seq(Nat)
      BY <1>2, TreeFacts
    <3> QED BY <2>1, <2>4, <3>1
  <2>7. \A i \in Nodes : ~done[i]
    BY <1>4
  <2>8. \A i \in Tree \ Leaves : Behind(lo, Held, done, i)
    <3> SUFFICES ASSUME NEW i \in Tree \ Leaves, NEW j \in Children(i)
                 PROVE  AtLeast(lo[i], Held[j]) /\ (~done[j] => lo[i] <= lo[j])
      BY DEF Behind
    <3>1. j \in Tree
      BY TreeFacts
    <3> QED BY <1>8, <2>1, <2>3, <3>1
  <2>9. Leaves \subseteq Nodes
    BY TreeFacts
  <2>10. Marks(lo, Held, unread, done)
    BY <1>2, <2>1, <2>2, <2>5, <2>6, <2>7, <2>8, <2>9 DEF Marks
  <2> QED BY <2>10
<1>10. ASSUME NEW x \in Nat PROVE Flow(x, Held, unread) = SumOver(InRuns(x, input), RunIds)
  <2>1. IsFiniteSet(Tree) /\ IsFiniteSet(RunIds)
    BY FiniteTree
  <2>2. \A i \in Tree : InTree(x, Held)[i] = 0
    BY <1>8, CopiesEmpty DEF InTree
  <2>3. SumOver(InTree(x, Held), Tree) = 0
    BY <2>1, <2>2, SumZero
  <2>4. InRuns(x, unread) \in [RunIds -> Nat]
    BY <1>2, InRunsIs
  <2>5. SumOver(InRuns(x, unread), RunIds) \in Nat
    <3> DEFINE f == InRuns(x, unread)
    <3>1. 0 \in RunIds
      BY TreeShape, TreeSize DEF RunIds
    <3>2. \A u \in RunIds : f[u] \in Nat
      BY <2>4
    <3> HIDE DEF f
    <3>3. SumOver(f, RunIds) \in Nat
      BY ONLY <2>1, <3>1, <3>2, SumPoint
    <3> QED BY <3>3 DEF f
  <2> QED BY <1>1, <2>3, <2>5 DEF Flow
<1>11. Flags
  BY DEF TreeInit, Flags, Nodes
<1> QED
  BY <1>7, <1>9, <1>10, <1>11 DEF TreeInv

(* A leaf reads, or leaves it. *)
LEMMA ReadLeafInv ==
  ASSUME TreeInv, ReadLeaf
  PROVE  TreeInv'
<1> DEFINE t  == turn
           pa == RunA(t)
           pb == RunB(t)
<1>1. /\ TreeTypes /\ \E lo : Marks(lo, Held, unread, done)
      /\ \A x \in Nat : Flow(x, Held, unread) = SumOver(InRuns(x, input), RunIds)
      /\ Flags
  BY DEF TreeInv
<1>2. t \in Leaves /\ t \in Nodes /\ t \in Tree /\ t # -1 /\ pa \in RunIds /\ pb \in RunIds /\ pa # pb
  BY TreeFacts DEF ReadLeaf
<1>3. /\ fifosize \in Nat \ {0} /\ Held \in [Tree -> Seq(Nat)] /\ Held[-1] = output
      /\ \A i \in Nodes : Held[i] = Contents(nodes[i]) /\ nodes[i].count = Len(Contents(nodes[i]))
  BY <1>1, HeldIs
<1>4. /\ turn' = t - 1 /\ fifosize' = fifosize /\ input' = input /\ output' = output /\ running' = running
  BY DEF ReadLeaf
<1>5. turn' \in Tree
  <2>1. nfifos \in Nat
    BY TreeShape
  <2> QED BY <1>2, <1>4, <2>1 DEF Tree, Nodes
<1>6. /\ Held' = [i \in Tree |-> IF i = -1 THEN output' ELSE Contents(nodes'[i])]
      /\ (\A i \in Nodes : Ring(nodes'[i])) => (\A i \in Nodes : Ring(nodes[i]))'
  BY <1>4, HeldNext
<1>7. CASE ~done[t] /\ nodes[t].count < readthreshold
  <2> DEFINE A == unread[pa]
             B == unread[pb]
  <2>1. PICK rd \in {Readmerge(nodes[t], A, B)} :
          /\ nodes' = [nodes EXCEPT ![t] = rd.node]
          /\ unread' = [unread EXCEPT ![pa] = rd.A, ![pb] = rd.B]
          /\ done' = [done EXCEPT ![t] = rd.nread = 0 \/ (rd.A = <<>> /\ rd.B = <<>>)]
          /\ finished' = (finished /\ done'[t])
    BY <1>7 DEF ReadLeaf, RunA, RunB
  <2>2. A \in Seq(Nat) /\ B \in Seq(Nat) /\ Rising(A) /\ Rising(B) /\ Ring(nodes[t])
    BY <1>1, <1>2 DEF Marks, TreeTypes
  <2>3. nodes[t].count < fifosize
    <3>1. nodes[t].count \in Nat
      BY <2>2 DEF Ring
    <3> QED BY <1>3, <1>7, <3>1 DEF readthreshold
  <2> HIDE DEF A, B, pa, pb, t
  <2>4. PICK a, b, s :
           /\ Split(A, B, a, b, s)
           /\ Ring(rd.node) /\ Contents(rd.node) = Contents(nodes[t]) \o s
           /\ rd.A = Skip(A, a) /\ rd.B = Skip(B, b)
           /\ rd.nread = 0 /\ nodes[t].count < fifosize => rd.A = <<>> /\ rd.B = <<>>
    <3> DEFINE n == nodes[t]
    <3>1. fifosize \in Nat \ {0} /\ Ring(n) /\ A \in Seq(Nat) /\ B \in Seq(Nat) /\ Rising(A) /\ Rising(B)
      BY <1>3, <2>2
    <3>2. rd = Readmerge(n, A, B)
      BY <2>1
    <3> HIDE DEF n
    <3>3. LET res == Readmerge(n, A, B) IN
          \E a, b, s :
            /\ Split(A, B, a, b, s)
            /\ Ring(res.node) /\ Contents(res.node) = Contents(n) \o s
            /\ res.A = Skip(A, a) /\ res.B = Skip(B, b)
            /\ res.nread = 0 /\ n.count < fifosize => res.A = <<>> /\ res.B = <<>>
      BY ONLY <3>1, ReadmergeIs
    <3>4. \E a, b, s :
            /\ Split(A, B, a, b, s)
            /\ Ring(rd.node) /\ Contents(rd.node) = Contents(n) \o s
            /\ rd.A = Skip(A, a) /\ rd.B = Skip(B, b)
            /\ rd.nread = 0 /\ n.count < fifosize => rd.A = <<>> /\ rd.B = <<>>
      BY ONLY <3>2, <3>3, Zenon
    <3> QED BY <3>4 DEF n
  <2> DEFINE d == rd.nread = 0 \/ (rd.A = <<>> /\ rd.B = <<>>)
  <2>5. d \in BOOLEAN /\ (d => Skip(A, a) = <<>> /\ Skip(B, b) = <<>>)
    BY <2>3, <2>4
  <2>6. /\ unread' = [unread EXCEPT ![pa] = Skip(A, a), ![pb] = Skip(B, b)]
        /\ done' = [done EXCEPT ![t] = d]
    BY <2>1, <2>4
  <2> HIDE DEF d
  <2>7. DOMAIN nodes' = Nodes /\ nodes'[t] = rd.node /\ \A i \in Nodes : i # t => nodes'[i] = nodes[i]
    BY <1>1, <1>2, <2>1 DEF TreeTypes
  <2>8. \A i \in Nodes : Ring(nodes'[i])
    BY <1>1, <2>4, <2>7 DEF TreeTypes
  <2>9. Held' = [Held EXCEPT ![t] = Held[t] \o s]
    <3>1. Held[t] = Contents(nodes[t])
      BY <1>2, <1>3
    <3>2. Contents(nodes'[t]) = Held[t] \o s
      BY <2>4, <2>7, <3>1
    <3> DEFINE v == Held[t] \o s
    <3> HIDE DEF v
    <3>3. Contents(nodes'[t]) = v
      BY <3>2 DEF v
    <3>4. ASSUME NEW i \in Tree
          PROVE  (IF i = -1 THEN output' ELSE Contents(nodes'[i])) = (IF i = t THEN v ELSE Held[i])
      <4>1. CASE i = -1
        BY <1>2, <1>3, <1>4, <4>1
      <4>2. CASE i # -1
        <5>1. i \in Nodes
          BY <4>2, TreeFacts
        <5>2. CASE i = t
          BY <3>3, <4>2, <5>2
        <5>3. CASE i # t
          BY <1>3, <2>7, <4>2, <5>1, <5>3
        <5> QED BY <5>2, <5>3
      <4> QED BY <4>1, <4>2
    <3>5. Held' = [i \in Tree |-> IF i = t THEN v ELSE Held[i]]
      BY <1>6, <3>4
    <3>6. [Held EXCEPT ![t] = v] = [i \in Tree |-> IF i = t THEN v ELSE Held[i]]
      BY <1>3
    <3> QED BY <3>5, <3>6 DEF v
  <2>10. PICK lo : Marks(lo, Held, unread, done)
    BY <1>1
  <2>11. ~done[t]
    BY <1>7 DEF t
  <2>21. LeafReads(Held, unread, t, a, b, s, Held', unread')
    BY <1>2, <2>4, <2>6, <2>9 DEF LeafReads, A, B, pa, pb, t
  <2>22. LeafDone(unread, done, t, a, b, d, done')
    BY <2>5, <2>6, <2>11 DEF LeafDone, A, B, pa, pb
  <2>12. \E lo2 : Marks(lo2, Held', unread', done')
    BY ONLY <2>10, <2>21, <2>22, LeafStep
  <2>13. PICK lo2 : Marks(lo2, Held', unread', done')
    BY <2>12
  <2>14. Held' \in [Tree -> Seq(Nat)] /\ unread' \in [RunIds -> Seq(Nat)] /\ done' \in [Nodes -> BOOLEAN]
    BY <2>13 DEF Marks
  <2>15. \A x \in Nat : Flow(x, Held', unread') = Flow(x, Held, unread)
    <3>1. unread \in [RunIds -> Seq(Nat)]
      BY <1>1 DEF TreeTypes
    <3>2. Stored(Held, unread) /\ Stored(Held', unread')
      BY <1>3, <2>14, <3>1 DEF Stored
    <3>3. ASSUME NEW x \in Nat PROVE Flow(x, Held', unread') = Flow(x, Held, unread)
      BY ONLY <2>21, <3>2, LeafFlow
    <3> QED BY <3>3
  <2>16. TreeTypes'
    <3>1. finished' \in BOOLEAN
      BY <1>1, <1>2, <2>1, <2>14 DEF TreeTypes
    <3>2. /\ fifosize' \in FifoSizes /\ input' \in Inputs /\ unread' \in [RunIds -> Seq(Nat)]
          /\ DOMAIN nodes' = Nodes /\ (\A i \in Nodes : Ring(nodes[i]))' /\ done' \in [Nodes -> BOOLEAN]
          /\ output' \in Seq(Nat) /\ running' \in BOOLEAN /\ turn' \in Tree
      BY <1>1, <1>4, <1>5, <1>6, <2>7, <2>8, <2>14 DEF TreeTypes
    <3> QED BY <3>1, <3>2 DEF TreeTypes, Nodes
  <2>17. finished' => \A i \in Nodes \ Leaves : i > turn' => done'[i]
    <3> SUFFICES ASSUME finished', NEW i \in Nodes \ Leaves, i > turn' PROVE done'[i]
      OBVIOUS
    <3>1. finished /\ i # t
      BY <1>2, <2>1
    <3>2. i > turn
      <4>1. i \in Int /\ t \in Int
        BY <1>2 DEF Nodes
      <4> QED BY <1>4, <3>1, <4>1 DEF t
    <3>3. done[i]
      BY <1>1, <3>1, <3>2 DEF Flags
    <3> QED BY <1>1, <2>6, <3>1, <3>3 DEF TreeTypes
  <2>18. \A x \in Nat : Flow(x, Held', unread') = SumOver(InRuns(x, input'), RunIds)
    BY <1>1, <1>4, <2>15
  <2> QED BY <2>12, <2>16, <2>17, <2>18 DEF TreeInv, Flags, Nodes
<1>8. CASE ~(~done[t] /\ nodes[t].count < readthreshold)
  <2>1. nodes' = nodes /\ unread' = unread /\ done' = done /\ finished' = finished
    BY <1>8 DEF ReadLeaf
  <2>2. Held' = Held
    BY <1>4, <1>6, <2>1 DEF Held
  <2>3. TreeTypes'
    BY <1>1, <1>4, <1>5, <1>6, <2>1 DEF TreeTypes, Nodes
  <2>4. finished' => \A i \in Nodes \ Leaves : i > turn' => done'[i]
    <3> SUFFICES ASSUME finished', NEW i \in Nodes \ Leaves, i > turn' PROVE done'[i]
      OBVIOUS
    <3>1. finished /\ i # t
      BY <1>2, <2>1
    <3>2. i > turn
      <4>1. i \in Int /\ t \in Int
        BY <1>2 DEF Nodes
      <4> QED BY <1>4, <3>1, <4>1
    <3> QED BY <1>1, <2>1, <3>1, <3>2 DEF Flags
  <2>5. \E lo2 : Marks(lo2, Held', unread', done')
    BY <1>1, <2>1, <2>2
  <2>6. \A x \in Nat : Flow(x, Held', unread') = SumOver(InRuns(x, input'), RunIds)
    BY <1>1, <1>4, <2>1, <2>2
  <2> QED BY <2>3, <2>4, <2>5, <2>6 DEF TreeInv, Flags, Nodes
<1> QED
  BY <1>7, <1>8

(* What a node or the root takes from the rings of its children is all that *)
(* changes in the tree.                                                     *)
ChildrenGive(t, r, l, a, b, s) ==
  /\ t \in Tree \ Leaves /\ r = 2 * t + 2 /\ l = 2 * t + 3
  /\ \A i \in Nodes : i # t /\ i # r /\ i # l => nodes'[i] = nodes[i]
  /\ Contents(nodes'[r]) = Skip(Held[r], a) /\ Contents(nodes'[l]) = Skip(Held[l], b)
  /\ t # -1 => Contents(nodes'[t]) = Held[t] \o s /\ output' = output
  /\ t = -1 => output' = Held[t] \o s

LEMMA HeldMoves ==
  ASSUME TreeTypes, fifosize' = fifosize, NEW t, NEW r, NEW l, NEW a, NEW b, NEW s, ChildrenGive(t, r, l, a, b, s)
  PROVE  Held' = [Held EXCEPT ![t] = Held[t] \o s, ![r] = Skip(Held[r], a), ![l] = Skip(Held[l], b)]
<1>0. /\ t \in Tree \ Leaves /\ r = 2 * t + 2 /\ l = 2 * t + 3
      /\ \A i \in Nodes : i # t /\ i # r /\ i # l => nodes'[i] = nodes[i]
      /\ Contents(nodes'[r]) = Skip(Held[r], a) /\ Contents(nodes'[l]) = Skip(Held[l], b)
      /\ t # -1 => Contents(nodes'[t]) = Held[t] \o s /\ output' = output
      /\ t = -1 => output' = Held[t] \o s
  BY DEF ChildrenGive
<1> USE <1>0
<1> DEFINE u == Held[t] \o s
           v == Skip(Held[r], a)
           w == Skip(Held[l], b)
<1>1. /\ Contents(nodes'[r]) = v /\ Contents(nodes'[l]) = w /\ (t = -1 => output' = u)
      /\ (t # -1 => Contents(nodes'[t]) = u /\ output' = output)
  OBVIOUS
<1>2. r \in Nodes /\ l \in Nodes /\ r \in Tree /\ l \in Tree /\ r # t /\ l # t /\ r # l /\ r # -1 /\ l # -1 /\ t \in Tree
  <2>1. Children(t) = {r, l}
    BY DEF Children
  <2>2. t \in Int
    BY TreeShape DEF Tree
  <2>3. r # l
    BY <2>2
  <2> QED BY <2>1, <2>3, TreeFacts
<1>3. /\ Held \in [Tree -> Seq(Nat)] /\ Held[-1] = output
      /\ \A i \in Nodes : Held[i] = Contents(nodes[i])
  BY HeldIs
<1>4. Held' = [i \in Tree |-> IF i = -1 THEN output' ELSE Contents(nodes'[i])]
  BY HeldNext
<1> HIDE DEF u, v, w
<1>5. ASSUME NEW i \in Tree
      PROVE  (IF i = -1 THEN output' ELSE Contents(nodes'[i]))
               = (IF i = l THEN w ELSE IF i = r THEN v ELSE IF i = t THEN u ELSE Held[i])
  <2>1. CASE i = t
    BY <1>1, <1>2, <2>1
  <2>2. CASE i = r \/ i = l
    BY <1>1, <1>2, <2>2
  <2>3. CASE i # t /\ i # r /\ i # l
    <3>1. CASE i = -1
      <4>1. output' = output
        BY <1>1, <2>3, <3>1
      <4> QED BY <1>3, <2>3, <3>1, <4>1
    <3>2. CASE i # -1
      <4>1. i \in Nodes
        BY <3>2, TreeFacts
      <4>2. nodes'[i] = nodes[i]
        BY <2>3, <4>1
      <4>3. Held[i] = Contents(nodes'[i])
        BY <1>3, <4>1, <4>2
      <4> QED BY ONLY <2>3, <3>2, <4>3
    <3> QED BY <3>1, <3>2
  <2> QED BY <2>1, <2>2, <2>3
<1>6. Held' = [i \in Tree |-> IF i = l THEN w ELSE IF i = r THEN v ELSE IF i = t THEN u ELSE Held[i]]
  BY <1>4, <1>5
<1>7. [Held EXCEPT ![t] = u, ![r] = v, ![l] = w]
        = [i \in Tree |-> IF i = l THEN w ELSE IF i = r THEN v ELSE IF i = t THEN u ELSE Held[i]]
  BY ONLY <1>2, <1>3
<1> QED
  BY <1>6, <1>7 DEF u, v, w

LEMMA InnerInv ==
  ASSUME TreeInv, fifosize' = fifosize, input' = input, unread' = unread,
         NEW t, NEW r, NEW l, NEW a, NEW b, NEW s,
         InnerTakes(Held, t, r, l, a, b, s, Held'), InnerDone(Held, done, t, r, l, s, Held', done'),
         TreeTypes', Flags'
  PROVE  TreeInv'
<1>1. /\ TreeTypes /\ \E lo : Marks(lo, Held, unread, done)
      /\ \A x \in Nat : Flow(x, Held, unread) = SumOver(InRuns(x, input), RunIds)
  BY DEF TreeInv
<1>2. PICK lo : Marks(lo, Held, unread, done)
  BY <1>1
<1>3. \E lo2 : Marks(lo2, Held', unread, done')
  BY ONLY <1>2, InnerTakes(Held, t, r, l, a, b, s, Held'), InnerDone(Held, done, t, r, l, s, Held', done'), InnerStep
<1>4. \E lo2 : Marks(lo2, Held', unread', done')
  BY <1>3
<1>5. PICK lo2 : Marks(lo2, Held', unread, done')
  BY <1>3
<1>6. Stored(Held, unread) /\ Stored(Held', unread)
  BY <1>2, <1>5 DEF Stored, Marks
<1>7. ASSUME NEW x \in Nat PROVE Flow(x, Held', unread) = Flow(x, Held, unread)
  BY ONLY <1>6, InnerTakes(Held, t, r, l, a, b, s, Held'), InnerFlow
<1>8. \A x \in Nat : Flow(x, Held', unread') = SumOver(InRuns(x, input'), RunIds)
  BY <1>1, <1>7
<1> QED
  BY <1>4, <1>8 DEF TreeInv

(* An inner node merges what its children have, or leaves it. *)
LEMMA MergeInnerInv ==
  ASSUME TreeInv, MergeInner
  PROVE  TreeInv'
<1> DEFINE t == turn
           r == 2 * t + 2
           l == r + 1
           children_done == EitherDone(r, l)
           wanted == /\ ~done[t] /\ nodes[t].count < fifosize
                     /\ children_done \/ nodes[t].count < readthreshold
           ready == children_done \/ (nodes[r].count >= readthreshold /\ nodes[l].count >= readthreshold)
           d == done[r] /\ done[l] /\ nodes'[r].count = 0 /\ nodes'[l].count = 0
<1>1. /\ TreeTypes /\ \E lo : Marks(lo, Held, unread, done)
      /\ \A x \in Nat : Flow(x, Held, unread) = SumOver(InRuns(x, input), RunIds)
      /\ Flags
  BY DEF TreeInv
<1>2. t \in Nodes /\ t \in Tree \ Leaves /\ t # -1 /\ t >= 0
  <2>1. t >= 0 /\ t \notin Leaves /\ t \in Tree
    BY <1>1 DEF MergeInner, TreeTypes
  <2> QED BY <2>1, TreeFacts
<1>3. r \in Nodes /\ l \in Nodes /\ r \in Tree /\ l \in Tree /\ r # t /\ l # t /\ r # l /\ r # -1 /\ l # -1 /\ l = 2 * t + 3
  <2>1. t \in Int
    BY <1>2 DEF Nodes
  <2>2. l = 2 * t + 3 /\ r # l
    BY <2>1
  <2>3. Children(t) = {r, l}
    BY <2>2 DEF Children
  <2> QED BY <1>2, <2>2, <2>3, TreeFacts
<1>4. /\ fifosize \in Nat \ {0} /\ Held \in [Tree -> Seq(Nat)] /\ Held[-1] = output
      /\ \A i \in Nodes : Held[i] = Contents(nodes[i]) /\ nodes[i].count = Len(Contents(nodes[i]))
  BY <1>1, HeldIs
<1>5. /\ turn' = t - 1 /\ fifosize' = fifosize /\ input' = input /\ unread' = unread
      /\ output' = output /\ running' = running
  BY DEF MergeInner
<1>6. turn' \in Tree
  <2>1. nfifos \in Nat
    BY TreeShape
  <2> QED BY <1>2, <1>5, <2>1 DEF Tree, Nodes
<1>7. /\ Held' = [i \in Tree |-> IF i = -1 THEN output' ELSE Contents(nodes'[i])]
      /\ (\A i \in Nodes : Ring(nodes'[i])) => (\A i \in Nodes : Ring(nodes[i]))'
  BY <1>5, HeldNext
<1>8. /\ wanted /\ ready => \E mg \in {merge_scalar_decomposed(nodes[t], nodes[r], nodes[l], done[r], done[l])} :
                  nodes' = [nodes EXCEPT ![t] = mg.node, ![r] = mg.right, ![l] = mg.left]
      /\ ~(wanted /\ ready) => nodes' = nodes
      /\ done' = IF wanted THEN [done EXCEPT ![t] = d] ELSE done
      /\ finished' = (finished /\ done'[t])
  BY DEF MergeInner, FinishedInner
<1>9. children_done <=> (done[r] \/ done[l])
  BY DEF EitherDone
<1> HIDE DEF r, l, t
<1>10. done \in [Nodes -> BOOLEAN] /\ finished \in BOOLEAN
  BY <1>1 DEF TreeTypes
<1>11. done' \in [Nodes -> BOOLEAN] /\ (\A i \in Nodes : i # t => done'[i] = done[i]) /\ finished' \in BOOLEAN
  <2>1. d \in BOOLEAN
    BY <1>3, <1>10
  <2> HIDE DEF d, wanted
  <2>2. done' \in [Nodes -> BOOLEAN] /\ (\A i \in Nodes : i # t => done'[i] = done[i])
    BY ONLY <1>2, <1>8, <1>10, <2>1
  <2>3. finished' \in BOOLEAN
    BY ONLY <1>2, <1>8, <1>10, <2>2
  <2> QED BY <2>2, <2>3
<1>12. Flags'
  <2>1. finished' => \A i \in Nodes \ Leaves : i > turn' => done'[i]
    <3> SUFFICES ASSUME finished', NEW i \in Nodes \ Leaves, i > turn' PROVE done'[i]
      OBVIOUS
    <3>1. finished /\ done'[t]
      BY ONLY <1>8, finished'
    <3>2. CASE i = t
      BY <3>1, <3>2
    <3>3. CASE i # t
      <4>1. i \in Int /\ t \in Int
        BY <1>2 DEF Nodes
      <4>2. i > turn
        BY ONLY <1>5, <3>3, <4>1, i > turn' DEF t
      <4>3. done[i]
        BY ONLY <1>1, <3>1, <4>2, i \in Nodes \ Leaves DEF Flags
      <4> QED BY <1>11, <3>3, <4>3
    <3> QED BY <3>2, <3>3
  <2> QED BY <2>1 DEF Flags, Nodes
<1>13. CASE wanted /\ ready
  <2>1. PICK mg \in {merge_scalar_decomposed(nodes[t], nodes[r], nodes[l], done[r], done[l])} :
          nodes' = [nodes EXCEPT ![t] = mg.node, ![r] = mg.right, ![l] = mg.left]
    BY <1>8, <1>13
  <2> DEFINE n == nodes[t]
             R == nodes[r]
             L == nodes[l]
             rd == done[r]
             ld == done[l]
  <2>2. Ring(n) /\ Ring(R) /\ Ring(L) /\ rd \in BOOLEAN /\ ld \in BOOLEAN
    BY <1>1, <1>2, <1>3, <1>10 DEF TreeTypes
  <2>3. Held[t] = Contents(n) /\ Held[r] = Contents(R) /\ Held[l] = Contents(L)
    BY <1>2, <1>3, <1>4
  <2>4. Rising(Contents(R)) /\ Rising(Contents(L))
    BY <1>1, <1>3, <2>3 DEF Marks
  <2>5. mg = merge_scalar_decomposed(n, R, L, rd, ld)
    BY <2>1
  <2> HIDE DEF n, R, L, rd, ld
  <2>6. \E a, b, s : MergesInto(merge_scalar_decomposed(n, R, L, rd, ld), n, R, L, rd, ld, a, b, s)
    BY ONLY <1>4, <2>2, <2>4, MergeIs
  <2>7. PICK a, b, s : MergesInto(mg, n, R, L, rd, ld, a, b, s)
    BY <2>5, <2>6
  <2>8. /\ Split(Held[r], Held[l], a, b, s)
        /\ Ring(mg.node)  /\ Contents(mg.node)  = Held[t] \o s
        /\ Ring(mg.right) /\ Contents(mg.right) = Skip(Held[r], a)
        /\ Ring(mg.left)  /\ Contents(mg.left)  = Skip(Held[l], b)
        /\ (~done[r] => Within(s, Held[r])) /\ (~done[l] => Within(s, Held[l]))
    BY <2>3, <2>7 DEF MergesInto, rd, ld
  <2>9. /\ DOMAIN nodes' = Nodes /\ nodes'[t] = mg.node /\ nodes'[r] = mg.right /\ nodes'[l] = mg.left
        /\ \A i \in Nodes : i # t /\ i # r /\ i # l => nodes'[i] = nodes[i]
    <3>1. DOMAIN nodes = Nodes
      BY <1>1 DEF TreeTypes
    <3> QED BY ONLY <1>2, <1>3, <2>1, <3>1
  <2>10. \A i \in Nodes : Ring(nodes'[i])
    BY <1>1, <2>8, <2>9 DEF TreeTypes
  <2>11. TreeTypes'
    <3>1. /\ fifosize' \in FifoSizes /\ input' \in Inputs /\ unread' \in [RunIds -> Seq(Nat)]
          /\ DOMAIN nodes' = Nodes /\ (\A i \in Nodes : Ring(nodes[i]))' /\ done' \in [Nodes -> BOOLEAN]
          /\ output' \in Seq(Nat) /\ finished' \in BOOLEAN /\ running' \in BOOLEAN /\ turn' \in Tree
      BY <1>1, <1>5, <1>6, <1>7, <1>11, <2>9, <2>10 DEF TreeTypes
    <3> QED BY <3>1 DEF TreeTypes, Nodes
  <2>12. /\ Contents(nodes'[r]) = Skip(Held[r], a) /\ Contents(nodes'[l]) = Skip(Held[l], b)
         /\ Contents(nodes'[t]) = Held[t] \o s
    BY <2>8, <2>9
  <2>13. r = 2 * t + 2 /\ l = 2 * t + 3
    BY <1>3 DEF r
  <2>14. Held' = [Held EXCEPT ![t] = Held[t] \o s, ![r] = Skip(Held[r], a), ![l] = Skip(Held[l], b)]
    <3>1. ChildrenGive(t, r, l, a, b, s)
      BY <1>2, <1>5, <2>9, <2>12, <2>13 DEF ChildrenGive
    <3> QED BY ONLY <1>1, <1>5, <3>1, HeldMoves
  <2>15. InnerTakes(Held, t, r, l, a, b, s, Held')
    BY <1>2, <2>8, <2>13, <2>14 DEF InnerTakes
  <2>16. done'[t] => done[r] /\ done[l] /\ Held'[r] = <<>> /\ Held'[l] = <<>>
    <3> SUFFICES ASSUME done'[t] PROVE done[r] /\ done[l] /\ Held'[r] = <<>> /\ Held'[l] = <<>>
      OBVIOUS
    <3>1. d
      <4>1. done' = [done EXCEPT ![t] = d]
        BY <1>8, <1>13
      <4> HIDE DEF d
      <4> QED BY ONLY <1>2, <1>10, <4>1, done'[t]
    <3>2. Held'[r] = Contents(nodes'[r]) /\ Held'[l] = Contents(nodes'[l])
      BY <1>3, <1>7
    <3>3. Contents(nodes'[r]) = <<>> /\ Contents(nodes'[l]) = <<>>
      BY <3>1 DEF Contents
    <3> QED BY <3>1, <3>2, <3>3
  <2>17. InnerDone(Held, done, t, r, l, s, Held', done')
    <3>1. ~done[t]
      BY <1>13
    <3> QED BY <1>11, <2>8, <2>16, <3>1 DEF InnerDone
  <2> QED BY ONLY TreeInv, <1>5, <1>12, <2>11, <2>15, <2>17, InnerInv
<1>14. CASE ~(wanted /\ ready)
  <2>1. nodes' = nodes
    BY <1>8, <1>14
  <2>2. done' = done
    <3>1. CASE ~wanted
      BY <1>8, <3>1
    <3>2. CASE wanted
      <4>1. ~children_done /\ ~done[t]
        BY <1>14, <3>2
      <4>2. ~d
        BY <1>9, <4>1
      <4>3. done' = [done EXCEPT ![t] = d]
        BY <1>8, <3>2
      <4>4. d = FALSE /\ done[t] = FALSE
        BY <1>2, <1>3, <1>10, <4>1, <4>2
      <4> HIDE DEF d
      <4> QED BY ONLY <1>2, <1>10, <4>3, <4>4
    <3> QED BY <3>1, <3>2
  <2>3. Held' = Held
    BY <1>5, <1>7, <2>1 DEF Held
  <2>4. TreeTypes'
    <3>1. (\A i \in Nodes : Ring(nodes[i]))' /\ DOMAIN nodes' = Nodes
      BY <1>1, <1>7, <2>1 DEF TreeTypes
    <3> QED BY <1>1, <1>5, <1>6, <1>11, <3>1 DEF TreeTypes, Nodes
  <2>5. \E lo2 : Marks(lo2, Held', unread', done')
    BY <1>1, <1>5, <2>2, <2>3
  <2>6. \A x \in Nat : Flow(x, Held', unread') = SumOver(InRuns(x, input'), RunIds)
    BY <1>1, <1>5, <2>3
  <2> QED BY <1>12, <2>4, <2>5, <2>6 DEF TreeInv
<1> QED
  BY <1>13, <1>14

(* The root stores what it takes of nodes 0 and 1. *)
StoreFacts(st) ==
  /\ Split(Held[0], Held[1], st.a, st.b, st.out)
  /\ (~done[0] => Within(st.out, Held[0])) /\ (~done[1] => Within(st.out, Held[1]))
  /\ (done[0] /\ done[1] => st.a = Len(Held[0]) /\ st.b = Len(Held[1]))
  /\ nodes' = [nodes EXCEPT ![0] = Take(@, st.a), ![1] = Take(@, st.b)]
  /\ output' = output \o st.out
  /\ Held' = [Held EXCEPT ![-1] = Held[-1] \o st.out, ![0] = Skip(Held[0], st.a), ![1] = Skip(Held[1], st.b)]
  /\ DOMAIN nodes' = Nodes /\ (\A i \in Nodes : Ring(nodes'[i])) /\ output' \in Seq(Nat)

LEMMA StoreTakes ==
  ASSUME TreeInv, StoreRoot
  PROVE  \E st : StoreFacts(st)
<1>1. /\ TreeTypes /\ \E lo : Marks(lo, Held, unread, done)
  BY DEF TreeInv
<1>2. 0 \in Nodes /\ 1 \in Nodes /\ -1 \in Tree \ Leaves /\ -1 \in Tree /\ 0 \in Tree /\ 1 \in Tree
  BY TreeShape, TreeFacts
<1>3. /\ fifosize \in Nat \ {0} /\ Held \in [Tree -> Seq(Nat)] /\ Held[-1] = output
      /\ \A i \in Nodes : Held[i] = Contents(nodes[i]) /\ nodes[i].count = Len(Contents(nodes[i]))
  BY <1>1, HeldIs
<1>4. PICK st \in {mergestore_scalar_decomposed(nodes[0], nodes[1], done[0], done[1])} :
        /\ nodes' = [nodes EXCEPT ![0] = Take(@, st.a), ![1] = Take(@, st.b)]
        /\ output' = output \o st.out
  BY DEF StoreRoot
<1>5. fifosize' = fifosize
  BY DEF StoreRoot
<1> DEFINE R == nodes[0]
           L == nodes[1]
           rd == done[0]
           ld == done[1]
<1>6. Ring(R) /\ Ring(L) /\ rd \in BOOLEAN /\ ld \in BOOLEAN
  BY <1>1, <1>2 DEF TreeTypes
<1>7. Held[0] = Contents(R) /\ Held[1] = Contents(L) /\ R.count = Len(Contents(R)) /\ L.count = Len(Contents(L))
  BY <1>2, <1>3
<1>8. Rising(Contents(R)) /\ Rising(Contents(L))
  BY <1>1, <1>2, <1>7 DEF Marks
<1>9. st = mergestore_scalar_decomposed(R, L, rd, ld)
  BY <1>4
<1>10. nodes' = [nodes EXCEPT ![0] = Take(R, st.a), ![1] = Take(L, st.b)]
  <2>1. [nodes EXCEPT ![0] = Take(@, st.a), ![1] = Take(@, st.b)]
          = [nodes EXCEPT ![0] = Take(nodes[0], st.a), ![1] = Take(nodes[1], st.b)]
    OBVIOUS
  <2> QED BY <1>4, <2>1
<1> HIDE DEF R, L, rd, ld
<1>11. StoresOf(st, R, L, rd, ld)
  <2>1. StoresOf(mergestore_scalar_decomposed(R, L, rd, ld), R, L, rd, ld)
    BY ONLY <1>3, <1>6, <1>8, StoreIs
  <2> QED BY <1>9, <2>1
<1>12. /\ Split(Held[0], Held[1], st.a, st.b, st.out)
       /\ (~done[0] => Within(st.out, Held[0])) /\ (~done[1] => Within(st.out, Held[1]))
       /\ (done[0] /\ done[1] => st.a = Len(Held[0]) /\ st.b = Len(Held[1]))
  BY <1>7, <1>11, Zenon DEF StoresOf, rd, ld
<1>13. st.a \in 0 .. R.count /\ st.b \in 0 .. L.count
  BY <1>7, <1>12 DEF Split
<1>14. /\ Ring(Take(R, st.a)) /\ Contents(Take(R, st.a)) = Skip(Contents(R), st.a)
       /\ Ring(Take(L, st.b)) /\ Contents(Take(L, st.b)) = Skip(Contents(L), st.b)
  <2>1. Ring(Take(R, st.a)) /\ Contents(Take(R, st.a)) = Skip(Contents(R), st.a)
    BY ONLY <1>3, <1>6, <1>13, TakeRing
  <2>2. Ring(Take(L, st.b)) /\ Contents(Take(L, st.b)) = Skip(Contents(L), st.b)
    BY ONLY <1>3, <1>6, <1>13, TakeRing
  <2> QED BY <2>1, <2>2
<1> DEFINE R2 == Take(R, st.a)
           L2 == Take(L, st.b)
<1>15. nodes' = [nodes EXCEPT ![0] = R2, ![1] = L2]
  BY <1>10
<1>16. Ring(R2) /\ Ring(L2) /\ Contents(R2) = Skip(Held[0], st.a) /\ Contents(L2) = Skip(Held[1], st.b)
  BY <1>7, <1>14
<1> HIDE DEF R2, L2
<1>17. /\ DOMAIN nodes' = Nodes /\ nodes'[0] = R2 /\ nodes'[1] = L2
       /\ \A i \in Nodes : i # 0 /\ i # 1 => nodes'[i] = nodes[i]
  <2>1. DOMAIN nodes = Nodes
    BY <1>1 DEF TreeTypes
  <2> QED BY ONLY <1>2, <1>15, <2>1
<1>18. \A i \in Nodes : Ring(nodes'[i])
  BY <1>1, <1>16, <1>17 DEF TreeTypes
<1>19. ChildrenGive(-1, 0, 1, st.a, st.b, st.out)
  <2>1. Contents(nodes'[0]) = Skip(Held[0], st.a) /\ Contents(nodes'[1]) = Skip(Held[1], st.b)
    BY <1>16, <1>17
  <2>2. output' = Held[-1] \o st.out
    BY <1>3, <1>4
  <2> QED BY <1>2, <1>17, <2>1, <2>2 DEF ChildrenGive
<1>20. Held' = [Held EXCEPT ![-1] = Held[-1] \o st.out, ![0] = Skip(Held[0], st.a), ![1] = Skip(Held[1], st.b)]
  <2> DEFINE t == -1
             r == 0
             l == 1
             a == st.a
             b == st.b
             s == st.out
  <2>1. ChildrenGive(t, r, l, a, b, s)
    BY <1>19
  <2> HIDE DEF t, r, l, a, b, s
  <2>2. Held' = [Held EXCEPT ![t] = Held[t] \o s, ![r] = Skip(Held[r], a), ![l] = Skip(Held[l], b)]
    BY ONLY <1>1, <1>5, <2>1, HeldMoves
  <2> QED BY <2>2 DEF t, r, l, a, b, s
<1>21. output' \in Seq(Nat)
  <2>1. output \in Seq(Nat) /\ st.out \in Seq(Nat)
    BY <1>1, <1>12 DEF TreeTypes, Split
  <2> QED BY <1>4, <2>1
<1> QED
  BY <1>4, <1>12, <1>17, <1>18, <1>20, <1>21 DEF StoreFacts

LEMMA StoreRootInv ==
  ASSUME TreeInv, StoreRoot
  PROVE  TreeInv'
<1>1. TreeTypes
  BY DEF TreeInv
<1>2. 0 \in Nodes /\ 1 \in Nodes /\ -1 \in Tree \ Leaves /\ -1 \notin Nodes
  BY TreeShape, TreeFacts
<1>3. PICK st : StoreFacts(st)
  BY StoreTakes
<1>4. /\ fifosize' = fifosize /\ input' = input /\ unread' = unread /\ done' = done
      /\ running' = ~finished /\ finished' = TRUE /\ turn' = nfifos - 1
  BY DEF StoreRoot
<1>5. (\A i \in Nodes : Ring(nodes'[i])) => (\A i \in Nodes : Ring(nodes[i]))'
  BY <1>4, HeldNext
<1>6. TreeTypes'
  <2>1. /\ DOMAIN nodes' = Nodes /\ (\A i \in Nodes : Ring(nodes[i]))' /\ output' \in Seq(Nat)
    BY <1>3, <1>5 DEF StoreFacts
  <2>2. turn' \in Tree
    BY <1>4, TreeShape DEF Tree
  <2>3. done' \in [Nodes -> BOOLEAN] /\ finished' \in BOOLEAN /\ running' \in BOOLEAN
    BY <1>1, <1>4 DEF TreeTypes
  <2> QED BY <1>1, <1>4, <2>1, <2>2, <2>3 DEF TreeTypes, Nodes
<1>7. Flags'
  <2>1. nfifos \in Nat
    BY TreeShape
  <2>2. \A i \in Nodes : ~(i > turn')
    BY <1>4, <2>1 DEF Nodes
  <2> QED BY <2>2 DEF Flags, Nodes
<1>8. InnerTakes(Held, -1, 0, 1, st.a, st.b, st.out, Held')
  BY <1>2, <1>3 DEF InnerTakes, StoreFacts
<1>9. InnerDone(Held, done, -1, 0, 1, st.out, Held', done')
  BY <1>1, <1>2, <1>3, <1>4 DEF InnerDone, StoreFacts, TreeTypes
<1> QED
  BY ONLY TreeInv, <1>4, <1>6, <1>7, <1>8, <1>9, InnerInv

LEMMA TreeSteps == TreeInv /\ [TreeNext]_treeVars => TreeInv'
<1> SUFFICES ASSUME TreeInv, [TreeNext]_treeVars PROVE TreeInv'
  OBVIOUS
<1>1. CASE ReadLeaf
  BY <1>1, ReadLeafInv
<1>2. CASE MergeInner
  BY <1>2, MergeInnerInv
<1>3. CASE StoreRoot
  BY <1>3, StoreRootInv
<1>4. CASE UNCHANGED treeVars
  <2>1. /\ fifosize' = fifosize /\ input' = input /\ unread' = unread /\ nodes' = nodes /\ done' = done
        /\ output' = output /\ finished' = finished /\ turn' = turn /\ running' = running
    BY <1>4 DEF treeVars
  <2>2. Held' = Held
    BY <2>1 DEF Held, Contents, UsedSlots
  <2>3. TreeTypes'
    BY <2>1 DEF TreeInv, TreeTypes, Ring, Wrap, Nodes
  <2>4. Flags'
    BY <2>1 DEF TreeInv, Flags
  <2>5. \E lo2 : Marks(lo2, Held', unread', done')
    BY <2>1, <2>2 DEF TreeInv
  <2>6. \A x \in Nat : Flow(x, Held', unread') = SumOver(InRuns(x, input'), RunIds)
    BY <2>1, <2>2 DEF TreeInv
  <2> QED BY <2>3, <2>4, <2>5, <2>6 DEF TreeInv
<1> QED
  BY <1>1, <1>2, <1>3, <1>4 DEF TreeNext, Stopped

------------------------------------------------------------------------------
(* At every turn of the loop of scalar_multiway_merge there are marks that  *)
(* separate what went through each node from what is behind it, every key   *)
(* of the input is as often in the runs, the rings and the output together  *)
(* as it was in the input, and a node that is done has nothing behind it.   *)
THEOREM TreeInvariant == TreeSpec => []TreeInv
<1>1. TreeInit => TreeInv
  BY TreeStarts
<1>2. TreeInv /\ [TreeNext]_treeVars => TreeInv'
  BY TreeSteps
<1> QED
  BY <1>1, <1>2, PTL DEF TreeSpec

(* count is the number of tuples between head and tail of every ring,       *)
(* whether merge_scalar_decomposed, direct_copy or the reading of a leaf    *)
(* filled it.                                                               *)
THEOREM RingsKeepCount == TreeSpec => []RingsAgree
<1>1. TreeInv => RingsAgree
  <2> SUFFICES ASSUME TreeInv, NEW i \in DOMAIN nodes PROVE nodes[i].count = Len(Contents(nodes[i]))
    BY DEF RingsAgree
  <2>1. TreeTypes
    BY DEF TreeInv
  <2>2. i \in Nodes
    BY <2>1 DEF TreeTypes
  <2> QED BY <2>1, <2>2, HeldIs
<1> QED
  BY <1>1, TreeInvariant, PTL

LEMMA BelowMark ==
  ASSUME NEW s \in Seq(Nat), NEW t \in Seq(Nat), NEW x \in Nat, AtMost(s, x), AtLeast(x, t)
  PROVE  Below(s, t)
<1> SUFFICES ASSUME s # <<>>, t # <<>> PROVE s[Len(s)] <= t[1]
  BY DEF Below
<1>1. Len(s) \in 1 .. Len(s) /\ 1 \in 1 .. Len(t)
  OBVIOUS
<1>2. s[Len(s)] <= x /\ x <= t[1]
  BY <1>1 DEF AtMost, AtLeast
<1>3. s[Len(s)] \in Nat /\ t[1] \in Nat
  BY <1>1
<1> QED
  BY <1>2, <1>3

(* What went through a node is sorted, and nothing behind it is smaller: a  *)
(* side that is empty only for the moment is never overtaken, because the   *)
(* rest of one side passes only when the other is done and used up          *)
(* (merge_scalar_decomposed, mergestore_scalar_decomposed).                 *)
THEOREM TreeKeepsOrder == TreeSpec => []TreeInOrder
<1>1. TreeInv => TreeInOrder
  <2> SUFFICES ASSUME TreeInv PROVE TreeInOrder
    OBVIOUS
  <2>1. TreeTypes
    BY DEF TreeInv
  <2>2. PICK lo : Marks(lo, Held, unread, done)
    BY DEF TreeInv
  <2>3. /\ lo \in [Tree -> Nat] /\ Held \in [Tree -> Seq(Nat)] /\ unread \in [RunIds -> Seq(Nat)]
        /\ \A i \in Tree : Rising(Held[i]) /\ AtMost(Held[i], lo[i])
        /\ \A i \in Leaves : AtLeast(lo[i], unread[RunA(i)]) /\ AtLeast(lo[i], unread[RunB(i)])
        /\ \A i \in Tree \ Leaves : Behind(lo, Held, done, i)
    BY <2>2 DEF Marks
  <2>4. /\ Held[-1] = output /\ \A i \in Nodes : Held[i] = Contents(nodes[i])
    BY <2>1, HeldIs
  <2>5. ASSUME NEW i \in Tree PROVE Ordered(Held[i])
    <3>1. Held[i] \in Seq(Nat) /\ Rising(Held[i])
      BY <2>3
    <3> QED BY <3>1, OrderedRising
  <2>6. ASSUME NEW i \in Tree \ Leaves, NEW j \in Children(i) PROVE Below(Held[i], Held[j])
    <3>1. j \in Tree /\ i \in Tree
      BY TreeFacts
    <3>2. Held[i] \in Seq(Nat) /\ Held[j] \in Seq(Nat) /\ lo[i] \in Nat /\ AtMost(Held[i], lo[i])
      BY <2>3, <3>1
    <3>3. AtLeast(lo[i], Held[j])
      BY <2>3 DEF Behind
    <3> QED BY ONLY <3>2, <3>3, BelowMark
  <2>7. ASSUME NEW i \in Leaves
        PROVE  Below(Held[i], unread[RunA(i)]) /\ Below(Held[i], unread[RunB(i)])
    <3>1. i \in Tree /\ RunA(i) \in RunIds /\ RunB(i) \in RunIds
      BY TreeFacts
    <3>2. /\ Held[i] \in Seq(Nat) /\ unread[RunA(i)] \in Seq(Nat) /\ unread[RunB(i)] \in Seq(Nat)
          /\ lo[i] \in Nat /\ AtMost(Held[i], lo[i])
      BY <2>3, <3>1
    <3>3. AtLeast(lo[i], unread[RunA(i)]) /\ AtLeast(lo[i], unread[RunB(i)])
      BY <2>3
    <3> QED BY ONLY <3>2, <3>3, BelowMark
  <2>8. -1 \in Tree \ Leaves /\ -1 \in Tree /\ 0 \in Nodes /\ 1 \in Nodes /\ Children(-1) = {0, 1}
    BY TreeShape, TreeFacts DEF Children
  <2>9. Ordered(output) /\ \A i \in {0, 1} : Below(output, Contents(nodes[i]))
    <3>1. Ordered(output)
      BY <2>4, <2>5, <2>8
    <3>2. ASSUME NEW i \in {0, 1} PROVE Below(output, Contents(nodes[i]))
      <4>1. Held[i] = Contents(nodes[i])
        BY <2>4, <2>8
      <4>2. Below(Held[-1], Held[i])
        BY <2>6, <2>8
      <4> QED BY <2>4, <4>1, <4>2
    <3> QED BY <3>1, <3>2
  <2>10. ASSUME NEW i \in DOMAIN nodes
         PROVE  LET c == Contents(nodes[i]) IN
                /\ Ordered(c)
                /\ IF i \in Leaves
                   THEN Below(c, unread[2 * (nfifos - 1 - i)]) /\ Below(c, unread[2 * (nfifos - 1 - i) + 1])
                   ELSE Below(c, Contents(nodes[2 * i + 2])) /\ Below(c, Contents(nodes[2 * i + 3]))
    <3> DEFINE c == Contents(nodes[i])
    <3>1. i \in Nodes /\ i \in Tree
      BY <2>1, TreeFacts DEF TreeTypes
    <3>2. Held[i] = c
      BY <2>4, <3>1
    <3> HIDE DEF c
    <3>3. Ordered(c)
      BY <2>5, <3>1, <3>2
    <3>4. CASE i \in Leaves
      <4>1. Below(c, unread[RunA(i)]) /\ Below(c, unread[RunB(i)])
        BY <2>7, <3>2, <3>4
      <4>2. Below(c, unread[2 * (nfifos - 1 - i)]) /\ Below(c, unread[2 * (nfifos - 1 - i) + 1])
        BY <4>1 DEF RunA, RunB
      <4> QED BY <3>3, <3>4, <4>2 DEF c
    <3>5. CASE i \notin Leaves
      <4> DEFINE r == 2 * i + 2
                 l == 2 * i + 3
      <4>1. r \in Children(i) /\ l \in Children(i)
        BY DEF Children
      <4>2. r \in Nodes /\ l \in Nodes
        BY <3>1, <3>5, <4>1, TreeFacts
      <4> HIDE DEF r, l
      <4>3. Below(c, Held[r]) /\ Below(c, Held[l])
        BY <2>6, <3>1, <3>2, <3>5, <4>1
      <4>4. Below(c, Contents(nodes[r])) /\ Below(c, Contents(nodes[l]))
        BY <2>4, <4>2, <4>3
      <4>5. Below(c, Contents(nodes[2 * i + 2])) /\ Below(c, Contents(nodes[2 * i + 3]))
        BY <4>4 DEF r, l
      <4> QED BY <3>3, <3>5, <4>5 DEF c
    <3> QED BY <3>4, <3>5
  <2> QED BY <2>9, <2>10 DEF TreeInOrder
<1> QED
  BY <1>1, TreeInvariant, PTL

(* When the loop has ended nothing is left in the tree. *)
Drained == ~running => (\A i \in Nodes : Held[i] = <<>>) /\ (\A p \in RunIds : unread[p] = <<>>)

(* Every node but 0 and 1 is the child of an inner node, every run is one   *)
(* of a leaf's.                                                             *)
LEMMA Parents ==
  /\ \A j \in Nodes : j # 0 /\ j # 1 => \E i \in Nodes \ Leaves : j \in Children(i)
  /\ \A p \in RunIds : \E i \in Leaves : p = RunA(i) \/ p = RunB(i)
<1>1. PICK h \in Nat : h >= 2 /\ nparts = 2 * h /\ nfifos = 2 * h - 2 /\ Leaves = h - 2 .. 2 * h - 3
  BY TreeSize
<1>2. ASSUME NEW j \in Nodes, j # 0, j # 1 PROVE \E i \in Nodes \ Leaves : j \in Children(i)
  <2>1. j \in Nat /\ j >= 2 /\ j <= 2 * h - 3
    BY <1>1, <1>2 DEF Nodes
  <2>2. PICK i \in Nat : j = 2 * i + 2 \/ j = 2 * i + 3
    <3>1. (j - 2) \div 2 \in Nat /\ (j - 2 = 2 * ((j - 2) \div 2) \/ j - 2 = 2 * ((j - 2) \div 2) + 1)
      BY <2>1
    <3> QED BY <2>1, <3>1
  <2>3. i \in Nodes \ Leaves /\ j \in Children(i)
    BY <1>1, <2>1, <2>2 DEF Nodes, Children
  <2> QED BY <2>3
<1>3. ASSUME NEW p \in RunIds PROVE \E i \in Leaves : p = RunA(i) \/ p = RunB(i)
  <2>1. p \in Nat /\ p <= 2 * h - 1
    BY <1>1 DEF RunIds
  <2>2. PICK k \in Nat : p = 2 * k \/ p = 2 * k + 1
    <3>1. p \div 2 \in Nat /\ (p = 2 * (p \div 2) \/ p = 2 * (p \div 2) + 1)
      BY <2>1
    <3> QED BY <3>1
  <2>3. 2 * h - 3 - k \in Leaves /\ RunA(2 * h - 3 - k) = 2 * k /\ RunB(2 * h - 3 - k) = 2 * k + 1
    BY <1>1, <2>1, <2>2 DEF RunA, RunB
  <2> QED BY <2>2, <2>3
<1> QED
  BY <1>2, <1>3

LEMMA LastStore ==
  ASSUME nparts # 4, TreeInv, StoreRoot, finished
  PROVE  (\A i \in Nodes : Held'[i] = <<>>) /\ (\A p \in RunIds : unread'[p] = <<>>)
<1>1. TreeTypes /\ Flags
  BY DEF TreeInv
<1>2. PICK lo : Marks(lo, Held, unread, done)
  BY DEF TreeInv
<1>3. turn = -1 /\ unread' = unread
  BY DEF StoreRoot
<1>4. \A i \in Nodes \ Leaves : done[i] /\ Emptied(Held, done, i)
  <2> SUFFICES ASSUME NEW i \in Nodes \ Leaves PROVE done[i] /\ Emptied(Held, done, i)
    OBVIOUS
  <2>1. i > turn
    BY <1>3 DEF Nodes
  <2>2. done[i]
    BY <1>1, <2>1 DEF Flags
  <2> QED BY <1>2, <2>2 DEF Marks
<1>5. \A j \in Nodes : j # 0 /\ j # 1 => done[j] /\ Held[j] = <<>>
  BY <1>4, Parents DEF Emptied
<1>6. 0 \in Nodes \ Leaves /\ 1 \in Nodes \ Leaves
  <2>1. PICK h \in Nat : h >= 2 /\ nparts = 2 * h /\ nfifos = 2 * h - 2 /\ Leaves = h - 2 .. 2 * h - 3
    BY TreeSize
  <2>2. h # 3
    BY <2>1, TreeAssumption
  <2>3. h >= 4
    BY <2>1, <2>2
  <2> QED BY <2>1, <2>3 DEF Nodes
<1>7. PICK st : StoreFacts(st)
  BY StoreTakes
<1>8. st.a = Len(Held[0]) /\ st.b = Len(Held[1])
  BY <1>4, <1>6, <1>7 DEF StoreFacts
<1>9. Held \in [Tree -> Seq(Nat)] /\ 0 \in Tree /\ 1 \in Tree /\ -1 \in Tree /\ \A i \in Nodes : i \in Tree /\ i # -1
  BY <1>1, <1>6, HeldIs, TreeFacts
<1>10. Skip(Held[0], Len(Held[0])) = <<>> /\ Skip(Held[1], Len(Held[1])) = <<>>
  <2>1. Held[0] \in Seq(Nat) /\ Held[1] \in Seq(Nat)
    BY <1>9
  <2> QED BY <2>1, SkipEnds
<1>11. Held' = [Held EXCEPT ![-1] = Held[-1] \o st.out, ![0] = Skip(Held[0], st.a), ![1] = Skip(Held[1], st.b)]
  BY <1>7 DEF StoreFacts
<1>12. ASSUME NEW i \in Nodes PROVE Held'[i] = <<>>
  <2>1. CASE i = 0 \/ i = 1
    BY <1>8, <1>9, <1>10, <1>11, <2>1
  <2>2. CASE i # 0 /\ i # 1
    BY <1>5, <1>9, <1>11, <2>2
  <2> QED BY <2>1, <2>2
<1>13. ASSUME NEW p \in RunIds PROVE unread'[p] = <<>>
  <2>1. PICK i \in Leaves : p = RunA(i) \/ p = RunB(i)
    BY Parents
  <2>2. i \in Nodes /\ i # 0 /\ i # 1
    BY <1>6, TreeFacts
  <2>3. done[i]
    BY <1>5, <2>2
  <2>4. unread[RunA(i)] = <<>> /\ unread[RunB(i)] = <<>>
    BY <1>2, <2>3 DEF Marks
  <2> QED BY <1>3, <2>1, <2>4
<1> QED
  BY <1>12, <1>13

LEMMA AllCopiesIs ==
  ASSUME NEW x, NEW rs, NEW K, [p \in DOMAIN rs |-> Copies(x, rs[p])] = K
  PROVE  AllCopies(x, rs) = SumOver(K, DOMAIN rs)
<1> DEFINE L == [p \in DOMAIN rs |-> Copies(x, rs[p])]
           D == DOMAIN L
<1>1. AllCopies(x, rs) = (CHOOSE it : Sums(it, L, D))[D]
  BY DEF AllCopies, FoldFunction, FoldFunctionOnSet, MapThenFoldSet, Sums
<1>2. L = K /\ D = DOMAIN rs
  OBVIOUS
<1> HIDE DEF L, D
<1>3. SumOver(L, D) = (CHOOSE it : Sums(it, L, D))[D]
  BY SumOverDef
<1> QED
  BY <1>1, <1>2, <1>3

LEMMA DrainedSteps ==
  ASSUME nparts # 4
  PROVE  TreeInv /\ Drained /\ [TreeNext]_treeVars => Drained'
<1> SUFFICES ASSUME TreeInv, Drained, [TreeNext]_treeVars PROVE Drained'
  OBVIOUS
<1>1. CASE ReadLeaf \/ MergeInner
  <2>1. running /\ running' = running
    BY <1>1 DEF ReadLeaf, MergeInner
  <2>2. running'
    BY <2>1
  <2> QED BY <2>2 DEF Drained
<1>2. CASE StoreRoot
  <2>1. ~running' => finished
    BY <1>2 DEF StoreRoot, TreeInv, TreeTypes
  <2>2. finished => (\A i \in Nodes : Held'[i] = <<>>) /\ (\A p \in RunIds : unread'[p] = <<>>)
    BY <1>2, LastStore
  <2>3. ~running' => (\A i \in Nodes : Held'[i] = <<>>) /\ (\A p \in RunIds : unread'[p] = <<>>)
    BY <2>1, <2>2
  <2> QED BY <2>3 DEF Drained, Nodes, RunIds
<1>3. CASE UNCHANGED treeVars
  <2>1. /\ fifosize' = fifosize /\ unread' = unread /\ nodes' = nodes /\ output' = output /\ running' = running
    BY <1>3 DEF treeVars
  <2>2. Held' = Held
    BY <2>1 DEF Held, Contents, UsedSlots
  <2>3. ~running' => (\A i \in Nodes : Held'[i] = <<>>) /\ (\A p \in RunIds : unread'[p] = <<>>)
    BY <2>1, <2>2 DEF Drained
  <2> QED BY <2>3 DEF Drained, Nodes, RunIds
<1> QED
  BY <1>1, <1>2, <1>3 DEF TreeNext, Stopped

(* With eight runs or more the output of the merge is the input, sorted,    *)
(* when the loop ends: finished stays set only if every inner node is done, *)
(* and they are the parents of all leaves.  With four runs there is no      *)
(* inner node, and the loop can end with tuples unread.                     *)
THEOREM MergeIsComplete ==
  ASSUME nparts # 4
  PROVE  TreeSpec => []MergedAll
<1>1. TreeInv /\ Drained => MergedAll
  <2> SUFFICES ASSUME TreeInv, Drained, ~running PROVE MergedAll
    BY DEF MergedAll
  <2>1. TreeTypes
    BY DEF TreeInv
  <2>2. (\A i \in Nodes : Held[i] = <<>>) /\ (\A p \in RunIds : unread[p] = <<>>)
    BY DEF Drained
  <2>3. PICK lo : Marks(lo, Held, unread, done)
    BY DEF TreeInv
  <2>4. /\ Held \in [Tree -> Seq(Nat)] /\ Held[-1] = output /\ -1 \in Tree
        /\ unread \in [RunIds -> Seq(Nat)] /\ output \in Seq(Nat)
    BY <2>1, HeldIs, TreeFacts DEF TreeTypes
  <2>5. input \in [RunIds -> Seq(Nat)] /\ DOMAIN input = RunIds
    BY <2>1, TreeAssumption DEF TreeTypes, RunIds
  <2>6. Ordered(output)
    <3>1. Rising(output)
      BY <2>3, <2>4 DEF Marks
    <3> QED BY <2>4, <3>1, OrderedRising
  <2>7. ASSUME NEW x \in Keys PROVE x \in Nat
    <3>1. PICK s \in Range(input) \cup {output} : x \in ToSet(s)
      BY DEF Keys
    <3>2. s \in Seq(Nat)
      BY <2>4, <2>5, <3>1 DEF Range
    <3> QED BY <3>1, <3>2 DEF ToSet
  <2>8. ASSUME NEW x \in Nat
        PROVE  Copies(x, output) = AllCopies(x, input)
    <3> DEFINE F == InTree(x, Held)
               G == [i \in Tree |-> 0]
               H == InRuns(x, unread)
               K == InRuns(x, input)
    <3>1. Flow(x, Held, unread) = SumOver(K, RunIds)
      BY DEF TreeInv
    <3>2. F \in [Tree -> Nat] /\ \A i \in Tree : F[i] = Copies(x, Held[i])
      BY ONLY <2>4, InTreeIs
    <3>3. \A i \in Tree : i # -1 => F[i] = 0
      <4> SUFFICES ASSUME NEW i \in Tree, i # -1 PROVE F[i] = 0
        OBVIOUS
      <4>1. Held[i] = <<>>
        BY <2>2, TreeFacts
      <4>2. Copies(x, <<>>) = 0
        BY CopiesEmpty
      <4> HIDE DEF F
      <4> QED BY <3>2, <4>1, <4>2
    <3>4. \A p \in RunIds : H[p] = 0
      BY <2>2, CopiesEmpty DEF InRuns
    <3>5. SumOver(H, RunIds) = 0
      <4> HIDE DEF H
      <4> QED BY ONLY <3>4, FiniteTree, SumZero
    <3>6. (\A i \in Tree : G[i] = 0) /\ (\A i \in Tree : F[i] \in Nat /\ G[i] \in Nat)
      BY <3>2
    <3>7. SumOver(G, Tree) = 0
      <4>1. \A i \in Tree : G[i] = 0
        OBVIOUS
      <4> HIDE DEF G
      <4> QED BY ONLY <4>1, FiniteTree, SumZero
    <3> HIDE DEF F, G, H, K
    <3>8. SumOver(F, Tree) + G[-1] = SumOver(G, Tree) + F[-1] /\ SumOver(F, Tree) \in Nat
      <4>1. \A i \in Tree : i # -1 => F[i] = G[i]
        BY <3>3, <3>6
      <4>2. \A u \in Tree : G[u] \in Nat /\ F[u] \in Nat
        BY <3>6
      <4> DEFINE D == Tree
                 z == -1
      <4>3. /\ IsFiniteSet(D) /\ z \in D /\ (\A u \in D : G[u] \in Nat /\ F[u] \in Nat)
            /\ \A u \in D : u # z => F[u] = G[u]
        BY <2>4, <4>1, <4>2, FiniteTree
      <4> HIDE DEF D, z
      <4>4. SumOver(F, D) + G[z] = SumOver(G, D) + F[z] /\ SumOver(F, D) \in Nat
        BY ONLY <4>3, SumPoint
      <4> QED BY <4>4 DEF D, z
    <3>9. SumOver(F, Tree) = F[-1] /\ F[-1] = Copies(x, output)
      <4>1. G[-1] = 0 /\ F[-1] \in Nat
        BY <2>4, <3>6
      <4>2. F[-1] = Copies(x, output)
        BY <2>4, <3>2
      <4> QED BY <3>7, <3>8, <4>1, <4>2
    <3>10. Flow(x, Held, unread) = SumOver(F, Tree) + SumOver(H, RunIds)
      BY DEF Flow, F, H
    <3>11. SumOver(F, Tree) = SumOver(K, RunIds)
      BY <3>1, <3>5, <3>8, <3>10
    <3>12. AllCopies(x, input) = SumOver(K, RunIds)
      <4>1. [p \in DOMAIN input |-> Copies(x, input[p])] = K /\ DOMAIN input = RunIds
        BY <2>5 DEF K, InRuns
      <4> QED BY <4>1, AllCopiesIs
    <3> QED BY <3>9, <3>11, <3>12
  <2> QED BY <2>6, <2>7, <2>8 DEF MergedAll
<1>2. TreeInit => Drained
  BY DEF TreeInit, Drained
<1>3. TreeInv /\ Drained /\ [TreeNext]_treeVars => Drained'
  BY DrainedSteps
<1>4. TreeSpec => []Drained
  BY <1>2, <1>3, TreeInvariant, PTL DEF TreeSpec
<1> QED
  BY <1>1, <1>4, TreeInvariant, PTL
==============================================================================
