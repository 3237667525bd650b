--------------------------- MODULE RadixJoinProofs ---------------------------
(***************************************************************************)
(* The parallel radix join scatters without overwriting, its second pass    *)
(* stays within its pieces and the join is exact, for every number of       *)
(* threads, all relations and keys, all fan-outs, every padding and every   *)
(* interleaving.                                                            *)
(***************************************************************************)
EXTENDS RadixJoin, JoinBaseProofs

LEMMA Sizes ==
  /\ numR \in Nat /\ numS \in Nat /\ nthreads \in Nat \ {0} /\ 0 \in Threads
  /\ FANOUT_PASS1 \in Nat \ {0} /\ FANOUT_PASS2 \in Nat \ {0}
  /\ SMALL_PADDING_TUPLES \in Nat /\ PADDING_TUPLES \in Nat
<1>1. 2 ^ D1 \in Int /\ 2 ^ D2 \in Int
  BY RadixAssumption
<1>2. FANOUT_PASS1 \in Nat \ {0} /\ FANOUT_PASS2 \in Nat \ {0}
  BY <1>1, RadixAssumption DEF FANOUT_PASS1, FANOUT_PASS2
<1> QED
  BY <1>2, JoinAssumption, RadixAssumption DEF PADDING_TUPLES, Threads

(* The radix bits of a tuple's key *)
LEMMA ClusterType ==
  ASSUME NEW x \in Rels, NEW i \in Tuples(x)
  PROVE  Cluster1(x, i) \in Clusters1 /\ Cluster2(x, i) \in Clusters2
<1>1. Key(x, i) \in Nat
  BY JoinAssumption DEF Key, Tuples, Num, Rels, RIdx, SIdx
<1>2. 2 ^ D1 \in Nat \ {0} /\ 2 ^ D2 \in Nat \ {0} /\ 2 ^ 0 = 1
  BY Sizes DEF FANOUT_PASS1, FANOUT_PASS2
<1> DEFINE k == Key(x, i)
           f == 2 ^ D1
           g == 2 ^ D2
<1>3. ASSUME NEW a \in Nat, NEW m \in Nat \ {0} PROVE a % m \in 0 .. m - 1 /\ a \div m \in Nat
  BY <1>3
<1>4. k \in Nat /\ f \in Nat \ {0} /\ g \in Nat \ {0}
  BY <1>1, <1>2
<1> HIDE DEF k, f, g
<1>5. k \div 1 \in Nat /\ k \div f \in Nat
  BY <1>3, <1>4
<1>6. (k \div 1) % f \in 0 .. f - 1 /\ (k \div f) % g \in 0 .. g - 1
  BY <1>3, <1>4, <1>5
<1> QED
  BY <1>2, <1>6 DEF Cluster1, Cluster2, HASH_BIT_MODULO, Clusters1, Clusters2,
                    FANOUT_PASS1, FANOUT_PASS2, k, f, g

LEMMA NumType == ASSUME NEW x \in Rels
                 PROVE  /\ Num(x) \in Nat /\ IsFiniteSet(Tuples(x)) /\ Cardinality(Tuples(x)) = Num(x)
                        /\ Tuples(x) \in SUBSET Nat
<1>1. Num(x) \in Nat
  BY Sizes DEF Num
<1>2. IsFiniteSet(0 .. Num(x) - 1) /\ Cardinality(0 .. Num(x) - 1) = Num(x)
  BY <1>1, FS_Interval
<1> QED
  BY <1>1, <1>2 DEF Tuples

------------------------------------------------------------------------------
(* The first pass: where the parts of the clusters begin *)

LEMMA ShareIn ==
  ASSUME NEW x \in Rels, NEW t \in Threads
  PROVE  /\ ShareBegin(Num(x), t) \in Nat /\ ShareEnd(Num(x), t) \in Nat
         /\ ShareBegin(Num(x), t) <= ShareEnd(Num(x), t) /\ ShareEnd(Num(x), t) <= Num(x)
         /\ Share(x, t) \in SUBSET Tuples(x)
         /\ \A i \in Share(x, t) : i \in Nat /\ ShareBegin(Num(x), t) <= i /\ i < ShareEnd(Num(x), t)
         /\ \A i \in Nat : ShareBegin(Num(x), t) <= i /\ i < ShareEnd(Num(x), t) => i \in Share(x, t)
<1>1. Num(x) \in Nat
  BY NumType
<1>2. /\ ShareBegin(Num(x), t) \in Nat /\ ShareEnd(Num(x), t) \in Nat
      /\ ShareBegin(Num(x), t) <= ShareEnd(Num(x), t) /\ ShareEnd(Num(x), t) <= Num(x)
  BY <1>1, ShareType
<1> DEFINE b == ShareBegin(Num(x), t)
           e == ShareEnd(Num(x), t)
<1> HIDE DEF b, e
<1>3. b \in Nat /\ e \in Nat /\ b <= e /\ e <= Num(x)
  BY <1>2 DEF b, e
<1>4. Share(x, t) = b .. e - 1
  BY DEF Share, b, e
<1>5. Share(x, t) \in SUBSET Tuples(x)
  BY <1>1, <1>3, <1>4 DEF Tuples
<1>6. /\ \A i \in Share(x, t) : i \in Nat /\ b <= i /\ i < e
      /\ \A i \in Nat : b <= i /\ i < e => i \in Share(x, t)
  BY <1>3, <1>4
<1> QED
  BY <1>2, <1>5, <1>6 DEF b, e

LEMMA ShareOf ==
  ASSUME NEW x \in Rels, NEW i \in Tuples(x)
  PROVE  \E t \in Threads : i \in Share(x, t)
<1>1. Num(x) \in Nat /\ i \in Nat /\ i < Num(x)
  BY NumType DEF Tuples
<1>2. PICK t \in Threads : ShareBegin(Num(x), t) <= i /\ i < ShareEnd(Num(x), t)
  BY <1>1, ShareExists
<1> QED
  BY <1>1, <1>2, ShareIn

LEMMA ShareDisjoint ==
  ASSUME NEW x \in Rels, NEW t \in Threads, NEW u \in Threads, NEW i \in Share(x, t), i \in Share(x, u)
  PROVE  t = u
<1>1. Num(x) \in Nat
  BY NumType
<1>2. /\ i \in Nat /\ ShareBegin(Num(x), t) <= i /\ i < ShareEnd(Num(x), t)
      /\ ShareBegin(Num(x), u) <= i /\ i < ShareEnd(Num(x), u)
  BY ShareIn
<1> QED
  BY <1>1, <1>2, ShareUnique

(* The threads before t have what lies before t's share. *)
LEMMA ShareBefore ==
  ASSUME NEW x \in Rels, NEW t \in Threads, NEW u \in Threads, NEW i \in Share(x, u)
  PROVE  u < t <=> i < ShareBegin(Num(x), t)
<1>1. Num(x) \in Nat /\ t \in Nat /\ u \in Nat
  BY NumType DEF Threads
<1>2. i \in Nat /\ ShareBegin(Num(x), u) <= i /\ i < ShareEnd(Num(x), u)
  BY ShareIn
<1>3. /\ ShareBegin(Num(x), t) \in Nat /\ ShareEnd(Num(x), t) \in Nat
      /\ ShareBegin(Num(x), t) <= ShareEnd(Num(x), t)
      /\ ShareBegin(Num(x), u) \in Nat /\ ShareEnd(Num(x), u) \in Nat
  BY ShareIn
<1>4. CASE u < t
  <2>1. ShareEnd(Num(x), u) <= ShareBegin(Num(x), t)
    BY <1>1, <1>4, ShareOrder
  <2> QED BY <1>2, <1>3, <1>4, <2>1
<1>5. CASE u = t
  BY <1>1, <1>2, <1>3, <1>5
<1>6. CASE t < u
  <2>1. ShareEnd(Num(x), t) <= ShareBegin(Num(x), u)
    BY <1>1, <1>6, ShareOrder
  <2> QED BY <1>1, <1>2, <1>3, <1>6, <2>1
<1> QED
  BY <1>1, <1>4, <1>5, <1>6

(* What a histogram holds when it is complete *)
Totals(x, u) == [c \in Clusters1 |-> Cardinality({i \in Share(x, u) : Cluster1(x, i) <= c})]

LEMMA SumBefore ==
  ASSUME NEW x \in Rels, NEW t \in Threads, NEW c \in Clusters1,
         \A u \in Threads : hist[x][u] = Totals(x, u)
  PROVE  /\ SumOver([u \in Threads |-> hist[x][u][c]], 0 .. t - 1)
              = Cardinality({i \in Tuples(x) : i < ShareBegin(Num(x), t) /\ Cluster1(x, i) <= c})
         /\ SumOver([u \in Threads |-> hist[x][u][c]], t .. nthreads - 1)
              = Cardinality({i \in Tuples(x) : ~(i < ShareBegin(Num(x), t)) /\ Cluster1(x, i) <= c})
<1> DEFINE B == ShareBegin(Num(x), t)
           F == [u \in Threads |-> {i \in Share(x, u) : Cluster1(x, i) <= c}]
           f == [u \in Threads |-> hist[x][u][c]]
           Low == 0 .. t - 1
           High == t .. nthreads - 1
<1>1. IsFiniteSet(Tuples(x))
  BY NumType
<1>2. \A u \in Threads : F[u] \in SUBSET Tuples(x) /\ f[u] = Cardinality(F[u])
  BY ShareIn DEF Totals
<1>3. ASSUME NEW u \in Threads, NEW v \in Threads, u # v PROVE F[u] \cap F[v] = {}
  BY <1>3, ShareDisjoint
<1>4. t \in Nat /\ nthreads \in Nat /\ t < nthreads /\ Threads = 0 .. nthreads - 1
  BY Sizes DEF Threads
<1>5. /\ \A u \in Low : u \in Threads /\ u < t
      /\ \A u \in High : u \in Threads /\ ~(u < t)
      /\ \A u \in Threads : u < t => u \in Low
      /\ \A u \in Threads : ~(u < t) => u \in High
      /\ IsFiniteSet(Low) /\ IsFiniteSet(High)
  <2>1. IsFiniteSet(Low) /\ IsFiniteSet(High)
    BY <1>4, FS_Interval
  <2> QED
    BY <1>4, <2>1
<1> HIDE DEF Low, High
<1>6. SumOver(f, Low) = Cardinality(UNION {F[u] : u \in Low})
  <2>1. \A u \in Low : F[u] \in SUBSET Tuples(x) /\ f[u] = Cardinality(F[u])
    BY <1>2, <1>5
  <2>2. \A u, v \in Low : u # v => F[u] \cap F[v] = {}
    BY <1>3, <1>5
  <2> HIDE DEF f, F
  <2> QED BY <1>1, <1>5, <2>1, <2>2, SumOfSets
<1>7. SumOver(f, High) = Cardinality(UNION {F[u] : u \in High})
  <2>1. \A u \in High : F[u] \in SUBSET Tuples(x) /\ f[u] = Cardinality(F[u])
    BY <1>2, <1>5
  <2>2. \A u, v \in High : u # v => F[u] \cap F[v] = {}
    BY <1>3, <1>5
  <2> HIDE DEF f, F
  <2> QED BY <1>1, <1>5, <2>1, <2>2, SumOfSets
<1>8. ASSUME NEW u \in Threads, NEW i \in F[u]
      PROVE  i \in Tuples(x) /\ Cluster1(x, i) <= c /\ (u < t <=> i < B)
  <2>1. i \in Share(x, u) /\ Cluster1(x, i) <= c
    OBVIOUS
  <2> QED BY <2>1, ShareIn, ShareBefore
<1>9. ASSUME NEW i \in Tuples(x), Cluster1(x, i) <= c
      PROVE  \E u \in Threads : i \in F[u] /\ (u < t <=> i < B)
  <2>1. PICK u \in Threads : i \in Share(x, u)
    BY ShareOf
  <2>2. i \in F[u]
    BY <1>9, <2>1
  <2> QED BY <2>2, <1>8
<1> HIDE DEF F, B, f
<1>10. UNION {F[u] : u \in Low} = {i \in Tuples(x) : i < B /\ Cluster1(x, i) <= c}
  BY <1>5, <1>8, <1>9
<1>11. UNION {F[u] : u \in High} = {i \in Tuples(x) : ~(i < B) /\ Cluster1(x, i) <= c}
  BY <1>5, <1>8, <1>9
<1> QED
  BY <1>6, <1>7, <1>10, <1>11 DEF f, B, Low, High

(* The tuples of the clusters below c *)
Lower(x, c) == {i \in Tuples(x) : Cluster1(x, i) < c}

LEMMA ClusterSets ==
  ASSUME NEW x \in Rels, NEW c \in Int
  PROVE  /\ IsFiniteSet(Members(x, c)) /\ Cardinality(Members(x, c)) \in Nat
         /\ Members(x, c) \in SUBSET Tuples(x) /\ Members(x, c) \in SUBSET Nat
         /\ IsFiniteSet(Lower(x, c)) /\ Cardinality(Lower(x, c)) \in Nat
         /\ Lower(x, c) \in SUBSET Tuples(x)
         /\ Cardinality(Lower(x, c)) <= Num(x)
<1>1. Members(x, c) \in SUBSET Tuples(x) /\ Lower(x, c) \in SUBSET Tuples(x)
  BY DEF Members, Lower
<1>2. IsFiniteSet(Tuples(x)) /\ Cardinality(Tuples(x)) = Num(x) /\ Tuples(x) \in SUBSET Nat
  BY NumType
<1>3. IsFiniteSet(Members(x, c)) /\ IsFiniteSet(Lower(x, c)) /\ Cardinality(Lower(x, c)) <= Num(x)
  BY <1>1, <1>2, FS_Subset
<1> QED
  BY <1>1, <1>2, <1>3, FS_CardinalityType

LEMMA LowerStep ==
  ASSUME NEW x \in Rels, NEW c \in Clusters1
  PROVE  Cardinality(Lower(x, c + 1)) = Cardinality(Lower(x, c)) + Cardinality(Members(x, c))
<1>0. c \in Int /\ c + 1 \in Int
  BY DEF Clusters1
<1>1. \A i \in Tuples(x) : Cluster1(x, i) \in Int
  BY ClusterType DEF Clusters1
<1>2. Lower(x, c + 1) = Lower(x, c) \cup Members(x, c) /\ Lower(x, c) \cap Members(x, c) = {}
  BY <1>0, <1>1 DEF Lower, Members
<1> QED
  BY <1>0, <1>2, ClusterSets, CardDisjoint

LEMMA StartType ==
  ASSUME NEW x \in Rels, NEW c \in 0 .. FANOUT_PASS1
  PROVE  /\ Start1(x, c) \in Nat
         /\ Start1(x, c) = c * PADDING_TUPLES + Cardinality(Lower(x, c))
         /\ c * PADDING_TUPLES \in Nat
<1>1. c \in Nat /\ c \in Int
  BY Sizes
<1>2. c * PADDING_TUPLES \in Nat
  BY <1>1, Sizes
<1>3. Cardinality(Lower(x, c)) \in Nat
  BY <1>1, ClusterSets
<1>4. Start1(x, c) = c * PADDING_TUPLES + Cardinality(Lower(x, c))
  BY DEF Start1, Lower
<1> QED
  BY <1>2, <1>3, <1>4

LEMMA StartNext ==
  ASSUME NEW x \in Rels, NEW c \in Clusters1
  PROVE  /\ c \in 0 .. FANOUT_PASS1 /\ c + 1 \in 0 .. FANOUT_PASS1
         /\ Start1(x, c + 1) = Start1(x, c) + Cardinality(Members(x, c)) + PADDING_TUPLES
<1>1. c \in 0 .. FANOUT_PASS1 /\ c + 1 \in 0 .. FANOUT_PASS1 /\ c \in Int /\ c \in Nat
  BY Sizes DEF Clusters1
<1>2. (c + 1) * PADDING_TUPLES = c * PADDING_TUPLES + PADDING_TUPLES
  BY <1>1, Sizes
<1>3. Cardinality(Lower(x, c)) \in Nat /\ Cardinality(Members(x, c)) \in Nat
  BY <1>1, ClusterSets
<1> QED
  BY <1>1, <1>2, <1>3, StartType, LowerStep, Sizes

LEMMA StartEnd ==
  ASSUME NEW x \in Rels
  PROVE  Start1(x, 0) = 0 /\ Start1(x, FANOUT_PASS1) = Num(x) + FANOUT_PASS1 * PADDING_TUPLES
<1>1. 0 \in 0 .. FANOUT_PASS1 /\ FANOUT_PASS1 \in 0 .. FANOUT_PASS1
  BY Sizes
<1>2. \A i \in Tuples(x) : Cluster1(x, i) \in Nat /\ Cluster1(x, i) < FANOUT_PASS1
  BY ClusterType, Sizes DEF Clusters1
<1>3. Lower(x, 0) = {} /\ Lower(x, FANOUT_PASS1) = Tuples(x)
  BY <1>2 DEF Lower
<1>4. Cardinality(Lower(x, 0)) = 0 /\ Cardinality(Lower(x, FANOUT_PASS1)) = Num(x)
  BY <1>3, FS_EmptySet, NumType
<1>5. 0 * PADDING_TUPLES = 0 /\ FANOUT_PASS1 * PADDING_TUPLES \in Nat
  BY Sizes
<1> QED
  BY <1>1, <1>4, <1>5, StartType, NumType

LEMMA StartOrder ==
  ASSUME NEW x \in Rels, NEW c \in Clusters1, NEW d \in 0 .. FANOUT_PASS1, c < d
  PROVE  Start1(x, c) + Cardinality(Members(x, c)) + PADDING_TUPLES <= Start1(x, d)
<1>1. /\ c \in Nat /\ d \in Nat /\ c + 1 <= d /\ c + 1 \in 0 .. FANOUT_PASS1 /\ c + 1 \in Nat
      /\ c + 1 \in Int /\ d \in Int
  BY Sizes DEF Clusters1
<1>2. (c + 1) * PADDING_TUPLES <= d * PADDING_TUPLES
  <2>1. PADDING_TUPLES * (c + 1) <= PADDING_TUPLES * d
    BY <1>1, Sizes, MulMono
  <2> QED BY <1>1, <2>1, Sizes
<1>3. Lower(x, c + 1) \in SUBSET Lower(x, d)
  <2>1. \A i \in Tuples(x) : Cluster1(x, i) \in Int
    BY ClusterType DEF Clusters1
  <2> QED BY <1>1, <2>1 DEF Lower
<1>4. Cardinality(Lower(x, c + 1)) <= Cardinality(Lower(x, d))
  BY <1>1, <1>3, ClusterSets, FS_Subset
<1>5. Start1(x, c + 1) <= Start1(x, d)
  <2>1. Cardinality(Lower(x, c + 1)) \in Nat /\ Cardinality(Lower(x, d)) \in Nat
    BY <1>1, ClusterSets
  <2>2. /\ Start1(x, c + 1) = (c + 1) * PADDING_TUPLES + Cardinality(Lower(x, c + 1))
        /\ Start1(x, d) = d * PADDING_TUPLES + Cardinality(Lower(x, d))
        /\ (c + 1) * PADDING_TUPLES \in Nat /\ d * PADDING_TUPLES \in Nat
    BY <1>1, StartType
  <2> QED BY <1>2, <1>4, <2>1, <2>2
<1> QED
  BY <1>5, StartNext

(* The offsets a thread computes from everybody's running totals are where   *)
(* its part of each cluster begins.                                          *)
LEMMA ClusterStartIs ==
  ASSUME NEW x \in Rels, NEW t \in Threads, NEW c \in Clusters1,
         \A u \in Threads : hist[x][u] = Totals(x, u)
  PROVE  ClusterStart(x, t, c) = Start1(x, c) + Rank(Members(x, c), ShareBegin(Num(x), t))
<1> DEFINE B == ShareBegin(Num(x), t)
           In(S) == {i \in S : i < B}
           P == {i \in Tuples(x) : i < B /\ Cluster1(x, i) <= c}
           Q == {i \in Tuples(x) : ~(i < B) /\ Cluster1(x, i) <= c - 1}
           p == SumOver([u \in Threads |-> hist[x][u][c]], 0 .. t - 1)
           q == SumOver([u \in Threads |-> hist[x][u][c - 1]], t .. nthreads - 1)
<1>1. c \in Nat /\ c \in Int /\ c \in 0 .. FANOUT_PASS1
  BY Sizes DEF Clusters1
<1>2. p = Cardinality(P)
  BY SumBefore
<1>3. ASSUME c # 0 PROVE q = Cardinality(Q)
  <2>1. c - 1 \in Clusters1
    BY <1>1, <1>3, Sizes DEF Clusters1
  <2> QED BY <2>1, SumBefore
<1>4. \A i \in Tuples(x) : Cluster1(x, i) \in Nat
  BY ClusterType DEF Clusters1
<1>5. ClusterStart(x, t, c) = c * PADDING_TUPLES + p + (IF c = 0 THEN 0 ELSE q)
  BY DEF ClusterStart
<1>6. P = In(Lower(x, c)) \cup In(Members(x, c)) /\ In(Lower(x, c)) \cap In(Members(x, c)) = {}
  BY <1>1, <1>4 DEF Lower, Members
<1>7. Lower(x, c) = In(Lower(x, c)) \cup Q /\ In(Lower(x, c)) \cap Q = {}
  BY <1>1, <1>4 DEF Lower
<1>8. c = 0 => Q = {}
  BY <1>1, <1>4
<1>9. /\ In(Lower(x, c)) \in SUBSET Tuples(x) /\ In(Members(x, c)) \in SUBSET Tuples(x)
      /\ Q \in SUBSET Tuples(x) /\ IsFiniteSet(Tuples(x))
  BY NumType DEF Lower, Members
<1>10. Rank(Members(x, c), B) = Cardinality(In(Members(x, c)))
  BY DEF Rank
<1> HIDE DEF B, In, P, Q, p, q
<1>11. IsFiniteSet(In(Lower(x, c))) /\ IsFiniteSet(In(Members(x, c))) /\ IsFiniteSet(Q)
  BY <1>9, FS_Subset
<1>12. /\ Cardinality(P) = Cardinality(In(Lower(x, c))) + Cardinality(In(Members(x, c)))
       /\ Cardinality(Lower(x, c)) = Cardinality(In(Lower(x, c))) + Cardinality(Q)
  BY <1>6, <1>7, <1>11, CardDisjoint
<1>13. /\ Cardinality(In(Lower(x, c))) \in Nat /\ Cardinality(In(Members(x, c))) \in Nat
       /\ Cardinality(Q) \in Nat
  BY <1>11, FS_CardinalityType
<1>14. (IF c = 0 THEN 0 ELSE q) = Cardinality(Q)
  BY <1>3, <1>8, FS_EmptySet
<1>15. Start1(x, c) = c * PADDING_TUPLES + Cardinality(Lower(x, c)) /\ c * PADDING_TUPLES \in Nat
  BY <1>1, StartType
<1>16. ClusterStart(x, t, c) = c * PADDING_TUPLES + Cardinality(P) + Cardinality(Q)
  BY <1>2, <1>5, <1>14
<1>17. ClusterStart(x, t, c) = Start1(x, c) + Cardinality(In(Members(x, c)))
  BY <1>12, <1>13, <1>15, <1>16
<1> QED
  BY <1>10, <1>17 DEF B

(* The slots of a cluster's tuples *)
Slots(x, c) == Start1(x, c) .. Start1(x, c) + Cardinality(Members(x, c)) - 1

LEMMA SlotIn ==
  ASSUME NEW x \in Rels, NEW c \in Clusters1, NEW i \in Members(x, c)
  PROVE  /\ Slot(x, i) = Start1(x, c) + Rank(Members(x, c), i)
         /\ Slot(x, i) \in Slots(x, c)
<1>1. Cluster1(x, i) = c /\ i \in Nat /\ c \in Int /\ c \in 0 .. FANOUT_PASS1
  <2>1. Cluster1(x, i) = c /\ i \in Tuples(x)
    BY DEF Members
  <2>2. c \in 0 .. FANOUT_PASS1
    BY StartNext
  <2> QED BY <2>1, <2>2, NumType
<1>2. Slot(x, i) = Start1(x, c) + Rank(Members(x, c), i)
  BY <1>1 DEF Slot, Rank
<1>3. Members(x, c) \in SUBSET Nat /\ IsFiniteSet(Members(x, c))
  BY <1>1, ClusterSets
<1>4. Rank(Members(x, c), i) \in Nat /\ Rank(Members(x, c), i) < Cardinality(Members(x, c))
      /\ Cardinality(Members(x, c)) \in Nat
  BY <1>1, <1>3, RankType
<1>5. Start1(x, c) \in Nat
  BY <1>1, StartType
<1> QED
  BY <1>2, <1>4, <1>5 DEF Slots

LEMMA SlotsInSpace ==
  ASSUME NEW x \in Rels, NEW c \in Clusters1
  PROVE  Slots(x, c) \in SUBSET Addr(x) /\ Slots(x, c) \in SUBSET Nat
<1>1. c \in Int /\ c \in 0 .. FANOUT_PASS1 /\ FANOUT_PASS1 \in 0 .. FANOUT_PASS1 /\ c < FANOUT_PASS1
  BY Sizes, StartNext DEF Clusters1
<1>2. Start1(x, c) \in Nat /\ Cardinality(Members(x, c)) \in Nat /\ Num(x) \in Nat
  BY <1>1, StartType, ClusterSets, NumType
<1>3. Start1(x, c) + Cardinality(Members(x, c)) + PADDING_TUPLES <= Num(x) + FANOUT_PASS1 * PADDING_TUPLES
  BY <1>1, StartOrder, StartEnd
<1>4. FANOUT_PASS1 * PADDING_TUPLES \in Nat /\ PADDING_TUPLES \in Nat
  BY Sizes
<1> QED
  BY <1>2, <1>3, <1>4 DEF Slots, Addr

(* No two tuples have the same slot. *)
LEMMA SlotUnique ==
  ASSUME NEW x \in Rels, NEW i \in Tuples(x), NEW j \in Tuples(x), Slot(x, i) = Slot(x, j)
  PROVE  i = j
<1> DEFINE c == Cluster1(x, i)
           d == Cluster1(x, j)
<1>1. c \in Clusters1 /\ d \in Clusters1 /\ i \in Members(x, c) /\ j \in Members(x, d)
  BY ClusterType DEF Members
<1> HIDE DEF c, d
<1>2. c \in Int /\ d \in Int /\ c \in 0 .. FANOUT_PASS1 /\ d \in 0 .. FANOUT_PASS1
  BY <1>1, StartNext DEF Clusters1
<1>3. /\ Start1(x, c) \in Nat /\ Start1(x, d) \in Nat
      /\ Cardinality(Members(x, c)) \in Nat /\ Cardinality(Members(x, d)) \in Nat
  BY <1>2, StartType, ClusterSets
<1>4. Slot(x, i) \in Slots(x, c) /\ Slot(x, j) \in Slots(x, d)
  BY <1>1, SlotIn
<1>5. ~(c < d)
  <2> SUFFICES ASSUME c < d PROVE FALSE
    OBVIOUS
  <2>1. Start1(x, c) + Cardinality(Members(x, c)) + PADDING_TUPLES <= Start1(x, d)
    BY <1>1, <1>2, StartOrder
  <2> QED BY <1>3, <1>4, <2>1, Sizes DEF Slots
<1>6. ~(d < c)
  <2> SUFFICES ASSUME d < c PROVE FALSE
    OBVIOUS
  <2>1. Start1(x, d) + Cardinality(Members(x, d)) + PADDING_TUPLES <= Start1(x, c)
    BY <1>1, <1>2, StartOrder
  <2> QED BY <1>3, <1>4, <2>1, Sizes DEF Slots
<1>7. c = d
  BY <1>2, <1>5, <1>6
<1>8. /\ Slot(x, i) = Start1(x, c) + Rank(Members(x, c), i)
      /\ Slot(x, j) = Start1(x, c) + Rank(Members(x, c), j)
  BY <1>1, <1>7, SlotIn
<1>9. Members(x, c) \in SUBSET Nat /\ IsFiniteSet(Members(x, c))
  BY <1>2, ClusterSets
<1>10. i \in Nat /\ j \in Nat
  BY NumType
<1>11. Rank(Members(x, c), i) \in Nat /\ Rank(Members(x, c), j) \in Nat
  BY <1>9, <1>10, RankType
<1>12. Rank(Members(x, c), i) = Rank(Members(x, c), j)
  <2>1. Start1(x, c) + Rank(Members(x, c), i) = Start1(x, c) + Rank(Members(x, c), j)
    BY <1>8
  <2>2. \A m, n, k \in Nat : m + n = m + k => n = k
    OBVIOUS
  <2> QED BY <1>3, <1>11, <2>1, <2>2
<1>13. i \in Members(x, c) /\ j \in Members(x, c)
  BY <1>1, <1>7
<1> QED
  BY <1>9, <1>12, <1>13, RankUnique

LEMMA SlotOnto ==
  ASSUME NEW x \in Rels, NEW c \in Clusters1, NEW a \in Slots(x, c)
  PROVE  \E i \in Members(x, c) : Slot(x, i) = a
<1>1. c \in Int /\ c \in 0 .. FANOUT_PASS1
  BY StartNext DEF Clusters1
<1>2. Members(x, c) \in SUBSET Nat /\ IsFiniteSet(Members(x, c)) /\ Cardinality(Members(x, c)) \in Nat
  BY <1>1, ClusterSets
<1>3. Start1(x, c) \in Nat
  BY <1>1, StartType
<1>4. a - Start1(x, c) \in 0 .. Cardinality(Members(x, c)) - 1
  BY <1>2, <1>3 DEF Slots
<1>5. PICK i \in Members(x, c) : Rank(Members(x, c), i) = a - Start1(x, c)
  BY <1>2, <1>4, RankOnto
<1>6. Slot(x, i) = Start1(x, c) + Rank(Members(x, c), i) /\ a \in Int
  BY <1>3, <1>4, SlotIn DEF Slots
<1> QED
  BY <1>3, <1>5, <1>6

------------------------------------------------------------------------------
(* The steps: what they do to pc and rel *)

PCs == {"launched"} \cup Started

LEMMA StepPhase ==
  ASSUME TypeOK, PhaseInv, NEW t \in Threads, ThreadStep(t)
  PROVE  /\ PhaseInv' /\ pc' \in [Threads -> PCs] /\ rel' \in [Threads -> Rels]
         /\ \A u \in Threads : u # t => pc'[u] = pc[u] /\ rel'[u] = rel[u]
         /\ \A u \in Threads : /\ pc[u] \in TasksMade => pc'[u] \in TasksMade
                               /\ pc[u] \in Partitioned => pc'[u] \in Partitioned
                               /\ pc[u] \in Joined => pc'[u] \in Joined
<1> USE DEF Copied, TasksMade, Partitioned, Joined, Started
<1>0. pc \in [Threads -> PCs] /\ rel \in [Threads -> Rels] /\ Rels = {"R", "S"}
  BY DEF TypeOK, PCs, Rels
<1>1. CASE Arrive(t)
  BY <1>0, <1>1 DEF PhaseInv, PCs, Arrive, Goto, partition
<1>2. CASE Start(t)
  BY <1>0, <1>2 DEF PhaseInv, PCs, Start, Goto, CrossBarrier, partition
<1>3. CASE Histogram(t)
  BY <1>0, <1>3 DEF PhaseInv, PCs, Histogram, Goto
<1>4. CASE Offsets(t)
  BY <1>0, <1>4 DEF PhaseInv, PCs, Offsets, Goto
<1>5. CASE Copy(t)
  BY <1>0, <1>5 DEF PhaseInv, PCs, Copy, Goto
<1>6. CASE CopyDone(t)
  BY <1>0, <1>6 DEF PhaseInv, PCs, CopyDone, Goto
<1>7. CASE CreateTasks(t)
  BY <1>0, <1>7 DEF PhaseInv, PCs, CreateTasks, Goto, CrossBarrier, partition
<1>8. CASE StartPart(t)
  BY <1>0, <1>8 DEF PhaseInv, PCs, StartPart, Goto, CrossBarrier, partition
<1>9. CASE TakePart(t)
  BY <1>0, <1>9 DEF PhaseInv, PCs, TakePart, Goto, partition
<1>10. CASE AddJoin(t)
  BY <1>0, <1>10 DEF PhaseInv, PCs, AddJoin, Goto, partition
<1>11. CASE AddDone(t)
  BY <1>0, <1>11 DEF PhaseInv, PCs, AddDone, Goto, partition
<1>12. CASE PartDone(t)
  BY <1>0, <1>12 DEF PhaseInv, PCs, PartDone, Goto, partition
<1>13. CASE StartJoin(t)
  BY <1>0, <1>13 DEF PhaseInv, PCs, StartJoin, Goto, CrossBarrier, partition
<1>14. CASE JoinPiece(t)
  BY <1>0, <1>14 DEF PhaseInv, PCs, JoinPiece, Goto, partition
<1>15. CASE JoinDone(t)
  BY <1>0, <1>15 DEF PhaseInv, PCs, JoinDone, Goto, partition
<1>16. CASE Exit(t)
  BY <1>0, <1>16 DEF PhaseInv, PCs, Exit, Goto, CrossBarrier, partition
<1> QED
  BY <1>1, <1>2, <1>3, <1>4, <1>5, <1>6, <1>7, <1>8, <1>9, <1>10, <1>11, <1>12, <1>13, <1>14, <1>15, <1>16 DEF ThreadStep

(* Steps after the first pass, and before it: nothing of it changes. *)
Calm(t) == \/ Arrive(t) \/ Start(t) \/ CreateTasks(t) \/ StartPart(t) \/ TakePart(t) \/ AddJoin(t)
           \/ AddDone(t) \/ PartDone(t) \/ StartJoin(t) \/ JoinPiece(t) \/ JoinDone(t) \/ Exit(t)

LEMMA CalmFacts ==
  ASSUME TypeOK, PhaseInv, NEW t \in Threads, Calm(t)
  PROVE  /\ UNCHANGED partition /\ tmp' = tmp
         /\ \A u \in Threads : pc'[u] = "copy" <=> pc[u] = "copy"
         /\ \A u \in Threads : pc'[u] \in Copied <=> pc[u] \in Copied
         /\ \A u \in Threads : pc'[u] \in {"counted", "copy"} <=> pc[u] \in {"counted", "copy"}
<1> USE DEF Copied, TasksMade, Partitioned, Joined, Started
<1>0. pc \in [Threads -> PCs]
  BY DEF TypeOK, PCs
<1>1. CASE Arrive(t)
  BY <1>0, <1>1 DEF Arrive, Goto
<1>2. CASE Start(t)
  BY <1>0, <1>2 DEF Start, Goto, CrossBarrier
<1>3. CASE CreateTasks(t)
  BY <1>0, <1>3 DEF CreateTasks, Goto, CrossBarrier
<1>4. CASE StartPart(t)
  BY <1>0, <1>4 DEF StartPart, Goto, CrossBarrier
<1>5. CASE TakePart(t)
  BY <1>0, <1>5 DEF TakePart, Goto
<1>6. CASE AddJoin(t)
  BY <1>0, <1>6 DEF AddJoin
<1>7. CASE AddDone(t)
  BY <1>0, <1>7 DEF AddDone, Goto
<1>8. CASE PartDone(t)
  BY <1>0, <1>8 DEF PartDone, Goto
<1>9. CASE StartJoin(t)
  BY <1>0, <1>9 DEF StartJoin, Goto, CrossBarrier
<1>10. CASE JoinPiece(t)
  BY <1>0, <1>10 DEF JoinPiece
<1>11. CASE JoinDone(t)
  BY <1>0, <1>11 DEF JoinDone, Goto
<1>12. CASE Exit(t)
  BY <1>0, <1>12 DEF Exit, Goto, CrossBarrier
<1> QED
  BY <1>1, <1>2, <1>3, <1>4, <1>5, <1>6, <1>7, <1>8, <1>9, <1>10, <1>11, <1>12 DEF Calm

LEMMA CalmFirstPass ==
  ASSUME TypeOK, PhaseInv, HistInv, OutputInv, CopyInv, TmpInv, NEW t \in Threads, Calm(t)
  PROVE  HistInv' /\ OutputInv' /\ CopyInv' /\ TmpInv'
<1>0. 0 \in Threads
  BY Sizes
<1>1. /\ UNCHANGED <<rel, hist, output, dst, pos, tmp>>
      /\ \A u \in Threads : pc'[u] = "copy" <=> pc[u] = "copy"
  BY CalmFacts DEF partition
<1>2. \A u \in Threads : \A x : /\ HasCounted(u, x)' <=> HasCounted(u, x)
                                /\ HasOffsets(u, x)' <=> HasOffsets(u, x)
  <2>1. /\ \A u \in Threads : pc'[u] \in Copied <=> pc[u] \in Copied
        /\ \A u \in Threads : pc'[u] \in {"counted", "copy"} <=> pc[u] \in {"counted", "copy"}
    BY CalmFacts
  <2> QED BY <1>1, <2>1 DEF HasCounted, HasOffsets
<1>3. HistInv'
  BY <1>1, <1>2 DEF HistInv
<1>4. OutputInv'
  BY <1>0, <1>1, <1>2 DEF OutputInv
<1>5. CopyInv'
  BY <1>1 DEF CopyInv
<1>6. TmpInv'
  BY <1>1, <1>2 DEF TmpInv
<1> QED
  BY <1>3, <1>4, <1>5, <1>6

LEMMA QueueFacts ==
  ASSUME NEW queue \in [0 .. numnuma - 1 -> Seq(Task)], NEW task
  PROVE  task \in QueuedTasks(queue) <=>
           \E n \in 0 .. numnuma - 1 : \E k \in 1 .. Len(queue[n]) : queue[n][k] = task
<1>1. DOMAIN queue = 0 .. numnuma - 1
  OBVIOUS
<1>2. \A n \in 0 .. numnuma - 1 : DOMAIN queue[n] = 1 .. Len(queue[n])
  OBVIOUS
<1> QED
  BY <1>1, <1>2 DEF QueuedTasks, Range

LEMMA JoinFacts ==
  ASSUME join_queue \in [0 .. numnuma - 1 -> Seq(Task)], todo \in [Threads -> Seq(Task)], NEW task
  PROVE  task \in JoinTasks <=>
           \/ \E n \in 0 .. numnuma - 1 : \E k \in 1 .. Len(join_queue[n]) : join_queue[n][k] = task
           \/ \E u \in Threads : \E k \in 1 .. Len(todo[u]) : todo[u][k] = task
<1>1. \A u \in Threads : DOMAIN todo[u] = 1 .. Len(todo[u])
  OBVIOUS
<1>2. task \in UNION {Range(todo[u]) : u \in Threads} <=>
        \E u \in Threads : \E k \in 1 .. Len(todo[u]) : todo[u][k] = task
  BY <1>1 DEF Range
<1> QED
  BY <1>2, QueueFacts DEF JoinTasks

LEMMA StillMem ==
  ASSUME MemInv, NEW t \in Threads, mem' = mem,
         \A u \in Threads : pc[u] \in TasksMade => pc'[u] \in TasksMade
  PROVE  MemInv'
<1>1. (\E u \in Threads : pc'[u] \notin TasksMade) => \E u \in Threads : pc[u] \notin TasksMade
  OBVIOUS
<1> QED
  BY <1>1 DEF MemInv

LEMMA StillTasks ==
  ASSUME PassInv, NEW t \in Threads, ThreadStep(t), UNCHANGED <<mem, part_queue, join_queue, todo>>
  PROVE  MemInv' /\ TaskInv'
<1>0. TypeOK /\ PhaseInv /\ MemInv
  BY DEF PassInv
<1>1. \A u \in Threads : /\ pc[u] \in TasksMade => pc'[u] \in TasksMade
                         /\ pc[u] \in Partitioned => pc'[u] \in Partitioned
                         /\ pc[u] \in Joined => pc'[u] \in Joined
  BY <1>0, StepPhase
<1>2. \A u \in Threads : pc[u] \in TasksMade => pc'[u] \in TasksMade
  BY <1>1
<1>3. MemInv'
  BY <1>0, <1>2, StillMem
<1>4. TaskInv'
  BY DEF PassInv, TaskInv, QueuedTasks, JoinTasks
<1> QED
  BY <1>3, <1>4

(* The input relation is untouched while somebody is in the first pass. *)
LEMMA Untouched ==
  ASSUME PassInv, NEW t \in Threads, pc[t] \in {"hist", "counted", "copy"}, NEW x \in Rels, NEW i \in Tuples(x)
  PROVE  mem[x][i] = i
<1>1. pc[t] \notin TasksMade
  BY DEF TasksMade, Partitioned, Joined
<1> QED
  BY <1>1 DEF PassInv, MemInv

LEMMA StepHistogram ==
  ASSUME PassInv, NEW t \in Threads, Histogram(t)
  PROVE  PassInv'
<1> DEFINE y == rel[t]
<1>0. /\ ThreadStep(t) /\ pc[t] = "hist" /\ pc' = [pc EXCEPT ![t] = "counted"]
      /\ hist' = [hist EXCEPT ![y][t] = PrefixSums(y, t)]
      /\ UNCHANGED <<rel, mem, tmp, output, dst, pos, part_queue, join_queue, todo, out>>
  BY DEF Histogram, ThreadStep, Goto
<1>1. TypeOK /\ PhaseInv /\ HistInv /\ OutputInv /\ CopyInv /\ TmpInv
  BY DEF PassInv
<1>2. /\ pc \in [Threads -> PCs] /\ y \in Rels /\ hist \in [Rels -> [Threads -> [Clusters1 -> Nat]]]
      /\ 0 \in Threads
  BY <1>1, Sizes DEF TypeOK, PCs
<1>3. PhaseInv' /\ pc' \in [Threads -> PCs] /\ rel' \in [Threads -> Rels]
  BY <1>0, <1>1, StepPhase
<1>4. PrefixSums(y, t) = Totals(y, t)
  <2>1. \A i \in Share(y, t) : mem[y][i] = i
    BY <1>0, <1>2, ShareIn, Untouched
  <2> QED BY <2>1 DEF PrefixSums, Totals
<1>5. Totals(y, t) \in [Clusters1 -> Nat]
  <2>1. ASSUME NEW c \in Clusters1 PROVE Cardinality({i \in Share(y, t) : Cluster1(y, i) <= c}) \in Nat
    <3>1. {i \in Share(y, t) : Cluster1(y, i) <= c} \in SUBSET Tuples(y) /\ IsFiniteSet(Tuples(y))
      BY <1>2, ShareIn, NumType
    <3> HIDE DEF y
    <3> QED BY <3>1, FS_Subset, FS_CardinalityType
  <2> QED BY <2>1 DEF Totals
<1>6. TypeOK'
  <2>1. hist' \in [Rels -> [Threads -> [Clusters1 -> Nat]]]
    BY <1>0, <1>2, <1>4, <1>5
  <2> QED BY <1>0, <1>1, <1>3, <2>1 DEF TypeOK, PCs
<1> HIDE DEF y
<1>7. \A u \in Threads : \A x : HasOffsets(u, x)' <=> HasOffsets(u, x)
  BY <1>0, <1>2 DEF HasOffsets, Copied, TasksMade, Partitioned, Joined
<1>8. \A u \in Threads : pc'[u] = "copy" <=> pc[u] = "copy"
  BY <1>0, <1>2
<1>9. HistInv'
  <2> SUFFICES ASSUME NEW u \in Threads, NEW x \in Rels, HasCounted(u, x)'
               PROVE  hist'[x][u] = Totals(x, u)
    BY DEF HistInv, Totals
  <2>1. CASE u = t /\ x = y
    BY <2>1, <1>0, <1>2, <1>4
  <2>2. CASE ~(u = t /\ x = y)
    <3>1. HasCounted(u, x)
      BY <2>2, <1>0, <1>2 DEF HasCounted, Copied, TasksMade, Partitioned, Joined, y, Rels
    <3>2. hist'[x][u] = hist[x][u]
      BY <2>2, <1>0, <1>2
    <3> QED BY <1>1, <3>1, <3>2 DEF HistInv, Totals
  <2> QED BY <2>1, <2>2
<1>10. OutputInv' /\ CopyInv' /\ TmpInv'
  <2>1. OutputInv'
    BY <1>0, <1>1, <1>2, <1>7 DEF OutputInv
  <2>2. CopyInv'
    BY <1>0, <1>1, <1>8 DEF CopyInv
  <2>3. TmpInv'
    BY <1>0, <1>1, <1>7, <1>8 DEF TmpInv
  <2> QED BY <2>1, <2>2, <2>3
<1>11. MemInv' /\ TaskInv'
  BY <1>0, StillTasks
<1> QED
  BY <1>3, <1>6, <1>9, <1>10, <1>11 DEF PassInv

LEMMA StepOffsets ==
  ASSUME PassInv, NEW t \in Threads, Offsets(t)
  PROVE  PassInv'
<1> DEFINE y == rel[t]
           B == ShareBegin(Num(y), t)
           d == [c \in Clusters1 |-> ClusterStart(y, t, c)]
           o == [c \in 0 .. FANOUT_PASS1 |-> IF c = FANOUT_PASS1
                                             THEN Num(y) + FANOUT_PASS1 * PADDING_TUPLES
                                             ELSE ClusterStart(y, t, c)]
<1>0. /\ ThreadStep(t) /\ pc[t] = "counted" /\ pc' = [pc EXCEPT ![t] = "copy"]
      /\ \A u \in Threads : HasCounted(u, y)
      /\ output' = [output EXCEPT ![y][t] = o]
      /\ dst' = [dst EXCEPT ![t] = d]
      /\ pos' = [pos EXCEPT ![t] = B]
      /\ UNCHANGED <<rel, mem, tmp, hist, part_queue, join_queue, todo, out>>
  BY DEF Offsets, ThreadStep, Goto
<1>1. TypeOK /\ PhaseInv /\ HistInv /\ OutputInv /\ CopyInv /\ TmpInv
  BY DEF PassInv
<1>2. /\ pc \in [Threads -> PCs] /\ y \in Rels /\ 0 \in Threads /\ rel \in [Threads -> Rels]
      /\ output \in [Rels -> [Threads -> [0 .. FANOUT_PASS1 -> Nat]]]
      /\ dst \in [Threads -> [Clusters1 -> Nat]] /\ pos \in [Threads -> Nat]
  BY <1>1, Sizes DEF TypeOK, PCs
<1>3. PhaseInv' /\ pc' \in [Threads -> PCs] /\ rel' \in [Threads -> Rels]
  BY <1>0, <1>1, StepPhase
<1>4. \A u \in Threads : hist[y][u] = Totals(y, u)
  BY <1>0, <1>1, <1>2 DEF HistInv, Totals
<1>5. B \in Nat /\ B <= ShareEnd(Num(y), t) /\ ShareEnd(Num(y), t) \in Nat
  BY <1>2, ShareIn
<1>6. ASSUME NEW c \in Clusters1
      PROVE  d[c] = Start1(y, c) + Rank(Members(y, c), B) /\ d[c] \in Nat
  <2>1. d[c] = Start1(y, c) + Rank(Members(y, c), B)
    BY <1>2, <1>4, ClusterStartIs
  <2>2. c \in Int /\ c \in 0 .. FANOUT_PASS1
    BY StartNext, <1>2 DEF Clusters1
  <2>3. Members(y, c) \in SUBSET Nat /\ IsFiniteSet(Members(y, c)) /\ Start1(y, c) \in Nat
    BY <1>2, <2>2, ClusterSets, StartType
  <2>4. Rank(Members(y, c), B) \in Nat
    BY <1>5, <2>3, RankType
  <2> HIDE DEF d, B, y
  <2> QED BY <2>1, <2>3, <2>4
<1>7. ASSUME NEW c \in 0 .. FANOUT_PASS1
      PROVE  o[c] \in Nat /\ (t = 0 => o[c] = Start1(y, c))
  <2>1. CASE c = FANOUT_PASS1
    <3>1. o[c] = Num(y) + FANOUT_PASS1 * PADDING_TUPLES
      BY <2>1
    <3>2. o[c] = Start1(y, c)
      BY <3>1, <2>1, <1>2, StartEnd
    <3> QED BY <3>2, <1>2, StartType
  <2>2. CASE c # FANOUT_PASS1
    <3>1. c \in Clusters1 /\ c \in Int
      BY <2>2, Sizes DEF Clusters1
    <3>2. o[c] = d[c]
      BY <2>2, <3>1
    <3>3. ASSUME t = 0 PROVE Rank(Members(y, c), B) = 0
      <4>1. B = 0
        <5>1. Num(y) \in Nat /\ Num(y) \div nthreads \in Nat
          BY <1>2, NumType, QuotientType
        <5>2. (Num(y) \div nthreads) * 0 = 0
          BY <5>1
        <5> QED BY <5>2, <3>3 DEF ShareBegin
      <4>2. \A i \in Members(y, c) : i \in Nat
        BY <1>2, <3>1, ClusterSets
      <4>3. {b \in Members(y, c) : b < 0} = {}
        BY <4>2
      <4> HIDE DEF B, y
      <4> QED BY <4>1, <4>3, FS_EmptySet DEF Rank
    <3>4. Start1(y, c) \in Nat
      BY <1>2, StartType
    <3> HIDE DEF o, d, B, y
    <3> QED BY <1>6, <3>1, <3>2, <3>3, <3>4
  <2> QED BY <2>1, <2>2
<1> HIDE DEF y, B
<1>8. TypeOK'
  <2>1. d \in [Clusters1 -> Nat] /\ o \in [0 .. FANOUT_PASS1 -> Nat]
    BY <1>6, <1>7
  <2> HIDE DEF d, o
  <2>2. output' \in [Rels -> [Threads -> [0 .. FANOUT_PASS1 -> Nat]]]
    BY <1>0, <1>2, <2>1
  <2>3. dst' \in [Threads -> [Clusters1 -> Nat]] /\ pos' \in [Threads -> Nat]
    BY <1>0, <1>2, <1>5, <2>1
  <2> QED BY <1>0, <1>1, <1>3, <2>2, <2>3 DEF TypeOK, PCs
<1>9. HistInv'
  <2>1. \A u \in Threads : \A x : HasCounted(u, x)' => HasCounted(u, x)
    BY <1>0, <1>2 DEF HasCounted, Copied, TasksMade, Partitioned, Joined
  <2> QED BY <1>0, <1>1, <2>1 DEF HistInv
<1>10. \A u \in Threads, x \in Rels : ~(u = t /\ x = y) => (HasOffsets(u, x)' => HasOffsets(u, x))
  BY <1>0, <1>2 DEF HasOffsets, Copied, TasksMade, Partitioned, Joined, y
<1>11. OutputInv'
  <2> SUFFICES ASSUME NEW x \in Rels, HasOffsets(0, x)'
               PROVE  output'[x][0] = [c \in 0 .. FANOUT_PASS1 |-> Start1(x, c)]
    BY DEF OutputInv
  <2>1. CASE t = 0 /\ x = y
    <3>1. o = [c \in 0 .. FANOUT_PASS1 |-> Start1(y, c)]
      BY <2>1, <1>7
    <3> HIDE DEF o
    <3>2. output'[y][t] = o
      BY <1>0, <1>2
    <3> QED BY <2>1, <3>1, <3>2
  <2>2. CASE ~(t = 0 /\ x = y)
    <3> HIDE DEF o
    <3>1. output'[x][0] = output[x][0]
      BY <2>2, <1>0, <1>2
    <3> QED BY <3>1, <2>2, <1>1, <1>2, <1>10 DEF OutputInv
  <2> QED BY <2>1, <2>2
<1>12. CopyInv'
  <2> SUFFICES ASSUME NEW u \in Threads, pc'[u] = "copy"
               PROVE  /\ pos'[u] \in ShareBegin(Num(rel[u]), u) .. ShareEnd(Num(rel[u]), u)
                      /\ \A c \in Clusters1 :
                           dst'[u][c] = Start1(rel[u], c) + Cardinality({i \in Members(rel[u], c) : i < pos'[u]})
    BY <1>0 DEF CopyInv
  <2>1. CASE u = t
    <3>1. pos'[t] = B /\ dst'[t] = d
      BY <1>0, <1>2
    <3>2. B \in ShareBegin(Num(y), t) .. ShareEnd(Num(y), t)
      BY <1>5 DEF B
    <3> HIDE DEF d
    <3> QED BY <2>1, <3>1, <3>2, <1>6 DEF Rank, y
  <2>2. CASE u # t
    BY <2>2, <1>0, <1>1, <1>2 DEF CopyInv
  <2> QED BY <2>1, <2>2
<1>13. TmpInv'
  <2> SUFFICES ASSUME NEW u \in Threads, NEW x \in Rels, HasOffsets(u, x)', NEW i \in Share(x, u),
                      rel[u] = x /\ pc'[u] = "copy" => i < pos'[u]
               PROVE  tmp[x][Slot(x, i)] = i
    BY <1>0 DEF TmpInv
  <2>1. CASE u = t /\ x = y
    <3>1. pos'[t] = B /\ pc'[t] = "copy" /\ rel[t] = y
      BY <1>0, <1>2 DEF y
    <3>2. B <= i /\ i \in Nat
      BY <2>1, ShareIn DEF B
    <3> QED BY <2>1, <3>1, <3>2, <1>5
  <2>2. CASE u = t /\ x # y
    <3>1. HasOffsets(u, x) /\ ~(rel[u] = x)
      BY <2>2, <1>10 DEF y
    <3> QED BY <3>1, <1>1 DEF TmpInv
  <2>3. CASE u # t
    <3>1. HasOffsets(u, x) /\ pc'[u] = pc[u] /\ pos'[u] = pos[u]
      BY <2>3, <1>0, <1>2, <1>10
    <3> QED BY <3>1, <1>1 DEF TmpInv
  <2> QED BY <2>1, <2>2, <2>3
<1>14. MemInv' /\ TaskInv'
  BY <1>0, StillTasks
<1> QED
  BY <1>3, <1>8, <1>9, <1>11, <1>12, <1>13, <1>14 DEF PassInv

(* A tuple is copied to its own slot. *)
LEMMA StepCopy ==
  ASSUME PassInv, NEW t \in Threads, Copy(t)
  PROVE  PassInv'
<1> DEFINE y == rel[t]
           i == pos[t]
           c == Cluster1(y, i)
<1>1. TypeOK /\ PhaseInv /\ HistInv /\ OutputInv /\ CopyInv /\ TmpInv
  BY DEF PassInv
<1>2. /\ pc \in [Threads -> PCs] /\ y \in Rels /\ 0 \in Threads /\ rel \in [Threads -> Rels]
      /\ dst \in [Threads -> [Clusters1 -> Nat]] /\ pos \in [Threads -> Nat]
      /\ DOMAIN tmp = Rels /\ \A x \in Rels : tmp[x] \in [Addr(x) -> Tuples(x) \cup {NoTuple}]
  BY <1>1, Sizes DEF TypeOK, PCs
<1>3. pc[t] = "copy" /\ pos[t] < ShareEnd(Num(y), t) /\ ThreadStep(t)
  BY DEF Copy, ThreadStep
<1>4. i \in Nat /\ i \in ShareBegin(Num(y), t) .. ShareEnd(Num(y), t)
  BY <1>1, <1>2, <1>3 DEF CopyInv
<1>5. i \in Share(y, t) /\ i \in Tuples(y) /\ i + 1 \in ShareBegin(Num(y), t) .. ShareEnd(Num(y), t)
  <2>1. /\ ShareBegin(Num(y), t) \in Nat /\ ShareEnd(Num(y), t) \in Nat
        /\ Share(y, t) \in SUBSET Tuples(y)
        /\ \A j \in Nat : ShareBegin(Num(y), t) <= j /\ j < ShareEnd(Num(y), t) => j \in Share(y, t)
    BY <1>2, ShareIn
  <2> HIDE DEF y, i
  <2>2. ShareBegin(Num(y), t) <= i /\ i < ShareEnd(Num(y), t)
    BY <1>3, <1>4, <2>1 DEF i
  <2>3. i \in Share(y, t)
    BY <1>4, <2>1, <2>2
  <2> QED BY <1>4, <2>1, <2>2, <2>3
<1>6. mem[y][i] = i
  BY <1>2, <1>3, <1>5, Untouched
<1>7. c \in Clusters1 /\ i \in Members(y, c)
  BY <1>2, <1>5, ClusterType DEF Members
<1>8. dst[t][c] = Slot(y, i)
  <2>1. dst[t][c] = Start1(y, c) + Rank(Members(y, c), i)
    BY <1>1, <1>3, <1>7 DEF CopyInv, Rank
  <2> HIDE DEF y, i, c
  <2> QED BY <1>2, <1>7, <2>1, SlotIn
<1>9. /\ tmp' = [tmp EXCEPT ![y][Slot(y, i)] = i]
      /\ dst' = [dst EXCEPT ![t][c] = dst[t][c] + 1]
      /\ pos' = [pos EXCEPT ![t] = i + 1]
      /\ UNCHANGED <<pc, rel, mem, hist, output, part_queue, join_queue, todo, out>>
  BY <1>6, <1>8 DEF Copy
<1>10. Slot(y, i) \in Addr(y)
  <2> HIDE DEF y, i, c
  <2> QED BY <1>2, <1>7, SlotIn, SlotsInSpace
<1>11. rel[t] = y
  OBVIOUS
<1> HIDE DEF y, i
<1>12. PhaseInv' /\ pc' \in [Threads -> PCs] /\ rel' \in [Threads -> Rels]
  BY <1>1, <1>3, StepPhase
<1>13. TypeOK'
  <2>1. dst' \in [Threads -> [Clusters1 -> Nat]] /\ pos' \in [Threads -> Nat]
    BY <1>2, <1>4, <1>7, <1>9
  <2>2. DOMAIN tmp' = Rels
    BY <1>2, <1>9
  <2>3. ASSUME NEW x \in Rels PROVE tmp'[x] \in [Addr(x) -> Tuples(x) \cup {NoTuple}]
    <3>1. tmp[x] \in [Addr(x) -> Tuples(x) \cup {NoTuple}]
      BY <1>2
    <3>2. CASE x = y
      <4>1. tmp'[y] = [tmp[y] EXCEPT ![Slot(y, i)] = i]
        BY <1>2, <1>9
      <4> QED BY <3>1, <3>2, <4>1, <1>5, <1>10
    <3>3. CASE x # y
      BY <3>1, <3>3, <1>2, <1>9
    <3> QED BY <3>2, <3>3
  <2>4. \A x \in Rels : mem'[x] \in [Addr(x) -> Tuples(x) \cup {NoTuple}]
    BY <1>1, <1>9 DEF TypeOK
  <2> QED BY <1>1, <1>9, <1>12, <2>1, <2>2, <2>3, <2>4 DEF TypeOK, PCs
<1>14. HistInv' /\ OutputInv'
  BY <1>1, <1>9 DEF HistInv, OutputInv, HasCounted, HasOffsets
<1>15. ASSUME NEW d \in Clusters1
       PROVE  Rank(Members(y, d), i + 1) = IF d = c THEN Rank(Members(y, d), i) + 1 ELSE Rank(Members(y, d), i)
  <2>1. i \in Members(y, d) <=> d = c
    BY <1>5 DEF Members, c
  <2>2. Members(y, d) \in SUBSET Nat /\ IsFiniteSet(Members(y, d))
    <3>1. d \in Int
      BY DEF Clusters1
    <3> QED BY <3>1, <1>2, ClusterSets
  <2> QED BY <1>4, <2>1, <2>2, RankNext
<1> HIDE DEF c
<1>16. CopyInv'
  <2> SUFFICES ASSUME NEW u \in Threads, pc[u] = "copy"
               PROVE  /\ pos'[u] \in ShareBegin(Num(rel[u]), u) .. ShareEnd(Num(rel[u]), u)
                      /\ \A d \in Clusters1 : dst'[u][d] = Start1(rel[u], d) + Rank(Members(rel[u], d), pos'[u])
    BY <1>9 DEF CopyInv, Rank
  <2>0. /\ pos[u] \in ShareBegin(Num(rel[u]), u) .. ShareEnd(Num(rel[u]), u)
        /\ \A d \in Clusters1 : dst[u][d] = Start1(rel[u], d) + Rank(Members(rel[u], d), pos[u])
    BY <1>1 DEF CopyInv, Rank
  <2>1. CASE u = t
    <3>1. pos'[t] = i + 1 /\ pos[t] = i
      BY <1>2, <1>9 DEF i
    <3>2. ASSUME NEW d \in Clusters1
          PROVE  dst'[t][d] = Start1(y, d) + Rank(Members(y, d), i + 1)
      <4>1. dst[t][d] = Start1(y, d) + Rank(Members(y, d), i)
        BY <2>0, <2>1, <3>1, <1>11
      <4>2. dst'[t][d] = IF d = c THEN dst[t][d] + 1 ELSE dst[t][d]
        BY <1>2, <1>7, <1>9
      <4>3. Start1(y, d) \in Nat /\ Rank(Members(y, d), i) \in Nat
        <5>1. d \in Int /\ d \in 0 .. FANOUT_PASS1
          BY StartNext, <1>2 DEF Clusters1
        <5>2. Members(y, d) \in SUBSET Nat /\ IsFiniteSet(Members(y, d)) /\ Start1(y, d) \in Nat
          BY <5>1, <1>2, ClusterSets, StartType
        <5> QED BY <1>4, <5>2, RankType
      <4> QED BY <4>1, <4>2, <4>3, <1>15
    <3> QED BY <2>1, <3>1, <3>2, <1>5, <1>11
  <2>2. CASE u # t
    <3>1. pos'[u] = pos[u] /\ dst'[u] = dst[u]
      BY <2>2, <1>2, <1>9
    <3> QED BY <2>0, <3>1
  <2> QED BY <2>1, <2>2
<1>17. TmpInv'
  <2> SUFFICES ASSUME NEW u \in Threads, NEW x \in Rels, HasOffsets(u, x), NEW j \in Share(x, u),
                      rel[u] = x /\ pc[u] = "copy" => j < pos'[u]
               PROVE  tmp'[x][Slot(x, j)] = j
    BY <1>9 DEF TmpInv, HasOffsets
  <2>1. j \in Tuples(x) /\ j \in Nat
    BY ShareIn
  <2>2. CASE x = y /\ j = i
    <3>1. tmp'[y] = [tmp[y] EXCEPT ![Slot(y, i)] = i]
      BY <1>2, <1>9
    <3>2. DOMAIN tmp[y] = Addr(y)
      BY <1>2
    <3> QED BY <2>2, <3>1, <3>2, <1>10
  <2>3. CASE ~(x = y /\ j = i)
    <3>1. rel[u] = x /\ pc[u] = "copy" => j < pos[u]
      <4>1. CASE u = t
        <5>1. pos'[u] = i + 1 /\ pos[u] = i
          BY <4>1, <1>2, <1>9 DEF i
        <5> QED BY <5>1, <4>1, <2>1, <2>3, <1>4, <1>11
      <4>2. CASE u # t
        BY <4>2, <1>2, <1>9
      <4> QED BY <4>1, <4>2
    <3>2. tmp[x][Slot(x, j)] = j
      BY <3>1, <1>1 DEF TmpInv
    <3>3. tmp'[x][Slot(x, j)] = tmp[x][Slot(x, j)]
      <4>1. CASE x = y
        <5>1. Slot(y, j) # Slot(y, i)
          BY <4>1, <2>1, <2>3, <1>2, <1>5, SlotUnique
        <5>2. tmp'[y] = [tmp[y] EXCEPT ![Slot(y, i)] = i]
          BY <1>2, <1>9
        <5>3. tmp'[y][Slot(y, j)] = tmp[y][Slot(y, j)]
          BY <5>1, <5>2
        <5> QED BY <4>1, <5>3
      <4>2. CASE x # y
        BY <4>2, <1>2, <1>9
      <4> QED BY <4>1, <4>2
    <3> QED BY <3>2, <3>3
  <2> QED BY <2>2, <2>3
<1>18. MemInv' /\ TaskInv'
  BY <1>3, <1>9, StillTasks
<1> QED
  BY <1>12, <1>13, <1>14, <1>16, <1>17, <1>18 DEF PassInv

(* After the copy of R the thread goes on with S; its part of R is in place. *)
LEMMA StepCopyDone ==
  ASSUME PassInv, NEW t \in Threads, CopyDone(t)
  PROVE  PassInv'
<1>0. TypeOK /\ PhaseInv /\ HistInv /\ OutputInv /\ CopyInv /\ TmpInv
  BY DEF PassInv
<1>1. /\ pc \in [Threads -> PCs] /\ 0 \in Threads /\ rel \in [Threads -> Rels] /\ Rels = {"R", "S"}
      /\ rel[t] \in Rels
  BY <1>0, Sizes DEF TypeOK, PCs, Rels
<1>2. /\ ThreadStep(t) /\ pc[t] = "copy" /\ pos[t] = ShareEnd(Num(rel[t]), t)
      /\ pc' = [pc EXCEPT ![t] = IF rel[t] = "R" THEN "hist" ELSE "copied"]
      /\ rel' = [rel EXCEPT ![t] = "S"]
      /\ UNCHANGED <<mem, tmp, hist, output, dst, pos, part_queue, join_queue, todo, out>>
  BY DEF CopyDone, ThreadStep, Goto
<1>3. PhaseInv' /\ pc' \in [Threads -> PCs] /\ rel' \in [Threads -> Rels]
  BY <1>0, <1>2, StepPhase
<1>4. TypeOK'
  BY <1>0, <1>2, <1>3 DEF TypeOK, PCs
<1>5. \A u \in Threads : \A x \in Rels : /\ HasCounted(u, x)' <=> HasCounted(u, x)
                                         /\ HasOffsets(u, x)' <=> HasOffsets(u, x)
  BY <1>1, <1>2 DEF HasCounted, HasOffsets, Copied, TasksMade, Partitioned, Joined
<1>6. HistInv' /\ OutputInv'
  <2>1. HistInv'
    BY <1>0, <1>2, <1>5 DEF HistInv
  <2>2. OutputInv'
    BY <1>0, <1>1, <1>2, <1>5 DEF OutputInv
  <2> QED BY <2>1, <2>2
<1>7. \A u \in Threads : pc'[u] = "copy" => u # t /\ pc[u] = "copy" /\ rel'[u] = rel[u]
  BY <1>1, <1>2
<1>8. CopyInv'
  BY <1>0, <1>2, <1>7 DEF CopyInv
<1>9. TmpInv'
  <2> SUFFICES ASSUME NEW u \in Threads, NEW x \in Rels, HasOffsets(u, x)', NEW i \in Share(x, u),
                      rel'[u] = x /\ pc'[u] = "copy" => i < pos[u]
               PROVE  tmp[x][Slot(x, i)] = i
    BY <1>2 DEF TmpInv
  <2>1. HasOffsets(u, x)
    BY <1>5
  <2>2. CASE u = t
    <3>1. i \in Nat /\ i < ShareEnd(Num(x), u)
      BY ShareIn
    <3>2. rel[u] = x /\ pc[u] = "copy" => i < pos[u]
      BY <2>2, <3>1, <1>2
    <3> QED BY <2>1, <3>2, <1>0 DEF TmpInv
  <2>3. CASE u # t
    <3>1. pc'[u] = pc[u] /\ rel'[u] = rel[u]
      BY <2>3, <1>1, <1>2
    <3> QED BY <2>1, <3>1, <1>0 DEF TmpInv
  <2> QED BY <2>2, <2>3
<1>10. MemInv' /\ TaskInv'
  BY <1>2, StillTasks
<1> QED
  BY <1>3, <1>4, <1>6, <1>8, <1>9, <1>10 DEF PassInv

------------------------------------------------------------------------------
(* The second pass *)

(* The first pass is complete. *)
InPlace == \A x \in Rels : \A i \in Tuples(x) : tmp[x][Slot(x, i)] = i

LEMMA InPlaceNow ==
  ASSUME PassInv, \A u \in Threads : pc[u] \in Copied
  PROVE  InPlace
<1> SUFFICES ASSUME NEW x \in Rels, NEW i \in Tuples(x) PROVE tmp[x][Slot(x, i)] = i
  BY DEF InPlace
<1>1. PICK t \in Threads : i \in Share(x, t)
  BY ShareOf
<1>2. pc[t] \in Copied /\ pc[t] # "copy"
  <2>1. "copy" \notin Copied
    BY DEF Copied, TasksMade, Partitioned, Joined
  <2> QED BY <2>1
<1>3. HasOffsets(t, x)
  BY <1>2 DEF HasOffsets
<1> QED
  BY <1>1, <1>2, <1>3 DEF PassInv, TmpInv

LEMMA SlotTuple ==
  ASSUME InPlace, NEW x \in Rels, NEW c \in Clusters1, NEW a \in Slots(x, c)
  PROVE  tmp[x][a] \in Members(x, c) /\ Slot(x, tmp[x][a]) = a
<1>1. PICK i \in Members(x, c) : Slot(x, i) = a
  BY SlotOnto
<1>2. i \in Tuples(x)
  BY DEF Members
<1> QED
  BY <1>1, <1>2 DEF InPlace

(* There are as many slots with tuples of Q as there are tuples in Q. *)
LEMMA CountThrough ==
  ASSUME InPlace, NEW x \in Rels, NEW c \in Clusters1, NEW Q \in SUBSET Members(x, c)
  PROVE  /\ IsFiniteSet({a \in Slots(x, c) : tmp[x][a] \in Q})
         /\ Cardinality({a \in Slots(x, c) : tmp[x][a] \in Q}) = Cardinality(Q)
<1> DEFINE A == {a \in Slots(x, c) : tmp[x][a] \in Q}
           f == [a \in A |-> tmp[x][a]]
<1>1. IsFiniteSet(A)
  <2>1. IsFiniteSet(Slots(x, c))
    <3>1. c \in Int /\ c \in 0 .. FANOUT_PASS1
      BY StartNext DEF Clusters1
    <3>2. Start1(x, c) \in Int /\ Start1(x, c) + Cardinality(Members(x, c)) - 1 \in Int
      BY <3>1, StartType, ClusterSets
    <3> QED BY <3>2, FS_Interval DEF Slots
  <2> QED BY <2>1, FS_Subset
<1>2. \A a \in A : Slot(x, tmp[x][a]) = a
  BY SlotTuple
<1>3. f \in Injection(A, Q)
  <2>1. f \in [A -> Q]
    OBVIOUS
  <2>2. \A a, b \in A : f[a] = f[b] => a = b
    BY <1>2
  <2> QED BY <2>1, <2>2 DEF Injection, IsInjective
<1>4. f \in Surjection(A, Q)
  <2>1. ASSUME NEW i \in Q PROVE \E a \in A : f[a] = i
    <3>1. i \in Members(x, c) /\ i \in Tuples(x)
      BY DEF Members
    <3>2. Slot(x, i) \in Slots(x, c) /\ tmp[x][Slot(x, i)] = i
      BY <3>1, SlotIn DEF InPlace
    <3> QED BY <3>2
  <2> QED BY <2>1 DEF Surjection
<1>5. ExistsBijection(A, Q)
  BY <1>3, <1>4 DEF ExistsBijection, Bijection
<1> QED
  BY <1>1, <1>5, FS_Bijection

(* The tuples of the pieces of cluster c below d, and where the d-th begins *)
Lower2(x, c, d)    == {i \in Members(x, c) : Cluster2(x, i) < d}
PartStart(x, c, d) == Start1(x, c) + d * SMALL_PADDING_TUPLES + Cardinality(Lower2(x, c, d))
PartSlots(x, c, d) == PartStart(x, c, d) .. PartStart(x, c, d) + Cardinality(Members2(x, c, d)) - 1

LEMMA PieceSets ==
  ASSUME NEW x \in Rels, NEW c \in Clusters1, NEW d \in Clusters2
  PROVE  /\ Members2(x, c, d) \in SUBSET Members(x, c) /\ Lower2(x, c, d) \in SUBSET Members(x, c)
         /\ IsFiniteSet(Members2(x, c, d)) /\ IsFiniteSet(Lower2(x, c, d))
         /\ Cardinality(Members2(x, c, d)) \in Nat /\ Cardinality(Lower2(x, c, d)) \in Nat
         /\ Cardinality(Lower2(x, c, d)) + Cardinality(Members2(x, c, d)) <= Cardinality(Members(x, c))
<1>1. c \in Int
  BY DEF Clusters1
<1>2. IsFiniteSet(Members(x, c)) /\ Members(x, c) \in SUBSET Tuples(x)
  BY <1>1, ClusterSets
<1>3. Members2(x, c, d) \in SUBSET Members(x, c) /\ Lower2(x, c, d) \in SUBSET Members(x, c)
  BY DEF Members2, Lower2
<1>4. IsFiniteSet(Members2(x, c, d)) /\ IsFiniteSet(Lower2(x, c, d))
  BY <1>2, <1>3, FS_Subset
<1>5. Members2(x, c, d) \cap Lower2(x, c, d) = {}
  <2>1. d \in Int
    BY DEF Clusters2
  <2> QED BY <2>1 DEF Members2, Lower2
<1>6. Cardinality(Members2(x, c, d) \cup Lower2(x, c, d))
        = Cardinality(Members2(x, c, d)) + Cardinality(Lower2(x, c, d))
  BY <1>4, <1>5, CardDisjoint
<1>7. Cardinality(Members2(x, c, d) \cup Lower2(x, c, d)) <= Cardinality(Members(x, c))
  <2>1. Members2(x, c, d) \cup Lower2(x, c, d) \in SUBSET Members(x, c)
    BY <1>3
  <2> QED BY <1>2, <2>1, FS_Subset
<1>8. Cardinality(Members2(x, c, d)) \in Nat /\ Cardinality(Lower2(x, c, d)) \in Nat
  BY <1>4, FS_CardinalityType
<1> QED
  BY <1>3, <1>4, <1>6, <1>7, <1>8

(* A piece lies within the slots of its cluster and the padding behind them. *)
LEMMA PartWithin ==
  ASSUME NEW x \in Rels, NEW c \in Clusters1, NEW d \in Clusters2
  PROVE  /\ PartStart(x, c, d) \in Nat
         /\ Start1(x, c) <= PartStart(x, c, d)
         /\ PartStart(x, c, d) + Cardinality(Members2(x, c, d))
              <= Start1(x, c) + Cardinality(Members(x, c)) + PADDING_TUPLES
<1>1. c \in Int /\ c \in 0 .. FANOUT_PASS1 /\ d \in Nat /\ d <= FANOUT_PASS2 + 1 /\ FANOUT_PASS2 + 1 \in Nat
  BY StartNext, Sizes DEF Clusters1, Clusters2
<1>2. Start1(x, c) \in Nat /\ Cardinality(Members(x, c)) \in Nat
  BY <1>1, StartType, ClusterSets
<1>3. d * SMALL_PADDING_TUPLES \in Nat /\ d * SMALL_PADDING_TUPLES <= PADDING_TUPLES
  <2>1. SMALL_PADDING_TUPLES * d <= SMALL_PADDING_TUPLES * (FANOUT_PASS2 + 1) /\ SMALL_PADDING_TUPLES * d \in Nat
    BY <1>1, Sizes, MulMono
  <2>2. d * SMALL_PADDING_TUPLES = SMALL_PADDING_TUPLES * d
    BY <1>1, Sizes
  <2> QED BY <2>1, <2>2 DEF PADDING_TUPLES
<1>4. /\ Cardinality(Members2(x, c, d)) \in Nat /\ Cardinality(Lower2(x, c, d)) \in Nat
      /\ Cardinality(Lower2(x, c, d)) + Cardinality(Members2(x, c, d)) <= Cardinality(Members(x, c))
  BY PieceSets
<1> QED
  BY <1>2, <1>3, <1>4, Sizes DEF PartStart

LEMMA PartOrder ==
  ASSUME NEW x \in Rels, NEW c \in Clusters1, NEW d \in Clusters2, NEW e \in Clusters2, d < e
  PROVE  PartStart(x, c, d) + Cardinality(Members2(x, c, d)) <= PartStart(x, c, e)
<1>1. d \in Nat /\ e \in Nat /\ c \in Int /\ c \in 0 .. FANOUT_PASS1
  BY StartNext, Sizes DEF Clusters1, Clusters2
<1>2. SMALL_PADDING_TUPLES * d <= SMALL_PADDING_TUPLES * e /\ SMALL_PADDING_TUPLES * d \in Nat
      /\ SMALL_PADDING_TUPLES * e \in Nat
  BY <1>1, Sizes, MulMono
<1>3. d * SMALL_PADDING_TUPLES = SMALL_PADDING_TUPLES * d /\ e * SMALL_PADDING_TUPLES = SMALL_PADDING_TUPLES * e
  BY <1>1, Sizes
<1>4. Cardinality(Lower2(x, c, d)) + Cardinality(Members2(x, c, d)) <= Cardinality(Lower2(x, c, e))
  <2>1. \A i \in Members(x, c) : Cluster2(x, i) \in Nat
    <3>1. \A i \in Members(x, c) : i \in Tuples(x)
      BY DEF Members
    <3> QED BY <3>1, ClusterType DEF Clusters2
  <2>2. Members2(x, c, d) \cup Lower2(x, c, d) \in SUBSET Lower2(x, c, e)
        /\ Members2(x, c, d) \cap Lower2(x, c, d) = {}
    BY <1>1, <2>1 DEF Members2, Lower2
  <2>3. Cardinality(Members2(x, c, d) \cup Lower2(x, c, d))
          = Cardinality(Members2(x, c, d)) + Cardinality(Lower2(x, c, d))
    BY <2>2, PieceSets, CardDisjoint
  <2>4. Cardinality(Members2(x, c, d) \cup Lower2(x, c, d)) <= Cardinality(Lower2(x, c, e))
    BY <2>2, PieceSets, FS_Subset
  <2>5. Cardinality(Members2(x, c, d)) \in Nat /\ Cardinality(Lower2(x, c, d)) \in Nat
    BY PieceSets
  <2> QED BY <2>3, <2>4, <2>5
<1>5. Start1(x, c) \in Nat /\ Cardinality(Members2(x, c, d)) \in Nat /\ Cardinality(Lower2(x, c, d)) \in Nat
      /\ Cardinality(Lower2(x, c, e)) \in Nat
  BY <1>1, StartType, PieceSets
<1> QED
  BY <1>2, <1>3, <1>4, <1>5 DEF PartStart

(* No two pieces share a slot. *)
LEMMA PartsApart ==
  ASSUME NEW x \in Rels, NEW c \in Clusters1, NEW d \in Clusters2, NEW k \in Clusters1, NEW e \in Clusters2,
         NEW a, a \in PartSlots(x, c, d), a \in PartSlots(x, k, e)
  PROVE  c = k /\ d = e
<1>1. c \in Int /\ k \in Int /\ d \in Int /\ e \in Int /\ c \in 0 .. FANOUT_PASS1 /\ k \in 0 .. FANOUT_PASS1
  BY StartNext DEF Clusters1, Clusters2
<1>2. /\ a \in Int
      /\ PartStart(x, c, d) <= a /\ a < PartStart(x, c, d) + Cardinality(Members2(x, c, d))
      /\ PartStart(x, k, e) <= a /\ a < PartStart(x, k, e) + Cardinality(Members2(x, k, e))
  <2>1. /\ PartStart(x, c, d) \in Nat /\ PartStart(x, k, e) \in Nat
        /\ Cardinality(Members2(x, c, d)) \in Nat /\ Cardinality(Members2(x, k, e)) \in Nat
    BY PartWithin, PieceSets
  <2> QED BY <2>1 DEF PartSlots
<1>3. /\ PartStart(x, c, d) \in Nat /\ PartStart(x, k, e) \in Nat
      /\ Cardinality(Members2(x, c, d)) \in Nat /\ Cardinality(Members2(x, k, e)) \in Nat
      /\ Start1(x, c) <= PartStart(x, c, d) /\ Start1(x, k) <= PartStart(x, k, e)
      /\ PartStart(x, c, d) + Cardinality(Members2(x, c, d))
              <= Start1(x, c) + Cardinality(Members(x, c)) + PADDING_TUPLES
      /\ PartStart(x, k, e) + Cardinality(Members2(x, k, e))
              <= Start1(x, k) + Cardinality(Members(x, k)) + PADDING_TUPLES
  BY PartWithin, PieceSets
<1>4. /\ Start1(x, c) \in Nat /\ Start1(x, k) \in Nat /\ PADDING_TUPLES \in Nat
      /\ Cardinality(Members(x, c)) \in Nat /\ Cardinality(Members(x, k)) \in Nat
  BY <1>1, StartType, ClusterSets, Sizes
<1>5. ~(c < k)
  <2> SUFFICES ASSUME c < k PROVE FALSE
    OBVIOUS
  <2>1. Start1(x, c) + Cardinality(Members(x, c)) + PADDING_TUPLES <= Start1(x, k)
    BY <1>1, StartOrder
  <2> QED BY <1>2, <1>3, <1>4, <2>1
<1>6. ~(k < c)
  <2> SUFFICES ASSUME k < c PROVE FALSE
    OBVIOUS
  <2>1. Start1(x, k) + Cardinality(Members(x, k)) + PADDING_TUPLES <= Start1(x, c)
    BY <1>1, StartOrder
  <2> QED BY <1>2, <1>3, <1>4, <2>1
<1>7. c = k
  BY <1>1, <1>5, <1>6
<1>8. ~(d < e)
  <2> SUFFICES ASSUME d < e PROVE FALSE
    OBVIOUS
  <2>1. PartStart(x, c, d) + Cardinality(Members2(x, c, d)) <= PartStart(x, c, e)
    BY PartOrder
  <2> QED BY <1>2, <1>3, <1>7, <2>1
<1>9. ~(e < d)
  <2> SUFFICES ASSUME e < d PROVE FALSE
    OBVIOUS
  <2>1. PartStart(x, c, e) + Cardinality(Members2(x, c, e)) <= PartStart(x, c, d)
    BY PartOrder
  <2> QED BY <1>2, <1>3, <1>7, <2>1
<1> QED
  BY <1>1, <1>7, <1>8, <1>9

LEMMA PartInSpace ==
  ASSUME NEW x \in Rels, NEW c \in Clusters1, NEW d \in Clusters2
  PROVE  PartSlots(x, c, d) \in SUBSET Addr(x) /\ PartSlots(x, c, d) \in SUBSET Nat
<1>1. c \in Int /\ c \in 0 .. FANOUT_PASS1 /\ FANOUT_PASS1 \in 0 .. FANOUT_PASS1 /\ c < FANOUT_PASS1
  BY Sizes, StartNext DEF Clusters1
<1>2. /\ Start1(x, c) \in Nat /\ Cardinality(Members(x, c)) \in Nat /\ Num(x) \in Nat
      /\ Cardinality(Members2(x, c, d)) \in Nat
  BY <1>1, StartType, ClusterSets, NumType, PieceSets
<1>3. Start1(x, c) + Cardinality(Members(x, c)) + PADDING_TUPLES <= Num(x) + FANOUT_PASS1 * PADDING_TUPLES
  BY <1>1, StartOrder, StartEnd
<1>4. FANOUT_PASS1 * PADDING_TUPLES \in Nat /\ PADDING_TUPLES \in Nat
  BY Sizes
<1>5. /\ PartStart(x, c, d) \in Nat
      /\ PartStart(x, c, d) + Cardinality(Members2(x, c, d))
           <= Start1(x, c) + Cardinality(Members(x, c)) + PADDING_TUPLES
  BY PartWithin
<1> QED
  BY <1>2, <1>3, <1>4, <1>5 DEF PartSlots, Addr

(* What the tasks are *)
LEMMA TaskIs ==
  ASSUME NEW x \in Rels, NEW c \in Clusters1
  PROVE  /\ Whole(c).base[x] = Start1(x, c) /\ Whole(c).n[x] = Cardinality(Members(x, c))
         /\ Piece(Whole(c), x) = Slots(x, c)
         /\ \A d \in Clusters2 : /\ Part(c, d).base[x] = PartStart(x, c, d)
                                 /\ Part(c, d).n[x] = Cardinality(Members2(x, c, d))
                                 /\ Piece(Part(c, d), x) = PartSlots(x, c, d)
<1>1. Whole(c).base[x] = Start1(x, c) /\ Whole(c).n[x] = Cardinality(Members(x, c))
  BY DEF Whole
<1>2. ASSUME NEW d \in Clusters2
      PROVE  Part(c, d).base[x] = PartStart(x, c, d) /\ Part(c, d).n[x] = Cardinality(Members2(x, c, d))
  BY DEF Part, PartStart, Lower2
<1> QED
  BY <1>1, <1>2 DEF Piece, Slots, PartSlots

LEMMA TaskTypes ==
  ASSUME NEW c \in Clusters1
  PROVE  /\ Whole(c) \in Task
         /\ \A d \in Clusters2 : Part(c, d) \in Task
<1>1. c \in Int /\ c \in 0 .. FANOUT_PASS1
  BY StartNext DEF Clusters1, Rels
<1>2. \A x \in Rels : Start1(x, c) \in Nat /\ Cardinality(Members(x, c)) \in Nat
  BY <1>1, StartType, ClusterSets
<1>3. Whole(c) \in Task
  BY <1>2 DEF Whole, Task
<1>4. ASSUME NEW d \in Clusters2 PROVE Part(c, d) \in Task
  <2>1. \A x \in Rels : PartStart(x, c, d) \in Nat /\ Cardinality(Members2(x, c, d)) \in Nat
    BY PartWithin, PieceSets
  <2> QED BY <2>1 DEF Part, Task, PartStart, Lower2
<1> QED
  BY <1>3, <1>4

(* The slots of tmp whose tuples go to the d-th piece *)
LEMMA SubSets ==
  ASSUME InPlace, NEW x \in Rels, NEW c \in Clusters1, NEW d \in Clusters2
  PROVE  /\ InCluster(Whole(c), x, d) \in SUBSET Slots(x, c)
         /\ InCluster(Whole(c), x, d) \in SUBSET Nat
         /\ IsFiniteSet(InCluster(Whole(c), x, d))
         /\ Cardinality(InCluster(Whole(c), x, d)) = Cardinality(Members2(x, c, d))
         /\ \A a \in Slots(x, c) : a \in InCluster(Whole(c), x, d) <=> tmp[x][a] \in Members2(x, c, d)
         /\ IsFiniteSet({a \in Slots(x, c) : Cluster2(x, tmp[x][a]) < d})
         /\ Cardinality({a \in Slots(x, c) : Cluster2(x, tmp[x][a]) < d}) = Cardinality(Lower2(x, c, d))
         /\ SubStart(Whole(c), x, d) = PartStart(x, c, d)
<1>1. \A a \in Slots(x, c) : tmp[x][a] \in Members(x, c)
  BY SlotTuple
<1>2. Slots(x, c) \in SUBSET Nat
  BY SlotsInSpace
<1>3. InCluster(Whole(c), x, d) = {a \in Slots(x, c) : tmp[x][a] \in Members2(x, c, d)}
  BY <1>1, TaskIs DEF InCluster, Members2
<1>4. {a \in Slots(x, c) : Cluster2(x, tmp[x][a]) < d} = {a \in Slots(x, c) : tmp[x][a] \in Lower2(x, c, d)}
  BY <1>1 DEF Lower2
<1>5. Members2(x, c, d) \in SUBSET Members(x, c) /\ Lower2(x, c, d) \in SUBSET Members(x, c)
  BY PieceSets
<1>6. /\ IsFiniteSet({a \in Slots(x, c) : tmp[x][a] \in Members2(x, c, d)})
      /\ Cardinality({a \in Slots(x, c) : tmp[x][a] \in Members2(x, c, d)}) = Cardinality(Members2(x, c, d))
  BY <1>5, CountThrough
<1>7. /\ IsFiniteSet({a \in Slots(x, c) : tmp[x][a] \in Lower2(x, c, d)})
      /\ Cardinality({a \in Slots(x, c) : tmp[x][a] \in Lower2(x, c, d)}) = Cardinality(Lower2(x, c, d))
  BY <1>5, CountThrough
<1>8. SubStart(Whole(c), x, d) = PartStart(x, c, d)
  BY <1>4, <1>7, TaskIs DEF SubStart, PartStart
<1> QED
  BY <1>2, <1>3, <1>4, <1>6, <1>7, <1>8

(* A tuple is scattered into its piece, the tuples of a piece to all of its  *)
(* slots, no two to the same one.                                           *)
LEMMA ScatterIn ==
  ASSUME InPlace, NEW x \in Rels, NEW c \in Clusters1, NEW d \in Clusters2,
         NEW a \in InCluster(Whole(c), x, d)
  PROVE  /\ Scatter(Whole(c), x, a) = PartStart(x, c, d) + Rank(InCluster(Whole(c), x, d), a)
         /\ Rank(InCluster(Whole(c), x, d), a) \in Nat
         /\ Scatter(Whole(c), x, a) \in PartSlots(x, c, d)
<1>1. Cluster2(x, tmp[x][a]) = d
  BY DEF InCluster
<1>2. Scatter(Whole(c), x, a) = PartStart(x, c, d) + Rank(InCluster(Whole(c), x, d), a)
  BY <1>1, SubSets DEF Scatter, Rank
<1>3. /\ InCluster(Whole(c), x, d) \in SUBSET Nat /\ IsFiniteSet(InCluster(Whole(c), x, d))
      /\ Cardinality(InCluster(Whole(c), x, d)) = Cardinality(Members2(x, c, d)) /\ a \in Nat
  BY SubSets
<1>4. Rank(InCluster(Whole(c), x, d), a) \in Nat
      /\ Rank(InCluster(Whole(c), x, d), a) < Cardinality(Members2(x, c, d))
      /\ Cardinality(Members2(x, c, d)) \in Nat
  BY <1>3, RankType
<1>5. PartStart(x, c, d) \in Nat
  BY PartWithin
<1> QED
  BY <1>2, <1>4, <1>5 DEF PartSlots

LEMMA ScatterOnto ==
  ASSUME InPlace, NEW x \in Rels, NEW c \in Clusters1, NEW d \in Clusters2, NEW e \in PartSlots(x, c, d)
  PROVE  \E a \in InCluster(Whole(c), x, d) : Scatter(Whole(c), x, a) = e
<1>1. /\ InCluster(Whole(c), x, d) \in SUBSET Nat /\ IsFiniteSet(InCluster(Whole(c), x, d))
      /\ Cardinality(InCluster(Whole(c), x, d)) = Cardinality(Members2(x, c, d))
      /\ Cardinality(Members2(x, c, d)) \in Nat /\ PartStart(x, c, d) \in Nat
  BY SubSets, PieceSets, PartWithin
<1>2. e - PartStart(x, c, d) \in 0 .. Cardinality(InCluster(Whole(c), x, d)) - 1 /\ e \in Int
  BY <1>1 DEF PartSlots
<1>3. PICK a \in InCluster(Whole(c), x, d) : Rank(InCluster(Whole(c), x, d), a) = e - PartStart(x, c, d)
  BY <1>1, <1>2, RankOnto
<1>4. Scatter(Whole(c), x, a) = PartStart(x, c, d) + Rank(InCluster(Whole(c), x, d), a)
  BY ScatterIn
<1> QED
  BY <1>1, <1>2, <1>3, <1>4

LEMMA ScatterUnique ==
  ASSUME InPlace, NEW x \in Rels, NEW c \in Clusters1, NEW a \in Slots(x, c), NEW b \in Slots(x, c),
         Scatter(Whole(c), x, a) = Scatter(Whole(c), x, b)
  PROVE  a = b
<1> DEFINE d == Cluster2(x, tmp[x][a])
           e == Cluster2(x, tmp[x][b])
<1>1. d \in Clusters2 /\ e \in Clusters2
  <2>1. tmp[x][a] \in Tuples(x) /\ tmp[x][b] \in Tuples(x)
    BY SlotTuple DEF Members
  <2> QED BY <2>1, ClusterType
<1>2. a \in InCluster(Whole(c), x, d) /\ b \in InCluster(Whole(c), x, e)
  BY TaskIs DEF InCluster
<1> HIDE DEF d, e
<1>3. /\ Scatter(Whole(c), x, a) \in PartSlots(x, c, d) /\ Scatter(Whole(c), x, b) \in PartSlots(x, c, e)
  BY <1>1, <1>2, ScatterIn
<1>4. d = e
  BY <1>1, <1>3, PartsApart
<1> DEFINE A == InCluster(Whole(c), x, d)
<1>5. /\ Scatter(Whole(c), x, a) = PartStart(x, c, d) + Rank(A, a) /\ Rank(A, a) \in Nat
      /\ Scatter(Whole(c), x, b) = PartStart(x, c, d) + Rank(A, b) /\ Rank(A, b) \in Nat
      /\ a \in A /\ b \in A
  BY <1>1, <1>2, <1>4, ScatterIn
<1>6. PartStart(x, c, d) \in Nat /\ A \in SUBSET Nat /\ IsFiniteSet(A)
  BY <1>1, PartWithin, SubSets
<1> HIDE DEF A
<1>7. Rank(A, a) = Rank(A, b)
  <2>1. PartStart(x, c, d) + Rank(A, a) = PartStart(x, c, d) + Rank(A, b)
    BY <1>5
  <2>2. \A m, n, k \in Nat : m + n = m + k => n = k
    OBVIOUS
  <2> QED BY <1>5, <1>6, <2>1, <2>2
<1> QED
  BY <1>5, <1>6, <1>7, RankUnique

(* What radix_cluster writes *)
LEMMA ClusterWrites ==
  ASSUME InPlace, NEW x \in Rels, NEW c \in Clusters1, NEW e \in Addr(x)
  PROVE  /\ \A a \in Slots(x, c) : Scatter(Whole(c), x, a) = e => radix_cluster(Whole(c), x)[e] = tmp[x][a]
         /\ (\A a \in Slots(x, c) : Scatter(Whole(c), x, a) # e) => radix_cluster(Whole(c), x)[e] = mem[x][e]
<1> DEFINE from == {a \in Slots(x, c) : Scatter(Whole(c), x, a) = e}
<1>1. radix_cluster(Whole(c), x)[e] = IF from = {} THEN mem[x][e] ELSE tmp[x][Max(from)]
  BY TaskIs DEF radix_cluster
<1>2. ASSUME NEW a \in Slots(x, c), Scatter(Whole(c), x, a) = e
      PROVE  from = {a} /\ Max(from) = a
  <2>1. \A b \in from : b = a
    BY <1>2, ScatterUnique
  <2>2. from = {a}
    BY <1>2, <2>1
  <2>3. a \in Nat
    BY SlotsInSpace
  <2> HIDE DEF from
  <2>4. Max(from) = CHOOSE y \in {a} : \A z \in {a} : y >= z
    BY <2>2 DEF Max
  <2>5. \A z \in {a} : a >= z
    BY <2>3
  <2> QED BY <2>2, <2>4, <2>5
<1> QED
  BY <1>1, <1>2

(* The pieces of cluster c are what they should be afterwards, and the rest  *)
(* is as before.                                                            *)
LEMMA ClusterExact ==
  ASSUME InPlace, NEW x \in Rels, NEW c \in Clusters1, NEW d \in Clusters2
  PROVE  {radix_cluster(Whole(c), x)[e] : e \in PartSlots(x, c, d)} = Members2(x, c, d)
<1>1. ASSUME NEW e \in PartSlots(x, c, d) PROVE radix_cluster(Whole(c), x)[e] \in Members2(x, c, d)
  <2>1. PICK a \in InCluster(Whole(c), x, d) : Scatter(Whole(c), x, a) = e
    BY ScatterOnto
  <2>2. a \in Slots(x, c) /\ tmp[x][a] \in Members2(x, c, d) /\ e \in Addr(x)
    BY SubSets, PartInSpace
  <2> QED BY <2>1, <2>2, ClusterWrites
<1>2. ASSUME NEW i \in Members2(x, c, d)
      PROVE  \E e \in PartSlots(x, c, d) : radix_cluster(Whole(c), x)[e] = i
  <2>1. i \in Members(x, c) /\ i \in Tuples(x)
    BY DEF Members2, Members
  <2>2. Slot(x, i) \in Slots(x, c) /\ tmp[x][Slot(x, i)] = i
    BY <2>1, SlotIn DEF InPlace
  <2>3. Slot(x, i) \in InCluster(Whole(c), x, d)
    BY <2>2, SubSets
  <2>4. Scatter(Whole(c), x, Slot(x, i)) \in PartSlots(x, c, d)
    BY <2>3, ScatterIn
  <2>5. Scatter(Whole(c), x, Slot(x, i)) \in Addr(x)
    BY <2>4, PartInSpace
  <2>6. radix_cluster(Whole(c), x)[Scatter(Whole(c), x, Slot(x, i))] = tmp[x][Slot(x, i)]
    BY <2>2, <2>5, ClusterWrites
  <2> QED BY <2>2, <2>4, <2>6
<1> QED
  BY <1>1, <1>2

LEMMA ClusterElse ==
  ASSUME InPlace, NEW x \in Rels, NEW c \in Clusters1, NEW k \in Clusters1, k # c, NEW d \in Clusters2,
         NEW e \in PartSlots(x, k, d)
  PROVE  radix_cluster(Whole(c), x)[e] = mem[x][e]
<1>1. e \in Addr(x)
  BY PartInSpace
<1>2. ASSUME NEW a \in Slots(x, c) PROVE Scatter(Whole(c), x, a) # e
  <2>1. Cluster2(x, tmp[x][a]) \in Clusters2
    <3>1. tmp[x][a] \in Tuples(x)
      BY SlotTuple DEF Members
    <3> QED BY <3>1, ClusterType
  <2>2. a \in InCluster(Whole(c), x, Cluster2(x, tmp[x][a]))
    BY TaskIs DEF InCluster
  <2>3. Scatter(Whole(c), x, a) \in PartSlots(x, c, Cluster2(x, tmp[x][a]))
    BY <2>1, <2>2, ScatterIn
  <2> QED BY <2>1, <2>3, PartsApart
<1> QED
  BY <1>1, <1>2, ClusterWrites

LEMMA ClusterTypeOK ==
  ASSUME InPlace, NEW x \in Rels, NEW c \in Clusters1, mem[x] \in [Addr(x) -> Tuples(x) \cup {NoTuple}]
  PROVE  radix_cluster(Whole(c), x) \in [Addr(x) -> Tuples(x) \cup {NoTuple}]
<1>1. ASSUME NEW e \in Addr(x) PROVE radix_cluster(Whole(c), x)[e] \in Tuples(x) \cup {NoTuple}
  <2>1. CASE \E a \in Slots(x, c) : Scatter(Whole(c), x, a) = e
    <3>1. PICK a \in Slots(x, c) : Scatter(Whole(c), x, a) = e
      BY <2>1
    <3>2. tmp[x][a] \in Tuples(x)
      BY SlotTuple DEF Members
    <3>3. radix_cluster(Whole(c), x)[e] = tmp[x][a]
      BY <3>1, ClusterWrites
    <3> QED BY <3>2, <3>3
  <2>2. CASE ~(\E a \in Slots(x, c) : Scatter(Whole(c), x, a) = e)
    <3>1. radix_cluster(Whole(c), x)[e] = mem[x][e]
      BY <2>2, ClusterWrites
    <3> QED BY <3>1
  <2> QED BY <2>1, <2>2
<1>2. radix_cluster(Whole(c), x) = [e \in Addr(x) |-> radix_cluster(Whole(c), x)[e]]
  BY DEF radix_cluster
<1> HIDE DEF radix_cluster
<1> QED
  BY <1>1, <1>2

(* The join tasks serial_radix_partition makes are the pieces. *)
LEMMA JoinTaskIs ==
  ASSUME InPlace, NEW c \in Clusters1, NEW d \in Clusters2
  PROVE  JoinTask(Whole(c), d) = Part(c, d)
<1>1. ASSUME NEW x \in Rels
      PROVE  /\ SumOver([e \in Clusters2 |-> Cardinality(InCluster(Whole(c), x, e))], 0 .. d - 1)
                  = Cardinality(Lower2(x, c, d))
             /\ Cardinality(InCluster(Whole(c), x, d)) = Cardinality(Members2(x, c, d))
             /\ Whole(c).base[x] = Start1(x, c)
  <2> DEFINE D == 0 .. d - 1
             F == [e \in Clusters2 |-> InCluster(Whole(c), x, e)]
             f == [e \in Clusters2 |-> Cardinality(InCluster(Whole(c), x, e))]
             U == {a \in Slots(x, c) : Cluster2(x, tmp[x][a]) < d}
  <2>1. d \in Nat /\ IsFiniteSet(D) /\ \A e \in D : e \in Clusters2 /\ e < d
    <3>1. d \in Nat /\ d <= FANOUT_PASS2 - 1 /\ FANOUT_PASS2 \in Nat
      BY Sizes DEF Clusters2
    <3>2. IsFiniteSet(D)
      BY <3>1, FS_Interval
    <3> QED BY <3>1, <3>2 DEF Clusters2
  <2>2. IsFiniteSet(U) /\ Cardinality(U) = Cardinality(Lower2(x, c, d))
    BY SubSets
  <2>3. \A e \in D : \A a \in F[e] : a \in Slots(x, c) /\ Cluster2(x, tmp[x][a]) = e
    BY <2>1, TaskIs DEF InCluster
  <2>4. \A a \in U : Cluster2(x, tmp[x][a]) \in D /\ a \in F[Cluster2(x, tmp[x][a])]
    <3>1. ASSUME NEW a \in U PROVE Cluster2(x, tmp[x][a]) \in Clusters2
      <4>1. tmp[x][a] \in Tuples(x)
        BY SlotTuple DEF Members
      <4> QED BY <4>1, ClusterType
    <3>2. \A a \in U : Cluster2(x, tmp[x][a]) \in D
      BY <2>1, <3>1 DEF Clusters2
    <3>3. \A a \in U : a \in Piece(Whole(c), x)
      BY TaskIs
    <3> QED BY <3>1, <3>2, <3>3 DEF InCluster
  <2>5. \A e \in D : f[e] = Cardinality(F[e])
    BY <2>1
  <2> HIDE DEF F, f, D
  <2>6. \A e \in D : F[e] \in SUBSET U /\ f[e] = Cardinality(F[e])
    BY <2>1, <2>3, <2>5
  <2>7. \A e, g \in D : e # g => F[e] \cap F[g] = {}
    BY <2>3
  <2>8. UNION {F[e] : e \in D} = U
    BY <2>4, <2>6
  <2> HIDE DEF U
  <2>9. SumOver(f, D) = Cardinality(UNION {F[e] : e \in D})
    BY <2>1, <2>2, <2>6, <2>7, SumOfSets
  <2> QED BY <2>2, <2>8, <2>9, SubSets, TaskIs DEF f, D
<1> QED
  BY <1>1 DEF JoinTask, Part, Lower2

------------------------------------------------------------------------------
(* The steps of the second pass *)

LEMMA InOrderIs ==
  ASSUME NEW C \in SUBSET Nat, IsFiniteSet(C)
  PROVE  /\ Cardinality(C) \in Nat
         /\ InOrder(C) \in Seq(C) /\ Len(InOrder(C)) = Cardinality(C)
         /\ \A k \in 1 .. Cardinality(C) : InOrder(C)[k] \in C /\ Rank(C, InOrder(C)[k]) = k - 1
<1>1. Cardinality(C) \in Nat
  BY FS_CardinalityType
<1>2. ASSUME NEW k \in 1 .. Cardinality(C)
      PROVE  InOrder(C)[k] \in C /\ Rank(C, InOrder(C)[k]) = k - 1
  <2>1. k - 1 \in 0 .. Cardinality(C) - 1
    BY <1>1
  <2>2. \E c \in C : Rank(C, c) = k - 1
    BY <2>1, RankOnto
  <2>3. InOrder(C)[k] = CHOOSE c \in C : Rank(C, c) = k - 1
    BY DEF InOrder, Rank
  <2> QED BY <2>2, <2>3
<1>3. InOrder(C) \in [1 .. Cardinality(C) -> C]
  <2> DEFINE pick(k) == CHOOSE c \in C : Cardinality({d \in C : d < c}) = k - 1
  <2>1. InOrder(C) = [k \in 1 .. Cardinality(C) |-> pick(k)]
    BY DEF InOrder
  <2> HIDE DEF pick
  <2> QED BY <1>2, <2>1
<1>4. InOrder(C) \in Seq(C) /\ Len(InOrder(C)) = Cardinality(C)
  BY <1>1, <1>3
<1> QED
  BY <1>1, <1>2, <1>4

LEMMA CalmStep ==
  ASSUME PassInv, NEW t \in Threads, Calm(t), TypeOK', MemInv', TaskInv'
  PROVE  PassInv'
<1>1. TypeOK /\ PhaseInv /\ HistInv /\ OutputInv /\ CopyInv /\ TmpInv
  BY DEF PassInv
<1>2. ThreadStep(t)
  BY DEF Calm, ThreadStep
<1>3. PhaseInv'
  BY <1>1, <1>2, StepPhase
<1> QED
  BY <1>1, <1>3, CalmFirstPass DEF PassInv

(* Steps that only move the thread on *)
LEMMA StepPlain ==
  ASSUME PassInv, NEW t \in Threads,
         \/ Arrive(t) \/ Start(t) \/ StartPart(t) \/ AddDone(t) \/ PartDone(t)
         \/ StartJoin(t) \/ JoinDone(t) \/ Exit(t)
  PROVE  PassInv'
<1>1. Calm(t) /\ ThreadStep(t)
  BY DEF Calm, ThreadStep
<1>2. UNCHANGED <<mem, tmp, part_queue, join_queue, todo, out, rel, hist, output, dst, pos>>
  BY DEF Arrive, Start, StartPart, AddDone, PartDone, StartJoin, JoinDone, Exit, partition
<1>3. TypeOK /\ PhaseInv
  BY DEF PassInv
<1>4. pc' \in [Threads -> PCs]
  BY <1>1, <1>3, StepPhase
<1>5. TypeOK'
  BY <1>2, <1>3, <1>4 DEF TypeOK, PCs
<1>6. MemInv' /\ TaskInv'
  BY <1>1, <1>2, StillTasks
<1> QED
  BY <1>1, <1>5, <1>6, CalmStep

LEMMA NumaType == ASSUME NEW t \in Threads PROVE get_numa_id(t) \in 0 .. numnuma - 1
<1>1. t \in Nat /\ numnuma \in Nat \ {0}
  BY RadixAssumption DEF Threads
<1>2. ASSUME NEW a \in Nat, NEW m \in Nat \ {0} PROVE a % m \in 0 .. m - 1
  BY <1>2
<1> QED
  BY <1>1, <1>2 DEF get_numa_id

LEMMA PartTaskIs ==
  ASSUME PassInv, pc[0] \in Copied, NEW c \in Clusters1
  PROVE  PartTask(c) = Whole(c)
<1>1. 0 \in Threads
  BY Sizes
<1>2. \A x \in Rels : output[x][0] = [d \in 0 .. FANOUT_PASS1 |-> Start1(x, d)]
  BY DEF PassInv, OutputInv, HasOffsets
<1>3. ASSUME NEW x \in Rels
      PROVE  output[x][0][c] = Start1(x, c)
             /\ output[x][0][c + 1] - output[x][0][c] - PADDING_TUPLES = Cardinality(Members(x, c))
  <2>1. /\ c \in 0 .. FANOUT_PASS1 /\ c + 1 \in 0 .. FANOUT_PASS1
        /\ Start1(x, c + 1) = Start1(x, c) + Cardinality(Members(x, c)) + PADDING_TUPLES
    BY StartNext
  <2>2. output[x][0][c] = Start1(x, c) /\ output[x][0][c + 1] = Start1(x, c + 1)
    BY <1>2, <2>1
  <2>3. Start1(x, c) \in Nat /\ Cardinality(Members(x, c)) \in Nat /\ PADDING_TUPLES \in Nat
    <3>1. c \in Int
      BY DEF Clusters1
    <3> QED BY <2>1, <3>1, StartType, ClusterSets, Sizes
  <2> QED BY <2>1, <2>2, <2>3
<1> QED
  BY <1>3 DEF PartTask, Whole

(* The tasks thread 0 puts on a queue *)
LEMMA TasksOnIs ==
  ASSUME PassInv, pc[0] \in Copied, NEW q, NEW node
  PROVE  /\ TasksOn(q, node) \in Seq(Task)
         /\ \A k \in 1 .. Len(TasksOn(q, node)) : \E c \in Clusters1 : TasksOn(q, node)[k] = Whole(c)
<1> DEFINE C == {c \in Clusters1 : node[c] = q /\ BothSides(PartTask(c))}
           s == InOrder(C)
           w == [k \in DOMAIN s |-> PartTask(s[k])]
<1>1. C \in SUBSET Nat /\ IsFiniteSet(C) /\ C \in SUBSET Clusters1
  <2>1. IsFiniteSet(Clusters1) /\ Clusters1 \in SUBSET Nat
    BY Sizes, FS_Interval DEF Clusters1
  <2> QED BY <2>1, FS_Subset
<1>2. /\ Cardinality(C) \in Nat /\ s \in Seq(C) /\ Len(s) = Cardinality(C)
      /\ \A k \in 1 .. Cardinality(C) : s[k] \in C
  BY <1>1, InOrderIs
<1> HIDE DEF C, s
<1>3. DOMAIN s = 1 .. Cardinality(C)
  BY <1>2
<1>4. \A k \in 1 .. Cardinality(C) : w[k] = Whole(s[k]) /\ s[k] \in Clusters1 /\ w[k] \in Task
  <2>1. \A k \in 1 .. Cardinality(C) : s[k] \in Clusters1
    BY <1>1, <1>2
  <2> QED BY <1>3, <2>1, PartTaskIs, TaskTypes
<1>5. DOMAIN w = 1 .. Cardinality(C) /\ Len(w) = Cardinality(C)
  BY <1>2, <1>3
<1>6. TasksOn(q, node) = Reverse(w)
  BY DEF TasksOn, C, s
<1> HIDE DEF w
<1>7. Reverse(w) = [k \in 1 .. Cardinality(C) |-> w[(Cardinality(C) - k) + 1]]
  BY <1>5 DEF Reverse
<1>8. \A k \in 1 .. Cardinality(C) : (Cardinality(C) - k) + 1 \in 1 .. Cardinality(C)
  BY <1>2
<1>9. Reverse(w) \in [1 .. Cardinality(C) -> Task]
  BY <1>4, <1>7, <1>8
<1>10. Reverse(w) \in Seq(Task) /\ Len(Reverse(w)) = Cardinality(C)
  BY <1>2, <1>9
<1> QED
  BY <1>4, <1>6, <1>7, <1>8, <1>10

LEMMA StepCreateTasks ==
  ASSUME PassInv, NEW t \in Threads, CreateTasks(t)
  PROVE  PassInv'
<1>0. TypeOK /\ PhaseInv /\ MemInv /\ TaskInv
  BY DEF PassInv
<1>1. Calm(t) /\ ThreadStep(t)
  BY DEF Calm, ThreadStep
<1>2. /\ UNCHANGED <<mem, tmp, join_queue, todo, out, rel, hist, output, dst, pos>>
      /\ \A u \in Threads : pc[u] \in Copied
      /\ t # 0 => part_queue' = part_queue
      /\ t = 0 => \E node \in [Clusters1 -> Nodes] : part_queue' = [q \in DOMAIN part_queue |-> TasksOn(q, node)]
  BY DEF CreateTasks, partition, CrossBarrier
<1>3. part_queue \in [0 .. numnuma - 1 -> Seq(Task)] /\ DOMAIN part_queue = 0 .. numnuma - 1
  BY <1>0 DEF TypeOK
<1>4. pc' \in [Threads -> PCs]
  BY <1>0, <1>1, StepPhase
<1>5. part_queue' \in [0 .. numnuma - 1 -> Seq(Task)]
      /\ \A n \in 0 .. numnuma - 1 : \A k \in 1 .. Len(part_queue'[n]) :
           \E c \in Clusters1 : part_queue'[n][k] = Whole(c)
  <2>1. CASE t # 0
    <3>1. \A n \in 0 .. numnuma - 1 : \A k \in 1 .. Len(part_queue[n]) : part_queue[n][k] \in QueuedTasks(part_queue)
      BY <1>3, QueueFacts
    <3> QED BY <2>1, <3>1, <1>0, <1>2, <1>3 DEF TaskInv
  <2>2. CASE t = 0
    <3>1. PICK node \in [Clusters1 -> Nodes] : part_queue' = [q \in DOMAIN part_queue |-> TasksOn(q, node)]
      BY <2>2, <1>2
    <3>2. pc[0] \in Copied
      BY <1>2, Sizes
    <3>3. \A q \in 0 .. numnuma - 1 :
            /\ TasksOn(q, node) \in Seq(Task)
            /\ \A k \in 1 .. Len(TasksOn(q, node)) : \E c \in Clusters1 : TasksOn(q, node)[k] = Whole(c)
      BY <3>2, TasksOnIs
    <3> QED BY <3>1, <3>3, <1>3
  <2> QED BY <2>1, <2>2
<1>6. TypeOK'
  BY <1>0, <1>2, <1>4, <1>5 DEF TypeOK, PCs
<1>7. \A u \in Threads : pc[u] \in TasksMade => pc'[u] \in TasksMade
  <2>1. \A u \in Threads : /\ pc[u] \in TasksMade => pc'[u] \in TasksMade
                           /\ pc[u] \in Partitioned => pc'[u] \in Partitioned
                           /\ pc[u] \in Joined => pc'[u] \in Joined
    BY <1>0, <1>1, StepPhase
  <2> QED BY <2>1
<1>8. MemInv'
  BY <1>0, <1>2, <1>7, StillMem
<1>9. TaskInv'
  <2>1. \A task \in QueuedTasks(part_queue') : \E c \in Clusters1 : task = Whole(c)
    <3>1. ASSUME NEW task \in QueuedTasks(part_queue') PROVE \E c \in Clusters1 : task = Whole(c)
      <4>1. \E n \in 0 .. numnuma - 1 : \E k \in 1 .. Len(part_queue'[n]) : part_queue'[n][k] = task
        BY <1>5, QueueFacts
      <4> QED BY <4>1, <1>5
    <3> QED BY <3>1
  <2>2. JoinTasks' = JoinTasks
    BY <1>2 DEF JoinTasks, QueuedTasks
  <2> QED BY <1>0, <1>2, <2>1, <2>2 DEF TaskInv
<1> QED
  BY <1>1, <1>6, <1>8, <1>9, CalmStep

LEMMA TailFacts ==
  ASSUME NEW s \in Seq(Task), s # << >>
  PROVE  /\ Head(s) = s[1] /\ 1 \in 1 .. Len(s) /\ Head(s) \in Task
         /\ Tail(s) \in Seq(Task)
         /\ \A k \in 1 .. Len(Tail(s)) : k + 1 \in 1 .. Len(s) /\ Tail(s)[k] = s[k + 1]
  OBVIOUS

(* The join tasks a thread makes of a cluster *)
PiecesOf(c) == LET p == InOrder({d \in Clusters2 : BothSides(JoinTask(Whole(c), d))})
               IN  [k \in DOMAIN p |-> JoinTask(Whole(c), p[k])]

LEMMA PiecesAre ==
  ASSUME InPlace, NEW c \in Clusters1
  PROVE  /\ PiecesOf(c) \in Seq(Task)
         /\ \A k \in 1 .. Len(PiecesOf(c)) : \E d \in Clusters2 : PiecesOf(c)[k] = Part(c, d)
<1> DEFINE D == {d \in Clusters2 : BothSides(JoinTask(Whole(c), d))}
           p == InOrder(D)
           w == [k \in DOMAIN p |-> JoinTask(Whole(c), p[k])]
<1>1. D \in SUBSET Nat /\ IsFiniteSet(D) /\ D \in SUBSET Clusters2
  <2>1. IsFiniteSet(Clusters2) /\ Clusters2 \in SUBSET Nat
    BY Sizes, FS_Interval DEF Clusters2
  <2> QED BY <2>1, FS_Subset
<1>2. PiecesOf(c) = w
  BY DEF PiecesOf
<1> HIDE DEF D
<1>3. /\ Cardinality(D) \in Nat /\ p \in Seq(D) /\ Len(p) = Cardinality(D)
      /\ \A k \in 1 .. Cardinality(D) : p[k] \in D
  BY <1>1, InOrderIs
<1> HIDE DEF p
<1>4. DOMAIN p = 1 .. Cardinality(D)
  BY <1>3
<1>5. \A k \in 1 .. Cardinality(D) : p[k] \in Clusters2 /\ w[k] = Part(c, p[k]) /\ w[k] \in Task
  <2>1. \A k \in 1 .. Cardinality(D) : p[k] \in Clusters2
    BY <1>1, <1>3
  <2> QED BY <1>4, <2>1, JoinTaskIs, TaskTypes
<1>6. DOMAIN w = 1 .. Cardinality(D) /\ w = [k \in 1 .. Cardinality(D) |-> w[k]]
  BY <1>4
<1> HIDE DEF w
<1>7. w \in [1 .. Cardinality(D) -> Task]
  BY <1>5, <1>6
<1>8. w \in Seq(Task) /\ Len(w) = Cardinality(D)
  BY <1>3, <1>7
<1> QED
  BY <1>2, <1>5, <1>8

(* The part of TaskInv about a task to join *)
Holds(task, m) == \E c \in Clusters1, d \in Clusters2 :
                    /\ task = Part(c, d)
                    /\ \A x \in Rels : {m[x][a] : a \in PartSlots(x, c, d)} = Members2(x, c, d)

LEMMA HoldsIs ==
  ASSUME NEW task, NEW m
  PROVE  Holds(task, m) <=> \E c \in Clusters1, d \in Clusters2 :
           /\ task = Part(c, d)
           /\ \A x \in Rels : {m[x][a] : a \in Piece(task, x)} = Members2(x, c, d)
<1>1. \A c \in Clusters1, d \in Clusters2, x \in Rels : Piece(Part(c, d), x) = PartSlots(x, c, d)
  BY TaskIs
<1> QED
  BY <1>1 DEF Holds

LEMMA FewerTasks ==
  ASSUME TaskInv, mem' = mem, \A s \in QueuedTasks(part_queue') : s \in QueuedTasks(part_queue),
         \A s \in JoinTasks' : s \in JoinTasks
  PROVE  TaskInv'
<1>1. \A s \in JoinTasks : Holds(s, mem)
  BY HoldsIs DEF TaskInv
<1>2. \A s \in JoinTasks' : Holds(s, mem')
  BY <1>1
<1>3. \A s \in JoinTasks' : \E c \in Clusters1, d \in Clusters2 :
        /\ s = Part(c, d)
        /\ \A x \in Rels : {mem'[x][a] : a \in Piece(s, x)} = Members2(x, c, d)
  BY <1>2, HoldsIs
<1>4. \A s \in QueuedTasks(part_queue') : \E c \in Clusters1 : s = Whole(c)
  BY DEF TaskInv
<1> QED
  BY <1>3, <1>4 DEF TaskInv

(* The second pass over a cluster leaves the pieces of the others alone. *)
LEMMA StillHolds ==
  ASSUME InPlace, NEW c \in Clusters1, NEW m, m = [x \in Rels |-> radix_cluster(Whole(c), x)]
  PROVE  /\ \A task : Holds(task, mem) => Holds(task, m)
         /\ \A d \in Clusters2 : Holds(Part(c, d), m)
<1>1. ASSUME NEW d \in Clusters2, NEW x \in Rels PROVE {m[x][a] : a \in PartSlots(x, c, d)} = Members2(x, c, d)
  BY ClusterExact
<1>2. ASSUME NEW k \in Clusters1, k # c, NEW d \in Clusters2, NEW x \in Rels
      PROVE  {m[x][a] : a \in PartSlots(x, k, d)} = {mem[x][a] : a \in PartSlots(x, k, d)}
  <2>1. \A a \in PartSlots(x, k, d) : m[x][a] = mem[x][a]
    BY <1>2, ClusterElse
  <2> QED BY <2>1
<1>3. \A d \in Clusters2 : Holds(Part(c, d), m)
  BY <1>1 DEF Holds
<1>4. ASSUME NEW task, Holds(task, mem) PROVE Holds(task, m)
  <2>1. PICK k \in Clusters1, d \in Clusters2 :
          /\ task = Part(k, d)
          /\ \A x \in Rels : {mem[x][a] : a \in PartSlots(x, k, d)} = Members2(x, k, d)
    BY <1>4 DEF Holds
  <2>2. CASE k = c
    BY <1>3, <2>1, <2>2
  <2>3. CASE k # c
    BY <1>2, <2>1, <2>3 DEF Holds
  <2> QED BY <2>2, <2>3
<1> QED
  BY <1>3, <1>4

LEMMA StepTakePart ==
  ASSUME PassInv, NEW t \in Threads, TakePart(t)
  PROVE  PassInv'
<1> DEFINE q == get_numa_id(t)
           task == Head(part_queue[q])
           p == InOrder({d \in Clusters2 : BothSides(JoinTask(task, d))})
           w == [k \in DOMAIN p |-> JoinTask(task, p[k])]
<1>0. TypeOK /\ PhaseInv /\ MemInv /\ TaskInv
  BY DEF PassInv
<1>1. Calm(t) /\ ThreadStep(t)
  BY DEF Calm, ThreadStep
<1>2. /\ pc[t] = "part" /\ part_queue[q] # << >>
      /\ part_queue' = [part_queue EXCEPT ![q] = Tail(part_queue[q])]
      /\ mem' = [x \in Rels |-> radix_cluster(task, x)]
      /\ todo' = [todo EXCEPT ![t] = w]
      /\ UNCHANGED <<tmp, join_queue, out, rel, hist, output, dst, pos>>
  BY DEF TakePart, partition
<1>3. /\ q \in 0 .. numnuma - 1 /\ part_queue \in [0 .. numnuma - 1 -> Seq(Task)]
      /\ join_queue \in [0 .. numnuma - 1 -> Seq(Task)] /\ todo \in [Threads -> Seq(Task)]
  BY <1>0, NumaType DEF TypeOK
<1>4. pc' \in [Threads -> PCs]
  BY <1>0, <1>1, StepPhase
<1>5. /\ task = part_queue[q][1] /\ 1 \in 1 .. Len(part_queue[q])
      /\ Tail(part_queue[q]) \in Seq(Task)
      /\ \A k \in 1 .. Len(Tail(part_queue[q])) :
           k + 1 \in 1 .. Len(part_queue[q]) /\ Tail(part_queue[q])[k] = part_queue[q][k + 1]
  <2>1. part_queue[q] \in Seq(Task)
    BY <1>3
  <2> QED BY <1>2, <2>1, TailFacts
<1>6. PICK c \in Clusters1 : task = Whole(c)
  <2>1. task \in QueuedTasks(part_queue)
    BY <1>3, <1>5, QueueFacts
  <2> QED BY <2>1, <1>0 DEF TaskInv
<1>7. \A u \in Threads : pc[u] \in TasksMade /\ pc[u] \in Copied
  <2>1. pc[t] \in TasksMade \ {"tasksMade"}
    BY <1>2 DEF TasksMade
  <2>2. \A u \in Threads : pc[u] \in TasksMade
    BY <1>0, <2>1 DEF PhaseInv
  <2> QED BY <2>2 DEF Copied
<1>8. InPlace
  BY <1>7, InPlaceNow
<1>9. w \in Seq(Task) /\ \A k \in 1 .. Len(w) : \E d \in Clusters2 : w[k] = Part(c, d)
  <2>1. w = PiecesOf(c)
    BY <1>6 DEF PiecesOf
  <2> HIDE DEF w
  <2> QED BY <1>8, <2>1, PiecesAre
<1> HIDE DEF w, p, q, task
<1>10. mem' = [x \in Rels |-> radix_cluster(Whole(c), x)]
  BY <1>2, <1>6
<1>11. /\ part_queue' \in [0 .. numnuma - 1 -> Seq(Task)] /\ todo' \in [Threads -> Seq(Task)]
       /\ join_queue' \in [0 .. numnuma - 1 -> Seq(Task)]
  BY <1>2, <1>3, <1>5, <1>9
<1>12. TypeOK'
  <2>1. \A x \in Rels : mem'[x] \in [Addr(x) -> Tuples(x) \cup {NoTuple}]
    <3>1. \A x \in Rels : radix_cluster(Whole(c), x) \in [Addr(x) -> Tuples(x) \cup {NoTuple}]
      BY <1>0, <1>8, ClusterTypeOK DEF TypeOK
    <3> QED BY <3>1, <1>10
  <2>2. DOMAIN mem' = Rels
    BY <1>10
  <2>3. DOMAIN tmp' = Rels /\ \A x \in Rels : tmp'[x] \in [Addr(x) -> Tuples(x) \cup {NoTuple}]
    BY <1>0, <1>2 DEF TypeOK
  <2> QED BY <1>0, <1>2, <1>4, <1>11, <2>1, <2>2, <2>3 DEF TypeOK, PCs
<1>13. MemInv'
  <2>1. \A u \in Threads : /\ pc[u] \in TasksMade => pc'[u] \in TasksMade
                           /\ pc[u] \in Partitioned => pc'[u] \in Partitioned
                           /\ pc[u] \in Joined => pc'[u] \in Joined
    BY <1>0, <1>1, StepPhase
  <2> QED BY <2>1, <1>7 DEF MemInv
<1>14. ASSUME NEW s \in QueuedTasks(part_queue') PROVE \E d \in Clusters1 : s = Whole(d)
  <2>1. PICK n \in 0 .. numnuma - 1 : \E k \in 1 .. Len(part_queue'[n]) : part_queue'[n][k] = s
    BY <1>11, QueueFacts
  <2>2. \E k \in 1 .. Len(part_queue[n]) : part_queue[n][k] = s
    <3>1. CASE n = q
      <4>1. part_queue'[n] = Tail(part_queue[q])
        BY <3>1, <1>2, <1>3
      <4> QED BY <2>1, <3>1, <4>1, <1>5
    <3>2. CASE n # q
      BY <2>1, <3>2, <1>2, <1>3
    <3> QED BY <3>1, <3>2
  <2>3. s \in QueuedTasks(part_queue)
    BY <2>2, <1>3, QueueFacts
  <2> QED BY <2>3, <1>0 DEF TaskInv
<1>15. ASSUME NEW s \in JoinTasks' PROVE Holds(s, mem')
  <2>1. \/ \E n \in 0 .. numnuma - 1 : \E k \in 1 .. Len(join_queue'[n]) : join_queue'[n][k] = s
        \/ \E u \in Threads : \E k \in 1 .. Len(todo'[u]) : todo'[u][k] = s
    <3>1. s \in QueuedTasks(join_queue') \/ s \in UNION {Range(todo'[u]) : u \in Threads}
      BY <1>15 DEF JoinTasks
    <3>2. s \in QueuedTasks(join_queue') =>
            \E n \in 0 .. numnuma - 1 : \E k \in 1 .. Len(join_queue'[n]) : join_queue'[n][k] = s
      BY <1>11, QueueFacts
    <3>3. \A u \in Threads : DOMAIN todo'[u] = 1 .. Len(todo'[u])
      BY <1>11
    <3> QED BY <3>1, <3>2, <3>3 DEF Range
  <2>2. \/ s \in JoinTasks
        \/ \E k \in 1 .. Len(w) : w[k] = s
    <3>1. CASE \E n \in 0 .. numnuma - 1 : \E k \in 1 .. Len(join_queue'[n]) : join_queue'[n][k] = s
      BY <3>1, <1>2, <1>3, JoinFacts
    <3>2. ASSUME NEW u \in Threads, NEW k \in 1 .. Len(todo'[u]), todo'[u][k] = s
          PROVE  s \in JoinTasks \/ \E j \in 1 .. Len(w) : w[j] = s
      <4>1. CASE u = t
        BY <3>2, <4>1, <1>2, <1>3
      <4>2. CASE u # t
        <5>1. todo'[u] = todo[u]
          BY <4>2, <1>2, <1>3
        <5> QED BY <3>2, <5>1, <1>3, JoinFacts
      <4> QED BY <4>1, <4>2
    <3> QED BY <2>1, <3>1, <3>2
  <2>3. CASE s \in JoinTasks
    <3>1. Holds(s, mem)
      BY <2>3, <1>0, HoldsIs DEF TaskInv
    <3> QED BY <3>1, <1>8, <1>10, StillHolds
  <2>4. CASE \E k \in 1 .. Len(w) : w[k] = s
    <3>1. PICK d \in Clusters2 : s = Part(c, d)
      BY <2>4, <1>9
    <3> QED BY <3>1, <1>8, <1>10, StillHolds
  <2> QED BY <2>2, <2>3, <2>4
<1>16. TaskInv'
  <2>1. \A s \in JoinTasks' : \E k \in Clusters1, d \in Clusters2 :
          /\ s = Part(k, d)
          /\ \A x \in Rels : {mem'[x][a] : a \in Piece(s, x)} = Members2(x, k, d)
    BY <1>15, HoldsIs
  <2> QED BY <1>14, <2>1 DEF TaskInv
<1> QED
  BY <1>1, <1>12, <1>13, <1>16, CalmStep

LEMMA ConsFacts ==
  ASSUME NEW s \in Seq(Task), NEW e \in Task
  PROVE  /\ <<e>> \o s \in Seq(Task) /\ Len(<<e>> \o s) = Len(s) + 1
         /\ (<<e>> \o s)[1] = e
         /\ \A k \in 1 .. Len(s) : (<<e>> \o s)[k + 1] = s[k]
         /\ \A k \in 1 .. Len(<<e>> \o s) : (<<e>> \o s)[k] = e \/ \E j \in 1 .. Len(s) : (<<e>> \o s)[k] = s[j]
<1>1. <<e>> \o s \in Seq(Task) /\ Len(<<e>> \o s) = Len(s) + 1 /\ (<<e>> \o s)[1] = e /\ Len(s) \in Nat
  OBVIOUS
<1>2. \A k \in 1 .. Len(s) : (<<e>> \o s)[k + 1] = s[k]
  OBVIOUS
<1>3. ASSUME NEW k \in 1 .. Len(<<e>> \o s), k # 1
      PROVE  k - 1 \in 1 .. Len(s) /\ (<<e>> \o s)[k] = s[k - 1]
  <2>1. k - 1 \in 1 .. Len(s) /\ (k - 1) + 1 = k
    BY <1>1, <1>3
  <2> QED BY <1>2, <2>1
<1> QED
  BY <1>1, <1>2, <1>3

LEMMA StepAddJoin ==
  ASSUME PassInv, NEW t \in Threads, AddJoin(t)
  PROVE  PassInv'
<1> DEFINE q == get_numa_id(t)
<1>0. TypeOK /\ PhaseInv /\ MemInv /\ TaskInv
  BY DEF PassInv
<1>1. Calm(t) /\ ThreadStep(t)
  BY DEF Calm, ThreadStep
<1>2. /\ todo[t] # << >>
      /\ join_queue' = [join_queue EXCEPT ![q] = <<Head(todo[t])>> \o join_queue[q]]
      /\ todo' = [todo EXCEPT ![t] = Tail(todo[t])]
      /\ UNCHANGED <<pc, mem, tmp, part_queue, out, rel, hist, output, dst, pos>>
  BY DEF AddJoin, partition
<1>3. /\ q \in 0 .. numnuma - 1 /\ join_queue \in [0 .. numnuma - 1 -> Seq(Task)]
      /\ todo \in [Threads -> Seq(Task)] /\ todo[t] \in Seq(Task) /\ join_queue[q] \in Seq(Task)
  BY <1>0, NumaType DEF TypeOK
<1>4. /\ Head(todo[t]) = todo[t][1] /\ 1 \in 1 .. Len(todo[t]) /\ Head(todo[t]) \in Task
      /\ Tail(todo[t]) \in Seq(Task)
      /\ \A k \in 1 .. Len(Tail(todo[t])) : k + 1 \in 1 .. Len(todo[t]) /\ Tail(todo[t])[k] = todo[t][k + 1]
  BY <1>2, <1>3, TailFacts
<1> DEFINE w == <<Head(todo[t])>> \o join_queue[q]
<1>5. /\ w \in Seq(Task)
      /\ \A k \in 1 .. Len(w) : w[k] = Head(todo[t]) \/ \E j \in 1 .. Len(join_queue[q]) : w[k] = join_queue[q][j]
  BY <1>3, <1>4, ConsFacts
<1>6. join_queue' = [join_queue EXCEPT ![q] = w]
  BY <1>2
<1> HIDE DEF w, q
<1>7. join_queue' \in [0 .. numnuma - 1 -> Seq(Task)] /\ todo' \in [Threads -> Seq(Task)]
  BY <1>2, <1>3, <1>4, <1>5, <1>6
<1>8. TypeOK'
  BY <1>0, <1>2, <1>7 DEF TypeOK
<1>9. ASSUME NEW s \in JoinTasks' PROVE s \in JoinTasks
  <2>1. \/ \E n \in 0 .. numnuma - 1 : \E k \in 1 .. Len(join_queue'[n]) : join_queue'[n][k] = s
        \/ \E u \in Threads : \E k \in 1 .. Len(todo'[u]) : todo'[u][k] = s
    <3>1. s \in QueuedTasks(join_queue') \/ s \in UNION {Range(todo'[u]) : u \in Threads}
      BY <1>9 DEF JoinTasks
    <3>2. s \in QueuedTasks(join_queue') =>
            \E n \in 0 .. numnuma - 1 : \E k \in 1 .. Len(join_queue'[n]) : join_queue'[n][k] = s
      BY <1>7, QueueFacts
    <3>3. \A u \in Threads : DOMAIN todo'[u] = 1 .. Len(todo'[u])
      BY <1>7
    <3> QED BY <3>1, <3>2, <3>3 DEF Range
  <2>2. ASSUME NEW n \in 0 .. numnuma - 1, NEW k \in 1 .. Len(join_queue'[n]), join_queue'[n][k] = s
        PROVE  s \in JoinTasks
    <3>1. CASE n = q
      <4>1. join_queue'[n] = w
        BY <3>1, <1>3, <1>6
      <4>2. s = todo[t][1] \/ \E j \in 1 .. Len(join_queue[q]) : s = join_queue[q][j]
        BY <2>2, <4>1, <1>4, <1>5
      <4> QED BY <4>2, <1>3, <1>4, JoinFacts
    <3>2. CASE n # q
      <4>1. join_queue'[n] = join_queue[n]
        BY <3>2, <1>3, <1>6
      <4> QED BY <2>2, <4>1, <1>3, JoinFacts
    <3> QED BY <3>1, <3>2
  <2>3. ASSUME NEW u \in Threads, NEW k \in 1 .. Len(todo'[u]), todo'[u][k] = s
        PROVE  s \in JoinTasks
    <3>1. \E j \in 1 .. Len(todo[u]) : todo[u][j] = s
      <4>1. CASE u = t
        <5>1. todo'[u] = Tail(todo[t])
          BY <4>1, <1>2, <1>3
        <5> QED BY <2>3, <4>1, <5>1, <1>4
      <4>2. CASE u # t
        BY <2>3, <4>2, <1>2, <1>3
      <4> QED BY <4>1, <4>2
    <3> QED BY <3>1, <1>3, JoinFacts
  <2> QED BY <2>1, <2>2, <2>3
<1>10. TaskInv'
  <2>1. QueuedTasks(part_queue') = QueuedTasks(part_queue)
    BY <1>2
  <2>2. \A s \in JoinTasks' : s \in JoinTasks
    BY <1>9
  <2> QED BY <1>0, <1>2, <2>1, <2>2, FewerTasks
<1>11. MemInv'
  BY <1>0, <1>2 DEF MemInv
<1> QED
  BY <1>1, <1>8, <1>10, <1>11, CalmStep

LEMMA HitsType ==
  ASSUME NEW task \in Task, NEW i \in RIdx, NEW j \in SIdx
  PROVE  Hits(task, i, j) \in Nat
<1> DEFINE H == {p \in Piece(task, "R") \X Piece(task, "S") : mem["R"][p[1]] = i /\ mem["S"][p[2]] = j}
<1>1. \A x \in Rels : task.base[x] \in Nat /\ task.n[x] \in Nat
  BY DEF Task
<1>2. ASSUME NEW x \in Rels PROVE IsFiniteSet(Piece(task, x))
  <2>1. task.base[x] \in Int /\ task.base[x] + task.n[x] - 1 \in Int
    BY <1>1
  <2> QED BY <2>1, FS_Interval DEF Piece
<1>3. IsFiniteSet(Piece(task, "R")) /\ IsFiniteSet(Piece(task, "S"))
  BY <1>2 DEF Rels
<1>4. IsFiniteSet(Piece(task, "R") \X Piece(task, "S"))
  BY <1>3, FS_Product
<1>5. IsFiniteSet(H)
  BY <1>4, FS_Subset
<1>6. Cardinality(H) \in Nat
  BY <1>5, FS_CardinalityType
<1>7. Hits(task, i, j) = IF Matching(i, j) THEN Cardinality(H) ELSE 0
  BY DEF Hits
<1> HIDE DEF H
<1> QED
  BY <1>6, <1>7

LEMMA StepJoinPiece ==
  ASSUME PassInv, NEW t \in Threads, JoinPiece(t)
  PROVE  PassInv'
<1> DEFINE q == get_numa_id(t)
           task == Head(join_queue[q])
           w == [i \in RIdx |-> [j \in SIdx |-> out[t][i][j] + Hits(task, i, j)]]
<1>0. TypeOK /\ PhaseInv /\ MemInv /\ TaskInv
  BY DEF PassInv
<1>1. Calm(t) /\ ThreadStep(t)
  BY DEF Calm, ThreadStep
<1>2. /\ join_queue[q] # << >>
      /\ join_queue' = [join_queue EXCEPT ![q] = Tail(join_queue[q])]
      /\ out' = [out EXCEPT ![t] = w]
      /\ UNCHANGED <<pc, mem, tmp, part_queue, todo, rel, hist, output, dst, pos>>
  BY DEF JoinPiece, partition
<1>3. /\ q \in 0 .. numnuma - 1 /\ join_queue \in [0 .. numnuma - 1 -> Seq(Task)]
      /\ todo \in [Threads -> Seq(Task)] /\ join_queue[q] \in Seq(Task)
      /\ out \in [Threads -> [RIdx -> [SIdx -> Nat]]]
  BY <1>0, NumaType DEF TypeOK
<1>4. /\ Tail(join_queue[q]) \in Seq(Task) /\ task \in Task
      /\ \A k \in 1 .. Len(Tail(join_queue[q])) :
           k + 1 \in 1 .. Len(join_queue[q]) /\ Tail(join_queue[q])[k] = join_queue[q][k + 1]
  BY <1>2, <1>3, TailFacts
<1>5. w \in [RIdx -> [SIdx -> Nat]]
  <2> HIDE DEF task
  <2>1. \A i \in RIdx, j \in SIdx : Hits(task, i, j) \in Nat
    BY <1>4, HitsType
  <2>2. \A i \in RIdx, j \in SIdx : out[t][i][j] \in Nat
    BY <1>3
  <2>3. \A i \in RIdx, j \in SIdx : out[t][i][j] + Hits(task, i, j) \in Nat
    BY <2>1, <2>2
  <2> QED BY <2>3
<1> HIDE DEF q, task, w
<1>6. join_queue' \in [0 .. numnuma - 1 -> Seq(Task)] /\ out' \in [Threads -> [RIdx -> [SIdx -> Nat]]]
  BY <1>2, <1>3, <1>4, <1>5
<1>7. TypeOK'
  BY <1>0, <1>2, <1>6 DEF TypeOK
<1>8. ASSUME NEW s \in JoinTasks' PROVE s \in JoinTasks
  <2>1. s \in QueuedTasks(join_queue') \/ s \in UNION {Range(todo[u]) : u \in Threads}
    BY <1>2, <1>8 DEF JoinTasks
  <2>2. ASSUME s \in QueuedTasks(join_queue') PROVE s \in JoinTasks
    <3>1. PICK n \in 0 .. numnuma - 1 : \E k \in 1 .. Len(join_queue'[n]) : join_queue'[n][k] = s
      BY <2>2, <1>6, QueueFacts
    <3>2. \E k \in 1 .. Len(join_queue[n]) : join_queue[n][k] = s
      <4>1. CASE n = q
        <5>1. join_queue'[n] = Tail(join_queue[q])
          BY <4>1, <1>2, <1>3
        <5> QED BY <3>1, <4>1, <5>1, <1>4
      <4>2. CASE n # q
        BY <3>1, <4>2, <1>2, <1>3
      <4> QED BY <4>1, <4>2
    <3> QED BY <3>2, <1>3, JoinFacts
  <2> QED BY <2>1, <2>2 DEF JoinTasks
<1>9. TaskInv'
  <2>1. QueuedTasks(part_queue') = QueuedTasks(part_queue)
    BY <1>2
  <2>2. \A s \in JoinTasks' : s \in JoinTasks
    BY <1>8
  <2> QED BY <1>0, <1>2, <2>1, <2>2, FewerTasks
<1>10. MemInv'
  BY <1>0, <1>2 DEF MemInv
<1> QED
  BY <1>1, <1>7, <1>9, <1>10, CalmStep

LEMMA RadixInit == ASSUME Init PROVE PassInv
<1>0. 0 \in Threads /\ FANOUT_PASS1 \in Nat /\ \A x \in Rels : Num(x) \in Nat
  BY Sizes, NumType
<1>1. TypeOK
  <2>1. \A x \in Rels : /\ mem[x] \in [Addr(x) -> Tuples(x) \cup {NoTuple}]
                        /\ tmp[x] \in [Addr(x) -> Tuples(x) \cup {NoTuple}]
    BY <1>0 DEF Init, Addr, Tuples
  <2>2. << >> \in Seq(Task)
    OBVIOUS
  <2>3. /\ part_queue \in [0 .. numnuma - 1 -> Seq(Task)]
        /\ join_queue \in [0 .. numnuma - 1 -> Seq(Task)]
        /\ todo \in [Threads -> Seq(Task)]
    BY <2>2 DEF Init, NoTasks
  <2>4. /\ pc \in [Threads -> {"launched"} \cup Started] /\ rel \in [Threads -> Rels]
        /\ DOMAIN mem = Rels /\ DOMAIN tmp = Rels
        /\ hist \in [Rels -> [Threads -> [Clusters1 -> Nat]]]
        /\ output \in [Rels -> [Threads -> [0 .. FANOUT_PASS1 -> Nat]]]
        /\ dst \in [Threads -> [Clusters1 -> Nat]]
        /\ pos \in [Threads -> Nat]
        /\ out \in [Threads -> [RIdx -> [SIdx -> Nat]]]
    BY DEF Init, Rels
  <2> QED BY <2>1, <2>3, <2>4 DEF TypeOK
<1>2. \A t \in Threads : pc[t] = "launched" /\ rel[t] = "R"
  BY DEF Init
<1>3. "launched" \notin Copied /\ "launched" \notin TasksMade /\ "launched" \notin Partitioned
      /\ "launched" \notin Joined
  BY DEF Copied, TasksMade, Partitioned, Joined
<1>4. PhaseInv /\ CopyInv
  <2>1. PhaseInv
    BY <1>2, <1>3 DEF PhaseInv
  <2>2. CopyInv
    BY <1>2 DEF CopyInv
  <2> QED BY <2>1, <2>2
<1>5. HistInv /\ OutputInv /\ TmpInv
  <2>1. \A u \in Threads, x \in Rels : ~HasCounted(u, x) /\ ~HasOffsets(u, x)
    BY <1>2, <1>3 DEF HasCounted, HasOffsets
  <2> QED BY <1>0, <2>1 DEF HistInv, OutputInv, TmpInv
<1>6. MemInv
  <2>1. \A x \in Rels : \A i \in Tuples(x) : i \in Addr(x) /\ i < Num(x)
    <3>1. FANOUT_PASS1 * PADDING_TUPLES \in Nat
      BY Sizes
    <3> QED BY <1>0, <3>1 DEF Addr, Tuples
  <2> QED BY <2>1 DEF MemInv, Init
<1>7. TaskInv
  <2>1. /\ part_queue \in [0 .. numnuma - 1 -> Seq(Task)] /\ join_queue \in [0 .. numnuma - 1 -> Seq(Task)]
        /\ todo \in [Threads -> Seq(Task)]
    BY <1>1 DEF TypeOK
  <2>2. /\ \A n \in 0 .. numnuma - 1 : Len(part_queue[n]) = 0 /\ Len(join_queue[n]) = 0
        /\ \A u \in Threads : Len(todo[u]) = 0
    BY DEF Init, NoTasks
  <2>3. ASSUME NEW task PROVE task \notin QueuedTasks(part_queue)
    <3>1. task \in QueuedTasks(part_queue) <=>
            \E n \in 0 .. numnuma - 1 : \E k \in 1 .. Len(part_queue[n]) : part_queue[n][k] = task
      BY <2>1, QueueFacts
    <3> QED BY <2>2, <3>1
  <2>4. JoinTasks = {}
    BY <2>1, <2>2, JoinFacts
  <2> QED BY <2>3, <2>4 DEF TaskInv
<1> QED
  BY <1>1, <1>4, <1>5, <1>6, <1>7 DEF PassInv

LEMMA RadixStep == ASSUME PassInv, [Next]_vars PROVE PassInv'
<1>1. ASSUME NEW t \in Threads, ThreadStep(t) PROVE PassInv'
  <2>1. CASE Histogram(t)
    BY <2>1, StepHistogram
  <2>2. CASE Offsets(t)
    BY <2>2, StepOffsets
  <2>3. CASE Copy(t)
    BY <2>3, StepCopy
  <2>4. CASE CopyDone(t)
    BY <2>4, StepCopyDone
  <2>5. CASE CreateTasks(t)
    BY <2>5, StepCreateTasks
  <2>6. CASE TakePart(t)
    BY <2>6, StepTakePart
  <2>7. CASE AddJoin(t)
    BY <2>7, StepAddJoin
  <2>8. CASE JoinPiece(t)
    BY <2>8, StepJoinPiece
  <2>9. CASE Arrive(t) \/ Start(t) \/ StartPart(t) \/ AddDone(t) \/ PartDone(t)
             \/ StartJoin(t) \/ JoinDone(t) \/ Exit(t)
    BY <2>9, StepPlain
  <2> QED
    BY <1>1, <2>1, <2>2, <2>3, <2>4, <2>5, <2>6, <2>7, <2>8, <2>9 DEF ThreadStep
<1>2. ASSUME UNCHANGED vars PROVE PassInv'
  <2>1. TypeOK /\ PhaseInv /\ HistInv /\ OutputInv /\ CopyInv /\ TmpInv /\ MemInv /\ TaskInv
    BY DEF PassInv
  <2>2. UNCHANGED <<pc, rel, mem, tmp, hist, output, dst, pos, part_queue, join_queue, todo, out>>
    BY <1>2 DEF vars
  <2>3. TypeOK' /\ PhaseInv'
    BY <2>1, <2>2 DEF TypeOK, PhaseInv
  <2>4. HistInv' /\ OutputInv' /\ CopyInv' /\ TmpInv'
    BY <2>1, <2>2 DEF HistInv, OutputInv, CopyInv, TmpInv, HasCounted, HasOffsets
  <2>5. MemInv'
    BY <2>1, <2>2 DEF MemInv
  <2>6. TaskInv'
    <3>1. QueuedTasks(part_queue') = QueuedTasks(part_queue)
      BY <2>2
    <3>2. JoinTasks' = JoinTasks
      BY <2>2 DEF JoinTasks, QueuedTasks
    <3> QED BY <2>1, <2>2, <3>1, <3>2, FewerTasks
  <2> QED BY <2>3, <2>4, <2>5, <2>6 DEF PassInv
<1> QED
  BY <1>1, <1>2 DEF Next, Terminated

------------------------------------------------------------------------------
(* The passes are exact: the running totals and the offsets computed        *)
(* from them stay right while a fast thread is at S already, each thread    *)
(* copies its tuples to slots that are theirs alone, and the tasks name     *)
(* complete pieces (prj_thread).                                            *)
THEOREM RadixPasses == SafeSpec => []PassInv
<1>1. Init => PassInv
  BY RadixInit
<1>2. PassInv /\ [Next]_vars => PassInv'
  BY RadixStep
<1> QED
  BY <1>1, <1>2, PTL DEF SafeSpec

(* No thread writes outside of the padded space, and no task reaches out of *)
(* it (parallel_radix_partition).                                           *)
THEOREM RadixInSpace == SafeSpec => []InSpace
<1>1. ASSUME PassInv PROVE InSpace
  <2>0. TypeOK /\ CopyInv /\ TaskInv
    BY <1>1 DEF PassInv
  <2>1. ASSUME NEW t \in Threads, pc[t] = "copy", pos[t] < ShareEnd(Num(rel[t]), t)
        PROVE  dst[t][Cluster1(rel[t], mem[rel[t]][pos[t]])] \in Addr(rel[t])
    <3> DEFINE y == rel[t]
               i == pos[t]
               c == Cluster1(y, i)
    <3>1. y \in Rels /\ i \in Nat /\ i \in ShareBegin(Num(y), t) .. ShareEnd(Num(y), t)
      BY <2>0, <2>1 DEF TypeOK, CopyInv
    <3>2. i \in Tuples(y)
      <4>1. /\ ShareBegin(Num(y), t) \in Nat /\ ShareEnd(Num(y), t) \in Nat /\ ShareEnd(Num(y), t) <= Num(y)
            /\ Num(y) \in Nat
        BY <3>1, ShareIn, NumType
      <4> HIDE DEF y, i
      <4> QED BY <2>1, <3>1, <4>1 DEF Tuples, y, i
    <3>3. mem[y][i] = i
      BY <1>1, <2>1, <3>1, <3>2, Untouched
    <3>4. c \in Clusters1 /\ i \in Members(y, c)
      BY <3>1, <3>2, ClusterType DEF Members
    <3>5. dst[t][c] = Start1(y, c) + Rank(Members(y, c), i)
      BY <2>0, <2>1, <3>4 DEF CopyInv, Rank
    <3>6. dst[t][c] \in Addr(y)
      <4> HIDE DEF y, i, c
      <4> QED BY <3>1, <3>4, <3>5, SlotIn, SlotsInSpace
    <3> QED BY <3>3, <3>6
  <2>2. ASSUME NEW task \in QueuedTasks(part_queue) \cup JoinTasks, NEW x \in Rels
        PROVE  Piece(task, x) \subseteq Addr(x)
    <3>1. CASE task \in QueuedTasks(part_queue)
      <4>1. PICK c \in Clusters1 : task = Whole(c)
        BY <2>0, <3>1 DEF TaskInv
      <4> QED BY <4>1, TaskIs, SlotsInSpace
    <3>2. CASE task \in JoinTasks
      <4>1. PICK c \in Clusters1, d \in Clusters2 : task = Part(c, d)
        BY <2>0, <3>2 DEF TaskInv
      <4>2. Piece(task, x) = PartSlots(x, c, d)
        BY <4>1, TaskIs
      <4> QED BY <4>2, PartInSpace
    <3> QED BY <3>1, <3>2
  <2> QED BY <2>1, <2>2 DEF InSpace
<1> QED
  BY <1>1, RadixPasses, PTL

(* After the first pass every tuple is in its cluster, once                 *)
(* (parallel_radix_partition).                                              *)
THEOREM RadixFirstPass == SafeSpec => []FirstPassExact
<1>1. ASSUME PassInv PROVE FirstPassExact
  <2> SUFFICES ASSUME \A t \in Threads : pc[t] \in Copied, NEW x \in Rels, NEW c \in Clusters1
               PROVE  LET slots == output[x][0][c] .. output[x][0][c + 1] - PADDING_TUPLES - 1 IN
                        /\ {tmp[x][a] : a \in slots} = {i \in Tuples(x) : Cluster1(x, i) = c}
                        /\ Cardinality(slots) = Cardinality({i \in Tuples(x) : Cluster1(x, i) = c})
    BY DEF FirstPassExact
  <2>1. InPlace /\ pc[0] \in Copied
    BY <1>1, InPlaceNow, Sizes
  <2>2. output[x][0] = [d \in 0 .. FANOUT_PASS1 |-> Start1(x, d)]
    BY <1>1, <2>1 DEF PassInv, OutputInv, HasOffsets
  <2>3. /\ c \in 0 .. FANOUT_PASS1 /\ c + 1 \in 0 .. FANOUT_PASS1
        /\ Start1(x, c + 1) = Start1(x, c) + Cardinality(Members(x, c)) + PADDING_TUPLES
    BY StartNext
  <2>4. Start1(x, c) \in Nat /\ Cardinality(Members(x, c)) \in Nat /\ PADDING_TUPLES \in Nat
    <3>1. c \in Int
      BY DEF Clusters1
    <3> QED BY <2>3, <3>1, StartType, ClusterSets, Sizes
  <2>5. output[x][0][c] .. output[x][0][c + 1] - PADDING_TUPLES - 1 = Slots(x, c)
    <3>1. output[x][0][c] = Start1(x, c) /\ output[x][0][c + 1] = Start1(x, c + 1)
      BY <2>2, <2>3
    <3>2. Start1(x, c + 1) - PADDING_TUPLES - 1 = Start1(x, c) + Cardinality(Members(x, c)) - 1
      BY <2>3, <2>4
    <3> QED BY <3>1, <3>2 DEF Slots
  <2>6. {tmp[x][a] : a \in Slots(x, c)} = Members(x, c)
    <3>1. \A a \in Slots(x, c) : tmp[x][a] \in Members(x, c)
      BY <2>1, SlotTuple
    <3>2. \A i \in Members(x, c) : Slot(x, i) \in Slots(x, c) /\ tmp[x][Slot(x, i)] = i
      BY <2>1, SlotIn DEF InPlace, Members
    <3> QED BY <3>1, <3>2
  <2>7. Cardinality(Slots(x, c)) = Cardinality(Members(x, c))
    <3> DEFINE b == Start1(x, c)
               n == Cardinality(Members(x, c))
    <3>1. b \in Int /\ b + n - 1 \in Int /\ n \in Nat
      BY <2>4
    <3> HIDE DEF b, n
    <3>2. Cardinality(b .. b + n - 1) = IF b > b + n - 1 THEN 0 ELSE (b + n - 1) - b + 1
      BY <3>1, FS_Interval
    <3>3. Cardinality(b .. b + n - 1) = n
      BY <3>1, <3>2
    <3> QED BY <3>3 DEF Slots, b, n
  <2> QED BY <2>5, <2>6, <2>7 DEF Members
<1> QED
  BY <1>1, RadixPasses, PTL

(* A join task holds all the tuples of its piece from the time it is made   *)
(* until it is joined (serial_radix_partition).                             *)
THEOREM RadixJoinTasks == SafeSpec => []JoinTaskExact
<1>1. ASSUME PassInv PROVE JoinTaskExact
  <2>1. ASSUME NEW task \in JoinTasks
        PROVE  \E c \in Clusters1, d \in Clusters2 : \A x \in Rels :
                 LET members == {i \in Tuples(x) : Cluster1(x, i) = c /\ Cluster2(x, i) = d} IN
                   /\ {mem[x][a] : a \in Piece(task, x)} = members
                   /\ task.n[x] = Cardinality(members)
    <3>1. PICK c \in Clusters1, d \in Clusters2 :
            /\ task = Part(c, d)
            /\ \A x \in Rels : {mem[x][a] : a \in Piece(task, x)} = Members2(x, c, d)
      BY <1>1, <2>1 DEF PassInv, TaskInv
    <3>2. \A x \in Rels : task.n[x] = Cardinality(Members2(x, c, d))
      BY <3>1, TaskIs
    <3>3. \A x \in Rels : Members2(x, c, d) = {i \in Tuples(x) : Cluster1(x, i) = c /\ Cluster2(x, i) = d}
      BY DEF Members2, Members
    <3> QED BY <3>1, <3>2, <3>3
  <2> QED BY <2>1 DEF JoinTaskExact
<1> QED
  BY <1>1, RadixPasses, PTL

------------------------------------------------------------------------------
(* Queues of tasks, as sets *)

IsQueue(queue, N) == queue \in [N -> Seq(Task)]

LEMMA QueueType ==
  ASSUME NEW N, NEW queue, IsQueue(queue, N)
  PROVE  /\ DOMAIN queue = N
         /\ \A n \in N : queue[n] \in Seq(Task) /\ Len(queue[n]) \in Nat /\ DOMAIN queue[n] = 1 .. Len(queue[n])
  BY DEF IsQueue

LEMMA QueueSet ==
  ASSUME NEW N, NEW queue, IsQueue(queue, N), NEW task
  PROVE  task \in QueuedTasks(queue) <=> \E n \in N : \E k \in 1 .. Len(queue[n]) : queue[n][k] = task
<1>1. DOMAIN queue = N /\ \A n \in N : DOMAIN queue[n] = 1 .. Len(queue[n])
  BY QueueType
<1> QED
  BY <1>1 DEF QueuedTasks, Range

LEMMA DistinctIs ==
  ASSUME NEW N, NEW queue, IsQueue(queue, N)
  PROVE  Distinct(queue) <=>
           \A n, m \in N : \A k \in 1 .. Len(queue[n]), l \in 1 .. Len(queue[m]) :
             queue[n][k] = queue[m][l] => n = m /\ k = l
<1>1. DOMAIN queue = N /\ \A n \in N : DOMAIN queue[n] = 1 .. Len(queue[n])
  BY QueueType
<1> QED
  BY <1>1 DEF Distinct

LEMMA PopQueue ==
  ASSUME NEW N, NEW queue, IsQueue(queue, N), NEW q \in N, queue[q] # << >>, Distinct(queue),
         NEW nq, IsQueue(nq, N), nq[q] = Tail(queue[q]), \A n \in N : n # q => nq[n] = queue[n]
  PROVE  /\ Distinct(nq)
         /\ Head(queue[q]) \in QueuedTasks(queue)
         /\ \A task : task \in QueuedTasks(nq) <=> task \in QueuedTasks(queue) /\ task # Head(queue[q])
<1>1. /\ Head(queue[q]) = queue[q][1] /\ 1 \in 1 .. Len(queue[q])
      /\ Tail(queue[q]) \in Seq(Task) /\ Len(queue[q]) \in Nat /\ Len(Tail(queue[q])) = Len(queue[q]) - 1
      /\ \A k \in 1 .. Len(Tail(queue[q])) : k + 1 \in 1 .. Len(queue[q]) /\ Tail(queue[q])[k] = queue[q][k + 1]
  <2>1. queue[q] \in Seq(Task)
    BY QueueType
  <2> QED BY <2>1, TailFacts
<1>2. IsQueue(nq, N) /\ nq[q] = Tail(queue[q]) /\ \A n \in N : n # q => nq[n] = queue[n]
  OBVIOUS
<1>3. \A n, m \in N : \A k \in 1 .. Len(queue[n]), l \in 1 .. Len(queue[m]) :
        queue[n][k] = queue[m][l] => n = m /\ k = l
  BY DistinctIs
<1> DEFINE old(n, k) == IF n = q THEN k + 1 ELSE k
<1>4. ASSUME NEW n \in N, NEW k \in 1 .. Len(nq[n])
      PROVE  old(n, k) \in 1 .. Len(queue[n]) /\ nq[n][k] = queue[n][old(n, k)] /\ k \in Nat /\ k >= 1
  <2>0. nq[n] \in Seq(Task) /\ Len(nq[n]) \in Nat
    BY QueueType
  <2>1. CASE n = q
    <3>0. nq[n] = Tail(queue[q])
      BY <2>1
    <3>1. k \in 1 .. Len(Tail(queue[q])) /\ k \in Nat /\ k >= 1
      <4>1. k \in Nat /\ k >= 1
        BY <2>0
      <4> QED BY <3>0, <4>1
    <3>2. k + 1 \in 1 .. Len(queue[q]) /\ Tail(queue[q])[k] = queue[q][k + 1]
      BY <1>1, <3>1
    <3> QED BY <2>1, <3>0, <3>1, <3>2
  <2>2. CASE n # q
    BY <1>1, <1>2, <2>0, <2>2
  <2> QED BY <2>1, <2>2
<1>5. Distinct(nq)
  <2>1. ASSUME NEW n \in N, NEW m \in N, NEW k \in 1 .. Len(nq[n]), NEW l \in 1 .. Len(nq[m]), nq[n][k] = nq[m][l]
        PROVE  n = m /\ k = l
    <3>1. n = m /\ old(n, k) = old(m, l)
      BY <2>1, <1>3, <1>4
    <3> QED BY <3>1, <1>4
  <2> QED BY <2>1, <1>2, DistinctIs
<1>6. Head(queue[q]) \in QueuedTasks(queue)
  BY <1>1, QueueSet
<1>7. ASSUME NEW task, task \in QueuedTasks(nq) PROVE task \in QueuedTasks(queue) /\ task # Head(queue[q])
  <2>0. PICK n \in N : \E k \in 1 .. Len(nq[n]) : nq[n][k] = task
    BY <1>7, <1>2, QueueSet
  <2>1. PICK k \in 1 .. Len(nq[n]) : nq[n][k] = task
    BY <2>0
  <2>2. old(n, k) \in 1 .. Len(queue[n]) /\ task = queue[n][old(n, k)] /\ k \in Nat /\ k >= 1
    BY <1>4, <2>1
  <2>3. task \in QueuedTasks(queue)
    BY <2>2, QueueSet
  <2>4. task # queue[q][1]
    <3> SUFFICES ASSUME task = queue[q][1] PROVE FALSE
      OBVIOUS
    <3>1. n = q /\ old(n, k) = 1
      BY <1>1, <1>3, <2>2
    <3> QED BY <3>1, <2>2
  <2> QED BY <1>1, <2>3, <2>4
<1>8. ASSUME NEW task, task \in QueuedTasks(queue), task # Head(queue[q]) PROVE task \in QueuedTasks(nq)
  <2>0. PICK n \in N : \E k \in 1 .. Len(queue[n]) : queue[n][k] = task
    BY <1>8, QueueSet
  <2>1. PICK k \in 1 .. Len(queue[n]) : queue[n][k] = task
    BY <2>0
  <2>2. \E l \in 1 .. Len(nq[n]) : nq[n][l] = task
    <3>1. CASE n = q
      <4>1. k # 1
        BY <1>1, <1>8, <2>1, <3>1
      <4>2. k - 1 \in 1 .. Len(Tail(queue[q])) /\ (k - 1) + 1 = k
        BY <1>1, <2>1, <3>1, <4>1
      <4>3. Tail(queue[q])[k - 1] = queue[q][k]
        BY <1>1, <4>2
      <4> QED BY <1>2, <2>1, <3>1, <4>2, <4>3
    <3>2. CASE n # q
      BY <1>2, <2>1, <3>2
    <3> QED BY <3>1, <3>2
  <2> QED BY <1>2, <2>2, QueueSet
<1> QED
  BY <1>2, <1>5, <1>6, <1>7, <1>8

LEMMA PushQueue ==
  ASSUME NEW N, NEW queue, IsQueue(queue, N), NEW q \in N, Distinct(queue),
         NEW e \in Task, e \notin QueuedTasks(queue),
         NEW nq, IsQueue(nq, N), nq[q] = <<e>> \o queue[q], \A n \in N : n # q => nq[n] = queue[n]
  PROVE  /\ Distinct(nq)
         /\ \A task : task \in QueuedTasks(nq) <=> task \in QueuedTasks(queue) \/ task = e
<1> DEFINE w == <<e>> \o queue[q]
<1>0. queue[q] \in Seq(Task) /\ Len(queue[q]) \in Nat
  BY QueueType
<1>1. w \in Seq(Task) /\ Len(w) = Len(queue[q]) + 1 /\ w[1] = e /\ \A k \in 1 .. Len(queue[q]) : w[k + 1] = queue[q][k]
  BY <1>0, ConsFacts
<1>3. IsQueue(nq, N) /\ nq[q] = w /\ \A n \in N : n # q => nq[n] = queue[n]
  OBVIOUS
<1> HIDE DEF w
<1>4. \A n, m \in N : \A k \in 1 .. Len(queue[n]), l \in 1 .. Len(queue[m]) :
        queue[n][k] = queue[m][l] => n = m /\ k = l
  BY DistinctIs
<1> DEFINE old(n, k) == IF n = q THEN k - 1 ELSE k
<1>5. ASSUME NEW n \in N, NEW k \in 1 .. Len(nq[n])
      PROVE  /\ k \in Nat
             /\ \/ n = q /\ k = 1 /\ nq[n][k] = e
                \/ old(n, k) \in 1 .. Len(queue[n]) /\ nq[n][k] = queue[n][old(n, k)]
  <2>0. nq[n] \in Seq(Task) /\ Len(nq[n]) \in Nat
    BY QueueType
  <2>1. CASE n = q /\ k = 1
    BY <1>1, <1>3, <2>1
  <2>2. CASE n = q /\ k # 1
    <3>1. k - 1 \in 1 .. Len(queue[q]) /\ (k - 1) + 1 = k
      BY <1>0, <1>1, <1>3, <2>2
    <3>2. w[k] = queue[q][k - 1]
      BY <1>1, <3>1
    <3> QED BY <1>3, <2>2, <3>1, <3>2
  <2>3. CASE n # q
    BY <1>3, <2>0, <2>3
  <2> QED BY <2>1, <2>2, <2>3
<1>6. \A n \in N : \A k \in 1 .. Len(queue[n]) : queue[n][k] # e
  BY QueueSet
<1>7. Distinct(nq)
  <2>1. ASSUME NEW n \in N, NEW m \in N, NEW k \in 1 .. Len(nq[n]), NEW l \in 1 .. Len(nq[m]), nq[n][k] = nq[m][l]
        PROVE  n = m /\ k = l
    <3>1. CASE n = q /\ k = 1 /\ nq[n][k] = e
      BY <2>1, <3>1, <1>5, <1>6
    <3>2. CASE m = q /\ l = 1 /\ nq[m][l] = e
      <4>1. nq[n][k] = e
        BY <2>1, <3>2
      <4>2. n = q /\ k = 1
        BY <4>1, <1>5, <1>6
      <4> QED BY <3>2, <4>2
    <3>3. CASE /\ old(n, k) \in 1 .. Len(queue[n]) /\ nq[n][k] = queue[n][old(n, k)]
               /\ old(m, l) \in 1 .. Len(queue[m]) /\ nq[m][l] = queue[m][old(m, l)]
      <4>1. n = m /\ old(n, k) = old(m, l)
        <5> HIDE DEF old
        <5>1. queue[n][old(n, k)] = queue[m][old(m, l)]
          BY <2>1, <3>3
        <5> QED BY <3>3, <5>1, <1>4
      <4>2. k \in Nat /\ l \in Nat
        BY <1>5
      <4> QED BY <4>1, <4>2
    <3> QED BY <3>1, <3>2, <3>3, <1>5
  <2> QED BY <2>1, <1>3, DistinctIs
<1>8. ASSUME NEW task, task \in QueuedTasks(nq) PROVE task \in QueuedTasks(queue) \/ task = e
  <2>0. PICK n \in N : \E k \in 1 .. Len(nq[n]) : nq[n][k] = task
    BY <1>8, <1>3, QueueSet
  <2>1. PICK k \in 1 .. Len(nq[n]) : nq[n][k] = task
    BY <2>0
  <2> QED BY <2>1, <1>5, QueueSet
<1>9. ASSUME NEW task, task \in QueuedTasks(queue) \/ task = e PROVE task \in QueuedTasks(nq)
  <2>1. CASE task = e
    <3>1. 1 \in 1 .. Len(nq[q]) /\ nq[q][1] = e
      BY <1>0, <1>1, <1>3
    <3> QED BY <2>1, <3>1, <1>3, QueueSet
  <2>2. CASE task \in QueuedTasks(queue)
    <3>0. PICK n \in N : \E k \in 1 .. Len(queue[n]) : queue[n][k] = task
      BY <2>2, QueueSet
    <3>1. PICK k \in 1 .. Len(queue[n]) : queue[n][k] = task
      BY <3>0
    <3>2. \E l \in 1 .. Len(nq[n]) : nq[n][l] = task
      <4>1. CASE n = q
        <5>1. k + 1 \in 1 .. Len(nq[q]) /\ nq[q][k + 1] = queue[q][k]
          BY <1>0, <1>1, <1>3, <3>1, <4>1
        <5> QED BY <3>1, <4>1, <5>1
      <4>2. CASE n # q
        BY <1>3, <3>1, <4>2
      <4> QED BY <4>1, <4>2
    <3> QED BY <3>2, <1>3, QueueSet
  <2> QED BY <1>9, <2>1, <2>2
<1> QED
  BY <1>3, <1>7, <1>8, <1>9

LEMMA FillQueue ==
  ASSUME NEW N, NEW queue, IsQueue(queue, N), NEW q \in N, queue[q] = << >>, Distinct(queue),
         NEW w \in Seq(Task), \A k, l \in 1 .. Len(w) : w[k] = w[l] => k = l,
         \A k \in 1 .. Len(w) : w[k] \notin QueuedTasks(queue),
         NEW nq, IsQueue(nq, N), nq[q] = w, \A n \in N : n # q => nq[n] = queue[n]
  PROVE  /\ Distinct(nq)
         /\ \A task : task \in QueuedTasks(nq) <=>
              task \in QueuedTasks(queue) \/ \E k \in 1 .. Len(w) : w[k] = task
<1>1. IsQueue(nq, N) /\ nq[q] = w /\ \A n \in N : n # q => nq[n] = queue[n]
  OBVIOUS
<1>2. \A n, m \in N : \A k \in 1 .. Len(queue[n]), l \in 1 .. Len(queue[m]) :
        queue[n][k] = queue[m][l] => n = m /\ k = l
  BY DistinctIs
<1>3. \A n \in N : \A k \in 1 .. Len(queue[n]) : n # q /\ queue[n][k] \in QueuedTasks(queue)
  <2>1. Len(queue[q]) = 0
    OBVIOUS
  <2>2. \A k \in 1 .. Len(queue[q]) : FALSE
    BY <2>1
  <2> QED BY <2>2, QueueSet
<1>4. Distinct(nq)
  <2>1. ASSUME NEW n \in N, NEW m \in N, NEW k \in 1 .. Len(nq[n]), NEW l \in 1 .. Len(nq[m]), nq[n][k] = nq[m][l]
        PROVE  n = m /\ k = l
    <3>1. CASE n = q /\ m = q
      BY <2>1, <3>1, <1>1
    <3>2. CASE n = q /\ m # q
      BY <2>1, <3>2, <1>1, <1>3
    <3>3. CASE n # q /\ m = q
      BY <2>1, <3>3, <1>1, <1>3
    <3>4. CASE n # q /\ m # q
      BY <2>1, <3>4, <1>1, <1>2
    <3> QED BY <3>1, <3>2, <3>3, <3>4
  <2> QED BY <2>1, <1>1, DistinctIs
<1>5. ASSUME NEW task, task \in QueuedTasks(nq)
      PROVE  task \in QueuedTasks(queue) \/ \E k \in 1 .. Len(w) : w[k] = task
  <2>0. PICK n \in N : \E k \in 1 .. Len(nq[n]) : nq[n][k] = task
    BY <1>5, <1>1, QueueSet
  <2>1. PICK k \in 1 .. Len(nq[n]) : nq[n][k] = task
    BY <2>0
  <2>2. CASE n = q
    BY <2>1, <2>2, <1>1
  <2>3. CASE n # q
    BY <2>1, <2>3, <1>1, QueueSet
  <2> QED BY <2>2, <2>3
<1>6. ASSUME NEW task, task \in QueuedTasks(queue) PROVE task \in QueuedTasks(nq)
  <2>0. PICK n \in N : \E k \in 1 .. Len(queue[n]) : queue[n][k] = task
    BY <1>6, QueueSet
  <2>1. PICK k \in 1 .. Len(queue[n]) : queue[n][k] = task
    BY <2>0
  <2> QED BY <2>1, <1>1, <1>3, QueueSet
<1>7. ASSUME NEW k \in 1 .. Len(w) PROVE w[k] \in QueuedTasks(nq)
  BY <1>1, QueueSet
<1> QED
  BY <1>1, <1>4, <1>5, <1>6, <1>7

LEMMA JoinTasksAre ==
  ASSUME TypeOK
  PROVE  JoinTasks = QueuedTasks(join_queue) \cup QueuedTasks(todo)
<1>1. DOMAIN todo = Threads
  BY DEF TypeOK
<1> QED
  BY <1>1 DEF JoinTasks, QueuedTasks

------------------------------------------------------------------------------
(* Tasks that are put on a queue are not empty, and tell their clusters.    *)

LEMMA BothSidesAre ==
  ASSUME NEW c \in Clusters1
  PROVE  /\ BothSides(Whole(c)) <=> \A x \in Rels : Members(x, c) # {}
         /\ \A d \in Clusters2 : BothSides(Part(c, d)) <=> \A x \in Rels : Members2(x, c, d) # {}
<1>1. c \in Int
  BY DEF Clusters1
<1>2. ASSUME NEW x \in Rels PROVE Whole(c).n[x] > 0 <=> Members(x, c) # {}
  <2>1. IsFiniteSet(Members(x, c)) /\ Cardinality(Members(x, c)) \in Nat
    BY <1>1, ClusterSets
  <2>2. Cardinality(Members(x, c)) = 0 <=> Members(x, c) = {}
    BY <2>1, FS_EmptySet
  <2> QED BY <2>1, <2>2, TaskIs
<1>3. ASSUME NEW d \in Clusters2, NEW x \in Rels PROVE Part(c, d).n[x] > 0 <=> Members2(x, c, d) # {}
  <2>1. IsFiniteSet(Members2(x, c, d)) /\ Cardinality(Members2(x, c, d)) \in Nat
    BY PieceSets
  <2>2. Cardinality(Members2(x, c, d)) = 0 <=> Members2(x, c, d) = {}
    BY <2>1, FS_EmptySet
  <2>3. Part(c, d).n[x] = Cardinality(Members2(x, c, d))
    BY TaskIs
  <2> QED BY <2>1, <2>2, <2>3
<1> QED
  BY <1>2, <1>3 DEF BothSides

LEMMA WholeUnique ==
  ASSUME NEW c \in Clusters1, NEW k \in Clusters1, BothSides(Whole(c)), Whole(c) = Whole(k)
  PROVE  c = k
<1>1. "R" \in Rels
  BY DEF Rels
<1>2. PICK i \in Members("R", c) : TRUE
  BY <1>1, BothSidesAre
<1>3. Slots("R", c) = Slots("R", k)
  BY <1>1, TaskIs
<1>4. Slot("R", i) \in Slots("R", k)
  BY <1>1, <1>3, SlotIn
<1>5. PICK j \in Members("R", k) : Slot("R", j) = Slot("R", i)
  BY <1>1, <1>4, SlotOnto
<1>6. i \in Tuples("R") /\ j \in Tuples("R") /\ Cluster1("R", i) = c /\ Cluster1("R", j) = k
  BY <1>2, <1>5 DEF Members
<1>7. i = j
  BY <1>1, <1>5, <1>6, SlotUnique
<1> QED
  BY <1>6, <1>7

LEMMA PartUnique ==
  ASSUME NEW c \in Clusters1, NEW d \in Clusters2, NEW k \in Clusters1, NEW e \in Clusters2,
         BothSides(Part(c, d)), Part(c, d) = Part(k, e)
  PROVE  c = k /\ d = e
<1>1. "R" \in Rels
  BY DEF Rels
<1>2. PartSlots("R", c, d) = PartSlots("R", k, e)
  BY <1>1, TaskIs
<1>3. PartStart("R", c, d) \in PartSlots("R", c, d)
  <2>1. Part(c, d).n["R"] > 0 /\ Part(c, d).n["R"] = Cardinality(Members2("R", c, d))
    BY <1>1, TaskIs DEF BothSides
  <2>2. PartStart("R", c, d) \in Nat /\ Cardinality(Members2("R", c, d)) \in Nat
    BY <1>1, PartWithin, PieceSets
  <2> QED BY <2>1, <2>2 DEF PartSlots
<1> QED
  BY <1>1, <1>2, <1>3, PartsApart

(* Tuples with equal keys are in the same piece. *)
LEMMA PairCluster ==
  ASSUME NEW i \in RIdx, NEW j \in SIdx, Matching(i, j)
  PROVE  /\ Cluster1("R", i) \in Clusters1 /\ Cluster2("R", i) \in Clusters2
         /\ i \in Members2("R", Cluster1("R", i), Cluster2("R", i))
         /\ j \in Members2("S", Cluster1("R", i), Cluster2("R", i))
         /\ BothSides(Whole(Cluster1("R", i)))
         /\ BothSides(Part(Cluster1("R", i), Cluster2("R", i)))
<1> DEFINE c == Cluster1("R", i)
           d == Cluster2("R", i)
<1>1. Rels = {"R", "S"} /\ i \in Tuples("R") /\ j \in Tuples("S")
  BY DEF Rels, Tuples, Num, RIdx, SIdx
<1>2. c \in Clusters1 /\ d \in Clusters2
  BY <1>1, ClusterType
<1>3. Cluster1("S", j) = c /\ Cluster2("S", j) = d
  <2>1. Key("R", i) = Key("S", j)
    BY DEF Key, Matching
  <2> QED BY <2>1 DEF Cluster1, Cluster2
<1>4. i \in Members2("R", c, d) /\ j \in Members2("S", c, d) /\ i \in Members("R", c) /\ j \in Members("S", c)
  BY <1>1, <1>3 DEF Members2, Members
<1> HIDE DEF c, d
<1>5. BothSides(Whole(c)) /\ BothSides(Part(c, d))
  BY <1>1, <1>2, <1>4, BothSidesAre
<1> QED
  BY <1>2, <1>4, <1>5 DEF c, d

LEMMA InOrderOnto ==
  ASSUME NEW C \in SUBSET Nat, IsFiniteSet(C)
  PROVE  /\ \A c \in C : \E k \in 1 .. Cardinality(C) : InOrder(C)[k] = c
         /\ \A k, l \in 1 .. Cardinality(C) : InOrder(C)[k] = InOrder(C)[l] => k = l
<1>1. /\ Cardinality(C) \in Nat
      /\ \A k \in 1 .. Cardinality(C) : InOrder(C)[k] \in C /\ Rank(C, InOrder(C)[k]) = k - 1
  BY InOrderIs
<1>2. ASSUME NEW c \in C PROVE \E k \in 1 .. Cardinality(C) : InOrder(C)[k] = c
  <2>1. Rank(C, c) \in Nat /\ Rank(C, c) < Cardinality(C)
    <3>1. c \in Nat
      OBVIOUS
    <3> QED BY <1>1, <3>1, RankType
  <2>2. Rank(C, c) + 1 \in 1 .. Cardinality(C) /\ (Rank(C, c) + 1) - 1 = Rank(C, c)
    BY <1>1, <2>1
  <2>3. InOrder(C)[Rank(C, c) + 1] \in C /\ Rank(C, InOrder(C)[Rank(C, c) + 1]) = Rank(C, c)
    BY <1>1, <2>2
  <2>4. InOrder(C)[Rank(C, c) + 1] = c
    <3> DEFINE g == InOrder(C)[Rank(C, c) + 1]
    <3>1. g \in C /\ Rank(C, g) = Rank(C, c)
      BY <2>3
    <3> HIDE DEF g
    <3>2. g = c
      BY <3>1, RankUnique
    <3> QED BY <3>2 DEF g
  <2> QED BY <2>2, <2>4
<1>3. ASSUME NEW k \in 1 .. Cardinality(C), NEW l \in 1 .. Cardinality(C), InOrder(C)[k] = InOrder(C)[l]
      PROVE  k = l
  <2>1. k - 1 = l - 1
    BY <1>1, <1>3
  <2> QED BY <2>1
<1> QED
  BY <1>2, <1>3

(* Thread 0 makes one task of each cluster that both relations have. *)
LEMMA TasksOnAre ==
  ASSUME PassInv, pc[0] \in Copied, NEW q, NEW node
  PROVE  /\ \A k \in 1 .. Len(TasksOn(q, node)) : \E c \in Clusters1 :
              TasksOn(q, node)[k] = Whole(c) /\ node[c] = q /\ BothSides(Whole(c))
         /\ \A k, l \in 1 .. Len(TasksOn(q, node)) : TasksOn(q, node)[k] = TasksOn(q, node)[l] => k = l
         /\ \A c \in Clusters1 : node[c] = q /\ BothSides(Whole(c)) =>
              \E k \in 1 .. Len(TasksOn(q, node)) : TasksOn(q, node)[k] = Whole(c)
<1> DEFINE C == {c \in Clusters1 : node[c] = q /\ BothSides(PartTask(c))}
           s == InOrder(C)
           w == [k \in DOMAIN s |-> PartTask(s[k])]
           n == Cardinality(C)
<1>1. C \in SUBSET Nat /\ IsFiniteSet(C)
  <2>1. IsFiniteSet(Clusters1) /\ Clusters1 \in SUBSET Nat
    BY Sizes, FS_Interval DEF Clusters1
  <2> QED BY <2>1, FS_Subset
<1>2. \A c \in Clusters1 : c \in C <=> node[c] = q /\ BothSides(Whole(c))
  BY PartTaskIs
<1>3. \A c \in C : c \in Clusters1
  OBVIOUS
<1>4. TasksOn(q, node) = Reverse(w)
  BY DEF TasksOn
<1> HIDE DEF C
<1>5. /\ n \in Nat /\ s \in Seq(C) /\ Len(s) = n
      /\ \A k \in 1 .. n : s[k] \in C
  BY <1>1, InOrderIs
<1>6. /\ \A c \in C : \E k \in 1 .. n : s[k] = c
      /\ \A k, l \in 1 .. n : s[k] = s[l] => k = l
  BY <1>1, InOrderOnto
<1> HIDE DEF s, n
<1>7. DOMAIN s = 1 .. n
  BY <1>5
<1>8. \A k \in 1 .. n : w[k] = Whole(s[k])
  BY <1>3, <1>5, <1>7, PartTaskIs
<1>9. Len(w) = n
  BY <1>5, <1>7
<1> HIDE DEF w
<1>10. Reverse(w) = [k \in 1 .. n |-> w[(n - k) + 1]]
  BY <1>9 DEF Reverse
<1>11. Len(Reverse(w)) = n
  BY <1>5, <1>10
<1>12. \A k \in 1 .. n : /\ (n - k) + 1 \in 1 .. n
                         /\ (n - ((n - k) + 1)) + 1 = k
  BY <1>5
<1>13. \A k \in 1 .. n : Reverse(w)[k] = Whole(s[(n - k) + 1])
  BY <1>8, <1>10, <1>12
<1> HIDE DEF w
<1> DEFINE r == Reverse(w)
<1>14. Len(r) = n /\ (\A k \in 1 .. n : r[k] = Whole(s[(n - k) + 1])) /\ TasksOn(q, node) = r
  BY <1>4, <1>11, <1>13
<1> HIDE DEF r
<1>15. ASSUME NEW k \in 1 .. n PROVE s[(n - k) + 1] \in C /\ s[(n - k) + 1] \in Clusters1
  BY <1>3, <1>5, <1>12
<1>16. ASSUME NEW k \in 1 .. n
       PROVE  \E c \in Clusters1 : r[k] = Whole(c) /\ node[c] = q /\ BothSides(Whole(c))
  BY <1>2, <1>14, <1>15
<1>17. ASSUME NEW k \in 1 .. n, NEW l \in 1 .. n, r[k] = r[l] PROVE k = l
  <2>1. Whole(s[(n - k) + 1]) = Whole(s[(n - l) + 1])
    BY <1>14, <1>17
  <2>2. s[(n - k) + 1] = s[(n - l) + 1]
    BY <2>1, <1>2, <1>15, WholeUnique
  <2>3. (n - k) + 1 = (n - l) + 1
    BY <2>2, <1>6, <1>12
  <2> QED BY <2>3, <1>5
<1>18. ASSUME NEW c \in Clusters1, node[c] = q, BothSides(Whole(c))
       PROVE  \E k \in 1 .. n : r[k] = Whole(c)
  <2>1. PICK l \in 1 .. n : s[l] = c
    BY <1>2, <1>6, <1>18
  <2>2. (n - l) + 1 \in 1 .. n /\ r[(n - l) + 1] = Whole(s[(n - ((n - l) + 1)) + 1])
    BY <1>12, <1>14
  <2> QED BY <2>1, <2>2, <1>12
<1> QED
  BY <1>14, <1>16, <1>17, <1>18

LEMMA PiecesOnce ==
  ASSUME InPlace, NEW c \in Clusters1
  PROVE  /\ \A k \in 1 .. Len(PiecesOf(c)) : \E d \in Clusters2 :
              PiecesOf(c)[k] = Part(c, d) /\ BothSides(Part(c, d))
         /\ \A k, l \in 1 .. Len(PiecesOf(c)) : PiecesOf(c)[k] = PiecesOf(c)[l] => k = l
         /\ \A d \in Clusters2 : BothSides(Part(c, d)) =>
              \E k \in 1 .. Len(PiecesOf(c)) : PiecesOf(c)[k] = Part(c, d)
<1> DEFINE D == {d \in Clusters2 : BothSides(JoinTask(Whole(c), d))}
           p == InOrder(D)
           w == [k \in DOMAIN p |-> JoinTask(Whole(c), p[k])]
           n == Cardinality(D)
<1>1. D \in SUBSET Nat /\ IsFiniteSet(D) /\ D \in SUBSET Clusters2
  <2>1. IsFiniteSet(Clusters2) /\ Clusters2 \in SUBSET Nat
    BY Sizes, FS_Interval DEF Clusters2
  <2> QED BY <2>1, FS_Subset
<1>2. PiecesOf(c) = w
  BY DEF PiecesOf
<1>3. \A d \in Clusters2 : d \in D <=> BothSides(Part(c, d))
  BY JoinTaskIs
<1> HIDE DEF D
<1>4. n \in Nat /\ p \in Seq(D) /\ Len(p) = n /\ \A k \in 1 .. n : p[k] \in D
  BY <1>1, InOrderIs
<1>5. /\ \A d \in D : \E k \in 1 .. n : p[k] = d
      /\ \A k, l \in 1 .. n : p[k] = p[l] => k = l
  BY <1>1, InOrderOnto
<1> HIDE DEF p, n
<1>6. DOMAIN p = 1 .. n
  BY <1>4
<1>7. \A k \in 1 .. n : p[k] \in Clusters2 /\ w[k] = Part(c, p[k])
  <2>1. \A k \in 1 .. n : p[k] \in Clusters2
    BY <1>1, <1>4
  <2> QED BY <1>6, <2>1, JoinTaskIs
<1>8. Len(w) = n
  BY <1>4, <1>6
<1> HIDE DEF w
<1>9. ASSUME NEW k \in 1 .. n PROVE \E d \in Clusters2 : w[k] = Part(c, d) /\ BothSides(Part(c, d))
  BY <1>3, <1>4, <1>7
<1>10. ASSUME NEW k \in 1 .. n, NEW l \in 1 .. n, w[k] = w[l] PROVE k = l
  <2>1. Part(c, p[k]) = Part(c, p[l]) /\ BothSides(Part(c, p[k])) /\ p[k] \in Clusters2 /\ p[l] \in Clusters2
    BY <1>3, <1>4, <1>7, <1>10
  <2>2. p[k] = p[l]
    BY <2>1, PartUnique
  <2> QED BY <2>2, <1>5
<1>11. ASSUME NEW d \in Clusters2, BothSides(Part(c, d)) PROVE \E k \in 1 .. n : w[k] = Part(c, d)
  BY <1>3, <1>5, <1>7, <1>11
<1> QED
  BY <1>2, <1>8, <1>9, <1>10, <1>11

(* A join counts each matching pair of its piece once. *)
LEMMA HitsExact ==
  ASSUME NEW c \in Clusters1, NEW d \in Clusters2, NEW i \in RIdx, NEW j \in SIdx,
         \A x \in Rels : {mem[x][a] : a \in PartSlots(x, c, d)} = Members2(x, c, d)
  PROVE  Hits(Part(c, d), i, j) =
           IF Matching(i, j) /\ i \in Members2("R", c, d) /\ j \in Members2("S", c, d) THEN 1 ELSE 0
<1> DEFINE A == PartSlots("R", c, d)
           B == PartSlots("S", c, d)
           H == {p \in A \X B : mem["R"][p[1]] = i /\ mem["S"][p[2]] = j}
<1>1. "R" \in Rels /\ "S" \in Rels
  BY DEF Rels
<1>2. Hits(Part(c, d), i, j) = IF Matching(i, j) THEN Cardinality(H) ELSE 0
  BY <1>1, TaskIs DEF Hits
<1>3. ASSUME NEW x \in Rels, NEW a \in PartSlots(x, c, d), NEW b \in PartSlots(x, c, d), mem[x][a] = mem[x][b]
      PROVE  a = b
  <2> DEFINE P == PartSlots(x, c, d)
             Q == Members2(x, c, d)
             f == [e \in P |-> mem[x][e]]
  <2>1. {mem[x][e] : e \in P} = Q
    OBVIOUS
  <2>2. f \in Surjection(P, Q)
    <3>1. f \in [P -> Q] /\ \A y \in Q : \E e \in P : f[e] = y
      BY <2>1
    <3> QED BY <3>1 DEF Surjection
  <2>3. IsFiniteSet(P) /\ Cardinality(P) = Cardinality(Q)
    <3> DEFINE s == PartStart(x, c, d)
               n == Cardinality(Members2(x, c, d))
    <3>1. s \in Nat /\ n \in Nat
      BY PartWithin, PieceSets
    <3>2. P = s .. s + n - 1 /\ n = Cardinality(Q)
      BY DEF PartSlots
    <3> HIDE DEF s, n
    <3>3. IsFiniteSet(s .. s + n - 1) /\ Cardinality(s .. s + n - 1) = IF s > s + n - 1 THEN 0 ELSE (s + n - 1) - s + 1
      BY <3>1, FS_Interval
    <3>4. Cardinality(s .. s + n - 1) = n
      BY <3>1, <3>3
    <3> QED BY <3>2, <3>3, <3>4
  <2> HIDE DEF P, Q
  <2>4. f \in Injection(P, Q)
    <3> HIDE DEF f
    <3> QED BY <2>2, <2>3, FS_SurjSameCardinalityImpliesInj
  <2>5. a \in P /\ b \in P
    BY DEF P
  <2> QED BY <1>3, <2>4, <2>5 DEF Injection, IsInjective
<1>4. CASE i \in Members2("R", c, d) /\ j \in Members2("S", c, d)
  <2>1. PICK a \in A : mem["R"][a] = i
    BY <1>1, <1>4
  <2>2. PICK b \in B : mem["S"][b] = j
    BY <1>1, <1>4
  <2>3. H = {<<a, b>>}
    <3>1. \A p \in H : p[1] = a /\ p[2] = b /\ p = <<p[1], p[2]>>
      BY <1>1, <1>3, <2>1, <2>2
    <3>2. <<a, b>> \in H
      BY <2>1, <2>2
    <3> QED BY <3>1, <3>2
  <2>4. Cardinality(H) = 1
    BY <2>3, FS_Singleton
  <2> HIDE DEF H
  <2> QED BY <1>2, <1>4, <2>4
<1>5. CASE ~(i \in Members2("R", c, d) /\ j \in Members2("S", c, d))
  <2>1. H = {}
    <3>1. \A p \in H : mem["R"][p[1]] \in Members2("R", c, d) /\ mem["S"][p[2]] \in Members2("S", c, d)
      BY <1>1
    <3> QED BY <3>1, <1>5
  <2>2. Cardinality(H) = 0
    BY <2>1, FS_EmptySet
  <2> HIDE DEF H
  <2> QED BY <1>2, <1>5, <2>2
<1> QED
  BY <1>4, <1>5

------------------------------------------------------------------------------
(* The tasks and the pairs counted: the steps *)

Regions == 0 .. numnuma - 1

LEMMA AreQueues ==
  ASSUME TypeOK
  PROVE  /\ IsQueue(part_queue, Regions) /\ IsQueue(join_queue, Regions) /\ IsQueue(todo, Threads)
         /\ JoinTasks = QueuedTasks(join_queue) \cup QueuedTasks(todo)
<1>1. IsQueue(part_queue, Regions) /\ IsQueue(join_queue, Regions) /\ IsQueue(todo, Threads)
  BY DEF TypeOK, IsQueue, Regions
<1> QED
  BY <1>1, JoinTasksAre

LEMMA StillQueues ==
  ASSUME TypeOK'
  PROVE  /\ IsQueue(part_queue', Regions) /\ IsQueue(join_queue', Regions) /\ IsQueue(todo', Threads)
         /\ JoinTasks' = QueuedTasks(join_queue') \cup QueuedTasks(todo')
<1>1. IsQueue(part_queue', Regions) /\ IsQueue(join_queue', Regions) /\ IsQueue(todo', Threads)
  BY DEF TypeOK, IsQueue, Regions
<1>2. (TypeOK => JoinTasks = QueuedTasks(join_queue) \cup QueuedTasks(todo))'
  BY JoinTasksAre, PTL
<1>3. JoinTasks' = QueuedTasks(join_queue') \cup QueuedTasks(todo')
  BY <1>2 DEF QueuedTasks
<1> QED
  BY <1>1, <1>3

(* What the count of the pairs rests on, but for the passes *)
TallyInv == OnceInv /\ DrainInv /\ CountInv

(* Steps that touch no task and count no pair *)
LEMMA QuietStep ==
  ASSUME PassInv, TallyInv, NEW t \in Threads, ThreadStep(t), UNCHANGED <<part_queue, join_queue, todo, out>>,
         pc'[0] \in TasksMade => pc[0] \in TasksMade,
         pc'[t] # "add" => todo[t] = << >>,
         pc'[t] \in Partitioned => part_queue[get_numa_id(t)] = << >>,
         pc'[t] \in Joined => join_queue[get_numa_id(t)] = << >>
  PROVE  TallyInv'
<1>1. TypeOK /\ PhaseInv /\ 0 \in Threads
  BY Sizes DEF PassInv
<1>2. /\ \A u \in Threads : u # t => pc'[u] = pc[u]
      /\ \A u \in Threads : pc[u] \in TasksMade => pc'[u] \in TasksMade
  BY <1>1, StepPhase
<1>3. QueuedTasks(part_queue)' = QueuedTasks(part_queue) /\ JoinTasks' = JoinTasks
  BY DEF QueuedTasks, JoinTasks
<1>4. OnceInv'
  BY <1>3 DEF TallyInv, OnceInv, Distinct, QueuedTasks
<1>5. pc'[0] \in TasksMade <=> pc[0] \in TasksMade
  BY <1>1, <1>2
<1>6. DrainInv'
  <2>1. ASSUME NEW u \in Threads
        PROVE  /\ pc'[u] # "add" => todo'[u] = << >>
               /\ pc'[u] \in Partitioned => part_queue'[get_numa_id(u)] = << >>
               /\ pc'[u] \in Joined => join_queue'[get_numa_id(u)] = << >>
    <3>1. CASE u = t
      BY <3>1
    <3>2. CASE u # t
      <4>1. pc'[u] = pc[u]
        BY <1>2, <3>2
      <4> QED BY <4>1 DEF TallyInv, DrainInv
    <3> QED BY <3>1, <3>2
  <2>2. /\ pc[0] \notin TasksMade => QueuedTasks(part_queue) = {} /\ JoinTasks = {}
        /\ \A n \in DOMAIN part_queue : part_queue[n] # << >> => n \in Nodes
        /\ \A n \in DOMAIN join_queue : join_queue[n] # << >> => \E u \in Threads : get_numa_id(u) = n
    BY DEF TallyInv, DrainInv
  <2>3. /\ pc'[0] \notin TasksMade => QueuedTasks(part_queue)' = {} /\ JoinTasks' = {}
        /\ \A n \in DOMAIN part_queue' : part_queue'[n] # << >> => n \in Nodes
        /\ \A n \in DOMAIN join_queue' : join_queue'[n] # << >> => \E u \in Threads : get_numa_id(u) = n
    BY <2>2, <1>3, <1>5
  <2> QED BY <2>1, <2>3 DEF DrainInv
<1>7. CountInv'
  BY <1>3, <1>5 DEF TallyInv, CountInv, CountedOnce
<1> QED
  BY <1>4, <1>6, <1>7 DEF TallyInv

LEMMA QuietSteps ==
  ASSUME PassInv, TallyInv, NEW t \in Threads,
         \/ Arrive(t) \/ Start(t) \/ Histogram(t) \/ Offsets(t) \/ Copy(t) \/ CopyDone(t)
         \/ (t # 0 /\ CreateTasks(t)) \/ StartPart(t) \/ AddDone(t) \/ PartDone(t)
         \/ StartJoin(t) \/ JoinDone(t) \/ Exit(t)
  PROVE  TallyInv'
<1>1. ThreadStep(t)
  BY DEF ThreadStep
<1>2. pc \in [Threads -> PCs] /\ 0 \in Threads
  BY Sizes DEF PassInv, TypeOK, PCs
<1>3. UNCHANGED <<part_queue, join_queue, todo, out>>
  BY DEF Arrive, Start, Histogram, Offsets, Copy, CopyDone, CreateTasks, StartPart, AddDone, PartDone,
         StartJoin, JoinDone, Exit, partition
<1>4. /\ pc[t] # "add" => todo[t] = << >>
      /\ pc[t] \in Partitioned => part_queue[get_numa_id(t)] = << >>
      /\ pc[t] \in Joined => join_queue[get_numa_id(t)] = << >>
  BY DEF TallyInv, DrainInv
<1> DEFINE Fits == /\ pc'[0] \in TasksMade => pc[0] \in TasksMade
                   /\ pc'[t] # "add" => todo[t] = << >>
                   /\ pc'[t] \in Partitioned => part_queue[get_numa_id(t)] = << >>
                   /\ pc'[t] \in Joined => join_queue[get_numa_id(t)] = << >>
<1>5. Fits
  <2> USE DEF TasksMade, Partitioned, Joined
  <2>1. CASE Arrive(t) \/ Start(t) \/ Histogram(t) \/ Offsets(t)
    BY <1>2, <1>4, <2>1 DEF Arrive, Start, Histogram, Offsets, Goto, CrossBarrier
  <2>2. CASE Copy(t)
    BY <1>2, <1>4, <2>2 DEF Copy
  <2>3. CASE CopyDone(t)
    BY <1>2, <1>4, <2>3 DEF CopyDone, Goto
  <2>4. CASE t # 0 /\ CreateTasks(t)
    BY <1>2, <1>4, <2>4 DEF CreateTasks, Goto, CrossBarrier
  <2>5. CASE StartPart(t) \/ StartJoin(t) \/ Exit(t)
    BY <1>2, <1>4, <2>5 DEF StartPart, StartJoin, Exit, Goto, CrossBarrier
  <2>6. CASE AddDone(t) \/ PartDone(t) \/ JoinDone(t)
    BY <1>2, <1>4, <2>6 DEF AddDone, PartDone, JoinDone, Goto
  <2> QED BY <2>1, <2>2, <2>3, <2>4, <2>5, <2>6
<1> QED
  BY <1>1, <1>3, <1>5, QuietStep

(* Thread 0 makes the tasks of the second pass. *)
LEMMA TallyCreateTasks ==
  ASSUME PassInv, TallyInv, CreateTasks(0)
  PROVE  TallyInv'
<1>0. TypeOK /\ PhaseInv /\ 0 \in Threads
  BY Sizes DEF PassInv
<1>1. /\ pc[0] = "copied" /\ pc' = [pc EXCEPT ![0] = "tasksMade"]
      /\ \A u \in Threads : pc[u] \in Copied
      /\ UNCHANGED <<join_queue, todo, out>>
  BY DEF CreateTasks, CrossBarrier, Goto
<1>2. PICK node \in [Clusters1 -> Nodes] : part_queue' = [q \in DOMAIN part_queue |-> TasksOn(q, node)]
  BY DEF CreateTasks
<1>3. pc \in [Threads -> PCs]
  BY <1>0 DEF TypeOK, PCs
<1>4. pc[0] \notin TasksMade /\ pc[0] \in Copied /\ pc'[0] \in TasksMade
  BY <1>0, <1>1, <1>3 DEF Copied, TasksMade, Partitioned, Joined
<1>5. QueuedTasks(part_queue) = {} /\ JoinTasks = {}
  BY <1>4 DEF TallyInv, DrainInv
<1>6. JoinTasks' = {}
  BY <1>1, <1>5 DEF JoinTasks, QueuedTasks
<1>7. IsQueue(part_queue, Regions) /\ IsQueue(join_queue, Regions) /\ IsQueue(todo, Threads)
      /\ Nodes \in SUBSET Regions
  BY <1>0, AreQueues, RadixAssumption DEF Regions
<1>8. IsQueue(part_queue', Regions)
  <2>1. \A q \in Regions : TasksOn(q, node) \in Seq(Task)
    BY <1>4, TasksOnIs
  <2>2. DOMAIN part_queue = Regions
    BY <1>7, QueueType
  <2> QED BY <1>2, <2>1, <2>2 DEF IsQueue
<1>9. \A q \in Regions : part_queue'[q] = TasksOn(q, node)
  <2>1. DOMAIN part_queue = Regions
    BY <1>7, QueueType
  <2> QED BY <1>2, <2>1
<1>10. ASSUME NEW q \in Regions
       PROVE  /\ \A k \in 1 .. Len(part_queue'[q]) : \E c \in Clusters1 :
                   part_queue'[q][k] = Whole(c) /\ node[c] = q /\ BothSides(Whole(c))
              /\ \A k, l \in 1 .. Len(part_queue'[q]) : part_queue'[q][k] = part_queue'[q][l] => k = l
              /\ \A c \in Clusters1 : node[c] = q /\ BothSides(Whole(c)) =>
                   \E k \in 1 .. Len(part_queue'[q]) : part_queue'[q][k] = Whole(c)
  <2>1. /\ \A k \in 1 .. Len(TasksOn(q, node)) : \E c \in Clusters1 :
             TasksOn(q, node)[k] = Whole(c) /\ node[c] = q /\ BothSides(Whole(c))
        /\ \A k, l \in 1 .. Len(TasksOn(q, node)) : TasksOn(q, node)[k] = TasksOn(q, node)[l] => k = l
        /\ \A c \in Clusters1 : node[c] = q /\ BothSides(Whole(c)) =>
             \E k \in 1 .. Len(TasksOn(q, node)) : TasksOn(q, node)[k] = Whole(c)
    BY <1>4, TasksOnAre
  <2>2. part_queue'[q] = TasksOn(q, node)
    BY <1>9
  <2> QED BY <2>1, <2>2
<1>11. Distinct(part_queue')
  <2> SUFFICES ASSUME NEW n \in Regions, NEW m \in Regions, NEW k \in 1 .. Len(part_queue'[n]),
                      NEW l \in 1 .. Len(part_queue'[m]), part_queue'[n][k] = part_queue'[m][l]
               PROVE  n = m /\ k = l
    BY <1>8, DistinctIs
  <2>1. PICK c \in Clusters1 : part_queue'[n][k] = Whole(c) /\ node[c] = n /\ BothSides(Whole(c))
    BY <1>10
  <2>2. PICK d \in Clusters1 : part_queue'[m][l] = Whole(d) /\ node[d] = m /\ BothSides(Whole(d))
    BY <1>10
  <2>3. c = d
    BY <2>1, <2>2, WholeUnique
  <2>4. n = m
    BY <2>1, <2>2, <2>3
  <2> QED BY <2>4, <1>10
<1>12. \A c \in Clusters1 : BothSides(Whole(c)) => Whole(c) \in QueuedTasks(part_queue')
  <2> SUFFICES ASSUME NEW c \in Clusters1, BothSides(Whole(c)) PROVE Whole(c) \in QueuedTasks(part_queue')
    OBVIOUS
  <2>1. node[c] \in Regions
    BY <1>2, <1>7
  <2>2. \E k \in 1 .. Len(part_queue'[node[c]]) : part_queue'[node[c]][k] = Whole(c)
    BY <2>1, <1>10
  <2> QED BY <1>8, <2>1, <2>2, QueueSet
<1>13. ASSUME NEW s \in QueuedTasks(part_queue') PROVE BothSides(s)
  <2>1. PICK n \in Regions : \E k \in 1 .. Len(part_queue'[n]) : part_queue'[n][k] = s
    BY <1>8, QueueSet
  <2> QED BY <2>1, <1>10
<1>14. OnceInv'
  <2>1. Distinct(join_queue') /\ Distinct(todo') /\ QueuedTasks(todo') \cap QueuedTasks(join_queue') = {}
    BY <1>1 DEF TallyInv, OnceInv
  <2>2. QueuedTasks(part_queue)' = QueuedTasks(part_queue') /\ QueuedTasks(todo)' = QueuedTasks(todo')
        /\ QueuedTasks(join_queue)' = QueuedTasks(join_queue')
        /\ Distinct(part_queue)' = Distinct(part_queue') /\ Distinct(join_queue)' = Distinct(join_queue')
        /\ Distinct(todo)' = Distinct(todo')
    BY DEF QueuedTasks, Distinct
  <2> QED BY <1>6, <1>11, <1>13, <2>1, <2>2 DEF OnceInv
<1>15. DrainInv'
  <2>1. ASSUME NEW n \in Regions, part_queue'[n] # << >> PROVE n \in Nodes
    <3>1. part_queue'[n] \in Seq(Task)
      BY <1>8, QueueType
    <3>2. 1 \in 1 .. Len(part_queue'[n])
      BY <2>1, <3>1
    <3>3. PICK c \in Clusters1 : node[c] = n
      BY <3>2, <1>10
    <3> QED BY <3>3, <1>2
  <2>2. \A u \in Threads : pc'[u] \notin Partitioned /\ pc'[u] \notin Joined
    <3>1. ASSUME NEW u \in Threads PROVE pc[u] \notin TasksMade \ {"tasksMade"}
      BY <1>0, <1>4 DEF PhaseInv
    <3> QED BY <3>1, <1>1, <1>3 DEF TasksMade, Partitioned, Joined
  <2>3. \A u \in Threads : pc'[u] # "add" => todo'[u] = << >>
    <3>1. \A u \in Threads : pc[u] # "add" => todo[u] = << >>
      BY DEF TallyInv, DrainInv
    <3>2. pc[0] # "add"
      BY <1>1
    <3> QED BY <1>1, <1>3, <3>1, <3>2
  <2>4. \A n \in DOMAIN join_queue' : join_queue'[n] # << >> => \E u \in Threads : get_numa_id(u) = n
    BY <1>1 DEF TallyInv, DrainInv
  <2>5. DOMAIN part_queue' = Regions
    BY <1>8, QueueType
  <2> QED BY <1>4, <2>1, <2>2, <2>3, <2>4, <2>5 DEF DrainInv
<1>16. CountInv'
  <2>1. CountedOnce(out')
    BY <1>1 DEF TallyInv, CountInv
  <2>2. ASSUME NEW i \in RIdx, NEW j \in SIdx, Matching(i, j)
        PROVE  /\ ~ \E t \in Threads : out'[t][i][j] = 1
               /\ Whole(Cluster1("R", i)) \in QueuedTasks(part_queue')
    <3>1. ~ \E t \in Threads : out[t][i][j] = 1
      BY <1>4, <2>2 DEF TallyInv, CountInv
    <3>2. Cluster1("R", i) \in Clusters1 /\ BothSides(Whole(Cluster1("R", i)))
      BY <2>2, PairCluster
    <3> QED BY <1>1, <1>12, <3>1, <3>2
  <2>3. CountedOnce(out)' = CountedOnce(out') /\ QueuedTasks(part_queue)' = QueuedTasks(part_queue')
    BY DEF CountedOnce, QueuedTasks
  <2> QED BY <2>1, <2>2, <2>3 DEF CountInv
<1> QED
  BY <1>14, <1>15, <1>16 DEF TallyInv

LEMMA PrimedQueues ==
  /\ QueuedTasks(part_queue)' = QueuedTasks(part_queue') /\ QueuedTasks(todo)' = QueuedTasks(todo')
  /\ QueuedTasks(join_queue)' = QueuedTasks(join_queue')
  /\ Distinct(part_queue)' = Distinct(part_queue') /\ Distinct(join_queue)' = Distinct(join_queue')
  /\ Distinct(todo)' = Distinct(todo') /\ CountedOnce(out)' = CountedOnce(out')
  BY DEF QueuedTasks, Distinct, CountedOnce

(* A thread of the second pass takes the task of a cluster and makes those  *)
(* of its pieces.                                                           *)
LEMMA TallyTakePart ==
  ASSUME PassInv, PassInv', TallyInv, NEW t \in Threads, TakePart(t)
  PROVE  TallyInv'
<1> DEFINE q == get_numa_id(t)
           task == Head(part_queue[q])
<1>0. TypeOK /\ TypeOK' /\ PhaseInv /\ TaskInv /\ 0 \in Threads
  BY Sizes DEF PassInv
<1>1. ThreadStep(t)
  BY DEF ThreadStep
<1>2. /\ pc[t] = "part" /\ part_queue[q] # << >> /\ pc' = [pc EXCEPT ![t] = "add"]
      /\ part_queue' = [part_queue EXCEPT ![q] = Tail(part_queue[q])]
      /\ UNCHANGED <<join_queue, out>>
  BY DEF TakePart, Goto
<1>3. /\ IsQueue(part_queue, Regions) /\ IsQueue(join_queue, Regions) /\ IsQueue(todo, Threads)
      /\ IsQueue(part_queue', Regions) /\ IsQueue(todo', Threads)
      /\ q \in Regions
  BY <1>0, AreQueues, StillQueues, NumaType DEF Regions
<1>4. /\ JoinTasks = QueuedTasks(join_queue) \cup QueuedTasks(todo)
      /\ JoinTasks' = QueuedTasks(join_queue) \cup QueuedTasks(todo')
  <2>1. JoinTasks' = QueuedTasks(join_queue') \cup QueuedTasks(todo')
    BY <1>0, StillQueues
  <2> QED BY <1>0, <1>2, <2>1, AreQueues
<1>5. /\ Distinct(part_queue) /\ Distinct(join_queue) /\ Distinct(todo)
      /\ QueuedTasks(todo) \cap QueuedTasks(join_queue) = {}
      /\ \A s \in QueuedTasks(part_queue) \cup JoinTasks : BothSides(s)
      /\ \A k \in Clusters1, e \in Clusters2 : Part(k, e) \in JoinTasks => Whole(k) \notin QueuedTasks(part_queue)
  BY DEF TallyInv, OnceInv
<1>6. /\ Distinct(part_queue') /\ task \in QueuedTasks(part_queue)
      /\ \A s : s \in QueuedTasks(part_queue') <=> s \in QueuedTasks(part_queue) /\ s # task
  <2>1. part_queue'[q] = Tail(part_queue[q]) /\ \A n \in Regions : n # q => part_queue'[n] = part_queue[n]
    BY <1>2, <1>3 DEF IsQueue
  <2>2. part_queue[q] # << >>
    BY <1>2
  <2>3. Distinct(part_queue) /\ IsQueue(part_queue, Regions) /\ IsQueue(part_queue', Regions) /\ q \in Regions
    BY <1>3, <1>5
  <2> HIDE DEF q
  <2>4. /\ Distinct(part_queue')
        /\ Head(part_queue[q]) \in QueuedTasks(part_queue)
        /\ \A s : s \in QueuedTasks(part_queue') <=> s \in QueuedTasks(part_queue) /\ s # Head(part_queue[q])
    BY <2>1, <2>2, <2>3, PopQueue
  <2> QED BY <2>4
<1>7. PICK c \in Clusters1 : task = Whole(c)
  BY <1>0, <1>6 DEF TaskInv
<1>8. \A u \in Threads : pc[u] \in TasksMade /\ pc[u] \in Copied
  <2>1. pc[t] \in TasksMade \ {"tasksMade"}
    BY <1>2 DEF TasksMade
  <2>2. \A u \in Threads : pc[u] \in TasksMade
    BY <1>0, <2>1 DEF PhaseInv
  <2> QED BY <2>2 DEF Copied
<1>9. InPlace
  BY <1>8, InPlaceNow
<1>10. todo' = [todo EXCEPT ![t] = PiecesOf(c)]
  BY <1>7 DEF TakePart, PiecesOf
<1> HIDE DEF q, task
<1>11. /\ PiecesOf(c) \in Seq(Task)
       /\ \A k \in 1 .. Len(PiecesOf(c)) : \E d \in Clusters2 : PiecesOf(c)[k] = Part(c, d) /\ BothSides(Part(c, d))
       /\ \A k, l \in 1 .. Len(PiecesOf(c)) : PiecesOf(c)[k] = PiecesOf(c)[l] => k = l
       /\ \A d \in Clusters2 : BothSides(Part(c, d)) => \E k \in 1 .. Len(PiecesOf(c)) : PiecesOf(c)[k] = Part(c, d)
  BY <1>9, PiecesAre, PiecesOnce
<1>12. \A d \in Clusters2 : Part(c, d) \notin JoinTasks
  BY <1>5, <1>6, <1>7
<1>13. /\ Distinct(todo')
       /\ \A s : s \in QueuedTasks(todo') <=>
            s \in QueuedTasks(todo) \/ \E k \in 1 .. Len(PiecesOf(c)) : PiecesOf(c)[k] = s
  <2>1. todo[t] = << >>
    <3>1. pc[t] # "add" => todo[t] = << >>
      BY DEF TallyInv, DrainInv
    <3> QED BY <1>2, <3>1
  <2>2. todo'[t] = PiecesOf(c) /\ \A u \in Threads : u # t => todo'[u] = todo[u]
    BY <1>3, <1>10 DEF IsQueue
  <2>3. \A k \in 1 .. Len(PiecesOf(c)) : PiecesOf(c)[k] \notin QueuedTasks(todo)
    BY <1>4, <1>11, <1>12
  <2> QED BY <1>3, <1>5, <1>11, <2>1, <2>2, <2>3, FillQueue
<1>14. \A s : s \in JoinTasks' <=> s \in JoinTasks \/ \E d \in Clusters2 : s = Part(c, d) /\ BothSides(s)
  <2>1. \A s : (\E k \in 1 .. Len(PiecesOf(c)) : PiecesOf(c)[k] = s) <=>
                 \E d \in Clusters2 : s = Part(c, d) /\ BothSides(s)
    BY <1>11
  <2> QED BY <1>4, <1>13, <2>1
<1>15. OnceInv'
  <2>1. QueuedTasks(todo') \cap QueuedTasks(join_queue') = {}
    <3> SUFFICES ASSUME NEW s \in QueuedTasks(todo'), s \in QueuedTasks(join_queue) PROVE FALSE
      BY <1>2
    <3>1. s \notin QueuedTasks(todo) /\ s \in JoinTasks
      BY <1>4, <1>5
    <3>2. \E d \in Clusters2 : s = Part(c, d)
      BY <1>11, <1>13, <3>1
    <3> QED BY <3>1, <3>2, <1>12
  <2>2. \A s \in QueuedTasks(part_queue') \cup JoinTasks' : BothSides(s)
    BY <1>5, <1>6, <1>14
  <2>3. ASSUME NEW k \in Clusters1, NEW e \in Clusters2, Part(k, e) \in JoinTasks'
        PROVE  Whole(k) \notin QueuedTasks(part_queue')
    <3>1. CASE Part(k, e) \in JoinTasks
      BY <3>1, <1>5, <1>6
    <3>2. CASE Part(k, e) \notin JoinTasks
      <4>1. PICK d \in Clusters2 : Part(k, e) = Part(c, d) /\ BothSides(Part(k, e))
        BY <2>3, <3>2, <1>14
      <4>2. k = c
        BY <4>1, PartUnique
      <4> QED BY <4>2, <1>6, <1>7
    <3> QED BY <3>1, <3>2
  <2> QED BY <1>2, <1>5, <1>6, <1>13, <2>1, <2>2, <2>3, PrimedQueues DEF OnceInv
<1>16. pc[0] \in TasksMade /\ pc'[0] \in TasksMade
  <2>1. \A u \in Threads : pc[u] \in TasksMade => pc'[u] \in TasksMade
    BY <1>0, <1>1, StepPhase
  <2> QED BY <1>0, <1>8, <2>1
<1>17. DrainInv'
  <2>0. /\ \A n \in DOMAIN part_queue : part_queue[n] # << >> => n \in Nodes
        /\ \A n \in DOMAIN join_queue : join_queue[n] # << >> => \E u \in Threads : get_numa_id(u) = n
        /\ \A u \in Threads : /\ pc[u] # "add" => todo[u] = << >>
                              /\ pc[u] \in Partitioned => part_queue[get_numa_id(u)] = << >>
                              /\ pc[u] \in Joined => join_queue[get_numa_id(u)] = << >>
    BY DEF TallyInv, DrainInv
  <2>1. \A n \in DOMAIN part_queue' : part_queue'[n] # << >> => n \in Nodes
    <3>1. DOMAIN part_queue' = Regions /\ DOMAIN part_queue = Regions
      BY <1>3, QueueType
    <3> QED BY <1>2, <2>0, <3>1
  <2>2. \A n \in DOMAIN join_queue' : join_queue'[n] # << >> => \E u \in Threads : get_numa_id(u) = n
    BY <1>2, <2>0
  <2>3. ASSUME NEW u \in Threads
        PROVE  /\ pc'[u] # "add" => todo'[u] = << >>
               /\ pc'[u] \in Partitioned => part_queue'[get_numa_id(u)] = << >>
               /\ pc'[u] \in Joined => join_queue'[get_numa_id(u)] = << >>
    <3>0. pc \in [Threads -> PCs]
      BY <1>0 DEF TypeOK, PCs
    <3>1. CASE u = t
      <4>1. pc'[u] = "add"
        BY <1>2, <3>0, <3>1
      <4> QED BY <4>1 DEF Partitioned, Joined
    <3>2. CASE u # t
      <4>1. pc'[u] = pc[u] /\ todo'[u] = todo[u]
        BY <1>2, <1>3, <1>10, <3>0, <3>2 DEF IsQueue
      <4>2. pc[u] \in Partitioned => part_queue'[get_numa_id(u)] = << >>
        <5>1. get_numa_id(u) \in Regions
          BY NumaType DEF Regions
        <5>2. DOMAIN part_queue = Regions
          BY <1>3, QueueType
        <5> QED BY <1>2, <2>0, <5>1, <5>2
      <4> QED BY <1>2, <2>0, <4>1, <4>2
    <3> QED BY <3>1, <3>2
  <2> QED BY <1>16, <2>1, <2>2, <2>3 DEF DrainInv
<1>18. CountInv'
  <2>1. CountedOnce(out')
    BY <1>2 DEF TallyInv, CountInv
  <2>2. ASSUME NEW i \in RIdx, NEW j \in SIdx, Matching(i, j)
        PROVE  (\E u \in Threads : out'[u][i][j] = 1) <=>
                 /\ pc'[0] \in TasksMade
                 /\ Whole(Cluster1("R", i)) \notin QueuedTasks(part_queue')
                 /\ Part(Cluster1("R", i), Cluster2("R", i)) \notin JoinTasks'
    <3> DEFINE k == Cluster1("R", i)
               e == Cluster2("R", i)
    <3>1. k \in Clusters1 /\ e \in Clusters2 /\ BothSides(Whole(k)) /\ BothSides(Part(k, e))
      BY <2>2, PairCluster
    <3>2. (\E u \in Threads : out'[u][i][j] = 1) <=>
             Whole(k) \notin QueuedTasks(part_queue) /\ Part(k, e) \notin JoinTasks
      BY <1>2, <1>16, <2>2 DEF TallyInv, CountInv
    <3> SUFFICES (\E u \in Threads : out'[u][i][j] = 1) <=>
                   pc'[0] \in TasksMade /\ Whole(k) \notin QueuedTasks(part_queue') /\ Part(k, e) \notin JoinTasks'
      OBVIOUS
    <3> HIDE DEF k, e
    <3>3. CASE k = c
      BY <3>1, <3>2, <3>3, <1>6, <1>7, <1>14
    <3>4. CASE k # c
      <4>1. Whole(k) # Whole(c)
        BY <3>1, <3>4, WholeUnique
      <4>2. \A d \in Clusters2 : Part(k, e) # Part(c, d)
        BY <3>1, <3>4, PartUnique
      <4>3. /\ Whole(k) \in QueuedTasks(part_queue') <=> Whole(k) \in QueuedTasks(part_queue)
            /\ Part(k, e) \in JoinTasks' <=> Part(k, e) \in JoinTasks
        BY <4>1, <4>2, <1>6, <1>7, <1>14
      <4> QED BY <3>2, <4>3, <1>16
    <3> QED BY <3>3, <3>4
  <2> QED BY <2>1, <2>2, PrimedQueues DEF CountInv
<1> QED
  BY <1>15, <1>17, <1>18 DEF TallyInv

(* A join task goes from the thread that made it to a queue. *)
LEMMA TallyAddJoin ==
  ASSUME PassInv, PassInv', TallyInv, NEW t \in Threads, AddJoin(t)
  PROVE  TallyInv'
<1> DEFINE q == get_numa_id(t)
           h == Head(todo[t])
<1>0. TypeOK /\ TypeOK' /\ PhaseInv /\ 0 \in Threads
  BY Sizes DEF PassInv
<1>1. /\ pc[t] = "add" /\ todo[t] # << >>
      /\ join_queue' = [join_queue EXCEPT ![q] = <<h>> \o join_queue[q]]
      /\ todo' = [todo EXCEPT ![t] = Tail(todo[t])]
      /\ UNCHANGED <<pc, part_queue, out>>
  BY DEF AddJoin
<1>2. /\ IsQueue(join_queue, Regions) /\ IsQueue(todo, Threads)
      /\ IsQueue(join_queue', Regions) /\ IsQueue(todo', Threads)
      /\ q \in Regions
  BY <1>0, AreQueues, StillQueues, NumaType DEF Regions
<1>3. /\ JoinTasks = QueuedTasks(join_queue) \cup QueuedTasks(todo)
      /\ JoinTasks' = QueuedTasks(join_queue') \cup QueuedTasks(todo')
  BY <1>0, AreQueues, StillQueues
<1>4. /\ Distinct(part_queue) /\ Distinct(join_queue) /\ Distinct(todo)
      /\ QueuedTasks(todo) \cap QueuedTasks(join_queue) = {}
  BY DEF TallyInv, OnceInv
<1>5. h \in Task
  <2>1. todo[t] \in Seq(Task)
    BY <1>2, QueueType
  <2> QED BY <1>1, <2>1, TailFacts
<1>6. /\ Distinct(todo') /\ h \in QueuedTasks(todo)
      /\ \A s : s \in QueuedTasks(todo') <=> s \in QueuedTasks(todo) /\ s # h
  <2>1. todo'[t] = Tail(todo[t]) /\ \A u \in Threads : u # t => todo'[u] = todo[u]
    BY <1>1, <1>2 DEF IsQueue
  <2>2. todo[t] # << >> /\ Distinct(todo) /\ IsQueue(todo, Threads) /\ IsQueue(todo', Threads)
    BY <1>1, <1>2, <1>4
  <2>3. /\ Distinct(todo')
        /\ Head(todo[t]) \in QueuedTasks(todo)
        /\ \A s : s \in QueuedTasks(todo') <=> s \in QueuedTasks(todo) /\ s # Head(todo[t])
    BY <2>1, <2>2, PopQueue
  <2> QED BY <2>3
<1> HIDE DEF q, h
<1>7. /\ Distinct(join_queue')
      /\ \A s : s \in QueuedTasks(join_queue') <=> s \in QueuedTasks(join_queue) \/ s = h
  <2>1. join_queue'[q] = <<h>> \o join_queue[q] /\ \A n \in Regions : n # q => join_queue'[n] = join_queue[n]
    BY <1>1, <1>2 DEF IsQueue
  <2>2. h \notin QueuedTasks(join_queue)
    BY <1>4, <1>6
  <2>3. IsQueue(join_queue, Regions) /\ IsQueue(join_queue', Regions) /\ q \in Regions /\ Distinct(join_queue)
    BY <1>2, <1>4
  <2> QED BY <1>5, <2>1, <2>2, <2>3, PushQueue
<1>8. JoinTasks' = JoinTasks
  BY <1>3, <1>6, <1>7
<1>9. QueuedTasks(part_queue)' = QueuedTasks(part_queue)
  BY <1>1 DEF QueuedTasks
<1>10. OnceInv'
  <2>1. QueuedTasks(todo') \cap QueuedTasks(join_queue') = {}
    BY <1>4, <1>6, <1>7
  <2>2. /\ \A task \in QueuedTasks(part_queue) \cup JoinTasks : BothSides(task)
        /\ \A c \in Clusters1, d \in Clusters2 : Part(c, d) \in JoinTasks => Whole(c) \notin QueuedTasks(part_queue)
    BY DEF TallyInv, OnceInv
  <2>3. Distinct(part_queue')
    BY <1>1, <1>4
  <2> QED BY <1>6, <1>7, <1>8, <1>9, <2>1, <2>2, <2>3, PrimedQueues DEF OnceInv
<1>11. DrainInv'
  <2>0. /\ pc[0] \notin TasksMade => QueuedTasks(part_queue) = {} /\ JoinTasks = {}
        /\ \A n \in DOMAIN part_queue : part_queue[n] # << >> => n \in Nodes
        /\ \A n \in DOMAIN join_queue : join_queue[n] # << >> => \E u \in Threads : get_numa_id(u) = n
        /\ \A u \in Threads : /\ pc[u] # "add" => todo[u] = << >>
                              /\ pc[u] \in Partitioned => part_queue[get_numa_id(u)] = << >>
    BY DEF TallyInv, DrainInv
  <2>1. \A n \in DOMAIN join_queue' : join_queue'[n] # << >> => \E u \in Threads : get_numa_id(u) = n
    <3>1. DOMAIN join_queue' = Regions /\ DOMAIN join_queue = Regions
      BY <1>2, QueueType
    <3>2. q = get_numa_id(t)
      BY DEF q
    <3> QED BY <1>1, <2>0, <3>1, <3>2
  <2>2. \A u \in Threads : pc[u] # "add" => todo'[u] = << >>
    BY <1>1, <1>2, <2>0 DEF IsQueue
  <2>3. \A u \in Threads : pc[u] \notin Joined
    <3> SUFFICES ASSUME NEW u \in Threads, pc[u] \in Joined PROVE FALSE
      OBVIOUS
    <3>1. pc[u] \in Partitioned \ {"partitioned"}
      BY DEF Partitioned, Joined
    <3>2. pc[t] \in Partitioned
      BY <1>0, <3>1 DEF PhaseInv
    <3> QED BY <1>1, <3>2 DEF Partitioned, Joined
  <2> QED BY <1>1, <1>8, <1>9, <2>0, <2>1, <2>2, <2>3 DEF DrainInv
<1>12. CountInv'
  BY <1>1, <1>8, <1>9, PrimedQueues DEF TallyInv, CountInv
<1> QED
  BY <1>10, <1>11, <1>12 DEF TallyInv

(* A piece is joined: its pairs are counted, for the first time. *)
LEMMA TallyJoinPiece ==
  ASSUME PassInv, PassInv', TallyInv, NEW t \in Threads, JoinPiece(t)
  PROVE  TallyInv'
<1> DEFINE q == get_numa_id(t)
           task == Head(join_queue[q])
<1>0. TypeOK /\ TypeOK' /\ PhaseInv /\ TaskInv /\ 0 \in Threads
  BY Sizes DEF PassInv
<1>1. /\ pc[t] = "join" /\ join_queue[q] # << >>
      /\ join_queue' = [join_queue EXCEPT ![q] = Tail(join_queue[q])]
      /\ UNCHANGED <<pc, mem, part_queue, todo>>
  BY DEF JoinPiece
<1>2. IsQueue(join_queue, Regions) /\ IsQueue(join_queue', Regions) /\ q \in Regions
  BY <1>0, AreQueues, StillQueues, NumaType DEF Regions
<1>3. /\ JoinTasks = QueuedTasks(join_queue) \cup QueuedTasks(todo)
      /\ JoinTasks' = QueuedTasks(join_queue') \cup QueuedTasks(todo)
  <2>1. JoinTasks' = QueuedTasks(join_queue') \cup QueuedTasks(todo')
    BY <1>0, StillQueues
  <2> QED BY <1>0, <1>1, <2>1, AreQueues
<1>4. /\ Distinct(part_queue) /\ Distinct(join_queue) /\ Distinct(todo)
      /\ QueuedTasks(todo) \cap QueuedTasks(join_queue) = {}
      /\ \A s \in QueuedTasks(part_queue) \cup JoinTasks : BothSides(s)
      /\ \A k \in Clusters1, e \in Clusters2 : Part(k, e) \in JoinTasks => Whole(k) \notin QueuedTasks(part_queue)
  BY DEF TallyInv, OnceInv
<1>5. /\ Distinct(join_queue') /\ task \in QueuedTasks(join_queue)
      /\ \A s : s \in QueuedTasks(join_queue') <=> s \in QueuedTasks(join_queue) /\ s # task
  <2>1. join_queue'[q] = Tail(join_queue[q]) /\ \A n \in Regions : n # q => join_queue'[n] = join_queue[n]
    BY <1>1, <1>2 DEF IsQueue
  <2>2. /\ join_queue[q] # << >> /\ Distinct(join_queue)
        /\ IsQueue(join_queue, Regions) /\ IsQueue(join_queue', Regions) /\ q \in Regions
    BY <1>1, <1>2, <1>4
  <2> HIDE DEF q
  <2>3. /\ Distinct(join_queue')
        /\ Head(join_queue[q]) \in QueuedTasks(join_queue)
        /\ \A s : s \in QueuedTasks(join_queue') <=> s \in QueuedTasks(join_queue) /\ s # Head(join_queue[q])
    BY <2>1, <2>2, PopQueue
  <2> QED BY <2>3
<1>6. out' = [out EXCEPT ![t] = [i \in RIdx |-> [j \in SIdx |-> out[t][i][j] + Hits(task, i, j)]]]
  BY DEF JoinPiece
<1> HIDE DEF q, task
<1>7. task \in JoinTasks /\ \A s : s \in JoinTasks' <=> s \in JoinTasks /\ s # task
  BY <1>3, <1>4, <1>5
<1>8. PICK c \in Clusters1, d \in Clusters2 :
        /\ task = Part(c, d)
        /\ \A x \in Rels : {mem[x][a] : a \in Piece(task, x)} = Members2(x, c, d)
  BY <1>0, <1>7 DEF TaskInv
<1>9. BothSides(Part(c, d)) /\ Whole(c) \notin QueuedTasks(part_queue)
  BY <1>4, <1>7, <1>8
<1>10. QueuedTasks(part_queue)' = QueuedTasks(part_queue)
  BY <1>1 DEF QueuedTasks
<1>11. pc[0] \in TasksMade
  <2>1. pc[t] \in TasksMade \ {"tasksMade"}
    BY <1>1 DEF TasksMade, Partitioned
  <2> QED BY <1>0, <2>1 DEF PhaseInv
<1>12. ASSUME NEW i \in RIdx, NEW j \in SIdx
       PROVE  Hits(task, i, j) = IF Matching(i, j) /\ Cluster1("R", i) = c /\ Cluster2("R", i) = d THEN 1 ELSE 0
  <2>1. \A x \in Rels : {mem[x][a] : a \in PartSlots(x, c, d)} = Members2(x, c, d)
    <3>1. \A x \in Rels : Piece(task, x) = PartSlots(x, c, d)
      BY <1>8, TaskIs
    <3> QED BY <1>8, <3>1
  <2>2. Hits(Part(c, d), i, j) =
          IF Matching(i, j) /\ i \in Members2("R", c, d) /\ j \in Members2("S", c, d) THEN 1 ELSE 0
    BY <2>1, HitsExact
  <2>3. Matching(i, j) => /\ i \in Members2("R", Cluster1("R", i), Cluster2("R", i))
                          /\ j \in Members2("S", Cluster1("R", i), Cluster2("R", i))
    BY PairCluster
  <2>4. i \in Members2("R", c, d) => Cluster1("R", i) = c /\ Cluster2("R", i) = d
    BY DEF Members2, Members
  <2> QED BY <1>8, <2>2, <2>3, <2>4
<1> DEFINE Hit(i, j) == Matching(i, j) /\ Cluster1("R", i) = c /\ Cluster2("R", i) = d
<1>13. ASSUME NEW i \in RIdx, NEW j \in SIdx
       PROVE  /\ \A u \in Threads : u # t => out'[u][i][j] = out[u][i][j]
              /\ out'[t][i][j] = out[t][i][j] + IF Hit(i, j) THEN 1 ELSE 0
              /\ \A u \in Threads : out[u][i][j] \in Nat
  <2>1. out \in [Threads -> [RIdx -> [SIdx -> Nat]]]
    BY <1>0 DEF TypeOK
  <2>2. out'[t][i][j] = out[t][i][j] + Hits(task, i, j) /\ \A u \in Threads : u # t => out'[u][i][j] = out[u][i][j]
    BY <1>6, <2>1
  <2> QED BY <1>12, <2>1, <2>2
<1>14. CountedOnce(out)
  BY DEF TallyInv, CountInv
<1>15. ASSUME NEW i \in RIdx, NEW j \in SIdx, Matching(i, j)
       PROVE  (\E u \in Threads : out[u][i][j] = 1) <=>
                /\ Whole(Cluster1("R", i)) \notin QueuedTasks(part_queue)
                /\ Part(Cluster1("R", i), Cluster2("R", i)) \notin JoinTasks
  BY <1>11, <1>15 DEF TallyInv, CountInv
<1>16. ASSUME NEW i \in RIdx, NEW j \in SIdx, Hit(i, j)
       PROVE  \A u \in Threads : out[u][i][j] = 0
  <2> SUFFICES ASSUME NEW u \in Threads, out[u][i][j] # 0 PROVE FALSE
    OBVIOUS
  <2>1. out[u][i][j] > 0
    BY <1>13
  <2>2. out[u][i][j] = 1
    BY <2>1, <1>14 DEF CountedOnce
  <2>3. Part(c, d) \notin JoinTasks
    BY <2>2, <1>15, <1>16
  <2> QED BY <2>3, <1>7, <1>8
<1> HIDE DEF Hit
<1>17. CountedOnce(out')
  <2> SUFFICES ASSUME NEW u \in Threads, NEW i \in RIdx, NEW j \in SIdx, out'[u][i][j] > 0
               PROVE  /\ Matching(i, j) /\ out'[u][i][j] = 1
                      /\ \A v \in Threads \ {u} : out'[v][i][j] = 0
    BY DEF CountedOnce
  <2>1. CASE Hit(i, j)
    <3>1. \A v \in Threads : out[v][i][j] = 0
      BY <2>1, <1>16
    <3>2. out'[t][i][j] = 1 /\ \A v \in Threads : v # t => out'[v][i][j] = 0
      BY <2>1, <3>1, <1>13
    <3>3. u = t
      BY <3>2
    <3> QED BY <2>1, <3>2, <3>3 DEF Hit
  <2>2. CASE ~Hit(i, j)
    <3>1. \A v \in Threads : out'[v][i][j] = out[v][i][j]
      <4>1. out'[t][i][j] = out[t][i][j]
        BY <2>2, <1>13
      <4> QED BY <4>1, <1>13
    <3> QED BY <3>1, <1>14 DEF CountedOnce
  <2> QED BY <2>1, <2>2
<1>18. ASSUME NEW i \in RIdx, NEW j \in SIdx, Matching(i, j)
       PROVE  (\E u \in Threads : out'[u][i][j] = 1) <=>
                /\ Whole(Cluster1("R", i)) \notin QueuedTasks(part_queue)
                /\ Part(Cluster1("R", i), Cluster2("R", i)) \notin JoinTasks'
  <2>1. CASE Hit(i, j)
    <3>1. out'[t][i][j] = 1
      BY <2>1, <1>13, <1>16
    <3>2. Cluster1("R", i) = c /\ Cluster2("R", i) = d
      BY <2>1 DEF Hit
    <3>3. Part(c, d) \notin JoinTasks'
      BY <1>7, <1>8
    <3> QED BY <3>1, <3>2, <3>3, <1>9
  <2>2. CASE ~Hit(i, j)
    <3>1. \A v \in Threads : out'[v][i][j] = out[v][i][j]
      <4>1. out'[t][i][j] = out[t][i][j]
        BY <2>2, <1>13
      <4> QED BY <4>1, <1>13
    <3>2. /\ Cluster1("R", i) \in Clusters1 /\ Cluster2("R", i) \in Clusters2
          /\ BothSides(Part(Cluster1("R", i), Cluster2("R", i)))
      BY <1>18, PairCluster
    <3>3. Part(Cluster1("R", i), Cluster2("R", i)) # Part(c, d)
      <4>1. ~ (Cluster1("R", i) = c /\ Cluster2("R", i) = d)
        BY <1>18, <2>2 DEF Hit
      <4> QED BY <3>2, <4>1, PartUnique
    <3> QED BY <3>1, <3>3, <1>7, <1>8, <1>15, <1>18
  <2> QED BY <2>1, <2>2
<1>19. CountInv'
  <2>1. pc'[0] \in TasksMade
    BY <1>1, <1>11
  <2> QED BY <1>10, <1>17, <1>18, <2>1, PrimedQueues DEF CountInv
<1>20. OnceInv'
  <2>1. QueuedTasks(todo') \cap QueuedTasks(join_queue') = {}
    BY <1>1, <1>4, <1>5
  <2>2. Distinct(part_queue') /\ Distinct(todo')
    BY <1>1, <1>4
  <2>3. /\ \A s \in QueuedTasks(part_queue) \cup JoinTasks' : BothSides(s)
        /\ \A k \in Clusters1, e \in Clusters2 : Part(k, e) \in JoinTasks' => Whole(k) \notin QueuedTasks(part_queue)
    BY <1>4, <1>7
  <2> QED BY <1>5, <1>10, <2>1, <2>2, <2>3, PrimedQueues DEF OnceInv
<1>21. DrainInv'
  <2>0. /\ \A n \in DOMAIN part_queue : part_queue[n] # << >> => n \in Nodes
        /\ \A n \in DOMAIN join_queue : join_queue[n] # << >> => \E u \in Threads : get_numa_id(u) = n
        /\ \A u \in Threads : /\ pc[u] # "add" => todo[u] = << >>
                              /\ pc[u] \in Partitioned => part_queue[get_numa_id(u)] = << >>
                              /\ pc[u] \in Joined => join_queue[get_numa_id(u)] = << >>
    BY DEF TallyInv, DrainInv
  <2>1. DOMAIN join_queue' = Regions /\ DOMAIN join_queue = Regions
    BY <1>2, QueueType
  <2>2. \A n \in DOMAIN join_queue' : join_queue'[n] # << >> => \E u \in Threads : get_numa_id(u) = n
    BY <1>1, <2>0, <2>1
  <2>3. \A u \in Threads : pc[u] \in Joined => join_queue'[get_numa_id(u)] = << >>
    <3>1. \A u \in Threads : get_numa_id(u) \in Regions
      BY NumaType DEF Regions
    <3> QED BY <1>1, <2>0, <2>1, <3>1
  <2> QED BY <1>1, <1>11, <2>0, <2>2, <2>3 DEF DrainInv
<1> QED
  BY <1>19, <1>20, <1>21 DEF TallyInv

LEMMA TallyInit == ASSUME Init PROVE TallyInv
<1>0. 0 \in Threads /\ PassInv
  BY Sizes, RadixInit
<1>1. /\ \A n \in Regions : part_queue[n] = << >> /\ join_queue[n] = << >>
      /\ \A u \in Threads : todo[u] = << >> /\ pc[u] = "launched"
      /\ \A u \in Threads, i \in RIdx, j \in SIdx : out[u][i][j] = 0
  BY DEF Init, NoTasks, Regions
<1>2. IsQueue(part_queue, Regions) /\ IsQueue(join_queue, Regions) /\ IsQueue(todo, Threads)
  BY <1>0, AreQueues DEF PassInv
<1>3. /\ QueuedTasks(part_queue) = {} /\ QueuedTasks(join_queue) = {} /\ QueuedTasks(todo) = {}
      /\ Distinct(part_queue) /\ Distinct(join_queue) /\ Distinct(todo)
  <2>1. ASSUME NEW N, NEW queue, IsQueue(queue, N), \A n \in N : queue[n] = << >>
        PROVE  QueuedTasks(queue) = {} /\ Distinct(queue)
    <3>1. \A n \in N : Len(queue[n]) = 0
      BY <2>1
    <3>2. \A task : task \notin QueuedTasks(queue)
      BY <2>1, <3>1, QueueSet
    <3>3. Distinct(queue)
      BY <2>1, <3>1, DistinctIs
    <3> QED BY <3>2, <3>3
  <2>2. QueuedTasks(part_queue) = {} /\ Distinct(part_queue)
    BY <1>1, <1>2, <2>1
  <2>3. QueuedTasks(join_queue) = {} /\ Distinct(join_queue)
    BY <1>1, <1>2, <2>1
  <2>4. QueuedTasks(todo) = {} /\ Distinct(todo)
    BY <1>1, <1>2, <2>1
  <2> QED BY <2>2, <2>3, <2>4
<1>4. JoinTasks = {}
  <2>1. JoinTasks = QueuedTasks(join_queue) \cup QueuedTasks(todo)
    BY <1>0, AreQueues DEF PassInv
  <2> QED BY <1>3, <2>1
<1>5. OnceInv
  BY <1>3, <1>4 DEF OnceInv
<1>6. \A u \in Threads : pc[u] \notin TasksMade /\ pc[u] \notin Partitioned /\ pc[u] \notin Joined
  BY <1>1 DEF TasksMade, Partitioned, Joined
<1>7. DrainInv
  <2>1. DOMAIN part_queue = Regions /\ DOMAIN join_queue = Regions
    BY <1>2, QueueType
  <2> QED BY <1>1, <1>3, <1>4, <1>6, <2>1 DEF DrainInv
<1>8. CountInv
  <2>1. CountedOnce(out)
    BY <1>1 DEF CountedOnce
  <2>2. \A i \in RIdx, j \in SIdx : ~ \E u \in Threads : out[u][i][j] = 1
    BY <1>1
  <2> QED BY <1>0, <1>6, <2>1, <2>2 DEF CountInv
<1> QED
  BY <1>5, <1>7, <1>8 DEF TallyInv

LEMMA TallyStep == ASSUME PassInv, PassInv', TallyInv, [Next]_vars PROVE TallyInv'
<1>1. ASSUME NEW t \in Threads, ThreadStep(t) PROVE TallyInv'
  <2>1. CASE CreateTasks(t)
    <3>1. CASE t = 0
      BY <2>1, <3>1, TallyCreateTasks
    <3>2. CASE t # 0
      BY <2>1, <3>2, QuietSteps
    <3> QED BY <3>1, <3>2
  <2>2. CASE TakePart(t)
    BY <2>2, TallyTakePart
  <2>3. CASE AddJoin(t)
    BY <2>3, TallyAddJoin
  <2>4. CASE JoinPiece(t)
    BY <2>4, TallyJoinPiece
  <2>5. CASE \/ Arrive(t) \/ Start(t) \/ Histogram(t) \/ Offsets(t) \/ Copy(t) \/ CopyDone(t) \/ StartPart(t)
             \/ AddDone(t) \/ PartDone(t) \/ StartJoin(t) \/ JoinDone(t) \/ Exit(t)
    BY <2>5, QuietSteps
  <2> QED BY <1>1, <2>1, <2>2, <2>3, <2>4, <2>5 DEF ThreadStep
<1>2. CASE UNCHANGED vars
  <2>1. QueuedTasks(part_queue)' = QueuedTasks(part_queue) /\ JoinTasks' = JoinTasks
    BY <1>2 DEF vars, QueuedTasks, JoinTasks
  <2>2. OnceInv'
    BY <1>2, <2>1 DEF vars, TallyInv, OnceInv, Distinct, QueuedTasks
  <2>3. DrainInv'
    BY <1>2, <2>1 DEF vars, TallyInv, DrainInv
  <2>4. CountInv'
    BY <1>2, <2>1 DEF vars, TallyInv, CountInv, CountedOnce
  <2> QED BY <2>2, <2>3, <2>4 DEF TallyInv
<1> QED
  BY <1>1, <1>2 DEF Next, Terminated

(* The inductive invariant: the passes are exact, no task is lost or taken  *)
(* twice, and a pair is counted once the task that holds it has been joined *)
(* (prj_thread).                                                            *)
THEOREM RadixInvariant == SafeSpec => []IInv
<1>1. Init => TallyInv
  BY TallyInit
<1>2. PassInv /\ PassInv' /\ TallyInv /\ [Next]_vars => TallyInv'
  BY TallyStep
<1>3. PassInv /\ TallyInv => IInv
  BY DEF TallyInv, IInv
<1> QED
  BY <1>1, <1>2, <1>3, RadixPasses, PTL DEF SafeSpec

------------------------------------------------------------------------------
(* Every node the kernel places pages on has a thread that reads its queue. *)
NodesServed == \A n \in Nodes : \E t \in Threads : get_numa_id(t) = n

LEMMA AllCounted == ASSUME NodesServed, IInv, AllExited PROVE CountedAll(out)
<1>0. TypeOK /\ 0 \in Threads /\ DrainInv /\ CountInv
  BY Sizes DEF IInv, PassInv
<1>1. \A u \in Threads : pc[u] \in TasksMade /\ pc[u] \in Partitioned /\ pc[u] \in Joined /\ pc[u] # "add"
  BY DEF AllExited, TasksMade, Partitioned, Joined
<1>2. /\ IsQueue(part_queue, Regions) /\ IsQueue(join_queue, Regions) /\ IsQueue(todo, Threads)
      /\ JoinTasks = QueuedTasks(join_queue) \cup QueuedTasks(todo)
  BY <1>0, AreQueues
<1>3. DOMAIN part_queue = Regions /\ DOMAIN join_queue = Regions
  BY <1>2, QueueType
<1>4. \A n \in Regions : Len(part_queue[n]) = 0
  <2>1. \A n \in Regions : part_queue[n] = << >>
    BY <1>0, <1>1, <1>3 DEF DrainInv, NodesServed
  <2> QED BY <2>1
<1>5. \A n \in Regions : Len(join_queue[n]) = 0
  <2>1. \A n \in Regions : join_queue[n] = << >>
    BY <1>0, <1>1, <1>3 DEF DrainInv
  <2> QED BY <2>1
<1>6. \A u \in Threads : Len(todo[u]) = 0
  <2>1. \A u \in Threads : todo[u] = << >>
    BY <1>0, <1>1 DEF DrainInv
  <2> QED BY <2>1
<1>7. /\ \A s : s \notin QueuedTasks(part_queue)
      /\ \A s : s \notin QueuedTasks(join_queue)
      /\ \A s : s \notin QueuedTasks(todo)
  <2>1. \A s : s \notin QueuedTasks(part_queue)
    BY <1>2, <1>4, QueueSet
  <2>2. \A s : s \notin QueuedTasks(join_queue)
    BY <1>2, <1>5, QueueSet
  <2>3. \A s : s \notin QueuedTasks(todo)
    BY <1>2, <1>6, QueueSet
  <2> QED BY <2>1, <2>2, <2>3
<1> QED
  BY <1>0, <1>1, <1>2, <1>7 DEF CountInv, CountedAll

LEMMA ExitSteps ==
  ASSUME PassInv, [Next]_vars
  PROVE  /\ AllExited => AllExited' /\ UNCHANGED out
         /\ ~AllExited /\ AllExited' => UNCHANGED out
<1>0. pc \in [Threads -> PCs]
  BY DEF PassInv, TypeOK, PCs
<1>1. CASE UNCHANGED vars
  BY <1>1 DEF vars, AllExited
<1>2. ASSUME NEW t \in Threads, ThreadStep(t)
      PROVE  /\ ~AllExited
             /\ AllExited' => UNCHANGED out
  <2>1. pc[t] # "exited"
    BY <1>2 DEF ThreadStep, Arrive, Start, Histogram, Offsets, Copy, CopyDone, CreateTasks, StartPart, TakePart,
                AddJoin, AddDone, PartDone, StartJoin, JoinPiece, JoinDone, Exit, CrossBarrier
  <2>2. CASE JoinPiece(t)
    <3>1. pc'[t] = "join"
      BY <2>2 DEF JoinPiece
    <3> QED BY <2>1, <3>1 DEF AllExited
  <2>3. CASE ~JoinPiece(t)
    <3>1. UNCHANGED out
      BY <1>2, <2>3 DEF ThreadStep, Arrive, Start, Histogram, Offsets, Copy, CopyDone, CreateTasks, StartPart,
                        TakePart, AddJoin, AddDone, PartDone, StartJoin, JoinDone, Exit
    <3> QED BY <2>1, <3>1 DEF AllExited
  <2> QED BY <2>2, <2>3
<1> QED
  BY <1>1, <1>2 DEF Next, Terminated

LEMMA CountersGrow ==
  ASSUME PassInv, PassInv', [Next]_vars
  PROVE  \A t \in Threads, i \in RIdx, j \in SIdx : out'[t][i][j] >= out[t][i][j]
<1>0. TypeOK /\ Counting(out)
  BY DEF PassInv, TypeOK, Counting
<1>1. CASE UNCHANGED out
  BY <1>0, <1>1 DEF Counting
<1>2. ASSUME NEW t \in Threads, JoinPiece(t)
      PROVE  \A u \in Threads, i \in RIdx, j \in SIdx : out'[u][i][j] >= out[u][i][j]
  <2> DEFINE q == get_numa_id(t)
             task == Head(join_queue[q])
  <2>1. join_queue[q] \in Seq(Task) /\ out \in [Threads -> [RIdx -> [SIdx -> Nat]]]
    BY <1>0, NumaType DEF TypeOK
  <2>2. task \in Task
    BY <1>2, <2>1, TailFacts DEF JoinPiece
  <2>3. out' = [out EXCEPT ![t] = [i \in RIdx |-> [j \in SIdx |-> out[t][i][j] + Hits(task, i, j)]]]
    BY <1>2 DEF JoinPiece
  <2> HIDE DEF q, task
  <2>4. \A i \in RIdx, j \in SIdx : Hits(task, i, j) \in Nat
    BY <2>2, HitsType
  <2> SUFFICES ASSUME NEW u \in Threads, NEW i \in RIdx, NEW j \in SIdx PROVE out'[u][i][j] >= out[u][i][j]
    OBVIOUS
  <2>5. CASE u = t
    <3>1. out'[u][i][j] = out[u][i][j] + Hits(task, i, j)
      BY <2>1, <2>3, <2>5
    <3> QED BY <2>1, <2>4, <3>1
  <2>6. CASE u # t
    <3>1. out'[u][i][j] = out[u][i][j] /\ out[u][i][j] \in Nat
      BY <2>1, <2>3, <2>6
    <3> QED BY <3>1
  <2> QED BY <2>5, <2>6
<1>3. UNCHANGED out \/ \E t \in Threads : JoinPiece(t)
  BY DEF Next, Terminated, vars, ThreadStep, Arrive, Start, Histogram, Offsets, Copy, CopyDone, CreateTasks,
         StartPart, TakePart, AddJoin, AddDone, PartDone, StartJoin, JoinDone, Exit
<1> QED
  BY <1>1, <1>2, <1>3

LEMMA JoinStep ==
  ASSUME NodesServed, IInv, IInv', [Next]_vars
  PROVE  [J!JoinNext]_J!joinVars
<1>0. PassInv /\ PassInv'
  BY DEF IInv
<1>1. Counting(out) /\ Counting(out')
  BY DEF IInv, PassInv, TypeOK, Counting
<1>2. CountedOnce(out) /\ CountedOnce(out')
  BY PrimedQueues DEF IInv, CountInv
<1>4. /\ AllExited => AllExited' /\ UNCHANGED out
      /\ ~AllExited /\ AllExited' => UNCHANGED out
  BY <1>0, ExitSteps
<1>5. CASE AllExited
  <2>1. UNCHANGED out /\ AllExited /\ AllExited'
    BY <1>4, <1>5
  <2> QED
    BY <2>1 DEF J!joinVars, AllExited
<1>6. CASE ~AllExited /\ AllExited'
  <2>1. UNCHANGED out
    BY <1>4, <1>6
  <2>2. (NodesServed /\ IInv /\ AllExited => CountedAll(out))'
    BY AllCounted, PTL
  <2>3. NodesServed'
    BY DEF NodesServed
  <2>4. CountedAll(out)
    BY <1>6, <2>1, <2>2, <2>3 DEF CountedAll
  <2>5. \A p \in Equal : Produced(out)[p] = 1
    BY <1>1, <1>2, <2>4, ProducedAll
  <2>6. J!Complete
    BY <1>6, <2>1, <2>5 DEF J!Complete
  <2> QED
    BY <2>6 DEF J!JoinNext
<1>7. CASE ~AllExited /\ ~AllExited'
  <2>1. \A t \in Threads, i \in RIdx, j \in SIdx : out[t][i][j] = 1 => out'[t][i][j] = 1
    <3> SUFFICES ASSUME NEW t \in Threads, NEW i \in RIdx, NEW j \in SIdx, out[t][i][j] = 1
                 PROVE  out'[t][i][j] = 1
      OBVIOUS
    <3>1. out'[t][i][j] >= 1 /\ out'[t][i][j] \in Nat
      BY <1>0, <1>1, CountersGrow DEF Counting
    <3>2. out'[t][i][j] > 0
      BY <3>1
    <3> QED
      BY <3>2, <1>2 DEF CountedOnce
  <2>2. Grown(Produced(out), Produced(out'))
    BY <1>1, <1>2, <2>1, ProducedGrows
  <2>3. J!Produce
    <3>1. Produced(out)' = Produced(out')
      BY DEF Produced
    <3>2. AllExited' = AllExited
      BY <1>7 DEF AllExited
    <3> QED
      BY <1>7, <2>2, <3>1, <3>2 DEF J!Produce, Grown
  <2> QED
    BY <2>3 DEF J!JoinNext
<1> QED
  BY <1>5, <1>6, <1>7

(* PRO implements the join for any number of threads, tuples, keys and      *)
(* radix bits, and however the kernel places the pages, if every node that  *)
(* has pages of R also has a thread: the tasks of a node without one would  *)
(* stay on its queue (prj_thread).                                          *)
THEOREM RadixImplements == NodesServed => (SafeSpec => ImplementsJoin)
<1> SUFFICES ASSUME NodesServed PROVE SafeSpec => ImplementsJoin
  OBVIOUS
<1>1. Init => J!JoinInit
  <2> SUFFICES ASSUME Init PROVE J!JoinInit
    OBVIOUS
  <2>1. Counting(out) /\ \A t \in Threads, i \in RIdx, j \in SIdx : out[t][i][j] = 0
    BY DEF Init, Counting
  <2>2. ~AllExited
    <3>1. 0 \in Threads
      BY Sizes
    <3>2. pc[0] # "exited"
      BY <3>1 DEF Init
    <3> QED
      BY <3>1, <3>2 DEF AllExited
  <2> QED
    BY <2>1, <2>2, ProducedNone DEF J!JoinInit
<1>2. IInv /\ IInv' /\ [Next]_vars => [J!JoinNext]_J!joinVars
  BY JoinStep
<1> QED
  BY <1>1, <1>2, RadixInvariant, PTL DEF SafeSpec, ImplementsJoin, J!JoinSafety
==============================================================================
