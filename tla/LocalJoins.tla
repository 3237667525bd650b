----------------------------- MODULE LocalJoins -----------------------------
(***************************************************************************)
(* The sequential algorithms of hashing/joins/parallel_radix_join.cpp: the  *)
(* two ways to join a pair of pieces (bucket_chaining_join of PRO and       *)
(* histogram_join of PRH) and the radix join of one thread (RJ_st).         *)
(***************************************************************************)
EXTENDS Relations

CONSTANT NUM_RADIX_BITS

ASSUME LocalAssumption == NUM_RADIX_BITS \in Nat \ {0}

NUM_PASSES == 2
PassBits1  == NUM_RADIX_BITS \div NUM_PASSES
PassBits2  == NUM_RADIX_BITS - PassBits1

(* MASK is (fanOut - 1) << R for a power of two fanOut. *)
HASH_BIT_MODULO(key, fanOut, R) == (key \div 2 ^ R) % fanOut

------------------------------------------------------------------------------
(* bucket_chaining_join.  Positions start from 1, and 0 ends a chain.       *)
Insert(ht, key, i, N) ==
  LET idx == HASH_BIT_MODULO(key, N, NUM_RADIX_BITS) IN
    [next   |-> [ht.next EXCEPT ![i] = ht.bucket[idx]],
     bucket |-> [ht.bucket EXCEPT ![idx] = i]]

Build(R, N) ==
  FoldLeft(LAMBDA ht, i : Insert(ht, R[i], i, N),
           [next |-> [i \in 1 .. Len(R) |-> 0], bucket |-> [idx \in 0 .. N - 1 |-> 0]],
           Indices(R))

(* slip: only the bits above the radix bits are compared *)
ProbeHighBits(R, ht, key, N) ==
  LET high(k) == k \div 2 ^ NUM_RADIX_BITS
      hits[hit \in 0 .. Len(R)] ==
        IF hit = 0 THEN 0 ELSE (IF high(R[hit]) = high(key) THEN 1 ELSE 0) + hits[ht.next[hit]]
  IN hits[ht.bucket[HASH_BIT_MODULO(key, N, NUM_RADIX_BITS)]]

Probe(R, ht, key, N) ==
  LET hits[hit \in 0 .. Len(R)] ==
        IF hit = 0 THEN 0 ELSE (IF R[hit] = key THEN 1 ELSE 0) + hits[ht.next[hit]]
  IN hits[ht.bucket[HASH_BIT_MODULO(key, N, NUM_RADIX_BITS)]]

bucket_chaining_join(R, S) ==
  LET N  == NEXT_POW_2(Len(R))
      ht == Build(R, N)
  IN SumOver([j \in 1 .. Len(S) |-> Probe(R, ht, S[j], N)])

------------------------------------------------------------------------------
(* histogram_join: R is reordered by a histogram kept two places up, so     *)
(* that after the reordering hist[idx] and hist[idx + 1] are the ends of    *)
(* idx's tuples.                                                            *)
get_hist_size(relSize) == IF NEXT_POW_2(relSize) \div 4 < 4 THEN 4 ELSE NEXT_POW_2(relSize) \div 4

HistIdx(key, Nhist) == HASH_BIT_MODULO(key, Nhist, NUM_RADIX_BITS)

Histogram(R, Nhist) == [k \in 0 .. Nhist + 1 |-> Count(LAMBDA i : HistIdx(R[i], Nhist) + 2 <= k, Len(R))]

(* slip: the histogram is read one place too low *)
ReorderFromEnd(st, key, Nhist) ==
  LET idx == HistIdx(key, Nhist) IN
    [tmpR |-> [st.tmpR EXCEPT ![st.hist[idx]] = key],
     hist |-> [st.hist EXCEPT ![idx] = @ + 1]]

Reorder(st, key, Nhist) ==
  LET idx == HistIdx(key, Nhist) + 1 IN
    [tmpR |-> [st.tmpR EXCEPT ![st.hist[idx]] = key],
     hist |-> [st.hist EXCEPT ![idx] = @ + 1]]

histogram_join(R, S) ==
  LET Nhist == get_hist_size(Len(R))
      st == FoldLeft(LAMBDA s, i : Reorder(s, R[i], Nhist),
                     [tmpR |-> [a \in 0 .. Len(R) - 1 |-> -1], hist |-> Histogram(R, Nhist)],
                     Indices(R))
      idx(j) == HistIdx(S[j], Nhist)
  IN SumOver([j \in 1 .. Len(S) |->
       Cardinality({a \in st.hist[idx(j)] .. st.hist[idx(j) + 1] - 1 : st.tmpR[a] = S[j]})])

------------------------------------------------------------------------------
(* radix_cluster_nopadding: a stable scatter by D bits above the lowest R.  *)
radix_cluster_nopadding(rel, R, D) ==
  LET idx(i) == HASH_BIT_MODULO(rel[i], 2 ^ D, R)
      start == [c \in 0 .. 2 ^ D - 1 |-> Count(LAMBDA i : idx(i) < c, Len(rel))]
      Place(st, i) == [out |-> [st.out EXCEPT ![st.dst[idx(i)] + 1] = rel[i]],
                       dst |-> [st.dst EXCEPT ![idx(i)] = @ + 1]]
  IN FoldLeft(Place, [out |-> rel, dst |-> start], Indices(rel)).out

(* slip: the second pass looks at the bits of the first *)
TwoPassesSameBits(rel) ==
  radix_cluster_nopadding(radix_cluster_nopadding(rel, 0, PassBits1), 0, PassBits2)

TwoPasses(rel) ==
  radix_cluster_nopadding(radix_cluster_nopadding(rel, 0, PassBits1), PassBits1, PassBits2)

(* RJ_st: the pieces that agree in all radix bits lie behind one another    *)
(* after the two passes; r and s add up their lengths.                      *)
RJ_st(relR, relS) ==
  LET R == TwoPasses(relR)
      S == TwoPasses(relS)
      Of(rel, c) == Count(LAMBDA i : rel[i] % 2 ^ NUM_RADIX_BITS = c, Len(rel))
      Piece(rel, from, c) == SubSeq(rel, from + 1, from + Of(rel, c))
      Step(st, c) == [r |-> st.r + Of(R, c), s |-> st.s + Of(S, c),
                      result |-> st.result + IF Of(R, c) > 0 /\ Of(S, c) > 0
                                             THEN bucket_chaining_join(Piece(R, st.r, c), Piece(S, st.s, c))
                                             ELSE 0]
  IN FoldLeft(Step, [r |-> 0, s |-> 0, result |-> 0],
              [k \in 1 .. 2 ^ NUM_RADIX_BITS |-> k - 1]).result
==============================================================================
