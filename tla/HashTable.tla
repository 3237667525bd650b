----------------------------- MODULE HashTable -----------------------------
(***************************************************************************)
(* The hash table of one thread (hashing/joins/common_functions.cpp), as    *)
(* NPO_st and the symmetric hash join use it.  An entry is a chain: the     *)
(* bucket in the table and its overflow buckets, each a sequence of keys.   *)
(***************************************************************************)
EXTENDS Relations

BUCKET_SIZE == 2

allocate_hashtable(nbuckets) == [idx \in 0 .. NEXT_POW_2(nbuckets) - 1 |-> <<<<>>>>]

HASH(ht, key) == key % Cardinality(DOMAIN ht)

(* slip: the new bucket is not linked to the rest of the chain *)
InChainUnlinked(curr, key) ==
  IF Len(curr[1]) < BUCKET_SIZE THEN [curr EXCEPT ![1] = Append(@, key)]
  ELSE IF Len(curr) > 1 /\ Len(curr[2]) < BUCKET_SIZE THEN [curr EXCEPT ![2] = Append(@, key)]
  ELSE <<curr[1], <<key>>>>

(* Only the first two buckets are looked at; a new one goes between them. *)
InChain(curr, key) ==
  IF Len(curr[1]) < BUCKET_SIZE THEN [curr EXCEPT ![1] = Append(@, key)]
  ELSE IF Len(curr) > 1 /\ Len(curr[2]) < BUCKET_SIZE THEN [curr EXCEPT ![2] = Append(@, key)]
  ELSE <<curr[1], <<key>>>> \o Tail(curr)

build_hashtable_single(ht, key) == [ht EXCEPT ![HASH(ht, key)] = InChain(@, key)]

probe_hashtable_single(ht, key) == Hits(FlattenSeq(ht[HASH(ht, key)]), key)

(* slip: only the bucket in the table is looked at *)
DebuildFirstBucket(ht, key) ==
  [ht EXCEPT ![HASH(ht, key)][1] = [i \in DOMAIN @ |-> IF @[i] = key THEN -1 ELSE @[i]]]

(* A key that is taken out stays as -1, "set it to never match". *)
debuild_hashtable_single(ht, key) ==
  [ht EXCEPT ![HASH(ht, key)] =
     [b \in DOMAIN @ |-> [i \in DOMAIN @[b] |-> IF @[b][i] = key THEN -1 ELSE @[b][i]]]]

build_hashtable_st(ht, R) == FoldLeft(build_hashtable_single, ht, R)

probe_hashtable(ht, S) == SumOver([j \in DOMAIN S |-> probe_hashtable_single(ht, S[j])])

NPO_st(R, S) ==
  probe_hashtable(build_hashtable_st(allocate_hashtable(Len(R) \div BUCKET_SIZE), R), S)
==============================================================================
