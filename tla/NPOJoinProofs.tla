---------------------------- MODULE NPOJoinProofs ----------------------------
(***************************************************************************)
(* The shared hash table of NPO for every number of threads, all inputs and *)
(* every bucket size: under the latches no insertion overwrites or orphans  *)
(* another, with the barrier after the probe no thread reads a bucket of a  *)
(* freed buffer, and the probes make it an implementation of the join.      *)
(***************************************************************************)
EXTENDS NPOJoin, JoinBaseProofs

LEMMA Sizes == /\ numR \in Nat /\ numS \in Nat /\ nthreads \in Nat \ {0}
               /\ num_buckets \in Nat \ {0} /\ BUCKET_SIZE \in Nat \ {0}
               /\ KeyR \in [RIdx -> Nat] /\ KeyS \in [SIdx -> Nat]
               /\ JoinBarrier \in BOOLEAN
  BY JoinAssumption, TableAssumption

(* Heads, buckets of the buffers and the null pointer are told apart. *)
LEMMA Pointers ==
  /\ \A h \in HeadIdx : HeadPtr(h) \in Buckets /\ HeadPtr(h)[1] \notin Threads
  /\ \A h, g \in HeadIdx : HeadPtr(h) = HeadPtr(g) => h = g
  /\ \A t \in Threads, n \in RIdx : <<t, n>> \in Buckets
  /\ \A p \in Buckets : p[1] \in Threads => p = <<p[1], p[2]>> /\ p[2] \in Nat
  /\ NullPtr \notin Buckets
  /\ NullPtr[1] \notin Threads
  BY Sizes DEF HeadPtr, HeadIdx, Buckets, NullPtr, Threads, RIdx

LEMMA HashType == \A k \in Nat : HASH(k) \in HeadIdx
<1> SUFFICES ASSUME NEW k \in Nat PROVE k % num_buckets \in 0 .. num_buckets - 1
  BY DEF HASH, HeadIdx
<1> DEFINE n == num_buckets
<1>1. n \in Nat /\ n > 0
  BY Sizes
<1> HIDE DEF n
<1>2. k % n \in 0 .. n - 1
  BY <1>1
<1> QED
  BY <1>2 DEF n

LEMMA HomeType ==
  ASSUME TypeOK, NEW t \in Threads, idxR[t] < ShareEnd(numR, t)
  PROVE  idxR[t] \in RIdx /\ Home(t) \in HeadIdx
<1>1. idxR[t] \in RIdx
  BY ShareType, Sizes DEF TypeOK, RIdx
<1>2. KeyR[idxR[t]] \in Nat
  BY <1>1, Sizes
<1> QED
  BY <1>1, <1>2, HashType DEF Home

(* Two threads between lock and unlock work on different chains. *)
LEMMA Exclusion ==
  ASSUME TypeOK, LatchInv, NEW t \in Threads, NEW u \in Threads,
         pc[t] \in Locked, pc[u] \in Locked, Home(t) = Home(u)
  PROVE  t = u
  BY DEF LatchInv

LEMMA InitInv == Init => IInv
<1> SUFFICES ASSUME Init PROVE IInv
  OBVIOUS
<1>1. TypeOK
  <2>1. \A t \in Threads :
          /\ ShareBegin(numR, t) \in Nat /\ ShareBegin(numR, t) <= ShareEnd(numR, t)
          /\ ShareBegin(numS, t) \in Nat /\ ShareBegin(numS, t) <= ShareEnd(numS, t)
    BY ShareType, Sizes
  <2> QED
    BY <2>1, Sizes DEF Init, TypeOK, PCs
<1>2. LatchInv
  BY DEF Init, LatchInv, Locked
<1>3. ChainInv
  <2>1. \A t \in Threads : ShareBegin(numR, t) \in Nat
    BY ShareType, Sizes
  <2>2. \A t \in Threads : nalloc[t] <= idxR[t] + IF pc[t] \in {"store", "unlock"} THEN 1 ELSE 0
    BY <2>1 DEF Init
  <2>3. \A p \in Buckets : next[p] = NullPtr /\ count[p] = 0
    BY DEF Init
  <2>4. \A p \in Buckets : ~ Allocated(p)
    BY Pointers DEF Allocated, Init
  <2> QED
    BY <2>2, <2>3, <2>4 DEF ChainInv
<1>4. DestInv
  BY DEF Init, DestInv
<1>5. SlotInv
  <2>1. \A p \in Buckets, k \in Slots : tuples[p][k] = NoTuple
    BY DEF Init
  <2>2. \A t \in Threads, i \in RIdx : ~ Inserted(t, i)
    BY ShareType, Sizes DEF Init, Inserted, RIdx
  <2> QED
    BY <2>1, <2>2 DEF SlotInv, NoTuple, RIdx
<1>6. PhaseInv
  BY DEF Init, PhaseInv, Built, Probed, Freed
<1> QED
  BY <1>1, <1>2, <1>3, <1>4, <1>5, <1>6 DEF IInv

------------------------------------------------------------------------------
(* Steps outside the build loop leave the table alone. *)
LEMMA TableKept ==
  ASSUME IInv, NEW t \in Threads, UNCHANGED <<idxR, table>>,
         pc' = [pc EXCEPT ![t] = pc'[t]], pc[t] \notin Locked, pc'[t] \notin Locked
  PROVE  LatchInv' /\ ChainInv' /\ DestInv' /\ SlotInv'
<1> USE DEF IInv
<1>0. UNCHANGED <<idxR, latch, count, tuples, next, nalloc, nxt, destB, destK>>
  BY DEF table
<1>1. \A u \in Threads : /\ pc'[u] = pc[u] \/ (pc[u] \notin Locked /\ pc'[u] \notin Locked)
                         /\ Home(u)' = Home(u)
  BY <1>0 DEF TypeOK, Home
<1>2. LatchInv'
  <2>1. \A u \in Threads : pc'[u] \in Locked => pc'[u] = pc[u]
    BY <1>1
  <2>2. ASSUME NEW h \in HeadIdx, latch'[h] # NoLatch
        PROVE  pc'[latch'[h]] \in Locked /\ Home(latch[h])' = h
    <3>1. latch[h] \in Threads /\ pc[latch[h]] \in Locked /\ Home(latch[h]) = h
      BY <1>0, <2>2 DEF LatchInv, TypeOK
    <3>2. pc'[latch[h]] \in Locked
      BY <1>1, <3>1
    <3> QED
      BY <1>0, <1>1, <3>1, <3>2 DEF Home
  <2>3. \A u \in Threads : pc'[u] = "link" => nxt'[u] = next'[HeadPtr(Home(u)')]
    BY <1>0, <1>1, <2>1 DEF LatchInv, Locked
  <2>4. \A u \in Threads : pc'[u] \in Locked =>
          idxR'[u] < ShareEnd(numR, u) /\ latch'[Home(u)'] = u
    BY <1>0, <1>1, <2>1 DEF LatchInv
  <2> QED
    BY <2>2, <2>3, <2>4 DEF LatchInv, Home, HeadPtr
<1>3. ChainInv'
  <2>1. \A p : Allocated(p)' <=> Allocated(p)
    BY <1>0 DEF Allocated
  <2>2. \A u \in Threads : nalloc'[u] <= idxR'[u] + IF pc'[u] \in {"store", "unlock"} THEN 1 ELSE 0
    BY <1>0, <1>1 DEF ChainInv, Locked
  <2> QED
    BY <1>0, <2>1, <2>2 DEF ChainInv
<1>4. DestInv'
  <2> SUFFICES ASSUME NEW u \in Threads, pc'[u] = "store"
               PROVE  /\ destB[u] = HeadPtr(Home(u)) \/ destB[u] = next[HeadPtr(Home(u))]
                      /\ destB[u] \in Buckets
                      /\ destK[u] < count[destB[u]]
                      /\ tuples[destB[u]][destK[u]] = NoTuple
    BY <1>0, <1>1 DEF DestInv, Home
  <2>1. pc[u] = "store"
    BY <1>1 DEF Locked
  <2> QED
    BY <2>1 DEF DestInv
<1>5. SlotInv'
  <2>1. \A u \in Threads, i \in RIdx : Inserted(u, i)' <=> Inserted(u, i)
    BY <1>0, <1>1 DEF Inserted, Locked
  <2>2. \A p \in Buckets, k \in Slots : tuples'[p][k] = tuples[p][k] /\ count'[p] = count[p]
    BY <1>0
  <2> QED
    BY <2>1, <2>2, <1>0 DEF SlotInv
<1> QED
  BY <1>2, <1>3, <1>4, <1>5

LEMMA BarrierSteps ==
  ASSUME IInv, NEW t \in Threads,
         \/ Arrive(t) \/ Start(t) \/ BuildDone(t) \/ StartProbe(t) \/ ProbeDone(t) \/ Free(t)
  PROVE  IInv'
<1> USE DEF IInv
<1>1. UNCHANGED <<idxR, idxS, b, out>> /\ UNCHANGED table
  BY DEF Arrive, Start, BuildDone, StartProbe, ProbeDone, Free
<1>2. /\ pc' = [pc EXCEPT ![t] = pc'[t]] /\ pc'[t] \in PCs
      /\ pc[t] \notin Locked /\ pc'[t] \notin Locked
  BY DEF Arrive, Start, BuildDone, StartProbe, ProbeDone, Free, CrossBarrier, Goto, TypeOK,
         Locked, PCs, Started, Built, Probed, Freed
<1>3. freed' = freed \/ freed' = freed \cup {t}
  BY DEF Arrive, Start, BuildDone, StartProbe, ProbeDone, Free
<1>4. TypeOK'
  BY <1>1, <1>2, <1>3 DEF TypeOK, table
<1>5. PhaseInv'
  <2> USE DEF CrossBarrier, Goto, TypeOK, PhaseInv, Built, Probed, Freed
  <2>1. CASE Arrive(t) \/ Start(t)
    BY <1>1, <2>1, Sizes DEF Arrive, Start
  <2>2. CASE BuildDone(t) \/ StartProbe(t)
    BY <1>1, <2>2, Sizes DEF BuildDone, StartProbe
  <2>3. CASE ProbeDone(t)
    BY <1>1, <2>3, Sizes DEF ProbeDone
  <2>4. CASE Free(t)
    BY <1>1, <2>4, Sizes DEF Free
  <2> QED
    BY <2>1, <2>2, <2>3, <2>4
<1> QED
  BY <1>1, <1>2, <1>4, <1>5, TableKept

LEMMA ProbeSteps ==
  ASSUME IInv, NEW t \in Threads, Probe(t) \/ Walk(t)
  PROVE  IInv'
<1> USE DEF IInv
<1>1. UNCHANGED <<idxR, freed>> /\ UNCHANGED table
  BY DEF Probe, Walk
<1>2. /\ pc' = [pc EXCEPT ![t] = pc'[t]] /\ pc'[t] \in {"probe", "walk"}
      /\ pc[t] \in {"probe", "walk"} /\ pc \in [Threads -> PCs]
  BY DEF Probe, Walk, Goto, TypeOK
<1>3. idxS[t] < ShareEnd(numS, t) /\ idxS[t] \in SIdx
  <2>1. idxS[t] < ShareEnd(numS, t)
    BY DEF Probe, Walk, PhaseInv
  <2> QED
    BY <2>1, ShareType, Sizes DEF TypeOK, SIdx
<1>4. /\ b' \in [Threads -> Buckets \cup {NullPtr}]
      /\ pc'[t] = "walk" => b'[t] \in Buckets
      /\ \A u \in Threads \ {t} : b'[u] = b[u]
  <2>1. CASE Probe(t)
    <3>1. HeadPtr(HASH(KeyS[idxS[t]])) \in Buckets
      BY <1>3, Sizes, HashType, Pointers
    <3> QED
      BY <2>1, <3>1 DEF Probe, TypeOK
  <2>2. CASE Walk(t)
    <3>1. b[t] \in Buckets /\ next[b[t]] \in Buckets \cup {NullPtr}
      BY <2>2 DEF Walk, PhaseInv, TypeOK
    <3>2. b' = [b EXCEPT ![t] = next[b[t]]]
      BY <2>2 DEF Walk
    <3>3. pc'[t] = "walk" => next[b[t]] # NullPtr
      BY <2>2 DEF Walk, Goto, TypeOK
    <3> QED
      BY <3>1, <3>2, <3>3 DEF TypeOK
  <2> QED
    BY <2>1, <2>2
<1>5. /\ idxS' \in [Threads -> Nat]
      /\ \A u \in Threads : ShareBegin(numS, u) <= idxS'[u] /\ idxS'[u] <= ShareEnd(numS, u)
      /\ \A u \in Threads \ {t} : idxS'[u] = idxS[u]
      /\ pc'[t] = "walk" => idxS'[t] < ShareEnd(numS, t)
  <2>1. idxS' = idxS \/ (idxS' = [idxS EXCEPT ![t] = @ + 1] /\ pc'[t] # "walk")
    BY DEF Probe, Walk, Goto, TypeOK
  <2>2. \A u \in Threads : ShareBegin(numS, u) \in Nat /\ ShareEnd(numS, u) \in Nat
    BY ShareType, Sizes
  <2>3. CASE idxS' = idxS
    BY <1>3, <2>3 DEF TypeOK
  <2>4. CASE idxS' = [idxS EXCEPT ![t] = @ + 1] /\ pc'[t] # "walk"
    <3>1. idxS \in [Threads -> Nat] /\ idxS'[t] = idxS[t] + 1 /\ idxS' \in [Threads -> Nat]
      BY <2>4 DEF TypeOK
    <3>2. ShareBegin(numS, t) <= idxS'[t] /\ idxS'[t] <= ShareEnd(numS, t)
      BY <1>3, <2>2, <3>1 DEF TypeOK
    <3>3. \A u \in Threads \ {t} : idxS'[u] = idxS[u]
      BY <2>4, <3>1
    <3> QED
      BY <2>4, <3>1, <3>2, <3>3 DEF TypeOK
  <2> QED
    BY <2>1, <2>3, <2>4
<1>6. out' \in [Threads -> [RIdx -> [SIdx -> Nat]]]
  <2>1. CASE Probe(t)
    BY <2>1 DEF Probe, TypeOK
  <2>2. CASE Walk(t)
    <3>1. \A i \in RIdx : Hits(b[t], i, idxS[t]) \in Nat
      BY DEF Hits
    <3>2. Search(out[t], b[t], idxS[t]) \in [RIdx -> [SIdx -> Nat]]
      BY <3>1, <1>3 DEF TypeOK, Search
    <3>3. out' = [out EXCEPT ![t] = Search(out[t], b[t], idxS[t])]
      BY <2>2 DEF Walk
    <3> QED
      BY <3>2, <3>3 DEF TypeOK
  <2> QED
    BY <2>1, <2>2
<1>7. TypeOK'
  BY <1>1, <1>2, <1>4, <1>5, <1>6 DEF TypeOK, table, PCs, Started, Built
<1>8. PhaseInv'
  <2>1. \A u \in Threads : pc'[u] \in Built <=> pc[u] \in Built
    BY <1>2 DEF Built
  <2>2. \A u \in Threads : pc'[u] = pc[u] \/ (u = t /\ pc[u] \in Built \ {"built"})
    BY <1>2 DEF Built
  <2>3. \A u \in Threads : pc'[u] \in Probed <=> pc[u] \in Probed
    BY <1>2 DEF Probed, Freed
  <2> QED
    BY <1>1, <1>2, <1>4, <1>5, <2>1, <2>2, <2>3 DEF PhaseInv
<1> QED
  BY <1>1, <1>2, <1>7, <1>8, TableKept DEF Locked

------------------------------------------------------------------------------
(* The steps of build_hashtable_mt. *)
LEMMA LockStep ==
  ASSUME IInv, NEW t \in Threads, Lock(t)
  PROVE  IInv'
<1> USE DEF IInv
<1>1. idxR[t] \in RIdx /\ Home(t) \in HeadIdx
  BY HomeType DEF Lock
<1>2. UNCHANGED <<idxR, idxS, count, tuples, next, nalloc, destB, destK, b, freed, out>>
  BY DEF Lock
<1>3. /\ pc[t] = "build" /\ pc'[t] = "link"
      /\ \A u \in Threads \ {t} : pc'[u] = pc[u]
      /\ latch[Home(t)] = NoLatch /\ latch'[Home(t)] = t
      /\ \A h \in HeadIdx \ {Home(t)} : latch'[h] = latch[h]
      /\ nxt'[t] = next[HeadPtr(Home(t))]
      /\ \A u \in Threads \ {t} : nxt'[u] = nxt[u]
      /\ idxR[t] < ShareEnd(numR, t)
  BY <1>1 DEF Lock, Goto, TypeOK
<1>4. \A u \in Threads : Home(u)' = Home(u)
  BY <1>2 DEF Home
<1>5. TypeOK'
  <2>1. next[HeadPtr(Home(t))] \in Buckets \cup {NullPtr}
    BY <1>1, Pointers DEF TypeOK
  <2> QED
    BY <1>1, <1>2, <2>1 DEF TypeOK, Lock, Goto, PCs, Started, Locked
<1>6. NoLatch \notin Threads
  BY Sizes DEF NoLatch, Threads
<1>7. LatchInv'
  <2>1. ASSUME NEW u \in Threads, pc'[u] \in Locked
        PROVE  idxR'[u] < ShareEnd(numR, u) /\ latch'[Home(u)'] = u
    <3>1. CASE u = t
      BY <3>1, <1>2, <1>3, <1>4
    <3>2. CASE u # t
      <4>1. pc[u] \in Locked /\ latch[Home(u)] = u /\ idxR[u] < ShareEnd(numR, u)
        BY <2>1, <3>2, <1>3 DEF LatchInv
      <4>2. Home(u) \in HeadIdx
        BY <4>1, HomeType
      <4>3. Home(u) # Home(t)
        BY <4>1, <1>3, <1>6
      <4> QED
        BY <4>1, <4>2, <4>3, <1>2, <1>3, <1>4
    <3> QED
      BY <3>1, <3>2
  <2>2. ASSUME NEW h \in HeadIdx, latch'[h] # NoLatch
        PROVE  pc'[latch'[h]] \in Locked /\ HASH(KeyR[idxR'[latch'[h]]]) = h
    <3>1. CASE h = Home(t)
      BY <3>1, <1>2, <1>3 DEF Locked, Home
    <3>2. CASE h # Home(t)
      <4>1. latch'[h] = latch[h] /\ latch[h] \in Threads /\ pc[latch[h]] \in Locked /\ Home(latch[h]) = h
        BY <2>2, <3>2, <1>3 DEF LatchInv, TypeOK
      <4>2. latch[h] # t
        BY <4>1, <1>3 DEF Locked
      <4> QED
        BY <4>1, <4>2, <1>2, <1>3 DEF Home
    <3> QED
      BY <3>1, <3>2
  <2>3. ASSUME NEW u \in Threads, pc'[u] = "link"
        PROVE  nxt'[u] = next'[HeadPtr(Home(u)')]
    BY <2>3, <1>2, <1>3, <1>4 DEF LatchInv
  <2> QED
    BY <2>1, <2>2, <2>3 DEF LatchInv, Home, HeadPtr
<1>8. ChainInv'
  <2>1. \A p : Allocated(p)' <=> Allocated(p)
    BY <1>2 DEF Allocated
  <2>2. \A u \in Threads : nalloc'[u] <= idxR'[u] + IF pc'[u] \in {"store", "unlock"} THEN 1 ELSE 0
    BY <1>2, <1>3 DEF ChainInv
  <2> QED
    BY <1>2, <2>1, <2>2 DEF ChainInv
<1>9. DestInv'
  <2> SUFFICES ASSUME NEW u \in Threads, pc'[u] = "store"
               PROVE  /\ destB[u] = HeadPtr(Home(u)) \/ destB[u] = next[HeadPtr(Home(u))]
                      /\ destB[u] \in Buckets
                      /\ destK[u] < count[destB[u]]
                      /\ tuples[destB[u]][destK[u]] = NoTuple
    BY <1>2, <1>4 DEF DestInv, Home
  <2> QED
    BY <1>3 DEF DestInv
<1>10. SlotInv'
  <2>1. \A u \in Threads, i \in RIdx : Inserted(u, i)' <=> Inserted(u, i)
    BY <1>2, <1>3 DEF Inserted
  <2> QED
    BY <2>1, <1>2 DEF SlotInv
<1>11. PhaseInv'
  BY <1>2, <1>3 DEF PhaseInv, Built, Probed, Freed
<1> QED
  BY <1>5, <1>7, <1>8, <1>9, <1>10, <1>11

LEMMA StoreStep ==
  ASSUME IInv, NEW t \in Threads, Store(t)
  PROVE  IInv'
<1> USE DEF IInv
<1>1. /\ idxR[t] \in RIdx /\ Home(t) \in HeadIdx
      /\ ShareBegin(numR, t) <= idxR[t] /\ idxR[t] < ShareEnd(numR, t)
      /\ ShareBegin(numR, t) \in Nat /\ ShareEnd(numR, t) \in Nat
  BY HomeType, ShareType, Sizes DEF Store, LatchInv, Locked, TypeOK
<1>2. UNCHANGED <<idxR, idxS, latch, count, next, nalloc, nxt, destB, destK, b, freed, out>>
  BY DEF Store
<1>3. /\ pc[t] = "store" /\ pc'[t] = "unlock"
      /\ \A u \in Threads \ {t} : pc'[u] = pc[u]
  BY DEF Store, Goto, TypeOK
<1> DEFINE B == destB[t]
           K == destK[t]
<1>4. B \in Buckets /\ K \in Slots /\ K < count[B] /\ tuples[B][K] = NoTuple
  BY <1>3, Sizes DEF DestInv, TypeOK, Slots
<1>5. /\ tuples'[B][K] = idxR[t]
      /\ \A p \in Buckets, k \in Slots : p # B \/ k # K => tuples'[p][k] = tuples[p][k]
      /\ tuples' \in [Buckets -> [Slots -> RIdx \cup {NoTuple}]]
  BY <1>1, <1>4 DEF Store, TypeOK
<1>6. \A u \in Threads : Home(u)' = Home(u)
  BY <1>2 DEF Home
<1> HIDE DEF B, K
<1>7. TypeOK'
  BY <1>2, <1>3, <1>5 DEF TypeOK, Store, Goto, PCs, Started, Locked
<1>8. LatchInv'
  <2>1. \A u \in Threads : (pc'[u] \in Locked <=> pc[u] \in Locked) /\ (pc'[u] = "link" <=> pc[u] = "link")
    BY <1>3 DEF Locked
  <2>2. \A h \in HeadIdx : latch[h] # NoLatch => latch[h] \in Threads
    BY DEF TypeOK
  <2> QED
    BY <2>1, <2>2, <1>2, <1>6 DEF LatchInv, Home
<1>9. ChainInv'
  <2>1. \A p : Allocated(p)' <=> Allocated(p)
    BY <1>2 DEF Allocated
  <2>2. \A u \in Threads : nalloc'[u] <= idxR'[u] + IF pc'[u] \in {"store", "unlock"} THEN 1 ELSE 0
    BY <1>2, <1>3 DEF ChainInv
  <2> QED
    BY <1>2, <2>1, <2>2 DEF ChainInv
<1>10. DestInv'
  <2> SUFFICES ASSUME NEW u \in Threads, pc'[u] = "store"
               PROVE  /\ destB[u] = HeadPtr(Home(u)) \/ destB[u] = next[HeadPtr(Home(u))]
                      /\ destB[u] \in Buckets
                      /\ destK[u] < count[destB[u]]
                      /\ tuples'[destB[u]][destK[u]] = NoTuple
    BY <1>2, <1>6 DEF DestInv, Home
  <2>1. u # t /\ pc[u] = "store"
    BY <1>3
  <2>2. /\ destB[u] = HeadPtr(Home(u)) \/ destB[u] = next[HeadPtr(Home(u))]
        /\ destB[u] \in Buckets
        /\ destK[u] < count[destB[u]]
        /\ tuples[destB[u]][destK[u]] = NoTuple
    BY <2>1 DEF DestInv
  <2>3. destK[u] \in Slots
    BY <2>2, Sizes DEF TypeOK, Slots
  <2>4. Home(u) # Home(t) /\ Home(u) \in HeadIdx
    BY <2>1, <1>3, Exclusion, HomeType DEF Locked, LatchInv
  <2>5. destB[u] # B
    <3>1. B = HeadPtr(Home(t)) \/ B = next[HeadPtr(Home(t))]
      BY <1>3 DEF DestInv, B
    <3>2. HeadPtr(Home(t)) # HeadPtr(Home(u))
      BY <2>4, <1>1, Pointers
    <3>3. HeadPtr(Home(t)) \in Buckets /\ HeadPtr(Home(u)) \in Buckets
      BY <2>4, <1>1, Pointers
    <3>4. ~ Allocated(HeadPtr(Home(t))) /\ ~ Allocated(HeadPtr(Home(u)))
      BY <2>4, <1>1, Pointers DEF Allocated
    <3> QED
      BY <3>1, <3>2, <3>3, <3>4, <2>2, <1>4, Pointers DEF ChainInv
  <2> QED
    BY <2>2, <2>3, <2>5, <1>5
<1>11. SlotInv'
  <2>1. ~ Inserted(t, idxR[t]) /\ Inserted(t, idxR[t])'
    BY <1>1, <1>2, <1>3 DEF Inserted, RIdx
  <2>2. \A u \in Threads, i \in RIdx :
          Inserted(u, i)' <=> Inserted(u, i) \/ (u = t /\ i = idxR[t])
    BY <1>1, <1>2, <1>3 DEF Inserted
  <2>3. \A u \in Threads : ~ Inserted(u, idxR[t])
    <3> SUFFICES ASSUME NEW u \in Threads, Inserted(u, idxR[t]) PROVE FALSE
      OBVIOUS
    <3>1. idxR[t] \in Nat
      BY <1>1 DEF RIdx
    <3>2. u = t
      BY <3>1, <1>1, ShareUnique, Sizes DEF Inserted
    <3> QED
      BY <3>2, <2>1
  <2>4. \A p \in Buckets, k \in Slots : tuples[p][k] # idxR[t]
    BY <2>3, <1>1 DEF SlotInv, NoTuple, RIdx
  <2>5. \A p \in Buckets, k \in Slots : tuples[p][k] \in RIdx \cup {NoTuple}
    BY DEF TypeOK
  <2>6. \A p \in Buckets, k \in Slots : count'[p] <= k => tuples'[p][k] = NoTuple
    <3> SUFFICES ASSUME NEW p \in Buckets, NEW k \in Slots, count[p] <= k
                 PROVE  tuples'[p][k] = NoTuple
      BY <1>2
    <3>1. count[p] \in Nat /\ k \in Nat
      BY Sizes DEF TypeOK, Slots
    <3>2. p # B \/ k # K
      BY <3>1, <1>4
    <3> QED
      BY <3>2, <1>5 DEF SlotInv
  <2>7. ASSUME NEW p \in Buckets, NEW k \in Slots, NEW i \in RIdx, tuples'[p][k] = i
        PROVE  \E u \in Threads : Inserted(u, i)'
    <3>1. CASE p = B /\ k = K
      BY <3>1, <2>1, <2>2, <2>7, <1>5
    <3>2. CASE p # B \/ k # K
      <4>1. tuples[p][k] = i
        BY <3>2, <2>7, <1>5
      <4> QED
        BY <4>1, <2>2 DEF SlotInv
    <3> QED
      BY <3>1, <3>2
  <2>8. \A p, q \in Buckets, k, l \in Slots :
          tuples'[p][k] = tuples'[q][l] => (p = q /\ k = l) \/ tuples'[p][k] = NoTuple
    BY <2>4, <1>5 DEF SlotInv
  <2>9. ASSUME NEW u \in Threads, NEW i \in RIdx, Inserted(u, i)'
        PROVE  \E p \in Buckets, k \in Slots : tuples'[p][k] = i
    <3>1. CASE u = t /\ i = idxR[t]
      BY <3>1, <1>4, <1>5
    <3>2. CASE Inserted(u, i)
      <4>1. PICK p \in Buckets, k \in Slots : tuples[p][k] = i
        BY <3>2 DEF SlotInv
      <4>2. p # B \/ k # K
        BY <4>1, <1>4 DEF NoTuple, RIdx
      <4> QED
        BY <4>1, <4>2, <1>5
    <3> QED
      BY <2>2, <2>9, <3>1, <3>2
  <2> QED
    BY <2>6, <2>7, <2>8, <2>9 DEF SlotInv
<1>12. PhaseInv'
  BY <1>2, <1>3 DEF PhaseInv, Built, Probed, Freed
<1> QED
  BY <1>7, <1>8, <1>9, <1>10, <1>11, <1>12

LEMMA UnlockStep ==
  ASSUME IInv, NEW t \in Threads, Unlock(t)
  PROVE  IInv'
<1> USE DEF IInv
<1>1. /\ idxR[t] \in RIdx /\ Home(t) \in HeadIdx
      /\ ShareBegin(numR, t) <= idxR[t] /\ idxR[t] < ShareEnd(numR, t)
      /\ ShareBegin(numR, t) \in Nat /\ ShareEnd(numR, t) \in Nat
      /\ latch[Home(t)] = t
  BY HomeType, ShareType, Sizes DEF Unlock, LatchInv, Locked, TypeOK
<1>2. UNCHANGED <<idxS, count, tuples, next, nalloc, nxt, destB, destK, b, freed, out>>
  BY DEF Unlock
<1>3. /\ pc[t] = "unlock" /\ pc'[t] = "build"
      /\ \A u \in Threads \ {t} : pc'[u] = pc[u] /\ idxR'[u] = idxR[u]
      /\ idxR'[t] = idxR[t] + 1
      /\ latch'[Home(t)] = NoLatch
      /\ \A h \in HeadIdx \ {Home(t)} : latch'[h] = latch[h]
  BY <1>1 DEF Unlock, Goto, TypeOK
<1>4. \A u \in Threads \ {t} : Home(u)' = Home(u)
  BY <1>3 DEF Home
<1>5. TypeOK'
  <2>1. idxR' \in [Threads -> Nat] /\ ShareBegin(numR, t) <= idxR'[t] /\ idxR'[t] <= ShareEnd(numR, t)
    BY <1>1, <1>3 DEF Unlock, TypeOK, RIdx
  <2>2. \A u \in Threads : /\ ShareBegin(numR, u) <= idxR'[u] /\ idxR'[u] <= ShareEnd(numR, u)
                           /\ ShareBegin(numS, u) <= idxS'[u] /\ idxS'[u] <= ShareEnd(numS, u)
    BY <2>1, <1>2, <1>3 DEF TypeOK
  <2>3. pc' \in [Threads -> PCs] /\ latch' \in [HeadIdx -> Threads \cup {NoLatch}]
    BY DEF TypeOK, Unlock, Goto, PCs, Started
  <2> QED
    BY <1>2, <2>1, <2>2, <2>3 DEF TypeOK
<1>6. LatchInv'
  <2>1. ASSUME NEW u \in Threads, pc'[u] \in Locked
        PROVE  /\ idxR'[u] < ShareEnd(numR, u)
               /\ latch'[Home(u)'] = u
               /\ pc'[u] = "link" => nxt'[u] = next'[HeadPtr(Home(u)')]
    <3>1. u # t /\ pc[u] \in Locked /\ latch[Home(u)] = u /\ idxR[u] < ShareEnd(numR, u)
      BY <2>1, <1>3 DEF LatchInv, Locked
    <3>2. Home(u) \in HeadIdx /\ Home(u) # Home(t)
      BY <3>1, <1>1, HomeType
    <3> QED
      BY <3>1, <3>2, <1>2, <1>3, <1>4 DEF LatchInv
  <2>2. ASSUME NEW h \in HeadIdx, latch'[h] # NoLatch
        PROVE  pc'[latch'[h]] \in Locked /\ HASH(KeyR[idxR'[latch'[h]]]) = h
    <3>1. h # Home(t) /\ latch'[h] = latch[h] /\ latch[h] \in Threads
      BY <2>2, <1>3 DEF TypeOK
    <3>2. pc[latch[h]] \in Locked /\ Home(latch[h]) = h
      BY <3>1, <2>2 DEF LatchInv
    <3>3. latch[h] # t
      BY <3>1, <3>2
    <3> QED
      BY <3>1, <3>2, <3>3, <1>3 DEF Home
  <2>3. \A u \in Threads : pc'[u] = "link" => nxt'[u] = next'[HeadPtr(Home(u)')]
    BY <2>1 DEF Locked
  <2> QED
    BY <2>1, <2>2, <2>3 DEF LatchInv, Home, HeadPtr
<1>7. ChainInv'
  <2>1. \A p : Allocated(p)' <=> Allocated(p)
    BY <1>2 DEF Allocated
  <2>2. \A u \in Threads : nalloc'[u] <= idxR'[u] + IF pc'[u] \in {"store", "unlock"} THEN 1 ELSE 0
    <3>1. nalloc[t] <= idxR[t] + 1
      BY <1>3 DEF ChainInv
    <3>2. \A u \in Threads \ {t} :
            nalloc[u] <= idxR[u] + IF pc[u] \in {"store", "unlock"} THEN 1 ELSE 0
      BY DEF ChainInv
    <3>3. nalloc[t] <= idxR'[t] + 0
      BY <3>1, <1>3, <1>1 DEF RIdx, TypeOK
    <3> QED
      BY <3>2, <3>3, <1>2, <1>3
  <2> QED
    BY <1>2, <2>1, <2>2 DEF ChainInv
<1>8. DestInv'
  <2> SUFFICES ASSUME NEW u \in Threads, u # t, pc[u] = "store"
               PROVE  /\ destB[u] = HeadPtr(Home(u)) \/ destB[u] = next[HeadPtr(Home(u))]
                      /\ destB[u] \in Buckets
                      /\ destK[u] < count[destB[u]]
                      /\ tuples[destB[u]][destK[u]] = NoTuple
    BY <1>2, <1>3, <1>4 DEF DestInv, Home
  <2> QED
    BY DEF DestInv
<1>9. SlotInv'
  <2>1. \A u \in Threads, i \in RIdx : Inserted(u, i)' <=> Inserted(u, i)
    <3> SUFFICES ASSUME NEW i \in RIdx PROVE Inserted(t, i)' <=> Inserted(t, i)
      BY <1>3 DEF Inserted
    <3>1. i \in Nat /\ idxR[t] \in Nat
      BY <1>1 DEF RIdx
    <3> QED
      BY <3>1, <1>1, <1>3 DEF Inserted
  <2> QED
    BY <2>1, <1>2 DEF SlotInv
<1>10. PhaseInv'
  BY <1>2, <1>3 DEF PhaseInv, Built, Probed, Freed
<1> QED
  BY <1>5, <1>6, <1>7, <1>8, <1>9, <1>10

(* What the cases of Link have in common: count only grows, the next        *)
(* pointers of other chains' heads stay, and dest is a fresh slot.          *)
LEMMA LinkCommon ==
  ASSUME IInv, NEW t \in Threads, pc[t] = "link",
         NEW p \in Buckets, NEW k \in Slots,
         pc' = [pc EXCEPT ![t] = "store"],
         UNCHANGED <<idxR, idxS, latch, tuples, nxt, b, freed, out>>,
         destB' = [destB EXCEPT ![t] = p], destK' = [destK EXCEPT ![t] = k],
         count' = [count EXCEPT ![p] = k + 1], count[p] = k,
         next' \in [Buckets -> Buckets \cup {NullPtr}],
         p = HeadPtr(Home(t)) \/ p = next'[HeadPtr(Home(t))],
         \A h \in HeadIdx \ {Home(t)} : next'[HeadPtr(h)] = next[HeadPtr(h)],
         nalloc' \in [Threads -> Nat],
         ChainInv'
  PROVE  IInv'
<1> USE DEF IInv
<1>1. /\ pc'[t] = "store"
      /\ \A u \in Threads \ {t} : pc'[u] = pc[u] /\ destB'[u] = destB[u] /\ destK'[u] = destK[u]
      /\ destB'[t] = p /\ destK'[t] = k
  BY DEF TypeOK
<1>2. /\ Home(t) \in HeadIdx /\ idxR[t] < ShareEnd(numR, t)
      /\ \A u \in Threads : Home(u)' = Home(u)
  BY HomeType DEF LatchInv, Locked, Home
<1>3. k \in Nat /\ k + 1 \in 0 .. BUCKET_SIZE /\ Slots \subseteq Nat
  BY Sizes DEF Slots
<1>4. \A q \in Buckets : count[q] \in Nat /\ count'[q] \in Nat /\ count[q] <= count'[q]
  BY <1>3 DEF TypeOK
<1>5. TypeOK'
  BY <1>3 DEF TypeOK, PCs, Started, Locked
<1>6. \A u \in Threads \ {t} : pc[u] \in Locked =>
        Home(u) \in HeadIdx /\ Home(u) # Home(t)
        /\ next'[HeadPtr(Home(u))] = next[HeadPtr(Home(u))]
  <2> SUFFICES ASSUME NEW u \in Threads \ {t}, pc[u] \in Locked
               PROVE  Home(u) \in HeadIdx /\ Home(u) # Home(t)
    OBVIOUS
  <2>1. idxR[u] < ShareEnd(numR, u)
    BY DEF LatchInv
  <2> QED
    BY <2>1, HomeType, Exclusion DEF Locked
<1>7. LatchInv'
  <2>1. ASSUME NEW u \in Threads, pc'[u] \in Locked
        PROVE  /\ idxR'[u] < ShareEnd(numR, u)
               /\ latch'[Home(u)'] = u
               /\ pc'[u] = "link" => nxt'[u] = next'[HeadPtr(Home(u)')]
    <3>1. pc[u] \in Locked
      BY <2>1, <1>1 DEF Locked
    <3> QED
      BY <3>1, <1>1, <1>2, <1>6 DEF LatchInv
  <2>2. ASSUME NEW h \in HeadIdx, latch'[h] # NoLatch
        PROVE  pc'[latch'[h]] \in Locked /\ HASH(KeyR[idxR'[latch'[h]]]) = h
    <3>1. latch[h] \in Threads /\ pc[latch[h]] \in Locked /\ Home(latch[h]) = h
      BY <2>2 DEF TypeOK, LatchInv
    <3> QED
      BY <3>1, <1>1 DEF Home, Locked
  <2>3. \A u \in Threads : pc'[u] = "link" => nxt'[u] = next'[HeadPtr(Home(u)')]
    BY <2>1 DEF Locked
  <2> QED
    BY <2>1, <2>2, <2>3 DEF LatchInv, Home, HeadPtr
<1>8. DestInv'
  <2> SUFFICES ASSUME NEW u \in Threads, pc'[u] = "store"
               PROVE  /\ destB'[u] = HeadPtr(Home(u)) \/ destB'[u] = next'[HeadPtr(Home(u))]
                      /\ destB'[u] \in Buckets
                      /\ destK'[u] < count'[destB'[u]]
                      /\ tuples[destB'[u]][destK'[u]] = NoTuple
    BY <1>2 DEF DestInv, Home
  <2>1. CASE u = t
    <3>1. tuples[p][k] = NoTuple
      BY <1>3 DEF SlotInv
    <3>2. count'[p] = k + 1
      BY DEF TypeOK
    <3> QED
      BY <2>1, <3>1, <3>2, <1>1, <1>3
  <2>2. CASE u # t
    <3>1. pc[u] = "store" /\ destB'[u] = destB[u] /\ destK'[u] = destK[u]
      BY <2>2, <1>1
    <3>2. /\ destB[u] = HeadPtr(Home(u)) \/ destB[u] = next[HeadPtr(Home(u))]
          /\ destB[u] \in Buckets
          /\ destK[u] < count[destB[u]]
          /\ tuples[destB[u]][destK[u]] = NoTuple
      BY <3>1 DEF DestInv
    <3>3. destK[u] < count'[destB[u]]
      BY <3>2, <1>4 DEF TypeOK
    <3> QED
      BY <2>2, <3>1, <3>2, <3>3, <1>6 DEF Locked
  <2> QED
    BY <2>1, <2>2
<1>9. SlotInv'
  <2>1. \A u \in Threads, i \in RIdx : Inserted(u, i)' <=> Inserted(u, i)
    BY <1>1 DEF Inserted
  <2>2. \A q \in Buckets, l \in Slots : count'[q] <= l => count[q] <= l
    BY <1>3, <1>4
  <2> QED
    BY <2>1, <2>2 DEF SlotInv
<1>10. PhaseInv'
  BY <1>1 DEF PhaseInv, Built, Probed, Freed
<1> QED
  BY <1>5, <1>7, <1>8, <1>9, <1>10

LEMMA LinkStep ==
  ASSUME IInv, NEW t \in Threads, Link(t)
  PROVE  IInv'
<1> USE DEF IInv
<1> DEFINE curr == HeadPtr(Home(t))
<1>1. /\ pc[t] = "link" /\ pc' = [pc EXCEPT ![t] = "store"]
      /\ UNCHANGED <<idxR, idxS, latch, tuples, nxt, b, freed, out>>
  BY DEF Link, Goto
<1>2. idxR[t] \in RIdx /\ Home(t) \in HeadIdx /\ nxt[t] = next[curr]
  BY <1>1, HomeType DEF LatchInv, Locked
<1>3. curr \in Buckets /\ curr[1] \notin Threads /\ ~ Allocated(curr)
  BY <1>2, Pointers DEF Allocated
<1>4. /\ nalloc \in [Threads -> Nat] /\ next \in [Buckets -> Buckets \cup {NullPtr}]
      /\ count \in [Buckets -> 0 .. BUCKET_SIZE]
      /\ \A u \in Threads : nalloc[u] \in Nat /\ idxR[u] \in Nat
  BY DEF TypeOK
<1>5. \A u \in Threads \ {t} : pc'[u] = pc[u]
  BY <1>1 DEF TypeOK
<1>6. pc'[t] = "store" /\ nalloc[t] <= idxR[t]
  <2>1. nalloc[t] <= idxR[t] + IF pc[t] \in {"store", "unlock"} THEN 1 ELSE 0
    BY DEF ChainInv
  <2>2. pc'[t] = "store"
    BY <1>1 DEF TypeOK
  <2> QED
    BY <2>1, <2>2, <1>1, <1>4
<1> HIDE DEF curr
<1>7. ASSUME NEW p \in {curr, nxt[t]}, p # NullPtr, count[p] < BUCKET_SIZE, Fill(t, p)
      PROVE  IInv'
  <2>1. p \in Buckets
    BY <1>2, <1>3, <1>4, <1>7
  <2>2. count[p] \in Slots
    BY <2>1, <1>4, <1>7, Sizes DEF Slots
  <2>3. p[1] \notin Threads \/ Allocated(p)
    BY <1>2, <1>3, <1>7 DEF ChainInv
  <2>4. ChainInv'
    <3>1. next' = next /\ nalloc' = nalloc /\ idxR' = idxR
      BY <1>1, <1>7 DEF Fill
    <3>2. \A q : Allocated(q)' <=> Allocated(q)
      BY <3>1 DEF Allocated
    <3>3. \A q \in Buckets \ {p} : count'[q] = count[q]
      BY <2>1, <1>4, <1>7 DEF Fill
    <3>4. \A u \in Threads : nalloc[u] <= idxR[u] + IF pc'[u] \in {"store", "unlock"} THEN 1 ELSE 0
      BY <1>4, <1>5, <1>6 DEF ChainInv
    <3> QED
      BY <2>3, <3>1, <3>2, <3>3, <3>4 DEF ChainInv
  <2>5. next' = next /\ nalloc' = nalloc
    BY <1>7 DEF Fill
  <2>6. p = curr \/ p = next'[curr]
    BY <1>2, <2>5, <1>7
  <2> QED
    BY <1>1, <1>4, <1>7, <2>1, <2>2, <2>4, <2>5, <2>6, LinkCommon DEF Fill, curr
<1>8. ASSUME NewBucket(t, curr) PROVE IInv'
  <2>0. PICK new : new = <<t, nalloc[t]>>
    OBVIOUS
  <2>1. /\ new \in Buckets /\ new # curr /\ new[1] \in Threads
        /\ ~ Allocated(new)
    <3>1. nalloc[t] \in RIdx
      BY <1>2, <1>4, <1>6, Sizes DEF RIdx
    <3> QED
      BY <2>0, <3>1, <1>3, Pointers DEF Allocated
  <2>2. next[new] = NullPtr /\ count[new] = 0
    BY <2>1 DEF ChainInv
  <2>3. /\ next'[curr] = new /\ next'[new] = next[curr]
        /\ \A q \in Buckets \ {curr, new} : next'[q] = next[q]
        /\ next' \in [Buckets -> Buckets \cup {NullPtr}]
    <3>1. next' = [next EXCEPT ![curr] = new, ![new] = next[curr]]
      BY <2>0, <1>8, <1>2 DEF NewBucket
    <3> QED
      BY <3>1, <2>1, <1>3, <1>4
  <2>4. /\ \A q \in Buckets : Allocated(q)' <=> Allocated(q) \/ q = new
        /\ Allocated(new)'
    <3>1. nalloc'[t] = nalloc[t] + 1 /\ \A u \in Threads \ {t} : nalloc'[u] = nalloc[u]
      BY <1>8, <1>4 DEF NewBucket
    <3>2. Allocated(new)'
      <4>1. new[1] = t /\ new[2] = nalloc[t]
        BY <2>0
      <4>2. nalloc[t] < nalloc'[t]
        BY <3>1, <1>4
      <4> QED
        BY <4>1, <4>2, <1>4 DEF Allocated
    <3>3. ASSUME NEW q \in Buckets PROVE Allocated(q)' <=> Allocated(q) \/ q = new
      <4>1. CASE q[1] = t
        <5>1. q = <<t, q[2]>> /\ q[2] \in Nat
          BY <4>1, Pointers
        <5>2. q[2] < nalloc[t] + 1 <=> q[2] < nalloc[t] \/ q[2] = nalloc[t]
          BY <5>1, <1>4
        <5>3. q = new <=> q[2] = nalloc[t]
          BY <2>0, <5>1
        <5> QED
          BY <4>1, <5>2, <5>3, <3>1 DEF Allocated
      <4>2. CASE q[1] # t
        BY <2>0, <4>2, <3>1 DEF Allocated
      <4> QED
        BY <4>1, <4>2
    <3> QED
      BY <3>2, <3>3
  <2>5. nalloc' \in [Threads -> Nat]
    BY <1>8, <1>4 DEF NewBucket
  <2>6. \A u \in Threads : nalloc'[u] <= idxR'[u] + IF pc'[u] \in {"store", "unlock"} THEN 1 ELSE 0
    <3>1. nalloc'[t] = nalloc[t] + 1 /\ \A u \in Threads \ {t} : nalloc'[u] = nalloc[u]
      BY <1>8, <1>4 DEF NewBucket
    <3> QED
      BY <3>1, <1>1, <1>4, <1>5, <1>6 DEF ChainInv
  <2>7. /\ count' = [count EXCEPT ![new] = 1]
        /\ \A q \in Buckets \ {new} : count'[q] = count[q]
    BY <2>0, <1>8, <1>4 DEF NewBucket
  <2>8. \A q \in Buckets : next'[q] # NullPtr => Allocated(next'[q]) \/ next'[q] = new
    BY <1>3, <2>1, <2>3 DEF ChainInv
  <2>9. \A p, q \in Buckets : next'[p] = next'[q] => p = q \/ next'[p] = NullPtr
    <3>1. \A q \in Buckets : next[q] # new
      BY <2>1, Pointers DEF ChainInv
    <3> QED
      BY <3>1, <1>3, <2>1, <2>3 DEF ChainInv
  <2>10. ASSUME NEW q \in Buckets, Allocated(q) \/ q = new
         PROVE  \E p \in Buckets : next'[p] = q
    <3>1. CASE q = new
      BY <3>1, <2>3, <1>3
    <3>2. CASE Allocated(q)
      <4>1. PICK p \in Buckets : next[p] = q
        BY <3>2 DEF ChainInv
      <4>2. p # new
        BY <4>1, <2>2, Pointers
      <4> QED
        BY <4>1, <4>2, <2>1, <2>3
    <3> QED
      BY <2>10, <3>1, <3>2
  <2>11. \A q \in Buckets : q[1] \in Threads /\ ~ Allocated(q) /\ q # new =>
           next'[q] = NullPtr /\ count'[q] = 0
    BY <2>3, <2>7, <1>3 DEF ChainInv
  <2>12. \A q \in Buckets : next'[q] # NullPtr =>
           next'[q][1] \in Threads /\ next'[q][2] < nalloc'[next'[q][1]]
    <3>1. \A r \in Buckets : Allocated(r) \/ r = new => r[1] \in Threads /\ r[2] < nalloc'[r[1]]
      BY <2>4 DEF Allocated
    <3>2. \A q \in Buckets : next'[q] \in Buckets \cup {NullPtr}
      BY <2>3
    <3> QED
      BY <2>8, <3>1, <3>2
  <2>13. ChainInv'
    <3>1. \A q \in Buckets : Allocated(q)' => \E p \in Buckets : next'[p] = q
      BY <2>4, <2>10
    <3>2. \A q \in Buckets : q[1] \in Threads /\ ~ Allocated(q)' => next'[q] = NullPtr /\ count'[q] = 0
      BY <2>4, <2>11
    <3> QED
      BY <2>6, <2>9, <2>12, <3>1, <3>2 DEF ChainInv, Allocated
  <2>14. \A h \in HeadIdx \ {Home(t)} : next'[HeadPtr(h)] = next[HeadPtr(h)]
    BY <1>2, <2>1, <2>3, Pointers DEF curr
  <2>15. 0 \in Slots
    BY Sizes DEF Slots
  <2>16. destB' = [destB EXCEPT ![t] = new] /\ destK' = [destK EXCEPT ![t] = 0]
    BY <2>0, <1>8 DEF NewBucket
  <2>17. new = next'[HeadPtr(Home(t))] /\ count' = [count EXCEPT ![new] = 0 + 1]
    BY <2>3, <2>7 DEF curr
  <2> QED
    BY <1>1, <2>1, <2>2, <2>3, <2>5, <2>13, <2>14, <2>15, <2>16, <2>17, LinkCommon
<1>9. \/ \E p \in {curr, nxt[t]} : p # NullPtr /\ count[p] < BUCKET_SIZE /\ Fill(t, p)
      \/ NewBucket(t, curr)
  BY <1>3, Pointers DEF Link, curr
<1> QED
  BY <1>7, <1>8, <1>9

------------------------------------------------------------------------------
LEMMA StepInv == IInv /\ [Next]_vars => IInv'
<1> SUFFICES ASSUME IInv, [Next]_vars PROVE IInv'
  OBVIOUS
<1>1. CASE UNCHANGED vars
  BY <1>1 DEF vars, IInv, TypeOK, LatchInv, Home, ChainInv, Allocated, DestInv, SlotInv, Inserted,
              PhaseInv
<1>2. CASE Terminated
  BY <1>1, <1>2 DEF Terminated
<1>3. CASE \E t \in Threads : ThreadStep(t)
  BY <1>3, BarrierSteps, ProbeSteps, LockStep, LinkStep, StoreStep, UnlockStep DEF ThreadStep
<1> QED
  BY <1>1, <1>2, <1>3 DEF Next

(* The hash table invariant holds throughout NPO, for every number of       *)
(* threads, relation, key distribution and bucket size (npo_thread).        *)
THEOREM NPOInvariant == SafeSpec => []IInv
  BY InitInv, StepInv, PTL DEF SafeSpec

LEMMA InvOverwritten == IInv => NothingOverwritten
<1> SUFFICES ASSUME IInv, NEW t \in Threads, pc[t] \in Built \ {"built"}, NEW i \in RIdx
             PROVE  \E p \in Buckets, k \in Slots :
                      /\ k < count[p] /\ tuples[p][k] = i
                      /\ \A q \in Buckets, l \in Slots : tuples[q][l] = i => q = p /\ l = k
  BY DEF NothingOverwritten
<1> USE DEF IInv
<1>1. i \in Nat /\ i < numR
  BY Sizes DEF RIdx
<1>2. PICK u \in Threads : ShareBegin(numR, u) <= i /\ i < ShareEnd(numR, u)
  BY <1>1, ShareExists, Sizes
<1>3. Inserted(u, i)
  BY <1>2 DEF PhaseInv, Inserted
<1>4. PICK p \in Buckets, k \in Slots : tuples[p][k] = i
  BY <1>3 DEF SlotInv
<1>5. i # NoTuple
  BY <1>1 DEF NoTuple
<1>6. k < count[p]
  <2>1. count[p] \in Nat /\ k \in Nat
    BY Sizes DEF TypeOK, Slots
  <2>2. ~ (count[p] <= k)
    BY <1>4, <1>5 DEF SlotInv
  <2> QED
    BY <2>1, <2>2
<1>7. \A q \in Buckets, l \in Slots : tuples[q][l] = i => q = p /\ l = k
  BY <1>4, <1>5 DEF SlotInv
<1> QED
  BY <1>4, <1>6, <1>7

(* When the probe begins every tuple of R is in exactly one slot of the     *)
(* table, whatever the interleaving of the insertions (build_hashtable_mt). *)
THEOREM NPONothingOverwritten == SafeSpec => []NothingOverwritten
  BY NPOInvariant, InvOverwritten, PTL

LEMMA InvNoUse == ASSUME JoinBarrier PROVE IInv => NoUseAfterFree
<1> SUFFICES ASSUME IInv, NEW t \in Threads, pc[t] = "walk", b[t][1] \in freed PROVE FALSE
  BY DEF NoUseAfterFree
<1> USE DEF IInv
<1>1. b[t][1] \in Threads /\ pc[b[t][1]] = "exited"
  BY DEF PhaseInv, TypeOK
<1> QED
  BY <1>1 DEF PhaseInv, Probed, Freed

(* In builds that have the barrier after the probe no thread follows a      *)
(* pointer into a freed overflow buffer (npo_thread, free_bucket_buffer).   *)
THEOREM NPONoUseAfterFree == ASSUME JoinBarrier PROVE SafeSpec => []NoUseAfterFree
  BY NPOInvariant, InvNoUse, PTL

------------------------------------------------------------------------------
(* What a probe finds.  The invariant of the probe places every bucket of   *)
(* the table: home[p] is the chain of bucket p and pos[p] its place in that *)
(* chain.  Both only exist in the proof; an insertion behind the head moves *)
(* the buckets after it by one place.                                       *)
Live(p) == p[1] \notin Threads \/ Allocated(p)

Chained(home, pos) ==
  /\ home \in [Buckets -> HeadIdx] /\ pos \in [Buckets -> Nat]
  /\ \A h \in HeadIdx : home[HeadPtr(h)] = h /\ pos[HeadPtr(h)] = 0
  /\ \A p \in Buckets : p[1] \in Threads => pos[p] # 0
  /\ \A p \in Buckets : next[p] # NullPtr =>
       home[next[p]] = home[p] /\ pos[next[p]] = pos[p] + 1
  /\ \A p \in Buckets, k \in Slots, i \in RIdx :
       tuples[p][k] = i => home[p] = HASH(KeyR[i])

(* The tuple i is in a bucket that the walk of thread t has passed. *)
Passed(pos, t, i) == \E p \in Buckets, k \in Slots : tuples[p][k] = i /\ pos[p] < pos[b[t]]

Counted(pos, t, i, j) ==
  /\ Matching(i, j)
  /\ ShareBegin(numS, t) <= j
  /\ j < idxS[t] \/ (j = idxS[t] /\ pc[t] = "walk" /\ Passed(pos, t, i))

Walks(home, pos) ==
  \A t \in Threads :
    /\ pc[t] = "walk" => Live(b[t]) /\ home[b[t]] = HASH(KeyS[idxS[t]])
    /\ pc[t] \in Probed => idxS[t] = ShareEnd(numS, t)
    /\ \A i \in RIdx, j \in SIdx : out[t][i][j] = IF Counted(pos, t, i, j) THEN 1 ELSE 0

ProbeInv == \E home, pos : Chained(home, pos) /\ Walks(home, pos)

(* Every bucket of the table but a head has a predecessor in its chain. *)
LEMMA Predecessor ==
  ASSUME IInv, NEW home, NEW pos, Chained(home, pos), NEW p \in Buckets, Live(p), pos[p] # 0
  PROVE  \E q \in Buckets : /\ Live(q) /\ next[q] = p
                            /\ home[q] = home[p] /\ pos[q] + 1 = pos[p]
<1>1. p[1] \in Threads
  <2>1. p[1] \notin Threads => \E h \in HeadIdx : p = HeadPtr(h)
    BY DEF Buckets, HeadPtr
  <2> QED
    BY <2>1 DEF Chained
<1>2. PICK q \in Buckets : next[q] = p
  BY <1>1 DEF Live, IInv, ChainInv
<1>3. next[q] # NullPtr
  BY <1>2, Pointers
<1>4. Live(q)
  BY <1>3 DEF Live, IInv, ChainInv
<1> QED
  BY <1>2, <1>3, <1>4 DEF Chained

(* The places of a chain are taken once. *)
LEMMA PlaceUnique ==
  ASSUME IInv, NEW home, NEW pos, Chained(home, pos),
         NEW p \in Buckets, NEW q \in Buckets, Live(p), Live(q),
         home[p] = home[q], pos[p] = pos[q]
  PROVE  p = q
<1> DEFINE Two(x, y) == Live(x) /\ Live(y) /\ home[x] = home[y] /\ pos[x] = pos[y] /\ x # y
           T == {n \in Nat : \E x, y \in Buckets : Two(x, y) /\ pos[x] = n}
<1> SUFFICES ASSUME p # q PROVE FALSE
  OBVIOUS
<1>1. pos \in [Buckets -> Nat]
  BY DEF Chained
<1>2. T # {} /\ T \in SUBSET Nat
  BY <1>1
<1>3. PICK m \in T : \A k \in T : m <= k
  BY <1>2, LeastNat
<1>4. PICK x \in Buckets, y \in Buckets : Two(x, y) /\ pos[x] = m
  BY <1>3
<1>5. CASE m = 0
  <2>1. x[1] \notin Threads /\ y[1] \notin Threads
    BY <1>4, <1>5 DEF Chained
  <2>2. \E h \in HeadIdx : x = HeadPtr(h)
    BY <2>1 DEF Buckets, HeadPtr
  <2>3. \E h \in HeadIdx : y = HeadPtr(h)
    BY <2>1 DEF Buckets, HeadPtr
  <2> QED
    BY <1>4, <2>2, <2>3 DEF Chained
<1>6. CASE m # 0
  <2>1. PICK x1 \in Buckets : Live(x1) /\ next[x1] = x /\ home[x1] = home[x] /\ pos[x1] + 1 = pos[x]
    BY <1>4, <1>6, Predecessor
  <2>0. Live(y) /\ pos[y] # 0
    BY <1>4, <1>6
  <2>2. PICK y1 \in Buckets : Live(y1) /\ next[y1] = y /\ home[y1] = home[y] /\ pos[y1] + 1 = pos[y]
    BY <2>0, Predecessor
  <2>3. pos[x1] \in Nat /\ pos[y1] \in Nat /\ m \in Nat
    BY <1>1
  <2>4. x1 # y1 /\ pos[x1] = pos[y1] /\ pos[x1] < m
    BY <1>4, <2>1, <2>2, <2>3
  <2>5. pos[x1] \in T
    BY <1>4, <2>1, <2>2, <2>3, <2>4
  <2> QED
    BY <1>3, <2>3, <2>4, <2>5
<1> QED
  BY <1>5, <1>6

(* A walk that comes to a bucket without a successor has seen its chain. *)
LEMMA LastPlace ==
  ASSUME IInv, NEW home, NEW pos, Chained(home, pos),
         NEW p \in Buckets, NEW q \in Buckets, Live(p), Live(q),
         home[p] = home[q], next[p] = NullPtr
  PROVE  pos[q] <= pos[p]
<1> DEFINE Beyond(x) == Live(x) /\ home[x] = home[p] /\ pos[p] < pos[x]
           T == {n \in Nat : \E x \in Buckets : Beyond(x) /\ pos[x] = n}
<1>1. pos \in [Buckets -> Nat] /\ pos[p] \in Nat /\ pos[q] \in Nat
  BY DEF Chained
<1> SUFFICES ASSUME pos[p] < pos[q] PROVE FALSE
  BY <1>1
<1>2. T # {} /\ T \in SUBSET Nat
  BY <1>1
<1>3. PICK m \in T : \A k \in T : m <= k
  BY <1>2, LeastNat
<1>4. PICK x \in Buckets : Beyond(x) /\ pos[x] = m
  BY <1>3
<1>5. m # 0 /\ m \in Nat
  BY <1>1, <1>4
<1>6. PICK y \in Buckets : Live(y) /\ next[y] = x /\ home[y] = home[x] /\ pos[y] + 1 = pos[x]
  BY <1>4, <1>5, Predecessor
<1>7. pos[y] \in Nat /\ pos[y] < m /\ pos[p] <= pos[y]
  BY <1>1, <1>4, <1>5, <1>6
<1>8. pos[y] \notin T
  BY <1>3, <1>5, <1>7
<1>9. pos[y] = pos[p]
  BY <1>1, <1>4, <1>6, <1>7, <1>8
<1>10. y = p
  BY <1>4, <1>6, <1>9, PlaceUnique
<1> QED
  BY <1>6, <1>10, Pointers

LEMMA ProbeInit == Init => ProbeInv
<1> SUFFICES ASSUME Init PROVE ProbeInv
  OBVIOUS
<1> DEFINE home == [p \in Buckets |-> IF p[1] \in Threads THEN 0 ELSE p[2]]
           pos == [p \in Buckets |-> IF p[1] \in Threads THEN 1 ELSE 0]
<1>1. /\ home \in [Buckets -> HeadIdx] /\ pos \in [Buckets -> Nat]
      /\ \A h \in HeadIdx : home[HeadPtr(h)] = h /\ pos[HeadPtr(h)] = 0
      /\ \A p \in Buckets : p[1] \in Threads => pos[p] # 0
  <2>1. 0 \in HeadIdx
    BY Sizes DEF HeadIdx
  <2>2. \A p \in Buckets : p[1] \notin Threads => p[2] \in HeadIdx
    BY DEF Buckets
  <2>3. \A h \in HeadIdx : HeadPtr(h) \in Buckets /\ HeadPtr(h)[1] \notin Threads /\ HeadPtr(h)[2] = h
    BY Pointers DEF HeadPtr
  <2> QED
    BY <2>1, <2>2, <2>3
<1> HIDE DEF home, pos
<1>2. Chained(home, pos)
  BY <1>1, Sizes DEF Chained, Init, NoTuple, RIdx
<1>3. \A t \in Threads, i \in RIdx, j \in SIdx : ~ Counted(pos, t, i, j)
  <2> SUFFICES ASSUME NEW t \in Threads, NEW j \in SIdx, ShareBegin(numS, t) <= j, j < idxS[t]
               PROVE  FALSE
    BY DEF Counted, Init
  <2>1. idxS[t] = ShareBegin(numS, t) /\ ShareBegin(numS, t) \in Nat /\ j \in Nat
    BY ShareType, Sizes DEF Init, SIdx
  <2> QED
    BY <2>1
<1>4. Walks(home, pos)
  BY <1>3 DEF Walks, Init, Probed, Freed
<1> QED
  BY <1>2, <1>4 DEF ProbeInv

(* Steps that neither link a bucket nor store a tuple nor search one. *)
LEMMA ProbeKept ==
  ASSUME IInv, ProbeInv, NEW t \in Threads,
         UNCHANGED <<next, nalloc, tuples, b, idxS, out>>,
         pc' = [pc EXCEPT ![t] = pc'[t]], pc[t] # "walk", pc'[t] # "walk",
         pc'[t] \in Probed => idxS[t] = ShareEnd(numS, t)
  PROVE  ProbeInv'
<1>1. PICK home, pos : Chained(home, pos) /\ Walks(home, pos)
  BY DEF ProbeInv
<1>2. \A u \in Threads : pc'[u] = pc[u] \/ (u = t /\ pc[u] # "walk" /\ pc'[u] # "walk")
  BY DEF IInv, TypeOK
<1>3. Chained(home, pos)'
  BY <1>1 DEF Chained
<1>4. \A u \in Threads, i \in RIdx, j \in SIdx : Counted(pos, u, i, j)' <=> Counted(pos, u, i, j)
  BY <1>2 DEF Counted, Passed
<1>5. \A p : Live(p)' <=> Live(p)
  BY DEF Live, Allocated
<1>6. Walks(home, pos)'
  <2>1. ASSUME NEW u \in Threads, pc'[u] = "walk"
        PROVE  Live(b[u])' /\ home[b'[u]] = HASH(KeyS[idxS'[u]])
    BY <1>1, <1>2, <1>5, <2>1 DEF Walks
  <2>2. ASSUME NEW u \in Threads, pc'[u] \in Probed PROVE idxS'[u] = ShareEnd(numS, u)
    BY <1>1, <1>2, <2>2 DEF Walks
  <2>3. \A u \in Threads, i \in RIdx, j \in SIdx :
          out'[u][i][j] = IF Counted(pos, u, i, j)' THEN 1 ELSE 0
    BY <1>1, <1>4 DEF Walks
  <2> QED
    BY <2>1, <2>2, <2>3 DEF Walks
<1> QED
  BY <1>3, <1>6 DEF ProbeInv

(* Nobody walks while a thread builds. *)
LEMMA NoWalkers ==
  ASSUME IInv, NEW t \in Threads, pc[t] \in Locked
  PROVE  \A u \in Threads : pc[u] # "walk" /\ pc[u] \notin Probed
<1> SUFFICES ASSUME NEW u \in Threads, pc[u] \in Built \ {"built"} PROVE FALSE
  BY DEF Built, Probed, Freed
<1>1. pc[t] \in Built
  BY DEF IInv, PhaseInv
<1> QED
  BY <1>1 DEF Locked, Built, Probed, Freed

LEMMA StoreProbe ==
  ASSUME IInv, ProbeInv, NEW t \in Threads, Store(t)
  PROVE  ProbeInv'
<1>1. PICK home, pos : Chained(home, pos) /\ Walks(home, pos)
  BY DEF ProbeInv
<1>2. /\ pc[t] = "store" /\ pc' = [pc EXCEPT ![t] = "unlock"]
      /\ UNCHANGED <<idxR, idxS, next, nalloc, b, out>>
      /\ tuples' = [tuples EXCEPT ![destB[t]][destK[t]] = idxR[t]]
  BY DEF Store, Goto
<1>3. \A u \in Threads : pc[u] # "walk" /\ pc'[u] # "walk" /\ pc'[u] \notin Probed
  BY <1>2, NoWalkers DEF Locked, IInv, TypeOK, Probed, Freed
<1>4. /\ destB[t] \in Buckets /\ Home(t) \in HeadIdx
      /\ destB[t] = HeadPtr(Home(t)) \/ destB[t] = next[HeadPtr(Home(t))]
  BY <1>2, HomeType DEF IInv, DestInv, LatchInv, Locked
<1>5. home[destB[t]] = HASH(KeyR[idxR[t]])
  <2>1. home[HeadPtr(Home(t))] = Home(t) /\ HeadPtr(Home(t)) \in Buckets
    BY <1>1, <1>4, Pointers DEF Chained
  <2>2. home[destB[t]] = Home(t)
    BY <1>1, <1>4, <2>1, Pointers DEF Chained
  <2> QED
    BY <2>2 DEF Home
<1>6. Chained(home, pos)'
  <2>1. ASSUME NEW p \in Buckets, NEW k \in Slots, NEW i \in RIdx, tuples'[p][k] = i
        PROVE  home[p] = HASH(KeyR[i])
    <3>1. tuples \in [Buckets -> [Slots -> RIdx \cup {NoTuple}]]
      BY DEF IInv, TypeOK
    <3>2. CASE tuples[p][k] = i
      BY <1>1, <3>2 DEF Chained
    <3>3. CASE tuples[p][k] # i
      <4>1. p = destB[t] /\ i = idxR[t]
        BY <1>2, <2>1, <3>1, <3>3
      <4> QED
        BY <1>5, <4>1
    <3> QED
      BY <3>2, <3>3
  <2> QED
    BY <1>1, <1>2, <2>1 DEF Chained
<1>7. Walks(home, pos)'
  <2>1. \A u \in Threads, i \in RIdx, j \in SIdx : Counted(pos, u, i, j)' <=> Counted(pos, u, i, j)
    BY <1>2, <1>3 DEF Counted
  <2> QED
    BY <1>1, <1>2, <1>3, <2>1 DEF Walks
<1> QED
  BY <1>6, <1>7 DEF ProbeInv

(* A new bucket takes place 1 of its chain. *)
LEMMA LinkProbe ==
  ASSUME IInv, ProbeInv, NEW t \in Threads, Link(t), NewBucket(t, HeadPtr(Home(t)))
  PROVE  ProbeInv'
<1>a. PICK h : h = Home(t)
  OBVIOUS
<1>b. PICK curr : curr = HeadPtr(h)
  OBVIOUS
<1>c. PICK new : new = <<t, nalloc[t]>>
  OBVIOUS
<1>1. PICK home, pos : Chained(home, pos) /\ Walks(home, pos)
  BY DEF ProbeInv
<1>2. /\ pc[t] = "link" /\ pc' = [pc EXCEPT ![t] = "store"]
      /\ UNCHANGED <<idxR, idxS, tuples, b, out>>
  BY DEF Link, Goto
<1>3. \A u \in Threads : pc[u] # "walk" /\ pc'[u] # "walk" /\ pc'[u] \notin Probed
  BY <1>2, NoWalkers DEF Locked, IInv, TypeOK, Probed, Freed
<1>4. idxR[t] \in RIdx /\ h \in HeadIdx /\ nxt[t] = next[curr]
  BY <1>a, <1>b, <1>2, HomeType DEF IInv, LatchInv, Locked
<1>5. curr \in Buckets /\ curr[1] \notin Threads
  BY <1>b, <1>4, Pointers
<1>6. new \in Buckets /\ new # curr /\ new[1] \in Threads /\ ~ Allocated(new)
  <2>1. nalloc[t] <= idxR[t] + IF pc[t] \in {"store", "unlock"} THEN 1 ELSE 0
    BY DEF IInv, ChainInv
  <2>2. nalloc[t] \in Nat
    BY DEF IInv, TypeOK
  <2>3. nalloc[t] \in RIdx
    BY <1>2, <1>4, <2>1, <2>2, Sizes DEF RIdx
  <2> QED
    BY <1>c, <1>5, <2>2, <2>3, Pointers DEF Allocated
<1>7. next' = [next EXCEPT ![curr] = new, ![new] = next[curr]]
  BY <1>a, <1>b, <1>c, <1>4 DEF NewBucket
<1>8. /\ next \in [Buckets -> Buckets \cup {NullPtr}]
      /\ next'[curr] = new /\ next'[new] = next[curr]
      /\ \A q \in Buckets \ {curr, new} : next'[q] = next[q]
  BY <1>5, <1>6, <1>7 DEF IInv, TypeOK
<1>9. \A q \in Buckets : next[q] # new
  BY <1>6, Pointers DEF IInv, ChainInv
<1>10. \A k \in Slots : tuples[new][k] \notin RIdx
  <2>1. count[new] = 0
    BY <1>6 DEF IInv, ChainInv
  <2>2. \A k \in Slots : count[new] <= k
    BY <2>1, Sizes DEF Slots
  <2> QED
    BY <1>6, <2>2, Sizes DEF IInv, SlotInv, NoTuple, RIdx
<1>11. /\ home \in [Buckets -> HeadIdx] /\ pos \in [Buckets -> Nat]
       /\ home[curr] = h /\ pos[curr] = 0
  BY <1>b, <1>1, <1>4 DEF Chained
<1>12. PICK home2 \in [Buckets -> HeadIdx], pos2 \in [Buckets -> Nat] :
         /\ home2[new] = h /\ pos2[new] = 1
         /\ \A p \in Buckets : p # new =>
              /\ home2[p] = home[p]
              /\ pos2[p] = IF home[p] = h /\ pos[p] # 0 THEN pos[p] + 1 ELSE pos[p]
  <2> DEFINE H == [p \in Buckets |-> IF p = new THEN h ELSE home[p]]
             P == [p \in Buckets |-> IF p = new THEN 1
                                     ELSE IF home[p] = h /\ pos[p] # 0 THEN pos[p] + 1 ELSE pos[p]]
  <2>1. H \in [Buckets -> HeadIdx] /\ P \in [Buckets -> Nat]
    BY <1>4, <1>11
  <2> QED
    BY <1>6, <2>1
<1>13. ASSUME NEW g \in HeadIdx PROVE home2[HeadPtr(g)] = g /\ pos2[HeadPtr(g)] = 0
  <2>1. HeadPtr(g) \in Buckets \ {new}
    BY <1>6, Pointers
  <2> QED
    BY <1>1, <1>12, <2>1 DEF Chained
<1>14. ASSUME NEW p \in Buckets, p[1] \in Threads PROVE pos2[p] # 0
  <2>1. pos[p] # 0 /\ pos[p] \in Nat
    BY <1>1, <1>14 DEF Chained
  <2> QED
    BY <1>12, <2>1
<1>15. ASSUME NEW p \in Buckets, pos[p] = 0, home[p] = h PROVE p = curr
  <2>1. p[1] \notin Threads
    BY <1>1, <1>15 DEF Chained
  <2>2. PICK g \in HeadIdx : p = HeadPtr(g)
    BY <2>1 DEF Buckets, HeadPtr
  <2>3. g = h
    BY <1>1, <1>15, <2>2 DEF Chained
  <2> QED
    BY <1>b, <2>2, <2>3
<1>16. ASSUME NEW p \in Buckets, next'[p] # NullPtr
       PROVE  home2[next'[p]] = home2[p] /\ pos2[next'[p]] = pos2[p] + 1
  <2>1. CASE p = curr
    BY <1>5, <1>6, <1>8, <1>11, <1>12, <2>1
  <2>2. CASE p = new
    <3>1. next[curr] # NullPtr /\ next[curr] \in Buckets \ {new}
      BY <1>5, <1>8, <1>9, <1>16, <2>2
    <3>2. home[next[curr]] = h /\ pos[next[curr]] = 1
      BY <1>1, <1>5, <1>11, <3>1 DEF Chained
    <3> QED
      BY <1>8, <1>12, <2>2, <3>1, <3>2
  <2>3. CASE p \in Buckets \ {curr, new}
    <3>1. next'[p] = next[p] /\ next[p] \in Buckets \ {new}
      BY <1>8, <1>9, <1>16, <2>3
    <3>2. home[next[p]] = home[p] /\ pos[next[p]] = pos[p] + 1 /\ pos[p] \in Nat
      BY <1>1, <1>11, <1>16, <3>1 DEF Chained
    <3>3. home[p] = h => pos[p] # 0
      BY <1>15, <2>3
    <3>4. CASE home[p] = h
      BY <1>12, <2>3, <3>1, <3>2, <3>3, <3>4
    <3>5. CASE home[p] # h
      BY <1>12, <2>3, <3>1, <3>2, <3>5
    <3> QED
      BY <3>4, <3>5
  <2> QED
    BY <2>1, <2>2, <2>3
<1>17. Chained(home2, pos2)'
  <2>1. ASSUME NEW p \in Buckets, NEW k \in Slots, NEW i \in RIdx, tuples[p][k] = i
        PROVE  home2[p] = HASH(KeyR[i])
    BY <1>1, <1>10, <1>12, <2>1 DEF Chained
  <2> QED
    BY <1>2, <1>12, <1>13, <1>14, <1>16, <2>1 DEF Chained
<1>18. Walks(home2, pos2)'
  <2>1. \A u \in Threads, i \in RIdx, j \in SIdx : Counted(pos2, u, i, j)' <=> Counted(pos, u, i, j)
    BY <1>2, <1>3 DEF Counted
  <2> QED
    BY <1>1, <1>2, <1>3, <2>1 DEF Walks
<1> QED
  BY <1>17, <1>18 DEF ProbeInv

(* A probe begins at the head, and has passed nothing yet. *)
LEMMA ProbeProbe ==
  ASSUME IInv, ProbeInv, NEW t \in Threads, Probe(t)
  PROVE  ProbeInv'
<1>1. PICK home, pos : Chained(home, pos) /\ Walks(home, pos)
  BY DEF ProbeInv
<1> DEFINE h == HASH(KeyS[idxS[t]])
<1>2. /\ pc[t] = "probe" /\ pc' = [pc EXCEPT ![t] = "walk"]
      /\ b' = [b EXCEPT ![t] = HeadPtr(h)]
      /\ UNCHANGED <<idxS, out, tuples, next, nalloc>>
  BY DEF Probe, Goto, table
<1>3. h \in HeadIdx
  <2>1. idxS[t] \in SIdx
    BY ShareType, Sizes DEF Probe, IInv, TypeOK, SIdx
  <2> QED
    BY <2>1, HashType, Sizes
<1> HIDE DEF h
<1>4. /\ \A u \in Threads \ {t} : pc'[u] = pc[u] /\ b'[u] = b[u]
      /\ pc'[t] = "walk" /\ b'[t] = HeadPtr(h)
  BY <1>2 DEF IInv, TypeOK
<1>5. Chained(home, pos)'
  BY <1>1, <1>2 DEF Chained
<1>6. pos[HeadPtr(h)] = 0 /\ home[HeadPtr(h)] = h /\ HeadPtr(h)[1] \notin Threads
  BY <1>1, <1>3, Pointers DEF Chained
<1>7. \A i \in RIdx : ~ Passed(pos, t, i)'
  BY <1>1, <1>4, <1>6 DEF Passed, Chained
<1>8. \A u \in Threads, i \in RIdx, j \in SIdx : Counted(pos, u, i, j)' <=> Counted(pos, u, i, j)
  <2> SUFFICES ASSUME NEW u \in Threads, NEW i \in RIdx, NEW j \in SIdx
               PROVE  Counted(pos, u, i, j)' <=> Counted(pos, u, i, j)
    OBVIOUS
  <2>1. CASE u = t
    BY <1>2, <1>7, <2>1 DEF Counted
  <2>2. CASE u # t
    <3>1. Passed(pos, u, i)' <=> Passed(pos, u, i)
      BY <1>2, <1>4, <2>2 DEF Passed
    <3> QED
      BY <1>2, <1>4, <2>2, <3>1 DEF Counted
  <2> QED
    BY <2>1, <2>2
<1>9. Walks(home, pos)'
  <2>1. ASSUME NEW u \in Threads, pc'[u] = "walk"
        PROVE  Live(b[u])' /\ home[b'[u]] = HASH(KeyS[idxS'[u]])
    <3>1. CASE u = t
      BY <1>2, <1>4, <1>6, <3>1 DEF Live, h
    <3>2. CASE u # t
      BY <1>1, <1>2, <1>4, <2>1, <3>2 DEF Walks, Live, Allocated
    <3> QED
      BY <3>1, <3>2
  <2>2. ASSUME NEW u \in Threads, pc'[u] \in Probed PROVE idxS'[u] = ShareEnd(numS, u)
    BY <1>1, <1>2, <1>4, <2>2 DEF Walks, Probed, Freed
  <2>3. \A u \in Threads, i \in RIdx, j \in SIdx :
          out'[u][i][j] = IF Counted(pos, u, i, j)' THEN 1 ELSE 0
    BY <1>1, <1>2, <1>8 DEF Walks
  <2> QED
    BY <2>1, <2>2, <2>3 DEF Walks
<1> QED
  BY <1>5, <1>9 DEF ProbeInv

(* One slot of the table holds the tuple i, in a bucket of its chain. *)
LEMMA TheSlot ==
  ASSUME IInv, NEW home, NEW pos, Chained(home, pos), NEW t \in Threads, pc[t] = "walk",
         NEW i \in RIdx
  PROVE  \E q \in Buckets, k \in Slots :
           /\ tuples[q][k] = i /\ k < count[q] /\ Live(q) /\ home[q] = HASH(KeyR[i])
           /\ \A p \in Buckets, l \in Slots : tuples[p][l] = i => p = q
<1>1. PICK q \in Buckets, k \in Slots :
        /\ k < count[q] /\ tuples[q][k] = i
        /\ \A p \in Buckets, l \in Slots : tuples[p][l] = i => p = q /\ l = k
  BY InvOverwritten DEF NothingOverwritten, Built
<1>2. Live(q)
  <2>1. count[q] # 0
    BY <1>1, Sizes DEF Slots, IInv, TypeOK
  <2> QED
    BY <2>1 DEF Live, IInv, ChainInv
<1> QED
  BY <1>1, <1>2 DEF Chained

(* One step of a walk counts the matches of one bucket, which no earlier    *)
(* step of this walk has counted, and the last step leaves none out.        *)
LEMMA WalkProbe ==
  ASSUME IInv, ProbeInv, NEW t \in Threads, Walk(t)
  PROVE  ProbeInv'
<1>1. PICK home, pos : Chained(home, pos) /\ Walks(home, pos)
  BY DEF ProbeInv
<1>a. PICK c : c = b[t]
  OBVIOUS
<1>b. PICK s : s = idxS[t]
  OBVIOUS
<1>2. /\ pc[t] = "walk"
      /\ out' = [out EXCEPT ![t] = Search(@, c, s)]
      /\ b' = [b EXCEPT ![t] = next[c]]
      /\ next[c] = NullPtr => idxS' = [idxS EXCEPT ![t] = s + 1] /\ pc' = [pc EXCEPT ![t] = "probe"]
      /\ next[c] # NullPtr => UNCHANGED <<idxS, pc>>
      /\ UNCHANGED <<tuples, next, nalloc>>
  BY <1>a, <1>b DEF Walk, Goto, table
<1>3. /\ c \in Buckets /\ s \in SIdx /\ s \in Nat
      /\ ShareBegin(numS, t) <= s /\ ShareBegin(numS, t) \in Nat
      /\ next[c] \in Buckets \cup {NullPtr}
  <2>1. c \in Buckets /\ s < ShareEnd(numS, t)
    BY <1>a, <1>b, <1>2 DEF IInv, PhaseInv
  <2>2. s \in Nat /\ ShareBegin(numS, t) <= s
    BY <1>b DEF IInv, TypeOK
  <2>3. s \in SIdx /\ ShareBegin(numS, t) \in Nat
    BY <2>1, <2>2, ShareType, Sizes DEF SIdx
  <2> QED
    BY <2>1, <2>2, <2>3 DEF IInv, TypeOK
<1>4. Live(c) /\ home[c] = HASH(KeyS[s])
  BY <1>a, <1>b, <1>1, <1>2 DEF Walks
<1>5. /\ pos \in [Buckets -> Nat]
      /\ next[c] # NullPtr => home[next[c]] = home[c] /\ pos[next[c]] = pos[c] + 1
  BY <1>1, <1>3 DEF Chained
<1>6. /\ \A u \in Threads : u # t => pc'[u] = pc[u] /\ b'[u] = b[u] /\ idxS'[u] = idxS[u]
      /\ b'[t] = next[c]
      /\ next[c] = NullPtr => idxS'[t] = s + 1 /\ pc'[t] = "probe"
      /\ next[c] # NullPtr => idxS'[t] = s /\ pc'[t] = "walk"
  BY <1>b, <1>2 DEF IInv, TypeOK
<1>7. /\ \A u \in Threads : u # t => out'[u] = out[u]
      /\ \A i \in RIdx, j \in SIdx :
           out'[t][i][j] = IF j = s THEN out[t][i][j] + Hits(c, i, s) ELSE out[t][i][j]
  <2>1. out \in [Threads -> [RIdx -> [SIdx -> Nat]]]
    BY DEF IInv, TypeOK
  <2>2. out'[t] = Search(out[t], c, s)
    BY <1>2, <2>1
  <2>3. ASSUME NEW i \in RIdx, NEW j \in SIdx
        PROVE  out'[t][i][j] = IF j = s THEN out[t][i][j] + Hits(c, i, s) ELSE out[t][i][j]
    BY <1>3, <2>1, <2>2 DEF Search
  <2> QED
    BY <1>2, <2>1, <2>3
<1>8. Chained(home, pos)'
  BY <1>1, <1>2 DEF Chained
<1>9. ASSUME NEW i \in RIdx
      PROVE  out'[t][i][s] = IF Counted(pos, t, i, s)' THEN 1 ELSE 0
  <2>1. out[t][i][s] = IF Matching(i, s) /\ Passed(pos, t, i) THEN 1 ELSE 0
    <3>1. Counted(pos, t, i, s) <=> Matching(i, s) /\ Passed(pos, t, i)
      BY <1>b, <1>2, <1>3 DEF Counted
    <3> QED
      BY <1>1, <1>3, <3>1 DEF Walks
  <2>2. CASE ~ Matching(i, s)
    BY <1>3, <1>7, <2>1, <2>2 DEF Hits, Counted
  <2>3. CASE Matching(i, s)
    <3>1. PICK q \in Buckets, k \in Slots :
            /\ tuples[q][k] = i /\ k < count[q] /\ Live(q) /\ home[q] = HASH(KeyR[i])
            /\ \A p \in Buckets, l \in Slots : tuples[p][l] = i => p = q
      BY <1>1, <1>2, TheSlot
    <3>2. home[q] = home[c] /\ pos[q] \in Nat /\ pos[c] \in Nat
      BY <1>3, <1>4, <1>5, <2>3, <3>1 DEF Matching
    <3>3. Hits(c, i, s) = IF q = c THEN 1 ELSE 0
      BY <1>3, <2>3, <3>1 DEF Hits
    <3>4. Passed(pos, t, i) <=> pos[q] < pos[c]
      BY <1>a, <3>1 DEF Passed
    <3>5. pos[q] = pos[c] <=> q = c
      BY <1>1, <1>3, <1>4, <3>1, <3>2, PlaceUnique
    <3>6. out'[t][i][s] = IF pos[q] <= pos[c] THEN 1 ELSE 0
      BY <1>3, <1>7, <2>1, <2>3, <3>2, <3>3, <3>4, <3>5
    <3>7. CASE next[c] # NullPtr
      <4>1. Passed(pos, t, i)' <=> pos[q] < pos[c] + 1
        BY <1>2, <1>5, <1>6, <3>1, <3>7 DEF Passed
      <4>2. Counted(pos, t, i, s)' <=> pos[q] <= pos[c]
        BY <1>3, <1>6, <2>3, <3>2, <3>7, <4>1 DEF Counted
      <4> QED
        BY <3>6, <4>2
    <3>8. CASE next[c] = NullPtr
      <4>1. pos[q] <= pos[c]
        BY <1>1, <1>3, <1>4, <3>1, <3>2, <3>8, LastPlace
      <4>2. Counted(pos, t, i, s)'
        BY <1>3, <1>6, <2>3, <3>8 DEF Counted
      <4> QED
        BY <3>6, <4>1, <4>2
    <3> QED
      BY <3>7, <3>8
  <2> QED
    BY <2>2, <2>3
<1>10. ASSUME NEW i \in RIdx, NEW j \in SIdx, j # s
       PROVE  Counted(pos, t, i, j)' <=> Counted(pos, t, i, j)
  <2>1. j \in Nat
    BY Sizes DEF SIdx
  <2> QED
    BY <1>b, <1>3, <1>6, <1>10, <2>1 DEF Counted
<1>11. ASSUME NEW u \in Threads, u # t, NEW i \in RIdx, NEW j \in SIdx
       PROVE  Counted(pos, u, i, j)' <=> Counted(pos, u, i, j)
  BY <1>2, <1>6, <1>11 DEF Counted, Passed
<1>12. Walks(home, pos)'
  <2>1. ASSUME NEW u \in Threads, pc'[u] = "walk"
        PROVE  Live(b[u])' /\ home[b'[u]] = HASH(KeyS[idxS'[u]])
    <3>1. CASE u = t
      <4>1. next[c] # NullPtr /\ b'[t] = next[c] /\ idxS'[t] = s
        BY <1>6, <2>1, <3>1
      <4>2. Allocated(next[c])
        BY <1>3, <4>1 DEF IInv, ChainInv
      <4>3. Live(b[t])'
        BY <1>2, <4>1, <4>2 DEF Live, Allocated
      <4> QED
        BY <1>4, <1>5, <3>1, <4>1, <4>3
    <3>2. CASE u # t
      BY <1>1, <1>2, <1>6, <2>1, <3>2 DEF Walks, Live, Allocated
    <3> QED
      BY <3>1, <3>2
  <2>2. ASSUME NEW u \in Threads, pc'[u] \in Probed PROVE idxS'[u] = ShareEnd(numS, u)
    BY <1>1, <1>6, <2>2 DEF Walks, Probed, Freed
  <2>3. ASSUME NEW u \in Threads, NEW i \in RIdx, NEW j \in SIdx
        PROVE  out'[u][i][j] = IF Counted(pos, u, i, j)' THEN 1 ELSE 0
    BY <1>1, <1>7, <1>9, <1>10, <1>11 DEF Walks
  <2> QED
    BY <2>1, <2>2, <2>3 DEF Walks
<1> QED
  BY <1>8, <1>12 DEF ProbeInv

LEMMA ProbeStep == IInv /\ ProbeInv /\ [Next]_vars => ProbeInv'
<1> SUFFICES ASSUME IInv, ProbeInv, [Next]_vars PROVE ProbeInv'
  OBVIOUS
<1>1. CASE UNCHANGED vars
  BY <1>1 DEF vars, ProbeInv, Chained, Walks, Live, Allocated, Counted, Passed
<1>2. ASSUME NEW t \in Threads, Arrive(t) \/ Start(t) \/ BuildDone(t) \/ StartProbe(t) \/ ProbeDone(t)
      PROVE  ProbeInv'
  <2>1. /\ pc' = [pc EXCEPT ![t] = pc'[t]] /\ pc[t] # "walk" /\ pc'[t] # "walk"
        /\ pc'[t] \in Probed => idxS[t] = ShareEnd(numS, t)
        /\ UNCHANGED <<idxS, b, out>> /\ UNCHANGED table
    BY <1>2 DEF Arrive, Start, BuildDone, StartProbe, ProbeDone, CrossBarrier, Goto, IInv, TypeOK,
                Probed, Freed
  <2> QED
    BY <2>1, ProbeKept DEF table
<1>3. ASSUME NEW t \in Threads, Lock(t) \/ Unlock(t) PROVE ProbeInv'
  <2>1. /\ pc' = [pc EXCEPT ![t] = pc'[t]] /\ pc[t] # "walk" /\ pc'[t] # "walk"
        /\ pc'[t] \notin Probed
        /\ UNCHANGED <<next, nalloc, tuples, b, idxS, out>>
    BY <1>3 DEF Lock, Unlock, Goto, IInv, TypeOK, Probed, Freed
  <2> QED
    BY <2>1, ProbeKept
<1>4. ASSUME NEW t \in Threads, Free(t) PROVE ProbeInv'
  <2>1. pc[t] = "probed" /\ pc' = [pc EXCEPT ![t] = "exited"]
    BY <1>4 DEF Free, CrossBarrier, Goto
  <2>2. idxS[t] = ShareEnd(numS, t)
    BY <2>1 DEF ProbeInv, Walks, Probed
  <2>3. UNCHANGED <<idxS, b, out>> /\ UNCHANGED table
    BY <1>4 DEF Free
  <2>4. pc'[t] = "exited"
    BY <2>1 DEF IInv, TypeOK
  <2> QED
    BY <2>1, <2>2, <2>3, <2>4, ProbeKept DEF table
<1>5. ASSUME NEW t \in Threads, Link(t) PROVE ProbeInv'
  <2>1. CASE NewBucket(t, HeadPtr(Home(t)))
    BY <1>5, <2>1, LinkProbe
  <2>2. CASE ~ NewBucket(t, HeadPtr(Home(t)))
    <3>1. UNCHANGED <<next, nalloc>>
      BY <1>5, <2>2 DEF Link, Fill
    <3>2. /\ pc' = [pc EXCEPT ![t] = pc'[t]] /\ pc[t] # "walk" /\ pc'[t] # "walk"
          /\ pc'[t] \notin Probed
          /\ UNCHANGED <<tuples, b, idxS, out>>
      BY <1>5 DEF Link, Goto, IInv, TypeOK, Probed, Freed
    <3> QED
      BY <3>1, <3>2, ProbeKept
  <2> QED
    BY <2>1, <2>2
<1>6. CASE \E t \in Threads : ThreadStep(t)
  BY <1>2, <1>3, <1>4, <1>5, <1>6, StoreProbe, ProbeProbe, WalkProbe DEF ThreadStep
<1> QED
  BY <1>1, <1>6 DEF Next, Terminated

(* Every bucket of the table has its place in the chain its tuples hash to, *)
(* and a thread has counted exactly the matches of the buckets its probes   *)
(* have passed (probe_hashtable_single).                                    *)
THEOREM NPOProbe == SafeSpec => []ProbeInv
  BY NPOInvariant, ProbeInit, ProbeStep, PTL DEF SafeSpec

LEMMA NPOCountedOnce == IInv /\ ProbeInv => CountedOnce(out)
<1> SUFFICES ASSUME IInv, ProbeInv, NEW t \in Threads, NEW i \in RIdx, NEW j \in SIdx,
                    out[t][i][j] > 0
             PROVE  /\ Matching(i, j) /\ out[t][i][j] = 1
                    /\ \A u \in Threads \ {t} : out[u][i][j] = 0
  BY DEF CountedOnce
<1>1. PICK home, pos : Walks(home, pos)
  BY DEF ProbeInv
<1>2. ASSUME NEW u \in Threads, Counted(pos, u, i, j)
      PROVE  ShareBegin(numS, u) <= j /\ j < ShareEnd(numS, u)
  <2>1. j \in Nat /\ idxS[u] \in Nat /\ idxS[u] <= ShareEnd(numS, u) /\ ShareEnd(numS, u) \in Nat
    BY ShareType, Sizes DEF IInv, TypeOK, SIdx
  <2>2. pc[u] = "walk" => idxS[u] < ShareEnd(numS, u)
    BY DEF IInv, PhaseInv
  <2> QED
    BY <1>2, <2>1, <2>2 DEF Counted
<1>3. Counted(pos, t, i, j) /\ out[t][i][j] = 1
  BY <1>1 DEF Walks
<1>4. ASSUME NEW u \in Threads \ {t} PROVE ~ Counted(pos, u, i, j)
  <2>1. j \in Nat
    BY Sizes DEF SIdx
  <2> QED
    BY <1>2, <1>3, <2>1, ShareUnique, Sizes
<1> QED
  BY <1>1, <1>3, <1>4 DEF Walks, Counted

LEMMA NPOCountedAll == IInv /\ ProbeInv /\ AllExited => CountedAll(out)
<1> SUFFICES ASSUME IInv, ProbeInv, AllExited, NEW i \in RIdx, NEW j \in SIdx, Matching(i, j)
             PROVE  \E t \in Threads : out[t][i][j] = 1
  BY DEF CountedAll
<1>1. PICK home, pos : Walks(home, pos)
  BY DEF ProbeInv
<1>2. j \in Nat /\ j < numS
  BY Sizes DEF SIdx
<1>3. PICK t \in Threads : ShareBegin(numS, t) <= j /\ j < ShareEnd(numS, t)
  BY <1>2, ShareExists, Sizes
<1>4. idxS[t] = ShareEnd(numS, t)
  BY <1>1 DEF Walks, AllExited, Probed, Freed
<1> QED
  BY <1>1, <1>3, <1>4 DEF Walks, Counted

------------------------------------------------------------------------------
(* The refinement of JoinSpec, step by step. *)
LEMMA CountersGrow ==
  ASSUME IInv, [Next]_vars, NEW t \in Threads, NEW i \in RIdx, NEW j \in SIdx
  PROVE  out'[t][i][j] >= out[t][i][j]
<1>1. out \in [Threads -> [RIdx -> [SIdx -> Nat]]] /\ out[t][i][j] \in Nat
  BY DEF IInv, TypeOK
<1>2. CASE UNCHANGED out
  BY <1>1, <1>2
<1>3. ASSUME NEW u \in Threads, Walk(u) PROVE out'[t][i][j] >= out[t][i][j]
  <2>1. out' = [out EXCEPT ![u] = Search(@, b[u], idxS[u])]
    BY <1>3 DEF Walk
  <2>2. Hits(b[u], i, idxS[u]) \in Nat
    BY DEF Hits
  <2>3. Search(out[u], b[u], idxS[u])[i][j] >= out[u][i][j]
    BY <1>1, <2>2 DEF Search
  <2> QED
    BY <1>1, <2>1, <2>3
<1>4. ASSUME NEW u \in Threads, ThreadStep(u), ~ Walk(u) PROVE UNCHANGED out
  BY <1>4 DEF ThreadStep, Arrive, Start, Lock, Link, Store, Unlock, BuildDone, StartProbe, Probe,
              ProbeDone, Free
<1> QED
  BY <1>2, <1>3, <1>4 DEF Next, Terminated, vars

(* No step of a thread that has exited, and the last to exit counts nothing. *)
LEMMA ExitSteps ==
  ASSUME IInv, [Next]_vars
  PROVE  /\ AllExited => AllExited' /\ UNCHANGED out
         /\ ~AllExited /\ AllExited' => UNCHANGED out
<1>0. pc \in [Threads -> PCs]
  BY DEF IInv, TypeOK
<1>1. ASSUME NEW t \in Threads, ThreadStep(t)
      PROVE  pc[t] # "exited" /\ (UNCHANGED out \/ pc'[t] # "exited")
  <2>1. CASE Walk(t)
    BY <1>0, <2>1 DEF Walk, Goto
  <2>2. CASE ~ Walk(t)
    BY <1>1, <2>2 DEF ThreadStep, Arrive, Start, Lock, Link, Store, Unlock, BuildDone, StartProbe,
                      Probe, ProbeDone, Free, CrossBarrier
  <2> QED
    BY <2>1, <2>2
<1>2. CASE UNCHANGED vars
  BY <1>2 DEF AllExited, vars
<1>3. CASE \E t \in Threads : ThreadStep(t)
  BY <1>1, <1>3 DEF AllExited
<1> QED
  BY <1>2, <1>3 DEF Next, Terminated

LEMMA JoinStep ==
  ASSUME IInv, IInv', ProbeInv, ProbeInv', [Next]_vars
  PROVE  [J!JoinNext]_J!joinVars
<1>1. Counting(out) /\ Counting(out')
  BY DEF IInv, TypeOK, Counting
<1>2. CountedOnce(out)
  BY NPOCountedOnce
<1>3. CountedOnce(out')
  <2>1. (IInv /\ ProbeInv => CountedOnce(out))'
    BY NPOCountedOnce, PTL
  <2> QED
    BY <2>1 DEF CountedOnce
<1>4. /\ AllExited => AllExited' /\ UNCHANGED out
      /\ ~AllExited /\ AllExited' => UNCHANGED out
  BY ExitSteps
<1>5. CASE AllExited
  <2>1. UNCHANGED out /\ AllExited /\ AllExited'
    BY <1>4, <1>5
  <2> QED
    BY <2>1 DEF J!joinVars, AllExited
<1>6. CASE ~AllExited /\ AllExited'
  <2>1. UNCHANGED out
    BY <1>4, <1>6
  <2>2. (IInv /\ ProbeInv /\ AllExited => CountedAll(out))'
    BY NPOCountedAll, PTL
  <2>3. CountedAll(out)
    BY <1>6, <2>1, <2>2 DEF CountedAll
  <2>4. \A p \in Equal : Produced(out)[p] = 1
    BY <1>1, <1>2, <2>3, ProducedAll
  <2>5. J!Complete
    BY <1>6, <2>1, <2>4 DEF J!Complete
  <2> QED
    BY <2>5 DEF J!JoinNext
<1>7. CASE ~AllExited /\ ~AllExited'
  <2>1. \A t \in Threads, i \in RIdx, j \in SIdx : out[t][i][j] = 1 => out'[t][i][j] = 1
    <3> SUFFICES ASSUME NEW t \in Threads, NEW i \in RIdx, NEW j \in SIdx, out[t][i][j] = 1
                 PROVE  out'[t][i][j] = 1
      OBVIOUS
    <3>1. out'[t][i][j] >= 1 /\ out'[t][i][j] \in Nat
      BY <1>1, CountersGrow DEF Counting
    <3>2. out'[t][i][j] > 0
      BY <3>1
    <3> QED
      BY <3>2, <1>3 DEF CountedOnce
  <2>2. Grown(Produced(out), Produced(out'))
    BY <1>1, <1>2, <1>3, <2>1, ProducedGrows
  <2>3. J!Produce
    <3>1. Produced(out)' = Produced(out')
      BY DEF Produced
    <3>2. AllExited' = AllExited
      BY <1>7 DEF AllExited
    <3> QED
      BY <1>7, <2>2, <3>1, <3>2 DEF J!Produce, Grown
  <2> QED
    BY <2>3 DEF J!JoinNext
<1> QED
  BY <1>5, <1>6, <1>7

(* NPO implements the join: whatever the insertions into the shared table   *)
(* interleave to, the probes find every equal-key pair once and no other,   *)
(* for any number of threads, tuples and keys and any bucket size.          *)
THEOREM NPOImplements == SafeSpec => ImplementsJoin
<1>1. Init => J!JoinInit
  <2> SUFFICES ASSUME Init PROVE J!JoinInit
    OBVIOUS
  <2>1. Counting(out) /\ \A t \in Threads, i \in RIdx, j \in SIdx : out[t][i][j] = 0
    BY DEF Init, Counting
  <2>2. ~AllExited
    <3>1. 0 \in Threads
      BY Sizes DEF Threads
    <3>2. pc[0] # "exited"
      BY <3>1 DEF Init
    <3> QED
      BY <3>1, <3>2 DEF AllExited
  <2> QED
    BY <2>1, <2>2, ProducedNone DEF J!JoinInit
<1>2. IInv /\ IInv' /\ ProbeInv /\ ProbeInv' /\ [Next]_vars => [J!JoinNext]_J!joinVars
  BY JoinStep
<1> QED
  BY <1>1, <1>2, NPOInvariant, NPOProbe, PTL DEF SafeSpec, ImplementsJoin, J!JoinSafety
==============================================================================
