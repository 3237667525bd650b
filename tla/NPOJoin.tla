------------------------------- MODULE NPOJoin -------------------------------
(***************************************************************************)
(* npo_thread (hashing/joins/no_partitioning_join.cpp): the lazy join       *)
(* without partitioning.  All threads insert their share of R into one      *)
(* chained hash table, each head bucket under its own latch                 *)
(* (build_hashtable_mt), and after a barrier probe it with their share of S *)
(* (probe_hashtable).  Overflow buckets come from a buffer of the inserting *)
(* thread, which frees that buffer when it is done.                         *)
(***************************************************************************)
EXTENDS JoinBase

CONSTANTS BUCKET_SIZE,   (* tuples in a bucket                              *)
          JoinBarrier    (* the build has a barrier after the probe: it was *)
                         (* made with PERF_COUNTERS or without NO_TIMING    *)

NoTuple == -1

(* NEXT_POW_2 of a number of buckets that is not 0 *)
NEXT_POW_2(v) == CHOOSE p \in {2 ^ k : k \in 0 .. 30} : p \div 2 < v /\ v <= p

num_buckets == NEXT_POW_2(numR \div BUCKET_SIZE)

HeadIdx == 0 .. num_buckets - 1
Slots   == 0 .. BUCKET_SIZE - 1

(* With fewer than BUCKET_SIZE tuples in R the table would have no bucket.  *)
ASSUME TableAssumption ==
  /\ BUCKET_SIZE \in Nat \ {0}
  /\ numR >= BUCKET_SIZE
  /\ num_buckets \in Nat \ {0}
  /\ JoinBarrier \in BOOLEAN

(* Pointers to buckets: the heads, and the n-th bucket of a thread's buffer *)
HeadPtr(h)  == <<-1, h>>
NullPtr  == <<-1, -1>>
Buckets  == {-1} \X HeadIdx \cup Threads \X RIdx

HASH(key) == key % num_buckets

VARIABLES pc,
          idxR, idxS,           (* the loop index of the build, the probe   *)
          latch,                (* who holds the latch of a head bucket     *)
          count, tuples, next,  (* the fields of the buckets                *)
          nalloc,               (* overflow buckets each thread has taken   *)
          nxt, destB, destK,    (* locals of build_hashtable_mt: dest is a *)
                                (* bucket and a slot of it                  *)
          b,                    (* local of probe_hashtable_single          *)
          freed,                (* threads that have freed their buffer     *)
          out                   (* out[t][i][j]: times t counted (i, j)     *)

table == <<latch, count, tuples, next, nalloc, nxt, destB, destK>>
vars  == <<pc, idxR, idxS, latch, count, tuples, next, nalloc, nxt, destB, destK, b, freed, out>>

NoLatch == -1

Init == /\ pc = [t \in Threads |-> "launched"]
        /\ idxR = [t \in Threads |-> ShareBegin(numR, t)]
        /\ idxS = [t \in Threads |-> ShareBegin(numS, t)]
        /\ latch = [h \in HeadIdx |-> NoLatch]
        /\ count = [p \in Buckets |-> 0]
        /\ tuples = [p \in Buckets |-> [k \in Slots |-> NoTuple]]
        /\ next = [p \in Buckets |-> NullPtr]
        /\ nalloc = [t \in Threads |-> 0]
        /\ nxt = [t \in Threads |-> NullPtr]
        /\ destB = [t \in Threads |-> NullPtr] /\ destK = [t \in Threads |-> 0]
        /\ b = [t \in Threads |-> NullPtr]
        /\ freed = {}
        /\ out = [t \in Threads |-> [i \in RIdx |-> [j \in SIdx |-> 0]]]

------------------------------------------------------------------------------
(* Barriers, by the pcs of those that have come to them. *)
Freed   == {"exited"}
Probed  == {"probed"} \cup Freed
Built   == {"built", "probe", "walk"} \cup Probed
Locked  == {"link", "store", "unlock"}
Started == {"atStart", "build"} \cup Locked \cup Built

Goto(t, l) == pc' = [pc EXCEPT ![t] = l]

CrossBarrier(t, from, team, to) == /\ pc[t] = from
                                   /\ \A u \in Threads : pc[u] \in team
                                   /\ Goto(t, to)

Arrive(t) == /\ pc[t] = "launched"
             /\ Goto(t, "atStart")
             /\ UNCHANGED <<idxR, idxS, b, freed, out>> /\ UNCHANGED table

Start(t) == /\ CrossBarrier(t, "atStart", Started, "build")
            /\ UNCHANGED <<idxR, idxS, b, freed, out>> /\ UNCHANGED table

------------------------------------------------------------------------------
(* build_hashtable_mt, one tuple *)
Home(t) == HASH(KeyR[idxR[t]])

(* slip: the latch is not taken *)
LockSkipped(t) == /\ pc[t] = "build"
                  /\ idxR[t] < ShareEnd(numR, t)
                  /\ nxt' = [nxt EXCEPT ![t] = next[HeadPtr(Home(t))]]
                  /\ Goto(t, "link")
                  /\ UNCHANGED <<idxR, idxS, latch, count, tuples, next, nalloc, destB, destK, b, freed, out>>

(* lock(&curr->latch); nxt = curr->next *)
Lock(t) == /\ pc[t] = "build"
           /\ idxR[t] < ShareEnd(numR, t)
           /\ latch[Home(t)] = NoLatch
           /\ latch' = [latch EXCEPT ![Home(t)] = t]
           /\ nxt' = [nxt EXCEPT ![t] = next[HeadPtr(Home(t))]]
           /\ Goto(t, "link")
           /\ UNCHANGED <<idxR, idxS, count, tuples, next, nalloc, destB, destK, b, freed, out>>

(* There is room in the bucket p. *)
Fill(t, p) == /\ destB' = [destB EXCEPT ![t] = p] /\ destK' = [destK EXCEPT ![t] = count[p]]
                /\ count' = [count EXCEPT ![p] = @ + 1]
                /\ UNCHANGED <<next, nalloc>>

(* slip: the count of the new bucket is not set *)
NewBucketUncounted(t, curr) ==
  LET new == <<t, nalloc[t]>> IN
    /\ destB' = [destB EXCEPT ![t] = new] /\ destK' = [destK EXCEPT ![t] = 0]
    /\ next' = [next EXCEPT ![curr] = new, ![new] = nxt[t]]
    /\ nalloc' = [nalloc EXCEPT ![t] = @ + 1]
    /\ UNCHANGED count

(* get_new_bucket, linked in behind the head *)
NewBucket(t, curr) ==
  LET new == <<t, nalloc[t]>> IN
    /\ destB' = [destB EXCEPT ![t] = new] /\ destK' = [destK EXCEPT ![t] = 0]
    /\ count' = [count EXCEPT ![new] = 1]
    /\ next' = [next EXCEPT ![curr] = new, ![new] = nxt[t]]
    /\ nalloc' = [nalloc EXCEPT ![t] = @ + 1]

Link(t) == /\ pc[t] = "link"
           /\ LET curr == HeadPtr(Home(t)) IN
                IF count[curr] < BUCKET_SIZE
                THEN Fill(t, curr)
                ELSE IF nxt[t] # NullPtr /\ count[nxt[t]] < BUCKET_SIZE
                     THEN Fill(t, nxt[t])
                     ELSE NewBucket(t, curr)
           /\ Goto(t, "store")
           /\ UNCHANGED <<idxR, idxS, latch, tuples, nxt, b, freed, out>>

(* *dest = rel->tuples[i] *)
Store(t) == /\ pc[t] = "store"
            /\ tuples' = [tuples EXCEPT ![destB[t]][destK[t]] = idxR[t]]
            /\ Goto(t, "unlock")
            /\ UNCHANGED <<idxR, idxS, latch, count, next, nalloc, nxt, destB, destK, b, freed, out>>

(* slip: the latch is not released *)
UnlockForgotten(t) == /\ pc[t] = "unlock"
                      /\ idxR' = [idxR EXCEPT ![t] = @ + 1]
                      /\ Goto(t, "build")
                      /\ UNCHANGED <<idxS, latch, count, tuples, next, nalloc, nxt, destB, destK, b, freed, out>>

Unlock(t) == /\ pc[t] = "unlock"
             /\ latch' = [latch EXCEPT ![Home(t)] = NoLatch]
             /\ idxR' = [idxR EXCEPT ![t] = @ + 1]
             /\ Goto(t, "build")
             /\ UNCHANGED <<idxS, count, tuples, next, nalloc, nxt, destB, destK, b, freed, out>>

BuildDone(t) == /\ pc[t] = "build"
                /\ idxR[t] = ShareEnd(numR, t)
                /\ Goto(t, "built")
                /\ UNCHANGED <<idxR, idxS, b, freed, out>> /\ UNCHANGED table

------------------------------------------------------------------------------
(* slip: the barrier between build and probe is left out *)
StartProbeEarly(t) == /\ pc[t] = "built"
                      /\ Goto(t, "probe")
                      /\ UNCHANGED <<idxR, idxS, b, freed, out>> /\ UNCHANGED table

StartProbe(t) == /\ CrossBarrier(t, "built", Built, "probe")
                 /\ UNCHANGED <<idxR, idxS, b, freed, out>> /\ UNCHANGED table

(* probe_hashtable_single, the bucket of the tuple's hash *)
Probe(t) == /\ pc[t] = "probe"
            /\ idxS[t] < ShareEnd(numS, t)
            /\ b' = [b EXCEPT ![t] = HeadPtr(HASH(KeyS[idxS[t]]))]
            /\ Goto(t, "walk")
            /\ UNCHANGED <<idxR, idxS, freed, out>> /\ UNCHANGED table

(* One bucket is searched and its overflow pointer followed.  (A step into  *)
(* a freed bucket is undefined; NoUseAfterFree is about it.)                *)
Hits(p, i, j) == IF \E k \in Slots : k < count[p] /\ tuples[p][k] = i
                 THEN IF Matching(i, j) THEN 1 ELSE 0
                 ELSE 0

Search(o, p, j) == [i \in RIdx |-> [o[i] EXCEPT ![j] = @ + Hits(p, i, j)]]

Walk(t) == /\ pc[t] = "walk"
           /\ out' = [out EXCEPT ![t] = Search(@, b[t], idxS[t])]
           /\ b' = [b EXCEPT ![t] = next[@]]
           /\ IF next[b[t]] = NullPtr
              THEN /\ idxS' = [idxS EXCEPT ![t] = @ + 1]
                   /\ Goto(t, "probe")
              ELSE UNCHANGED <<idxS, pc>>
           /\ UNCHANGED <<idxR, freed>> /\ UNCHANGED table

ProbeDone(t) == /\ pc[t] = "probe"
                /\ idxS[t] = ShareEnd(numS, t)
                /\ Goto(t, "probed")
                /\ UNCHANGED <<idxR, idxS, b, freed, out>> /\ UNCHANGED table

(* slip: the buffer is freed before the barrier *)
FreeEarly(t) == /\ pc[t] = "probed"
                /\ Goto(t, "exited")
                /\ freed' = freed \cup {t}
                /\ UNCHANGED <<idxR, idxS, b, out>> /\ UNCHANGED table

(* The barrier at the end of the join, if the build has one, and then       *)
(* free_bucket_buffer.                                                      *)
Free(t) == /\ IF JoinBarrier THEN CrossBarrier(t, "probed", Probed, "exited")
                             ELSE pc[t] = "probed" /\ Goto(t, "exited")
           /\ freed' = freed \cup {t}
           /\ UNCHANGED <<idxR, idxS, b, out>> /\ UNCHANGED table

AllExited == \A t \in Threads : pc[t] = "exited"
Terminated == AllExited /\ UNCHANGED vars

ThreadStep(t) == \/ Arrive(t) \/ Start(t) \/ Lock(t) \/ Link(t) \/ Store(t) \/ Unlock(t)
                 \/ BuildDone(t) \/ StartProbe(t) \/ Probe(t) \/ Walk(t) \/ ProbeDone(t)
                 \/ Free(t)

Next == (\E t \in Threads : ThreadStep(t)) \/ Terminated

(* Every thread has its core.  A spinning thread gets a latch that becomes  *)
(* free again and again: each insertion is one of finitely many, so weak    *)
(* fairness is enough.                                                      *)
Fairness == \A t \in Threads : WF_vars(ThreadStep(t))

SafeSpec == Init /\ [][Next]_vars
Spec == SafeSpec /\ Fairness

------------------------------------------------------------------------------
PCs == {"launched"} \cup Started

TypeOK ==
  /\ pc \in [Threads -> PCs]
  /\ idxR \in [Threads -> Nat] /\ idxS \in [Threads -> Nat]
  /\ \A t \in Threads : /\ ShareBegin(numR, t) <= idxR[t] /\ idxR[t] <= ShareEnd(numR, t)
                        /\ ShareBegin(numS, t) <= idxS[t] /\ idxS[t] <= ShareEnd(numS, t)
  /\ latch \in [HeadIdx -> Threads \cup {NoLatch}]
  /\ count \in [Buckets -> 0 .. BUCKET_SIZE]
  /\ tuples \in [Buckets -> [Slots -> RIdx \cup {NoTuple}]]
  /\ next \in [Buckets -> Buckets \cup {NullPtr}]
  /\ nalloc \in [Threads -> Nat]
  /\ nxt \in [Threads -> Buckets \cup {NullPtr}]
  /\ destB \in [Threads -> Buckets \cup {NullPtr}] /\ destK \in [Threads -> Nat]
  /\ b \in [Threads -> Buckets \cup {NullPtr}]
  /\ freed \subseteq Threads
  /\ out \in [Threads -> [RIdx -> [SIdx -> Nat]]]

(* A thread between lock and unlock holds the latch of the bucket its tuple *)
(* hashes to, and still has the head of that chain's overflow in nxt.       *)
LatchInv ==
  /\ \A t \in Threads : pc[t] \in Locked =>
       idxR[t] < ShareEnd(numR, t) /\ latch[Home(t)] = t
  /\ \A h \in HeadIdx : latch[h] # NoLatch => pc[latch[h]] \in Locked /\ Home(latch[h]) = h
  /\ \A t \in Threads : pc[t] = "link" => nxt[t] = next[HeadPtr(Home(t))]

(* The chains: an overflow bucket that was taken from a buffer is the       *)
(* successor of one bucket, never of two, so none is orphaned or shared.    *)
Allocated(p) == p[1] \in Threads /\ p[2] < nalloc[p[1]]

ChainInv ==
  /\ \A t \in Threads : nalloc[t] <= idxR[t] + IF pc[t] \in {"store", "unlock"} THEN 1 ELSE 0
  /\ \A p \in Buckets : next[p] # NullPtr => Allocated(next[p])
  /\ \A p, q \in Buckets : next[p] = next[q] => p = q \/ next[p] = NullPtr
  /\ \A p \in Buckets : Allocated(p) => \E q \in Buckets : next[q] = p
  /\ \A p \in Buckets : p[1] \in Threads /\ ~ Allocated(p) => next[p] = NullPtr /\ count[p] = 0

(* Where a thread that is about to store writes: a fresh slot of the head   *)
(* bucket it has latched or of the overflow bucket behind it.               *)
DestInv ==
  \A t \in Threads : pc[t] = "store" =>
    /\ destB[t] = HeadPtr(Home(t)) \/ destB[t] = next[HeadPtr(Home(t))]
    /\ destB[t] \in Buckets
    /\ destK[t] < count[destB[t]]
    /\ tuples[destB[t]][destK[t]] = NoTuple

(* The tuples a thread has put into the table, each in one slot. *)
Inserted(t, i) == /\ ShareBegin(numR, t) <= i /\ i < ShareEnd(numR, t)
                  /\ i < idxR[t] \/ (i = idxR[t] /\ pc[t] = "unlock")

SlotInv ==
  /\ \A p \in Buckets, k \in Slots : count[p] <= k => tuples[p][k] = NoTuple
  /\ \A p \in Buckets, k \in Slots, i \in RIdx :
       tuples[p][k] = i => \E t \in Threads : Inserted(t, i)
  /\ \A p, q \in Buckets, k, l \in Slots :
       tuples[p][k] = tuples[q][l] => (p = q /\ k = l) \/ tuples[p][k] = NoTuple
  /\ \A t \in Threads, i \in RIdx :
       Inserted(t, i) => \E p \in Buckets, k \in Slots : tuples[p][k] = i

PhaseInv ==
  \A t \in Threads :
    /\ pc[t] \in Built => idxR[t] = ShareEnd(numR, t)
    /\ pc[t] \in Built \ {"built"} => \A u \in Threads : pc[u] \in Built
    /\ t \in freed <=> pc[t] = "exited"
    /\ JoinBarrier /\ pc[t] = "exited" => \A u \in Threads : pc[u] \in Probed
    /\ pc[t] = "walk" => b[t] \in Buckets /\ idxS[t] < ShareEnd(numS, t)

(* The table while it is built and probed: latches, chains and slots        *)
(* (build_hashtable_mt), and the phases of npo_thread.                      *)
IInv == TypeOK /\ LatchInv /\ ChainInv /\ DestInv /\ SlotInv /\ PhaseInv

------------------------------------------------------------------------------
(* Once the threads probe, every tuple of R is in one slot of the table:    *)
(* no insertion has overwritten another's (build_hashtable_mt).             *)
NothingOverwritten ==
  (\E t \in Threads : pc[t] \in Built \ {"built"}) =>
    \A i \in RIdx :
      \E p \in Buckets, k \in Slots :
        /\ k < count[p] /\ tuples[p][k] = i
        /\ \A q \in Buckets, l \in Slots : tuples[q][l] = i => q = p /\ l = k

(* "wait at a barrier until each thread completes join phase" (npo_thread)  *)
(* before "clean-up the overflow buffers": no thread follows a pointer into *)
(* a buffer its owner has freed.                                            *)
NoUseAfterFree == \A t \in Threads : pc[t] = "walk" => b[t][1] \notin freed

J == INSTANCE JoinSpec WITH produced <- Produced(out), done <- AllExited

(* NPO implements the join: whatever the threads' insertions into a chain   *)
(* interleave to, each probe finds every equal key once (npo_thread).       *)
ImplementsJoin == J!JoinSafety

(* Every thread gets through the latches and the barriers of npo_thread. *)
Terminates == <>AllExited
==============================================================================
