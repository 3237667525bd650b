--------------------------- MODULE TaskQueueProofs ---------------------------
(***************************************************************************)
(* What the threads of the radix join work together with.  The task queue   *)
(* hands out private slots and is a stack, for every number of threads,     *)
(* tasks and slots of a block.  barrier_wait, where they meet between two   *)
(* queues, is a barrier for every finite team.                              *)
(***************************************************************************)
EXTENDS TaskQueue, BarrierWait,
        TLAPS, FiniteSetTheorems, SequenceTheorems, WellFoundedInduction

------------------------------------------------------------------------------
(* Natural numbers *)

LEMMA LeastElement ==
  ASSUME NEW T \in SUBSET Nat, T # {}
  PROVE  \E m \in T : \A k \in T : m <= k
<1> DEFINE L == OpToRel(<, Nat)
<1>1. IsWellFoundedOn(L, Nat)
  BY NatLessThanWellFounded
<1>2. \A y, x \in Nat : <<y, x>> \in L <=> y < x
  BY DEF OpToRel
<1> HIDE DEF L
<1>3. PICK x \in T : \A y \in T : ~(<<y, x>> \in L)
  BY <1>1, WFMin
<1>4. \A k \in T : ~(k < x)
  BY <1>2, <1>3
<1> QED
  BY <1>4

(* A set with 0 that is closed under successor has every natural number. *)
LEMMA SetInduction ==
  ASSUME NEW T, 0 \in T, \A n \in Nat : n \in T => n + 1 \in T
  PROVE  Nat \subseteq T
<1> SUFFICES ASSUME Nat \ T # {} PROVE FALSE
  OBVIOUS
<1>1. PICK m \in Nat \ T : \A k \in Nat \ T : m <= k
  BY LeastElement
<1>2. m # 0 /\ m - 1 \in Nat /\ m - 1 \in T
  BY <1>1
<1> QED
  BY <1>2

(* A product of naturals is natural and grows with its factors. *)
LEMMA MulMono == ASSUME NEW a \in Nat, NEW b \in Nat, NEW c \in Nat, b <= c
                 PROVE  a * b <= a * c /\ a * b \in Nat
<1>1. c - b \in Nat /\ a * (c - b) \in Nat
  OBVIOUS
<1>2. a * c = a * b + a * (c - b)
  OBVIOUS
<1> QED
  BY <1>1, <1>2
------------------------------------------------------------------------------
(* The linked list *)

(* f is the recursive function of Chain; w is a list that starts at h and   *)
(* follows nx.                                                              *)
Follows(f, h, nx, c) == f = [n \in 0 .. c |-> IF n = 0 THEN h ELSE nx[f[n - 1]]]

IsChain(w, h, nx, c) == /\ w = [n \in 1 .. c |-> w[n]]
                        /\ c > 0 => w[1] = h
                        /\ \A n \in 2 .. c : w[n] = nx[w[n - 1]]

(* The recursive function of Chain exists. *)
LEMMA ChainExists ==
  ASSUME NEW h, NEW nx, NEW c \in Nat
  PROVE  \E f : Follows(f, h, nx, c)
<1> DEFINE T == {m \in Nat : \E f : f = [n \in 0 .. m |-> IF n = 0 THEN h ELSE nx[f[n - 1]]]}
<1>1. 0 \in T
  <2> DEFINE f == [n \in 0 .. 0 |-> h]
  <2>1. f = [n \in 0 .. 0 |-> IF n = 0 THEN h ELSE nx[f[n - 1]]]
    OBVIOUS
  <2> HIDE DEF f
  <2> QED BY <2>1
<1>2. ASSUME NEW m \in Nat, m \in T PROVE m + 1 \in T
  <2>1. PICK f : f = [n \in 0 .. m |-> IF n = 0 THEN h ELSE nx[f[n - 1]]]
    BY <1>2
  <2> DEFINE g == [n \in 0 .. m + 1 |-> IF n <= m THEN f[n] ELSE nx[f[m]]]
  <2>2. \A n \in 0 .. m + 1 : g[n] = IF n = 0 THEN h ELSE nx[g[n - 1]]
    <3> TAKE n \in 0 .. m + 1
    <3>1. CASE n = 0
      BY <3>1, <2>1
    <3>2. CASE n # 0 /\ n <= m
      <4>1. n - 1 \in 0 .. m + 1 /\ n - 1 <= m /\ n \in 0 .. m
        BY <3>2
      <4>2. g[n - 1] = f[n - 1] /\ g[n] = f[n]
        BY <4>1
      <4>3. f[n] = nx[f[n - 1]]
        BY <2>1, <4>1, <3>2
      <4> QED BY <4>2, <4>3, <3>2
    <3>3. CASE n = m + 1
      <4>1. n - 1 = m /\ m \in 0 .. m + 1 /\ n # 0 /\ ~(n <= m)
        BY <3>3
      <4> QED BY <4>1
    <3> QED BY <3>1, <3>2, <3>3
  <2>3. g = [n \in 0 .. m + 1 |-> g[n]]
    OBVIOUS
  <2> HIDE DEF g
  <2>4. g = [n \in 0 .. m + 1 |-> IF n = 0 THEN h ELSE nx[g[n - 1]]]
    BY <2>2, <2>3
  <2> QED BY <2>4
<1> HIDE DEF T
<1>3. Nat \subseteq T
  BY <1>1, <1>2, SetInduction
<1> QED
  BY <1>3 DEF T, Follows

(* What Chain is: it starts at h and follows nx. *)
LEMMA ChainDef ==
  ASSUME NEW h, NEW nx, NEW c \in Nat
  PROVE  IsChain(Chain(h, nx, c), h, nx, c)
<1> DEFINE F == CHOOSE f : f = [n \in 0 .. c |-> IF n = 0 THEN h ELSE nx[f[n - 1]]]
<1>1. F = [n \in 0 .. c |-> IF n = 0 THEN h ELSE nx[F[n - 1]]]
  <2>1. \E f : Follows(f, h, nx, c)
    BY ChainExists
  <2> QED BY <2>1 DEF Follows
<1>2. Chain(h, nx, c) = [n \in 1 .. c |-> F[n - 1]]
  BY DEF Chain
<1> HIDE DEF F
<1>3. \A n \in 0 .. c : F[n] = IF n = 0 THEN h ELSE nx[F[n - 1]]
  BY <1>1
<1>4. c > 0 => Chain(h, nx, c)[1] = h
  BY <1>2, <1>3
<1>5. ASSUME NEW n \in 2 .. c PROVE Chain(h, nx, c)[n] = nx[Chain(h, nx, c)[n - 1]]
  <2>1. n \in 1 .. c /\ n - 1 \in 1 .. c /\ n - 1 \in 0 .. c /\ n - 1 # 0
    OBVIOUS
  <2>2. F[n - 1] = nx[F[n - 1 - 1]]
    BY <2>1, <1>3
  <2> QED BY <1>2, <2>1, <2>2
<1>6. Chain(h, nx, c) = [n \in 1 .. c |-> Chain(h, nx, c)[n]]
  BY <1>2
<1> QED
  BY <1>4, <1>5, <1>6 DEF IsChain

(* ... and nothing else starts at h and follows nx. *)
LEMMA ChainUnique ==
  ASSUME NEW h, NEW nx, NEW c \in Nat, NEW w, IsChain(w, h, nx, c)
  PROVE  Chain(h, nx, c) = w
<1> DEFINE v == Chain(h, nx, c)
           T == {m \in Nat : m + 1 <= c => v[m + 1] = w[m + 1]}
<1>1. /\ v = [n \in 1 .. c |-> v[n]]
      /\ c > 0 => v[1] = h
      /\ \A n \in 2 .. c : v[n] = nx[v[n - 1]]
  BY ChainDef DEF IsChain
<1> HIDE DEF v
<1>2. 0 \in T
  BY <1>1 DEF IsChain
<1>3. ASSUME NEW m \in Nat, m \in T PROVE m + 1 \in T
  <2> SUFFICES ASSUME (m + 1) + 1 <= c PROVE v[(m + 1) + 1] = w[(m + 1) + 1]
    OBVIOUS
  <2>0. (m + 1) + 1 = m + 2
    OBVIOUS
  <2>1. v[m + 1] = w[m + 1] /\ m + 2 \in 2 .. c /\ (m + 2) - 1 = m + 1
    BY <1>3
  <2>2. v[m + 2] = nx[v[(m + 2) - 1]] /\ w[m + 2] = nx[w[(m + 2) - 1]]
    BY <2>1, <1>1 DEF IsChain
  <2> QED BY <2>0, <2>1, <2>2
<1> HIDE DEF T
<1>4. Nat \subseteq T
  BY <1>2, <1>3, SetInduction
<1>5. ASSUME NEW n \in 1 .. c PROVE v[n] = w[n]
  <2>1. n - 1 \in Nat /\ (n - 1) + 1 = n
    OBVIOUS
  <2>2. n - 1 \in T
    BY <1>4, <2>1
  <2> QED BY <2>1, <2>2 DEF T
<1>6. [n \in 1 .. c |-> v[n]] = [n \in 1 .. c |-> w[n]]
  BY <1>5
<1> QED
  BY <1>1, <1>6 DEF v, IsChain

(* Behind its first slot a list is the list from the next slot on. *)
LEMMA ChainPop ==
  ASSUME NEW h, NEW nx, NEW c \in Nat, c > 0
  PROVE  \A n \in 1 .. c - 1 : Chain(nx[h], nx, c - 1)[n] = Chain(h, nx, c)[n + 1]
<1> DEFINE v == Chain(h, nx, c)
           w == [n \in 1 .. c - 1 |-> v[n + 1]]
<1>1. /\ v[1] = h
      /\ \A n \in 2 .. c : v[n] = nx[v[n - 1]]
  BY ChainDef DEF IsChain
<1> HIDE DEF v
<1>2. ASSUME NEW n \in 2 .. c - 1 PROVE w[n] = nx[w[n - 1]]
  <2>1. n \in 1 .. c - 1 /\ n - 1 \in 1 .. c - 1 /\ n + 1 \in 2 .. c /\ (n + 1) - 1 = n /\ (n - 1) + 1 = n
    OBVIOUS
  <2>2. w[n] = v[n + 1] /\ w[n - 1] = v[n]
    BY <2>1
  <2> QED BY <2>1, <2>2, <1>1
<1>3. w = [n \in 1 .. c - 1 |-> w[n]] /\ (c - 1 > 0 => w[1] = nx[h])
  <2>1. c - 1 > 0 => 1 \in 1 .. c - 1 /\ 2 \in 2 .. c
    OBVIOUS
  <2>2. c - 1 > 0 => w[1] = v[2] /\ v[2] = nx[v[2 - 1]]
    BY <2>1, <1>1
  <2> QED BY <2>2, <1>1
<1> HIDE DEF w
<1>4. c - 1 \in Nat
  OBVIOUS
<1>5. Chain(nx[h], nx, c - 1) = w
  <2>1. IsChain(w, nx[h], nx, c - 1)
    BY <1>2, <1>3 DEF IsChain
  <2>2. QED
    BY <2>1, <1>4, ChainUnique
<1> QED
  BY <1>5 DEF w, v

(* Writing the next of a slot that is not on the list leaves the list alone. *)
LEMMA ChainFrame ==
  ASSUME NEW h, NEW nx, NEW nx2, NEW c \in Nat,
         \A n \in 1 .. c : nx2[Chain(h, nx, c)[n]] = nx[Chain(h, nx, c)[n]]
  PROVE  Chain(h, nx2, c) = Chain(h, nx, c)
<1> DEFINE v == Chain(h, nx, c)
<1>1. /\ v = [n \in 1 .. c |-> v[n]]
      /\ c > 0 => v[1] = h
      /\ \A n \in 2 .. c : v[n] = nx[v[n - 1]]
  BY ChainDef DEF IsChain
<1>2. \A n \in 1 .. c : nx2[v[n]] = nx[v[n]]
  OBVIOUS
<1> HIDE DEF v
<1>3. ASSUME NEW n \in 2 .. c PROVE v[n] = nx2[v[n - 1]]
  <2>1. n - 1 \in 1 .. c
    OBVIOUS
  <2> QED BY <2>1, <1>1, <1>2
<1>4. Chain(h, nx2, c) = v
  <2>1. IsChain(v, h, nx2, c)
    BY <1>1, <1>3 DEF IsChain
  <2>2. QED
    BY <2>1, ChainUnique
<1> QED
  BY <1>4 DEF v

------------------------------------------------------------------------------
(* The free list *)

LEMMA SlotType ==
  /\ \A s \in Slots : /\ s[1] \in 1 .. MaxBlocks /\ s[2] \in 0 .. alloc_size - 1
                      /\ s = <<s[1], s[2]>>
  /\ NULL \notin Slots
  BY TaskQueueAssumption DEF Slots, NULL

(* The free list always has a slot for the thread that asks: there are as    *)
(* many slots as tasks.                                                      *)
LEMMA FreeSlot ==
  ASSUME TypeOK, SlotsCounted, alloc_lock # None
  PROVE  Free \in Slots \ Used
<1>0. /\ block \in Nat /\ curr \in Nat /\ curr <= alloc_size /\ block >= 1 /\ block <= MaxBlocks
      /\ alloc_size \in Nat \ {0} /\ MaxBlocks \in Nat \ {0}
  BY TaskQueueAssumption DEF TypeOK
<1>1. Cardinality(given) <= MaxBlocks * alloc_size
  <2>1. IsFiniteSet(Tasks) /\ given \subseteq Tasks
    BY TaskQueueAssumption DEF TypeOK
  <2>2. /\ Cardinality(given) <= Cardinality(Tasks)
        /\ Cardinality(given) \in Nat /\ Cardinality(Tasks) \in Nat
    BY <2>1, FS_Subset, FS_CardinalityType
  <2>3. MaxBlocks * alloc_size \in Nat
    BY <1>0
  <2> QED BY <2>2, <2>3, TaskQueueAssumption
<1>2. (block - 1) * alloc_size + curr + 1 = Cardinality(given)
  BY DEF SlotsCounted
<1>3. ASSUME ~(curr < alloc_size) PROVE block + 1 <= MaxBlocks
  <2>1. curr = alloc_size
    BY <1>3, <1>0
  <2>2. (block - 1) * alloc_size + alloc_size = alloc_size * block /\ alloc_size * block \in Nat
    BY <1>0
  <2>3. alloc_size * block + 1 <= alloc_size * MaxBlocks
    BY <1>0, <1>1, <1>2, <2>1, <2>2
  <2>4. MaxBlocks <= block => alloc_size * MaxBlocks <= alloc_size * block
    BY <1>0, MulMono
  <2> QED BY <1>0, <2>2, <2>3, <2>4
<1>4. CASE curr < alloc_size
  <2>1. Free = <<block, curr>> /\ Free \in Slots
    BY <1>0, <1>4 DEF Free, Slots
  <2> QED BY <1>0, <2>1 DEF Used
<1>5. CASE ~(curr < alloc_size)
  <2>1. Free = <<block + 1, 0>> /\ Free \in Slots
    BY <1>0, <1>3, <1>5 DEF Free, Slots
  <2> QED BY <1>0, <2>1 DEF Used
<1> QED
  BY <1>4, <1>5

(* The slot is counted as given away, and no other slot is. *)
LEMMA AdvanceUsed ==
  ASSUME TypeOK, SlotsCounted, NEW t \in Threads, alloc_lock = t, slot[t] = Free, Advance(t)
  PROVE  /\ block' \in 1 .. MaxBlocks /\ curr' \in 0 .. alloc_size
         /\ Used' = Used \cup {slot[t]}
         /\ (block' - 1) * alloc_size + curr' = (block - 1) * alloc_size + curr + 1
<1>0. /\ block \in Nat /\ curr \in Nat /\ curr <= alloc_size /\ block >= 1 /\ block <= MaxBlocks
      /\ alloc_size \in Nat \ {0} /\ MaxBlocks \in Nat \ {0}
  BY TaskQueueAssumption DEF TypeOK
<1>1. slot[t] \in Slots /\ slot[t][1] <= MaxBlocks /\ alloc_lock # None
  BY FreeSlot, SlotType, TaskQueueAssumption
<1>2. \A s \in Slots : /\ s[1] \in 1 .. MaxBlocks /\ s[2] \in 0 .. alloc_size - 1
                       /\ s = <<s[1], s[2]>>
  BY SlotType
<1>3. CASE curr < alloc_size
  <2>1. slot[t] = <<block, curr>> /\ slot[t][1] = block
    BY <1>3 DEF Free
  <2>2. block' = block /\ curr' = curr + 1
    BY <2>1 DEF Advance
  <2>3. Used' = Used \cup {slot[t]}
    BY <1>0, <1>1, <1>2, <2>1, <2>2 DEF Used
  <2> QED BY <1>0, <1>3, <2>2, <2>3
<1>4. CASE ~(curr < alloc_size)
  <2>1. slot[t] = <<block + 1, 0>> /\ slot[t][1] = block + 1 /\ curr = alloc_size
    BY <1>0, <1>4 DEF Free
  <2>2. block' = block + 1 /\ curr' = 1
    BY <1>0, <2>1 DEF Advance
  <2>3. Used' = Used \cup {slot[t]}
    BY <1>0, <1>1, <1>2, <2>1, <2>2 DEF Used
  <2>4. (block' - 1) * alloc_size = (block - 1) * alloc_size + alloc_size
    BY <1>0, <2>2
  <2>5. (block - 1) * alloc_size \in Nat
    BY <1>0
  <2> QED BY <1>0, <1>1, <2>1, <2>2, <2>3, <2>4, <2>5
<1> QED
  BY <1>3, <1>4

------------------------------------------------------------------------------
(* The list is as long as count says, and stays what it is when neither the  *)
(* head nor a next of it is written.                                         *)
LEMMA WalkDef ==
  ASSUME TypeOK
  PROVE  IsChain(Walk, head, next, count)
  BY ChainDef DEF Walk, TypeOK

LEMMA SameList ==
  ASSUME UNCHANGED list
  PROVE  Walk' = Walk /\ Queued' = Queued
  BY DEF list, Walk, Queued

LEMMA InitQueue == Init => QueueInv
<1> SUFFICES ASSUME Init PROVE QueueInv
  OBVIOUS
<1>1. TypeOK
  BY TaskQueueAssumption DEF Init, TypeOK
<1>2. LocksHeld /\ Progress /\ ListIntact /\ SlotsPrivate
  BY TaskQueueAssumption DEF Init, LocksHeld, Progress, ListIntact, SlotsPrivate, Filling
<1>3. SlotsCounted
  <2>1. (1 - 1) * alloc_size = 0 /\ Cardinality({}) = 0
    BY TaskQueueAssumption, FS_EmptySet
  <2> QED BY <2>1 DEF Init, SlotsCounted
<1> QED
  BY <1>1, <1>2, <1>3 DEF QueueInv

------------------------------------------------------------------------------
(* Every step preserves QueueInv. *)

LEMMA LockAllocQueue ==
  ASSUME QueueInv, NEW t \in Threads, LockAlloc(t)
  PROVE  QueueInv'
<1> USE DEF QueueInv
<1>0. PICK x \in Tasks \ given : given' = given \cup {x} /\ task' = [task EXCEPT ![t] = x]
  BY DEF LockAlloc, Bring
<1>1. /\ pc[t] = "idle" /\ alloc_lock = None /\ alloc_lock' = t /\ pc' = [pc EXCEPT ![t] = "getSlot"]
      /\ UNCHANGED <<lock, block, curr, contents, slot, got, head, count, next>>
  BY DEF LockAlloc, Goto, list
<1>2. Walk' = Walk /\ Queued' = Queued /\ Used' = Used /\ Filling' = Filling /\ Free' = Free
  BY <1>1, SameList DEF list, Used, Filling, TypeOK, Free
<1>3. TypeOK'
  BY <1>0, <1>1 DEF TypeOK
<1>4. LocksHeld'
  BY <1>1, TaskQueueAssumption DEF LocksHeld, TypeOK
<1>5. SlotsCounted'
  <2>1. IsFiniteSet(given)
    BY TaskQueueAssumption, FS_Subset DEF TypeOK
  <2>2. Cardinality(given') = Cardinality(given) + 1 /\ Cardinality(given) \in Nat
    BY <1>0, <2>1, FS_AddElement, FS_CardinalityType
  <2>3. (block - 1) * alloc_size + curr = Cardinality(given)
    <3>1. (block - 1) * alloc_size \in Int /\ curr \in Int
      BY TaskQueueAssumption DEF TypeOK
    <3> QED BY <1>1, <3>1 DEF SlotsCounted
  <2> QED BY <1>1, <2>2, <2>3, TaskQueueAssumption DEF SlotsCounted
<1>6. Progress'
  BY <1>0, <1>1, <1>2 DEF Progress, TypeOK
<1>7. ListIntact' /\ SlotsPrivate'
  BY <1>1, <1>2 DEF ListIntact, SlotsPrivate
<1> QED
  BY <1>3, <1>4, <1>5, <1>6, <1>7

LEMMA GetSlotQueue ==
  ASSUME QueueInv, NEW t \in Threads, GetSlot(t)
  PROVE  QueueInv'
<1> USE DEF QueueInv
<1>1. /\ pc[t] = "getSlot" /\ slot' = [slot EXCEPT ![t] = Free] /\ pc' = [pc EXCEPT ![t] = "advance"]
      /\ UNCHANGED <<lock, alloc_lock, block, curr, contents, given, task, got, head, count, next>>
  BY DEF GetSlot, Goto, list, alloc, Free
<1>2. Walk' = Walk /\ Queued' = Queued /\ Used' = Used /\ Filling' = Filling /\ Free' = Free
  BY <1>1, SameList DEF list, Used, Filling, TypeOK, Free
<1>3. Free \in Slots
  <2>1. alloc_lock # None
    BY <1>1, TaskQueueAssumption DEF LocksHeld
  <2> QED BY <2>1, FreeSlot
<1>4. TypeOK'
  BY <1>1, <1>3 DEF TypeOK
<1>5. LocksHeld' /\ SlotsCounted'
  BY <1>1 DEF LocksHeld, TypeOK, SlotsCounted
<1>6. Progress'
  BY <1>1, <1>2 DEF Progress, TypeOK, Filling
<1>7. ListIntact' /\ SlotsPrivate'
  BY <1>1, <1>2 DEF ListIntact, SlotsPrivate, TypeOK, Filling
<1> QED
  BY <1>4, <1>5, <1>6, <1>7

LEMMA AdvanceQueue ==
  ASSUME QueueInv, NEW t \in Threads, Advance(t)
  PROVE  QueueInv'
<1> USE DEF QueueInv
<1>1. /\ pc[t] = "advance" /\ alloc_lock' = None /\ pc' = [pc EXCEPT ![t] = "fill"]
      /\ UNCHANGED <<lock, contents, slot, given, task, got, head, count, next>>
  BY DEF Advance, Goto, list
<1>2. Walk' = Walk /\ Queued' = Queued
  BY <1>1, SameList DEF list
<1>3. slot[t] = Free /\ alloc_lock = t /\ alloc_lock # None /\ task[t] \in Tasks
  BY <1>1, TaskQueueAssumption DEF Progress, LocksHeld
<1>4. slot[t] \in Slots \ Used
  BY <1>3, FreeSlot
<1>5. /\ block' \in 1 .. MaxBlocks /\ curr' \in 0 .. alloc_size
      /\ Used' = Used \cup {slot[t]}
      /\ (block' - 1) * alloc_size + curr' = (block - 1) * alloc_size + curr + 1
  BY <1>3, AdvanceUsed
<1>6. Filling' = Filling \cup {t} /\ t \notin Filling
  BY <1>1 DEF Filling, TypeOK
<1>7. TypeOK'
  BY <1>1, <1>5 DEF TypeOK
<1>8. LocksHeld'
  BY <1>1, <1>3, TaskQueueAssumption DEF LocksHeld, TypeOK
<1>9. SlotsCounted'
  <2>1. (block' - 1) * alloc_size \in Int /\ curr' \in Int
    BY <1>5, TaskQueueAssumption
  <2> QED BY <1>1, <1>3, <1>5, <2>1 DEF SlotsCounted
<1>10. Progress'
  <2>1. \A u \in Threads : u # t => pc[u] # "advance" /\ pc'[u] = pc[u]
    BY <1>1, <1>3 DEF LocksHeld, TypeOK
  <2> QED BY <1>1, <1>3, <1>5, <1>6, <2>1 DEF Progress, TypeOK
<1>11. ListIntact'
  BY <1>1, <1>2, <1>5 DEF ListIntact
<1>12. SlotsPrivate'
  <2>1. \A u \in Filling : slot[u] # slot[t]
    BY <1>4 DEF Progress, Filling
  <2>2. slot[t] \notin Queued
    BY <1>4 DEF ListIntact, Queued
  <2> QED BY <1>1, <1>2, <1>6, <2>1, <2>2 DEF SlotsPrivate
<1> QED
  BY <1>7, <1>8, <1>9, <1>10, <1>11, <1>12

LEMMA FillQueue ==
  ASSUME QueueInv, NEW t \in Threads, Fill(t)
  PROVE  QueueInv'
<1> USE DEF QueueInv
<1>1. /\ pc[t] = "fill" /\ contents' = [contents EXCEPT ![slot[t]] = task[t]]
      /\ pc' = [pc EXCEPT ![t] = "filled"]
      /\ UNCHANGED <<lock, alloc_lock, block, curr, slot, given, task, got, head, count, next>>
  BY DEF Fill, Goto, list, alloc
<1>2. Walk' = Walk /\ Queued' = Queued /\ Used' = Used /\ Filling' = Filling /\ Free' = Free /\ t \in Filling
  BY <1>1, SameList DEF list, Used, Filling, TypeOK, Free
<1>3. slot[t] \in Used /\ slot[t] \in Slots /\ task[t] \in Tasks
  BY <1>2 DEF Progress, Used
<1>4. TypeOK'
  BY <1>1, <1>3 DEF TypeOK
<1>5. LocksHeld' /\ SlotsCounted'
  BY <1>1 DEF LocksHeld, TypeOK, SlotsCounted
<1>6. \A u \in Threads : u \in Filling /\ u # t => contents'[slot[u]] = contents[slot[u]]
  BY <1>1, <1>2 DEF SlotsPrivate, TypeOK, Progress, Used
<1>7. Progress'
  BY <1>1, <1>2, <1>3, <1>6 DEF Progress, TypeOK, Filling
<1>8. ListIntact'
  <2>1. \A n \in 1 .. count : Walk[n] # slot[t] /\ Walk[n] \in Slots
    BY <1>2 DEF SlotsPrivate, Queued, ListIntact, Used
  <2> QED BY <1>1, <1>2, <2>1 DEF ListIntact, TypeOK
<1>9. SlotsPrivate'
  BY <1>1, <1>2 DEF SlotsPrivate
<1> QED
  BY <1>4, <1>5, <1>7, <1>8, <1>9

LEMMA LockAddQueue ==
  ASSUME QueueInv, NEW t \in Threads, LockAdd(t) \/ LockGet(t)
  PROVE  QueueInv'
<1> USE DEF QueueInv
<1>1. /\ lock = None /\ lock' = t
      /\ \/ pc[t] = "filled" /\ pc' = [pc EXCEPT ![t] = "add"]
         \/ pc[t] = "idle" /\ pc' = [pc EXCEPT ![t] = "get"]
      /\ UNCHANGED <<alloc_lock, block, curr, contents, slot, given, task, got, head, count, next>>
  BY DEF LockAdd, LockGet, Goto, list, alloc
<1>2. Walk' = Walk /\ Queued' = Queued /\ Used' = Used /\ Filling' = Filling /\ Free' = Free
  BY <1>1, SameList DEF list, Used, Filling, TypeOK, Free
<1>3. TypeOK' /\ SlotsCounted'
  BY <1>1 DEF TypeOK, SlotsCounted
<1>4. LocksHeld'
  BY <1>1, TaskQueueAssumption DEF LocksHeld, TypeOK
<1>5. Progress'
  BY <1>1, <1>2 DEF Progress, TypeOK
<1>6. ListIntact' /\ SlotsPrivate'
  BY <1>1, <1>2 DEF ListIntact, SlotsPrivate
<1> QED
  BY <1>3, <1>4, <1>5, <1>6

LEMMA LinkNextQueue ==
  ASSUME QueueInv, NEW t \in Threads, LinkNext(t)
  PROVE  QueueInv' /\ Walk' = Walk
<1> USE DEF QueueInv
<1>1. /\ pc[t] = "add" /\ next' = [next EXCEPT ![slot[t]] = head]
      /\ pc' = [pc EXCEPT ![t] = "setHead"]
      /\ UNCHANGED <<lock, alloc_lock, block, curr, contents, slot, given, task, got, head, count>>
  BY DEF LinkNext, Goto, alloc
<1>2. Used' = Used /\ Filling' = Filling /\ Free' = Free /\ t \in Filling
  BY <1>1 DEF Used, Filling, TypeOK, Free
<1>3. slot[t] \in Slots
  BY <1>2 DEF Progress, Used
<1>4. \A n \in 1 .. count : Walk[n] # slot[t] /\ Walk[n] \in Slots
  BY <1>2 DEF SlotsPrivate, Queued, ListIntact, Used
<1>5. \A n \in 1 .. count : next'[Walk[n]] = next[Walk[n]]
  BY <1>1, <1>4 DEF TypeOK
<1>6. Walk' = Walk
  <2>1. Chain(head, next', count) = Chain(head, next, count)
    BY <1>5, ChainFrame DEF Walk, TypeOK
  <2> QED BY <1>1, <2>1 DEF Walk
<1>7. Queued' = Queued
  BY <1>1, <1>6 DEF Queued
<1>8. TypeOK' /\ SlotsCounted'
  BY <1>1, <1>3 DEF TypeOK, SlotsCounted
<1>9. LocksHeld'
  BY <1>1 DEF LocksHeld, TypeOK
<1>10. Progress'
  <2>1. \A u \in Threads : u # t => pc[u] # "setHead" /\ pc'[u] = pc[u]
    BY <1>1 DEF LocksHeld, TypeOK
  <2>2. next'[slot[t]] = head
    BY <1>1, <1>3 DEF TypeOK
  <2> QED BY <1>1, <1>2, <2>1, <2>2 DEF Progress, TypeOK
<1>11. ListIntact' /\ SlotsPrivate'
  BY <1>1, <1>2, <1>6, <1>7 DEF ListIntact, SlotsPrivate
<1> QED
  BY <1>6, <1>8, <1>9, <1>10, <1>11

(* The slot of t becomes the head of the list. *)
LEMMA SetHeadWalk ==
  ASSUME QueueInv, NEW t \in Threads, SetHead(t)
  PROVE  /\ t \in Filling /\ count \in Nat /\ count' = count + 1
         /\ \A n \in 1 .. count + 1 : Walk'[n] = IF n = 1 THEN slot[t] ELSE Walk[n - 1]
         /\ Queued' = Queued \cup {slot[t]}
<1> USE DEF QueueInv
<1>1. /\ pc[t] = "setHead" /\ head' = slot[t] /\ count' = count + 1 /\ UNCHANGED next
  BY DEF SetHead
<1>2. next[slot[t]] = head /\ t \in Filling /\ count \in Nat
  BY <1>1 DEF Progress, Filling, TypeOK
<1>3. /\ Chain(slot[t], next, count + 1)[1] = slot[t]
      /\ \A n \in 1 .. count : Chain(slot[t], next, count + 1)[n + 1] = Chain(next[slot[t]], next, count)[n]
  <2> DEFINE d == count + 1
  <2>1. d \in Nat /\ d > 0 /\ d - 1 = count
    BY <1>2
  <2> HIDE DEF d
  <2>2. Chain(slot[t], next, d)[1] = slot[t]
    BY <2>1, ChainDef DEF IsChain
  <2>3. \A n \in 1 .. d - 1 : Chain(next[slot[t]], next, d - 1)[n] = Chain(slot[t], next, d)[n + 1]
    BY <2>1, ChainPop
  <2> QED BY <2>1, <2>2, <2>3 DEF d
<1>4. ASSUME NEW n \in 1 .. count + 1 PROVE Walk'[n] = IF n = 1 THEN slot[t] ELSE Walk[n - 1]
  <2>1. Walk'[1] = slot[t] /\ \A k \in 1 .. count : Walk'[k + 1] = Walk[k]
    BY <1>1, <1>2, <1>3 DEF Walk
  <2>2. n = 1 \/ (n # 1 /\ n - 1 \in 1 .. count /\ (n - 1) + 1 = n)
    BY <1>2
  <2> QED BY <2>1, <2>2
<1>5. Queued' = Queued \cup {slot[t]}
  <2>1. Queued' = {Walk'[n] : n \in 1 .. count + 1}
    BY <1>1 DEF Queued
  <2>2. ASSUME NEW n \in 1 .. count PROVE Walk[n] \in {Walk'[m] : m \in 1 .. count + 1}
    <3>1. n + 1 \in 1 .. count + 1 /\ n + 1 # 1 /\ (n + 1) - 1 = n
      BY <1>2
    <3> QED BY <1>4, <3>1
  <2>3. ASSUME NEW n \in 1 .. count + 1 PROVE Walk'[n] \in Queued \cup {slot[t]}
    <3>1. n = 1 \/ (n # 1 /\ n - 1 \in 1 .. count)
      BY <1>2
    <3> QED BY <1>4, <3>1 DEF Queued
  <2>4. slot[t] \in {Walk'[m] : m \in 1 .. count + 1}
    <3>1. 1 \in 1 .. count + 1
      BY <1>2
    <3> QED BY <1>4, <3>1
  <2> QED BY <2>1, <2>2, <2>3, <2>4 DEF Queued
<1> QED
  BY <1>1, <1>2, <1>4, <1>5

LEMMA SetHeadQueue ==
  ASSUME QueueInv, NEW t \in Threads, SetHead(t)
  PROVE  QueueInv'
<1> USE DEF QueueInv
<1>1. /\ pc[t] = "setHead" /\ head' = slot[t] /\ count' = count + 1 /\ lock' = None
      /\ pc' = [pc EXCEPT ![t] = "idle"]
      /\ UNCHANGED <<alloc_lock, block, curr, next, contents, slot, given, task, got>>
  BY DEF SetHead, Goto, alloc
<1>2. Used' = Used /\ Filling' = Filling \ {t} /\ Free' = Free /\ t \in Filling
  BY <1>1 DEF Used, Filling, TypeOK, Free
<1>3. slot[t] \in Used /\ slot[t] \in Slots /\ task[t] \in Tasks /\ contents[slot[t]] = task[t]
  BY <1>1, <1>2 DEF Progress, Used
<1>4. /\ count \in Nat /\ count' = count + 1
      /\ \A n \in 1 .. count + 1 : Walk'[n] = IF n = 1 THEN slot[t] ELSE Walk[n - 1]
      /\ Queued' = Queued \cup {slot[t]}
  BY SetHeadWalk
<1>5. TypeOK' /\ SlotsCounted'
  BY <1>1, <1>3 DEF TypeOK, SlotsCounted
<1>6. LocksHeld'
  BY <1>1, TaskQueueAssumption DEF LocksHeld, TypeOK
<1>7. Progress'
  <2>1. \A u \in Threads : u # t => pc[u] \notin {"setHead", "unlink"} /\ pc'[u] = pc[u]
    BY <1>1 DEF LocksHeld, TypeOK
  <2> QED BY <1>1, <1>2, <2>1 DEF Progress, TypeOK
<1>8. \A n \in 1 .. count : Walk[n] # slot[t]
  BY <1>2 DEF SlotsPrivate, Queued
<1>9. ListIntact'
  <2>1. ASSUME NEW m \in 1 .. count', NEW n \in 1 .. count', Walk'[m] = Walk'[n]
        PROVE  m = n
    <3>1. /\ m = 1 \/ (m # 1 /\ m - 1 \in 1 .. count)
          /\ n = 1 \/ (n # 1 /\ n - 1 \in 1 .. count)
          /\ m \in 1 .. count + 1 /\ n \in 1 .. count + 1
      BY <1>4
    <3>2. /\ Walk'[m] = IF m = 1 THEN slot[t] ELSE Walk[m - 1]
          /\ Walk'[n] = IF n = 1 THEN slot[t] ELSE Walk[n - 1]
      BY <1>4, <3>1
    <3>3. CASE m # 1 /\ n # 1
      <4>1. m - 1 = n - 1
        BY <2>1, <3>1, <3>2, <3>3 DEF ListIntact
      <4> QED BY <3>1, <4>1, <1>4
    <3> QED BY <2>1, <3>1, <3>2, <3>3, <1>8
  <2>2. ASSUME NEW n \in 1 .. count' PROVE Walk'[n] \in Used' /\ contents'[Walk'[n]] \in Tasks
    <3>1. (n = 1 \/ (n # 1 /\ n - 1 \in 1 .. count)) /\ n \in 1 .. count + 1
      BY <1>4
    <3> QED BY <1>1, <1>2, <1>3, <1>4, <3>1 DEF ListIntact
  <2> QED BY <2>1, <2>2 DEF ListIntact
<1>10. SlotsPrivate'
  BY <1>1, <1>2, <1>4 DEF SlotsPrivate
<1> QED
  BY <1>5, <1>6, <1>7, <1>9, <1>10

LEMMA GetHeadQueue ==
  ASSUME QueueInv, NEW t \in Threads, GetHead(t)
  PROVE  QueueInv'
<1> USE DEF QueueInv
<1>1. /\ pc[t] = "get" /\ count > 0 /\ slot' = [slot EXCEPT ![t] = head]
      /\ pc' = [pc EXCEPT ![t] = "unlink"]
      /\ UNCHANGED <<lock, alloc_lock, block, curr, contents, given, task, got, head, count, next>>
  BY DEF GetHead, Goto, list, alloc
<1>2. Walk' = Walk /\ Queued' = Queued /\ Used' = Used /\ Filling' = Filling /\ Free' = Free
  BY <1>1, SameList DEF list, Used, Filling, TypeOK, Free
<1>3. TypeOK' /\ SlotsCounted'
  BY <1>1 DEF TypeOK, SlotsCounted
<1>4. LocksHeld'
  BY <1>1 DEF LocksHeld, TypeOK
<1>5. Progress'
  BY <1>1, <1>2 DEF Progress, TypeOK, Filling
<1>6. ListIntact' /\ SlotsPrivate'
  BY <1>1, <1>2 DEF ListIntact, SlotsPrivate, Filling, TypeOK
<1> QED
  BY <1>3, <1>4, <1>5, <1>6

(* The list begins with the slot t has read, and t leaves the rest. *)
LEMMA UnlinkWalk ==
  ASSUME QueueInv, NEW t \in Threads, Unlink(t)
  PROVE  /\ count \in Nat /\ count > 0 /\ count' = count - 1
         /\ Walk[1] = slot[t]
         /\ \A n \in 1 .. count - 1 : Walk'[n] = Walk[n + 1]
         /\ head' \in Slots \cup {NULL}
<1> USE DEF QueueInv
<1>1. pc[t] = "unlink" /\ head' = next[slot[t]] /\ count' = count - 1 /\ UNCHANGED next
  BY DEF Unlink
<1>2. slot[t] = head /\ count > 0 /\ count \in Nat
  BY <1>1 DEF Progress, TypeOK
<1>3. \A n \in 1 .. count - 1 : Chain(next[head], next, count - 1)[n] = Chain(head, next, count)[n + 1]
  BY <1>2, ChainPop
<1>4. \A n \in 1 .. count - 1 : Walk'[n] = Walk[n + 1]
  BY <1>1, <1>2, <1>3 DEF Walk
<1>5. Walk[1] = slot[t]
  BY <1>2, WalkDef DEF IsChain
<1>6. slot[t] \in Slots
  <2>1. 1 \in 1 .. count
    BY <1>2
  <2> QED BY <1>5, <2>1 DEF ListIntact, Used
<1> QED
  BY <1>1, <1>2, <1>4, <1>5, <1>6 DEF TypeOK

LEMMA UnlinkQueue ==
  ASSUME QueueInv, NEW t \in Threads, Unlink(t)
  PROVE  QueueInv'
<1> USE DEF QueueInv
<1>1. /\ pc[t] = "unlink" /\ lock' = None /\ got' = [got EXCEPT ![t] = contents[slot[t]]]
      /\ pc' = [pc EXCEPT ![t] = "idle"]
      /\ UNCHANGED <<alloc_lock, block, curr, next, contents, slot, given, task>>
  BY DEF Unlink, Goto, alloc
<1>2. /\ count \in Nat /\ count > 0 /\ count' = count - 1
      /\ Walk[1] = slot[t]
      /\ \A n \in 1 .. count - 1 : Walk'[n] = Walk[n + 1]
      /\ head' \in Slots \cup {NULL}
  BY UnlinkWalk
<1>3. Used' = Used /\ Filling' = Filling /\ Free' = Free
  BY <1>1 DEF Used, Filling, TypeOK, Free
<1>4. TypeOK' /\ SlotsCounted'
  <2>1. contents[slot[t]] \in Tasks
    <3>1. 1 \in 1 .. count
      BY <1>2
    <3> QED BY <1>2, <3>1 DEF ListIntact
  <2>2. count' \in Nat
    BY <1>2
  <2> QED BY <1>1, <1>2, <2>1, <2>2 DEF TypeOK, SlotsCounted
<1>5. LocksHeld'
  BY <1>1, TaskQueueAssumption DEF LocksHeld, TypeOK
<1>6. Progress'
  <2>1. \A u \in Threads : u # t => pc[u] \notin {"setHead", "unlink"} /\ pc'[u] = pc[u]
    BY <1>1 DEF LocksHeld, TypeOK
  <2> QED BY <1>1, <1>3, <2>1 DEF Progress, TypeOK
<1>7. \A n \in 1 .. count' : n + 1 \in 1 .. count /\ n \in 1 .. count - 1
  BY <1>2
<1>8. ListIntact'
  <2>1. ASSUME NEW m \in 1 .. count', NEW n \in 1 .. count', Walk'[m] = Walk'[n]
        PROVE  m = n
    <3>1. m + 1 = n + 1
      BY <1>2, <1>7, <2>1 DEF ListIntact
    <3> QED BY <1>2, <3>1
  <2>2. ASSUME NEW n \in 1 .. count' PROVE Walk'[n] \in Used' /\ contents'[Walk'[n]] \in Tasks
    BY <1>1, <1>2, <1>3, <1>7 DEF ListIntact
  <2> QED BY <2>1, <2>2 DEF ListIntact
<1>9. SlotsPrivate'
  <2>1. Queued' \subseteq Queued
    BY <1>2, <1>7 DEF Queued
  <2> QED BY <1>1, <1>3, <2>1 DEF SlotsPrivate
<1> QED
  BY <1>4, <1>5, <1>6, <1>8, <1>9

LEMMA GetNoneQueue ==
  ASSUME QueueInv, NEW t \in Threads, GetNone(t)
  PROVE  QueueInv'
<1> USE DEF QueueInv
<1>1. /\ pc[t] = "get" /\ got' = [got EXCEPT ![t] = None] /\ lock' = None
      /\ pc' = [pc EXCEPT ![t] = "idle"]
      /\ UNCHANGED <<alloc_lock, block, curr, contents, slot, given, task, head, count, next>>
  BY DEF GetNone, Goto, list, alloc
<1>2. Walk' = Walk /\ Queued' = Queued /\ Used' = Used /\ Filling' = Filling /\ Free' = Free
  BY <1>1, SameList DEF list, Used, Filling, TypeOK, Free
<1>3. TypeOK' /\ SlotsCounted'
  BY <1>1 DEF TypeOK, SlotsCounted
<1>4. LocksHeld'
  BY <1>1, TaskQueueAssumption DEF LocksHeld, TypeOK
<1>5. Progress'
  BY <1>1, <1>2 DEF Progress, TypeOK
<1>6. ListIntact' /\ SlotsPrivate'
  BY <1>1, <1>2 DEF ListIntact, SlotsPrivate
<1> QED
  BY <1>3, <1>4, <1>5, <1>6

LEMMA NextQueue == QueueInv /\ [Next]_vars => QueueInv'
<1> SUFFICES ASSUME QueueInv, [Next]_vars PROVE QueueInv'
  OBVIOUS
<1>1. CASE UNCHANGED vars
  <2>1. Walk' = Walk /\ Queued' = Queued /\ Used' = Used /\ Filling' = Filling /\ Free' = Free
    BY <1>1, SameList DEF vars, list, Used, Filling, Free
  <2> QED
    BY <1>1, <2>1 DEF vars, QueueInv, TypeOK, LocksHeld, SlotsCounted, Progress, ListIntact, SlotsPrivate
<1>2. ASSUME NEW t \in Threads, ThreadStep(t) PROVE QueueInv'
  BY <1>2, LockAllocQueue, GetSlotQueue, AdvanceQueue, FillQueue, LockAddQueue, LinkNextQueue,
     SetHeadQueue, GetHeadQueue, UnlinkQueue, GetNoneQueue DEF ThreadStep
<1> QED
  BY <1>1, <1>2 DEF Next

(* Whatever the threads do in whatever order, the mutexes, the free list and *)
(* the list of queued tasks agree (task_queue_get_slot_atomic,               *)
(* task_queue_add_atomic, task_queue_get_atomic), for every number of        *)
(* threads, tasks and slots of a block.                                      *)
THEOREM QueueInvariant == Spec => []QueueInv
  BY InitQueue, NextQueue, PTL DEF Spec

(* No two threads ever fill the same slot, and no slot is filled while it is *)
(* on the queue.                                                             *)
THEOREM PrivateSlots == Spec => []SlotsPrivate
<1>1. QueueInv => SlotsPrivate
  BY DEF QueueInv
<1> QED
  BY <1>1, QueueInvariant, PTL

------------------------------------------------------------------------------
(* The queue is a stack. *)

(* The tasks on the queue, the newest first *)
Stack == [n \in 1 .. count |-> contents[Walk[n]]]

LEMMA StackType ==
  ASSUME QueueInv
  PROVE  Stack \in Seq(Tasks) /\ Len(Stack) = count /\ count \in Nat
<1>1. count \in Nat
  BY DEF QueueInv, TypeOK
<1>2. Stack \in [1 .. count -> Tasks]
  BY DEF QueueInv, ListIntact, Stack
<1> QED
  BY <1>1, <1>2

LEMMA SameStack ==
  ASSUME Walk' = Walk, count' = count, \A n \in 1 .. count : contents'[Walk[n]] = contents[Walk[n]]
  PROVE  Stack' = Stack
  BY DEF Stack

LEMMA StackStep ==
  ASSUME QueueInv, QueueInv', [Next]_vars
  PROVE  [D!StackNext]_D!dequeVars
<1>0. Stack' = Stack /\ got' = got => UNCHANGED D!dequeVars
  BY DEF D!dequeVars, Stack
<1>1. CASE UNCHANGED vars
  <2>1. Walk' = Walk /\ count' = count /\ contents' = contents /\ got' = got
    BY <1>1, SameList DEF vars, list
  <2> QED BY <1>0, <2>1, SameStack
<1>2. ASSUME NEW t \in Threads, ThreadStep(t) PROVE [D!StackNext]_D!dequeVars
  <2>1. CASE LockAlloc(t) \/ GetSlot(t) \/ Advance(t) \/ LockAdd(t) \/ LockGet(t) \/ GetHead(t)
    <3>1. UNCHANGED <<head, count, next, contents, got>>
      BY <2>1 DEF LockAlloc, GetSlot, Advance, LockAdd, LockGet, GetHead, list
    <3>2. Walk' = Walk
      BY <3>1, SameList DEF list
    <3> QED BY <1>0, <3>1, <3>2, SameStack
  <2>2. CASE Fill(t)
    <3>1. UNCHANGED <<head, count, next, got>> /\ contents' = [contents EXCEPT ![slot[t]] = task[t]]
      BY <2>2 DEF Fill, list
    <3>2. Walk' = Walk
      BY <3>1, SameList DEF list
    <3>3. \A n \in 1 .. count : Walk[n] # slot[t] /\ Walk[n] \in Slots
      BY <2>2 DEF QueueInv, SlotsPrivate, Filling, Fill, Queued, ListIntact, Used
    <3>4. \A n \in 1 .. count : contents'[Walk[n]] = contents[Walk[n]]
      BY <3>1, <3>3 DEF QueueInv, TypeOK
    <3> QED BY <1>0, <3>1, <3>2, <3>4, SameStack
  <2>3. CASE LinkNext(t)
    <3>1. UNCHANGED <<count, contents, got>>
      BY <2>3 DEF LinkNext
    <3> QED BY <1>0, <2>3, <3>1, LinkNextQueue, SameStack
  <2>4. CASE SetHead(t)
    <3>1. UNCHANGED <<contents, got>> /\ task[t] \in Tasks /\ contents[slot[t]] = task[t]
      BY <2>4 DEF SetHead, QueueInv, Progress, Filling
    <3>2. /\ count \in Nat /\ count' = count + 1
          /\ \A n \in 1 .. count + 1 : Walk'[n] = IF n = 1 THEN slot[t] ELSE Walk[n - 1]
      BY <2>4, SetHeadWalk
    <3>3. Stack' = [n \in 1 .. count + 1 |-> IF n = 1 THEN task[t] ELSE contents[Walk[n - 1]]]
      BY <3>1, <3>2 DEF Stack
    <3>4. \A n \in 1 .. count + 1 : n # 1 => n - 1 \in 1 .. count
      BY <3>2
    <3>5. Stack' = [n \in 1 .. count + 1 |-> IF n = 1 THEN task[t] ELSE Stack[n - 1]]
      BY <3>3, <3>4 DEF Stack
    <3>6. Stack \in Seq(Tasks) /\ Len(Stack) = count
      BY StackType
    <3> HIDE DEF Stack
    <3>7. Stack' = <<task[t]>> \o Stack
      BY <3>1, <3>2, <3>5, <3>6
    <3>9. task[t] \in Tasks
      BY <3>1
    <3>10. D!StackNext
      BY <3>1, <3>7, <3>9 DEF D!StackNext, D!AddFront, Stack
    <3> QED BY <3>10
  <2>5. CASE Unlink(t)
    <3>1. UNCHANGED contents /\ got' = [got EXCEPT ![t] = contents[slot[t]]]
      BY <2>5 DEF Unlink
    <3>2. /\ count \in Nat /\ count > 0 /\ count' = count - 1
          /\ Walk[1] = slot[t]
          /\ \A n \in 1 .. count - 1 : Walk'[n] = Walk[n + 1]
      BY <2>5, UnlinkWalk
    <3>3. \A n \in 1 .. count - 1 : n + 1 \in 1 .. count
      BY <3>2
    <3>4. Stack' = [n \in 1 .. count - 1 |-> Stack[n + 1]] /\ Stack[1] = contents[slot[t]]
      BY <3>1, <3>2, <3>3 DEF Stack
    <3>5. Stack \in Seq(Tasks) /\ Len(Stack) = count
      BY StackType
    <3> HIDE DEF Stack
    <3>6. /\ Stack # << >>
          /\ Head(Stack) = Stack[1]
          /\ Tail(Stack) = [n \in 1 .. count - 1 |-> Stack[n + 1]]
      <4>1. Stack # << >>
        BY <3>2, <3>5
      <4>2. Head(Stack) = Stack[1]
        BY <3>2, <3>5
      <4>3. Tail(Stack) = [n \in 1 .. count - 1 |-> Stack[n + 1]]
        <5>1. /\ Tail(Stack) \in Seq(Tasks) /\ Len(Tail(Stack)) = count - 1
              /\ \A n \in 1 .. count - 1 : Tail(Stack)[n] = Stack[n + 1]
          BY <3>5, <4>1, HeadTailProperties
        <5>2. Tail(Stack) \in [1 .. count - 1 -> Tasks]
          BY <5>1, LenProperties
        <5>3. Tail(Stack) = [n \in 1 .. count - 1 |-> Tail(Stack)[n]]
          BY <5>2
        <5> QED BY <5>1, <5>3
      <4> QED BY <4>1, <4>2, <4>3
    <3>7. D!GetFront(t)
      BY <3>1, <3>4, <3>6 DEF D!GetFront, Stack
    <3> QED BY <3>7 DEF D!StackNext
  <2>6. CASE GetNone(t)
    <3>1. UNCHANGED <<head, count, next, contents>> /\ count = 0 /\ got' = [got EXCEPT ![t] = None]
      BY <2>6 DEF GetNone, list
    <3>2. Walk' = Walk
      BY <3>1, SameList DEF list
    <3>3. Stack' = Stack
      BY <3>1, <3>2, SameStack
    <3>4. Stack \in Seq(Tasks) /\ Len(Stack) = 0
      BY <3>1, StackType
    <3> HIDE DEF Stack
    <3>5. Stack = << >>
      BY <3>4
    <3>6. D!GetNothing(t)
      BY <3>1, <3>3, <3>5 DEF D!GetNothing, Stack
    <3> QED BY <3>6 DEF D!StackNext
  <2> QED
    BY <1>2, <2>1, <2>2, <2>3, <2>4, <2>5, <2>6 DEF ThreadStep
<1> QED
  BY <1>1, <1>2 DEF Next

(* The list the threads link and unlink under lock is a stack: what          *)
(* task_queue_add_atomic and task_queue_get_atomic do is a push or a pop, or *)
(* the answer of an empty stack, all else leaves the stack alone.            *)
THEOREM QueueIsStack == Spec => ImplementsStack
<1>1. Init => D!DequeInit
  <2> SUFFICES ASSUME Init PROVE D!DequeInit
    OBVIOUS
  <2>1. count = 0 /\ got = [t \in Threads |-> None]
    BY DEF Init
  <2>2. Stack \in Seq(Tasks) /\ Len(Stack) = 0
    BY <2>1, InitQueue, StackType
  <2> HIDE DEF Stack
  <2>3. Stack = << >>
    BY <2>2
  <2> QED BY <2>1, <2>3 DEF D!DequeInit, Stack
<1>2. QueueInv /\ QueueInv' /\ [Next]_vars => [D!StackNext]_D!dequeVars
  BY StackStep
<1> QED
  BY <1>1, <1>2, QueueInvariant, PTL DEF Spec, ImplementsStack, D!StackSafety

------------------------------------------------------------------------------
(* The barrier *)

Waiting == {t \in Team : at[t] = "waiting"}

LEMMA NeededPositive == needed \in Nat /\ needed > 0
  BY BarrierAssumption, FS_CardinalityType, FS_EmptySet DEF needed

LEMMA InitWait == WaitInit => WaitInv
<1> SUFFICES ASSUME WaitInit PROVE WaitInv
  OBVIOUS
<1>1. {t \in Team : at[t] = "waiting"} = {}
  BY DEF WaitInit
<1>2. Cardinality({t \in Team : at[t] = "waiting"}) = 0
  BY <1>1, FS_EmptySet
<1>3. WaitTypeOK
  BY DEF WaitInit, WaitTypeOK, PCs
<1>4. \A t \in Team : mutex # t
  BY BarrierAssumption DEF WaitInit
<1> QED
  BY <1>2, <1>3, <1>4, NeededPositive DEF WaitInit, WaitInv, RoundInv, Holding

(* The thread that completes the count finds every other thread asleep. *)
LEMMA LastArrivalSeesAll ==
  ASSUME WaitInv, NEW t \in Team, at[t] = "locked", called + 1 = needed
  PROVE  \A u \in Team \ {t} : at[u] = "waiting"
<1>1. Waiting \subseteq Team \ {t}
  BY DEF Waiting
<1>2. IsFiniteSet(Team \ {t})
  BY BarrierAssumption, FS_RemoveElement
<1>3. Cardinality(Team \ {t}) = needed - 1
  BY BarrierAssumption, FS_RemoveElement DEF needed
<1>4. Cardinality(Waiting) = needed - 1
  BY NeededPositive DEF WaitInv, RoundInv, Waiting, WaitTypeOK
<1>5. Waiting = Team \ {t}
  BY <1>1, <1>2, <1>3, <1>4, FS_Subset
<1> QED
  BY <1>5 DEF Waiting

LEMMA NextWait == WaitInv /\ [WaitNext]_waitVars => WaitInv'
<1> SUFFICES ASSUME WaitInv, [WaitNext]_waitVars PROVE WaitInv'
  OBVIOUS
<1> USE DEF WaitInv
<1>n. needed' = needed
  BY DEF needed
<1>u. CASE UNCHANGED waitVars
  BY <1>u, <1>n DEF waitVars, WaitTypeOK, RoundInv, Holding
<1>1. ASSUME NEW t \in Team, Lock(t) PROVE WaitInv'
  <2>1. {u \in Team : at'[u] = "waiting"} = {u \in Team : at[u] = "waiting"}
    BY <1>1 DEF Lock, WaitTypeOK
  <2>2. WaitTypeOK'
    BY <1>1 DEF Lock, WaitTypeOK, PCs
  <2>3. RoundInv'
    BY <1>1, <1>n, <2>1, BarrierAssumption DEF Lock, WaitTypeOK, RoundInv, Holding
  <2> QED BY <2>2, <2>3
<1>2. ASSUME NEW t \in Team, Broadcast(t) PROVE WaitInv'
  <2>1. \A u \in Team \ {t} : at[u] = "waiting"
    BY <1>2, LastArrivalSeesAll DEF Broadcast
  <2>2. WaitTypeOK'
    BY <1>2 DEF Broadcast, WaitTypeOK, PCs
  <2>3. at' = [u \in Team |-> IF u = t THEN "unlock" ELSE "woken"]
    BY <1>2, <2>1 DEF Broadcast
  <2>4. {u \in Team : at'[u] = "waiting"} = {}
    BY <2>3
  <2>5. Cardinality({u \in Team : at'[u] = "waiting"}) = 0
    BY <2>4, FS_EmptySet
  <2>6. RoundInv'
    BY <1>2, <1>n, <2>1, <2>3, <2>5, NeededPositive
    DEF Broadcast, WaitTypeOK, RoundInv, Holding
  <2> QED BY <2>2, <2>6
<1>3. ASSUME NEW t \in Team, CondWait(t) PROVE WaitInv'
  <2>1. {u \in Team : at'[u] = "waiting"} = Waiting \cup {t}
    BY <1>3 DEF CondWait, WaitTypeOK, Waiting
  <2>2. t \notin Waiting /\ IsFiniteSet(Waiting)
    BY <1>3, BarrierAssumption, FS_Subset DEF CondWait, Waiting
  <2>3. Cardinality(Waiting \cup {t}) = called + 1
    BY <2>2, FS_AddElement DEF Waiting, RoundInv, WaitTypeOK
  <2>4. WaitTypeOK'
    BY <1>3 DEF CondWait, WaitTypeOK, PCs
  <2>5. called + 1 < needed
    BY <1>3, NeededPositive DEF CondWait, RoundInv, WaitTypeOK
  <2>6. RoundInv'
    BY <1>3, <1>n, <2>1, <2>3, <2>5, BarrierAssumption
    DEF CondWait, WaitTypeOK, RoundInv, Holding
  <2> QED BY <2>4, <2>6
<1>4. ASSUME NEW t \in Team, Relock(t) PROVE WaitInv'
  <2>1. {u \in Team : at'[u] = "waiting"} = {u \in Team : at[u] = "waiting"}
    BY <1>4 DEF Relock, WaitTypeOK
  <2>2. WaitTypeOK'
    BY <1>4 DEF Relock, WaitTypeOK, PCs
  <2>3. RoundInv'
    BY <1>4, <1>n, <2>1, BarrierAssumption DEF Relock, WaitTypeOK, RoundInv, Holding
  <2> QED BY <2>2, <2>3
<1>5. ASSUME NEW t \in Team, Unlock(t) PROVE WaitInv'
  <2>1. {u \in Team : at'[u] = "waiting"} = {u \in Team : at[u] = "waiting"}
    BY <1>5 DEF Unlock, WaitTypeOK
  <2>2. WaitTypeOK'
    BY <1>5 DEF Unlock, WaitTypeOK, PCs
  <2>3. RoundInv'
    BY <1>5, <1>n, <2>1, BarrierAssumption DEF Unlock, WaitTypeOK, RoundInv, Holding
  <2> QED BY <2>2, <2>3
<1>6. CASE Terminated
  BY <1>6, <1>u DEF Terminated
<1> QED
  BY <1>u, <1>1, <1>2, <1>3, <1>4, <1>5, <1>6 DEF WaitNext, WaitStep

(* Every state barrier_wait can reach satisfies the inductive invariant. *)
THEOREM BarrierInvariant == WaitSafety => []WaitInv
<1> QED BY InitWait, NextWait, PTL DEF WaitSafety

(* No thread returns from its n-th barrier_wait before every thread of the  *)
(* team, whatever its size, has been counted in its own n-th wait.          *)
THEOREM BarrierIsSafe == WaitSafety => []NobodyLeavesEarly
<1>1. WaitInv => NobodyLeavesEarly
  BY DEF WaitInv, WaitTypeOK, RoundInv, NobodyLeavesEarly, PCs
<1> QED BY <1>1, BarrierInvariant, PTL

(* barrier_wait implements the safety of the abstract barrier: counting a   *)
(* thread in is Enter, its return is Leave, everything else is invisible.   *)
THEOREM BarrierRefinement == WaitSafety => B!BarrierSafety
<1>1. WaitInit => B!BarrierInit
  BY DEF WaitInit, B!BarrierInit
<1>2. WaitInv /\ [WaitNext]_waitVars => [B!BarrierNext]_(B!barrierVars)
  <2> SUFFICES ASSUME WaitInv, [WaitNext]_waitVars PROVE [B!BarrierNext]_(B!barrierVars)
    OBVIOUS
  <2> USE DEF WaitInv, WaitTypeOK, RoundInv, B!barrierVars
  <2>1. ASSUME NEW t \in Team, Lock(t) \/ Relock(t) PROVE UNCHANGED B!barrierVars
    BY <2>1 DEF Lock, Relock
  <2>2. ASSUME NEW t \in Team, Broadcast(t) \/ CondWait(t) PROVE B!Enter(t)
    BY <2>2, BarrierAssumption DEF Broadcast, CondWait, B!Enter
  <2>3. ASSUME NEW t \in Team, Unlock(t) PROVE B!Leave(t)
    BY <2>3 DEF Unlock, B!Leave, PCs
  <2>4. CASE UNCHANGED waitVars
    BY <2>4 DEF waitVars
  <2>5. CASE Terminated
    BY <2>5 DEF Terminated, waitVars
  <2> QED
    BY <2>1, <2>2, <2>3, <2>4, <2>5 DEF WaitNext, WaitStep, B!BarrierNext
<1> QED
  BY <1>1, <1>2, BarrierInvariant, PTL DEF WaitSafety, B!BarrierSafety
==============================================================================
