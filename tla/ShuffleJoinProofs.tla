-------------------------- MODULE ShuffleJoinProofs --------------------------
(***************************************************************************)
(* The shuffle join counts every equal-key pair exactly once, for every     *)
(* number of threads, all relations, keys and arrival times, either         *)
(* shuffler and every interleaving.                                         *)
(***************************************************************************)
EXTENDS ShuffleJoin, JoinBaseProofs

(* What the assumptions say about the constants, in the form steps use. *)
LEMMA Sizes == numR \in Nat /\ numS \in Nat /\ nthreads \in Nat \ {0}
  BY JoinAssumption, ArrivalAssumption

LEMMA OwnerUnique ==
  ASSUME NEW n \in Nat, NEW k \in Nat, NEW t \in Threads, NEW u \in Threads,
         Owns(n, t, k), Owns(n, u, k)
  PROVE  t = u
  BY ShareUnique DEF Owns

LEMMA InitInv == Init => IInv
<1> SUFFICES ASSUME Init PROVE IInv
  OBVIOUS
<1> USE Sizes
<1>1. TypeOK
  BY ShareType DEF Init, TypeOK, PCs, Started, NoTuple, EmptyR, EmptyS, EmptyOut
<1>2. PushInv
  BY ShareType DEF Init, PushInv, NoTuple, Owns, RIdx, SIdx
<1>3. CopiesRInv
  BY ShareType DEF Init, CopiesRInv, CopiesR, NoTuple, Owns, EmptyR, RIdx
<1>4. CopiesSInv
  BY ShareType DEF Init, CopiesSInv, CopyOfS, CopiesS, NoTuple, Owns, EmptyS, SIdx
<1>5. OutInv
  BY DEF Init, OutInv, EmptyR, EmptyS, EmptyOut
<1>6. PhaseInv
  BY DEF Init, PhaseInv, Fetched, Drained
<1> QED
  BY <1>1, <1>2, <1>3, <1>4, <1>5, <1>6 DEF IInv

------------------------------------------------------------------------------
(* Steps that move a thread on but touch no tuple. *)
Quiet == UNCHANGED <<idxR, idxS, curR, curS, targets, qR, qS, htR, htS, out>>

LEMMA QuietStep ==
  ASSUME IInv, Quiet, TypeOK',
         \A t \in Threads : (pc[t] # "push" /\ pc'[t] # "push") \/ pc'[t] = pc[t]
  PROVE  PushInv' /\ CopiesRInv' /\ CopiesSInv' /\ OutInv'
<1> USE DEF IInv, Quiet
<1>1. PushInv'
  BY DEF PushInv, Owns, TypeOK
<1>2. CopiesRInv'
  BY DEF CopiesRInv, CopiesR, Owns
<1>3. CopiesSInv'
  BY DEF CopiesSInv, CopyOfS, CopiesS, Owns
<1>4. OutInv'
  BY DEF OutInv
<1> QED
  BY <1>1, <1>2, <1>3, <1>4

LEMMA BarrierSteps ==
  ASSUME IInv, NEW t \in Threads,
         Arrive(t) \/ Start(t) \/ StartDrain(t) \/ Exit(t)
  PROVE  IInv'
<1>1. Quiet /\ UNCHANGED <<now, tryR>>
  BY DEF Arrive, Start, StartDrain, Exit, Quiet
<1>2. TypeOK'
  BY <1>1 DEF Arrive, Start, StartDrain, Exit, Quiet, CrossBarrier, Goto,
              IInv, TypeOK, PCs, Started
<1>3. \A u \in Threads : (pc[u] # "push" /\ pc'[u] # "push") \/ pc'[u] = pc[u]
  BY DEF Arrive, Start, StartDrain, Exit, CrossBarrier, Goto, IInv, TypeOK
<1>4. PhaseInv'
  BY <1>1 DEF Arrive, Start, StartDrain, Exit, CrossBarrier, Goto, Quiet, finish, QueueEmpty,
              IInv, TypeOK, PhaseInv, Fetched, Drained, Started
<1> QED
  BY <1>1, <1>2, <1>3, <1>4, QuietStep DEF IInv

LEMMA IdleSteps ==
  ASSUME IInv, NEW t \in Threads,
         FetchMiss(t) \/ PullNothing(t) \/ DrainEnd(t)
  PROVE  IInv'
<1>1. Quiet /\ UNCHANGED now
  BY DEF FetchMiss, PullNothing, DrainEnd, Quiet
<1>2. TypeOK'
  BY <1>1 DEF FetchMiss, PullNothing, DrainEnd, LoopTest, Quiet, Goto,
              IInv, TypeOK, PCs, Started
<1>3. \A u \in Threads : (pc[u] # "push" /\ pc'[u] # "push") \/ pc'[u] = pc[u]
  BY DEF FetchMiss, PullNothing, DrainEnd, LoopTest, Goto, IInv, TypeOK
<1>4. PhaseInv'
  BY <1>1 DEF FetchMiss, PullNothing, DrainEnd, LoopTest, Goto, Quiet, finish, QueueEmpty,
              IInv, TypeOK, PhaseInv, Fetched, Drained, Started
<1> QED
  BY <1>1, <1>2, <1>3, <1>4, QuietStep DEF IInv

------------------------------------------------------------------------------
(* Fetching: the tuple gets its copies, all still to be pushed. *)
LEMMA PushSetsR ==
  ASSUME NEW k \in Nat, NEW T \in PushSets(TRUE, k)
  PROVE  T = Responsible(k) /\ T \subseteq Threads
<1>1. T = Responsible(k)
  BY DEF PushSets, Responsible
<1>2. k % nthreads \in Threads
  BY Sizes DEF Threads
<1> QED
  BY <1>1, <1>2 DEF Responsible, Group

LEMMA PushSetsS ==
  ASSUME NEW k \in Nat, NEW T \in PushSets(FALSE, k)
  PROVE  \E v \in Responsible(k) \cap Threads : T = {v}
<1>1. k % nthreads \in Threads
  BY Sizes DEF Threads
<1> QED
  BY <1>1 DEF PushSets, Responsible, Group

LEMMA FetchRStep == ASSUME IInv, NEW t \in Threads, FetchR(t) PROVE IInv'
<1> DEFINE i == idxR[t]
<1> USE DEF IInv
<1>1. i \in RIdx /\ i \in Nat /\ Owns(numR, t, i) /\ i + 1 <= ShareEnd(numR, t)
  <2>1. ShareEnd(numR, t) \in Nat /\ ShareEnd(numR, t) <= numR
    BY ShareType, Sizes
  <2>2. i \in Nat /\ i < ShareEnd(numR, t) /\ ShareBegin(numR, t) <= i
    BY DEF FetchR, TypeOK, PushInv
  <2> QED
    BY <2>1, <2>2, Sizes DEF Owns, RIdx
<1>2. PICK T \in PushSets(TRUE, KeyR[i]) : targets' = [targets EXCEPT ![t] = T]
  BY DEF FetchR
<1>3. KeyR[i] \in Nat
  BY <1>1, JoinAssumption, ArrivalAssumption
<1>4. T = Responsible(KeyR[i]) /\ T \subseteq Threads
  BY <1>2, <1>3, PushSetsR
<1>5. curR[t] = NoTuple /\ curS[t] = NoTuple
  BY DEF FetchR, PushInv
<1>6. /\ curR' = [curR EXCEPT ![t] = i]
      /\ idxR' = [idxR EXCEPT ![t] = i + 1]
      /\ pc' = [pc EXCEPT ![t] = "push"]
      /\ UNCHANGED <<now, idxS, curS, qR, qS, htR, htS, out>>
  BY DEF FetchR, Goto
<1>7. TypeOK'
  <2>1. tryR' \in [Threads -> BOOLEAN]
    BY DEF FetchR, TypeOK
  <2>2. targets' \in [Threads -> SUBSET Threads]
    BY <1>2, <1>4 DEF TypeOK
  <2>3. pc' \in [Threads -> PCs]
    BY <1>6 DEF TypeOK, PCs, Started
  <2>4. curR' \in [Threads -> RIdx \cup {NoTuple}] /\ idxR' \in [Threads -> Nat]
    BY <1>1, <1>6 DEF TypeOK
  <2>5. \A o \in Threads : idxR'[o] <= ShareEnd(numR, o)
    BY <1>1, <1>6 DEF TypeOK
  <2> QED
    BY <1>6, <2>1, <2>2, <2>3, <2>4, <2>5 DEF TypeOK
<1>8. PushInv'
  <2>1. i # NoTuple /\ i < i + 1 /\ ShareBegin(numR, t) <= i + 1
    BY <1>1, ShareType, Sizes DEF NoTuple, Owns
  <2>2. ASSUME NEW o \in Threads PROVE
          /\ ShareBegin(numR, o) <= idxR'[o] /\ ShareBegin(numS, o) <= idxS'[o]
          /\ pc'[o] # "push" => curR'[o] = NoTuple /\ curS'[o] = NoTuple
          /\ curR'[o] = NoTuple \/ curS'[o] = NoTuple
          /\ curR'[o] # NoTuple => Owns(numR, o, curR'[o]) /\ curR'[o] < idxR'[o]
          /\ curS'[o] # NoTuple => Owns(numS, o, curS'[o]) /\ curS'[o] < idxS'[o]
          /\ pc'[o] = "push" => curR'[o] # NoTuple \/ curS'[o] # NoTuple
    <3>1. CASE o = t
      BY <3>1, <2>1, <1>1, <1>5, <1>6 DEF TypeOK, PushInv
    <3>2. CASE o # t
      BY <3>2, <1>6 DEF TypeOK, PushInv
    <3> QED
      BY <3>1, <3>2
  <2> QED
    BY <2>2 DEF PushInv, Owns
<1>9. CopiesRInv'
  <2> SUFFICES ASSUME NEW o \in Threads, NEW u \in Threads, NEW k \in RIdx, Owns(numR, o, k)
               PROVE  CopiesR(o, u, k)' =
                        IF k < idxR'[o] /\ u \in Responsible(KeyR[k]) THEN 1 ELSE 0
    BY DEF CopiesRInv, Owns, Responsible, Group
  <2>0. k # NoTuple /\ k \in Nat
    BY Sizes DEF RIdx, NoTuple
  <2>1. CASE o # t
    BY <2>1, <1>2, <1>6 DEF CopiesRInv, CopiesR, TypeOK
  <2>2. CASE o = t /\ k # i
    <3>1. curR'[t] # k /\ curR[t] # k
      BY <2>0, <2>2, <1>5, <1>6 DEF TypeOK
    <3>2. k < idxR'[t] <=> k < idxR[t]
      <4>1. idxR'[t] = i + 1
        BY <1>6 DEF TypeOK
      <4>2. k \in Nat /\ i \in Nat /\ k # i
        BY <2>0, <2>2, <1>1
      <4>3. k < i + 1 <=> k < i
        BY <4>2
      <4> QED
        BY <4>1, <4>3
    <3>3. CopiesR(o, u, k)' = CopiesR(o, u, k)
      BY <2>2, <3>1, <1>6 DEF CopiesR
    <3> QED
      BY <2>2, <3>2, <3>3 DEF CopiesRInv
  <2>3. CASE o = t /\ k = i
    <3>0. curR[t] # i /\ ~ (i < idxR[t])
      BY <2>0, <2>3, <1>5
    <3>1. qR[u][i] = 0 /\ htR[u][i] = 0
      <4>1. qR[u][i] \in Nat /\ htR[u][i] \in Nat
        BY <1>1 DEF TypeOK
      <4>2. CopiesR(t, u, i) = 0
        BY <1>1, <3>0 DEF CopiesRInv
      <4> QED
        BY <4>1, <4>2, <3>0 DEF CopiesR
    <3>2. curR'[t] = i /\ targets'[t] = T /\ i < idxR'[t]
      BY <1>1, <1>2, <1>6 DEF TypeOK
    <3> QED
      BY <2>3, <3>1, <3>2, <1>4, <1>6 DEF CopiesR
  <2> QED
    BY <2>1, <2>2, <2>3
<1>10. CopiesSInv'
  <2>1. \A o, u \in Threads, j \in SIdx : CopiesS(o, u, j)' = CopiesS(o, u, j)
    <3> SUFFICES ASSUME NEW o \in Threads, NEW u \in Threads, NEW j \in SIdx
                 PROVE  CopiesS(o, u, j)' = CopiesS(o, u, j)
      OBVIOUS
    <3>1. j # NoTuple
      BY Sizes DEF SIdx, NoTuple
    <3>2. o # t => targets'[o] = targets[o]
      BY <1>2 DEF TypeOK
    <3> QED
      BY <3>1, <3>2, <1>5, <1>6 DEF CopiesS
  <2> QED
    BY <2>1, <1>6 DEF CopiesSInv, CopyOfS, Owns
<1>11. OutInv'
  BY <1>6 DEF OutInv
<1>12. PhaseInv'
  BY <1>6 DEF FetchR, PhaseInv, Fetched, Drained, finish, QueueEmpty, TypeOK
<1> QED
  BY <1>7, <1>8, <1>9, <1>10, <1>11, <1>12

LEMMA FetchSStep == ASSUME IInv, NEW t \in Threads, FetchS(t) PROVE IInv'
<1> DEFINE i == idxS[t]
<1> USE DEF IInv
<1>1. i \in SIdx /\ i \in Nat /\ Owns(numS, t, i) /\ i + 1 <= ShareEnd(numS, t)
  <2>1. ShareEnd(numS, t) \in Nat /\ ShareEnd(numS, t) <= numS
    BY ShareType, Sizes
  <2>2. i \in Nat /\ i < ShareEnd(numS, t) /\ ShareBegin(numS, t) <= i
    BY DEF FetchS, TypeOK, PushInv
  <2> QED
    BY <2>1, <2>2, Sizes DEF Owns, SIdx
<1>2. PICK T \in PushSets(FALSE, KeyS[i]) : targets' = [targets EXCEPT ![t] = T]
  BY DEF FetchS
<1>3. KeyS[i] \in Nat
  BY <1>1, JoinAssumption, ArrivalAssumption
<1>4. PICK v \in Responsible(KeyS[i]) \cap Threads : T = {v}
  BY <1>2, <1>3, PushSetsS
<1>5. curR[t] = NoTuple /\ curS[t] = NoTuple
  BY DEF FetchS, PushInv
<1>6. /\ curS' = [curS EXCEPT ![t] = i]
      /\ idxS' = [idxS EXCEPT ![t] = i + 1]
      /\ pc' = [pc EXCEPT ![t] = "push"]
      /\ UNCHANGED <<now, idxR, curR, qR, qS, htR, htS, out>>
  BY DEF FetchS, Goto
<1>7. TypeOK'
  <2>1. tryR' \in [Threads -> BOOLEAN]
    BY DEF FetchS, TypeOK
  <2>2. targets' \in [Threads -> SUBSET Threads]
    BY <1>2, <1>4 DEF TypeOK
  <2>3. pc' \in [Threads -> PCs]
    BY <1>6 DEF TypeOK, PCs, Started
  <2>4. curS' \in [Threads -> SIdx \cup {NoTuple}] /\ idxS' \in [Threads -> Nat]
    BY <1>1, <1>6 DEF TypeOK
  <2>5. \A o \in Threads : idxS'[o] <= ShareEnd(numS, o)
    BY <1>1, <1>6 DEF TypeOK
  <2> QED
    BY <1>6, <2>1, <2>2, <2>3, <2>4, <2>5 DEF TypeOK
<1>8. PushInv'
  <2>1. i # NoTuple /\ i < i + 1 /\ ShareBegin(numS, t) <= i + 1
    BY <1>1, ShareType, Sizes DEF NoTuple, Owns
  <2>2. ASSUME NEW o \in Threads PROVE
          /\ ShareBegin(numR, o) <= idxR'[o] /\ ShareBegin(numS, o) <= idxS'[o]
          /\ pc'[o] # "push" => curR'[o] = NoTuple /\ curS'[o] = NoTuple
          /\ curR'[o] = NoTuple \/ curS'[o] = NoTuple
          /\ curR'[o] # NoTuple => Owns(numR, o, curR'[o]) /\ curR'[o] < idxR'[o]
          /\ curS'[o] # NoTuple => Owns(numS, o, curS'[o]) /\ curS'[o] < idxS'[o]
          /\ pc'[o] = "push" => curR'[o] # NoTuple \/ curS'[o] # NoTuple
    <3>1. CASE o = t
      BY <3>1, <2>1, <1>1, <1>5, <1>6 DEF TypeOK, PushInv
    <3>2. CASE o # t
      BY <3>2, <1>6 DEF TypeOK, PushInv
    <3> QED
      BY <3>1, <3>2
  <2> QED
    BY <2>2 DEF PushInv, Owns
<1>9. CopiesRInv'
  <2>1. \A o, u \in Threads, k \in RIdx : CopiesR(o, u, k)' = CopiesR(o, u, k)
    <3> SUFFICES ASSUME NEW o \in Threads, NEW u \in Threads, NEW k \in RIdx
                 PROVE  CopiesR(o, u, k)' = CopiesR(o, u, k)
      OBVIOUS
    <3>1. k # NoTuple
      BY Sizes DEF RIdx, NoTuple
    <3>2. o # t => targets'[o] = targets[o]
      BY <1>2 DEF TypeOK
    <3> QED
      BY <3>1, <3>2, <1>5, <1>6 DEF CopiesR
  <2> QED
    BY <2>1, <1>6 DEF CopiesRInv, Owns
<1>10. CopiesSInv'
  <2> SUFFICES ASSUME NEW o \in Threads, NEW j \in SIdx, Owns(numS, o, j)
               PROVE  CopyOfS(o, j)'
    BY DEF CopiesSInv, Owns
  <2>0. j # NoTuple /\ j \in Nat
    BY Sizes DEF SIdx, NoTuple
  <2>1. CASE o # t \/ j # i
    <3>1. ASSUME NEW u \in Threads PROVE CopiesS(o, u, j)' = CopiesS(o, u, j)
      BY <2>0, <2>1, <1>2, <1>5, <1>6 DEF CopiesS, TypeOK
    <3>2. j < idxS'[o] <=> j < idxS[o]
      <4>1. CASE o # t
        BY <4>1, <1>6 DEF TypeOK
      <4>2. CASE o = t
        <5>1. idxS'[t] = i + 1
          BY <1>6 DEF TypeOK
        <5>2. j \in Nat /\ i \in Nat /\ j # i
          BY <2>0, <2>1, <4>2, <1>1
        <5>3. j < i + 1 <=> j < i
          BY <5>2
        <5> QED
          BY <4>2, <5>1, <5>3
      <4> QED
        BY <4>1, <4>2
    <3> QED
      BY <3>1, <3>2 DEF CopyOfS, CopiesSInv
  <2>2. CASE o = t /\ j = i
    <3>0. curS[t] # i /\ ~ (i < idxS[t])
      BY <2>0, <2>2, <1>1, <1>5
    <3>1. ASSUME NEW u \in Threads PROVE qS[u][i] = 0 /\ htS[u][i] = 0
      <4>1. qS[u][i] \in Nat /\ htS[u][i] \in Nat
        BY <1>1 DEF TypeOK
      <4>2. CopiesS(t, u, i) = 0
        BY <1>1, <3>0 DEF CopiesSInv, CopyOfS
      <4> QED
        BY <4>1, <4>2, <3>0 DEF CopiesS
    <3>2. curS'[t] = i /\ targets'[t] = {v} /\ i < idxS'[t]
      BY <1>1, <1>2, <1>4, <1>6 DEF TypeOK
    <3>3. ASSUME NEW u \in Threads
          PROVE  CopiesS(o, u, j)' = IF u = v THEN 1 ELSE 0
      BY <2>2, <3>1, <3>2, <1>6 DEF CopiesS
    <3> QED
      BY <2>2, <3>2, <3>3, <1>4 DEF CopyOfS, Responsible, Group
  <2> QED
    BY <2>1, <2>2
<1>11. OutInv'
  BY <1>6 DEF OutInv
<1>12. PhaseInv'
  BY <1>6 DEF FetchS, PhaseInv, Fetched, Drained, finish, QueueEmpty, TypeOK
<1> QED
  BY <1>7, <1>8, <1>9, <1>10, <1>11, <1>12

------------------------------------------------------------------------------
(* Steps that only move copies: from the pusher to a queue, from a queue to *)
(* a window.                                                                *)
Moved == /\ \A o, u \in Threads, k \in RIdx :
               Owns(numR, o, k) => CopiesR(o, u, k)' = CopiesR(o, u, k)
         /\ \A o, u \in Threads, k \in SIdx :
               Owns(numS, o, k) => CopiesS(o, u, k)' = CopiesS(o, u, k)

LEMMA MovedStep ==
  ASSUME IInv, Moved, UNCHANGED <<idxR, idxS>>
  PROVE  CopiesRInv' /\ CopiesSInv'
<1> USE DEF IInv, Moved
<1>1. CopiesRInv'
  BY DEF CopiesRInv, Owns
<1>2. CopiesSInv'
  <2> SUFFICES ASSUME NEW o \in Threads, NEW j \in SIdx, Owns(numS, o, j)
               PROVE  CopyOfS(o, j)'
    BY DEF CopiesSInv, Owns
  <2>1. CopyOfS(o, j)
    BY DEF CopiesSInv
  <2>2. \A u \in Threads : CopiesS(o, u, j)' = CopiesS(o, u, j)
    OBVIOUS
  <2> QED
    BY <2>1, <2>2 DEF CopyOfS
<1> QED
  BY <1>1, <1>2

(* A tuple has at most one copy in a queue or window of a given thread.     *)
LEMMA OneCopy ==
  ASSUME IInv, NEW u \in Threads
  PROVE  /\ \A i \in RIdx : qR[u][i] + htR[u][i] \in {0, 1}
         /\ \A j \in SIdx : qS[u][j] + htS[u][j] \in {0, 1}
<1> USE DEF IInv
<1>1. ASSUME NEW i \in RIdx PROVE qR[u][i] + htR[u][i] \in {0, 1}
  <2>1. PICK o \in Threads : Owns(numR, o, i)
    BY ShareExists, Sizes DEF RIdx, Owns
  <2>2. CopiesR(o, u, i) \in {0, 1}
    BY <2>1 DEF CopiesRInv
  <2>3. qR[u][i] \in Nat /\ htR[u][i] \in Nat
    BY DEF TypeOK
  <2> QED
    BY <2>2, <2>3 DEF CopiesR
<1>2. ASSUME NEW j \in SIdx PROVE qS[u][j] + htS[u][j] \in {0, 1}
  <2>1. PICK o \in Threads : Owns(numS, o, j)
    BY ShareExists, Sizes DEF SIdx, Owns
  <2>2. CopiesS(o, u, j) \in {0, 1}
    BY <2>1 DEF CopiesSInv, CopyOfS
  <2>3. qS[u][j] \in Nat /\ htS[u][j] \in Nat
    BY DEF TypeOK
  <2> QED
    BY <2>2, <2>3 DEF CopiesS
<1> QED
  BY <1>1, <1>2

LEMMA BagUpdate ==
  ASSUME NEW I, NEW q \in [Threads -> [I -> Nat]], NEW u \in Threads, NEW i \in I, NEW x \in Nat
  PROVE  /\ [q EXCEPT ![u][i] = x] \in [Threads -> [I -> Nat]]
         /\ \A w \in Threads, k \in I :
              [q EXCEPT ![u][i] = x][w][k] = IF w = u /\ k = i THEN x ELSE q[w][k]
  OBVIOUS

LEMMA PushStep == ASSUME IInv, NEW t \in Threads, Push(t) PROVE IInv'
<1> USE DEF IInv
<1>1. PICK u \in targets[t] :
        /\ IF curR[t] # NoTuple THEN /\ qR' = [qR EXCEPT ![u][curR[t]] = @ + 1]
                                     /\ UNCHANGED qS
                                ELSE /\ qS' = [qS EXCEPT ![u][curS[t]] = @ + 1]
                                     /\ UNCHANGED qR
        /\ targets' = [targets EXCEPT ![t] = @ \ {u}]
        /\ IF targets[t] = {u} THEN EndPush(t) ELSE UNCHANGED <<curR, curS, pc>>
  BY DEF Push
<1>2. /\ u \in Threads /\ pc[t] = "push"
      /\ UNCHANGED <<now, idxR, idxS, tryR, htR, htS, out>>
  BY <1>1 DEF Push, TypeOK
<1>3. curR[t] # NoTuple => curR[t] \in RIdx /\ Owns(numR, t, curR[t]) /\ curS[t] = NoTuple
  BY DEF PushInv, TypeOK
<1>4. curR[t] = NoTuple => curS[t] \in SIdx /\ Owns(numS, t, curS[t])
  BY <1>2 DEF PushInv, TypeOK
<1>5. targets'[t] = targets[t] \ {u} /\ \A o \in Threads : o # t => targets'[o] = targets[o]
  BY <1>1 DEF TypeOK
<1>6. \A o \in Threads : o # t => curR'[o] = curR[o] /\ curS'[o] = curS[o] /\ pc'[o] = pc[o]
  BY <1>1 DEF EndPush, Goto, TypeOK
<1>7. \/ curR'[t] = curR[t] /\ curS'[t] = curS[t] /\ pc'[t] = pc[t]
      \/ /\ curR'[t] = NoTuple /\ curS'[t] = NoTuple /\ pc'[t] = "pull"
         /\ targets[t] = {u}
  BY <1>1 DEF EndPush, Goto, TypeOK
<1>q. /\ qR' \in [Threads -> [RIdx -> Nat]] /\ qS' \in [Threads -> [SIdx -> Nat]]
      /\ \A w \in Threads, k \in RIdx :
           qR'[w][k] = IF w = u /\ k = curR[t] THEN qR[w][k] + 1 ELSE qR[w][k]
      /\ \A w \in Threads, k \in SIdx :
           qS'[w][k] = IF w = u /\ k = curS[t] THEN qS[w][k] + 1 ELSE qS[w][k]
  <2>0. /\ qR \in [Threads -> [RIdx -> Nat]] /\ qS \in [Threads -> [SIdx -> Nat]]
        /\ NoTuple \notin RIdx /\ NoTuple \notin SIdx
    <3>1. NoTuple \notin RIdx /\ NoTuple \notin SIdx
      BY Sizes DEF NoTuple, RIdx, SIdx
    <3> QED
      BY <3>1 DEF TypeOK
  <2>1. CASE curR[t] # NoTuple
    <3>1. qR[u][curR[t]] + 1 \in Nat /\ curR[t] \in RIdx /\ curS[t] = NoTuple
      BY <2>0, <2>1, <1>2, <1>3
    <3>2. qR' = [qR EXCEPT ![u][curR[t]] = qR[u][curR[t]] + 1] /\ qS' = qS
      BY <2>1, <1>1
    <3>3. /\ qR' \in [Threads -> [RIdx -> Nat]]
          /\ \A w \in Threads, k \in RIdx :
               qR'[w][k] = IF w = u /\ k = curR[t] THEN qR[u][curR[t]] + 1 ELSE qR[w][k]
      <4> HIDE DEF IInv
      <4> QED
        BY <2>0, <3>1, <3>2, <1>2, BagUpdate, SMTT(60)
    <3>4. \A w \in Threads, k \in SIdx : ~ (w = u /\ k = curS[t])
      BY <2>0, <3>1
    <3> HIDE DEF IInv
    <3> QED
      BY <2>0, <3>2, <3>3, <3>4
  <2>2. CASE curR[t] = NoTuple
    <3>1. qS[u][curS[t]] + 1 \in Nat /\ curS[t] \in SIdx
      BY <2>0, <2>2, <1>2, <1>4
    <3>2. qS' = [qS EXCEPT ![u][curS[t]] = qS[u][curS[t]] + 1] /\ qR' = qR
      BY <2>2, <1>1
    <3>3. /\ qS' \in [Threads -> [SIdx -> Nat]]
          /\ \A w \in Threads, k \in SIdx :
               qS'[w][k] = IF w = u /\ k = curS[t] THEN qS[u][curS[t]] + 1 ELSE qS[w][k]
      <4> HIDE DEF IInv
      <4> QED
        BY <2>0, <3>1, <3>2, <1>2, BagUpdate, SMTT(60)
    <3>4. \A w \in Threads, k \in RIdx : ~ (w = u /\ k = curR[t])
      BY <2>0, <2>2
    <3> HIDE DEF IInv
    <3> QED
      BY <2>0, <3>2, <3>3, <3>4
  <2> QED
    BY <2>1, <2>2
<1>8. TypeOK'
  <2>1. targets' \in [Threads -> SUBSET Threads]
    BY <1>1 DEF TypeOK
  <2>3. curR' \in [Threads -> RIdx \cup {NoTuple}] /\ curS' \in [Threads -> SIdx \cup {NoTuple}]
    BY <1>1 DEF EndPush, TypeOK
  <2>4. pc' \in [Threads -> PCs]
    BY <1>1 DEF EndPush, Goto, TypeOK, PCs, Started
  <2> QED
    BY <1>2, <1>q, <2>1, <2>3, <2>4 DEF TypeOK
<1>9. PushInv'
  BY <1>2, <1>6, <1>7 DEF PushInv, Owns
<1>10. Moved
  <2>1. ASSUME NEW o \in Threads, NEW w \in Threads, NEW k \in RIdx, Owns(numR, o, k)
        PROVE  CopiesR(o, w, k)' = CopiesR(o, w, k)
    <3>0. k # NoTuple /\ k \in Nat
      BY Sizes DEF RIdx, NoTuple
    <3>1. qR[w][k] \in Nat /\ htR[w][k] \in Nat /\ htR'[w][k] = htR[w][k]
      BY <1>2 DEF TypeOK
    <3>2. CASE curR[t] = k
      <4>1. o = t
        BY <2>1, <3>0, <3>2, <1>3, OwnerUnique, Sizes
      <4>2. qR'[w][k] = IF w = u THEN qR[w][k] + 1 ELSE qR[w][k]
        BY <3>2, <1>q
      <4> QED
        BY <3>0, <3>1, <3>2, <4>1, <4>2, <1>1, <1>5, <1>7 DEF CopiesR
    <3>3. CASE curR[t] # k
      <4>1. qR'[w][k] = qR[w][k]
        BY <3>3, <1>q
      <4>2. curR'[o] = k <=> curR[o] = k
        BY <3>0, <3>3, <1>6, <1>7
      <4>3. curR[o] = k => targets'[o] = targets[o]
        BY <3>3, <1>5
      <4> QED
        BY <3>1, <4>1, <4>2, <4>3 DEF CopiesR
    <3> QED
      BY <3>2, <3>3
  <2>2. ASSUME NEW o \in Threads, NEW w \in Threads, NEW k \in SIdx, Owns(numS, o, k)
        PROVE  CopiesS(o, w, k)' = CopiesS(o, w, k)
    <3>0. k # NoTuple /\ k \in Nat
      BY Sizes DEF SIdx, NoTuple
    <3>1. qS[w][k] \in Nat /\ htS[w][k] \in Nat /\ htS'[w][k] = htS[w][k]
      BY <1>2 DEF TypeOK
    <3>2. CASE curS[t] = k
      <4>0. curR[t] = NoTuple
        BY <3>0, <3>2, <1>3
      <4>1. o = t
        BY <2>2, <3>0, <3>2, <4>0, <1>4, OwnerUnique, Sizes
      <4>2. qS'[w][k] = IF w = u THEN qS[w][k] + 1 ELSE qS[w][k]
        BY <3>2, <1>q
      <4> QED
        BY <3>0, <3>1, <3>2, <4>1, <4>2, <1>1, <1>5, <1>7 DEF CopiesS
    <3>3. CASE curS[t] # k
      <4>1. qS'[w][k] = qS[w][k]
        BY <3>3, <1>q
      <4>2. curS'[o] = k <=> curS[o] = k
        BY <3>0, <3>3, <1>6, <1>7
      <4>3. curS[o] = k => targets'[o] = targets[o]
        BY <3>3, <1>5
      <4> QED
        BY <3>1, <4>1, <4>2, <4>3 DEF CopiesS
    <3> QED
      BY <3>2, <3>3
  <2> QED
    BY <2>1, <2>2 DEF Moved
<1>11. CopiesRInv' /\ CopiesSInv'
  BY <1>2, <1>10, MovedStep
<1>12. OutInv'
  BY <1>2 DEF OutInv
<1>13. PhaseInv'
  <2>1. \A o \in Threads : pc[o] \notin Drained /\ pc[o] # "drain"
    BY <1>2 DEF PhaseInv, Fetched, Drained
  <2>2. \A o \in Threads : pc'[o] \notin Drained /\ pc'[o] # "drain"
    BY <2>1, <1>6, <1>7 DEF Drained
  <2>3. \A o \in Threads : pc'[o] \in Fetched => pc[o] = pc'[o]
    BY <1>6, <1>7 DEF Fetched
  <2> QED
    BY <1>2, <2>2, <2>3 DEF PhaseInv, Fetched, Drained, finish
<1> QED
  BY <1>8, <1>9, <1>11, <1>12, <1>13

LEMMA JoinRStep ==
  ASSUME IInv, NEW t \in Threads, NEW i \in RIdx, JoinR(t, i),
         UNCHANGED <<idxR, idxS, curR, curS, targets>>
  PROVE  /\ CopiesRInv' /\ CopiesSInv' /\ OutInv'
         /\ qR' \in [Threads -> [RIdx -> Nat]] /\ htR' \in [Threads -> [RIdx -> Nat]]
         /\ out' \in [Threads -> [RIdx -> [SIdx -> Nat]]]
         /\ \A o \in Threads : QueueEmpty(o) => QueueEmpty(o)'
<1> USE DEF IInv
<1>1. /\ qR[t][i] \in Nat /\ htR[t][i] \in Nat /\ qR[t][i] - 1 \in Nat
      /\ qR[t][i] + htR[t][i] \in {0, 1}
  <2>1. qR[t][i] \in Nat /\ htR[t][i] \in Nat /\ qR[t][i] > 0
    BY DEF TypeOK, JoinR
  <2>2. qR[t][i] + htR[t][i] \in {0, 1}
    BY OneCopy
  <2> QED
    BY <2>1, <2>2
<1>2. qR[t][i] = 1 /\ htR[t][i] = 0
  BY <1>1 DEF JoinR
<1>3. /\ qR' \in [Threads -> [RIdx -> Nat]]
      /\ \A w \in Threads, k \in RIdx :
           qR'[w][k] = IF w = t /\ k = i THEN 0 ELSE qR[w][k]
  <2>1. qR' = [qR EXCEPT ![t][i] = 0]
    BY <1>2 DEF JoinR
  <2>2. qR \in [Threads -> [RIdx -> Nat]] /\ 0 \in Nat
    BY DEF TypeOK
  <2> HIDE DEF IInv
  <2> QED
    BY <2>1, <2>2, BagUpdate
<1>4. /\ htR' \in [Threads -> [RIdx -> Nat]]
      /\ \A w \in Threads, k \in RIdx :
           htR'[w][k] = IF w = t /\ k = i THEN 1 ELSE htR[w][k]
  <2>1. htR' = [htR EXCEPT ![t][i] = 1]
    BY <1>2 DEF JoinR
  <2>2. htR \in [Threads -> [RIdx -> Nat]] /\ 1 \in Nat
    BY DEF TypeOK
  <2> HIDE DEF IInv
  <2> QED
    BY <2>1, <2>2, BagUpdate
<1>5. UNCHANGED <<qS, htS>>
  BY DEF JoinR
<1>6. Moved
  <2>1. ASSUME NEW o \in Threads, NEW w \in Threads, NEW k \in RIdx
        PROVE  CopiesR(o, w, k)' = CopiesR(o, w, k)
    <3>1. qR'[w][k] + htR'[w][k] = qR[w][k] + htR[w][k]
      BY <1>2, <1>3, <1>4
    <3>2. /\ qR'[w][k] \in Nat /\ htR'[w][k] \in Nat
          /\ qR[w][k] \in Nat /\ htR[w][k] \in Nat
      BY <1>3, <1>4 DEF TypeOK
    <3> QED
      BY <3>1, <3>2 DEF CopiesR
  <2>2. ASSUME NEW o \in Threads, NEW w \in Threads, NEW k \in SIdx
        PROVE  CopiesS(o, w, k)' = CopiesS(o, w, k)
    BY <1>5 DEF CopiesS
  <2> QED
    BY <2>1, <2>2 DEF Moved
<1>7. CopiesRInv' /\ CopiesSInv'
  BY <1>6, MovedStep
<1>8. /\ out' \in [Threads -> [RIdx -> [SIdx -> Nat]]]
      /\ \A w \in Threads, k \in RIdx, j \in SIdx :
           out'[w][k][j] = IF w = t /\ k = i /\ Matching(i, j)
                           THEN out[w][k][j] + htS[t][j] ELSE out[w][k][j]
  <2>0. out \in [Threads -> [RIdx -> [SIdx -> Nat]]] /\ htS[t] \in [SIdx -> Nat]
    BY DEF TypeOK
  <2>1. out' = [out EXCEPT ![t] = ProbeS(out[t], htS[t], i)]
    BY DEF JoinR
  <2>2. /\ ProbeS(out[t], htS[t], i) \in [RIdx -> [SIdx -> Nat]]
        /\ \A k \in RIdx, j \in SIdx :
              ProbeS(out[t], htS[t], i)[k][j] =
                IF k = i /\ Matching(i, j) THEN out[t][k][j] + htS[t][j] ELSE out[t][k][j]
    BY <2>0 DEF ProbeS
  <2> HIDE DEF IInv
  <2> QED
    BY <2>0, <2>1, <2>2
<1>9. OutInv'
  <2> SUFFICES ASSUME NEW w \in Threads, NEW k \in RIdx, NEW j \in SIdx
               PROVE  out'[w][k][j] = IF Matching(k, j) /\ htR'[w][k] = 1 /\ htS'[w][j] = 1
                                      THEN 1 ELSE 0
    BY DEF OutInv, Matching
  <2>1. out[w][k][j] = IF Matching(k, j) /\ htR[w][k] = 1 /\ htS[w][j] = 1 THEN 1 ELSE 0
    BY DEF OutInv
  <2>2. CASE w = t /\ k = i
    <3>1. out[t][i][j] = 0 /\ htR'[t][i] = 1 /\ htS'[t][j] = htS[t][j]
      BY <2>1, <2>2, <1>2, <1>4, <1>5
    <3>2. htS[t][j] \in {0, 1}
      <4>1. qS[t][j] \in Nat /\ htS[t][j] \in Nat /\ qS[t][j] + htS[t][j] \in {0, 1}
        BY OneCopy DEF TypeOK
      <4> QED
        BY <4>1
    <3> QED
      BY <2>2, <3>1, <3>2, <1>8
  <2>3. CASE ~ (w = t /\ k = i)
    BY <2>1, <2>3, <1>4, <1>5, <1>8
  <2> QED
    BY <2>2, <2>3
<1>10. \A o \in Threads : QueueEmpty(o) => QueueEmpty(o)'
  BY <1>3, <1>5 DEF QueueEmpty
<1> QED
  BY <1>3, <1>4, <1>7, <1>8, <1>9, <1>10

LEMMA JoinSStep ==
  ASSUME IInv, NEW t \in Threads, NEW j \in SIdx, JoinS(t, j),
         UNCHANGED <<idxR, idxS, curR, curS, targets>>
  PROVE  /\ CopiesRInv' /\ CopiesSInv' /\ OutInv'
         /\ qS' \in [Threads -> [SIdx -> Nat]] /\ htS' \in [Threads -> [SIdx -> Nat]]
         /\ out' \in [Threads -> [RIdx -> [SIdx -> Nat]]]
         /\ \A o \in Threads : QueueEmpty(o) => QueueEmpty(o)'
<1> USE DEF IInv
<1>1. /\ qS[t][j] \in Nat /\ htS[t][j] \in Nat /\ qS[t][j] - 1 \in Nat
      /\ qS[t][j] + htS[t][j] \in {0, 1}
  <2>1. qS[t][j] \in Nat /\ htS[t][j] \in Nat /\ qS[t][j] > 0
    BY DEF TypeOK, JoinS
  <2>2. qS[t][j] + htS[t][j] \in {0, 1}
    BY OneCopy
  <2> QED
    BY <2>1, <2>2
<1>2. qS[t][j] = 1 /\ htS[t][j] = 0
  BY <1>1 DEF JoinS
<1>3. /\ qS' \in [Threads -> [SIdx -> Nat]]
      /\ \A w \in Threads, k \in SIdx :
           qS'[w][k] = IF w = t /\ k = j THEN 0 ELSE qS[w][k]
  <2>1. qS' = [qS EXCEPT ![t][j] = 0]
    BY <1>2 DEF JoinS
  <2>2. qS \in [Threads -> [SIdx -> Nat]] /\ 0 \in Nat
    BY DEF TypeOK
  <2> HIDE DEF IInv
  <2> QED
    BY <2>1, <2>2, BagUpdate
<1>4. /\ htS' \in [Threads -> [SIdx -> Nat]]
      /\ \A w \in Threads, k \in SIdx :
           htS'[w][k] = IF w = t /\ k = j THEN 1 ELSE htS[w][k]
  <2>1. htS' = [htS EXCEPT ![t][j] = 1]
    BY <1>2 DEF JoinS
  <2>2. htS \in [Threads -> [SIdx -> Nat]] /\ 1 \in Nat
    BY DEF TypeOK
  <2> HIDE DEF IInv
  <2> QED
    BY <2>1, <2>2, BagUpdate
<1>5. UNCHANGED <<qR, htR>>
  BY DEF JoinS
<1>6. Moved
  <2>1. ASSUME NEW o \in Threads, NEW w \in Threads, NEW k \in SIdx
        PROVE  CopiesS(o, w, k)' = CopiesS(o, w, k)
    <3>1. qS'[w][k] + htS'[w][k] = qS[w][k] + htS[w][k]
      BY <1>2, <1>3, <1>4
    <3>2. /\ qS'[w][k] \in Nat /\ htS'[w][k] \in Nat
          /\ qS[w][k] \in Nat /\ htS[w][k] \in Nat
      BY <1>3, <1>4 DEF TypeOK
    <3> QED
      BY <3>1, <3>2 DEF CopiesS
  <2>2. ASSUME NEW o \in Threads, NEW w \in Threads, NEW k \in RIdx
        PROVE  CopiesR(o, w, k)' = CopiesR(o, w, k)
    BY <1>5 DEF CopiesR
  <2> QED
    BY <2>1, <2>2 DEF Moved
<1>7. CopiesRInv' /\ CopiesSInv'
  BY <1>6, MovedStep
<1>8. /\ out' \in [Threads -> [RIdx -> [SIdx -> Nat]]]
      /\ \A w \in Threads, k \in RIdx, l \in SIdx :
           out'[w][k][l] = IF w = t /\ l = j /\ Matching(k, l)
                           THEN out[w][k][l] + htR[t][k] ELSE out[w][k][l]
  <2>0. out \in [Threads -> [RIdx -> [SIdx -> Nat]]] /\ htR[t] \in [RIdx -> Nat]
    BY DEF TypeOK
  <2>1. out' = [out EXCEPT ![t] = ProbeR(out[t], htR[t], j)]
    BY DEF JoinS
  <2>2. /\ ProbeR(out[t], htR[t], j) \in [RIdx -> [SIdx -> Nat]]
        /\ \A k \in RIdx, l \in SIdx :
              ProbeR(out[t], htR[t], j)[k][l] =
                IF l = j /\ Matching(k, l) THEN out[t][k][l] + htR[t][k] ELSE out[t][k][l]
    BY <2>0 DEF ProbeR
  <2> HIDE DEF IInv
  <2> QED
    BY <2>0, <2>1, <2>2
<1>9. OutInv'
  <2> SUFFICES ASSUME NEW w \in Threads, NEW k \in RIdx, NEW l \in SIdx
               PROVE  out'[w][k][l] = IF Matching(k, l) /\ htR'[w][k] = 1 /\ htS'[w][l] = 1
                                      THEN 1 ELSE 0
    BY DEF OutInv, Matching
  <2>1. out[w][k][l] = IF Matching(k, l) /\ htR[w][k] = 1 /\ htS[w][l] = 1 THEN 1 ELSE 0
    BY DEF OutInv
  <2>2. CASE w = t /\ l = j
    <3>1. out[t][k][j] = 0 /\ htS'[t][j] = 1 /\ htR'[t][k] = htR[t][k]
      BY <2>1, <2>2, <1>2, <1>4, <1>5
    <3>2. htR[t][k] \in {0, 1}
      <4>1. qR[t][k] \in Nat /\ htR[t][k] \in Nat /\ qR[t][k] + htR[t][k] \in {0, 1}
        BY OneCopy DEF TypeOK
      <4> QED
        BY <4>1
    <3> QED
      BY <2>2, <3>1, <3>2, <1>8
  <2>3. CASE ~ (w = t /\ l = j)
    BY <2>1, <2>3, <1>4, <1>5, <1>8
  <2> QED
    BY <2>2, <2>3
<1>10. \A o \in Threads : QueueEmpty(o) => QueueEmpty(o)'
  BY <1>3, <1>5 DEF QueueEmpty
<1> QED
  BY <1>3, <1>4, <1>7, <1>8, <1>9, <1>10

LEMMA PullStep ==
  ASSUME IInv, NEW t \in Threads, Pull(t) \/ Drain(t)
  PROVE  IInv'
<1> USE DEF IInv
<1>1. UNCHANGED <<now, idxR, idxS, tryR, curR, curS, targets>>
  BY DEF Pull, Drain
<1>2. /\ CopiesRInv' /\ CopiesSInv' /\ OutInv'
      /\ qR' \in [Threads -> [RIdx -> Nat]] /\ htR' \in [Threads -> [RIdx -> Nat]]
      /\ qS' \in [Threads -> [SIdx -> Nat]] /\ htS' \in [Threads -> [SIdx -> Nat]]
      /\ out' \in [Threads -> [RIdx -> [SIdx -> Nat]]]
      /\ \A o \in Threads : QueueEmpty(o) => QueueEmpty(o)'
  <2>0. PullJoin(t)
    BY DEF Pull, Drain
  <2>1. CASE \E i \in RIdx : JoinR(t, i)
    <3>1. PICK i \in RIdx : JoinR(t, i)
      BY <2>1
    <3>2. UNCHANGED <<qS, htS>>
      BY <3>1 DEF JoinR
    <3>3. qS' \in [Threads -> [SIdx -> Nat]] /\ htS' \in [Threads -> [SIdx -> Nat]]
      BY <3>2 DEF TypeOK
    <3> QED
      BY <3>1, <3>3, <1>1, JoinRStep
  <2>2. CASE \E j \in SIdx : JoinS(t, j)
    <3>1. PICK j \in SIdx : JoinS(t, j)
      BY <2>2
    <3>2. UNCHANGED <<qR, htR>>
      BY <3>1 DEF JoinS
    <3>3. qR' \in [Threads -> [RIdx -> Nat]] /\ htR' \in [Threads -> [RIdx -> Nat]]
      BY <3>2 DEF TypeOK
    <3> QED
      BY <3>1, <3>3, <1>1, JoinSStep
  <2> QED
    BY <2>0, <2>1, <2>2 DEF PullJoin
<1>3. /\ pc' \in [Threads -> PCs]
      /\ \A o \in Threads : o # t => pc'[o] = pc[o]
      /\ \/ pc[t] = "pull" /\ pc'[t] = IF finish(t) THEN "fetched" ELSE "fetch"
         \/ pc[t] = "drain" /\ pc'[t] = "drain"
  BY DEF Pull, Drain, LoopTest, Goto, TypeOK, PCs, Started
<1>4. TypeOK'
  BY <1>1, <1>2, <1>3 DEF TypeOK
<1>5. PushInv'
  BY <1>1, <1>3 DEF PushInv, Owns
<1>6. PhaseInv'
  BY <1>1, <1>2, <1>3 DEF PhaseInv, Fetched, Drained, finish
<1> QED
  BY <1>2, <1>4, <1>5, <1>6

LEMMA StutterStep == ASSUME IInv, Tick \/ UNCHANGED vars PROVE IInv'
<1> USE DEF IInv
<1>1. Quiet /\ UNCHANGED <<pc, tryR>>
  BY DEF Tick, vars, Quiet
<1>2. TypeOK'
  BY <1>1 DEF Tick, vars, Quiet, TypeOK
<1>3. PushInv' /\ CopiesRInv' /\ CopiesSInv' /\ OutInv'
  BY <1>1, <1>2, QuietStep
<1>4. PhaseInv'
  BY <1>1 DEF Quiet, PhaseInv, finish, QueueEmpty
<1> QED
  BY <1>2, <1>3, <1>4

LEMMA NextInv == IInv /\ [Next]_vars => IInv'
<1> SUFFICES ASSUME IInv, [Next]_vars PROVE IInv'
  OBVIOUS
<1>1. ASSUME NEW t \in Threads, ThreadStep(t) PROVE IInv'
  BY <1>1, BarrierSteps, IdleSteps, FetchRStep, FetchSStep, PushStep, PullStep DEF ThreadStep
<1>2. CASE Tick \/ UNCHANGED vars
  BY <1>2, StutterStep
<1> QED
  BY <1>1, <1>2 DEF Next, Terminated

(* Whatever the threads' interleaving, each fetched R tuple has exactly one  *)
(* copy for every thread responsible for its key, each S tuple one copy in   *)
(* all, and the counted pairs are those that met (THREAD_TASK_SHUFFLE).      *)
THEOREM ShuffleInvariant == SafeSpec => []IInv
  BY InitInv, NextInv, PTL DEF SafeSpec

(* The join never counts a pair of different keys nor any pair twice, in one *)
(* thread or in two, although ContRandShuffler replicates R.                 *)
THEOREM ShuffleNoSpurious == SafeSpec => []NoSpuriousMatch
<1>1. IInv => NoSpuriousMatch
  <2> SUFFICES ASSUME IInv, NEW t \in Threads, NEW i \in RIdx, NEW j \in SIdx, out[t][i][j] > 0
               PROVE  /\ Matching(i, j)
                      /\ out[t][i][j] = 1
                      /\ \A u \in Threads \ {t} : out[u][i][j] = 0
    BY DEF NoSpuriousMatch, CountedOnce
  <2>1. /\ Matching(i, j) /\ out[t][i][j] = 1 /\ htS[t][j] = 1
    BY DEF IInv, OutInv
  <2>2. ASSUME NEW u \in Threads, u # t PROVE out[u][i][j] = 0
    <3>1. PICK o \in Threads : Owns(numS, o, j)
      BY ShareExists, Sizes DEF SIdx, Owns
    <3>2. CopyOfS(o, j)
      BY <3>1 DEF IInv, CopiesSInv
    <3>3. /\ qS[t][j] \in Nat /\ htS[t][j] \in Nat
          /\ qS[u][j] \in Nat /\ htS[u][j] \in Nat
      BY DEF IInv, TypeOK
    <3>4. CopiesS(o, t, j) >= htS[t][j] /\ CopiesS(o, u, j) >= htS[u][j]
      BY <3>3 DEF CopiesS
    <3>5. CopiesS(o, t, j) = 0 \/ CopiesS(o, u, j) = 0
      BY <3>2, <2>2 DEF CopyOfS
    <3>6. htS[u][j] = 0
      BY <3>3, <3>4, <3>5, <2>1
    <3> QED
      BY <3>6 DEF IInv, OutInv
  <2> QED
    BY <2>1, <2>2
<1> QED
  BY <1>1, ShuffleInvariant, PTL

(* When every thread has left the last barrier all equal-key pairs have been *)
(* counted: nothing is left in a queue and R and S copies met.               *)
THEOREM ShuffleNoLost == SafeSpec => []NoLostMatch
<1>1. IInv => NoLostMatch
  <2> SUFFICES ASSUME IInv, AllExited, NEW i \in RIdx, NEW j \in SIdx, Matching(i, j)
               PROVE  \E t \in Threads : out[t][i][j] = 1
    BY DEF NoLostMatch, CountedAll
  <2> USE DEF IInv
  <2>1. PICK o \in Threads : Owns(numS, o, j)
    BY ShareExists, Sizes DEF SIdx, Owns
  <2>2. PICK p \in Threads : Owns(numR, p, i)
    BY ShareExists, Sizes DEF RIdx, Owns
  <2>3. ASSUME NEW t \in Threads
        PROVE  finish(t) /\ QueueEmpty(t) /\ curR[t] = NoTuple /\ curS[t] = NoTuple
    BY DEF AllExited, PhaseInv, Fetched, Drained, PushInv
  <2>4. PICK v \in Responsible(KeyS[j]) \cap Threads : CopiesS(o, v, j) = 1
    BY <2>1, <2>3 DEF CopiesSInv, CopyOfS, finish, Owns
  <2>5. CopiesR(p, v, i) = 1
    BY <2>2, <2>3, <2>4 DEF CopiesRInv, finish, Owns, Matching
  <2>6. i # NoTuple /\ j # NoTuple
    BY Sizes DEF RIdx, SIdx, NoTuple
  <2>7. qS[v][j] = 0 /\ qR[v][i] = 0 /\ htR[v][i] \in Nat /\ htS[v][j] \in Nat
    BY <2>3, <2>4 DEF QueueEmpty, TypeOK
  <2>8. htS[v][j] = 1 /\ htR[v][i] = 1
    BY <2>3, <2>4, <2>5, <2>6, <2>7 DEF CopiesR, CopiesS
  <2> QED
    BY <2>4, <2>8 DEF OutInv
<1> QED
  BY <1>1, ShuffleInvariant, PTL

------------------------------------------------------------------------------
(* The shuffled join implements JoinSpec. *)

(* A probe adds to the counters and never takes from them. *)
LEMMA CountersGrow ==
  ASSUME IInv, [Next]_vars, NEW t \in Threads, NEW i \in RIdx, NEW j \in SIdx
  PROVE  out'[t][i][j] >= out[t][i][j]
<1> USE DEF IInv
<1>1. out[t][i][j] \in Nat
  BY DEF TypeOK
<1>2. CASE UNCHANGED out
  BY <1>1, <1>2
<1>3. ASSUME NEW u \in Threads, NEW k \in RIdx, JoinR(u, k) PROVE out'[t][i][j] >= out[t][i][j]
  <2>1. out' = [out EXCEPT ![u] = ProbeS(@, htS[u], k)]
    BY <1>3 DEF JoinR
  <2>2. htS[u][j] \in Nat
    BY DEF TypeOK
  <2>3. ProbeS(out[u], htS[u], k)[i][j] >= out[u][i][j]
    <3>1. out[u][i][j] \in Nat /\ out[u] \in [RIdx -> [SIdx -> Nat]]
      BY DEF TypeOK
    <3> QED BY <2>2, <3>1 DEF ProbeS
  <2> QED BY <1>1, <2>1, <2>3 DEF TypeOK
<1>4. ASSUME NEW u \in Threads, NEW k \in SIdx, JoinS(u, k) PROVE out'[t][i][j] >= out[t][i][j]
  <2>1. out' = [out EXCEPT ![u] = ProbeR(@, htR[u], k)]
    BY <1>4 DEF JoinS
  <2>2. htR[u][i] \in Nat
    BY DEF TypeOK
  <2>3. ProbeR(out[u], htR[u], k)[i][j] >= out[u][i][j]
    <3>1. out[u][i][j] \in Nat /\ out[u] \in [RIdx -> [SIdx -> Nat]]
      BY DEF TypeOK
    <3> QED BY <2>2, <3>1 DEF ProbeR
  <2> QED BY <1>1, <2>1, <2>3 DEF TypeOK
<1>5. ASSUME NEW u \in Threads, Pull(u) \/ Drain(u) PROVE out'[t][i][j] >= out[t][i][j]
  BY <1>3, <1>4, <1>5 DEF Pull, Drain, PullJoin
<1>6. ASSUME NEW u \in Threads, ThreadStep(u), ~(Pull(u) \/ Drain(u)) PROVE UNCHANGED out
  BY <1>6 DEF ThreadStep, Arrive, Start, FetchR, FetchS, FetchMiss, Push, PullNothing,
              StartDrain, DrainEnd, Exit
<1>7. Tick \/ UNCHANGED vars => UNCHANGED out
  BY DEF Tick, vars
<1> QED
  BY <1>2, <1>5, <1>6, <1>7 DEF Next, Terminated

(* No step of a thread that has exited, and the last to exit counts nothing. *)
LEMMA ExitSteps ==
  ASSUME IInv, [Next]_vars
  PROVE  /\ AllExited => AllExited' /\ UNCHANGED out
         /\ ~AllExited /\ AllExited' => UNCHANGED out
<1>0. pc \in [Threads -> PCs]
  BY DEF IInv, TypeOK
<1>1. ASSUME NEW t \in Threads, ThreadStep(t)
      PROVE  pc[t] # "exited" /\ (UNCHANGED out \/ pc'[t] # "exited")
  <2>1. CASE Pull(t)
    BY <1>0, <2>1 DEF Pull, LoopTest, Goto
  <2>2. CASE Drain(t)
    BY <1>0, <2>2 DEF Drain
  <2>3. CASE ~(Pull(t) \/ Drain(t))
    BY <1>1, <2>3 DEF ThreadStep, Arrive, Start, FetchR, FetchS, FetchMiss, Push, PullNothing,
              StartDrain, DrainEnd, Exit, CrossBarrier
  <2> QED BY <2>1, <2>2, <2>3
<1>2. ASSUME Tick \/ UNCHANGED vars PROVE UNCHANGED <<pc, out>>
  BY <1>2 DEF Tick, vars
<1>3. CASE Tick \/ UNCHANGED vars
  BY <1>2, <1>3 DEF AllExited
<1>4. CASE \E t \in Threads : ThreadStep(t)
  BY <1>1, <1>4 DEF AllExited
<1> QED
  BY <1>3, <1>4 DEF Next, Terminated

LEMMA JoinStep ==
  ASSUME IInv, IInv', NoSpuriousMatch, NoSpuriousMatch', NoLostMatch', [Next]_vars
  PROVE  [J!JoinNext]_J!joinVars
<1>1. Counting(out) /\ Counting(out')
  BY DEF IInv, TypeOK, Counting
<1>2. CountedOnce(out) /\ CountedOnce(out') /\ (AllExited' => CountedAll(out'))
  BY DEF NoSpuriousMatch, NoLostMatch
<1>3. /\ AllExited => AllExited' /\ UNCHANGED out
      /\ ~AllExited /\ AllExited' => UNCHANGED out
  BY ExitSteps
<1>4. CASE AllExited
  <2>1. UNCHANGED out /\ AllExited /\ AllExited'
    BY <1>3, <1>4
  <2> QED BY <2>1 DEF J!joinVars, AllExited
<1>5. CASE ~AllExited /\ AllExited'
  <2>1. UNCHANGED out /\ CountedAll(out)
    BY <1>2, <1>3, <1>5
  <2>2. \A p \in Equal : Produced(out)[p] = 1
    BY <1>1, <1>2, <2>1, ProducedAll
  <2>3. J!Complete
    BY <1>5, <2>1, <2>2 DEF J!Complete
  <2> QED BY <2>3 DEF J!JoinNext
<1>6. CASE ~AllExited /\ ~AllExited'
  <2>1. \A t \in Threads, i \in RIdx, j \in SIdx : out[t][i][j] = 1 => out'[t][i][j] = 1
    <3> SUFFICES ASSUME NEW t \in Threads, NEW i \in RIdx, NEW j \in SIdx, out[t][i][j] = 1
                 PROVE  out'[t][i][j] = 1
      OBVIOUS
    <3>1. out'[t][i][j] >= 1 /\ out'[t][i][j] \in Nat
      BY <1>1, CountersGrow DEF Counting
    <3>2. out'[t][i][j] > 0
      BY <3>1
    <3> QED BY <3>2, <1>2 DEF CountedOnce
  <2>2. Grown(Produced(out), Produced(out'))
    BY <1>1, <1>2, <2>1, ProducedGrows
  <2>3. J!Produce
    <3>1. Produced(out)' = Produced(out')
      BY DEF Produced
    <3>2. AllExited' = AllExited
      BY <1>6 DEF AllExited
    <3> QED BY <1>6, <2>2, <3>1, <3>2 DEF J!Produce, Grown
  <2> QED BY <2>3 DEF J!JoinNext
<1> QED
  BY <1>4, <1>5, <1>6

(* Every step of the threads produces pairs that were missing, completes the *)
(* join or is none of its business, for either shuffler and any number of    *)
(* threads, groups, tuples and keys.                                         *)
THEOREM ShuffleImplements == SafeSpec => ImplementsJoin
<1>1. Init => J!JoinInit
  <2> SUFFICES ASSUME Init PROVE J!JoinInit
    OBVIOUS
  <2>1. Counting(out) /\ \A t \in Threads, i \in RIdx, j \in SIdx : out[t][i][j] = 0
    BY DEF Init, EmptyOut, EmptyS, Counting
  <2>2. ~AllExited
    <3>1. 0 \in Threads
      BY Sizes DEF Threads
    <3>2. pc[0] # "exited"
      BY <3>1 DEF Init
    <3> QED BY <3>1, <3>2 DEF AllExited
  <2> QED BY <2>1, <2>2, ProducedNone DEF J!JoinInit
<1>2. IInv /\ IInv' /\ NoSpuriousMatch /\ NoSpuriousMatch' /\ NoLostMatch' /\ [Next]_vars
        => [J!JoinNext]_J!joinVars
  BY JoinStep
<1> QED
  BY <1>1, <1>2, ShuffleInvariant, ShuffleNoSpurious, ShuffleNoLost, PTL
     DEF SafeSpec, ImplementsJoin, J!JoinSafety

------------------------------------------------------------------------------
(* The groups of ContRandShuffler: its constructor has run before the       *)
(* threads start.                                                           *)

VARIABLES grpToTh, th, curGrpId, count, beyond

C == INSTANCE GroupAssign WITH group_size <- GroupSize

LEMMA DivBounds ==
  ASSUME NEW n \in Nat, NEW s \in Nat \ {0}
  PROVE  n \div s \in Nat /\ s * (n \div s) <= n /\ n < s * ((n \div s) + 1)
  OBVIOUS

LEMMA DivUnique ==
  ASSUME NEW n \in Nat, NEW s \in Nat \ {0}, NEW g \in Nat, s * g <= n, n < s * (g + 1)
  PROVE  n \div s = g
<1> DEFINE d == n \div s
<1>1. d \in Nat /\ s * d <= n /\ n < s * (d + 1)
  BY DivBounds
<1> HIDE DEF d
<1>2. ~ (d < g)
  <2> SUFFICES ASSUME d < g PROVE FALSE
    OBVIOUS
  <2>1. s * (d + 1) <= s * g /\ s * (d + 1) \in Nat /\ s * g \in Nat
    BY <1>1, MulMono
  <2> QED BY <1>1, <2>1
<1>3. ~ (g < d)
  <2> SUFFICES ASSUME g < d PROVE FALSE
    OBVIOUS
  <2>1. s * (g + 1) <= s * d /\ s * (g + 1) \in Nat /\ s * d \in Nat
    BY <1>1, MulMono
  <2> QED BY <1>1, <2>1
<1> QED
  BY <1>1, <1>2, <1>3 DEF d

LEMMA GroupCount ==
  /\ GroupSize \in Nat \ {0} /\ nthreads \in Nat \ {0}
  /\ nthreads % GroupSize = 0 \/ nthreads < GroupSize
  /\ nthreads \div GroupSize \in Nat
  /\ C!numGrps = IF nthreads \div GroupSize < 1 THEN 1 ELSE nthreads \div GroupSize
  /\ C!numGrps \in Nat \ {0}
  /\ C!numGrps = numGrps
<1>1. /\ GroupSize \in Nat \ {0} /\ nthreads \in Nat \ {0}
      /\ nthreads % GroupSize = 0 \/ nthreads < GroupSize
  BY Sizes, ShuffleAssumption
<1>2. C!numGrps = IF nthreads \div GroupSize < 1 THEN 1 ELSE nthreads \div GroupSize
  BY DEF C!numGrps
<1>3. nthreads \div GroupSize \in Nat
  BY <1>1, DivBounds
<1>4. nthreads \div GroupSize < 1 <=> nthreads < GroupSize
  <2> DEFINE d == nthreads \div GroupSize
  <2>1. d \in Nat /\ GroupSize * d <= nthreads /\ nthreads < GroupSize * (d + 1)
    BY <1>1, DivBounds
  <2>2. d = 0 => nthreads < GroupSize
    <3>1. GroupSize * (0 + 1) = GroupSize
      BY <1>1
    <3> QED BY <2>1, <3>1
  <2> HIDE DEF d
  <2>3. d >= 1 => GroupSize <= nthreads
    <3>1. d >= 1 => GroupSize * 1 <= GroupSize * d /\ GroupSize * d \in Nat
      BY <1>1, <2>1, MulMono
    <3> QED BY <1>1, <2>1, <3>1
  <2> QED BY <1>1, <2>1, <2>2, <2>3 DEF d
<1> QED
  BY <1>1, <1>2, <1>3, <1>4 DEF numGrps

(* The group a thread is dealt to exists and is thread \div GroupSize. *)
LEMMA DealtRight ==
  ASSUME C!IInv, th < nthreads
  PROVE  LET g == IF C!Full THEN curGrpId + 1 ELSE curGrpId IN
           g \in Nat /\ g = th \div GroupSize /\ g < C!numGrps
<1> DEFINE g == IF C!Full THEN curGrpId + 1 ELSE curGrpId
           s == GroupSize
           n == C!numGrps
<1>0. /\ s \in Nat \ {0} /\ nthreads \in Nat \ {0} /\ th \in Nat /\ curGrpId \in Nat
      /\ count \in 0 .. s /\ g \in Nat
  BY GroupCount DEF C!IInv, C!TypeOK
<1>1. s * g <= th /\ th < s * (g + 1)
  <2>1. th = s * curGrpId + count /\ s * curGrpId \in Nat
    BY <1>0 DEF C!IInv, C!LoopInv
  <2>2. s * (curGrpId + 1) = s * curGrpId + s /\ s * (curGrpId + 2) = s * curGrpId + s + s
    BY <1>0
  <2>3. CASE C!Full
    <3>1. g = curGrpId + 1 /\ g + 1 = curGrpId + 2 /\ count = s
      BY <1>0, <2>3 DEF C!Full
    <3> HIDE DEF g, s
    <3> QED BY <1>0, <2>1, <2>2, <3>1
  <2>4. CASE ~ C!Full
    <3>1. g = curGrpId /\ count < s
      BY <1>0, <2>4 DEF C!Full
    <3> HIDE DEF g, s
    <3> QED BY <1>0, <2>1, <2>2, <3>1
  <2> QED BY <2>3, <2>4
<1> HIDE DEF g, s
<1>2. g = th \div s
  BY <1>0, <1>1, DivUnique
<1>3. g < n
  <2>0. n = (IF nthreads \div s < 1 THEN 1 ELSE nthreads \div s) /\ (nthreads % s = 0 \/ nthreads < s) /\ n \in Nat
    BY GroupCount DEF s
  <2> HIDE DEF n
  <2>1. CASE nthreads < s
    <3>1. th < s
      BY <2>1, <1>0
    <3>2. th \div s = 0 /\ nthreads \div s = 0
      <4>1. s * 0 <= th /\ th < s * (0 + 1) /\ s * 0 <= nthreads /\ nthreads < s * (0 + 1)
        BY <3>1, <2>1, <1>0
      <4> QED BY <4>1, <1>0, DivUnique
    <3> QED BY <3>2, <2>0, <1>2
  <2>2. CASE nthreads % s = 0
    <3> DEFINE d == nthreads \div s
    <3>1. d \in Nat /\ nthreads = s * d
      BY <2>2, <1>0
    <3>2. d <= n
      BY <2>0, <3>1
    <3> HIDE DEF d
    <3>3. ~ (d <= g)
      <4> SUFFICES ASSUME d <= g PROVE FALSE
        OBVIOUS
      <4>1. s * d <= s * g /\ s * d \in Nat
        BY <3>1, <1>0, MulMono
      <4> QED BY <4>1, <3>1, <1>0, <1>1
    <3> QED BY <1>0, <2>0, <3>1, <3>2, <3>3
  <2> QED BY <2>0, <2>1, <2>2
<1> QED
  BY <1>0, <1>2, <1>3 DEF g, s, n

LEMMA GroupsInit == ASSUME C!Init PROVE C!IInv
<1>1. C!TypeOK
  BY GroupCount DEF C!Init, C!TypeOK
<1>2. C!LoopInv
  <2>1. GroupSize * 0 = 0
    BY GroupCount
  <2> QED BY GroupCount, <2>1 DEF C!Init, C!LoopInv
<1> QED
  BY <1>1, <1>2 DEF C!IInv

LEMMA GroupsStep == ASSUME C!IInv, [C!Next]_C!vars PROVE C!IInv'
<1>1. CASE C!Assign
  <2> DEFINE g == IF C!Full THEN curGrpId + 1 ELSE curGrpId
             s == GroupSize
             n == C!numGrps
  <2>1. g \in Nat /\ g = th \div s /\ g < n
    BY <1>1, DealtRight DEF C!Assign
  <2>2. /\ th < nthreads /\ th' = th + 1 /\ UNCHANGED beyond
        /\ curGrpId' = g /\ count' = IF C!Full THEN 1 ELSE count + 1
        /\ grpToTh' = [grpToTh EXCEPT ![g] = @ \cup {th}]
    BY <1>1, <2>1 DEF C!Assign
  <2>3. /\ s \in Nat \ {0} /\ nthreads \in Nat \ {0} /\ th \in 0 .. nthreads /\ curGrpId \in Nat
        /\ count \in 0 .. s
        /\ grpToTh \in [0 .. n - 1 -> SUBSET Nat]
        /\ n \in Nat
    BY GroupCount DEF C!IInv, C!TypeOK
  <2>5. g \in 0 .. n - 1
    BY <2>1, <2>3
  <2>6. C!TypeOK'
    <3>1. th' \in 0 .. nthreads /\ curGrpId' \in Nat /\ count' \in 0 .. s
      BY <2>1, <2>2, <2>3 DEF C!Full
    <3>2. grpToTh' \in [0 .. n - 1 -> SUBSET Nat]
      <4> HIDE DEF g, n
      <4> QED BY <2>2, <2>3, <2>5
    <3> QED BY <3>1, <3>2 DEF C!TypeOK
  <2>7. th' = s * curGrpId' + count' /\ count' > 0
    <3>1. th = s * curGrpId + count /\ s * curGrpId \in Nat /\ s * (curGrpId + 1) = s * curGrpId + s
      BY <2>3 DEF C!IInv, C!LoopInv
    <3>2. CASE C!Full
      <4>1. count = s /\ curGrpId' = curGrpId + 1 /\ count' = 1
        BY <3>2, <2>2, <2>3 DEF C!Full
      <4> QED BY <4>1, <3>1, <2>2, <2>3
    <3>3. CASE ~ C!Full
      <4>1. curGrpId' = curGrpId /\ count' = count + 1
        BY <3>3, <2>2
      <4> QED BY <4>1, <3>1, <2>2, <2>3
    <3> QED BY <3>2, <3>3
  <2>8. ASSUME NEW h \in 0 .. n - 1
        PROVE  grpToTh'[h] = {t \in 0 .. th' - 1 : t \div s = h}
    <3>1. grpToTh[h] = {t \in 0 .. th - 1 : t \div s = h}
      BY DEF C!IInv, C!LoopInv
    <3>2. 0 .. th' - 1 = (0 .. th - 1) \cup {th}
      BY <2>2, <2>3
    <3>3. grpToTh'[h] = IF h = g THEN grpToTh[h] \cup {th} ELSE grpToTh[h]
      <4> HIDE DEF g, n
      <4> QED BY <2>2, <2>3, <2>5
    <3> HIDE DEF g, s, n
    <3> QED BY <3>1, <3>2, <3>3, <2>1
  <2>9. C!LoopInv'
    <3>1. beyond' = {}
      BY <2>2 DEF C!IInv, C!LoopInv
    <3> QED BY <2>2, <2>7, <2>8, <3>1 DEF C!LoopInv
  <2> QED BY <2>6, <2>9 DEF C!IInv
<1>2. CASE UNCHANGED C!vars
  BY <1>2 DEF C!vars, C!IInv, C!TypeOK, C!LoopInv
<1> QED
  BY <1>1, <1>2 DEF C!Next, C!Terminated

(* If the groups fill up evenly, or one group takes all, the constructor of *)
(* ContRandShuffler stays in its array, and when it is done grpToTh is what *)
(* the join takes the groups to be: as many, each the run of threads Group  *)
(* says, for every number of threads and every group size.                  *)
THEOREM EvenGroups ==
  C!Spec => [](/\ C!GroupsAreRuns
               /\ th = nthreads => \A k \in Nat : grpToTh[k % numGrps] = Group(k % numGrps))
<1>1. C!IInv => C!GroupsAreRuns
  <2> SUFFICES ASSUME C!IInv PROVE C!GroupsAreRuns
    OBVIOUS
  <2>1. ASSUME th = nthreads, NEW g \in 0 .. C!numGrps - 1
        PROVE  /\ grpToTh[g] = {t \in 0 .. nthreads - 1 : t \div GroupSize = g}
               /\ grpToTh[g] # {}
    <3>1. grpToTh[g] = {t \in 0 .. nthreads - 1 : t \div GroupSize = g}
      BY <2>1 DEF C!IInv, C!LoopInv
    <3>2. GroupSize * g \in 0 .. nthreads - 1 /\ (GroupSize * g) \div GroupSize = g
      <4> DEFINE s == GroupSize
                 d == nthreads \div s
      <4>1. s \in Nat \ {0} /\ nthreads \in Nat \ {0} /\ C!numGrps = IF d < 1 THEN 1 ELSE d
        BY GroupCount
      <4>2. d \in Nat /\ s * d <= nthreads
        BY <4>1, DivBounds
      <4>3. g \in Nat /\ (g = 0 \/ g + 1 <= d)
        BY <4>1, <4>2
      <4> HIDE DEF d, s
      <4>4. s * g \in Nat /\ s * (g + 1) = s * g + s
        BY <4>1, <4>3
      <4>5. s * g < nthreads
        <5>1. CASE g = 0
          BY <5>1, <4>1
        <5>2. CASE g + 1 <= d
          <6>1. s * (g + 1) <= s * d /\ s * (g + 1) \in Nat /\ s * d \in Nat
            BY <5>2, <4>1, <4>2, <4>3, MulMono
          <6> QED BY <6>1, <4>1, <4>2, <4>4
        <5> QED BY <5>1, <5>2, <4>3
      <4>6. (s * g) \div s = g
        BY <4>1, <4>3, <4>4, DivUnique
      <4> QED BY <4>1, <4>4, <4>5, <4>6 DEF s
    <3> QED BY <3>1, <3>2
  <2>2. beyond = {}
    BY DEF C!IInv, C!LoopInv
  <2> QED BY <2>1, <2>2 DEF C!GroupsAreRuns
<1>2. C!GroupsAreRuns => (th = nthreads => \A k \in Nat : grpToTh[k % numGrps] = Group(k % numGrps))
  <2> SUFFICES ASSUME C!GroupsAreRuns, th = nthreads, NEW k \in Nat
               PROVE  grpToTh[k % numGrps] = Group(k % numGrps)
    OBVIOUS
  <2>1. numGrps \in Nat \ {0} /\ C!numGrps = numGrps
    BY GroupCount
  <2> DEFINE n == numGrps
             g == k % n
  <2>2. g \in 0 .. n - 1
    <3>1. n \in Nat \ {0}
      BY <2>1
    <3> HIDE DEF n
    <3> QED BY <3>1
  <2> HIDE DEF g
  <2> QED BY <2>1, <2>2 DEF C!GroupsAreRuns, Group, Threads
<1>3. C!Init => C!IInv
  BY GroupsInit
<1>4. C!IInv /\ [C!Next]_C!vars => C!IInv'
  BY GroupsStep
<1> QED
  BY <1>1, <1>2, <1>3, <1>4, PTL DEF C!Spec
==============================================================================
