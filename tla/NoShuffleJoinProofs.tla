------------------------- MODULE NoShuffleJoinProofs -------------------------
(***************************************************************************)
(* The join without shuffling is exact for every number of threads and all  *)
(* inputs, and in builds with PERF_COUNTERS no tuple is fetched before it   *)
(* has arrived, although all threads write startTS.                         *)
(***************************************************************************)
EXTENDS NoShuffleJoin, JoinBaseProofs

LEMMA Sizes == /\ numR \in Nat /\ numS \in Nat /\ nthreads \in Nat \ {0}
               /\ Word \in Nat /\ StartBound \in Nat /\ MaxArrival \in Nat
               /\ PERF_COUNTERS \in BOOLEAN
  BY JoinAssumption, ArrivalAssumption, NoShuffleAssumption

LEMMA InitInv == Init => IInv
<1> SUFFICES ASSUME Init PROVE IInv
  OBVIOUS
<1> USE Sizes
<1>1. TypeOK
  <2>1. \A t \in Threads : ShareBegin(numS, t) \in 0 .. numS /\ ShareBegin(numS, t) <= ShareEnd(numS, t)
    BY ShareType
  <2> QED
    BY <2>1 DEF Init, TypeOK, PCs, EmptyR, EmptyS, EmptyOut
<1>2. WindowInv
  <2>1. \A t \in Threads : ShareBegin(numS, t) \in Nat
    BY ShareType
  <2> QED
    BY <2>1 DEF Init, WindowInv, EmptyR, EmptyS, EmptyOut, RIdx, SIdx
<1>3. ClockInv
  BY DEF Init, ClockInv, Stopped
<1> QED
  BY <1>1, <1>2, <1>3 DEF IInv

------------------------------------------------------------------------------
(* Steps that leave the windows alone. *)
LEMMA WindowsKept ==
  ASSUME IInv, UNCHANGED <<idxR, idxS, htR, htS, out>> PROVE WindowInv'
  BY DEF IInv, WindowInv

LEMMA ControlSteps ==
  ASSUME IInv, NEW t \in Threads,
         \/ Arrive(t) \/ Start(t) \/ ReadStart(t) \/ WriteStart(t) \/ PerfBarrier(t)
         \/ Poll(t) \/ PollEmpty(t) \/ Miss(t) \/ Merge(t) \/ Exit(t)
  PROVE  IInv'
<1> USE DEF IInv
<1>1. UNCHANGED <<idxR, idxS, htR, htS, out, now>>
  BY DEF Arrive, Start, ReadStart, WriteStart, PerfBarrier, Poll, PollEmpty, Miss, Merge, Exit,
         unchangedJoin
<1>2. TypeOK'
  <2>1. pc' \in [Threads -> PCs]
    BY DEF Arrive, Start, ReadStart, WriteStart, PerfBarrier, Poll, PollEmpty, Miss, Merge, Exit,
           CrossBarrier, Goto, TypeOK, PCs, Started, Timed, Stopped
  <2>2. tick' \in [Threads -> Nat] /\ startTS' \in Nat
    BY DEF Arrive, Start, ReadStart, WriteStart, PerfBarrier, Poll, PollEmpty, Miss, Merge, Exit,
           TypeOK
  <2>3. tryR' \in [Threads -> BOOLEAN]
    BY DEF Arrive, Start, ReadStart, WriteStart, PerfBarrier, Poll, PollEmpty, Miss, Merge, Exit,
           unchangedJoin, TypeOK
  <2> QED
    BY <1>1, <2>1, <2>2, <2>3 DEF TypeOK
<1>3. ClockInv'
  <2>1. startTS' <= now'
    BY <1>1 DEF Arrive, Start, ReadStart, WriteStart, PerfBarrier, Poll, PollEmpty, Miss, Merge, Exit,
           ClockInv
  <2> SUFFICES ASSUME NEW o \in Threads
               PROVE  /\ tick'[o] <= now'
                      /\ pc'[o] = "check" => More(o)'
                      /\ pc'[o] \in Stopped => finish(idxR'[o], idxS'[o], o)
                      /\ PERF_COUNTERS /\ pc'[o] \in {"fetch", "check"} \cup Stopped =>
                           \A u \in Threads : pc'[u] \in Timed
                      /\ PERF_COUNTERS /\ pc'[o] = "check" => startTS' <= tick'[o]
    BY <2>1 DEF ClockInv, finish, More
  <2>2. tick'[o] <= now'
    <3>1. tick' = tick \/ tick' = [tick EXCEPT ![t] = now]
      BY DEF Arrive, Start, ReadStart, WriteStart, PerfBarrier, Poll, PollEmpty, Miss, Merge, Exit
    <3>2. now' = now /\ now \in Nat /\ tick \in [Threads -> Nat] /\ tick[o] <= now
      BY <1>1 DEF TypeOK, ClockInv
    <3> QED
      BY <3>1, <3>2
  <2>3. pc'[o] = "check" => More(o)'
    BY <1>1 DEF Arrive, Start, ReadStart, WriteStart, PerfBarrier, Poll, PollEmpty, Miss, Merge, Exit,
           CrossBarrier, Goto, unchangedJoin, ClockInv, TypeOK, More
  <2>4. pc'[o] \in Stopped => finish(idxR'[o], idxS'[o], o)
    BY <1>1 DEF Arrive, Start, ReadStart, WriteStart, PerfBarrier, Poll, PollEmpty, Miss, Merge, Exit,
           CrossBarrier, Goto, ClockInv, TypeOK, finish, Stopped
  <2>5. PERF_COUNTERS /\ pc'[o] \in {"fetch", "check"} \cup Stopped =>
          \A u \in Threads : pc'[u] \in Timed
    BY DEF Arrive, Start, ReadStart, WriteStart, PerfBarrier, Poll, PollEmpty, Miss, Merge, Exit,
           CrossBarrier, Goto, ClockInv, TypeOK, Timed, Stopped
  <2>6. PERF_COUNTERS /\ pc'[o] = "check" => startTS' <= tick'[o]
    BY DEF Arrive, Start, ReadStart, WriteStart, PerfBarrier, Poll, PollEmpty, Miss, Merge, Exit,
           CrossBarrier, Goto, ClockInv, TypeOK, Timed, Stopped
  <2> QED
    BY <2>2, <2>3, <2>4, <2>5, <2>6
<1> QED
  BY <1>1, <1>2, <1>3, WindowsKept

LEMMA TickStep == ASSUME IInv, Tick \/ UNCHANGED vars PROVE IInv'
<1> USE DEF IInv
<1>1. UNCHANGED <<startTS, pc, tick, idxR, idxS, tryR, htR, htS, out>>
  BY DEF Tick, unchangedJoin, vars
<1>2. now' \in Nat /\ now' <= StartBound + MaxArrival /\ now <= now'
  BY Sizes DEF Tick, TypeOK, vars
<1>3. TypeOK'
  BY <1>1, <1>2 DEF TypeOK
<1>4. ClockInv'
  <2>1. startTS' <= now' /\ \A t \in Threads : tick'[t] <= now'
    BY <1>1, <1>2 DEF ClockInv, TypeOK
  <2> QED
    BY <1>1, <2>1 DEF ClockInv, More, finish
<1> QED
  BY <1>1, <1>3, <1>4, WindowsKept

LEMMA BagUpdate ==
  ASSUME NEW I, NEW q \in [Threads -> [I -> Nat]], NEW u \in Threads, NEW i \in I, NEW x \in Nat
  PROVE  /\ [q EXCEPT ![u][i] = x] \in [Threads -> [I -> Nat]]
         /\ \A w \in Threads, k \in I :
              [q EXCEPT ![u][i] = x][w][k] = IF w = u /\ k = i THEN x ELSE q[w][k]
  OBVIOUS

(* Fetching a tuple of R, and of S: it is inserted once and meets what the  *)
(* other window holds.                                                      *)
LEMMA FetchRWindows ==
  ASSUME IInv, NEW t \in Threads, tryR[t], idxR[t] < numR, Join(t)
  PROVE  /\ WindowInv'
         /\ idxR' = [idxR EXCEPT ![t] = @ + 1] /\ idxS' = idxS /\ htS' = htS
         /\ htR' \in [Threads -> [RIdx -> Nat]]
         /\ out' \in [Threads -> [RIdx -> [SIdx -> Nat]]]
<1> DEFINE i == idxR[t]
<1> USE DEF IInv
<1>1. i \in RIdx /\ i \in Nat /\ htR[t][i] = 0
  BY Sizes DEF TypeOK, WindowInv, RIdx
<1>2. /\ idxR' = [idxR EXCEPT ![t] = i + 1]
      /\ htR' = [htR EXCEPT ![t][i] = 1]
      /\ out' = [out EXCEPT ![t] = ProbeS(out[t], htS[t], i)]
      /\ idxS' = idxS /\ htS' = htS
  BY <1>1 DEF Join
<1>3. /\ out \in [Threads -> [RIdx -> [SIdx -> Nat]]] /\ htS[t] \in [SIdx -> Nat]
      /\ htR \in [Threads -> [RIdx -> Nat]] /\ idxR \in [Threads -> 0 .. numR]
  BY DEF TypeOK
<1> HIDE DEF IInv
<1>4. /\ htR' \in [Threads -> [RIdx -> Nat]]
      /\ \A w \in Threads, k \in RIdx : htR'[w][k] = IF w = t /\ k = i THEN 1 ELSE htR[w][k]
  BY <1>1, <1>2, <1>3, BagUpdate
<1>5. /\ ProbeS(out[t], htS[t], i) \in [RIdx -> [SIdx -> Nat]]
      /\ \A k \in RIdx, j \in SIdx :
            ProbeS(out[t], htS[t], i)[k][j] =
              IF k = i /\ Matching(i, j) THEN out[t][k][j] + htS[t][j] ELSE out[t][k][j]
  <2>1. i \in RIdx /\ out[t] \in [RIdx -> [SIdx -> Nat]] /\ htS[t] \in [SIdx -> Nat]
    BY <1>1, <1>3
  <2> HIDE DEF i
  <2> QED
    BY <2>1 DEF ProbeS
<1>6. /\ out' \in [Threads -> [RIdx -> [SIdx -> Nat]]]
      /\ \A w \in Threads, k \in RIdx, j \in SIdx :
            out'[w][k][j] = IF w = t /\ k = i /\ Matching(i, j)
                            THEN out[w][k][j] + htS[t][j] ELSE out[w][k][j]
  BY <1>2, <1>3, <1>5
<1>7. WindowInv'
  <2> SUFFICES ASSUME NEW w \in Threads
               PROVE  /\ \A k \in RIdx : htR'[w][k] = IF k < idxR'[w] THEN 1 ELSE 0
                      /\ \A j \in SIdx : htS'[w][j] =
                           IF ShareBegin(numS, w) <= j /\ j < idxS'[w] THEN 1 ELSE 0
                      /\ \A k \in RIdx, j \in SIdx :
                           out'[w][k][j] = IF Matching(k, j) /\ htR'[w][k] = 1 /\ htS'[w][j] = 1
                                           THEN 1 ELSE 0
    BY DEF WindowInv, Matching, ShareBegin
  <2>0. WindowInv
    BY DEF IInv
  <2>1. ASSUME NEW k \in RIdx PROVE htR'[w][k] = IF k < idxR'[w] THEN 1 ELSE 0
    <3>1. k \in Nat /\ htR[w][k] = (IF k < idxR[w] THEN 1 ELSE 0)
      BY <2>0, Sizes DEF WindowInv, RIdx
    <3>2. idxR'[w] = IF w = t THEN i + 1 ELSE idxR[w]
      BY <1>2, <1>3
    <3>3. k < i + 1 <=> (k = i \/ k < i)
      BY <1>1, <3>1
    <3> QED
      BY <1>1, <1>4, <3>1, <3>2, <3>3
  <2>2. ASSUME NEW k \in RIdx, NEW j \in SIdx
        PROVE  out'[w][k][j] = IF Matching(k, j) /\ htR'[w][k] = 1 /\ htS'[w][j] = 1 THEN 1 ELSE 0
    <3>1. /\ out[w][k][j] = (IF Matching(k, j) /\ htR[w][k] = 1 /\ htS[w][j] = 1 THEN 1 ELSE 0)
          /\ htS[w][j] \in {0, 1}
      BY <2>0 DEF WindowInv
    <3>2. CASE w = t /\ k = i
      BY <3>1, <3>2, <1>1, <1>2, <1>4, <1>6
    <3>3. CASE ~ (w = t /\ k = i)
      BY <3>1, <3>3, <1>2, <1>4, <1>6
    <3> QED
      BY <3>2, <3>3
  <2> QED
    BY <2>0, <2>1, <2>2, <1>2 DEF WindowInv
<1> QED
  BY <1>2, <1>4, <1>6, <1>7

LEMMA FetchSWindows ==
  ASSUME IInv, NEW t \in Threads, ~ tryR[t], idxS[t] < ShareEnd(numS, t), Join(t)
  PROVE  /\ WindowInv'
         /\ idxS' = [idxS EXCEPT ![t] = @ + 1] /\ idxR' = idxR /\ htR' = htR
         /\ htS' \in [Threads -> [SIdx -> Nat]]
         /\ out' \in [Threads -> [RIdx -> [SIdx -> Nat]]]
<1> DEFINE j == idxS[t]
<1> USE DEF IInv
<1>0. ShareEnd(numS, t) <= numS /\ ShareEnd(numS, t) \in Nat /\ ShareBegin(numS, t) \in Nat
  BY ShareType, Sizes
<1>1. j \in SIdx /\ j \in Nat /\ ShareBegin(numS, t) <= j
  <2>1. j \in 0 .. numS /\ j < ShareEnd(numS, t) /\ ShareBegin(numS, t) <= j
    BY DEF TypeOK
  <2> QED
    BY <1>0, <2>1, Sizes DEF SIdx
<1>2. htS[t][j] = 0
  BY <1>1 DEF WindowInv
<1>3. /\ idxS' = [idxS EXCEPT ![t] = j + 1]
      /\ htS' = [htS EXCEPT ![t][j] = 1]
      /\ out' = [out EXCEPT ![t] = ProbeR(out[t], htR[t], j)]
      /\ idxR' = idxR /\ htR' = htR
  BY <1>2 DEF Join
<1>4. /\ out \in [Threads -> [RIdx -> [SIdx -> Nat]]] /\ htR[t] \in [RIdx -> Nat]
      /\ htS \in [Threads -> [SIdx -> Nat]] /\ idxS \in [Threads -> 0 .. numS]
  BY DEF TypeOK
<1> HIDE DEF IInv
<1>5. /\ htS' \in [Threads -> [SIdx -> Nat]]
      /\ \A w \in Threads, k \in SIdx : htS'[w][k] = IF w = t /\ k = j THEN 1 ELSE htS[w][k]
  BY <1>1, <1>3, <1>4, BagUpdate
<1>6. /\ ProbeR(out[t], htR[t], j) \in [RIdx -> [SIdx -> Nat]]
      /\ \A k \in RIdx, l \in SIdx :
            ProbeR(out[t], htR[t], j)[k][l] =
              IF l = j /\ Matching(k, l) THEN out[t][k][l] + htR[t][k] ELSE out[t][k][l]
  <2>1. j \in SIdx /\ out[t] \in [RIdx -> [SIdx -> Nat]] /\ htR[t] \in [RIdx -> Nat]
    BY <1>1, <1>4
  <2> HIDE DEF j
  <2> QED
    BY <2>1 DEF ProbeR
<1>7. /\ out' \in [Threads -> [RIdx -> [SIdx -> Nat]]]
      /\ \A w \in Threads, k \in RIdx, l \in SIdx :
            out'[w][k][l] = IF w = t /\ l = j /\ Matching(k, l)
                            THEN out[w][k][l] + htR[t][k] ELSE out[w][k][l]
  BY <1>3, <1>4, <1>6
<1>8. WindowInv'
  <2> SUFFICES ASSUME NEW w \in Threads
               PROVE  /\ \A k \in RIdx : htR'[w][k] = IF k < idxR'[w] THEN 1 ELSE 0
                      /\ \A l \in SIdx : htS'[w][l] =
                           IF ShareBegin(numS, w) <= l /\ l < idxS'[w] THEN 1 ELSE 0
                      /\ \A k \in RIdx, l \in SIdx :
                           out'[w][k][l] = IF Matching(k, l) /\ htR'[w][k] = 1 /\ htS'[w][l] = 1
                                           THEN 1 ELSE 0
    BY DEF WindowInv, Matching, ShareBegin
  <2>0. WindowInv
    BY DEF IInv
  <2>1. ASSUME NEW l \in SIdx
        PROVE  htS'[w][l] = IF ShareBegin(numS, w) <= l /\ l < idxS'[w] THEN 1 ELSE 0
    <3>1. /\ l \in Nat
          /\ htS[w][l] = (IF ShareBegin(numS, w) <= l /\ l < idxS[w] THEN 1 ELSE 0)
      BY <2>0, Sizes DEF WindowInv, SIdx
    <3>2. idxS'[w] = IF w = t THEN j + 1 ELSE idxS[w]
      BY <1>3, <1>4
    <3>3. l < j + 1 <=> (l = j \/ l < j)
      BY <1>1, <3>1
    <3> QED
      BY <1>1, <1>5, <3>1, <3>2, <3>3
  <2>2. ASSUME NEW k \in RIdx, NEW l \in SIdx
        PROVE  out'[w][k][l] = IF Matching(k, l) /\ htR'[w][k] = 1 /\ htS'[w][l] = 1 THEN 1 ELSE 0
    <3>1. /\ out[w][k][l] = (IF Matching(k, l) /\ htR[w][k] = 1 /\ htS[w][l] = 1 THEN 1 ELSE 0)
          /\ htR[w][k] \in {0, 1}
      BY <2>0 DEF WindowInv
    <3>2. CASE w = t /\ l = j
      BY <3>1, <3>2, <1>2, <1>3, <1>5, <1>7
    <3>3. CASE ~ (w = t /\ l = j)
      BY <3>1, <3>3, <1>3, <1>5, <1>7
    <3> QED
      BY <3>2, <3>3
  <2> QED
    BY <2>0, <2>1, <2>2, <1>3 DEF WindowInv
<1> QED
  BY <1>3, <1>5, <1>7, <1>8

LEMMA FetchStep == ASSUME IInv, NEW t \in Threads, Fetch(t) PROVE IInv'
<1> USE DEF IInv
<1>0. More(t) /\ pc[t] = "check" /\ UNCHANGED <<now, startTS, tick>>
  BY DEF Fetch, ClockInv
<1>1. Join(t)
  BY DEF Fetch
<1>2. WindowInv'
  BY <1>0, <1>1, FetchRWindows, FetchSWindows DEF More
<1>3. /\ htR' \in [Threads -> [RIdx -> Nat]] /\ htS' \in [Threads -> [SIdx -> Nat]]
      /\ out' \in [Threads -> [RIdx -> [SIdx -> Nat]]]
  BY <1>0, <1>1, FetchRWindows, FetchSWindows DEF More, TypeOK
<1>4. /\ idxR' \in [Threads -> 0 .. numR] /\ idxS' \in [Threads -> 0 .. numS]
      /\ \A o \in Threads : /\ ShareBegin(numS, o) <= idxS'[o] /\ idxS'[o] <= ShareEnd(numS, o)
                            /\ o # t => idxR'[o] = idxR[o] /\ idxS'[o] = idxS[o]
  <2>1. CASE tryR[t]
    <3>1. idxR' = [idxR EXCEPT ![t] = @ + 1] /\ idxS' = idxS /\ idxR[t] < numR
      BY <2>1, <1>0, <1>1, FetchRWindows DEF More
    <3>2. idxR[t] \in 0 .. numR /\ idxR[t] + 1 \in 0 .. numR
      BY <3>1, Sizes DEF TypeOK
    <3> QED
      BY <3>1, <3>2 DEF TypeOK
  <2>2. CASE ~ tryR[t]
    <3>1. idxS' = [idxS EXCEPT ![t] = @ + 1] /\ idxR' = idxR /\ idxS[t] < ShareEnd(numS, t)
      BY <2>2, <1>0, <1>1, FetchSWindows DEF More
    <3>2. ShareEnd(numS, t) \in Nat /\ ShareEnd(numS, t) <= numS /\ ShareBegin(numS, t) \in Nat
      BY ShareType, Sizes
    <3>3. idxS[t] \in 0 .. numS /\ ShareBegin(numS, t) <= idxS[t]
      BY DEF TypeOK
    <3>4. /\ idxS[t] + 1 \in 0 .. numS /\ ShareBegin(numS, t) <= idxS[t] + 1
          /\ idxS[t] + 1 <= ShareEnd(numS, t)
      BY <3>1, <3>2, <3>3, Sizes
    <3> QED
      BY <3>1, <3>4 DEF TypeOK
  <2> QED
    BY <2>1, <2>2
<1>5. /\ tryR' \in [Threads -> BOOLEAN]
      /\ \A o \in Threads : o # t => tryR'[o] = tryR[o]
  <2>1. tryR' = [tryR EXCEPT ![t] = ~ tryR[t]] /\ tryR \in [Threads -> BOOLEAN]
    BY DEF Fetch, TypeOK
  <2> QED
    BY <2>1, Zenon
<1>6. /\ pc' \in [Threads -> PCs]
      /\ pc'[t] \in {"fetched", "fetch"}
      /\ pc'[t] = "fetched" => finish(idxR'[t], idxS'[t], t)
      /\ \A o \in Threads : o # t => pc'[o] = pc[o]
  BY DEF Fetch, Goto, TypeOK, PCs, Started, Timed, Stopped
<1>7. TypeOK'
  <2>1. /\ now' \in Nat /\ now' <= StartBound + MaxArrival
        /\ startTS' \in Nat /\ tick' \in [Threads -> Nat]
    BY <1>0 DEF TypeOK
  <2> QED
    BY <2>1, <1>3, <1>4, <1>5, <1>6, Zenon DEF TypeOK
<1>8. ClockInv'
  <2> SUFFICES ASSUME NEW o \in Threads
               PROVE  /\ tick'[o] <= now'
                      /\ pc'[o] = "check" => More(o)'
                      /\ pc'[o] \in Stopped => finish(idxR'[o], idxS'[o], o)
                      /\ PERF_COUNTERS /\ pc'[o] \in {"fetch", "check"} \cup Stopped =>
                           \A u \in Threads : pc'[u] \in Timed
                      /\ PERF_COUNTERS /\ pc'[o] = "check" => startTS' <= tick'[o]
    BY <1>0 DEF ClockInv, finish, More
  <2>1. tick'[o] <= now' /\ (PERF_COUNTERS /\ pc'[o] = "check" => startTS' <= tick'[o])
    BY <1>0, <1>6 DEF ClockInv
  <2>2. pc'[o] = "check" => More(o)'
    <3>1. CASE o = t
      BY <3>1, <1>6
    <3>2. CASE o # t
      <4>1. tryR'[o] = tryR[o] /\ idxR'[o] = idxR[o] /\ idxS'[o] = idxS[o] /\ pc'[o] = pc[o]
        BY <3>2, <1>4, <1>5, <1>6
      <4>2. pc[o] = "check" => More(o)
        BY DEF ClockInv
      <4> QED
        BY <4>1, <4>2, Zenon DEF More
    <3> QED
      BY <3>1, <3>2
  <2>3. pc'[o] \in Stopped => finish(idxR'[o], idxS'[o], o)
    <3>1. CASE o = t
      BY <3>1, <1>6 DEF Stopped
    <3>2. CASE o # t
      <4>1. idxR'[o] = idxR[o] /\ idxS'[o] = idxS[o] /\ pc'[o] = pc[o]
        BY <3>2, <1>4, <1>6
      <4> QED
        BY <4>1 DEF ClockInv
    <3> QED
      BY <3>1, <3>2
  <2>4. PERF_COUNTERS /\ pc'[o] \in {"fetch", "check"} \cup Stopped =>
          \A u \in Threads : pc'[u] \in Timed
    BY <1>0, <1>6 DEF ClockInv, Timed, Stopped
  <2> QED
    BY <2>1, <2>2, <2>3, <2>4
<1> QED
  BY <1>2, <1>7, <1>8

LEMMA NextInv == IInv /\ [Next]_vars => IInv'
<1> SUFFICES ASSUME IInv, [Next]_vars PROVE IInv'
  OBVIOUS
<1>1. ASSUME NEW t \in Threads, ThreadStep(t) PROVE IInv'
  BY <1>1, ControlSteps, FetchStep DEF ThreadStep
<1>2. CASE Tick \/ UNCHANGED vars
  BY <1>2, TickStep
<1> QED
  BY <1>1, <1>2 DEF Next, Terminated

(* The windows hold what was fetched, the counts what has met, and with     *)
(* PERF_COUNTERS no clock reading of a fetching thread is behind startTS.   *)
THEOREM NoShuffleInvariant == SafeSpec => []IInv
  BY InitInv, NextInv, PTL DEF SafeSpec

(* JM counts every equal-key pair exactly once and no other pair, for every *)
(* number of threads and all inputs.                                        *)
THEOREM NoShuffleExact == SafeSpec => []ExactlyOnce
<1>1. IInv => ExactlyOnce
  <2> SUFFICES ASSUME IInv PROVE ExactlyOnce
    OBVIOUS
  <2> USE DEF IInv
  <2>1. ASSUME NEW t \in Threads, NEW i \in RIdx, NEW j \in SIdx, out[t][i][j] > 0
        PROVE  /\ Matching(i, j) /\ out[t][i][j] = 1
               /\ \A u \in Threads \ {t} : out[u][i][j] = 0
    <3>1. Matching(i, j) /\ out[t][i][j] = 1 /\ htS[t][j] = 1
      BY <2>1 DEF WindowInv
    <3>2. ASSUME NEW u \in Threads, htS[u][j] = 1 PROVE u = t
      <4>1. /\ ShareBegin(numS, t) <= j /\ j < idxS[t] /\ idxS[t] <= ShareEnd(numS, t)
            /\ ShareBegin(numS, u) <= j /\ j < idxS[u] /\ idxS[u] <= ShareEnd(numS, u)
            /\ idxS[t] \in 0 .. numS /\ idxS[u] \in 0 .. numS
        BY <3>1, <3>2 DEF WindowInv, TypeOK
      <4>2. j \in Nat /\ ShareEnd(numS, t) \in Nat /\ ShareEnd(numS, u) \in Nat
        BY ShareType, Sizes DEF SIdx
      <4>3. j < ShareEnd(numS, t) /\ j < ShareEnd(numS, u)
        BY <4>1, <4>2, Sizes
      <4> QED
        BY <4>1, <4>2, <4>3, ShareUnique, Sizes
    <3> QED
      BY <3>1, <3>2 DEF WindowInv
  <2>2. ASSUME AllExited, NEW i \in RIdx, NEW j \in SIdx, Matching(i, j)
        PROVE  \E t \in Threads : out[t][i][j] = 1
    <3>1. PICK t \in Threads : ShareBegin(numS, t) <= j /\ j < ShareEnd(numS, t)
      BY ShareExists, Sizes DEF SIdx
    <3>2. idxR[t] = numR /\ idxS[t] = ShareEnd(numS, t)
      BY <2>2 DEF AllExited, ClockInv, Stopped, finish
    <3>3. htR[t][i] = 1 /\ htS[t][j] = 1
      BY <3>1, <3>2, Sizes DEF WindowInv, RIdx
    <3> QED
      BY <2>2, <3>3 DEF WindowInv
  <2> QED
    BY <2>1, <2>2 DEF ExactlyOnce, CountedOnce, CountedAll
<1> QED
  BY <1>1, NoShuffleInvariant, PTL

(* In builds with PERF_COUNTERS the time origin is fixed before the first    *)
(* fetch.                                                                    *)
THEOREM NoShuffleOrigin == ASSUME PERF_COUNTERS PROVE SafeSpec => OneOrigin
<1>1. ASSUME IInv, [Next]_vars, NEW t \in Threads, pc[t] \in {"fetch", "check"} \cup Stopped
      PROVE  startTS' = startTS
  <2>1. \A u \in Threads : pc[u] # "writeTS"
    BY <1>1 DEF IInv, ClockInv, Timed, Stopped
  <2> QED
    BY <1>1, <2>1 DEF Next, ThreadStep, Arrive, Start, ReadStart, WriteStart, PerfBarrier, Poll,
                      PollEmpty, Fetch, Miss, Merge, Exit, Tick, Terminated, vars
<1>2. IInv /\ [Next]_vars =>
        [(\E t \in Threads : pc[t] \in {"fetch", "check"} \cup Stopped) => startTS' = startTS]_vars
  BY <1>1
<1> QED
  BY <1>2, NoShuffleInvariant, PTL DEF SafeSpec, OneOrigin

(* ... and no tuple is fetched before it has arrived.                        *)
THEOREM NoShuffleArrival == ASSUME PERF_COUNTERS PROVE SafeSpec => NoEarlyFetch
<1> DEFINE Arr == \A t \in Threads :
                    /\ idxR'[t] # idxR[t] => startTS + TsR[idxR[t]] <= now
                    /\ idxS'[t] # idxS[t] => startTS + TsS[idxS[t]] <= now
<1>1. ASSUME IInv, Next PROVE Arr
  <2> USE DEF IInv
  <2>1. ASSUME NEW u \in Threads, Fetch(u) PROVE Arr
    <3>a. pc[u] = "check" /\ Join(u)
      BY <2>1 DEF Fetch
    <3>0. More(u) /\ startTS <= tick[u] /\ tick[u] <= now
      BY <1>1, <3>a DEF ClockInv
    <3>1. /\ startTS \in Nat /\ tick[u] \in Nat /\ now \in Nat /\ tick[u] - startTS \in Nat
          /\ tick[u] - startTS < Word
      <4>1. /\ startTS \in Nat /\ tick[u] \in Nat /\ now \in Nat
            /\ now <= StartBound + MaxArrival
        BY <1>1 DEF TypeOK
      <4>2. StartBound + MaxArrival < Word
        BY NoShuffleAssumption
      <4> QED
        BY <3>0, <4>1, <4>2, Sizes
    <3>2. (tick[u] - startTS) % Word = tick[u] - startTS
      BY <3>1, Sizes
    <3>3. CASE tryR[u]
      <4>1. idxR[u] \in RIdx /\ TsR[idxR[u]] \in Nat
        <5>1. idxR[u] \in 0 .. numR /\ idxR[u] < numR
          BY <1>1, <3>0, <3>3 DEF More, TypeOK
        <5> QED
          BY <5>1, JoinAssumption, ArrivalAssumption DEF RIdx
      <4>2. TsR[idxR[u]] <= tick[u] - startTS
        BY <2>1, <3>2, <3>3 DEF Fetch, Arrived
      <4>3. startTS + TsR[idxR[u]] <= now
        BY <3>0, <3>1, <4>1, <4>2
      <4>4. \A t \in Threads : (t # u => idxR'[t] = idxR[t]) /\ idxS'[t] = idxS[t]
        <5>1. idxR' = [idxR EXCEPT ![u] = @ + 1] /\ idxS' = idxS
          BY <3>a, <3>3 DEF Join
        <5>2. idxR \in [Threads -> 0 .. numR]
          BY <1>1 DEF TypeOK
        <5> QED
          BY <5>1, <5>2
      <4> QED
        BY <4>3, <4>4
    <3>4. CASE ~ tryR[u]
      <4>1. idxS[u] \in SIdx /\ TsS[idxS[u]] \in Nat
        <5>1. idxS[u] \in 0 .. numS /\ idxS[u] < ShareEnd(numS, u)
          BY <1>1, <3>0, <3>4 DEF More, TypeOK
        <5>2. ShareEnd(numS, u) \in Nat /\ ShareEnd(numS, u) <= numS
          BY ShareType, Sizes
        <5> QED
          BY <5>1, <5>2, JoinAssumption, ArrivalAssumption DEF SIdx
      <4>2. TsS[idxS[u]] <= tick[u] - startTS
        BY <2>1, <3>2, <3>4 DEF Fetch, Arrived
      <4>3. startTS + TsS[idxS[u]] <= now
        BY <3>0, <3>1, <4>1, <4>2
      <4>4. \A t \in Threads : (t # u => idxS'[t] = idxS[t]) /\ idxR'[t] = idxR[t]
        <5>1. idxS' = [idxS EXCEPT ![u] = @ + 1] /\ idxR' = idxR
          BY <3>a, <3>4 DEF Join
        <5>2. idxS \in [Threads -> 0 .. numS]
          BY <1>1 DEF TypeOK
        <5> QED
          BY <5>1, <5>2
      <4> QED
        BY <4>3, <4>4
    <3> QED
      BY <3>3, <3>4
  <2>2. ASSUME UNCHANGED <<idxR, idxS>> PROVE Arr
    BY <2>2
  <2> QED
    BY <1>1, <2>1, <2>2 DEF Next, ThreadStep, Arrive, Start, ReadStart, WriteStart, PerfBarrier,
                            Poll, PollEmpty, Miss, Merge, Exit, Tick, Terminated, vars, unchangedJoin
<1> HIDE DEF Arr
<1>2. IInv /\ [Next]_vars => [Arr]_vars
  BY <1>1
<1>3. SafeSpec => [][Arr]_vars
  BY <1>2, NoShuffleInvariant, PTL DEF SafeSpec
<1> QED
  BY <1>3 DEF NoEarlyFetch, Arr

------------------------------------------------------------------------------
(* The unshuffled join implements JoinSpec. *)

(* A probe adds to the counters and never takes from them. *)
LEMMA CountersGrow ==
  ASSUME IInv, [Next]_vars, NEW t \in Threads, NEW i \in RIdx, NEW j \in SIdx
  PROVE  out'[t][i][j] >= out[t][i][j]
<1> USE DEF IInv
<1>1. out[t][i][j] \in Nat
  BY DEF TypeOK
<1>2. CASE UNCHANGED out
  BY <1>1, <1>2
<1>3. ASSUME NEW u \in Threads, Join(u) PROVE out'[t][i][j] >= out[t][i][j]
  <2>0. /\ htS[u][j] \in Nat /\ htR[u][i] \in Nat
        /\ out[u][i][j] \in Nat /\ out[u] \in [RIdx -> [SIdx -> Nat]]
    BY DEF TypeOK
  <2>1. CASE tryR[u]
    <3>1. out' = [out EXCEPT ![u] = ProbeS(@, htS[u], idxR[u])]
      BY <1>3, <2>1 DEF Join
    <3>2. ProbeS(out[u], htS[u], idxR[u])[i][j] >= out[u][i][j]
      BY <2>0 DEF ProbeS
    <3> QED BY <1>1, <3>1, <3>2 DEF TypeOK
  <2>2. CASE ~tryR[u]
    <3>1. out' = [out EXCEPT ![u] = ProbeR(@, htR[u], idxS[u])]
      BY <1>3, <2>2 DEF Join
    <3>2. ProbeR(out[u], htR[u], idxS[u])[i][j] >= out[u][i][j]
      BY <2>0 DEF ProbeR
    <3> QED BY <1>1, <3>1, <3>2 DEF TypeOK
  <2> QED BY <2>1, <2>2
<1>4. ASSUME NEW u \in Threads, ThreadStep(u) PROVE Join(u) \/ UNCHANGED out
  BY <1>4 DEF ThreadStep, Arrive, Start, ReadStart, WriteStart, PerfBarrier, Poll, PollEmpty, Fetch,
              Miss, Merge, Exit, unchangedJoin
<1>5. Tick \/ UNCHANGED vars => UNCHANGED out
  BY DEF Tick, vars, unchangedJoin
<1> QED
  BY <1>2, <1>3, <1>4, <1>5 DEF Next, Terminated

(* No step of a thread that has exited, and the last to exit counts nothing. *)
LEMMA ExitSteps ==
  ASSUME IInv, [Next]_vars
  PROVE  /\ AllExited => AllExited' /\ UNCHANGED out
         /\ ~AllExited /\ AllExited' => UNCHANGED out
<1>0. pc \in [Threads -> PCs]
  BY DEF IInv, TypeOK
<1>1. ASSUME NEW t \in Threads, ThreadStep(t)
      PROVE  pc[t] # "exited" /\ (UNCHANGED out \/ pc'[t] # "exited")
  <2>1. CASE Fetch(t)
    BY <1>0, <2>1 DEF Fetch, Goto
  <2>2. CASE ~Fetch(t)
    BY <1>1, <2>2 DEF ThreadStep, Arrive, Start, ReadStart, WriteStart, PerfBarrier, Poll, PollEmpty,
              Miss, Merge, Exit, CrossBarrier, unchangedJoin
  <2> QED BY <2>1, <2>2
<1>2. ASSUME Tick \/ UNCHANGED vars PROVE UNCHANGED <<pc, out>>
  BY <1>2 DEF Tick, vars, unchangedJoin
<1>3. CASE Tick \/ UNCHANGED vars
  BY <1>2, <1>3 DEF AllExited
<1>4. CASE \E t \in Threads : ThreadStep(t)
  BY <1>1, <1>4 DEF AllExited
<1> QED
  BY <1>3, <1>4 DEF Next, Terminated

LEMMA JoinStep ==
  ASSUME IInv, IInv', ExactlyOnce, ExactlyOnce', [Next]_vars
  PROVE  [J!JoinNext]_J!joinVars
<1>1. Counting(out) /\ Counting(out')
  BY DEF IInv, TypeOK, Counting
<1>2. CountedOnce(out) /\ CountedOnce(out') /\ (AllExited' => CountedAll(out'))
  BY DEF ExactlyOnce
<1>3. /\ AllExited => AllExited' /\ UNCHANGED out
      /\ ~AllExited /\ AllExited' => UNCHANGED out
  BY ExitSteps
<1>4. CASE AllExited
  <2>1. UNCHANGED out /\ AllExited /\ AllExited'
    BY <1>3, <1>4
  <2> QED BY <2>1 DEF J!joinVars, AllExited
<1>5. CASE ~AllExited /\ AllExited'
  <2>1. UNCHANGED out /\ CountedAll(out)
    BY <1>2, <1>3, <1>5
  <2>2. \A p \in Equal : Produced(out)[p] = 1
    BY <1>1, <1>2, <2>1, ProducedAll
  <2>3. J!Complete
    BY <1>5, <2>1, <2>2 DEF J!Complete
  <2> QED BY <2>3 DEF J!JoinNext
<1>6. CASE ~AllExited /\ ~AllExited'
  <2>1. \A t \in Threads, i \in RIdx, j \in SIdx : out[t][i][j] = 1 => out'[t][i][j] = 1
    <3> SUFFICES ASSUME NEW t \in Threads, NEW i \in RIdx, NEW j \in SIdx, out[t][i][j] = 1
                 PROVE  out'[t][i][j] = 1
      OBVIOUS
    <3>1. out'[t][i][j] >= 1 /\ out'[t][i][j] \in Nat
      BY <1>1, CountersGrow DEF Counting
    <3>2. out'[t][i][j] > 0
      BY <3>1
    <3> QED BY <3>2, <1>2 DEF CountedOnce
  <2>2. Grown(Produced(out), Produced(out'))
    BY <1>1, <1>2, <2>1, ProducedGrows
  <2>3. J!Produce
    <3>1. Produced(out)' = Produced(out')
      BY DEF Produced
    <3>2. AllExited' = AllExited
      BY <1>6 DEF AllExited
    <3> QED BY <1>6, <2>2, <3>1, <3>2 DEF J!Produce, Grown
  <2> QED BY <2>3 DEF J!JoinNext
<1> QED
  BY <1>4, <1>5, <1>6

(* Every step of the threads produces pairs that were missing, completes the *)
(* join or is none of its business: replicating R and dividing S implements  *)
(* the join for any number of threads, tuples and keys, in any build.        *)
THEOREM NoShuffleImplements == SafeSpec => ImplementsJoin
<1>1. Init => J!JoinInit
  <2> SUFFICES ASSUME Init PROVE J!JoinInit
    OBVIOUS
  <2>1. Counting(out) /\ \A t \in Threads, i \in RIdx, j \in SIdx : out[t][i][j] = 0
    BY DEF Init, EmptyOut, EmptyS, Counting
  <2>2. ~AllExited
    <3>1. 0 \in Threads
      BY Sizes DEF Threads
    <3>2. pc[0] # "exited"
      BY <3>1 DEF Init
    <3> QED BY <3>1, <3>2 DEF AllExited
  <2> QED BY <2>1, <2>2, ProducedNone DEF J!JoinInit
<1>2. IInv /\ IInv' /\ ExactlyOnce /\ ExactlyOnce' /\ [Next]_vars => [J!JoinNext]_J!joinVars
  BY JoinStep
<1> QED
  BY <1>1, <1>2, NoShuffleInvariant, NoShuffleExact, PTL
     DEF SafeSpec, ImplementsJoin, J!JoinSafety
==============================================================================
