------------------------- MODULE HandshakeJoinProofs -------------------------
(***************************************************************************)
(* The handshake join for every length of the line, all inputs and keys and *)
(* both joiners: two tuples that travel in opposite directions meet at most *)
(* once, and do not pass each other unseen unless clean() drops the S tuple *)
(* for another one of its key.                                              *)
(***************************************************************************)
EXTENDS HandshakeJoin, JoinBaseProofs

LEMMA Sizes == /\ numR \in Nat /\ numS \in Nat /\ nthreads \in Nat /\ nthreads >= 2
               /\ KeyR \in [RIdx -> Nat] /\ KeyS \in [SIdx -> Nat] /\ PastKeys \subseteq [R : Nat, S : Nat]
  BY JoinAssumption, HandshakeAssumption

(* The line of threads *)
LEMMA Line ==
  /\ 0 \in Threads /\ last \in Threads /\ last # 0 /\ last \in Nat
  /\ \A t \in Threads : t \in Nat /\ t <= last /\ (t # last => t + 1 \in Threads /\ t < t + 1)
                        /\ (t # 0 => t - 1 \in Threads /\ t - 1 < t)
  BY Sizes DEF Threads, last

LEMMA Positions == /\ \A i \in PosR : i \in Nat /\ i < numR + 1
                   /\ \A i \in Nat : i < numR + 1 => i \in PosR
                   /\ \A j \in PosS : j \in Nat /\ j < numS + 1
                   /\ \A j \in Nat : j < numS + 1 => j \in PosS
                   /\ RIdx \subseteq PosR /\ SIdx \subseteq PosS
                   /\ numR \notin RIdx /\ numS \notin SIdx
  BY Sizes DEF PosR, PosS, RIdx, SIdx

LEMMA Messages ==
  /\ \A i \in PosR : Tuple(i) \in Msgs
  /\ \A j \in PosS : Tuple(j) \in Msgs /\ Ack(j) \in Msgs
  /\ \A i : Tuple(i).pos = i /\ ~Tuple(i).ack /\ Ack(i).pos = i /\ Ack(i).ack
  /\ \A m \in Msgs : /\ m.pos \in Nat /\ m.ack \in BOOLEAN
                     /\ ~m.ack => m = Tuple(m.pos)
                     /\ m.ack => m = Ack(m.pos)
<1>1. \A m \in Msgs : m.pos \in Nat /\ m.ack \in BOOLEAN
  BY Positions DEF Msgs
<1>2. ASSUME NEW m \in Msgs
      PROVE  (~m.ack => m = Tuple(m.pos)) /\ (m.ack => m = Ack(m.pos))
  BY DEF Msgs, Tuple, Ack
<1> QED
  BY <1>1, <1>2 DEF Msgs, Tuple, Ack

LEMMA Apart == \A i, j : Tuple(i) # Ack(j)
  BY Messages

LEMMA HeadTail ==
  ASSUME NEW q \in Seq(Msgs), q # <<>>
  PROVE  /\ Head(q) = q[1] /\ Head(q) \in Msgs /\ 1 \in DOMAIN q
         /\ Tail(q) \in Seq(Msgs)
         /\ \A n : n \in DOMAIN Tail(q) <=> n \in Nat /\ n >= 1 /\ n + 1 \in DOMAIN q
         /\ \A n \in DOMAIN Tail(q) : Tail(q)[n] = q[n + 1] /\ n \in Nat
         /\ \A n \in DOMAIN q : n \in Nat /\ q[n] \in Msgs /\ (n # 1 => n - 1 \in DOMAIN Tail(q) /\ Tail(q)[n - 1] = q[n])
  OBVIOUS

LEMMA AppendOne ==
  ASSUME NEW q \in Seq(Msgs), NEW m \in Msgs
  PROVE  /\ Append(q, m) \in Seq(Msgs) /\ q \o <<m>> = Append(q, m) /\ q \o <<>> = q
         /\ Len(q) + 1 \in DOMAIN Append(q, m) /\ Append(q, m)[Len(q) + 1] = m /\ Len(q) \in Nat
         /\ \A n : n \in DOMAIN Append(q, m) <=> n \in DOMAIN q \/ n = Len(q) + 1
         /\ \A n \in DOMAIN q : Append(q, m)[n] = q[n] /\ n \in Nat /\ n < Len(q) + 1 /\ q[n] \in Msgs
  OBVIOUS

------------------------------------------------------------------------------
(* Queues whose tuples are consecutive *)
LEMMA OrderedAck ==
  ASSUME NEW q \in Seq(Msgs), NEW from \in Nat, NEW to \in Nat, InOrder(q, from, to),
         NEW m \in Msgs, m.ack
  PROVE  InOrder(Append(q, m), from, to)
<1> DEFINE r == Append(q, m)
<1>1. /\ \A n : n \in DOMAIN r <=> n \in DOMAIN q \/ n = Len(q) + 1
      /\ \A n \in DOMAIN q : r[n] = q[n]
      /\ r[Len(q) + 1] = m
  BY AppendOne
<1> HIDE DEF r
<1>2. \A n \in DOMAIN r : ~r[n].ack => n \in DOMAIN q /\ r[n] = q[n]
  BY <1>1
<1>3. \A i \in from .. to - 1 : \E n \in DOMAIN r : r[n] = Tuple(i)
  BY <1>1 DEF InOrder
<1>4. InOrder(r, from, to)
  BY <1>2, <1>3 DEF InOrder
<1> QED
  BY <1>4 DEF r

LEMMA OrderedTuple ==
  ASSUME NEW q \in Seq(Msgs), NEW from \in Nat, NEW to \in Nat, from <= to, InOrder(q, from, to),
         Tuple(to) \in Msgs
  PROVE  InOrder(Append(q, Tuple(to)), from, to + 1)
<1> DEFINE r == Append(q, Tuple(to))
<1>1. /\ \A n : n \in DOMAIN r <=> n \in DOMAIN q \/ n = Len(q) + 1
      /\ \A n \in DOMAIN q : r[n] = q[n] /\ n \in Nat /\ n < Len(q) + 1 /\ q[n] \in Msgs
      /\ r[Len(q) + 1] = Tuple(to) /\ Len(q) \in Nat
  BY AppendOne
<1> HIDE DEF r
<1>2. Tuple(to).pos = to /\ ~Tuple(to).ack
  BY Messages
<1>3. \A n \in DOMAIN q : q[n].pos \in Nat
  BY <1>1, Messages
<1>4. \A n \in DOMAIN r : ~r[n].ack => from <= r[n].pos /\ r[n].pos < to + 1
  BY <1>1, <1>2, <1>3 DEF InOrder
<1>5. ASSUME NEW m \in DOMAIN r, NEW n \in DOMAIN r, m < n, ~r[m].ack, ~r[n].ack
      PROVE  r[m].pos < r[n].pos
  <2>1. m \in DOMAIN q
    BY <1>1, <1>5
  <2>2. CASE n \in DOMAIN q
    BY <1>1, <1>5, <2>1, <2>2 DEF InOrder
  <2>3. CASE n = Len(q) + 1
    BY <1>1, <1>2, <1>5, <2>1, <2>3 DEF InOrder
  <2> QED
    BY <1>1, <2>2, <2>3
<1>6. ASSUME NEW i \in from .. (to + 1) - 1 PROVE \E n \in DOMAIN r : r[n] = Tuple(i)
  <2>1. CASE i = to
    BY <1>1, <2>1
  <2>2. CASE i # to
    <3>1. i \in from .. to - 1
      BY <2>2
    <3>2. PICK n \in DOMAIN q : q[n] = Tuple(i)
      BY <3>1 DEF InOrder
    <3> QED
      BY <1>1, <3>2
  <2> QED
    BY <2>1, <2>2
<1>7. InOrder(r, from, to + 1)
  BY <1>4, <1>5, <1>6 DEF InOrder
<1> QED
  BY <1>7 DEF r

LEMMA OrderedTail ==
  ASSUME NEW q \in Seq(Msgs), q # <<>>, NEW from \in Nat, NEW to \in Nat, InOrder(q, from, to)
  PROVE  /\ Head(q).ack => InOrder(Tail(q), from, to)
         /\ ~Head(q).ack => /\ Head(q) = Tuple(from) /\ from < to
                            /\ InOrder(Tail(q), from + 1, to)
<1> DEFINE r == Tail(q)
<1>1. /\ Head(q) = q[1] /\ Head(q) \in Msgs /\ 1 \in DOMAIN q
      /\ \A n \in DOMAIN r : r[n] = q[n + 1] /\ n \in Nat /\ n >= 1 /\ n + 1 \in DOMAIN q
      /\ \A n \in DOMAIN q : /\ n \in Nat /\ q[n] \in Msgs
                             /\ n # 1 => n - 1 \in DOMAIN r /\ r[n - 1] = q[n]
  BY HeadTail
<1> HIDE DEF r
<1>2. ASSUME NEW m \in DOMAIN r, NEW n \in DOMAIN r, m < n, ~r[m].ack, ~r[n].ack
      PROVE  r[m].pos < r[n].pos
  <2>1. r[m] = q[m + 1] /\ r[n] = q[n + 1] /\ m + 1 \in DOMAIN q /\ n + 1 \in DOMAIN q
    BY <1>1
  <2>2. m + 1 < n + 1
    BY <1>1, <1>2
  <2> QED
    BY <1>2, <2>1, <2>2 DEF InOrder
<1>3. \A n \in DOMAIN r : ~r[n].ack => from <= r[n].pos /\ r[n].pos < to
  BY <1>1 DEF InOrder
<1>4. ASSUME NEW i \in from .. to - 1, q[1] # Tuple(i) PROVE \E n \in DOMAIN r : r[n] = Tuple(i)
  <2>1. PICK n \in DOMAIN q : q[n] = Tuple(i)
    BY DEF InOrder
  <2> QED
    BY <1>1, <1>4, <2>1
<1>5. CASE Head(q).ack
  <2>1. \A i : q[1] # Tuple(i)
    BY <1>1, <1>5, Messages
  <2>2. InOrder(r, from, to)
    BY <1>2, <1>3, <1>4, <2>1 DEF InOrder
  <2> QED
    BY <1>5, <2>2 DEF r
<1>6. CASE ~Head(q).ack
  <2>1. from <= q[1].pos /\ q[1].pos < to /\ q[1].pos \in Nat
    BY <1>1, <1>6, Messages DEF InOrder
  <2>2. from \in from .. to - 1
    BY <2>1
  <2>3. PICK n \in DOMAIN q : q[n] = Tuple(from)
    BY <2>2 DEF InOrder
  <2>4. n = 1
    <3>1. n \in Nat /\ n >= 1 /\ q[n].pos = from /\ ~q[n].ack
      BY <1>1, <2>3, Messages
    <3>2. n > 1 => q[1].pos < q[n].pos
      BY <1>1, <1>6, <3>1 DEF InOrder
    <3> QED
      BY <2>1, <3>1, <3>2
  <2>5. q[1] = Tuple(from)
    BY <2>3, <2>4
  <2>6. ASSUME NEW k \in DOMAIN r, ~r[k].ack PROVE from + 1 <= r[k].pos
    <3>1. r[k] = q[k + 1] /\ k + 1 \in DOMAIN q /\ 1 < k + 1 /\ q[k + 1].pos \in Nat
      BY <1>1, Messages
    <3>2. q[1].pos < q[k + 1].pos
      BY <1>1, <1>6, <2>6, <3>1 DEF InOrder
    <3> QED
      BY <2>1, <3>1, <3>2
  <2>7. ASSUME NEW i \in from + 1 .. to - 1 PROVE \E k \in DOMAIN r : r[k] = Tuple(i)
    <3>1. i \in from .. to - 1 /\ i # from
      OBVIOUS
    <3>2. q[1] # Tuple(i)
      BY <2>5, <3>1, Messages
    <3> QED
      BY <1>4, <3>1, <3>2
  <2>8. InOrder(r, from + 1, to)
    BY <1>2, <1>3, <2>6, <2>7 DEF InOrder
  <2> QED
    BY <1>1, <1>6, <2>1, <2>5, <2>8 DEF r
<1> QED
  BY <1>5, <1>6

------------------------------------------------------------------------------
(* Consequences of the invariant *)
LEMMA Sent ==
  ASSUME TypeOK, CountInv, NEW t \in Threads
  PROVE  /\ cntR[t] \in Nat /\ cntR[t] <= numR + 1 /\ cntS[t] \in Nat /\ cntS[t] <= numS + 1
         /\ SentR(t) \in Nat /\ SentR(t) <= cntR[t]
         /\ SentS(t) \in Nat /\ SentS(t) <= cntS[t]
<1>1. cntR[t] \in Nat /\ cntR[t] <= numR + 1 /\ cntS[t] \in Nat /\ cntS[t] <= numS + 1
  BY Sizes DEF TypeOK
<1>2. \A f \in Fetched : f # <<>> => Head(f) \in Msgs
  BY DEF Fetched
<1>3. Carries(t) => cntR[t] - 1 \in Nat
  <2> SUFFICES ASSUME Carries(t) PROVE cntR[t] - 1 \in Nat
    OBVIOUS
  <2>1. Head(fetchR[t]) \in Msgs /\ Head(fetchR[t]) = Tuple(cntR[t] - 1)
    BY <1>2 DEF Carries, TypeOK, CountInv
  <2> QED
    BY <2>1, Messages
<1>4. CarriesS(t) => cntS[t] - 1 \in Nat
  <2> SUFFICES ASSUME CarriesS(t) PROVE cntS[t] - 1 \in Nat
    OBVIOUS
  <2>1. Head(fetchS[t]) \in Msgs /\ Head(fetchS[t]) = Tuple(cntS[t] - 1)
    BY <1>2 DEF CarriesS, TypeOK, CountInv
  <2> QED
    BY <2>1, Messages
<1> QED
  BY <1>1, <1>3, <1>4 DEF SentR, SentS

(* R is seen by the threads from left to right, S from right to left. *)
LEMMA Seen ==
  ASSUME TypeOK, CountInv, NEW t \in Threads, NEW u \in Threads, t <= u
  PROVE  /\ cntR[u] <= cntR[t] /\ cntS[t] <= cntS[u]
         /\ t # u => cntR[u] <= SentR(t) /\ cntS[t] <= SentS(u)
<1>1. CASE t = u
  BY <1>1, Sent
<1>2. CASE t # u
  <2>1. t < u
    BY <1>2, Line
  <2>2. cntR[u] <= SentR(t) /\ cntS[t] <= SentS(u)
    BY <2>1 DEF CountInv
  <2> QED
    BY <2>2, Sent
<1> QED
  BY <1>1, <1>2

LEMMA Queued ==
  ASSUME IInv, NEW t \in Threads, t # 0, NEW n \in DOMAIN leftRecvQueue[t],
         ~leftRecvQueue[t][n].ack
  PROVE  LET i == leftRecvQueue[t][n].pos
         IN  /\ i \in PosR /\ i \in Nat /\ cntR[t] <= i /\ i < SentR(t - 1) /\ i < cntR[t - 1]
             /\ leftRecvQueue[t][n] = Tuple(i)
<1>1. InOrder(leftRecvQueue[t], cntR[t], SentR(t - 1))
  BY DEF IInv, LineInv
<1>2. leftRecvQueue[t][n] \in Msgs
  BY DEF IInv, TypeOK
<1>3. cntR[t] <= leftRecvQueue[t][n].pos /\ leftRecvQueue[t][n].pos < SentR(t - 1)
  BY <1>1 DEF InOrder
<1>4. t - 1 \in Threads
  BY Line
<1>5. SentR(t - 1) \in Nat /\ SentR(t - 1) <= cntR[t - 1] /\ cntR[t - 1] \in Nat /\ cntR[t - 1] <= numR + 1
  BY <1>4, Sent DEF IInv
<1>6. leftRecvQueue[t][n].pos \in Nat
  BY <1>2, Messages
<1> QED
  BY <1>2, <1>3, <1>5, <1>6, Messages, Positions, Sizes

(* A tuple in a thread's hands or in the window of the last is in no queue. *)
LEMMA HeldNotQueued ==
  ASSUME IInv, NEW t \in Threads, NEW i, Holds(t, i),
         NEW u \in Threads, u # 0, NEW n \in DOMAIN leftRecvQueue[u], ~leftRecvQueue[u][n].ack
  PROVE  leftRecvQueue[u][n].pos # i
<1> SUFFICES ASSUME leftRecvQueue[u][n].pos = i PROVE FALSE
  OBVIOUS
<1>1. i \in Nat /\ cntR[u] <= i /\ i < SentR(u - 1)
  BY Queued
<1>2. u - 1 \in Threads /\ t \in Nat /\ u \in Nat /\ u <= last /\ u - 1 \in Nat
  BY Line
<1>3. /\ cntR[u] \in Nat /\ cntR[t] \in Nat /\ SentR(u - 1) \in Nat /\ SentR(t) \in Nat
      /\ SentR(u - 1) <= cntR[u - 1] /\ cntR[u - 1] \in Nat
  BY <1>2, Sent DEF IInv
<1>4. i < cntR[t]
  BY <1>3 DEF Holds
<1>5. t < u
  <2>1. ~(u <= t)
    BY <1>1, <1>3, <1>4, Seen DEF IInv
  <2> QED
    BY <1>2, <2>1
<1>6. t # last
  BY <1>2, <1>5, Line
<1>7. SentR(t) = i
  BY <1>6 DEF Holds, SentR
<1>8. t # u - 1
  BY <1>1, <1>7, <1>3
<1>9. t <= u - 1
  BY <1>2, <1>5
<1>10. cntR[u - 1] <= SentR(t)
  BY <1>2, <1>8, <1>9, Seen DEF IInv
<1> QED
  BY <1>1, <1>3, <1>7, <1>10

(* Whoever has counted a pair has seen both tuples. *)
LEMMA MetSeen ==
  ASSUME IInv, NEW i \in PosR, NEW j \in PosS, Met(i, j)
  PROVE  \E v \in Threads : i < cntR[v] /\ j < cntS[v] /\ out[v][i][j] # 0
  BY DEF Met, IInv, OutInv

------------------------------------------------------------------------------
LEMMA InitInv == Init => IInv
<1> SUFFICES ASSUME Init PROVE IInv
  OBVIOUS
<1>1. \A t \in Threads : ~Carries(t) /\ ~CarriesAck(t) /\ ~CarriesS(t)
  BY DEF Init, Carries, CarriesAck, CarriesS, Holding
<1>2. \A t \in Threads : SentR(t) = 0 /\ SentS(t) = 0 /\ cntR[t] = 0 /\ cntS[t] = 0
  BY <1>1 DEF SentR, SentS, Init
<1>3. \A t \in Threads : leftRecvQueue[t] = <<>> /\ rightRecvQueue[t] = <<>>
  BY DEF Init
<1>4. DOMAIN <<>> = {}
  OBVIOUS
<1>5. \A t \in Threads, i \in PosR : ~Holds(t, i)
  BY <1>1, <1>2, Positions DEF Holds
<1>6. TypeOK
  <2>1. \A t \in Threads : fetchR[t] \in Fetched /\ fetchS[t] \in Fetched
    BY DEF Init, Fetched
  <2> QED
    BY <2>1, Sizes DEF Init, TypeOK, PCs
<1>7. CountInv
  BY <1>1, <1>2, Line DEF CountInv, Init
<1>8. LineInv
  <2>1. InOrder(<<>>, 0, 0)
    BY <1>4 DEF InOrder
  <2>2. \A t \in Threads : (t # 0 => t - 1 \in Threads) /\ (t # last => t + 1 \in Threads)
    BY Line
  <2> QED
    BY <1>2, <1>3, <1>4, <2>1, <2>2 DEF LineInv
<1>9. AckInv
  BY <1>1, <1>3, <1>4 DEF AckInv
<1>10. WinInv
  <2>1. \A t \in Threads : (\A i \in PosR : winR[t][i] = 0) /\ (\A j \in PosS : winS[t][j] = 0)
    BY DEF Init
  <2>2. \A j \in SIdx : ~(j < 0)
    BY Sizes DEF SIdx
  <2> QED
    BY <1>2, <1>5, <2>1, <2>2 DEF WinInv, KeptUntilSeen, DroppedAfter
<1>11. \A t \in Threads, i \in PosR, j \in PosS : out[t][i][j] = 0
  BY DEF Init
<1>12. OutInv
  BY <1>11 DEF OutInv
<1>13. MeetInv
  BY <1>3, <1>4, <1>5, Positions DEF MeetInv
<1> QED
  BY <1>6, <1>7, <1>8, <1>9, <1>10, <1>12, <1>13 DEF IInv

------------------------------------------------------------------------------
(* Steps that fetch nothing and hand nothing on: the barriers, NoLeft,      *)
(* NoRight, and ForwardR with empty hands or in the last thread             *)
LEMMA QuietStep ==
  ASSUME IInv, TypeOK',
         UNCHANGED <<joiner, pastKey, idxR, idxS, cntR, cntS, queueVars, winR, winS, out>>,
         \A t \in Threads : /\ Carries(t)' => Carries(t)
                            /\ t # last => (Carries(t)' <=> Carries(t))
                            /\ CarriesAck(t)' => CarriesAck(t)
                            /\ CarriesS(t)' <=> CarriesS(t)
                            /\ Carries(t)' \/ CarriesAck(t)' => fetchR'[t] = fetchR[t]
                            /\ CarriesS(t)' => fetchS'[t] = fetchS[t]
  PROVE  IInv'
<1> USE DEF IInv
<1>1. UNCHANGED <<joiner, pastKey, idxR, idxS, cntR, cntS, leftRecvQueue, rightRecvQueue, winR, winS, out>>
  BY DEF queueVars
<1>2. \A t \in Threads : (t # last => SentR(t)' = SentR(t)) /\ SentS(t)' = SentS(t)
  BY <1>1 DEF SentR, SentS
<1>3. \A t \in Threads : \A i : Holds(t, i)' <=> Holds(t, i)
  BY <1>1 DEF Holds
<1>4. CountInv'
  <2>1. \A t, u \in Threads : t < u => t # last
    BY Sizes DEF Threads, last
  <2> QED
    BY <1>1, <1>2, <2>1 DEF CountInv
<1>5. LineInv'
  <2>1. \A t \in Threads : /\ t # 0 => t - 1 \in Threads /\ t - 1 # last
                           /\ t # last => t + 1 \in Threads
    BY Sizes DEF Threads, last
  <2> QED
    BY <1>1, <1>2, <2>1 DEF LineInv, InOrder
<1>6. AckInv'
  BY <1>1 DEF AckInv
<1>7. WinInv'
  BY <1>1, <1>3 DEF WinInv, KeptUntilSeen, DroppedAfter, CleanExact
<1>8. OutInv'
  BY <1>1 DEF OutInv, kR, kS
<1>9. MeetInv'
  BY <1>1, <1>3 DEF MeetInv, MetBefore, StillToMeet, Met, Awaited, CleanExact
<1> QED
  BY <1>4, <1>5, <1>6, <1>7, <1>8, <1>9

LEMMA IdleSteps ==
  ASSUME IInv, NEW t \in Threads, Arrive(t) \/ Start(t) \/ Exit(t) \/ NoLeft(t) \/ NoRight(t)
  PROVE  IInv'
<1>1. UNCHANGED <<joiner, pastKey, idxR, idxS, cntR, cntS, queueVars, winR, winS, out>>
  BY DEF Arrive, Start, Exit, NoLeft, NoRight, inputVars, joinVars
<1>2. <<>> \in Fetched
  BY DEF Fetched
<1>3. TypeOK'
  <2>1. pc' \in [Threads -> PCs]
    BY DEF Arrive, Start, Exit, NoLeft, NoRight, Goto, IInv, TypeOK, PCs, Holding
  <2>2. fetchR' \in [Threads -> Fetched] /\ fetchS' \in [Threads -> Fetched]
    BY <1>2 DEF Arrive, Start, Exit, NoLeft, NoRight, joinVars, IInv, TypeOK
  <2> QED
    BY <1>1, <2>1, <2>2 DEF IInv, TypeOK, queueVars
<1>4. \A u \in Threads : /\ Carries(u)' <=> Carries(u)
                         /\ CarriesAck(u)' => CarriesAck(u)
                         /\ CarriesS(u)' <=> CarriesS(u)
                         /\ Carries(u)' \/ CarriesAck(u)' => fetchR'[u] = fetchR[u]
                         /\ CarriesS(u)' => fetchS'[u] = fetchS[u]
  <2> SUFFICES ASSUME NEW u \in Threads
               PROVE  /\ Carries(u)' <=> Carries(u)
                      /\ CarriesAck(u)' => CarriesAck(u)
                      /\ CarriesS(u)' <=> CarriesS(u)
                      /\ Carries(u)' \/ CarriesAck(u)' => fetchR'[u] = fetchR[u]
                      /\ CarriesS(u)' => fetchS'[u] = fetchS[u]
    OBVIOUS
  <2> USE DEF Carries, CarriesAck, CarriesS, Holding, Goto, IInv, TypeOK
  <2>1. CASE Arrive(t) \/ Start(t) \/ Exit(t)
    BY <2>1 DEF Arrive, Start, Exit, joinVars
  <2>2. CASE NoLeft(t)
    BY <2>2 DEF NoLeft
  <2>3. CASE NoRight(t)
    BY <2>3 DEF NoRight
  <2> QED
    BY <2>1, <2>2, <2>3
<1> QED
  BY <1>1, <1>3, <1>4, QuietStep

------------------------------------------------------------------------------
(* A thread sees an R tuple: PullLeft with a tuple, and ReadR *)
SeesR(t, i) ==
  /\ pc[t] = "left" /\ pc' = [pc EXCEPT ![t] = "right"]
  /\ fetchR' = [fetchR EXCEPT ![t] = <<Tuple(i)>>]
  /\ JoinR(t, i)
  /\ cntR' = [cntR EXCEPT ![t] = @ + 1]
  /\ UNCHANGED <<joiner, pastKey, idxS, cntS, rightRecvQueue, fetchS>>
  /\ i = cntR[t] /\ i \in PosR
  /\ IF t = 0
     THEN idxR' = idxR + 1 /\ UNCHANGED leftRecvQueue
     ELSE /\ leftRecvQueue[t] # <<>> /\ Head(leftRecvQueue[t]) = Tuple(i)
          /\ leftRecvQueue' = [leftRecvQueue EXCEPT ![t] = Tail(@)]
          /\ UNCHANGED idxR

LEMMA LeftSteps ==
  ASSUME IInv, NEW t \in Threads
  PROVE  /\ ReadR(t) => \E i : SeesR(t, i)
         /\ PullLeft(t) /\ ~Head(leftRecvQueue[t]).ack => \E i : SeesR(t, i)
<1>1. ASSUME ReadR(t) PROVE SeesR(t, idxR)
  <2>1. t = 0 /\ idxR = cntR[t] /\ idxR \in PosR
    BY <1>1, Sizes DEF ReadR, IInv, CountInv, TypeOK, PosR
  <2>2. ~Tuple(idxR).ack /\ Tuple(idxR).pos = idxR
    BY Messages
  <2> QED
    BY <1>1, <2>1, <2>2 DEF ReadR, SeesR, processLeft, Goto, queueVars
<1>2. ASSUME PullLeft(t), ~Head(leftRecvQueue[t]).ack PROVE SeesR(t, cntR[t])
  <2>1. t # 0 /\ leftRecvQueue[t] # <<>>
    BY <1>2 DEF PullLeft
  <2>2. t - 1 \in Threads
    BY <2>1, Line
  <2>3. cntR[t] \in Nat /\ SentR(t - 1) \in Nat /\ SentR(t - 1) <= numR + 1
    BY <2>2, Sent, Sizes DEF IInv
  <2>4. leftRecvQueue[t] \in Seq(Msgs) /\ InOrder(leftRecvQueue[t], cntR[t], SentR(t - 1))
    BY <2>1 DEF IInv, TypeOK, LineInv
  <2>5. Head(leftRecvQueue[t]) = Tuple(cntR[t]) /\ cntR[t] < SentR(t - 1)
    BY <1>2, <2>1, <2>3, <2>4, OrderedTail
  <2>6. cntR[t] \in PosR
    BY <2>3, <2>5, Positions, Sizes
  <2>7. Tuple(cntR[t]).pos = cntR[t]
    BY Messages
  <2> QED
    BY <1>2, <2>1, <2>5, <2>6, <2>7 DEF PullLeft, SeesR, processLeft, Goto, inputVars
<1> QED
  BY <1>1, <1>2

(* What has changed is thread t's count and hands, its window and the head  *)
(* of its queue.                                                            *)
LEMMA SeesRFacts ==
  ASSUME IInv, NEW t \in Threads, NEW i, SeesR(t, i)
  PROVE  /\ TypeOK'
         /\ \A u \in Threads : u # t => /\ pc'[u] = pc[u] /\ fetchR'[u] = fetchR[u]
                                        /\ cntR'[u] = cntR[u] /\ winR'[u] = winR[u]
                                        /\ out'[u] = out[u]
                                        /\ leftRecvQueue'[u] = leftRecvQueue[u]
         /\ cntR'[t] = i + 1 /\ i \in Nat /\ cntR[t] = i
         /\ ~Carries(t) /\ ~CarriesAck(t) /\ Carries(t)' /\ ~CarriesAck(t)' /\ fetchR'[t] = <<Tuple(i)>>
         /\ \A u \in Threads : /\ u # t => (Carries(u)' <=> Carries(u)) /\ (CarriesAck(u)' <=> CarriesAck(u))
                               /\ CarriesS(u)' <=> CarriesS(u)
                               /\ SentR(u)' = SentR(u) /\ SentS(u)' = SentS(u)
         /\ \A u \in Threads, k \in PosR : u # t => (Holds(u, k)' <=> Holds(u, k))
         /\ \A u \in Threads : u < t => i < SentR(u)
         /\ t # 0 => InOrder(leftRecvQueue'[t], i + 1, SentR(t - 1))
<1> USE DEF IInv
<1>1. i \in PosR /\ i \in Nat /\ Tuple(i) \in Msgs /\ i < numR + 1 /\ cntR[t] = i
  BY Positions, Messages DEF SeesR
<1>2. <<Tuple(i)>> \in Fetched /\ <<Tuple(i)>> # <<>> /\ Head(<<Tuple(i)>>) = Tuple(i)
  BY <1>1 DEF Fetched
<1>3. winR' \in [Threads -> [PosR -> Nat]] /\ winS' = winS
  BY <1>1 DEF SeesR, JoinR, TypeOK
<1>4. out' \in [Threads -> [PosR -> [PosS -> Nat]]] /\ \A u \in Threads : u # t => out'[u] = out[u]
  <2> DEFINE row == [j \in PosS |-> out[t][i][j] + IF kS(j) = kR(i) THEN winS[t][j] ELSE 0]
  <2>1. out' = [out EXCEPT ![t][i] = row]
    BY DEF SeesR, JoinR
  <2>2. row \in [PosS -> Nat]
    BY <1>1 DEF TypeOK
  <2> HIDE DEF row
  <2> QED
    BY <1>1, <2>1, <2>2 DEF TypeOK
<1>5. idxR' \in 0 .. numR + 1 /\ cntR' \in [Threads -> 0 .. numR + 1]
  <2>1. i + 1 \in 0 .. numR + 1
    BY <1>1, Sizes
  <2>2. idxR' = i + 1 \/ idxR' = idxR
    BY <1>1 DEF SeesR, CountInv
  <2> QED
    BY <1>1, <2>1, <2>2 DEF SeesR, TypeOK
<1>6. /\ leftRecvQueue' \in [Threads -> Seq(Msgs)]
      /\ \A u \in Threads : u # t => leftRecvQueue'[u] = leftRecvQueue[u]
  <2>1. CASE t = 0
    BY <2>1 DEF SeesR, TypeOK
  <2>2. CASE t # 0
    <3>1. leftRecvQueue[t] \in Seq(Msgs) /\ leftRecvQueue[t] # <<>>
      BY <2>2 DEF SeesR, TypeOK
    <3>2. Tail(leftRecvQueue[t]) \in Seq(Msgs)
      BY <3>1, HeadTail
    <3>3. leftRecvQueue' = [leftRecvQueue EXCEPT ![t] = Tail(leftRecvQueue[t])]
      BY <2>2 DEF SeesR
    <3> QED
      BY <3>2, <3>3 DEF TypeOK
  <2> QED
    BY <2>1, <2>2
<1>7. /\ pc' \in [Threads -> PCs] /\ fetchR' \in [Threads -> Fetched]
      /\ pc'[t] = "right" /\ fetchR'[t] = <<Tuple(i)>>
  BY <1>2 DEF SeesR, TypeOK, PCs, Holding
<1>8. TypeOK'
  BY <1>3, <1>4, <1>5, <1>6, <1>7 DEF SeesR, TypeOK
<1>9. \A u \in Threads : u # t => /\ pc'[u] = pc[u] /\ fetchR'[u] = fetchR[u]
                                  /\ cntR'[u] = cntR[u] /\ winR'[u] = winR[u]
  BY DEF SeesR, JoinR, TypeOK
<1>10. cntR'[t] = i + 1 /\ pc[t] = "left"
  BY <1>1 DEF SeesR, TypeOK
<1>11. ~Carries(t) /\ ~CarriesAck(t) /\ Carries(t)' /\ ~CarriesAck(t)'
  BY <1>2, <1>7, <1>10, Messages DEF Carries, CarriesAck, Holding
<1>12. \A u \in Threads : /\ u # t => (Carries(u)' <=> Carries(u)) /\ (CarriesAck(u)' <=> CarriesAck(u))
                          /\ CarriesS(u)' <=> CarriesS(u)
  <2>1. UNCHANGED <<fetchS, cntS>>
    BY DEF SeesR
  <2> QED
    BY <1>7, <1>9, <1>10, <2>1 DEF Carries, CarriesAck, CarriesS
<1>13. \A u \in Threads : SentR(u)' = SentR(u) /\ SentS(u)' = SentS(u)
  <2>1. cntS' = cntS
    BY DEF SeesR
  <2>2. SentR(t)' = SentR(t)
    BY <1>1, <1>10, <1>11 DEF SentR
  <2> QED
    BY <1>9, <1>12, <2>1, <2>2 DEF SentR, SentS
<1>14. \A u \in Threads, k \in PosR : u # t => (Holds(u, k)' <=> Holds(u, k))
  BY <1>9, <1>12 DEF Holds
<1>15. t # 0 => i < SentR(t - 1) /\ InOrder(leftRecvQueue'[t], i + 1, SentR(t - 1))
  <2> SUFFICES ASSUME t # 0 PROVE i < SentR(t - 1) /\ InOrder(leftRecvQueue'[t], i + 1, SentR(t - 1))
    OBVIOUS
  <2>1. leftRecvQueue[t] # <<>> /\ ~Head(leftRecvQueue[t]).ack /\ leftRecvQueue'[t] = Tail(leftRecvQueue[t])
    BY Messages DEF SeesR, TypeOK
  <2>2. t - 1 \in Threads
    BY Line
  <2>3. cntR[t] \in Nat /\ SentR(t - 1) \in Nat
    BY <2>2, Sent
  <2>4. leftRecvQueue[t] \in Seq(Msgs) /\ InOrder(leftRecvQueue[t], cntR[t], SentR(t - 1))
    BY DEF TypeOK, LineInv
  <2> QED
    BY <1>1, <2>1, <2>3, <2>4, OrderedTail
<1>16. ASSUME NEW u \in Threads, u < t PROVE i < SentR(u)
  <2>1. t # 0 /\ t - 1 \in Threads /\ u <= t - 1
    BY <1>16, Line
  <2>2. i < SentR(t - 1)
    BY <1>15, <2>1
  <2>3. SentR(t - 1) \in Nat /\ SentR(t - 1) <= cntR[t - 1] /\ cntR[t - 1] \in Nat /\ SentR(u) \in Nat
    BY <2>1, Sent
  <2>4. u # t - 1 => cntR[t - 1] <= SentR(u)
    BY <2>1, Seen
  <2> QED
    BY <1>1, <2>2, <2>3, <2>4
<1> QED
  BY <1>1, <1>4, <1>6, <1>7, <1>8, <1>9, <1>10, <1>11, <1>12, <1>13, <1>14, <1>15, <1>16

LEMMA SeesRLine ==
  ASSUME IInv, NEW t \in Threads, NEW i, SeesR(t, i)
  PROVE  CountInv' /\ LineInv' /\ AckInv'
<1> USE DEF IInv
<1>1. /\ \A u \in Threads : u # t => /\ fetchR'[u] = fetchR[u] /\ cntR'[u] = cntR[u]
                                     /\ leftRecvQueue'[u] = leftRecvQueue[u]
      /\ cntR'[t] = i + 1 /\ i \in Nat /\ cntR[t] = i
      /\ Carries(t)' /\ ~CarriesAck(t)' /\ fetchR'[t] = <<Tuple(i)>>
      /\ \A u \in Threads : /\ u # t => (Carries(u)' <=> Carries(u)) /\ (CarriesAck(u)' <=> CarriesAck(u))
                            /\ CarriesS(u)' <=> CarriesS(u)
                            /\ SentR(u)' = SentR(u) /\ SentS(u)' = SentS(u)
      /\ \A u \in Threads : u < t => i < SentR(u)
      /\ t # 0 => InOrder(leftRecvQueue'[t], i + 1, SentR(t - 1))
  BY SeesRFacts
<1>2. UNCHANGED <<idxS, cntS, rightRecvQueue, fetchS>>
  BY DEF SeesR
<1>3. \A u \in Threads : (u # 0 => u - 1 \in Threads) /\ (u # last => u + 1 \in Threads)
  BY Line
<1>4. CountInv'
  <2>1. cntR'[0] = idxR'
    BY <1>1, Line DEF CountInv, SeesR
  <2>2. ASSUME NEW u \in Threads, Carries(u)' PROVE Head(fetchR'[u]) = Tuple(cntR'[u] - 1)
    <3>1. CASE u = t
      BY <1>1, <3>1
    <3>2. CASE u # t
      BY <1>1, <2>2, <3>2 DEF CountInv
    <3> QED
      BY <3>1, <3>2
  <2>3. ASSUME NEW u \in Threads, NEW v \in Threads, u < v
        PROVE  cntR'[v] <= SentR(u)' /\ cntS'[u] <= SentS(v)'
    <3>1. cntR[v] <= SentR(u) /\ cntS[u] <= SentS(v)
      BY <2>3 DEF CountInv
    <3>2. v = t => i + 1 <= SentR(u)
      BY <1>1, <2>3, Sent
    <3> QED
      BY <1>1, <1>2, <3>1, <3>2
  <2> QED
    BY <1>1, <1>2, <2>1, <2>2, <2>3 DEF CountInv
<1>5. LineInv'
  <2>1. ASSUME NEW u \in Threads, u # 0 PROVE InOrder(leftRecvQueue'[u], cntR'[u], SentR(u - 1)')
    <3>1. SentR(u - 1)' = SentR(u - 1)
      BY <1>1, <1>3, <2>1
    <3> QED
      BY <1>1, <2>1, <3>1 DEF LineInv
  <2>2. \A u \in Threads : u # last => SentS(u + 1)' = SentS(u + 1)
    BY <1>1, <1>3
  <2>3. \A u \in Threads : u # last =>
          /\ InOrder(rightRecvQueue[u], cntS[u], SentS(u + 1)')
          /\ \A n \in DOMAIN rightRecvQueue[u] : ~rightRecvQueue[u][n].ack
    BY <2>2 DEF LineInv
  <2> QED
    BY <1>2, <2>1, <2>3 DEF LineInv, InOrder
<1>6. AckInv'
  <2>1. ASSUME t # 0, NEW n \in DOMAIN leftRecvQueue'[t], leftRecvQueue'[t][n].ack
        PROVE  leftRecvQueue'[t][n].pos < cntS[t - 1]
    <3>1. leftRecvQueue[t] \in Seq(Msgs) /\ leftRecvQueue[t] # <<>> /\ leftRecvQueue'[t] = Tail(leftRecvQueue[t])
      BY <2>1 DEF SeesR, TypeOK
    <3>2. n + 1 \in DOMAIN leftRecvQueue[t] /\ leftRecvQueue'[t][n] = leftRecvQueue[t][n + 1]
      BY <3>1, HeadTail
    <3> QED
      BY <2>1, <3>2 DEF AckInv
  <2> QED
    BY <1>1, <1>2, <2>1 DEF AckInv
<1> QED
  BY <1>4, <1>5, <1>6

(* The pairs counted are i with the S tuples of its key in t's window. *)
LEMMA SeesRMet ==
  ASSUME IInv, NEW t \in Threads, NEW i, SeesR(t, i)
  PROVE  /\ \A u \in Threads, k \in PosR, j \in PosS :
              /\ u # t \/ k # i => out'[u][k][j] = out[u][k][j]
              /\ kR(k)' = kR(k) /\ kS(j)' = kS(j)
         /\ \A j \in PosS : /\ out[t][i][j] = 0
                            /\ out'[t][i][j] = IF kS(j) = kR(i) THEN winS[t][j] ELSE 0
         /\ \A k \in PosR, j \in PosS : /\ Met(k, j) => Met(k, j)'
                                        /\ k # i /\ Met(k, j)' => Met(k, j)
<1> USE DEF IInv
<1>1. i \in PosR /\ i \in Nat /\ cntR[t] = i
  BY Positions DEF SeesR
<1>2. \A j \in PosS : out[t][i][j] = 0
  BY <1>1 DEF OutInv
<1> DEFINE row == [j \in PosS |-> out[t][i][j] + IF kS(j) = kR(i) THEN winS[t][j] ELSE 0]
<1>3. out' = [out EXCEPT ![t][i] = row]
  BY DEF SeesR, JoinR
<1>4. \A j \in PosS : row[j] = IF kS(j) = kR(i) THEN winS[t][j] ELSE 0
  BY <1>2 DEF TypeOK
<1> HIDE DEF row
<1>5. \A u \in Threads, k \in PosR, j \in PosS :
        out'[u][k][j] = IF u = t /\ k = i THEN row[j] ELSE out[u][k][j]
  BY <1>1, <1>3 DEF TypeOK
<1>6. \A k \in PosR, j \in PosS : kR(k)' = kR(k) /\ kS(j)' = kS(j)
  BY DEF kR, kS, SeesR
<1>7. ASSUME NEW k \in PosR, NEW j \in PosS, Met(k, j) PROVE Met(k, j)'
  <2>1. PICK u \in Threads : out[u][k][j] # 0
    BY <1>7 DEF Met
  <2>2. out'[u][k][j] # 0
    BY <1>2, <1>5, <2>1
  <2> QED
    BY <2>2 DEF Met
<1>8. ASSUME NEW k \in PosR, NEW j \in PosS, k # i, Met(k, j)' PROVE Met(k, j)
  BY <1>5, <1>8 DEF Met
<1>9. \A j \in PosS : out'[t][i][j] = IF kS(j) = kR(i) THEN winS[t][j] ELSE 0
  BY <1>1, <1>4, <1>5
<1> QED
  BY <1>2, <1>5, <1>6, <1>7, <1>8, <1>9

LEMMA SeesRWin ==
  ASSUME IInv, NEW t \in Threads, NEW i, SeesR(t, i)
  PROVE  WinInv' /\ OutInv'
<1> USE DEF IInv
<1>1. /\ \A u \in Threads : u # t => winR'[u] = winR[u] /\ cntR'[u] = cntR[u] /\ leftRecvQueue'[u] = leftRecvQueue[u]
      /\ cntR'[t] = i + 1 /\ i \in Nat /\ cntR[t] = i /\ ~Carries(t) /\ Carries(t)'
      /\ \A u \in Threads, k \in PosR : u # t => (Holds(u, k)' <=> Holds(u, k))
  BY SeesRFacts
<1>2. UNCHANGED <<joiner, cntS, winS>> /\ i \in PosR
  BY DEF SeesR, JoinR
<1>3. WinInv'
  <2>1. ASSUME NEW k \in PosR PROVE winR'[t][k] = IF Holds(t, k)' THEN 1 ELSE 0
    <3>1. winR'[t][k] = IF k = i THEN winR[t][k] + 1 ELSE winR[t][k]
      BY <1>2 DEF SeesR, JoinR, TypeOK
    <3>2. winR[t][k] = IF Holds(t, k) THEN 1 ELSE 0
      BY DEF WinInv
    <3>3. Holds(t, k)' <=> Holds(t, k) \/ k = i
      BY <1>1, Positions DEF Holds
    <3>4. ~Holds(t, i)
      BY <1>1 DEF Holds
    <3> QED
      BY <3>1, <3>2, <3>3, <3>4
  <2>2. \A u \in Threads, k \in PosR : winR'[u][k] = IF Holds(u, k)' THEN 1 ELSE 0
    BY <1>1, <2>1 DEF WinInv
  <2>3. ASSUME t # 0, NEW j \in PosS, j < cntS[t - 1], winS[t][j] = 1
        PROVE  \E n \in DOMAIN leftRecvQueue'[t] : leftRecvQueue'[t][n] = Ack(j)
    <3>1. /\ leftRecvQueue[t] \in Seq(Msgs) /\ leftRecvQueue[t] # <<>>
          /\ Head(leftRecvQueue[t]) = Tuple(i) /\ leftRecvQueue'[t] = Tail(leftRecvQueue[t])
      BY <2>3 DEF SeesR, TypeOK
    <3>2. PICK n \in DOMAIN leftRecvQueue[t] : leftRecvQueue[t][n] = Ack(j)
      BY <2>3 DEF WinInv, DroppedAfter
    <3>3. n # 1
      BY <3>1, <3>2, HeadTail, Apart
    <3> QED
      BY <3>1, <3>2, <3>3, HeadTail
  <2>4. \A u \in Threads : u # 0 => DroppedAfter(u)'
    BY <1>1, <1>2, <2>3 DEF WinInv, DroppedAfter
  <2>5. \A u \in Threads : KeptUntilSeen(u)'
    BY <1>2 DEF WinInv, KeptUntilSeen, CleanExact
  <2> QED
    BY <1>2, <2>2, <2>4, <2>5 DEF WinInv
<1>4. /\ \A u \in Threads, k \in PosR, j \in PosS :
           /\ u # t \/ k # i => out'[u][k][j] = out[u][k][j]
           /\ kR(k)' = kR(k) /\ kS(j)' = kS(j)
      /\ \A j \in PosS : out'[t][i][j] = IF kS(j) = kR(i) THEN winS[t][j] ELSE 0
  BY SeesRMet
<1>5. \A j \in PosS : out'[t][i][j] # 0 =>
        winS[t][j] = 1 /\ out'[t][i][j] = 1 /\ kR(i) = kS(j) /\ j < cntS[t]
  BY <1>4 DEF WinInv
<1>6. ASSUME NEW j \in PosS, out'[t][i][j] # 0, NEW u \in Threads, u # t PROVE out'[u][i][j] = 0
  <2> SUFFICES ASSUME out[u][i][j] # 0 PROVE FALSE
    BY <1>2, <1>4, <1>6
  <2>1. i < cntR[u] /\ Met(i, j) /\ winS[t][j] = 1
    BY <1>2, <1>5, <1>6 DEF OutInv, Met
  <2>2. CASE t = 0
    <3>1. cntR[u] <= cntR[t]
      <4>1. t <= u
        BY <2>2, Line
      <4> QED
        BY <4>1, Seen
    <3> QED
      BY <1>1, <2>1, <3>1, Sent
  <2>3. CASE t # 0
    <3>1. leftRecvQueue[t] \in Seq(Msgs) /\ leftRecvQueue[t] # <<>> /\ Head(leftRecvQueue[t]) = Tuple(i)
      BY <2>3 DEF SeesR, TypeOK
    <3>2. 1 \in DOMAIN leftRecvQueue[t] /\ leftRecvQueue[t][1] = Tuple(i)
      BY <3>1, HeadTail
    <3>3. ~leftRecvQueue[t][1].ack /\ leftRecvQueue[t][1].pos = i
      BY <3>2, Messages
    <3>4. MetBefore(t, 1)
      BY <2>3, <3>2, <3>3 DEF MeetInv
    <3>5. PICK m \in DOMAIN leftRecvQueue[t] : m < 1
      BY <2>1, <3>3, <3>4 DEF MetBefore
    <3> QED
      BY <3>1, <3>5
  <2> QED
    BY <2>2, <2>3
<1>7. OutInv'
  <2>1. ASSUME NEW k \in PosR, NEW j \in PosS, NEW u \in Threads, out'[u][k][j] # 0
        PROVE  out'[u][k][j] = 1 /\ kR(k)' = kS(j)' /\ k < cntR'[u] /\ j < cntS'[u]
    <3>1. CASE u = t /\ k = i
      BY <1>1, <1>2, <1>4, <1>5, <2>1, <3>1
    <3>2. CASE ~(u = t /\ k = i)
      <4>1. out'[u][k][j] = out[u][k][j]
        BY <1>4, <3>2
      <4>2. out[u][k][j] = 1 /\ kR(k) = kS(j) /\ k < cntR[u] /\ j < cntS[u]
        BY <2>1, <4>1 DEF OutInv
      <4> QED
        BY <1>1, <1>2, <1>4, <4>1, <4>2, Positions
    <3> QED
      BY <3>1, <3>2
  <2>2. ASSUME NEW k \in PosR, NEW j \in PosS, NEW u \in Threads, NEW v \in Threads,
               out'[u][k][j] # 0, out'[v][k][j] # 0
        PROVE  u = v
    <3>1. CASE k = i /\ (u = t \/ v = t)
      BY <1>6, <2>2, <3>1
    <3>2. CASE ~(k = i /\ (u = t \/ v = t))
      BY <1>4, <2>2, <3>2 DEF OutInv
    <3> QED
      BY <3>1, <3>2
  <2> QED
    BY <2>1, <2>2 DEF OutInv
<1> QED
  BY <1>3, <1>7

LEMMA SeesRMeets ==
  ASSUME IInv, NEW t \in Threads, NEW i, SeesR(t, i)
  PROVE  MeetInv'
<1> USE DEF IInv
<1>1. /\ \A u \in Threads : u # t => leftRecvQueue'[u] = leftRecvQueue[u]
      /\ cntR'[t] = i + 1 /\ i \in Nat /\ cntR[t] = i
      /\ \A u \in Threads, k \in PosR : u # t => (Holds(u, k)' <=> Holds(u, k))
      /\ \A u \in Threads : u < t => i < SentR(u)
      /\ t # 0 => InOrder(leftRecvQueue'[t], i + 1, SentR(t - 1))
  BY SeesRFacts
<1>2. UNCHANGED <<joiner, cntS, winS>> /\ i \in PosR
  BY DEF SeesR, JoinR
<1>3. /\ \A k \in PosR, j \in PosS : /\ Met(k, j) => Met(k, j)'
                                     /\ k # i /\ Met(k, j)' => Met(k, j)
      /\ \A j \in PosS : out'[t][i][j] = IF kS(j) = kR(i) THEN winS[t][j] ELSE 0
  BY SeesRMet
<1>4. \A j \in SIdx : CleanExact(j)' <=> CleanExact(j)
  BY <1>2 DEF CleanExact
<1>5. /\ \A k \in PosR, j \in SIdx : Awaited(k, j)' => Awaited(k, j)
      /\ RIdx \subseteq PosR /\ SIdx \subseteq PosS
  BY <1>3, <1>4, Positions DEF Awaited
<1>6. t # 0 => /\ leftRecvQueue[t] \in Seq(Msgs) /\ leftRecvQueue[t] # <<>>
               /\ Head(leftRecvQueue[t]) = Tuple(i) /\ leftRecvQueue'[t] = Tail(leftRecvQueue[t])
  BY DEF SeesR, TypeOK
(* The tuples still queued are others. *)
<1>7. ASSUME NEW u \in Threads, u # 0, u # t, NEW n \in DOMAIN leftRecvQueue[u], ~leftRecvQueue[u][n].ack
      PROVE  leftRecvQueue[u][n].pos # i /\ leftRecvQueue[u][n].pos \in PosR
  <2>1. u - 1 \in Threads /\ u \in Nat /\ t \in Nat
    BY <1>7, Line
  <2> DEFINE k == leftRecvQueue[u][n].pos
  <2>2. k \in PosR /\ k \in Nat /\ cntR[u] <= k /\ k < cntR[u - 1]
    BY <1>7, Queued
  <2>3. cntR[u] \in Nat /\ SentR(u) \in Nat /\ SentR(u) <= cntR[u] /\ cntR[u - 1] \in Nat
    BY <2>1, Sent
  <2> HIDE DEF k
  <2>4. CASE u < t
    BY <1>1, <2>2, <2>3, <2>4 DEF k
  <2>5. CASE t < u
    <3>1. t <= u - 1
      BY <2>1, <2>5
    <3>2. cntR[u - 1] <= cntR[t]
      BY <2>1, <3>1, Seen
    <3> QED
      BY <1>1, <2>2, <2>3, <3>2 DEF k
  <2> QED
    BY <1>7, <2>1, <2>4, <2>5
<1>8. ASSUME NEW u \in Threads, u # 0, u # t, NEW n \in DOMAIN leftRecvQueue'[u], ~leftRecvQueue'[u][n].ack
      PROVE  MetBefore(u, n)' /\ StillToMeet(u, n)'
  <2>1. leftRecvQueue'[u] = leftRecvQueue[u]
    BY <1>1, <1>8
  <2>2. MetBefore(u, n) /\ StillToMeet(u, n) /\ leftRecvQueue[u][n].pos # i /\ leftRecvQueue[u][n].pos \in PosR
    BY <1>7, <1>8, <2>1 DEF MeetInv
  <2>3. MetBefore(u, n)'
    BY <1>2, <1>3, <2>1, <2>2 DEF MetBefore
  <2>4. StillToMeet(u, n)'
    BY <1>2, <1>5, <2>1, <2>2 DEF StillToMeet
  <2> QED
    BY <2>3, <2>4
<1>9. ASSUME t # 0, NEW n \in DOMAIN leftRecvQueue'[t], ~leftRecvQueue'[t][n].ack
      PROVE  MetBefore(t, n)' /\ StillToMeet(t, n)'
  <2>1. /\ n \in Nat /\ n + 1 \in DOMAIN leftRecvQueue[t] /\ leftRecvQueue'[t][n] = leftRecvQueue[t][n + 1]
        /\ leftRecvQueue[t][1] = Tuple(i)
        /\ \A m \in DOMAIN leftRecvQueue'[t] : m \in Nat /\ m + 1 \in DOMAIN leftRecvQueue[t]
                                               /\ leftRecvQueue'[t][m] = leftRecvQueue[t][m + 1]
        /\ \A m \in DOMAIN leftRecvQueue[t] :
             m \in Nat /\ (m # 1 => m - 1 \in DOMAIN leftRecvQueue'[t] /\ leftRecvQueue'[t][m - 1] = leftRecvQueue[t][m])
    BY <1>6, <1>9, HeadTail
  <2>2. MetBefore(t, n + 1) /\ StillToMeet(t, n + 1) /\ leftRecvQueue'[t][n].pos \in PosR
    BY <1>9, <2>1, Queued DEF MeetInv
  <2>0. PICK k : k = leftRecvQueue'[t][n].pos
    OBVIOUS
  <2>3. leftRecvQueue'[t][n].pos # i
    <3>1. i + 1 <= leftRecvQueue'[t][n].pos /\ leftRecvQueue'[t][n].pos \in Nat
      BY <1>1, <1>9, <2>2, Positions DEF InOrder
    <3> QED
      BY <1>1, <3>1
  <2>4. MetBefore(t, n)'
    <3> SUFFICES ASSUME NEW j \in PosS, Met(k, j)', winS[t][j] = 1
                 PROVE  \E m \in DOMAIN leftRecvQueue'[t] : m < n /\ leftRecvQueue'[t][m] = Ack(j)
      BY <1>2, <2>0 DEF MetBefore
    <3>1. Met(leftRecvQueue[t][n + 1].pos, j)
      BY <1>3, <2>1, <2>2, <2>3, <2>0
    <3>2. PICK m \in DOMAIN leftRecvQueue[t] : m < n + 1 /\ leftRecvQueue[t][m] = Ack(j)
      BY <2>2, <3>1 DEF MetBefore
    <3>3. m # 1
      BY <2>1, <3>2, Apart
    <3>4. m - 1 \in DOMAIN leftRecvQueue'[t] /\ leftRecvQueue'[t][m - 1] = Ack(j) /\ m - 1 < n
      BY <2>1, <3>2, <3>3
    <3> QED
      BY <3>4
  <2>5. StillToMeet(t, n)'
    <3> SUFFICES ASSUME NEW j \in SIdx, Awaited(k, j)'
                 PROVE  /\ \A m \in DOMAIN leftRecvQueue'[t] :
                             m < n /\ leftRecvQueue'[t][m].ack => leftRecvQueue'[t][m].pos < j
                        /\ j < cntS[t] => winS[t][j] = 1
      BY <1>2, <2>0 DEF StillToMeet
    <3>1. Awaited(leftRecvQueue[t][n + 1].pos, j)
      BY <1>5, <2>1, <2>2, <2>0
    <3>2. /\ \A m \in DOMAIN leftRecvQueue[t] :
               m < n + 1 /\ leftRecvQueue[t][m].ack => leftRecvQueue[t][m].pos < j
          /\ j < cntS[t] => winS[t][j] = 1
      BY <2>2, <3>1 DEF StillToMeet
    <3>3. ASSUME NEW m \in DOMAIN leftRecvQueue'[t], m < n, leftRecvQueue'[t][m].ack
          PROVE  leftRecvQueue'[t][m].pos < j
      <4>1. m + 1 \in DOMAIN leftRecvQueue[t] /\ m + 1 < n + 1 /\ leftRecvQueue'[t][m] = leftRecvQueue[t][m + 1]
        BY <2>1, <3>3
      <4> QED
        BY <3>2, <3>3, <4>1
    <3> QED
      BY <3>2, <3>3
  <2> QED
    BY <2>4, <2>5
(* What t awaits for i comes to it later. *)
<1>10. ASSUME NEW j \in SIdx, i \in RIdx, Awaited(i, j)' PROVE cntS[t] <= j
  <2> SUFFICES ASSUME j < cntS[t] PROVE FALSE
    BY Sent, Positions, <1>5
  <2>1. Awaited(i, j) /\ j \in PosS
    BY <1>2, <1>5, <1>10
  <2>2. winS[t][j] = 1
    <3>1. CASE t = 0
      BY <2>1, <3>1 DEF WinInv, KeptUntilSeen, Awaited
    <3>2. CASE t # 0
      <4>1. 1 \in DOMAIN leftRecvQueue[t] /\ leftRecvQueue[t][1] = Tuple(i)
        BY <1>6, <3>2, HeadTail
      <4>2. ~leftRecvQueue[t][1].ack /\ leftRecvQueue[t][1].pos = i
        BY <4>1, Messages
      <4> QED
        BY <2>1, <3>2, <4>1, <4>2 DEF MeetInv, StillToMeet
    <3> QED
      BY <3>1, <3>2
  <2>3. kS(j) = kR(i)
    BY <1>10, <2>1, Positions DEF Awaited, Matching, kS, kR
  <2>4. out'[t][i][j] = 1
    BY <1>3, <2>1, <2>2, <2>3
  <2>5. Met(i, j)'
    BY <2>4 DEF Met
  <2> QED
    BY <1>10, <2>5 DEF Awaited
<1>11. ASSUME NEW u \in Threads, NEW k \in RIdx, NEW j \in SIdx, Holds(u, k)', Awaited(k, j)'
       PROVE  cntS[u] <= j
  <2>1. CASE u = t /\ k = i
    BY <1>10, <1>11, <2>1
  <2>2. CASE ~(u = t /\ k = i)
    <3>1. Holds(u, k)
      <4>1. CASE u # t
        BY <1>1, <1>5, <1>11, <4>1
      <4>2. CASE u = t
        BY <1>1, <1>5, <1>11, <2>2, <4>2, Positions DEF Holds
      <4> QED
        BY <4>1, <4>2
    <3> QED
      BY <1>5, <1>11, <3>1 DEF MeetInv
  <2> QED
    BY <2>1, <2>2
<1> QED
  BY <1>2, <1>8, <1>9, <1>11 DEF MeetInv

LEMMA SeesRInv ==
  ASSUME IInv, NEW t \in Threads, NEW i, SeesR(t, i)
  PROVE  IInv'
  BY SeesRFacts, SeesRLine, SeesRWin, SeesRMeets DEF IInv

------------------------------------------------------------------------------
(* An acknowledgement removes S tuples that the left neighbour has seen.    *)
LEMMA AckFacts ==
  ASSUME IInv, NEW t \in Threads, PullLeft(t), Head(leftRecvQueue[t]).ack
  PROVE  /\ TypeOK'
         /\ UNCHANGED <<joiner, pastKey, idxR, idxS, cntR, cntS, rightRecvQueue, fetchS, winR, out>>
         /\ \A u \in Threads : u # t => leftRecvQueue'[u] = leftRecvQueue[u] /\ winS'[u] = winS[u]
                                        /\ fetchR'[u] = fetchR[u]
         /\ t # 0 /\ t - 1 \in Threads /\ leftRecvQueue[t] \in Seq(Msgs) /\ leftRecvQueue[t] # <<>>
         /\ leftRecvQueue'[t] = Tail(leftRecvQueue[t]) /\ fetchR'[t] = <<Head(leftRecvQueue[t])>>
         /\ \A u \in Threads : /\ Carries(u)' <=> Carries(u)
                               /\ u # t => (CarriesAck(u)' <=> CarriesAck(u))
                               /\ CarriesS(u)' <=> CarriesS(u)
                               /\ SentR(u)' = SentR(u) /\ SentS(u)' = SentS(u)
         /\ \A u \in Threads, k \in PosR : Holds(u, k)' <=> Holds(u, k)
<1> USE DEF IInv
<1>1. /\ pc[t] = "left" /\ t # 0 /\ leftRecvQueue[t] # <<>>
      /\ fetchR' = [fetchR EXCEPT ![t] = <<Head(leftRecvQueue[t])>>]
      /\ leftRecvQueue' = [leftRecvQueue EXCEPT ![t] = Tail(leftRecvQueue[t])]
      /\ CleanS(t, Head(leftRecvQueue[t]).pos)
      /\ pc' = [pc EXCEPT ![t] = "right"]
      /\ UNCHANGED <<joiner, pastKey, idxR, idxS, cntR, cntS, rightRecvQueue, fetchS, winR, out>>
  BY DEF PullLeft, processLeft, Goto, inputVars
<1>2. leftRecvQueue[t] \in Seq(Msgs) /\ t - 1 \in Threads
  BY <1>1, Line DEF TypeOK
<1>3. Head(leftRecvQueue[t]) \in Msgs /\ Tail(leftRecvQueue[t]) \in Seq(Msgs)
  BY <1>1, <1>2, HeadTail
<1>4. <<Head(leftRecvQueue[t])>> \in Fetched /\ Head(<<Head(leftRecvQueue[t])>>) = Head(leftRecvQueue[t])
  BY <1>3 DEF Fetched
<1>5. winS' \in [Threads -> [PosS -> Nat]] /\ \A u \in Threads : u # t => winS'[u] = winS[u]
  BY <1>1 DEF CleanS, TypeOK
<1>6. pc' \in [Threads -> PCs] /\ pc'[t] = "right" /\ \A u \in Threads : u # t => pc'[u] = pc[u]
  BY <1>1 DEF TypeOK, PCs, Holding
<1>7. fetchR' \in [Threads -> Fetched] /\ leftRecvQueue' \in [Threads -> Seq(Msgs)]
  BY <1>1, <1>3, <1>4 DEF TypeOK
<1>8. TypeOK'
  BY <1>1, <1>5, <1>6, <1>7 DEF TypeOK
<1>9. /\ leftRecvQueue'[t] = Tail(leftRecvQueue[t]) /\ fetchR'[t] = <<Head(leftRecvQueue[t])>>
      /\ \A u \in Threads : u # t => leftRecvQueue'[u] = leftRecvQueue[u] /\ fetchR'[u] = fetchR[u]
  BY <1>1 DEF TypeOK
<1>10. ~Carries(t) /\ ~Carries(t)' /\ ~CarriesS(t) /\ ~CarriesS(t)'
  BY <1>1, <1>4, <1>6, <1>9 DEF Carries, CarriesS, Holding
<1>11. \A u \in Threads : /\ Carries(u)' <=> Carries(u)
                          /\ u # t => (CarriesAck(u)' <=> CarriesAck(u))
                          /\ CarriesS(u)' <=> CarriesS(u)
  BY <1>1, <1>6, <1>9, <1>10 DEF Carries, CarriesAck, CarriesS
<1>12. \A u \in Threads : SentR(u)' = SentR(u) /\ SentS(u)' = SentS(u)
  BY <1>1, <1>11 DEF SentR, SentS
<1>13. \A u \in Threads, k \in PosR : Holds(u, k)' <=> Holds(u, k)
  BY <1>1, <1>11 DEF Holds
<1> QED
  BY <1>1, <1>2, <1>5, <1>8, <1>9, <1>11, <1>12, <1>13

LEMMA AckLine ==
  ASSUME IInv, NEW t \in Threads, PullLeft(t), Head(leftRecvQueue[t]).ack
  PROVE  CountInv' /\ LineInv' /\ AckInv'
<1> USE DEF IInv
<1>1. /\ UNCHANGED <<idxR, idxS, cntR, cntS, rightRecvQueue, fetchS>>
      /\ \A u \in Threads : u # t => leftRecvQueue'[u] = leftRecvQueue[u] /\ fetchR'[u] = fetchR[u]
      /\ t # 0 /\ t - 1 \in Threads /\ leftRecvQueue[t] \in Seq(Msgs) /\ leftRecvQueue[t] # <<>>
      /\ leftRecvQueue'[t] = Tail(leftRecvQueue[t]) /\ fetchR'[t] = <<Head(leftRecvQueue[t])>>
      /\ \A u \in Threads : /\ Carries(u)' <=> Carries(u)
                            /\ u # t => (CarriesAck(u)' <=> CarriesAck(u))
                            /\ CarriesS(u)' <=> CarriesS(u)
                            /\ SentR(u)' = SentR(u) /\ SentS(u)' = SentS(u)
  BY AckFacts
<1>2. \A u \in Threads : (u # 0 => u - 1 \in Threads) /\ (u # last => u + 1 \in Threads)
  BY Line
<1>3. Head(<<Head(leftRecvQueue[t])>>) = Head(leftRecvQueue[t])
  OBVIOUS
<1>4. CountInv'
  <2>1. ASSUME NEW u \in Threads, Carries(u)' PROVE Head(fetchR'[u]) = Tuple(cntR[u] - 1)
    <3>1. u # t
      BY <1>1, <1>3, <2>1 DEF Carries
    <3> QED
      BY <1>1, <2>1, <3>1 DEF CountInv
  <2> QED
    BY <1>1, <2>1 DEF CountInv
<1>5. LineInv'
  <2>1. InOrder(leftRecvQueue'[t], cntR[t], SentR(t - 1))
    <3>1. InOrder(leftRecvQueue[t], cntR[t], SentR(t - 1)) /\ cntR[t] \in Nat /\ SentR(t - 1) \in Nat
      BY <1>1, Sent DEF LineInv
    <3> QED
      BY <1>1, <3>1, OrderedTail
  <2>2. \A u \in Threads : u # 0 => InOrder(leftRecvQueue'[u], cntR[u], SentR(u - 1)')
    BY <1>1, <1>2, <2>1 DEF LineInv
  <2>3. \A u \in Threads : u # last => InOrder(rightRecvQueue[u], cntS[u], SentS(u + 1)')
    BY <1>1, <1>2 DEF LineInv
  <2>4. \A u \in Threads : u # last => \A n \in DOMAIN rightRecvQueue[u] : ~rightRecvQueue[u][n].ack
    BY DEF LineInv
  <2> QED
    BY <1>1, <2>2, <2>3, <2>4 DEF LineInv, InOrder
<1>6. AckInv'
  <2>1. 1 \in DOMAIN leftRecvQueue[t] /\ Head(leftRecvQueue[t]) = leftRecvQueue[t][1]
    BY <1>1, HeadTail
  <2>2. Head(leftRecvQueue[t]).pos < cntS[t - 1]
    BY <1>1, <2>1 DEF AckInv
  <2>3. \A n \in DOMAIN leftRecvQueue'[t] : leftRecvQueue'[t][n].ack => leftRecvQueue'[t][n].pos < cntS[t - 1]
    BY <1>1, HeadTail DEF AckInv
  <2> QED
    BY <1>1, <1>3, <2>2, <2>3 DEF AckInv
<1> QED
  BY <1>4, <1>5, <1>6

(* A tuple that the left neighbour has not seen, or that is awaited by an R *)
(* tuple behind the acknowledgement, stays.                                 *)
LEMMA AckKeeps ==
  ASSUME IInv, NEW t \in Threads, PullLeft(t), Head(leftRecvQueue[t]).ack
  PROVE  LET a == Head(leftRecvQueue[t]).pos
         IN  /\ a \in PosS /\ a < cntS[t - 1] /\ leftRecvQueue[t][1] = Ack(a)
             /\ \A j \in PosS : winS'[t][j] # 0 => winS'[t][j] = winS[t][j] /\ j # a
             /\ \A j \in SIdx : CleanExact(j) /\ a < j => winS'[t][j] = winS[t][j]
<1> USE DEF IInv
<1> DEFINE a == Head(leftRecvQueue[t]).pos
<1>1. t # 0 /\ t - 1 \in Threads /\ leftRecvQueue[t] \in Seq(Msgs) /\ leftRecvQueue[t] # <<>>
  BY AckFacts
<1>2. Head(leftRecvQueue[t]) = leftRecvQueue[t][1] /\ Head(leftRecvQueue[t]) \in Msgs /\ 1 \in DOMAIN leftRecvQueue[t]
  BY <1>1, HeadTail
<1>3. a \in Nat /\ leftRecvQueue[t][1] = Ack(a) /\ a < cntS[t - 1]
  BY <1>1, <1>2, Messages DEF AckInv
<1>4. a \in PosS
  BY <1>1, <1>3, Sent, Positions, Sizes
<1>5. CleanS(t, a)
  BY DEF PullLeft, processLeft
<1> HIDE DEF a
<1>6. \A j \in PosS : winS'[t][j] = IF j = a \/ (joiner = "SHJ" /\ kS(j) = kS(a)) THEN 0 ELSE winS[t][j]
  BY <1>5 DEF CleanS, TypeOK
<1>7. ASSUME NEW j \in SIdx, CleanExact(j), a < j PROVE winS'[t][j] = winS[t][j]
  <2>1. a \in SIdx /\ j \in PosS /\ a # j
    BY <1>3, <1>7, Sizes, Positions DEF SIdx
  <2>2. kS(j) = KeyS[j] /\ kS(a) = KeyS[a]
    BY <2>1, Positions DEF kS
  <2>3. joiner = "RPJ" \/ kS(a) # kS(j)
    BY <1>7, <2>1, <2>2 DEF CleanExact
  <2> QED
    BY <1>6, <2>1, <2>3
<1> QED
  BY <1>3, <1>4, <1>6, <1>7 DEF a

LEMMA AckWin ==
  ASSUME IInv, NEW t \in Threads, PullLeft(t), Head(leftRecvQueue[t]).ack
  PROVE  WinInv' /\ OutInv'
<1> USE DEF IInv
<1>1. /\ UNCHANGED <<joiner, pastKey, cntR, cntS, winR, out>>
      /\ \A u \in Threads : u # t => leftRecvQueue'[u] = leftRecvQueue[u] /\ winS'[u] = winS[u]
      /\ t # 0 /\ t - 1 \in Threads /\ leftRecvQueue[t] \in Seq(Msgs) /\ leftRecvQueue[t] # <<>>
      /\ leftRecvQueue'[t] = Tail(leftRecvQueue[t])
      /\ \A u \in Threads, k \in PosR : Holds(u, k)' <=> Holds(u, k)
  BY AckFacts
<1>2. PICK a \in PosS : /\ a < cntS[t - 1] /\ leftRecvQueue[t][1] = Ack(a)
                        /\ \A j \in PosS : winS'[t][j] # 0 => winS'[t][j] = winS[t][j] /\ j # a
                        /\ \A j \in SIdx : CleanExact(j) /\ a < j => winS'[t][j] = winS[t][j]
  BY AckKeeps
<1>3. WinInv'
  <2>1. \A u \in Threads, j \in PosS : winS'[u][j] \in {0, 1} /\ (winS'[u][j] = 1 => j < cntS[u])
    BY <1>1, <1>2 DEF WinInv
  <2>2. ASSUME NEW j \in SIdx, CleanExact(j), j < cntS[t], cntS[t - 1] <= j PROVE winS'[t][j] = 1
    <3>1. winS[t][j] = 1
      BY <2>2 DEF WinInv, KeptUntilSeen
    <3>2. a < j
      <4>1. a \in Nat /\ j \in Nat /\ cntS[t - 1] \in Nat
        BY <1>1, Sent, Positions
      <4> QED
        BY <1>2, <2>2, <4>1
    <3> QED
      BY <1>2, <2>2, <3>1, <3>2
  <2>3. \A u \in Threads : KeptUntilSeen(u)'
    BY <1>1, <2>2 DEF WinInv, KeptUntilSeen, CleanExact
  <2>4. ASSUME NEW j \in PosS, j < cntS[t - 1], winS'[t][j] = 1
        PROVE  \E n \in DOMAIN leftRecvQueue'[t] : leftRecvQueue'[t][n] = Ack(j)
    <3>1. winS[t][j] = 1 /\ j # a
      BY <1>2, <2>4
    <3>2. PICK n \in DOMAIN leftRecvQueue[t] : leftRecvQueue[t][n] = Ack(j)
      BY <1>1, <2>4, <3>1 DEF WinInv, DroppedAfter
    <3>3. n # 1
      BY <1>2, <3>1, <3>2, Messages
    <3> QED
      BY <1>1, <3>2, <3>3, HeadTail
  <2>5. ASSUME NEW u \in Threads, u # 0 PROVE DroppedAfter(u)'
    <3>1. CASE u = t
      BY <1>1, <2>4, <3>1 DEF DroppedAfter
    <3>2. CASE u # t
      BY <1>1, <2>5, <3>2 DEF WinInv, DroppedAfter
    <3> QED
      BY <3>1, <3>2
  <2>6. \A u \in Threads, k \in PosR : winR'[u][k] = IF Holds(u, k)' THEN 1 ELSE 0
    BY <1>1 DEF WinInv
  <2> QED
    BY <1>1, <2>1, <2>3, <2>5, <2>6 DEF WinInv
<1>4. OutInv'
  BY <1>1 DEF OutInv, kR, kS
<1> QED
  BY <1>3, <1>4

LEMMA AckMeets ==
  ASSUME IInv, NEW t \in Threads, PullLeft(t), Head(leftRecvQueue[t]).ack
  PROVE  MeetInv'
<1> USE DEF IInv
<1>1. /\ UNCHANGED <<joiner, pastKey, cntR, cntS, winR, out>>
      /\ \A u \in Threads : u # t => leftRecvQueue'[u] = leftRecvQueue[u] /\ winS'[u] = winS[u]
      /\ t # 0 /\ t - 1 \in Threads /\ leftRecvQueue[t] \in Seq(Msgs) /\ leftRecvQueue[t] # <<>>
      /\ leftRecvQueue'[t] = Tail(leftRecvQueue[t])
      /\ \A u \in Threads, k \in PosR : Holds(u, k)' <=> Holds(u, k)
  BY AckFacts
<1>2. PICK a \in PosS : /\ leftRecvQueue[t][1] = Ack(a)
                        /\ \A j \in PosS : winS'[t][j] # 0 => winS'[t][j] = winS[t][j] /\ j # a
                        /\ \A j \in SIdx : CleanExact(j) /\ a < j => winS'[t][j] = winS[t][j]
  BY AckKeeps
<1>3. \A k, j : (Met(k, j)' <=> Met(k, j)) /\ (Awaited(k, j)' <=> Awaited(k, j))
  BY <1>1 DEF Met, Awaited, CleanExact
<1>4. /\ \A m \in DOMAIN leftRecvQueue'[t] : m \in Nat /\ m >= 1 /\ m + 1 \in DOMAIN leftRecvQueue[t]
                                             /\ leftRecvQueue'[t][m] = leftRecvQueue[t][m + 1]
      /\ \A m \in DOMAIN leftRecvQueue[t] :
           m \in Nat /\ (m # 1 => m - 1 \in DOMAIN leftRecvQueue'[t] /\ leftRecvQueue'[t][m - 1] = leftRecvQueue[t][m])
      /\ 1 \in DOMAIN leftRecvQueue[t]
  BY <1>1, HeadTail
<1>5. ASSUME NEW u \in Threads, u # 0, u # t, NEW n \in DOMAIN leftRecvQueue'[u], ~leftRecvQueue'[u][n].ack
      PROVE  MetBefore(u, n)' /\ StillToMeet(u, n)'
  <2>1. leftRecvQueue'[u] = leftRecvQueue[u] /\ winS'[u] = winS[u]
    BY <1>1, <1>5
  <2>2. MetBefore(u, n) /\ StillToMeet(u, n)
    BY <1>5, <2>1 DEF MeetInv
  <2>3. MetBefore(u, n)'
    BY <1>3, <2>1, <2>2 DEF MetBefore
  <2>4. StillToMeet(u, n)'
    BY <1>1, <1>3, <2>1, <2>2 DEF StillToMeet
  <2> QED
    BY <2>3, <2>4
<1>6. ASSUME NEW n \in DOMAIN leftRecvQueue'[t], ~leftRecvQueue'[t][n].ack
      PROVE  MetBefore(t, n)' /\ StillToMeet(t, n)'
  <2>1. n \in Nat /\ n >= 1 /\ n + 1 \in DOMAIN leftRecvQueue[t] /\ leftRecvQueue'[t][n] = leftRecvQueue[t][n + 1]
    BY <1>4, <1>6
  <2>2. MetBefore(t, n + 1) /\ StillToMeet(t, n + 1)
    BY <1>1, <1>6, <2>1 DEF MeetInv
  <2>3. PICK k : k = leftRecvQueue'[t][n].pos
    OBVIOUS
  <2>4. MetBefore(t, n)'
    <3> SUFFICES ASSUME NEW j \in PosS, Met(k, j)', winS'[t][j] = 1
                 PROVE  \E m \in DOMAIN leftRecvQueue'[t] : m < n /\ leftRecvQueue'[t][m] = Ack(j)
      BY <2>3 DEF MetBefore
    <3>1. Met(leftRecvQueue[t][n + 1].pos, j) /\ winS[t][j] = 1 /\ j # a
      BY <1>2, <1>3, <2>1, <2>3
    <3>2. PICK m \in DOMAIN leftRecvQueue[t] : m < n + 1 /\ leftRecvQueue[t][m] = Ack(j)
      BY <2>2, <3>1 DEF MetBefore
    <3>3. m # 1
      BY <1>2, <3>1, <3>2, Messages
    <3>4. m - 1 \in DOMAIN leftRecvQueue'[t] /\ leftRecvQueue'[t][m - 1] = Ack(j) /\ m - 1 < n
      BY <1>4, <2>1, <3>2, <3>3
    <3> QED
      BY <3>4
  <2>5. StillToMeet(t, n)'
    <3> SUFFICES ASSUME NEW j \in SIdx, Awaited(k, j)'
                 PROVE  /\ \A m \in DOMAIN leftRecvQueue'[t] :
                             m < n /\ leftRecvQueue'[t][m].ack => leftRecvQueue'[t][m].pos < j
                        /\ j < cntS[t] => winS'[t][j] = 1
      BY <1>1, <2>3 DEF StillToMeet
    <3>1. Awaited(leftRecvQueue[t][n + 1].pos, j) /\ CleanExact(j)
      BY <1>3, <2>1, <2>3 DEF Awaited
    <3>2. /\ \A m \in DOMAIN leftRecvQueue[t] :
               m < n + 1 /\ leftRecvQueue[t][m].ack => leftRecvQueue[t][m].pos < j
          /\ j < cntS[t] => winS[t][j] = 1
      BY <2>2, <3>1 DEF StillToMeet
    <3>3. ASSUME NEW m \in DOMAIN leftRecvQueue'[t], m < n, leftRecvQueue'[t][m].ack
          PROVE  leftRecvQueue'[t][m].pos < j
      <4>1. m + 1 \in DOMAIN leftRecvQueue[t] /\ m + 1 < n + 1 /\ leftRecvQueue'[t][m] = leftRecvQueue[t][m + 1]
        BY <1>4, <2>1, <3>3
      <4> QED
        BY <3>2, <3>3, <4>1
    <3>4. a < j
      <4>1. 1 < n + 1 /\ leftRecvQueue[t][1].ack /\ leftRecvQueue[t][1].pos = a
        BY <1>2, <2>1, Messages
      <4> QED
        BY <1>4, <3>2, <4>1
    <3> QED
      BY <1>2, <3>1, <3>2, <3>3, <3>4
  <2> QED
    BY <2>4, <2>5
<1>7. \A u \in Threads, k \in RIdx, j \in SIdx : Holds(u, k)' /\ Awaited(k, j)' => cntS[u] <= j
  BY <1>1, <1>3, Positions DEF MeetInv
<1> QED
  BY <1>1, <1>5, <1>6, <1>7 DEF MeetInv

LEMMA LeftInv ==
  ASSUME IInv, NEW t \in Threads, PullLeft(t) \/ ReadR(t)
  PROVE  IInv'
<1>1. CASE \E i : SeesR(t, i)
  BY <1>1, SeesRInv
<1>2. CASE PullLeft(t) /\ Head(leftRecvQueue[t]).ack
  BY <1>2, AckFacts, AckLine, AckWin, AckMeets DEF IInv
<1> QED
  BY <1>1, <1>2, LeftSteps

------------------------------------------------------------------------------
(* A message is put behind those of the right neighbour. *)
Grows(t, m) ==
  leftRecvQueue' = IF t = last THEN leftRecvQueue
                   ELSE [leftRecvQueue EXCEPT ![t + 1] = Append(@, m)]

LEMMA GrowFacts ==
  ASSUME IInv, NEW t \in Threads, NEW m \in Msgs, Grows(t, m)
  PROVE  /\ leftRecvQueue' \in [Threads -> Seq(Msgs)]
         /\ \A u \in Threads : u # t + 1 => leftRecvQueue'[u] = leftRecvQueue[u]
         /\ \A u \in Threads : \A n \in DOMAIN leftRecvQueue[u] :
              n \in DOMAIN leftRecvQueue'[u] /\ leftRecvQueue'[u][n] = leftRecvQueue[u][n]
         /\ \A u \in Threads : \A n \in DOMAIN leftRecvQueue'[u] :
              /\ n \in Nat
              /\ n \notin DOMAIN leftRecvQueue[u] => /\ t # last /\ u = t + 1 /\ leftRecvQueue'[u][n] = m
                                                     /\ \A k \in DOMAIN leftRecvQueue[u] : k < n
         /\ t # last => /\ t + 1 \in Threads /\ leftRecvQueue[t + 1] \in Seq(Msgs)
                        /\ leftRecvQueue'[t + 1] = Append(leftRecvQueue[t + 1], m)
                        /\ \E n \in DOMAIN leftRecvQueue'[t + 1] : leftRecvQueue'[t + 1][n] = m
<1>1. CASE t = last
  <2>1. leftRecvQueue' = leftRecvQueue /\ leftRecvQueue \in [Threads -> Seq(Msgs)]
    BY <1>1 DEF Grows, IInv, TypeOK
  <2> QED
    BY <1>1, <2>1
<1>2. CASE t # last
  <2>1. t + 1 \in Threads /\ leftRecvQueue \in [Threads -> Seq(Msgs)]
    BY <1>2, Line DEF IInv, TypeOK
  <2>2. PICK q \in Seq(Msgs) : q = leftRecvQueue[t + 1]
    BY <2>1
  <2>3. PICK r : r = Append(q, m)
    OBVIOUS
  <2>4. /\ r \in Seq(Msgs) /\ Len(q) + 1 \in DOMAIN r /\ r[Len(q) + 1] = m /\ Len(q) \in Nat
        /\ \A n : n \in DOMAIN r <=> n \in DOMAIN q \/ n = Len(q) + 1
        /\ \A n \in DOMAIN q : r[n] = q[n] /\ n \in Nat /\ n < Len(q) + 1
    BY <2>3, AppendOne
  <2>5. leftRecvQueue' = [leftRecvQueue EXCEPT ![t + 1] = r]
    BY <1>2, <2>2, <2>3 DEF Grows
  <2>6. leftRecvQueue'[t + 1] = r /\ \A u \in Threads : u # t + 1 => leftRecvQueue'[u] = leftRecvQueue[u]
    BY <2>1, <2>5, <2>4
  <2>7. leftRecvQueue' \in [Threads -> Seq(Msgs)]
    BY <2>1, <2>5, <2>4
  <2>8. ASSUME NEW u \in Threads, NEW n \in DOMAIN leftRecvQueue[u]
        PROVE  n \in DOMAIN leftRecvQueue'[u] /\ leftRecvQueue'[u][n] = leftRecvQueue[u][n]
    BY <2>2, <2>4, <2>6
  <2>9. ASSUME NEW u \in Threads, NEW n \in DOMAIN leftRecvQueue'[u]
        PROVE  /\ n \in Nat
               /\ n \notin DOMAIN leftRecvQueue[u] => /\ u = t + 1 /\ leftRecvQueue'[u][n] = m
                                                      /\ \A k \in DOMAIN leftRecvQueue[u] : k < n
    <3>1. n \in Nat
      BY <2>7
    <3> QED
      BY <2>2, <2>4, <2>6, <3>1
  <2> QED
    BY <1>2, <2>1, <2>2, <2>3, <2>4, <2>6, <2>7, <2>8, <2>9
<1> QED
  BY <1>1, <1>2

------------------------------------------------------------------------------
(* A thread sees an S tuple: PullRight and ReadS *)
SeesS(t, j) ==
  /\ pc[t] = "right" /\ pc' = [pc EXCEPT ![t] = "forwardS"]
  /\ fetchS' = [fetchS EXCEPT ![t] = <<Tuple(j)>>]
  /\ JoinS(t, j)
  /\ Grows(t, Ack(j))
  /\ cntS' = [cntS EXCEPT ![t] = @ + 1]
  /\ UNCHANGED <<joiner, pastKey, idxR, cntR, fetchR>>
  /\ j = cntS[t] /\ j \in PosS
  /\ IF t = last
     THEN idxS' = idxS + 1 /\ UNCHANGED rightRecvQueue
     ELSE /\ rightRecvQueue[t] # <<>> /\ Head(rightRecvQueue[t]) = Tuple(j)
          /\ rightRecvQueue' = [rightRecvQueue EXCEPT ![t] = Tail(@)]
          /\ UNCHANGED idxS

LEMMA RightSteps ==
  ASSUME IInv, NEW t \in Threads, ReadS(t) \/ PullRight(t)
  PROVE  \E j : SeesS(t, j)
<1>1. ASSUME ReadS(t) PROVE SeesS(t, idxS)
  <2>1. t = last /\ idxS = cntS[t] /\ idxS \in PosS
    BY <1>1, Sizes DEF ReadS, IInv, CountInv, TypeOK, PosS
  <2> QED
    BY <1>1, <2>1 DEF ReadS, SeesS, processRight, Grows, Goto
<1>2. ASSUME PullRight(t) PROVE SeesS(t, cntS[t])
  <2>1. t # last /\ rightRecvQueue[t] # <<>>
    BY <1>2 DEF PullRight
  <2>2. t + 1 \in Threads
    BY <2>1, Line
  <2>3. cntS[t] \in Nat /\ SentS(t + 1) \in Nat /\ SentS(t + 1) <= numS + 1
    BY <2>2, Sent, Sizes DEF IInv
  <2>4. /\ rightRecvQueue[t] \in Seq(Msgs) /\ InOrder(rightRecvQueue[t], cntS[t], SentS(t + 1))
        /\ \A n \in DOMAIN rightRecvQueue[t] : ~rightRecvQueue[t][n].ack
    BY <2>1 DEF IInv, TypeOK, LineInv
  <2>5. ~Head(rightRecvQueue[t]).ack
    BY <2>1, <2>4, HeadTail
  <2>6. Head(rightRecvQueue[t]) = Tuple(cntS[t]) /\ cntS[t] < SentS(t + 1)
    BY <2>1, <2>3, <2>4, <2>5, OrderedTail
  <2>7. cntS[t] \in PosS
    BY <2>3, <2>6, Positions, Sizes
  <2>8. Tuple(cntS[t]).pos = cntS[t]
    BY Messages
  <2> QED
    BY <1>2, <2>1, <2>6, <2>7, <2>8 DEF PullRight, SeesS, processRight, Grows, Goto, inputVars
<1> QED
  BY <1>1, <1>2

(* What has changed is thread t's count and hands, its window, the head of  *)
(* its queue and the end of its right neighbour's.                          *)
LEMMA SeesSFacts ==
  ASSUME IInv, NEW t \in Threads, NEW j, SeesS(t, j)
  PROVE  /\ TypeOK'
         /\ \A u \in Threads : u # t => /\ fetchS'[u] = fetchS[u] /\ cntS'[u] = cntS[u]
                                        /\ winS'[u] = winS[u] /\ out'[u] = out[u]
                                        /\ rightRecvQueue'[u] = rightRecvQueue[u]
         /\ cntS'[t] = j + 1 /\ j \in Nat /\ cntS[t] = j
         /\ CarriesS(t)' /\ fetchS'[t] = <<Tuple(j)>>
         /\ \A u \in Threads : /\ Carries(u)' <=> Carries(u)
                               /\ CarriesAck(u)' <=> CarriesAck(u)
                               /\ u # t => (CarriesS(u)' <=> CarriesS(u))
                               /\ SentR(u)' = SentR(u) /\ SentS(u)' = SentS(u)
         /\ \A u \in Threads, k \in PosR : Holds(u, k)' <=> Holds(u, k)
         /\ \A u \in Threads : t < u => j < SentS(u)
         /\ t # last => /\ InOrder(rightRecvQueue'[t], j + 1, SentS(t + 1))
                        /\ \A n \in DOMAIN rightRecvQueue'[t] : ~rightRecvQueue'[t][n].ack
<1> USE DEF IInv
<1>1. j \in PosS /\ j \in Nat /\ Tuple(j) \in Msgs /\ Ack(j) \in Msgs /\ j < numS + 1 /\ cntS[t] = j
  BY Positions, Messages DEF SeesS
<1>2. <<Tuple(j)>> \in Fetched /\ <<Tuple(j)>> # <<>>
  BY <1>1 DEF Fetched
<1>3. winS' \in [Threads -> [PosS -> Nat]] /\ winR' = winR /\ \A u \in Threads : u # t => winS'[u] = winS[u]
  BY <1>1 DEF SeesS, JoinS, TypeOK
<1>4. out' \in [Threads -> [PosR -> [PosS -> Nat]]] /\ \A u \in Threads : u # t => out'[u] = out[u]
  <2> DEFINE tab == [i \in PosR |-> [k \in PosS |->
                        out[t][i][k] + IF k = j /\ kS(j) = kR(i) THEN winR[t][i] ELSE 0]]
  <2>1. out' = [out EXCEPT ![t] = tab]
    BY DEF SeesS, JoinS
  <2>2. tab \in [PosR -> [PosS -> Nat]]
    BY <1>1 DEF TypeOK
  <2> HIDE DEF tab
  <2> QED
    BY <1>1, <2>1, <2>2 DEF TypeOK
<1>5. idxS' \in 0 .. numS + 1 /\ cntS' \in [Threads -> 0 .. numS + 1]
  <2>1. j + 1 \in 0 .. numS + 1
    BY <1>1, Sizes
  <2>2. idxS' = j + 1 \/ idxS' = idxS
    BY <1>1 DEF SeesS, CountInv
  <2> QED
    BY <1>1, <2>1, <2>2 DEF SeesS, TypeOK
<1>6. /\ rightRecvQueue' \in [Threads -> Seq(Msgs)]
      /\ \A u \in Threads : u # t => rightRecvQueue'[u] = rightRecvQueue[u]
  <2>1. CASE t = last
    BY <2>1 DEF SeesS, TypeOK
  <2>2. CASE t # last
    <3>1. rightRecvQueue[t] \in Seq(Msgs) /\ rightRecvQueue[t] # <<>>
      BY <2>2 DEF SeesS, TypeOK
    <3>2. Tail(rightRecvQueue[t]) \in Seq(Msgs)
      BY <3>1, HeadTail
    <3>3. rightRecvQueue' = [rightRecvQueue EXCEPT ![t] = Tail(rightRecvQueue[t])]
      BY <2>2 DEF SeesS
    <3> QED
      BY <3>2, <3>3 DEF TypeOK
  <2> QED
    BY <2>1, <2>2
<1>7. /\ pc' \in [Threads -> PCs] /\ fetchS' \in [Threads -> Fetched]
      /\ pc[t] = "right" /\ pc'[t] = "forwardS" /\ fetchS'[t] = <<Tuple(j)>>
  BY <1>2 DEF SeesS, TypeOK, PCs, Holding
<1>8. leftRecvQueue' \in [Threads -> Seq(Msgs)]
  BY <1>1, GrowFacts DEF SeesS
<1>9. TypeOK'
  BY <1>3, <1>4, <1>5, <1>6, <1>7, <1>8 DEF SeesS, TypeOK
<1>10. cntS'[t] = j + 1 /\ \A u \in Threads : u # t => pc'[u] = pc[u] /\ fetchS'[u] = fetchS[u] /\ cntS'[u] = cntS[u]
  BY <1>1 DEF SeesS, TypeOK
<1>11. ~CarriesS(t) /\ CarriesS(t)'
  BY <1>2, <1>7 DEF CarriesS
<1>12. \A u \in Threads : /\ Carries(u)' <=> Carries(u)
                          /\ CarriesAck(u)' <=> CarriesAck(u)
                          /\ u # t => (CarriesS(u)' <=> CarriesS(u))
  <2>1. fetchR' = fetchR
    BY DEF SeesS
  <2> QED
    BY <1>7, <1>10, <2>1 DEF Carries, CarriesAck, CarriesS, Holding
<1>13. cntR' = cntR
  BY DEF SeesS
<1>14. \A u \in Threads : SentR(u)' = SentR(u) /\ SentS(u)' = SentS(u)
  <2>1. SentS(t)' = SentS(t)
    BY <1>1, <1>10, <1>11 DEF SentS
  <2> QED
    BY <1>10, <1>12, <1>13, <2>1 DEF SentR, SentS
<1>15. \A u \in Threads, k \in PosR : Holds(u, k)' <=> Holds(u, k)
  BY <1>12, <1>13 DEF Holds
<1>16. t # last => /\ j < SentS(t + 1) /\ InOrder(rightRecvQueue'[t], j + 1, SentS(t + 1))
                   /\ \A n \in DOMAIN rightRecvQueue'[t] : ~rightRecvQueue'[t][n].ack
  <2> SUFFICES ASSUME t # last
               PROVE  /\ j < SentS(t + 1) /\ InOrder(rightRecvQueue'[t], j + 1, SentS(t + 1))
                      /\ \A n \in DOMAIN rightRecvQueue'[t] : ~rightRecvQueue'[t][n].ack
    OBVIOUS
  <2>1. rightRecvQueue[t] # <<>> /\ ~Head(rightRecvQueue[t]).ack /\ rightRecvQueue'[t] = Tail(rightRecvQueue[t])
    BY Messages DEF SeesS, TypeOK
  <2>2. t + 1 \in Threads
    BY Line
  <2>3. cntS[t] \in Nat /\ SentS(t + 1) \in Nat
    BY <2>2, Sent
  <2>4. /\ rightRecvQueue[t] \in Seq(Msgs) /\ InOrder(rightRecvQueue[t], cntS[t], SentS(t + 1))
        /\ \A n \in DOMAIN rightRecvQueue[t] : ~rightRecvQueue[t][n].ack
    BY DEF TypeOK, LineInv
  <2>5. \A n \in DOMAIN rightRecvQueue'[t] : ~rightRecvQueue'[t][n].ack
    BY <2>1, <2>4, HeadTail
  <2> QED
    BY <1>1, <2>1, <2>3, <2>4, <2>5, OrderedTail
<1>17. ASSUME NEW u \in Threads, t < u PROVE j < SentS(u)
  <2>1. t # last /\ t + 1 \in Threads /\ t + 1 <= u
    BY <1>17, Line
  <2>2. j < SentS(t + 1)
    BY <1>16, <2>1
  <2>3. SentS(t + 1) \in Nat /\ SentS(t + 1) <= cntS[t + 1] /\ cntS[t + 1] \in Nat /\ SentS(u) \in Nat
    BY <2>1, Sent
  <2>4. u # t + 1 => cntS[t + 1] <= SentS(u)
    BY <2>1, Seen
  <2> QED
    BY <1>1, <2>2, <2>3, <2>4
<1> QED
  BY <1>1, <1>3, <1>4, <1>6, <1>7, <1>9, <1>10, <1>11, <1>12, <1>14, <1>15, <1>16, <1>17

LEMMA SeesSLine ==
  ASSUME IInv, NEW t \in Threads, NEW j, SeesS(t, j)
  PROVE  CountInv' /\ LineInv' /\ AckInv'
<1> USE DEF IInv
<1>1. /\ \A u \in Threads : u # t => /\ fetchS'[u] = fetchS[u] /\ cntS'[u] = cntS[u]
                                     /\ rightRecvQueue'[u] = rightRecvQueue[u]
      /\ cntS'[t] = j + 1 /\ j \in Nat /\ cntS[t] = j
      /\ CarriesS(t)' /\ fetchS'[t] = <<Tuple(j)>>
      /\ \A u \in Threads : /\ Carries(u)' <=> Carries(u)
                            /\ CarriesAck(u)' <=> CarriesAck(u)
                            /\ u # t => (CarriesS(u)' <=> CarriesS(u))
                            /\ SentR(u)' = SentR(u) /\ SentS(u)' = SentS(u)
      /\ \A u \in Threads : t < u => j < SentS(u)
      /\ t # last => /\ InOrder(rightRecvQueue'[t], j + 1, SentS(t + 1))
                     /\ \A n \in DOMAIN rightRecvQueue'[t] : ~rightRecvQueue'[t][n].ack
  BY SeesSFacts
<1>2. UNCHANGED <<idxR, cntR, fetchR>> /\ Ack(j) \in Msgs /\ Grows(t, Ack(j))
  BY Messages DEF SeesS
<1>3. \A u \in Threads : (u # 0 => u - 1 \in Threads) /\ (u # last => u + 1 \in Threads)
  BY Line
<1>4. CountInv'
  <2>1. cntS'[last] = idxS'
    BY <1>1, Line DEF CountInv, SeesS
  <2>2. ASSUME NEW u \in Threads, CarriesS(u)' PROVE Head(fetchS'[u]) = Tuple(cntS'[u] - 1)
    <3>1. CASE u = t
      BY <1>1, <3>1
    <3>2. CASE u # t
      BY <1>1, <2>2, <3>2 DEF CountInv
    <3> QED
      BY <3>1, <3>2
  <2>3. ASSUME NEW u \in Threads, NEW v \in Threads, u < v
        PROVE  cntR'[v] <= SentR(u)' /\ cntS'[u] <= SentS(v)'
    <3>1. cntR[v] <= SentR(u) /\ cntS[u] <= SentS(v)
      BY <2>3 DEF CountInv
    <3>2. u = t => j + 1 <= SentS(v)
      BY <1>1, <2>3, Sent
    <3> QED
      BY <1>1, <1>2, <3>1, <3>2
  <2> QED
    BY <1>1, <1>2, <2>1, <2>2, <2>3 DEF CountInv
<1>5. LineInv'
  <2>1. ASSUME NEW u \in Threads, u # 0 PROVE InOrder(leftRecvQueue'[u], cntR'[u], SentR(u - 1)')
    <3>1. SentR(u - 1)' = SentR(u - 1) /\ InOrder(leftRecvQueue[u], cntR[u], SentR(u - 1))
      BY <1>1, <1>3, <2>1 DEF LineInv
    <3>2. CASE t # last /\ u = t + 1
      <4>1. leftRecvQueue'[u] = Append(leftRecvQueue[u], Ack(j)) /\ leftRecvQueue[u] \in Seq(Msgs)
        BY <1>2, <3>2, GrowFacts
      <4>2. cntR[u] \in Nat /\ SentR(u - 1) \in Nat /\ Ack(j).ack
        BY <1>3, <2>1, Sent, Messages
      <4> QED
        BY <1>2, <3>1, <4>1, <4>2, OrderedAck
    <3>3. CASE ~(t # last /\ u = t + 1)
      <4>1. leftRecvQueue'[u] = leftRecvQueue[u]
        BY <1>2, <3>3, GrowFacts DEF Grows
      <4> QED
        BY <1>2, <3>1, <4>1
    <3> QED
      BY <3>2, <3>3
  <2>2. ASSUME NEW u \in Threads, u # last
        PROVE  /\ InOrder(rightRecvQueue'[u], cntS'[u], SentS(u + 1)')
               /\ \A n \in DOMAIN rightRecvQueue'[u] : ~rightRecvQueue'[u][n].ack
    <3>1. SentS(u + 1)' = SentS(u + 1)
      BY <1>1, <1>3, <2>2
    <3> QED
      BY <1>1, <2>2, <3>1 DEF LineInv
  <2> QED
    BY <2>1, <2>2 DEF LineInv
<1>6. AckInv'
  <2>1. \A u \in Threads : cntS[u] <= cntS'[u] /\ cntS[u] \in Nat /\ cntS'[u] \in Nat
    BY <1>1, Sent
  <2>2. ASSUME NEW u \in Threads, u # 0, NEW n \in DOMAIN leftRecvQueue'[u], leftRecvQueue'[u][n].ack
        PROVE  leftRecvQueue'[u][n].pos < cntS'[u - 1]
    <3>1. CASE n \in DOMAIN leftRecvQueue[u]
      <4>1. leftRecvQueue'[u][n] = leftRecvQueue[u][n]
        BY <1>2, <3>1, GrowFacts
      <4>2. leftRecvQueue[u][n].pos < cntS[u - 1] /\ leftRecvQueue[u][n].pos \in Nat
        BY <2>2, <3>1, <4>1, Messages DEF AckInv, TypeOK
      <4> QED
        BY <1>3, <2>1, <2>2, <4>1, <4>2
    <3>2. CASE n \notin DOMAIN leftRecvQueue[u]
      <4>1. u = t + 1 /\ leftRecvQueue'[u][n] = Ack(j)
        BY <1>2, <3>2, GrowFacts
      <4>2. u - 1 = t
        BY <4>1, Line
      <4> QED
        BY <1>1, <4>1, <4>2, Messages
    <3> QED
      BY <3>1, <3>2
  <2>3. ASSUME NEW u \in Threads, CarriesAck(u)' PROVE u # 0 /\ Head(fetchR'[u]).pos < cntS'[u - 1]
    <3>1. u # 0 /\ Head(fetchR[u]).pos < cntS[u - 1]
      BY <1>1, <2>3 DEF AckInv
    <3>2. Head(fetchR[u]).pos \in Nat
      <4>1. \A f \in Fetched : f # <<>> => Head(f) \in Msgs
        BY DEF Fetched
      <4> QED
        BY <1>1, <2>3, <4>1, Messages DEF CarriesAck, TypeOK
    <3> QED
      BY <1>2, <1>3, <2>1, <3>1, <3>2
  <2> QED
    BY <2>2, <2>3 DEF AckInv
<1> QED
  BY <1>4, <1>5, <1>6

(* The pairs counted are j with the R tuples of its key that t holds. *)
LEMMA SeesSMet ==
  ASSUME IInv, NEW t \in Threads, NEW j, SeesS(t, j)
  PROVE  /\ \A u \in Threads, i \in PosR, k \in PosS :
              /\ u # t \/ k # j => out'[u][i][k] = out[u][i][k]
              /\ kR(i)' = kR(i) /\ kS(k)' = kS(k)
         /\ \A i \in PosR : out'[t][i][j] = IF kS(j) = kR(i) /\ Holds(t, i) THEN 1 ELSE 0
         /\ \A u \in Threads, k \in PosS : u # t \/ k # j => winS'[u][k] = winS[u][k]
         /\ winS'[t][j] = 1
         /\ \A i \in PosR, k \in PosS : /\ Met(i, k) => Met(i, k)'
                                        /\ Met(i, k)' => Met(i, k) \/ (k = j /\ Holds(t, i))
<1> USE DEF IInv
<1>1. j \in PosS /\ j \in Nat /\ cntS[t] = j
  BY Positions DEF SeesS
<1>2. (\A i \in PosR : out[t][i][j] = 0) /\ winS[t][j] = 0
  BY <1>1 DEF OutInv, WinInv
<1> DEFINE tab == [i \in PosR |-> [k \in PosS |->
                      out[t][i][k] + IF k = j /\ kS(j) = kR(i) THEN winR[t][i] ELSE 0]]
<1>3. out' = [out EXCEPT ![t] = tab]
  BY DEF SeesS, JoinS
<1>4. \A i \in PosR, k \in PosS :
        tab[i][k] = IF k = j THEN IF kS(j) = kR(i) /\ Holds(t, i) THEN 1 ELSE 0 ELSE out[t][i][k]
  BY <1>2 DEF TypeOK, WinInv
<1> HIDE DEF tab
<1>5. \A u \in Threads, i \in PosR, k \in PosS :
        out'[u][i][k] = IF u = t THEN tab[i][k] ELSE out[u][i][k]
  BY <1>3 DEF TypeOK
<1>6. \A i \in PosR, k \in PosS : kR(i)' = kR(i) /\ kS(k)' = kS(k)
  BY DEF kR, kS, SeesS
<1>7. \A u \in Threads, k \in PosS : winS'[u][k] = IF u = t /\ k = j THEN 1 ELSE winS[u][k]
  BY <1>1, <1>2 DEF SeesS, JoinS, TypeOK
<1>8. ASSUME NEW i \in PosR, NEW k \in PosS, Met(i, k) PROVE Met(i, k)'
  <2>1. PICK u \in Threads : out[u][i][k] # 0
    BY <1>8 DEF Met
  <2>2. out'[u][i][k] # 0
    BY <1>2, <1>4, <1>5, <2>1
  <2> QED
    BY <2>2 DEF Met
<1>9. ASSUME NEW i \in PosR, NEW k \in PosS, Met(i, k)' PROVE Met(i, k) \/ (k = j /\ Holds(t, i))
  <2>1. PICK u \in Threads : out'[u][i][k] # 0
    BY <1>9 DEF Met
  <2>2. out[u][i][k] # 0 \/ (k = j /\ Holds(t, i))
    BY <1>4, <1>5, <2>1
  <2> QED
    BY <2>2 DEF Met
<1> HIDE DEF IInv
<1>10. \A u \in Threads, i \in PosR, k \in PosS :
         /\ u # t \/ k # j => out'[u][i][k] = out[u][i][k]
         /\ kR(i)' = kR(i) /\ kS(k)' = kS(k)
  BY <1>4, <1>5, <1>6
<1>11. \A i \in PosR : out'[t][i][j] = IF kS(j) = kR(i) /\ Holds(t, i) THEN 1 ELSE 0
  BY <1>1, <1>4, <1>5
<1>12. /\ \A u \in Threads, k \in PosS : u # t \/ k # j => winS'[u][k] = winS[u][k]
       /\ winS'[t][j] = 1
  BY <1>1, <1>7
<1> QED
  BY <1>8, <1>9, <1>10, <1>11, <1>12

LEMMA SeesSWin ==
  ASSUME IInv, NEW t \in Threads, NEW j, SeesS(t, j)
  PROVE  WinInv' /\ OutInv'
<1> USE DEF IInv
<1>1. /\ \A u \in Threads : u # t => cntS'[u] = cntS[u]
      /\ cntS'[t] = j + 1 /\ j \in Nat /\ cntS[t] = j
      /\ \A u \in Threads, k \in PosR : Holds(u, k)' <=> Holds(u, k)
  BY SeesSFacts
<1>2. UNCHANGED <<joiner, cntR, winR>> /\ j \in PosS /\ Ack(j) \in Msgs /\ Grows(t, Ack(j))
  BY Messages DEF SeesS, JoinS
<1>3. /\ \A u \in Threads, i \in PosR, k \in PosS :
           /\ u # t \/ k # j => out'[u][i][k] = out[u][i][k]
           /\ kR(i)' = kR(i) /\ kS(k)' = kS(k)
      /\ \A i \in PosR : out'[t][i][j] = IF kS(j) = kR(i) /\ Holds(t, i) THEN 1 ELSE 0
      /\ \A u \in Threads, k \in PosS : u # t \/ k # j => winS'[u][k] = winS[u][k]
      /\ winS'[t][j] = 1
  BY SeesSMet
<1>4. \A u \in Threads : /\ cntS[u] <= cntS'[u] /\ cntS[u] \in Nat /\ cntS'[u] \in Nat
                         /\ u # 0 => u - 1 \in Threads
  BY <1>1, Sent, Line
<1>5. WinInv'
  <2>1. \A u \in Threads, k \in PosR : winR'[u][k] = IF Holds(u, k)' THEN 1 ELSE 0
    BY <1>1, <1>2 DEF WinInv
  <2>2. \A u \in Threads, k \in PosS : winS'[u][k] \in {0, 1} /\ (winS'[u][k] = 1 => k < cntS'[u])
    BY <1>1, <1>2, <1>3, <1>4, Positions DEF WinInv
  <2>3. ASSUME NEW u \in Threads PROVE KeptUntilSeen(u)'
    <3> SUFFICES ASSUME NEW k \in SIdx, CleanExact(k), k < cntS'[u], u # 0 => cntS'[u - 1] <= k
                 PROVE  winS'[u][k] = 1
      BY <1>2 DEF KeptUntilSeen, CleanExact
    <3>1. CASE u = t /\ k = j
      BY <1>3, <3>1
    <3>2. CASE ~(u = t /\ k = j)
      <4>1. k \in PosS /\ k \in Nat
        BY Positions
      <4>2. k < cntS[u]
        BY <1>1, <3>2, <4>1
      <4>3. u # 0 => cntS[u - 1] <= k
        BY <1>4, <4>1
      <4>4. winS[u][k] = 1
        BY <4>2, <4>3 DEF WinInv, KeptUntilSeen
      <4> QED
        BY <1>3, <3>2, <4>1, <4>4
    <3> QED
      BY <3>1, <3>2
  <2>4. ASSUME NEW u \in Threads, u # 0 PROVE DroppedAfter(u)'
    <3> SUFFICES ASSUME NEW k \in PosS, k < cntS'[u - 1], winS'[u][k] = 1
                 PROVE  \E n \in DOMAIN leftRecvQueue'[u] : leftRecvQueue'[u][n] = Ack(k)
      BY DEF DroppedAfter
    <3>1. CASE k < cntS[u - 1]
      <4>1. ~(u = t /\ k = j)
        <5>1. cntS[u - 1] <= cntS[u]
          BY <1>4, <2>4, Seen, Line
        <5> QED
          BY <1>1, <1>4, <2>4, <3>1, <5>1
      <4>2. winS[u][k] = 1
        BY <1>3, <4>1
      <4>3. PICK n \in DOMAIN leftRecvQueue[u] : leftRecvQueue[u][n] = Ack(k)
        BY <2>4, <3>1, <4>2 DEF WinInv, DroppedAfter
      <4>4. \A v \in Threads : \A m \in DOMAIN leftRecvQueue[v] :
              m \in DOMAIN leftRecvQueue'[v] /\ leftRecvQueue'[v][m] = leftRecvQueue[v][m]
        BY <1>2, GrowFacts
      <4> QED
        BY <4>3, <4>4
    <3>2. CASE ~(k < cntS[u - 1])
      <4>1. u - 1 = t /\ k = j
        BY <1>1, <1>4, <2>4, <3>2, Positions
      <4>2. u = t + 1 /\ t # last
        <5>1. u \in Nat /\ t \in Nat /\ last \in Nat /\ u <= last
          BY Line
        <5> QED
          BY <4>1, <5>1
      <4>3. \E n \in DOMAIN leftRecvQueue'[t + 1] : leftRecvQueue'[t + 1][n] = Ack(j)
        BY <1>2, <4>2, GrowFacts
      <4> QED
        BY <4>1, <4>2, <4>3
    <3> QED
      BY <3>1, <3>2
  <2> QED
    BY <2>1, <2>2, <2>3, <2>4 DEF WinInv
<1>6. ASSUME NEW i \in PosR, out'[t][i][j] # 0, NEW u \in Threads, u # t PROVE out'[u][i][j] = 0
  <2> SUFFICES ASSUME out[u][i][j] # 0 PROVE FALSE
    BY <1>2, <1>3, <1>6
  <2>1. i < cntR[u] /\ j < cntS[u] /\ Holds(t, i) /\ i \in Nat
    BY <1>2, <1>3, <1>6, Positions DEF OutInv
  <2>2. t < u
    <3>1. ~(u <= t)
      BY <1>1, <1>4, <2>1, Seen
    <3> QED
      BY <3>1, Line
  <2>3. t # last
    BY <2>2, Line
  <2>4. SentR(t) = i
    BY <2>1, <2>3 DEF Holds, SentR
  <2>5. cntR[u] <= SentR(t) /\ cntR[u] \in Nat
    BY <1>6, <2>2, Seen, Sent, Line
  <2> QED
    BY <2>1, <2>4, <2>5
<1>7. OutInv'
  <2>1. ASSUME NEW i \in PosR, NEW k \in PosS, NEW u \in Threads, out'[u][i][k] # 0
        PROVE  out'[u][i][k] = 1 /\ kR(i)' = kS(k)' /\ i < cntR'[u] /\ k < cntS'[u]
    <3>1. CASE u = t /\ k = j
      <4>1. out'[t][i][j] = 1 /\ kS(j) = kR(i) /\ Holds(t, i)
        BY <1>3, <2>1, <3>1
      <4>2. i < cntR[t]
        BY <4>1, Sent DEF Holds
      <4> QED
        BY <1>1, <1>2, <1>3, <3>1, <4>1, <4>2
    <3>2. CASE ~(u = t /\ k = j)
      <4>1. out'[u][i][k] = out[u][i][k]
        BY <1>3, <3>2
      <4>2. out[u][i][k] = 1 /\ kR(i) = kS(k) /\ i < cntR[u] /\ k < cntS[u]
        BY <2>1, <4>1 DEF OutInv
      <4>3. k < cntS'[u]
        BY <1>4, <4>2, Positions
      <4> QED
        BY <1>2, <1>3, <4>1, <4>2, <4>3
    <3> QED
      BY <3>1, <3>2
  <2>2. ASSUME NEW i \in PosR, NEW k \in PosS, NEW u \in Threads, NEW v \in Threads,
               out'[u][i][k] # 0, out'[v][i][k] # 0
        PROVE  u = v
    <3>1. CASE k = j /\ (u = t \/ v = t)
      BY <1>6, <2>2, <3>1
    <3>2. CASE ~(k = j /\ (u = t \/ v = t))
      BY <1>3, <2>2, <3>2 DEF OutInv
    <3> QED
      BY <3>1, <3>2
  <2> QED
    BY <2>1, <2>2 DEF OutInv
<1> QED
  BY <1>5, <1>7

LEMMA SeesSMeets ==
  ASSUME IInv, NEW t \in Threads, NEW j, SeesS(t, j)
  PROVE  MeetInv'
<1> USE DEF IInv
<1>1. /\ \A u \in Threads : u # t => cntS'[u] = cntS[u]
      /\ cntS'[t] = j + 1 /\ j \in Nat /\ cntS[t] = j
      /\ \A u \in Threads, k \in PosR : Holds(u, k)' <=> Holds(u, k)
  BY SeesSFacts
<1>2. UNCHANGED <<joiner, cntR, winR>> /\ j \in PosS /\ Ack(j) \in Msgs /\ Grows(t, Ack(j))
  BY Messages DEF SeesS, JoinS
<1>3. /\ \A i \in PosR : out'[t][i][j] = IF kS(j) = kR(i) /\ Holds(t, i) THEN 1 ELSE 0
      /\ \A u \in Threads, k \in PosS : u # t \/ k # j => winS'[u][k] = winS[u][k]
      /\ winS'[t][j] = 1
      /\ \A i \in PosR, k \in PosS : /\ Met(i, k) => Met(i, k)'
                                     /\ Met(i, k)' => Met(i, k) \/ (k = j /\ Holds(t, i))
  BY SeesSMet
<1>4. /\ \A i \in PosR, k \in SIdx : Awaited(i, k)' => Awaited(i, k)
      /\ RIdx \subseteq PosR /\ SIdx \subseteq PosS
  <2>1. \A k \in SIdx : CleanExact(k)' <=> CleanExact(k)
    BY <1>2 DEF CleanExact
  <2> QED
    BY <1>3, <2>1, Positions DEF Awaited
<1>5. ASSUME NEW u \in Threads, u # 0, NEW n \in DOMAIN leftRecvQueue'[u], ~leftRecvQueue'[u][n].ack
      PROVE  MetBefore(u, n)' /\ StillToMeet(u, n)'
  <2>1. /\ \A m \in DOMAIN leftRecvQueue[u] :
             m \in DOMAIN leftRecvQueue'[u] /\ leftRecvQueue'[u][m] = leftRecvQueue[u][m]
        /\ \A m \in DOMAIN leftRecvQueue'[u] :
             /\ m \in Nat
             /\ m \notin DOMAIN leftRecvQueue[u] => /\ leftRecvQueue'[u][m] = Ack(j)
                                                    /\ \A k \in DOMAIN leftRecvQueue[u] : k < m
    <3>1. /\ \A v \in Threads : \A m \in DOMAIN leftRecvQueue[v] :
               m \in DOMAIN leftRecvQueue'[v] /\ leftRecvQueue'[v][m] = leftRecvQueue[v][m]
          /\ \A v \in Threads : \A m \in DOMAIN leftRecvQueue'[v] :
               /\ m \in Nat
               /\ m \notin DOMAIN leftRecvQueue[v] =>
                    /\ t # last /\ v = t + 1 /\ leftRecvQueue'[v][m] = Ack(j)
                    /\ \A k \in DOMAIN leftRecvQueue[v] : k < m
      BY <1>2, GrowFacts
    <3> QED
      BY <3>1
  <2>2. n \in DOMAIN leftRecvQueue[u] /\ leftRecvQueue'[u][n] = leftRecvQueue[u][n]
    BY <1>5, <2>1, Messages
  <2>3. PICK i : i = leftRecvQueue[u][n].pos
    OBVIOUS
  <2>4. i \in PosR /\ i \in Nat /\ cntR[u] <= i
    BY <1>5, <2>2, <2>3, Queued
  <2>5. ~Holds(t, i)
    BY <1>5, <2>2, <2>3, HeldNotQueued
  <2>6. MetBefore(u, n) /\ StillToMeet(u, n)
    BY <1>5, <2>2 DEF MeetInv
  <2>7. ASSUME NEW k \in PosS, Met(i, k)', winS'[u][k] = 1
        PROVE  \E m \in DOMAIN leftRecvQueue'[u] : m < n /\ leftRecvQueue'[u][m] = Ack(k)
    <3>1. Met(i, k)
      BY <1>3, <2>4, <2>5, <2>7
    <3>2. ~(u = t /\ k = j)
      <4> SUFFICES ASSUME u = t, k = j PROVE FALSE
        OBVIOUS
      <4>1. PICK v \in Threads : i < cntR[v] /\ j < cntS[v]
        BY <1>2, <2>4, <3>1, MetSeen
      <4>2. cntR[v] \in Nat /\ cntR[t] \in Nat /\ cntS[v] \in Nat
        BY Sent
      <4>3. ~(v <= t)
        BY <1>1, <4>1, <4>2, Seen
      <4>4. t <= v
        BY <4>3, Line
      <4>5. cntR[v] <= cntR[t]
        BY <4>4, Seen
      <4> QED
        BY <2>4, <4>1, <4>2, <4>5
    <3>3. winS[u][k] = 1
      BY <1>3, <2>7, <3>2
    <3>4. PICK m \in DOMAIN leftRecvQueue[u] : m < n /\ leftRecvQueue[u][m] = Ack(k)
      BY <2>3, <2>6, <3>1, <3>3 DEF MetBefore
    <3> QED
      BY <2>1, <3>4
  <2>8. MetBefore(u, n)'
    BY <2>2, <2>3, <2>7 DEF MetBefore
  <2>9. ASSUME NEW k \in SIdx, Awaited(i, k)'
        PROVE  /\ \A m \in DOMAIN leftRecvQueue'[u] :
                    m < n /\ leftRecvQueue'[u][m].ack => leftRecvQueue'[u][m].pos < k
               /\ k < cntS'[u] => winS'[u][k] = 1
    <3>1. Awaited(i, k) /\ k \in PosS /\ k \in Nat
      BY <1>4, <2>4, <2>9, Positions
    <3>2. /\ \A m \in DOMAIN leftRecvQueue[u] :
               m < n /\ leftRecvQueue[u][m].ack => leftRecvQueue[u][m].pos < k
          /\ k < cntS[u] => winS[u][k] = 1
      BY <2>3, <2>6, <3>1 DEF StillToMeet
    <3>3. ASSUME NEW m \in DOMAIN leftRecvQueue'[u], m < n, leftRecvQueue'[u][m].ack
          PROVE  leftRecvQueue'[u][m].pos < k
      <4>1. m \in DOMAIN leftRecvQueue[u]
        BY <2>1, <2>2, <3>3
      <4> QED
        BY <2>1, <3>2, <3>3, <4>1
    <3>4. k < cntS'[u] => winS'[u][k] = 1
      <4>1. CASE u = t /\ k = j
        BY <1>3, <4>1
      <4>2. CASE ~(u = t /\ k = j)
        <5>1. k < cntS'[u] => k < cntS[u]
          BY <1>1, <3>1, <4>2
        <5> QED
          BY <1>3, <3>1, <3>2, <4>2, <5>1
      <4> QED
        BY <4>1, <4>2
    <3> QED
      BY <3>3, <3>4
  <2>10. StillToMeet(u, n)'
    BY <2>2, <2>3, <2>9 DEF StillToMeet
  <2> QED
    BY <2>8, <2>10
<1>6. ASSUME NEW u \in Threads, NEW i \in RIdx, NEW k \in SIdx, Holds(u, i)', Awaited(i, k)'
      PROVE  cntS'[u] <= k
  <2>1. Holds(u, i) /\ Awaited(i, k) /\ i \in PosR /\ k \in PosS
    BY <1>1, <1>4, <1>6
  <2>2. cntS[u] <= k
    BY <2>1 DEF MeetInv
  <2>3. ~(u = t /\ k = j)
    <3> SUFFICES ASSUME u = t, k = j PROVE FALSE
      OBVIOUS
    <3>1. kS(j) = kR(i)
      BY <1>6, <2>1, Positions DEF Awaited, Matching, kS, kR
    <3>2. out'[t][i][j] = 1
      BY <1>3, <2>1, <3>1
    <3>3. Met(i, j)'
      BY <3>2 DEF Met
    <3> QED
      BY <1>6, <3>3 DEF Awaited
  <2> QED
    BY <1>1, <2>1, <2>2, <2>3, Positions
<1> QED
  BY <1>5, <1>6 DEF MeetInv

LEMMA RightInv ==
  ASSUME IInv, NEW t \in Threads, PullRight(t) \/ ReadS(t)
  PROVE  IInv'
<1>1. PICK j : SeesS(t, j)
  BY RightSteps
<1> QED
  BY <1>1, SeesSFacts, SeesSLine, SeesSWin, SeesSMeets DEF IInv

------------------------------------------------------------------------------
LEMMA ForwardSInv ==
  ASSUME IInv, NEW t \in Threads, ForwardS(t)
  PROVE  IInv'
<1> USE DEF IInv
<1>1. /\ pc[t] = "forwardS" /\ pc' = [pc EXCEPT ![t] = "forwardR"]
      /\ UNCHANGED <<joiner, pastKey, idxR, idxS, cntR, cntS, leftRecvQueue, fetchR, fetchS, winR, winS, out>>
  BY DEF ForwardS, Goto, inputVars, joinVars
<1>2. pc' \in [Threads -> PCs] /\ pc'[t] = "forwardR" /\ \A u \in Threads : u # t => pc'[u] = pc[u]
  BY <1>1 DEF TypeOK, PCs, Holding
<1>3. \A u \in Threads : /\ Carries(u)' <=> Carries(u)
                         /\ CarriesAck(u)' <=> CarriesAck(u)
                         /\ CarriesS(u)' <=> CarriesS(u) /\ u # t
  BY <1>1, <1>2 DEF Carries, CarriesAck, CarriesS, Holding
<1>4. \A u \in Threads : /\ SentR(u)' = SentR(u)
                         /\ u # t => SentS(u)' = SentS(u)
                         /\ SentS(t)' = cntS[t]
  BY <1>1, <1>3 DEF SentR, SentS
<1>5. \A u \in Threads, k \in PosR : Holds(u, k)' <=> Holds(u, k)
  BY <1>1, <1>3 DEF Holds
(* The tuple joins the queue of the left neighbour. *)
<1>6. /\ rightRecvQueue' \in [Threads -> Seq(Msgs)]
      /\ \A u \in Threads : u # t - 1 => rightRecvQueue'[u] = rightRecvQueue[u]
      /\ t # 0 => /\ InOrder(rightRecvQueue'[t - 1], cntS[t - 1], cntS[t])
                  /\ \A n \in DOMAIN rightRecvQueue'[t - 1] : ~rightRecvQueue'[t - 1][n].ack
  <2>1. CASE t = 0
    BY <2>1 DEF ForwardS, TypeOK
  <2>2. CASE t # 0
    <3>1. t - 1 \in Threads /\ t - 1 # last /\ (t - 1) + 1 = t
      BY <2>2, Line
    <3>2. PICK q \in Seq(Msgs) : q = rightRecvQueue[t - 1]
      BY <3>1 DEF TypeOK
    <3>3. InOrder(q, cntS[t - 1], SentS(t)) /\ \A n \in DOMAIN q : ~q[n].ack
      BY <3>1, <3>2 DEF LineInv
    <3>4. cntS[t - 1] \in Nat /\ SentS(t) \in Nat /\ cntS[t] \in Nat /\ cntS[t - 1] <= SentS(t)
      BY <3>1, Sent, Seen, Line
    <3>5. PICK r : r = q \o fetchS[t]
      OBVIOUS
    <3>6. rightRecvQueue' = [rightRecvQueue EXCEPT ![t - 1] = r]
      BY <2>2, <3>2, <3>5 DEF ForwardS
    <3>7. r \in Seq(Msgs) /\ InOrder(r, cntS[t - 1], cntS[t]) /\ \A n \in DOMAIN r : ~r[n].ack
      <4>1. CASE fetchS[t] = <<>>
        <5>1. r = q
          BY <3>5, <4>1
        <5>2. SentS(t) = cntS[t]
          BY <4>1 DEF SentS, CarriesS
        <5> QED
          BY <3>3, <5>1, <5>2
      <4>2. CASE fetchS[t] # <<>>
        <5>1. CarriesS(t)
          BY <1>1, <4>2 DEF CarriesS
        <5>2. PICK m \in Msgs : fetchS[t] = <<m>>
          BY <4>2 DEF TypeOK, Fetched
        <5>3. m = Tuple(cntS[t] - 1) /\ SentS(t) = cntS[t] - 1
          BY <5>1, <5>2 DEF CountInv, SentS
        <5>4. PICK c \in Nat : c = SentS(t)
          BY <3>4
        <5>5. m = Tuple(c) /\ cntS[t] = c + 1
          BY <3>4, <5>3, <5>4
        <5>6. r = Append(q, Tuple(c)) /\ r \in Seq(Msgs)
          BY <3>5, <5>2, <5>5, AppendOne
        <5>7. InOrder(r, cntS[t - 1], c + 1)
          BY <3>3, <3>4, <5>4, <5>5, <5>6, OrderedTuple
        <5>8. \A n \in DOMAIN r : ~r[n].ack
          <6>1. /\ \A n : n \in DOMAIN r <=> n \in DOMAIN q \/ n = Len(q) + 1
                /\ \A n \in DOMAIN q : r[n] = q[n]
                /\ r[Len(q) + 1] = Tuple(c)
            BY <5>5, <5>6, AppendOne
          <6> QED
            BY <3>3, <6>1, Messages
        <5> QED
          BY <5>5, <5>6, <5>7, <5>8
      <4> QED
        BY <4>1, <4>2
    <3> QED
      BY <3>1, <3>6, <3>7 DEF TypeOK
  <2> QED
    BY <2>1, <2>2
<1>7. TypeOK'
  BY <1>1, <1>2, <1>6 DEF TypeOK
<1>8. CountInv'
  <2>1. \A u \in Threads : SentS(u) <= SentS(u)' /\ SentS(u) \in Nat /\ SentS(u)' \in Nat /\ cntS[u] \in Nat
    BY <1>4, Sent
  <2>2. ASSUME NEW u \in Threads, NEW v \in Threads, u < v
        PROVE  cntR'[v] <= SentR(u)' /\ cntS'[u] <= SentS(v)'
    <3>1. cntR[v] <= SentR(u) /\ cntS[u] <= SentS(v)
      BY <2>2 DEF CountInv
    <3> QED
      BY <1>1, <1>4, <2>1, <3>1
  <2> QED
    BY <1>1, <1>3, <2>2 DEF CountInv
<1>9. LineInv'
  <2>1. \A u \in Threads : /\ u # 0 => u - 1 \in Threads
                           /\ u # last => u + 1 \in Threads /\ (u # t - 1 => u + 1 # t) /\ (u = t - 1 => t # 0 /\ u + 1 = t)
    BY Line
  <2>2. \A u \in Threads : u # 0 => InOrder(leftRecvQueue'[u], cntR'[u], SentR(u - 1)')
    BY <1>1, <1>4, <2>1 DEF LineInv
  <2>3. ASSUME NEW u \in Threads, u # last
        PROVE  /\ InOrder(rightRecvQueue'[u], cntS'[u], SentS(u + 1)')
               /\ \A n \in DOMAIN rightRecvQueue'[u] : ~rightRecvQueue'[u][n].ack
    <3>1. CASE u = t - 1
      BY <1>1, <1>4, <1>6, <2>1, <2>3, <3>1
    <3>2. CASE u # t - 1
      BY <1>1, <1>4, <1>6, <2>1, <2>3, <3>2 DEF LineInv
    <3> QED
      BY <3>1, <3>2
  <2> QED
    BY <2>2, <2>3 DEF LineInv
<1>10. AckInv'
  BY <1>1, <1>3 DEF AckInv
<1>11. WinInv'
  BY <1>1, <1>5 DEF WinInv, KeptUntilSeen, DroppedAfter, CleanExact
<1>12. OutInv'
  BY <1>1 DEF OutInv, kR, kS
<1>13. MeetInv'
  BY <1>1, <1>5, Positions DEF MeetInv, MetBefore, StillToMeet, Met, Awaited, CleanExact
<1> QED
  BY <1>7, <1>8, <1>9, <1>10, <1>11, <1>12, <1>13

------------------------------------------------------------------------------
(* ForwardR of a message to the right neighbour *)
HandsOn(t, m) ==
  /\ pc[t] = "forwardR" /\ t # last /\ fetchR[t] = <<m>>
  /\ \E l \in {"left", "atEnd"} : pc' = [pc EXCEPT ![t] = l]
  /\ Grows(t, m)
  /\ IF m.ack THEN UNCHANGED winR ELSE CleanR(t, m.pos)
  /\ UNCHANGED <<joiner, pastKey, idxR, idxS, cntR, cntS, rightRecvQueue, fetchR, fetchS, winS, out>>

LEMMA ForwardRSteps ==
  ASSUME IInv, NEW t \in Threads, ForwardR(t)
  PROVE  \/ \E m \in Msgs : HandsOn(t, m)
         \/ IInv'
<1> USE DEF IInv
<1>1. /\ pc[t] = "forwardR"
      /\ UNCHANGED <<joiner, pastKey, idxR, idxS, cntR, cntS, rightRecvQueue, fetchR, fetchS, winS, out>>
  BY DEF ForwardR, inputVars
<1>2. PICK l \in {"left", "atEnd"} : pc' = [pc EXCEPT ![t] = l]
  BY DEF ForwardR, LoopTest, Goto
<1>3. CASE t # last /\ fetchR[t] # <<>>
  <2>1. PICK m \in Msgs : fetchR[t] = <<m>>
    BY <1>3 DEF TypeOK, Fetched
  <2>2. Head(fetchR[t]) = m
    BY <2>1
  <2>3. t + 1 \in Threads
    BY <1>3, Line
  <2>4. leftRecvQueue[t + 1] \o fetchR[t] = Append(leftRecvQueue[t + 1], m)
    BY <2>1, <2>3, AppendOne DEF TypeOK
  <2>5. leftRecvQueue' = [leftRecvQueue EXCEPT ![t + 1] = leftRecvQueue[t + 1] \o fetchR[t]]
    BY <1>3 DEF ForwardR
  <2>6. Grows(t, m)
    BY <1>3, <2>4, <2>5 DEF Grows
  <2>7. IF m.ack THEN UNCHANGED winR ELSE CleanR(t, m.pos)
    BY <1>3, <2>2 DEF ForwardR
  <2>8. HandsOn(t, m)
    BY <1>1, <1>2, <1>3, <2>1, <2>6, <2>7 DEF HandsOn
  <2> QED
    BY <2>8
<1>4. CASE ~(t # last /\ fetchR[t] # <<>>)
  <2>1. leftRecvQueue' = leftRecvQueue
    <3>1. CASE t = last
      BY <3>1 DEF ForwardR
    <3>2. CASE t # last
      <4>1. t + 1 \in Threads /\ fetchR[t] = <<>>
        BY <1>4, <3>2, Line
      <4>2. leftRecvQueue[t + 1] \o fetchR[t] = leftRecvQueue[t + 1]
        BY <4>1 DEF TypeOK
      <4>3. leftRecvQueue' = [leftRecvQueue EXCEPT ![t + 1] = leftRecvQueue[t + 1] \o fetchR[t]]
        BY <3>2 DEF ForwardR
      <4> QED
        BY <4>1, <4>2, <4>3 DEF TypeOK
    <3> QED
      BY <3>1, <3>2
  <2>2. winR' = winR
    BY <1>4 DEF ForwardR
  <2>3. /\ pc' \in [Threads -> PCs] /\ pc'[t] \in {"left", "atEnd"}
        /\ \A u \in Threads : u # t => pc'[u] = pc[u]
    BY <1>2 DEF TypeOK, PCs
  <2>4. TypeOK'
    BY <1>1, <2>1, <2>2, <2>3 DEF TypeOK
  <2>5. \A u \in Threads : /\ Carries(u)' => Carries(u)
                           /\ u # last => (Carries(u)' <=> Carries(u))
                           /\ CarriesAck(u)' => CarriesAck(u)
                           /\ CarriesS(u)' <=> CarriesS(u)
                           /\ Carries(u)' \/ CarriesAck(u)' => fetchR'[u] = fetchR[u]
                           /\ CarriesS(u)' => fetchS'[u] = fetchS[u]
    BY <1>1, <1>4, <2>3 DEF Carries, CarriesAck, CarriesS, Holding
  <2>6. UNCHANGED <<joiner, pastKey, idxR, idxS, cntR, cntS, queueVars, winR, winS, out>>
    BY <1>1, <2>1, <2>2 DEF queueVars
  <2> QED
    BY <2>4, <2>5, <2>6, QuietStep
<1> QED
  BY <1>3, <1>4

LEMMA HandsOnFacts ==
  ASSUME IInv, NEW t \in Threads, NEW m \in Msgs, HandsOn(t, m)
  PROVE  /\ TypeOK'
         /\ Grows(t, m) /\ t # last /\ t + 1 \in Threads
         /\ UNCHANGED <<joiner, pastKey, idxR, idxS, cntR, cntS, rightRecvQueue, fetchR, fetchS, winS, out>>
         /\ \A u \in Threads : /\ u # t => (Carries(u)' <=> Carries(u)) /\ (CarriesAck(u)' <=> CarriesAck(u))
                               /\ CarriesS(u)' <=> CarriesS(u)
                               /\ u # t => SentR(u)' = SentR(u)
                               /\ SentS(u)' = SentS(u)
         /\ ~Carries(t)' /\ ~CarriesAck(t)' /\ SentR(t)' = cntR[t]
         /\ m.ack => /\ SentR(t) = cntR[t] /\ ~Carries(t) /\ winR' = winR
                     /\ t # 0 /\ m.pos < cntS[t - 1]
         /\ ~m.ack => /\ m = Tuple(SentR(t)) /\ cntR[t] = SentR(t) + 1
                      /\ Carries(t) /\ CleanR(t, SentR(t)) /\ SentR(t) \in PosR
         /\ \A u \in Threads, k \in PosR : Holds(u, k)' <=> Holds(u, k) /\ u # t
<1> USE DEF IInv
<1>1. /\ pc[t] = "forwardR" /\ t # last /\ fetchR[t] = <<m>> /\ Grows(t, m)
      /\ IF m.ack THEN UNCHANGED winR ELSE CleanR(t, m.pos)
      /\ UNCHANGED <<joiner, pastKey, idxR, idxS, cntR, cntS, rightRecvQueue, fetchR, fetchS, winS, out>>
  BY DEF HandsOn
<1>2. PICK l \in {"left", "atEnd"} : pc' = [pc EXCEPT ![t] = l]
  BY DEF HandsOn
<1>3. /\ pc' \in [Threads -> PCs] /\ pc'[t] \in {"left", "atEnd"}
      /\ \A u \in Threads : u # t => pc'[u] = pc[u]
  BY <1>2 DEF TypeOK, PCs
<1>4. t + 1 \in Threads /\ leftRecvQueue' \in [Threads -> Seq(Msgs)]
  BY <1>1, GrowFacts, Line
<1>5. winR' \in [Threads -> [PosR -> Nat]]
  <2>1. CASE m.ack
    BY <1>1, <2>1 DEF TypeOK
  <2>2. CASE ~m.ack
    <3>1. CleanR(t, m.pos) /\ winR \in [Threads -> [PosR -> Nat]]
      BY <1>1, <2>2 DEF TypeOK
    <3> QED
      BY <3>1 DEF CleanR
  <2> QED
    BY <2>1, <2>2
<1>6. TypeOK'
  BY <1>1, <1>3, <1>4, <1>5 DEF TypeOK
<1>7. fetchR[t] # <<>> /\ Head(fetchR[t]) = m
  BY <1>1
<1>8. (Carries(t) <=> ~m.ack) /\ (CarriesAck(t) <=> m.ack) /\ ~Carries(t)' /\ ~CarriesAck(t)'
  BY <1>1, <1>3, <1>7 DEF Carries, CarriesAck, Holding
<1>9. \A u \in Threads : /\ u # t => (Carries(u)' <=> Carries(u)) /\ (CarriesAck(u)' <=> CarriesAck(u))
                         /\ CarriesS(u)' <=> CarriesS(u)
  BY <1>1, <1>3 DEF Carries, CarriesAck, CarriesS
<1>10. \A u \in Threads : (u # t => SentR(u)' = SentR(u)) /\ SentS(u)' = SentS(u)
  BY <1>1, <1>9 DEF SentR, SentS
<1>11. SentR(t)' = cntR[t]
  BY <1>1, <1>8 DEF SentR
<1>12. m.ack => SentR(t) = cntR[t] /\ ~Carries(t) /\ winR' = winR /\ t # 0 /\ m.pos < cntS[t - 1]
  BY <1>1, <1>7, <1>8 DEF SentR, AckInv
<1>13. ASSUME ~m.ack
       PROVE  m = Tuple(SentR(t)) /\ cntR[t] = SentR(t) + 1 /\ Carries(t) /\ CleanR(t, SentR(t)) /\ SentR(t) \in PosR
  <2>1. Carries(t) /\ SentR(t) = cntR[t] - 1 /\ m = Tuple(cntR[t] - 1)
    BY <1>7, <1>8, <1>13 DEF SentR, CountInv
  <2>2. SentR(t) \in Nat /\ cntR[t] \in Nat /\ cntR[t] <= numR + 1
    BY Sent
  <2>3. m.pos = SentR(t)
    BY <2>1, Messages
  <2> QED
    BY <1>1, <1>13, <2>1, <2>2, <2>3, Positions, Sizes
<1>14. \A u \in Threads, k \in PosR : Holds(u, k)' <=> Holds(u, k) /\ u # t
  BY <1>1, <1>8, <1>9 DEF Holds
<1> QED
  BY <1>1, <1>4, <1>6, <1>8, <1>9, <1>10, <1>11, <1>12, <1>13, <1>14

LEMMA HandsOnLine ==
  ASSUME IInv, NEW t \in Threads, NEW m \in Msgs, HandsOn(t, m)
  PROVE  CountInv' /\ LineInv' /\ AckInv'
<1> USE DEF IInv
<1>1. /\ Grows(t, m) /\ t # last /\ t + 1 \in Threads
      /\ UNCHANGED <<idxR, idxS, cntR, cntS, rightRecvQueue, fetchR, fetchS>>
      /\ \A u \in Threads : /\ u # t => (Carries(u)' <=> Carries(u)) /\ (CarriesAck(u)' <=> CarriesAck(u))
                            /\ CarriesS(u)' <=> CarriesS(u)
                            /\ u # t => SentR(u)' = SentR(u)
                            /\ SentS(u)' = SentS(u)
      /\ ~Carries(t)' /\ ~CarriesAck(t)' /\ SentR(t)' = cntR[t]
      /\ m.ack => SentR(t) = cntR[t] /\ t # 0 /\ m.pos < cntS[t - 1]
      /\ ~m.ack => m = Tuple(SentR(t)) /\ cntR[t] = SentR(t) + 1
  BY HandsOnFacts
<1>2. \A u \in Threads : /\ u # 0 => u - 1 \in Threads /\ (u - 1 = t => u = t + 1)
                         /\ u # last => u + 1 \in Threads
  BY Line
<1>3. CountInv'
  <2>1. ASSUME NEW u \in Threads, NEW v \in Threads, u < v
        PROVE  cntR[v] <= SentR(u)' /\ cntS[u] <= SentS(v)'
    <3>1. cntR[v] <= SentR(u) /\ cntS[u] <= SentS(v)
      BY <2>1 DEF CountInv
    <3>2. SentR(u) <= cntR[u] /\ SentR(u) \in Nat /\ cntR[u] \in Nat /\ cntR[v] \in Nat
      BY Sent
    <3> QED
      BY <1>1, <3>1, <3>2
  <2> QED
    BY <1>1, <2>1 DEF CountInv
<1>4. LineInv'
  <2>1. InOrder(leftRecvQueue'[t + 1], cntR[t + 1], cntR[t])
    <3>1. leftRecvQueue'[t + 1] = Append(leftRecvQueue[t + 1], m) /\ leftRecvQueue[t + 1] \in Seq(Msgs)
      BY <1>1, GrowFacts
    <3>2. t + 1 # 0 /\ (t + 1) - 1 = t /\ t < t + 1
      BY Line
    <3>3. InOrder(leftRecvQueue[t + 1], cntR[t + 1], SentR(t))
      BY <1>1, <3>2 DEF LineInv
    <3>4. cntR[t + 1] \in Nat /\ cntR[t] \in Nat /\ SentR(t) \in Nat /\ cntR[t + 1] <= SentR(t)
      BY <1>1, <3>2, Sent DEF CountInv
    <3>5. CASE m.ack
      BY <1>1, <3>1, <3>3, <3>4, <3>5, OrderedAck
    <3>6. CASE ~m.ack
      <4>1. InOrder(Append(leftRecvQueue[t + 1], Tuple(SentR(t))), cntR[t + 1], SentR(t) + 1)
        BY <1>1, <3>1, <3>3, <3>4, <3>6, OrderedTuple
      <4> QED
        BY <1>1, <3>1, <3>6, <4>1
    <3> QED
      BY <3>5, <3>6
  <2>2. ASSUME NEW u \in Threads, u # 0 PROVE InOrder(leftRecvQueue'[u], cntR[u], SentR(u - 1)')
    <3>1. CASE u = t + 1
      <4>1. u - 1 = t
        BY <3>1, Line
      <4> QED
        BY <1>1, <2>1, <3>1, <4>1
    <3>2. CASE u # t + 1
      <4>1. leftRecvQueue'[u] = leftRecvQueue[u]
        BY <1>1, <3>2, GrowFacts
      <4>2. u - 1 \in Threads /\ u - 1 # t
        BY <1>2, <2>2, <3>2
      <4> QED
        BY <1>1, <2>2, <4>1, <4>2 DEF LineInv
    <3> QED
      BY <3>1, <3>2
  <2>3. \A u \in Threads : u # last =>
          /\ InOrder(rightRecvQueue[u], cntS[u], SentS(u + 1)')
          /\ \A n \in DOMAIN rightRecvQueue[u] : ~rightRecvQueue[u][n].ack
    BY <1>1, <1>2 DEF LineInv
  <2> QED
    BY <1>1, <2>2, <2>3 DEF LineInv, InOrder
<1>5. AckInv'
  <2>1. ASSUME NEW u \in Threads, u # 0, NEW n \in DOMAIN leftRecvQueue'[u], leftRecvQueue'[u][n].ack
        PROVE  leftRecvQueue'[u][n].pos < cntS[u - 1]
    <3>1. CASE n \in DOMAIN leftRecvQueue[u]
      <4>1. leftRecvQueue'[u][n] = leftRecvQueue[u][n]
        BY <1>1, <3>1, GrowFacts
      <4> QED
        BY <2>1, <3>1, <4>1 DEF AckInv
    <3>2. CASE n \notin DOMAIN leftRecvQueue[u]
      <4>1. u = t + 1 /\ leftRecvQueue'[u][n] = m
        BY <1>1, <3>2, GrowFacts
      <4>2. u - 1 = t /\ t # 0 /\ m.pos < cntS[t - 1] /\ t - 1 \in Threads /\ t - 1 <= t
        <5>1. t # 0 /\ m.pos < cntS[t - 1]
          BY <1>1, <2>1, <4>1
        <5> QED
          BY <4>1, <5>1, Line
      <4>3. cntS[t - 1] <= cntS[t] /\ cntS[t - 1] \in Nat /\ cntS[t] \in Nat /\ m.pos \in Nat
        BY <4>2, Seen, Sent, Messages
      <4> QED
        BY <4>1, <4>2, <4>3
    <3> QED
      BY <3>1, <3>2
  <2>2. \A u \in Threads : CarriesAck(u)' => u # 0 /\ Head(fetchR[u]).pos < cntS[u - 1]
    BY <1>1 DEF AckInv
  <2> QED
    BY <1>1, <2>1, <2>2 DEF AckInv
<1> QED
  BY <1>3, <1>4, <1>5

LEMMA HandsOnWin ==
  ASSUME IInv, NEW t \in Threads, NEW m \in Msgs, HandsOn(t, m)
  PROVE  WinInv' /\ OutInv'
<1> USE DEF IInv
<1>1. /\ Grows(t, m) /\ t # last
      /\ UNCHANGED <<joiner, pastKey, cntR, cntS, winS, out>>
      /\ m.ack => ~Carries(t) /\ winR' = winR
      /\ ~m.ack => cntR[t] = SentR(t) + 1 /\ CleanR(t, SentR(t))
      /\ \A u \in Threads, k \in PosR : Holds(u, k)' <=> Holds(u, k) /\ u # t
  BY HandsOnFacts
<1>2. ASSUME NEW u \in Threads, NEW k \in PosR PROVE winR'[u][k] = IF Holds(u, k)' THEN 1 ELSE 0
  <2>1. winR[u][k] = IF Holds(u, k) THEN 1 ELSE 0
    BY DEF WinInv
  <2>2. CASE m.ack
    BY <1>1, <2>1, <2>2 DEF Holds
  <2>3. CASE ~m.ack
    <3>1. winR'[u][k] = IF u = t /\ (k = SentR(t) \/ (joiner = "SHJ" /\ kR(k) = kR(SentR(t)))) THEN 0 ELSE winR[u][k]
      BY <1>1, <2>3 DEF CleanR, TypeOK
    <3>2. u = t /\ Holds(u, k) => k = SentR(t)
      BY <1>1, <2>3, Sent DEF Holds
    <3> QED
      BY <1>1, <2>1, <3>1, <3>2
  <2> QED
    BY <2>2, <2>3
<1>3. ASSUME NEW u \in Threads, u # 0 PROVE DroppedAfter(u)'
  <2>1. \A v \in Threads : \A n \in DOMAIN leftRecvQueue[v] :
          n \in DOMAIN leftRecvQueue'[v] /\ leftRecvQueue'[v][n] = leftRecvQueue[v][n]
    BY <1>1, GrowFacts
  <2> SUFFICES ASSUME NEW j \in PosS, j < cntS[u - 1], winS[u][j] = 1
               PROVE  \E n \in DOMAIN leftRecvQueue'[u] : leftRecvQueue'[u][n] = Ack(j)
    BY <1>1 DEF DroppedAfter
  <2>2. PICK n \in DOMAIN leftRecvQueue[u] : leftRecvQueue[u][n] = Ack(j)
    BY <1>3 DEF WinInv, DroppedAfter
  <2> QED
    BY <2>1, <2>2
<1>4. \A u \in Threads : KeptUntilSeen(u)'
  BY <1>1 DEF WinInv, KeptUntilSeen, CleanExact
<1>5. WinInv'
  BY <1>1, <1>2, <1>3, <1>4 DEF WinInv
<1>6. OutInv'
  BY <1>1 DEF OutInv, kR, kS
<1> QED
  BY <1>5, <1>6

LEMMA HandsOnMeets ==
  ASSUME IInv, NEW t \in Threads, NEW m \in Msgs, HandsOn(t, m)
  PROVE  MeetInv'
<1> USE DEF IInv
<1>1. /\ Grows(t, m) /\ t # last /\ t + 1 \in Threads
      /\ UNCHANGED <<joiner, pastKey, cntR, cntS, winS, out>>
      /\ ~m.ack => m = Tuple(SentR(t)) /\ cntR[t] = SentR(t) + 1 /\ Carries(t) /\ SentR(t) \in PosR
      /\ \A u \in Threads, k \in PosR : Holds(u, k)' <=> Holds(u, k) /\ u # t
  BY HandsOnFacts
<1>2. \A k, j : (Met(k, j)' <=> Met(k, j)) /\ (Awaited(k, j)' <=> Awaited(k, j))
  BY <1>1 DEF Met, Awaited, CleanExact
<1>3. /\ \A u \in Threads : \A n \in DOMAIN leftRecvQueue[u] :
           n \in DOMAIN leftRecvQueue'[u] /\ leftRecvQueue'[u][n] = leftRecvQueue[u][n]
      /\ \A u \in Threads : \A n \in DOMAIN leftRecvQueue'[u] :
           /\ n \in Nat
           /\ n \notin DOMAIN leftRecvQueue[u] => /\ t # last /\ u = t + 1 /\ leftRecvQueue'[u][n] = m
                                                  /\ \A k \in DOMAIN leftRecvQueue[u] : k < n
  BY <1>1, GrowFacts
<1>4. ASSUME NEW u \in Threads, u # 0, NEW n \in DOMAIN leftRecvQueue[u], ~leftRecvQueue'[u][n].ack
      PROVE  MetBefore(u, n)' /\ StillToMeet(u, n)'
  <2>1. leftRecvQueue'[u][n] = leftRecvQueue[u][n]
    BY <1>3
  <2>2. MetBefore(u, n) /\ StillToMeet(u, n)
    BY <1>4, <2>1 DEF MeetInv
  <2>3. PICK i : i = leftRecvQueue[u][n].pos
    OBVIOUS
  <2>4. ASSUME NEW j \in PosS, Met(i, j)', winS[u][j] = 1
        PROVE  \E k \in DOMAIN leftRecvQueue'[u] : k < n /\ leftRecvQueue'[u][k] = Ack(j)
    <3>1. Met(i, j)
      BY <1>2, <2>4
    <3>2. PICK k \in DOMAIN leftRecvQueue[u] : k < n /\ leftRecvQueue[u][k] = Ack(j)
      BY <2>2, <2>3, <2>4, <3>1 DEF MetBefore
    <3> QED
      BY <1>3, <3>2
  <2>5. ASSUME NEW j \in SIdx, Awaited(i, j)'
        PROVE  /\ \A k \in DOMAIN leftRecvQueue'[u] :
                    k < n /\ leftRecvQueue'[u][k].ack => leftRecvQueue'[u][k].pos < j
               /\ j < cntS[u] => winS[u][j] = 1
    <3>1. /\ \A k \in DOMAIN leftRecvQueue[u] :
               k < n /\ leftRecvQueue[u][k].ack => leftRecvQueue[u][k].pos < j
          /\ j < cntS[u] => winS[u][j] = 1
      BY <1>2, <2>2, <2>3, <2>5 DEF StillToMeet
    <3>2. ASSUME NEW k \in DOMAIN leftRecvQueue'[u], k < n PROVE k \in DOMAIN leftRecvQueue[u]
      <4>1. n \in Nat /\ k \in Nat
        BY <1>3
      <4> QED
        BY <1>3, <3>2, <4>1
    <3> QED
      BY <1>3, <3>1, <3>2
  <2>6. MetBefore(u, n)'
    BY <1>1, <2>1, <2>3, <2>4 DEF MetBefore
  <2>7. StillToMeet(u, n)'
    BY <1>1, <2>1, <2>3, <2>5 DEF StillToMeet
  <2> QED
    BY <2>6, <2>7
(* The tuple handed on: t has acknowledged what the tuple has met, and not  *)
(* seen what it has still to meet.                                          *)
<1>5. ASSUME NEW n \in DOMAIN leftRecvQueue'[t + 1], n \notin DOMAIN leftRecvQueue[t + 1],
             ~leftRecvQueue'[t + 1][n].ack
      PROVE  MetBefore(t + 1, n)' /\ StillToMeet(t + 1, n)'
  <2>1. PICK i : i = SentR(t)
    OBVIOUS
  <2>2. /\ leftRecvQueue'[t + 1][n] = m /\ n \in Nat
        /\ \A k \in DOMAIN leftRecvQueue[t + 1] : k < n
    BY <1>1, <1>3, <1>5
  <2>3. /\ m = Tuple(i) /\ i \in PosR /\ i \in Nat /\ cntR[t] = i + 1 /\ Carries(t)
        /\ leftRecvQueue'[t + 1][n].pos = i /\ Holds(t, i)
    BY <1>1, <1>5, <2>1, <2>2, Messages, Positions DEF Holds
  <2>4. t + 1 # 0 /\ (t + 1) - 1 = t
    BY Line
  <2>5. ASSUME NEW j \in PosS, Met(i, j)', winS[t + 1][j] = 1
        PROVE  \E k \in DOMAIN leftRecvQueue'[t + 1] : k < n /\ leftRecvQueue'[t + 1][k] = Ack(j)
    <3>1. Met(i, j)
      BY <1>2, <2>5
    <3>2. PICK v \in Threads : i < cntR[v] /\ j < cntS[v]
      BY <2>3, <3>1, MetSeen
    <3>3. cntR[v] \in Nat /\ cntS[v] \in Nat /\ cntS[t] \in Nat /\ j \in Nat
      BY Sent, Positions
    <3>4. v <= t
      <4>1. ~(t < v)
        BY <2>1, <2>3, <3>2, <3>3 DEF CountInv
      <4> QED
        BY <4>1, Line
    <3>5. j < cntS[t]
      <4>1. cntS[v] <= cntS[t]
        BY <3>4, Seen
      <4> QED
        BY <3>2, <3>3, <4>1
    <3>6. DroppedAfter(t + 1)
      BY <1>1, <2>4 DEF WinInv
    <3>7. PICK k \in DOMAIN leftRecvQueue[t + 1] : leftRecvQueue[t + 1][k] = Ack(j)
      BY <2>4, <2>5, <3>5, <3>6 DEF DroppedAfter
    <3> QED
      BY <1>1, <1>3, <2>2, <3>7
  <2>6. ASSUME NEW j \in SIdx, Awaited(i, j)'
        PROVE  /\ \A k \in DOMAIN leftRecvQueue'[t + 1] :
                    k < n /\ leftRecvQueue'[t + 1][k].ack => leftRecvQueue'[t + 1][k].pos < j
               /\ j < cntS[t + 1] => winS[t + 1][j] = 1
    <3>1. Awaited(i, j) /\ j \in Nat /\ i \in RIdx
      BY <1>2, <2>6, Positions DEF Awaited
    <3>2. cntS[t] <= j /\ cntS[t] \in Nat
      BY <2>3, <3>1, Sent DEF MeetInv
    <3>3. ASSUME NEW k \in DOMAIN leftRecvQueue'[t + 1], leftRecvQueue'[t + 1][k].ack
          PROVE  leftRecvQueue'[t + 1][k].pos < j
      <4>1. k \in DOMAIN leftRecvQueue[t + 1] /\ leftRecvQueue'[t + 1][k] = leftRecvQueue[t + 1][k]
        BY <1>1, <1>3, <1>5, <2>2, <3>3
      <4>2. leftRecvQueue[t + 1][k] \in Msgs
        BY <1>1, <4>1 DEF TypeOK
      <4>3. leftRecvQueue[t + 1][k].pos < cntS[t] /\ leftRecvQueue[t + 1][k].pos \in Nat
        BY <1>1, <2>4, <3>3, <4>1, <4>2, Messages DEF AckInv
      <4> QED
        BY <3>1, <3>2, <4>1, <4>3
    <3>4. KeptUntilSeen(t + 1) /\ CleanExact(j)
      BY <1>1, <3>1 DEF WinInv, Awaited
    <3>5. j < cntS[t + 1] => winS[t + 1][j] = 1
      BY <2>4, <3>2, <3>4 DEF KeptUntilSeen
    <3> QED
      BY <3>3, <3>5
  <2>7. MetBefore(t + 1, n)'
    BY <1>1, <2>3, <2>5 DEF MetBefore
  <2>8. StillToMeet(t + 1, n)'
    BY <1>1, <2>3, <2>6 DEF StillToMeet
  <2> QED
    BY <2>7, <2>8
<1>6. ASSUME NEW u \in Threads, u # 0, NEW n \in DOMAIN leftRecvQueue'[u], ~leftRecvQueue'[u][n].ack
      PROVE  MetBefore(u, n)' /\ StillToMeet(u, n)'
  <2>1. CASE n \in DOMAIN leftRecvQueue[u]
    BY <1>4, <1>6, <2>1
  <2>2. CASE n \notin DOMAIN leftRecvQueue[u]
    <3>1. u = t + 1
      BY <1>3, <2>2
    <3> QED
      BY <1>5, <1>6, <2>2, <3>1
  <2> QED
    BY <2>1, <2>2
<1>7. \A u \in Threads, i \in RIdx, j \in SIdx : Holds(u, i)' /\ Awaited(i, j)' => cntS[u] <= j
  BY <1>1, <1>2, Positions DEF MeetInv
<1> QED
  BY <1>1, <1>6, <1>7 DEF MeetInv

LEMMA ForwardRInv ==
  ASSUME IInv, NEW t \in Threads, ForwardR(t)
  PROVE  IInv'
<1>1. CASE \E m \in Msgs : HandsOn(t, m)
  BY <1>1, HandsOnFacts, HandsOnLine, HandsOnWin, HandsOnMeets DEF IInv
<1> QED
  BY <1>1, ForwardRSteps

------------------------------------------------------------------------------
LEMMA StepInv == IInv /\ [Next]_vars => IInv'
<1> SUFFICES ASSUME IInv, [Next]_vars PROVE IInv'
  OBVIOUS
<1>1. CASE UNCHANGED vars
  <2>1. UNCHANGED <<joiner, pastKey, pc, idxR, idxS, cntR, cntS, leftRecvQueue, rightRecvQueue,
                    fetchR, fetchS, winR, winS, out>>
    BY <1>1 DEF vars
  <2>2. TypeOK'
    BY <2>1 DEF IInv, TypeOK
  <2>3. \A t \in Threads : /\ Carries(t)' <=> Carries(t)
                           /\ CarriesAck(t)' <=> CarriesAck(t)
                           /\ CarriesS(t)' <=> CarriesS(t)
    BY <2>1 DEF Carries, CarriesAck, CarriesS
  <2> QED
    BY <2>1, <2>2, <2>3, QuietStep DEF queueVars
<1>2. ASSUME NEW t \in Threads, ThreadStep(t) PROVE IInv'
  <2>1. CASE Arrive(t) \/ Start(t) \/ Exit(t) \/ NoLeft(t) \/ NoRight(t)
    BY <2>1, IdleSteps
  <2>2. CASE PullLeft(t) \/ ReadR(t)
    BY <2>2, LeftInv
  <2>3. CASE PullRight(t) \/ ReadS(t)
    BY <2>3, RightInv
  <2>4. CASE ForwardS(t)
    BY <2>4, ForwardSInv
  <2>5. CASE ForwardR(t)
    BY <2>5, ForwardRInv
  <2> QED
    BY <1>2, <2>1, <2>2, <2>3, <2>4, <2>5 DEF ThreadStep
<1> QED
  BY <1>1, <1>2 DEF Next, Terminated

(* Where every tuple and acknowledgement of THREAD_TASK_SHUFFLE_HS can be,  *)
(* for lines of every length, relations of every size, any keys and both    *)
(* joiners.                                                                 *)
THEOREM HandshakeInvariant == SafeSpec => []IInv
  BY InitInv, StepInv, PTL DEF SafeSpec

LEMMA InvMetOnce == IInv => MetOnce
<1> SUFFICES ASSUME IInv, NEW i \in PosR, NEW j \in PosS
             PROVE  /\ \A t \in Counted(i, j) : kR(i) = kS(j) /\ out[t][i][j] = 1
                    /\ \A t, u \in Counted(i, j) : t = u
  BY DEF MetOnce
<1>1. \A t \in Counted(i, j) : t \in Threads /\ out[t][i][j] # 0
  BY DEF Counted
<1> QED
  BY <1>1 DEF IInv, OutInv

(* processLeft and processRight count a pair of matching tuples in at most  *)
(* one thread and at most once, and no other pair; the tuples read behind   *)
(* the relations are no exception.                                          *)
THEOREM HandshakeMetOnce == SafeSpec => []MetOnce
  BY HandshakeInvariant, InvMetOnce, PTL

LEMMA InvAwaitedKept == IInv => AwaitedKept
<1> SUFFICES ASSUME IInv, NEW i \in RIdx, NEW j \in SIdx,
                    Matching(i, j), CleanExact(j), Counted(i, j) = {}
             PROVE  /\ NotYetSeen(i) = {} => \A t \in Threads : cntS[t] <= j
                    /\ \A t \in NotYetSeen(i) :
                         (\A u \in NotYetSeen(i) : t <= u) /\ cntS[t] > j => winS[t][j] = 1
  BY DEF AwaitedKept
<1> USE DEF IInv
<1>1. i \in PosR /\ j \in PosS /\ i \in Nat /\ j \in Nat
  BY Positions
<1>2. \A t \in Threads : out[t][i][j] = 0
  BY <1>1 DEF Counted, TypeOK
<1>3. Awaited(i, j)
  BY <1>2 DEF Awaited, Met
<1>4. ASSUME NEW t \in Threads, NotYetSeen(i) = {} PROVE cntS[t] <= j
  <2>1. last \in Threads /\ t <= last
    BY Line
  <2>2. i < cntR[last]
    BY <1>1, <1>4, <2>1, Sent DEF NotYetSeen
  <2>3. cntS[last] <= j
    BY <1>3, <2>1, <2>2 DEF MeetInv, Holds
  <2>4. cntS[t] <= cntS[last] /\ cntS[t] \in Nat /\ cntS[last] \in Nat
    BY <2>1, Seen, Sent
  <2> QED
    BY <1>1, <2>3, <2>4
<1>5. ASSUME NEW t \in NotYetSeen(i), \A u \in NotYetSeen(i) : t <= u, cntS[t] > j
      PROVE  winS[t][j] = 1
  <2>1. t \in Threads /\ cntR[t] <= i /\ cntR[t] \in Nat /\ cntS[t] \in Nat /\ j < cntS[t]
    BY <1>1, <1>5, Sent DEF NotYetSeen
  <2>2. CASE t = 0
    BY <2>1, <2>2 DEF WinInv, KeptUntilSeen
  <2>3. CASE t # 0
    <3>1. t - 1 \in Threads /\ t - 1 # last /\ t \in Nat
      BY <2>1, <2>3, Line
    <3>2. cntR[t - 1] \in Nat /\ SentR(t - 1) \in Nat
      BY <3>1, Sent
    <3>3. i < cntR[t - 1]
      <4>1. t - 1 \notin NotYetSeen(i)
        BY <1>5, <3>1
      <4> QED
        BY <1>1, <3>1, <3>2, <4>1 DEF NotYetSeen
    (* on its way to t *)
    <3>4. CASE i < SentR(t - 1)
      <4>1. i \in cntR[t] .. SentR(t - 1) - 1
        BY <1>1, <2>1, <3>2, <3>4
      <4>2. InOrder(leftRecvQueue[t], cntR[t], SentR(t - 1))
        BY <2>1, <2>3 DEF LineInv
      <4>3. PICK n \in DOMAIN leftRecvQueue[t] : leftRecvQueue[t][n] = Tuple(i)
        BY <4>1, <4>2 DEF InOrder
      <4>4. leftRecvQueue[t][n].pos = i /\ ~leftRecvQueue[t][n].ack
        BY <4>3, Messages
      <4>5. StillToMeet(t, n)
        BY <2>1, <2>3, <4>4 DEF MeetInv
      <4> QED
        BY <1>3, <2>1, <4>4, <4>5 DEF StillToMeet
    (* in the hands of t's left neighbour *)
    <3>5. CASE ~(i < SentR(t - 1))
      <4>1. Carries(t - 1) /\ i = cntR[t - 1] - 1
        BY <1>1, <3>2, <3>3, <3>5 DEF SentR
      <4>2. cntS[t - 1] <= j
        BY <1>3, <3>1, <4>1 DEF MeetInv, Holds
      <4> QED
        BY <2>1, <2>3, <4>2 DEF WinInv, KeptUntilSeen
    <3> QED
      BY <3>4, <3>5
  <2> QED
    BY <2>2, <2>3
<1> QED
  BY <1>4, <1>5

(* The acknowledgements of processRight and the order of leftRecvQueue let  *)
(* no two tuples of one key pass each other, unless debuild_hashtable_single *)
(* has removed the S tuple for another one with its key.                    *)
THEOREM HandshakeAwaited == SafeSpec => []AwaitedKept
  BY HandshakeInvariant, InvAwaitedKept, PTL

------------------------------------------------------------------------------
(* The refinement of JoinSpec.  A thread ends when it has seen both         *)
(* relations, so with exact cleaning nothing is awaited any more.           *)
EndInv == \A t \in Threads :
  pc[t] \in {"atEnd", "exited"} => numR <= cntR[t] /\ numS <= cntS[t]

LEMMA EndStep == IInv /\ EndInv /\ [Next]_vars => EndInv'
<1> SUFFICES ASSUME IInv, EndInv, [Next]_vars PROVE EndInv'
  OBVIOUS
<1> USE DEF IInv
<1>0. pc \in [Threads -> PCs] /\ \A t \in Threads : cntR[t] \in Nat /\ cntS[t] \in Nat
  BY Sent DEF TypeOK
<1>1. CASE UNCHANGED vars
  BY <1>1 DEF vars, EndInv
<1>2. ASSUME NEW t \in Threads, ThreadStep(t) PROVE EndInv'
  <2>1. CASE Arrive(t) \/ Start(t) \/ Exit(t)
    BY <1>0, <2>1 DEF Arrive, Start, Exit, Goto, joinVars, EndInv
  <2>2. CASE NoLeft(t) \/ NoRight(t) \/ ForwardS(t)
    BY <1>0, <2>2 DEF NoLeft, NoRight, ForwardS, Goto, joinVars, EndInv
  <2>3. CASE PullLeft(t) \/ ReadR(t)
    <3>1. /\ pc' = [pc EXCEPT ![t] = "right"] /\ cntS' = cntS
          /\ \A u \in Threads : u # t => cntR'[u] = cntR[u]
      BY <2>3 DEF PullLeft, ReadR, processLeft, Goto, TypeOK
    <3> QED
      BY <1>0, <3>1 DEF EndInv
  <2>4. CASE PullRight(t) \/ ReadS(t)
    <3>1. /\ pc' = [pc EXCEPT ![t] = "forwardS"] /\ cntR' = cntR
          /\ \A u \in Threads : u # t => cntS'[u] = cntS[u]
      BY <2>4 DEF PullRight, ReadS, Goto, TypeOK
    <3> QED
      BY <1>0, <3>1 DEF EndInv
  <2>5. CASE ForwardR(t)
    <3>1. UNCHANGED <<cntR, cntS>> /\ LoopTest(t)
      BY <2>5 DEF ForwardR
    <3>2. \A u \in Threads : u # t => pc'[u] = pc[u]
      BY <1>0, <3>1 DEF LoopTest, Goto
    <3>3. pc'[t] \in {"atEnd", "exited"} => ~(cntR[t] < numR \/ cntS[t] < numS)
      BY <1>0, <3>1 DEF LoopTest, Goto
    <3> QED
      BY <1>0, <3>1, <3>2, <3>3, Sizes DEF EndInv
  <2> QED
    BY <1>2, <2>1, <2>2, <2>3, <2>4, <2>5 DEF ThreadStep
<1> QED
  BY <1>1, <1>2 DEF Next, Terminated

LEMMA InputKept == [Next]_vars => UNCHANGED <<joiner, pastKey>>
  BY DEF Next, Terminated, vars, ThreadStep, Arrive, Start, Exit, NoLeft, NoRight, PullLeft, ReadR,
         PullRight, ReadS, ForwardS, ForwardR, inputVars

FullInv == IInv /\ EndInv /\ ExactCleaning

LEMMA FullStep == FullInv /\ [Next]_vars => FullInv'
<1>1. ExactCleaning /\ UNCHANGED joiner => ExactCleaning'
  BY DEF ExactCleaning, CleanExact
<1> QED
  BY <1>1, StepInv, EndStep, InputKept DEF FullInv

LEMMA PastKept == PastHarmless /\ [Next]_vars => PastHarmless'
  BY InputKept DEF PastHarmless

LEMMA FullInit == Init /\ ExactCleaning => FullInv
<1>1. Init => EndInv
  BY DEF Init, EndInv
<1> QED
  BY <1>1, InitInv DEF FullInv

LEMMA HSCountedOnce == IInv => CountedOnce(out)
<1> SUFFICES ASSUME IInv, NEW t \in Threads, NEW i \in RIdx, NEW j \in SIdx, out[t][i][j] > 0
             PROVE  /\ Matching(i, j) /\ out[t][i][j] = 1
                    /\ \A u \in Threads \ {t} : out[u][i][j] = 0
  BY DEF CountedOnce
<1>1. i \in PosR /\ j \in PosS /\ kR(i) = KeyR[i] /\ kS(j) = KeyS[j] /\ out[t][i][j] # 0
  BY Positions DEF kR, kS
<1>2. out[t][i][j] = 1 /\ kR(i) = kS(j)
  BY <1>1 DEF IInv, OutInv
<1>3. \A u \in Threads : out[u][i][j] # 0 => u = t
  BY <1>1 DEF IInv, OutInv
<1> QED
  BY <1>1, <1>2, <1>3 DEF Matching

LEMMA HSCountedAll == FullInv /\ AllExited => CountedAll(out)
<1> SUFFICES ASSUME FullInv, AllExited, NEW i \in RIdx, NEW j \in SIdx, Matching(i, j)
             PROVE  \E t \in Threads : out[t][i][j] = 1
  BY DEF CountedAll
<1> USE DEF FullInv
<1>1. AwaitedKept /\ CleanExact(j) /\ i \in PosR /\ j \in PosS
  BY InvAwaitedKept, Positions DEF ExactCleaning
<1>2. i \in Nat /\ i < numR /\ j \in Nat /\ j < numS /\ numR \in Nat /\ numS \in Nat
  BY Sizes DEF RIdx, SIdx
<1>3. \A t \in Threads : /\ cntR[t] \in Nat /\ cntS[t] \in Nat
                         /\ numR <= cntR[t] /\ numS <= cntS[t]
  BY Sent DEF AllExited, EndInv, IInv
<1>4. NotYetSeen(i) = {} /\ 0 \in Threads /\ ~(cntS[0] <= j)
  <2>1. 0 \in Threads
    BY Line
  <2>2. \A t \in Threads : ~(cntR[t] <= i) /\ ~(cntS[t] <= j)
    BY <1>2, <1>3
  <2> QED
    BY <2>1, <2>2 DEF NotYetSeen
<1>5. Counted(i, j) # {}
  BY <1>1, <1>4 DEF AwaitedKept
<1>6. PICK t \in Threads : out[t][i][j] > 0
  BY <1>5 DEF Counted
<1> QED
  BY <1>6, HSCountedOnce DEF CountedOnce

LEMMA HSGrows ==
  ASSUME IInv, [Next]_vars, NEW t \in Threads, NEW i \in RIdx, NEW j \in SIdx
  PROVE  out'[t][i][j] >= out[t][i][j]
<1> USE DEF IInv
<1>0. i \in PosR /\ j \in PosS /\ out[t][i][j] \in Nat
  BY Positions DEF TypeOK
<1>1. CASE UNCHANGED out
  BY <1>0, <1>1
<1>2. ASSUME NEW u \in Threads, NEW k, SeesR(u, k) PROVE out'[t][i][j] >= out[t][i][j]
  <2>1. winS[u][j] \in Nat
    BY <1>0 DEF TypeOK
  <2>2. u = t /\ k = i => out[t][i][j] = 0 /\ out'[t][i][j] \in Nat
    BY <1>0, <1>2, <2>1, SeesRMet
  <2>3. ~(u = t /\ k = i) => out'[t][i][j] = out[t][i][j]
    BY <1>0, <1>2, SeesRMet
  <2> QED
    BY <1>0, <2>2, <2>3
<1>3. ASSUME NEW u \in Threads, NEW k, SeesS(u, k) PROVE out'[t][i][j] >= out[t][i][j]
  <2>1. u = t /\ k = j => out[t][i][j] = 0 /\ out'[t][i][j] \in {0, 1}
    <3>1. u = t /\ k = j => out'[t][i][j] \in {0, 1}
      BY <1>0, <1>3, SeesSMet
    <3>2. cntS[u] = k /\ k \in Nat
      BY <1>3, SeesSFacts
    <3>3. out[t][i][j] # 0 => j < cntS[t]
      BY <1>0 DEF OutInv
    <3> QED
      BY <3>1, <3>2, <3>3
  <2>2. ~(u = t /\ k = j) => out'[t][i][j] = out[t][i][j]
    BY <1>0, <1>3, SeesSMet
  <2> QED
    BY <1>0, <2>1, <2>2
<1>4. ASSUME NEW u \in Threads, ThreadStep(u)
      PROVE  UNCHANGED out \/ (\E k : SeesR(u, k)) \/ (\E k : SeesS(u, k))
  <2>1. CASE Arrive(u) \/ Start(u) \/ Exit(u) \/ NoLeft(u) \/ NoRight(u) \/ ForwardS(u) \/ ForwardR(u)
    BY <2>1 DEF Arrive, Start, Exit, NoLeft, NoRight, ForwardS, ForwardR, joinVars
  <2>2. CASE PullLeft(u) /\ Head(leftRecvQueue[u]).ack
    BY <2>2 DEF PullLeft, processLeft
  <2>3. CASE PullLeft(u) /\ ~Head(leftRecvQueue[u]).ack
    BY <2>3, LeftSteps
  <2>4. CASE ReadR(u)
    BY <2>4, LeftSteps
  <2>5. CASE PullRight(u) \/ ReadS(u)
    BY <2>5, RightSteps
  <2> QED
    BY <1>4, <2>1, <2>2, <2>3, <2>4, <2>5 DEF ThreadStep
<1> QED
  BY <1>1, <1>2, <1>3, <1>4 DEF Next, Terminated, vars

(* No step of a thread that has exited, and the last to exit counts nothing. *)
LEMMA HSExits ==
  ASSUME IInv, [Next]_vars
  PROVE  /\ AllExited => AllExited' /\ UNCHANGED out
         /\ ~AllExited /\ AllExited' => UNCHANGED out
<1>0. pc \in [Threads -> PCs]
  BY DEF IInv, TypeOK
<1>1. ASSUME NEW t \in Threads, ThreadStep(t)
      PROVE  pc[t] # "exited" /\ (UNCHANGED out \/ pc'[t] # "exited")
  <2>1. CASE PullLeft(t) \/ ReadR(t) \/ PullRight(t) \/ ReadS(t)
    BY <1>0, <2>1 DEF PullLeft, ReadR, PullRight, ReadS, Goto
  <2>2. CASE Arrive(t) \/ Start(t) \/ Exit(t) \/ NoLeft(t) \/ NoRight(t) \/ ForwardS(t) \/ ForwardR(t)
    BY <2>2 DEF Arrive, Start, Exit, NoLeft, NoRight, ForwardS, ForwardR, joinVars
  <2> QED
    BY <1>1, <2>1, <2>2 DEF ThreadStep
<1>2. CASE UNCHANGED vars
  BY <1>2 DEF AllExited, vars
<1>3. CASE \E t \in Threads : ThreadStep(t)
  BY <1>1, <1>3 DEF AllExited
<1> QED
  BY <1>2, <1>3 DEF Next, Terminated

(* What is read behind the relations is counted with nothing if its key     *)
(* matches nothing, so totalresults has the pairs of the relations only.    *)
LEMMA HSNoPast ==
  ASSUME IInv, PastHarmless, NEW i \in PosR, NEW j \in PosS, ~(i \in RIdx /\ j \in SIdx),
         NEW t \in Threads
  PROVE  out[t][i][j] = 0
<1>1. SUFFICES kR(i) # kS(j)
  BY DEF IInv, OutInv
<1>2. /\ (i \in RIdx /\ kR(i) = KeyR[i]) \/ kR(i) = pastKey.R
      /\ (j \in SIdx /\ kS(j) = KeyS[j]) \/ kS(j) = pastKey.S
  BY Sizes DEF PosR, PosS, RIdx, SIdx, kR, kS
<1> QED
  BY <1>2 DEF PastHarmless

Extended(f) == [p \in ReadPairs |-> IF p \in Pairs THEN f[p] ELSE 0]

LEMMA HSProducedRead == IInv /\ PastHarmless => ProducedRead = Extended(Produced(out))
<1> SUFFICES ASSUME IInv, PastHarmless, NEW p \in ReadPairs
             PROVE  ProducedRead[p] = Extended(Produced(out))[p]
  BY DEF ProducedRead, Extended
<1> DEFINE f == [t \in Threads |-> out[t][p[1]][p[2]]]
<1>1. ProducedRead[p] = Total(f)
  BY DEF ProducedRead
<1>2. p \in Pairs => Produced(out)[p] = Total(f)
  BY DEF Produced
<1>3. p \notin Pairs => Total(f) = 0
  <2> SUFFICES ASSUME p \notin Pairs PROVE Total(f) = 0
    OBVIOUS
  <2>1. p[1] \in PosR /\ p[2] \in PosS /\ ~(p[1] \in RIdx /\ p[2] \in SIdx)
    BY DEF ReadPairs, Pairs
  <2>2. \A t \in Threads : f[t] = 0
    BY <2>1, HSNoPast
  <2>3. 0 \in Threads /\ IsFiniteSet(Threads)
    BY Line, JoinAssumption, FS_Interval DEF Threads
  <2>4. f = [t \in Threads |-> f[t]]
    OBVIOUS
  <2> HIDE DEF f
  <2>5. f \in [Threads -> Nat]
    BY <2>2, <2>4
  <2> QED
    BY <2>2, <2>3, <2>5, SumOfOne
<1> HIDE DEF f
<1> QED
  BY <1>1, <1>2, <1>3 DEF Extended

LEMMA ExtendedGrows ==
  ASSUME NEW a, NEW c, Grown(a, c)
  PROVE  LET P == {p \in Equal : Extended(a)[p] = 0 /\ Extended(c)[p] = 1}
         IN  Extended(c) = [p \in ReadPairs |-> IF p \in P THEN 1 ELSE Extended(a)[p]]
<1>1. Equal \subseteq Pairs /\ Pairs \subseteq ReadPairs
  BY Positions DEF Equal, Pairs, ReadPairs
<1>2. \A p \in Equal : Extended(a)[p] = a[p] /\ Extended(c)[p] = c[p]
  BY <1>1 DEF Extended
<1>3. \A p \in Pairs : c[p] = IF p \in Equal /\ a[p] = 0 /\ c[p] = 1 THEN 1 ELSE a[p]
  BY DEF Grown
<1>4. ASSUME NEW p \in ReadPairs
      PROVE  Extended(c)[p] = IF p \in Equal /\ Extended(a)[p] = 0 /\ Extended(c)[p] = 1
                              THEN 1 ELSE Extended(a)[p]
  BY <1>1, <1>2, <1>3 DEF Extended
<1>5. Extended(c) = [p \in ReadPairs |-> Extended(c)[p]]
  BY DEF Extended
<1> QED
  BY <1>4, <1>5

LEMMA HSJoinStep ==
  ASSUME FullInv, FullInv', PastHarmless, [Next]_vars
  PROVE  [J!JoinNext]_J!joinVars
<1>1. Counting(out) /\ Counting(out')
  <2>1. RIdx \subseteq PosR /\ SIdx \subseteq PosS
    BY Positions
  <2>2. out \in [Threads -> [PosR -> [PosS -> Nat]]] /\ out' \in [Threads -> [PosR -> [PosS -> Nat]]]
    BY DEF FullInv, IInv, TypeOK
  <2> QED
    BY <2>1, <2>2 DEF Counting
<1>2. CountedOnce(out)
  BY HSCountedOnce DEF FullInv
<1>3. CountedOnce(out')
  <2>1. (IInv => CountedOnce(out))'
    BY HSCountedOnce, PTL
  <2> QED
    BY <2>1 DEF CountedOnce, FullInv
<1>4. /\ AllExited => AllExited' /\ UNCHANGED out
      /\ ~AllExited /\ AllExited' => UNCHANGED out
  BY HSExits DEF FullInv
<1>5. ProducedRead = Extended(Produced(out)) /\ ProducedRead' = Extended(Produced(out'))
  <2>1. (IInv /\ PastHarmless => ProducedRead = Extended(Produced(out)))'
    BY HSProducedRead, PTL
  <2>2. Extended(Produced(out))' = Extended(Produced(out'))
    BY DEF Extended, Produced
  <2> QED
    BY <2>1, <2>2, HSProducedRead, PastKept DEF FullInv
<1>6. CASE AllExited
  <2>1. UNCHANGED out /\ AllExited /\ AllExited'
    BY <1>4, <1>6
  <2> QED
    BY <2>1, <1>5 DEF J!joinVars, AllExited
<1>7. CASE ~AllExited /\ AllExited'
  <2>1. UNCHANGED out
    BY <1>4, <1>7
  <2>2. (FullInv /\ AllExited => CountedAll(out))'
    BY HSCountedAll, PTL
  <2>3. CountedAll(out)
    BY <1>7, <2>1, <2>2 DEF CountedAll
  <2>4. \A p \in Equal : ProducedRead[p] = 1
    <3>1. \A p \in Equal : Produced(out)[p] = 1
      BY <1>1, <1>2, <2>3, ProducedAll
    <3>2. Equal \subseteq Pairs /\ Pairs \subseteq ReadPairs
      BY Positions DEF Equal, Pairs, ReadPairs
    <3> QED
      BY <1>5, <3>1, <3>2 DEF Extended
  <2>5. UNCHANGED ProducedRead
    BY <1>5, <2>1
  <2>6. J!Complete
    BY <1>7, <2>4, <2>5 DEF J!Complete
  <2> QED
    BY <2>6 DEF J!JoinNext
<1>8. CASE ~AllExited /\ ~AllExited'
  <2>1. ASSUME NEW t \in Threads, NEW i \in RIdx, NEW j \in SIdx, out[t][i][j] = 1
        PROVE  out'[t][i][j] = 1
    <3>1. out'[t][i][j] >= 1 /\ out'[t][i][j] \in Nat
      BY <1>1, <2>1, HSGrows DEF Counting, FullInv
    <3>2. out'[t][i][j] > 0
      BY <3>1
    <3> QED
      BY <3>2, <1>3 DEF CountedOnce
  <2>2. Grown(Produced(out), Produced(out'))
    BY <1>1, <1>2, <1>3, <2>1, ProducedGrows
  <2>3. J!Produce
    <3>1. LET P == {p \in Equal : ProducedRead[p] = 0 /\ ProducedRead'[p] = 1}
          IN  ProducedRead' = [p \in ReadPairs |-> IF p \in P THEN 1 ELSE ProducedRead[p]]
      BY <1>5, <2>2, ExtendedGrows
    <3>2. AllExited' = AllExited
      BY <1>8 DEF AllExited
    <3> QED
      BY <1>8, <3>1, <3>2 DEF J!Produce
  <2> QED
    BY <2>3 DEF J!JoinNext
<1> QED
  BY <1>6, <1>7, <1>8

(* RPJ_HS_NP, and SHJ_HS_NP if the keys of S are unique, implement the      *)
(* join, for every number of threads and every length of the relations, if  *)
(* the keys that HS_NP_Fetcher reads behind the relations match nothing.    *)
THEOREM HandshakeImplements == SafeSpec /\ ExactCleaning => ImplementsJoin
<1>1. Init /\ PastHarmless => J!JoinInit
  <2> SUFFICES ASSUME Init, PastHarmless PROVE J!JoinInit
    OBVIOUS
  <2>1. Counting(out) /\ \A t \in Threads, i \in RIdx, j \in SIdx : out[t][i][j] = 0
    BY Positions DEF Init, Counting
  <2>2. Produced(out) = [p \in Pairs |-> 0]
    BY <2>1, ProducedNone
  <2>3. ProducedRead = [p \in ReadPairs |-> 0]
    BY <2>2, InitInv, HSProducedRead DEF Extended
  <2>4. ~AllExited
    <3>1. 0 \in Threads
      BY Line
    <3>2. pc[0] # "exited"
      BY <3>1 DEF Init
    <3> QED
      BY <3>1, <3>2 DEF AllExited
  <2> QED
    BY <2>3, <2>4 DEF J!JoinInit
<1>2. FullInv /\ FullInv' /\ [Next]_vars => [PastHarmless => J!JoinNext]_(J!joinVars)
  BY HSJoinStep
<1> QED
  BY <1>1, <1>2, FullInit, FullStep, PTL DEF SafeSpec, ImplementsJoin

(* The same without the condition in every step: the keys behind the        *)
(* relations stay what they are at the start of THREAD_TASK_SHUFFLE_HS.     *)
THEOREM HandshakeRefines == SafeSpec /\ ExactCleaning /\ PastHarmless => J!JoinSafety
<1>1. [PastHarmless => J!JoinNext]_(J!joinVars) /\ PastHarmless => [J!JoinNext]_(J!joinVars)
  OBVIOUS
<1> QED
  BY <1>1, HandshakeImplements, PastKept, PTL DEF SafeSpec, ImplementsJoin, J!JoinSafety
==============================================================================
