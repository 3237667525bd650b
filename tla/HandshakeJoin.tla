---------------------------- MODULE HandshakeJoin ----------------------------
(***************************************************************************)
(* THREAD_TASK_SHUFFLE_HS (hashing/helper/thread_task.cpp) with HSShuffler  *)
(* and HS_NP_Fetcher: the handshake join.  The threads form a line.  Thread *)
(* 0 reads R and hands it on to the right, the last thread reads S and      *)
(* hands it on to the left; every thread joins what passes, with the joiner *)
(* of SHJ_HS_NP (SHJJoiner) or of RPJ_HS_NP (RippleJoiner).  R tuples stay  *)
(* in a thread's R-window for one iteration (in the last thread: for good). *)
(* S tuples stay in the S-window until the left neighbour acknowledges that *)
(* it has them; acknowledgements come in through the same queue as R.       *)
(*                                                                           *)
(* moodycamel::ReaderWriterQueue is external: a FIFO with one producer and   *)
(* one consumer.  A thread's dequeue is seen by nobody else, so it is one    *)
(* step with the local work behind it; every enqueue has a step of its own.  *)
(*                                                                           *)
(* HS_NP_Fetcher reads up to and including num_tuples: the tuple behind the  *)
(* array, at position numR or numS here, may be fetched and joined like any  *)
(* other.  Its key is whatever is in that memory.                            *)
(***************************************************************************)
EXTENDS JoinBase, Sequences

CONSTANT PastKeys      (* the keys the memory behind R and S may hold       *)

(* "threads > 1": with one thread R and S would share a fetcher. *)
ASSUME HandshakeAssumption == nthreads >= 2 /\ PastKeys \subseteq [R : Nat, S : Nat]

last == nthreads - 1
PosR == 0 .. numR
PosS == 0 .. numS

VARIABLES joiner,         (* "SHJ" or "RPJ"                                 *)
          pastKey,        (* the keys behind R and behind S                 *)
          pc,             (* where each thread is                           *)
          idxR, idxS,     (* current_index_R of thread 0, _S of the last    *)
          cntR, cntS,     (* tuples each thread has seen                    *)
          leftRecvQueue,  (* R tuples and acknowledgements for each thread  *)
          rightRecvQueue, (* S tuples for each thread                       *)
          fetchR, fetchS, (* the message of this iteration: <<>> is nullptr *)
          winR, winS,     (* htR, htS of each thread, as bags of positions  *)
          out             (* out[t][i][j]: times t counted the pair (i, j)  *)

vars == <<joiner, pastKey, pc, idxR, idxS, cntR, cntS, leftRecvQueue, rightRecvQueue,
          fetchR, fetchS, winR, winS, out>>

kR(i) == IF i = numR THEN pastKey.R ELSE KeyR[i]
kS(j) == IF j = numS THEN pastKey.S ELSE KeyS[j]

Tuple(p) == [pos |-> p, ack |-> FALSE]
Ack(p)   == [pos |-> p, ack |-> TRUE]

Init == /\ joiner \in {"SHJ", "RPJ"}
        /\ pastKey \in PastKeys
        /\ pc = [t \in Threads |-> "launched"]
        /\ idxR = 0 /\ idxS = 0
        /\ cntR = [t \in Threads |-> 0] /\ cntS = [t \in Threads |-> 0]
        /\ leftRecvQueue = [t \in Threads |-> <<>>]
        /\ rightRecvQueue = [t \in Threads |-> <<>>]
        /\ fetchR = [t \in Threads |-> <<>>] /\ fetchS = [t \in Threads |-> <<>>]
        /\ winR = [t \in Threads |-> [i \in PosR |-> 0]]
        /\ winS = [t \in Threads |-> [j \in PosS |-> 0]]
        /\ out = [t \in Threads |-> [i \in PosR |-> [j \in PosS |-> 0]]]

Goto(t, l) == pc' = [pc EXCEPT ![t] = l]

inputVars == <<joiner, pastKey, idxR, idxS>>
queueVars == <<leftRecvQueue, rightRecvQueue>>
joinVars  == <<cntR, cntS, fetchR, fetchS, winR, winS, out>>

------------------------------------------------------------------------------
(* Both barriers.  Nobody reads *startTS in this join. *)
Arrive(t) == /\ pc[t] = "launched"
             /\ Goto(t, "atStart")
             /\ UNCHANGED <<inputVars, queueVars, joinVars>>

Start(t) == /\ pc[t] = "atStart"
            /\ \A u \in Threads : pc[u] # "launched"
            /\ Goto(t, "left")
            /\ UNCHANGED <<inputVars, queueVars, joinVars>>

Exit(t) == /\ pc[t] = "atEnd"
           /\ \A u \in Threads : pc[u] \in {"atEnd", "exited"}
           /\ Goto(t, "exited")
           /\ UNCHANGED <<inputVars, queueVars, joinVars>>

------------------------------------------------------------------------------
(* joiner->join: build the own window, probe the other one *)
JoinR(t, i) ==
  /\ winR' = [winR EXCEPT ![t][i] = @ + 1]
  /\ out' = [out EXCEPT ![t][i] =
               [j \in PosS |-> @[j] + IF kS(j) = kR(i) THEN winS[t][j] ELSE 0]]
  /\ UNCHANGED winS

JoinS(t, j) ==
  /\ winS' = [winS EXCEPT ![t][j] = @ + 1]
  /\ out' = [out EXCEPT ![t] = [i \in PosR |-> [k \in PosS |->
               @[i][k] + IF k = j /\ kS(j) = kR(i) THEN winR[t][i] ELSE 0]]]
  /\ UNCHANGED winR

(* joiner->clean: debuild_hashtable_single unmakes all tuples with the key, *)
(* RippleJoiner removes the tuple itself.                                   *)
CleanR(t, i) ==
  winR' = [winR EXCEPT ![t] = [k \in PosR |->
             IF k = i \/ (joiner = "SHJ" /\ kR(k) = kR(i)) THEN 0 ELSE @[k]]]
CleanS(t, j) ==
  winS' = [winS EXCEPT ![t] = [k \in PosS |->
             IF k = j \/ (joiner = "SHJ" /\ kS(k) = kS(j)) THEN 0 ELSE @[k]]]

processLeft(t, m) ==
  IF m.ack THEN CleanS(t, m.pos) /\ UNCHANGED <<cntR, winR, out>>
           ELSE JoinR(t, m.pos) /\ cntR' = [cntR EXCEPT ![t] = @ + 1]

PullLeft(t) ==
  /\ pc[t] = "left" /\ t # 0 /\ leftRecvQueue[t] # <<>>
  /\ fetchR' = [fetchR EXCEPT ![t] = <<Head(leftRecvQueue[t])>>]
  /\ leftRecvQueue' = [leftRecvQueue EXCEPT ![t] = Tail(@)]
  /\ processLeft(t, Head(leftRecvQueue[t]))
  /\ Goto(t, "right")
  /\ UNCHANGED <<inputVars, rightRecvQueue, cntS, fetchS>>

(* next_tuple of thread 0: current_index_R <= end_index_R *)
ReadR(t) ==
  /\ pc[t] = "left" /\ t = 0 /\ idxR <= numR
  /\ fetchR' = [fetchR EXCEPT ![t] = <<Tuple(idxR)>>]
  /\ idxR' = idxR + 1
  /\ processLeft(t, Tuple(idxR))
  /\ Goto(t, "right")
  /\ UNCHANGED <<joiner, pastKey, idxS, queueVars, cntS, fetchS>>

NoLeft(t) ==
  /\ pc[t] = "left"
  /\ IF t = 0 THEN idxR > numR ELSE leftRecvQueue[t] = <<>>
  /\ fetchR' = [fetchR EXCEPT ![t] = <<>>]
  /\ Goto(t, "right")
  /\ UNCHANGED <<inputVars, queueVars, cntR, cntS, fetchS, winR, winS, out>>

------------------------------------------------------------------------------
(* slip: no acknowledgement *)
processRightNoAck(t, j) == JoinS(t, j) /\ UNCHANGED leftRecvQueue

(* Join, then acknowledge to the right neighbour: the acknowledgement is    *)
(* ahead of the R tuple of the same iteration.                              *)
processRight(t, j) ==
  /\ JoinS(t, j)
  /\ leftRecvQueue' = IF t = last THEN leftRecvQueue
                      ELSE [leftRecvQueue EXCEPT ![t + 1] = Append(@, Ack(j))]

PullRight(t) ==
  /\ pc[t] = "right" /\ t # last /\ rightRecvQueue[t] # <<>>
  /\ LET m == Head(rightRecvQueue[t]) IN
       /\ fetchS' = [fetchS EXCEPT ![t] = <<m>>]
       /\ processRight(t, m.pos)
  /\ rightRecvQueue' = [rightRecvQueue EXCEPT ![t] = Tail(@)]
  /\ cntS' = [cntS EXCEPT ![t] = @ + 1]
  /\ Goto(t, "forwardS")
  /\ UNCHANGED <<inputVars, cntR, fetchR>>

ReadS(t) ==
  /\ pc[t] = "right" /\ t = last /\ idxS <= numS
  /\ fetchS' = [fetchS EXCEPT ![t] = <<Tuple(idxS)>>]
  /\ idxS' = idxS + 1
  /\ processRight(t, idxS)
  /\ cntS' = [cntS EXCEPT ![t] = @ + 1]
  /\ Goto(t, "forwardS")
  /\ UNCHANGED <<joiner, pastKey, idxR, rightRecvQueue, cntR, fetchR>>

NoRight(t) ==
  /\ pc[t] = "right"
  /\ IF t = last THEN idxS > numS ELSE rightRecvQueue[t] = <<>>
  /\ fetchS' = [fetchS EXCEPT ![t] = <<>>]
  /\ Goto(t, "forwardS")
  /\ UNCHANGED <<inputVars, queueVars, cntR, cntS, fetchR, winR, winS, out>>

------------------------------------------------------------------------------
(* slip: the second thread is taken for the one without a left neighbour *)
ForwardSShort(t) ==
  /\ pc[t] = "forwardS"
  /\ rightRecvQueue' = IF t <= 1 THEN rightRecvQueue
                       ELSE [rightRecvQueue EXCEPT ![t - 1] = @ \o fetchS[t]]
  /\ Goto(t, "forwardR")
  /\ UNCHANGED <<inputVars, leftRecvQueue, joinVars>>

(* slip: a forwarded S tuple leaves the window, as an R tuple does *)
ForwardSCleans(t) ==
  /\ pc[t] = "forwardS"
  /\ rightRecvQueue' = IF t = 0 THEN rightRecvQueue
                       ELSE [rightRecvQueue EXCEPT ![t - 1] = @ \o fetchS[t]]
  /\ IF t # 0 /\ fetchS[t] # <<>> THEN CleanS(t, Head(fetchS[t]).pos) ELSE UNCHANGED winS
  /\ Goto(t, "forwardR")
  /\ UNCHANGED <<inputVars, leftRecvQueue, cntR, cntS, fetchR, fetchS, winR, out>>

(* forward_tuples: S to the left, ... *)
ForwardS(t) ==
  /\ pc[t] = "forwardS"
  /\ rightRecvQueue' = IF t = 0 THEN rightRecvQueue
                       ELSE [rightRecvQueue EXCEPT ![t - 1] = @ \o fetchS[t]]
  /\ Goto(t, "forwardR")
  /\ UNCHANGED <<inputVars, leftRecvQueue, joinVars>>

(* slip: the loop ends with S *)
LoopTestSOnly(t) == Goto(t, IF cntS[t] < numS THEN "left" ELSE "atEnd")

(* while (cntR < sizeR || cntS < sizeS) *)
LoopTest(t) == Goto(t, IF cntR[t] < numR \/ cntS[t] < numS THEN "left" ELSE "atEnd")

(* ... then R, and acknowledgements too, to the right.  What has left the   *)
(* thread leaves its R-window.                                              *)
ForwardR(t) ==
  /\ pc[t] = "forwardR"
  /\ leftRecvQueue' = IF t = last THEN leftRecvQueue
                      ELSE [leftRecvQueue EXCEPT ![t + 1] = @ \o fetchR[t]]
  /\ IF t # last /\ fetchR[t] # <<>> /\ ~Head(fetchR[t]).ack
     THEN CleanR(t, Head(fetchR[t]).pos)
     ELSE UNCHANGED winR
  /\ LoopTest(t)
  /\ UNCHANGED <<inputVars, rightRecvQueue, cntR, cntS, fetchR, fetchS, winS, out>>

AllExited == \A t \in Threads : pc[t] = "exited"

Terminated == AllExited /\ UNCHANGED vars

ThreadStep(t) == \/ Arrive(t) \/ Start(t)
                 \/ PullLeft(t) \/ ReadR(t) \/ NoLeft(t)
                 \/ PullRight(t) \/ ReadS(t) \/ NoRight(t)
                 \/ ForwardS(t) \/ ForwardR(t) \/ Exit(t)

Next == (\E t \in Threads : ThreadStep(t)) \/ Terminated

(* Every thread has its core. *)
Fairness == \A t \in Threads : WF_vars(ThreadStep(t))

SafeSpec == Init /\ [][Next]_vars
Spec == SafeSpec /\ Fairness

------------------------------------------------------------------------------
(* Between fetching and the end of the iteration *)
Holding == {"right", "forwardS", "forwardR"}
PCs     == {"launched", "atStart", "left", "atEnd", "exited"} \cup Holding
Msgs    == [pos : PosR \cup PosS, ack : BOOLEAN]
Fetched == {<<>>} \cup {<<m>> : m \in Msgs}

TypeOK ==
  /\ joiner \in {"SHJ", "RPJ"} /\ pastKey \in PastKeys
  /\ pc \in [Threads -> PCs]
  /\ idxR \in 0 .. numR + 1 /\ idxS \in 0 .. numS + 1
  /\ cntR \in [Threads -> 0 .. numR + 1] /\ cntS \in [Threads -> 0 .. numS + 1]
  /\ leftRecvQueue \in [Threads -> Seq(Msgs)] /\ rightRecvQueue \in [Threads -> Seq(Msgs)]
  /\ fetchR \in [Threads -> Fetched] /\ fetchS \in [Threads -> Fetched]
  /\ winR \in [Threads -> [PosR -> Nat]] /\ winS \in [Threads -> [PosS -> Nat]]
  /\ out \in [Threads -> [PosR -> [PosS -> Nat]]]

(* The tuples of a queue are those from .. to - 1, in this order.           *)
InOrder(q, from, to) ==
  /\ \A n \in DOMAIN q : ~q[n].ack => from <= q[n].pos /\ q[n].pos < to
  /\ \A m, n \in DOMAIN q : m < n /\ ~q[m].ack /\ ~q[n].ack => q[m].pos < q[n].pos
  /\ \A i \in from .. to - 1 : \E n \in DOMAIN q : q[n] = Tuple(i)

(* What a thread has fetched and not yet handed on, and how many tuples it  *)
(* has handed on: thread t has seen the first cntR[t] and cntS[t].          *)
Carries(t)    == pc[t] \in Holding /\ fetchR[t] # <<>> /\ ~Head(fetchR[t]).ack
CarriesAck(t) == pc[t] \in Holding /\ fetchR[t] # <<>> /\ Head(fetchR[t]).ack
CarriesS(t)   == pc[t] = "forwardS" /\ fetchS[t] # <<>>

SentR(t) == IF Carries(t) THEN cntR[t] - 1 ELSE cntR[t]
SentS(t) == IF CarriesS(t) THEN cntS[t] - 1 ELSE cntS[t]

CountInv ==
  /\ cntR[0] = idxR /\ cntS[last] = idxS
  /\ \A t \in Threads : /\ Carries(t) => Head(fetchR[t]) = Tuple(cntR[t] - 1)
                        /\ CarriesS(t) => Head(fetchS[t]) = Tuple(cntS[t] - 1)
  /\ \A t, u \in Threads : t < u => cntR[u] <= SentR(t) /\ cntS[t] <= SentS(u)

LineInv ==
  \A t \in Threads :
    /\ t # 0 => InOrder(leftRecvQueue[t], cntR[t], SentR(t - 1))
    /\ t # last => /\ InOrder(rightRecvQueue[t], cntS[t], SentS(t + 1))
                   /\ \A n \in DOMAIN rightRecvQueue[t] : ~rightRecvQueue[t][n].ack

(* Only what the left neighbour has seen is acknowledged. *)
AckInv ==
  \A t \in Threads :
    /\ t # 0 => \A n \in DOMAIN leftRecvQueue[t] :
                  leftRecvQueue[t][n].ack => leftRecvQueue[t][n].pos < cntS[t - 1]
    /\ CarriesAck(t) => t # 0 /\ Head(fetchR[t]).pos < cntS[t - 1]

(* clean() tells j from the other tuples of S. *)
CleanExact(j) == joiner = "RPJ" \/ \A k \in SIdx : KeyS[k] = KeyS[j] => k = j

(* The windows.  An S tuple is kept until the left neighbour has seen it,   *)
(* and after that it is gone or its acknowledgement is queued.              *)
Holds(t, i) == IF t = last THEN i < cntR[t] ELSE Carries(t) /\ i = cntR[t] - 1

KeptUntilSeen(t) ==
  \A j \in SIdx : CleanExact(j) /\ j < cntS[t] /\ (t # 0 => cntS[t - 1] <= j) => winS[t][j] = 1

DroppedAfter(t) ==
  \A j \in PosS : j < cntS[t - 1] /\ winS[t][j] = 1 =>
    \E n \in DOMAIN leftRecvQueue[t] : leftRecvQueue[t][n] = Ack(j)

WinInv ==
  \A t \in Threads :
    /\ \A i \in PosR : winR[t][i] = IF Holds(t, i) THEN 1 ELSE 0
    /\ \A j \in PosS : winS[t][j] \in {0, 1} /\ (winS[t][j] = 1 => j < cntS[t])
    /\ KeptUntilSeen(t)
    /\ t # 0 => DroppedAfter(t)

OutInv ==
  \A i \in PosR, j \in PosS :
    /\ \A t \in Threads : out[t][i][j] # 0 =>
         out[t][i][j] = 1 /\ kR(i) = kS(j) /\ i < cntR[t] /\ j < cntS[t]
    /\ \A t, u \in Threads : out[t][i][j] # 0 /\ out[u][i][j] # 0 => t = u

(* An R tuple on its way to thread t.  If it has met j already, t has not   *)
(* got j or will have dropped it before; if it has still to meet j, t has   *)
(* not seen j or will still have it.                                        *)
Met(i, j) == \E t \in Threads : out[t][i][j] # 0
Awaited(i, j) == i \in RIdx /\ Matching(i, j) /\ CleanExact(j) /\ ~Met(i, j)

MetBefore(t, n) ==
  \A j \in PosS : Met(leftRecvQueue[t][n].pos, j) /\ winS[t][j] = 1 =>
    \E m \in DOMAIN leftRecvQueue[t] : m < n /\ leftRecvQueue[t][m] = Ack(j)

StillToMeet(t, n) ==
  \A j \in SIdx : Awaited(leftRecvQueue[t][n].pos, j) =>
    /\ \A m \in DOMAIN leftRecvQueue[t] :
         m < n /\ leftRecvQueue[t][m].ack => leftRecvQueue[t][m].pos < j
    /\ j < cntS[t] => winS[t][j] = 1

MeetInv ==
  \A t \in Threads :
    /\ t # 0 => \A n \in DOMAIN leftRecvQueue[t] :
                  ~leftRecvQueue[t][n].ack => MetBefore(t, n) /\ StillToMeet(t, n)
    /\ \A i \in RIdx, j \in SIdx : Holds(t, i) /\ Awaited(i, j) => cntS[t] <= j

(* Where the tuples of both relations are, in queues, hands and windows, on *)
(* their way along the line of threads (THREAD_TASK_SHUFFLE_HS).            *)
IInv == TypeOK /\ CountInv /\ LineInv /\ AckInv /\ WinInv /\ OutInv /\ MeetInv

------------------------------------------------------------------------------
Counted(i, j) == {t \in Threads : out[t][i][j] > 0}

(* An R tuple and an S tuple that travel in opposite directions are counted *)
(* by at most one thread and at most once, although both may be in several  *)
(* windows and queues at a time; this holds for any keys, and also for the  *)
(* tuples read behind the relations.                                        *)
MetOnce ==
  \A i \in PosR, j \in PosS :
    /\ \A t \in Counted(i, j) : kR(i) = kS(j) /\ out[t][i][j] = 1
    /\ \A t, u \in Counted(i, j) : t = u

(* They do not pass each other unseen, although s may overtake r while r is *)
(* queued: as long as the pair has not been counted, the thread r is on its *)
(* way to either has not seen s or still has it in its window, because the  *)
(* acknowledgement that removes s is queued behind r.  For SHJ only if no   *)
(* other tuple of S has the key.  Tuples come in order, so thread t has     *)
(* seen the first cntR[t] tuples of R and cntS[t] of S.                     *)
NotYetSeen(i) == {t \in Threads : cntR[t] <= i}

AwaitedKept ==
  \A i \in RIdx, j \in SIdx :
    Matching(i, j) /\ CleanExact(j) /\ Counted(i, j) = {} =>
      /\ NotYetSeen(i) = {} => \A t \in Threads : cntS[t] <= j
      /\ \A t \in NotYetSeen(i) :
           (\A u \in NotYetSeen(i) : t <= u) /\ cntS[t] > j => winS[t][j] = 1

(* finishing() adds up what the threads counted in totalresults: also their *)
(* matches with a tuple that was read behind the relations.                 *)
ReadPairs    == PosR \X PosS
ProducedRead == [p \in ReadPairs |-> Total([t \in Threads |-> out[t][p[1]][p[2]]])]

J == INSTANCE JoinSpec WITH Pairs <- ReadPairs, produced <- ProducedRead, done <- AllExited

(* clean() is exact if the joiner is that of RPJ or the keys of S are unique. *)
ExactCleaning == \A j \in SIdx : CleanExact(j)

(* No key behind a relation is one of the other relation, or behind it. *)
PastHarmless == /\ pastKey.R # pastKey.S
                /\ \A j \in SIdx : KeyS[j] # pastKey.R
                /\ \A i \in RIdx : KeyR[i] # pastKey.S

(* The handshake join implements the join: each pair of equal keys is       *)
(* counted once, all of them before the threads of THREAD_TASK_SHUFFLE_HS   *)
(* exit, and nothing else is counted.  This needs exact cleaning, and that  *)
(* what HS_NP_Fetcher reads behind the relations matches nothing: if it     *)
(* does, totalresults is too large.                                         *)
ImplementsJoin == /\ PastHarmless => J!JoinInit
                  /\ [][PastHarmless => J!JoinNext]_(J!joinVars)

(* No thread is left waiting for a tuple that was forwarded to nobody, or   *)
(* for one that its neighbour has ended without forwarding.                 *)
Terminates == <>AllExited
==============================================================================
