----------------------------- MODULE ShuffleJoin -----------------------------
(***************************************************************************)
(* THREAD_TASK_SHUFFLE (hashing/helper/thread_task.cpp): the eager joins of *)
(* the JB and JBCR schemes.  Every thread fetches its share of R and S as    *)
(* the tuples arrive, pushes each tuple to the threads responsible for its   *)
(* key through one concurrent queue per thread, and joins what it pulls      *)
(* from its own queue.  After a barrier it drains its queue.                 *)
(*                                                                           *)
(* HashShuffler sends a tuple to thread key % nthreads.  ContRandShuffler    *)
(* splits the threads into groups; an R tuple goes to every thread of group  *)
(* key % numGrps, an S tuple to one pseudo-random thread of it.              *)
(*                                                                           *)
(* moodycamel::ConcurrentQueue is external: a bag of queued messages from    *)
(* which the owner takes any (order holds only per producer and no step      *)
(* depends on it); while producers are active try_dequeue may miss them.     *)
(*                                                                           *)
(* Time is counted from *startTS here; how the threads come to agree on it   *)
(* (or fail to) is the subject of NoShuffleJoin.                             *)
(***************************************************************************)
EXTENDS EagerBase

CONSTANTS ContRand,    (* TRUE: ContRandShuffler, FALSE: HashShuffler       *)
          GroupSize,   (* -g, the threads of a group                        *)
          EAGER,       (* the build joins while it still fetches            *)
          MaxTime      (* bound: no tuple arrives later                     *)

(* The constructor of ContRandShuffler stays within its arrays only if the  *)
(* groups fill up evenly; GroupAssign is about what it does otherwise.      *)
ASSUME ShuffleAssumption ==
  /\ ContRand \in BOOLEAN /\ EAGER \in BOOLEAN
  /\ GroupSize \in Nat \ {0}
  /\ nthreads % GroupSize = 0 \/ nthreads < GroupSize
  /\ MaxTime \in Nat
  /\ \A i \in RIdx : TsR[i] <= MaxTime
  /\ \A j \in SIdx : TsS[j] <= MaxTime

numGrps == IF nthreads < GroupSize THEN 1 ELSE nthreads \div GroupSize

VARIABLES now,        (* time since startTS                                 *)
          pc,         (* where each thread is                               *)
          idxR, idxS, (* state->current_index_R, current_index_S            *)
          tryR,       (* baseFetcher::tryR                                  *)
          curR, curS, (* current_fetch: position of the tuple being pushed  *)
          targets,    (* threads it has still to be pushed to               *)
          qR, qS,     (* messages queued for each thread                    *)
          htR, htS,   (* the windows of each thread's joiner                *)
          out         (* out[t][i][j]: times t counted the pair (i, j)      *)

vars == <<now, pc, idxR, idxS, tryR, curR, curS, targets, qR, qS, htR, htS, out>>

NoTuple == -1

Init == /\ now = 0
        /\ pc = [t \in Threads |-> "launched"]
        /\ idxR = [t \in Threads |-> ShareBegin(numR, t)]
        /\ idxS = [t \in Threads |-> ShareBegin(numS, t)]
        /\ tryR = [t \in Threads |-> TRUE]
        /\ curR = [t \in Threads |-> NoTuple] /\ curS = [t \in Threads |-> NoTuple]
        /\ targets = [t \in Threads |-> {}]
        /\ qR = [t \in Threads |-> EmptyR] /\ qS = [t \in Threads |-> EmptyS]
        /\ htR = [t \in Threads |-> EmptyR] /\ htS = [t \in Threads |-> EmptyS]
        /\ out = [t \in Threads |-> EmptyOut]

------------------------------------------------------------------------------
(* Barriers.  A thread waits at pc B; it goes on when all have got there.   *)
Started  == {"atStart", "fetch", "push", "pull", "fetched", "drain", "drained", "exited"}
Fetched  == {"fetched", "drain", "drained", "exited"}
Drained  == {"drained", "exited"}

Goto(t, l) == pc' = [pc EXCEPT ![t] = l]

CrossBarrier(t, from, team, to) == /\ pc[t] = from
                                   /\ \A u \in Threads : pc[u] \in team
                                   /\ Goto(t, to)

Arrive(t) == /\ pc[t] = "launched"
             /\ Goto(t, "atStart")
             /\ UNCHANGED <<now, idxR, idxS, tryR, curR, curS, targets, qR, qS, htR, htS, out>>

Start(t) == /\ CrossBarrier(t, "atStart", Started, "fetch")
            /\ UNCHANGED <<now, idxR, idxS, tryR, curR, curS, targets, qR, qS, htR, htS, out>>

(* slip: drain as soon as one's own share is fetched *)
StartDrainEarly(t) == /\ pc[t] = "fetched"
                      /\ Goto(t, "drain")
                      /\ UNCHANGED <<now, idxR, idxS, tryR, curR, curS, targets, qR, qS, htR, htS, out>>

StartDrain(t) == /\ CrossBarrier(t, "fetched", Fetched, "drain")
                 /\ UNCHANGED <<now, idxR, idxS, tryR, curR, curS, targets, qR, qS, htR, htS, out>>

Exit(t) == /\ CrossBarrier(t, "drained", Drained, "exited")
           /\ UNCHANGED <<now, idxR, idxS, tryR, curR, curS, targets, qR, qS, htR, htS, out>>

------------------------------------------------------------------------------
(* slip: finish() compares with the relations, not with the share *)
finishWhole(t) == idxR[t] = numR /\ idxS[t] = numS

(* baseFetcher *)
finish(t) == idxR[t] = ShareEnd(numR, t) /\ idxS[t] = ShareEnd(numS, t)

(* The threads a tuple of key k is pushed to. *)
Group(g) == {u \in Threads : u \div GroupSize = g}

(* slip: S is replicated in the group as R is *)
PushSetsReplicated(isR, k) ==
  IF ContRand THEN {Group(k % numGrps)} ELSE {{k % nthreads}}

PushSets(isR, k) ==
  IF ~ContRand THEN {{k % nthreads}}
  ELSE IF isR THEN {Group(k % numGrps)}
       ELSE {{u} : u \in Group(k % numGrps)}

(* nextTupleR found a tuple that has arrived *)
FetchR(t) == /\ pc[t] = "fetch" /\ tryR[t]
             /\ idxR[t] < ShareEnd(numR, t)
             /\ TsR[idxR[t]] <= now
             /\ curR' = [curR EXCEPT ![t] = idxR[t]]
             /\ \E T \in PushSets(TRUE, KeyR[idxR[t]]) :
                  targets' = [targets EXCEPT ![t] = T]
             /\ idxR' = [idxR EXCEPT ![t] = @ + 1]
             /\ tryR' = [tryR EXCEPT ![t] = FALSE]
             /\ Goto(t, "push")
             /\ UNCHANGED <<now, idxS, curS, qR, qS, htR, htS, out>>

(* nextTupleS found a tuple that has arrived *)
FetchS(t) == /\ pc[t] = "fetch" /\ ~tryR[t]
             /\ idxS[t] < ShareEnd(numS, t)
             /\ TsS[idxS[t]] <= now
             /\ curS' = [curS EXCEPT ![t] = idxS[t]]
             /\ \E T \in PushSets(FALSE, KeyS[idxS[t]]) :
                  targets' = [targets EXCEPT ![t] = T]
             /\ idxS' = [idxS EXCEPT ![t] = @ + 1]
             /\ tryR' = [tryR EXCEPT ![t] = TRUE]
             /\ Goto(t, "push")
             /\ UNCHANGED <<now, idxR, curR, qR, qS, htR, htS, out>>

(* Nothing to fetch on this side: next_tuple tries the other side, until    *)
(* finish() makes it return nullptr.                                        *)
FetchMiss(t) == /\ pc[t] = "fetch"
                /\ IF tryR[t] THEN idxR[t] < ShareEnd(numR, t) => TsR[idxR[t]] > now
                              ELSE idxS[t] < ShareEnd(numS, t) => TsS[idxS[t]] > now
                /\ tryR' = [tryR EXCEPT ![t] = ~ @]
                /\ IF finish(t) THEN Goto(t, "pull") ELSE UNCHANGED pc
                /\ UNCHANGED <<now, idxR, idxS, curR, curS, targets, qR, qS, htR, htS, out>>

(* Time passes. *)
Tick == /\ now < MaxTime
        /\ now' = now + 1
        /\ UNCHANGED <<pc, idxR, idxS, tryR, curR, curS, targets, qR, qS, htR, htS, out>>

------------------------------------------------------------------------------
EndPush(t) == /\ curR' = [curR EXCEPT ![t] = NoTuple]
              /\ curS' = [curS EXCEPT ![t] = NoTuple]
              /\ Goto(t, "pull")

(* shuffler->push: one enqueue after the other, in thread order *)
Push(t) == /\ pc[t] = "push"
           /\ \E u \in targets[t] :
                /\ \A v \in targets[t] : u <= v
                /\ IF curR[t] # NoTuple THEN /\ qR' = [qR EXCEPT ![u][curR[t]] = @ + 1]
                                     /\ UNCHANGED qS
                                ELSE /\ qS' = [qS EXCEPT ![u][curS[t]] = @ + 1]
                                     /\ UNCHANGED qR
                /\ targets' = [targets EXCEPT ![t] = @ \ {u}]
                /\ IF targets[t] = {u}
                   THEN EndPush(t)
                   ELSE UNCHANGED <<curR, curS, pc>>
           /\ UNCHANGED <<now, idxR, idxS, tryR, htR, htS, out>>

(* A pulled R tuple is inserted and probed against the S window. *)
JoinR(t, i) == /\ qR[t][i] > 0
               /\ qR' = [qR EXCEPT ![t][i] = @ - 1]
               /\ htR' = [htR EXCEPT ![t][i] = @ + 1]
               /\ out' = [out EXCEPT ![t] = ProbeS(@, htS[t], i)]
               /\ UNCHANGED <<qS, htS>>

JoinS(t, j) == /\ qS[t][j] > 0
               /\ qS' = [qS EXCEPT ![t][j] = @ - 1]
               /\ htS' = [htS EXCEPT ![t][j] = @ + 1]
               /\ out' = [out EXCEPT ![t] = ProbeR(@, htR[t], j)]
               /\ UNCHANGED <<qR, htR>>

PullJoin(t) == (\E i \in RIdx : JoinR(t, i)) \/ (\E j \in SIdx : JoinS(t, j))

QueueEmpty(t) == /\ \A i \in RIdx : qR[t][i] = 0
                 /\ \A j \in SIdx : qS[t][j] = 0

LoopTest(t) == Goto(t, IF finish(t) THEN "fetched" ELSE "fetch")

(* The eager pull in the fetch loop, if the build has it and it finds one *)
Pull(t) == /\ pc[t] = "pull"
           /\ EAGER
           /\ PullJoin(t)
           /\ LoopTest(t)
           /\ UNCHANGED <<now, idxR, idxS, tryR, curR, curS, targets>>

(* ... or none, or only messages that are just being enqueued *)
PullNothing(t) == /\ pc[t] = "pull"
                  /\ LoopTest(t)
                  /\ UNCHANGED <<now, idxR, idxS, tryR, curR, curS, targets, qR, qS, htR, htS, out>>

(* The loop after the barrier: nobody enqueues any more *)
Drain(t) == /\ pc[t] = "drain"
            /\ PullJoin(t)
            /\ UNCHANGED <<now, pc, idxR, idxS, tryR, curR, curS, targets>>

(* pull returned nullptr; joiner->merge has nothing to do for SHJ and RPJ *)
DrainEnd(t) == /\ pc[t] = "drain"
               /\ QueueEmpty(t)
               /\ Goto(t, "drained")
               /\ UNCHANGED <<now, idxR, idxS, tryR, curR, curS, targets, qR, qS, htR, htS, out>>

AllExited == \A t \in Threads : pc[t] = "exited"

Terminated == AllExited /\ now = MaxTime /\ UNCHANGED vars

ThreadStep(t) == \/ Arrive(t) \/ Start(t) \/ FetchR(t) \/ FetchS(t) \/ FetchMiss(t)
                 \/ Push(t) \/ Pull(t) \/ PullNothing(t)
                 \/ StartDrain(t) \/ Drain(t) \/ DrainEnd(t) \/ Exit(t)

Next == (\E t \in Threads : ThreadStep(t)) \/ Tick \/ Terminated

(* Every thread has its core and time goes on. *)
Fairness == WF_vars(Tick) /\ \A t \in Threads : WF_vars(ThreadStep(t))

SafeSpec == Init /\ [][Next]_vars
Spec == SafeSpec /\ Fairness

------------------------------------------------------------------------------
PCs == {"launched"} \cup Started

(* Type invariant: indices stay within the thread's share. *)
TypeOK ==
  /\ now \in Nat
  /\ pc \in [Threads -> PCs]
  /\ idxR \in [Threads -> Nat] /\ idxS \in [Threads -> Nat]
  /\ \A t \in Threads : idxR[t] <= ShareEnd(numR, t) /\ idxS[t] <= ShareEnd(numS, t)
  /\ tryR \in [Threads -> BOOLEAN]
  /\ curR \in [Threads -> RIdx \cup {NoTuple}] /\ curS \in [Threads -> SIdx \cup {NoTuple}]
  /\ targets \in [Threads -> SUBSET Threads]
  /\ qR \in [Threads -> [RIdx -> Nat]] /\ qS \in [Threads -> [SIdx -> Nat]]
  /\ htR \in [Threads -> [RIdx -> Nat]] /\ htS \in [Threads -> [SIdx -> Nat]]
  /\ out \in [Threads -> [RIdx -> [SIdx -> Nat]]]

(* A pair is counted by at most one thread, once, and only if its keys are  *)
(* equal, although R tuples may live in several threads' windows.           *)
NoSpuriousMatch == CountedOnce(out)

(* When all threads have exited every equal-key pair has been counted: no   *)
(* tuple was left in a queue, whichever thread fetched it and when.         *)
NoLostMatch == AllExited => CountedAll(out)

J == INSTANCE JoinSpec WITH produced <- Produced(out), done <- AllExited

(* The eager shuffle join implements the join: finishing() adds up the      *)
(* matches of the threads, so what counts is how often the threads together *)
(* produced each pair.                                                      *)
ImplementsJoin == J!JoinSafety

(* Every thread gets through the barriers of THREAD_TASK_SHUFFLE, whatever  *)
(* its share and whenever its tuples arrive.                                *)
Terminates == <>AllExited

------------------------------------------------------------------------------
(* The inductive invariant: where the copies of every tuple are.            *)
Owns(n, t, k) == ShareBegin(n, t) <= k /\ k < ShareEnd(n, t)

Responsible(k) == IF ContRand THEN Group(k % numGrps) ELSE {k % nthreads}

(* Copies of t's tuple on their way to u, queued for u or in u's window.    *)
CopiesR(t, u, i) == (IF curR[t] = i /\ u \in targets[t] THEN 1 ELSE 0)
                      + qR[u][i] + htR[u][i]
CopiesS(t, u, j) == (IF curS[t] = j /\ u \in targets[t] THEN 1 ELSE 0)
                      + qS[u][j] + htS[u][j]

PushInv ==
  \A t \in Threads :
    /\ ShareBegin(numR, t) <= idxR[t] /\ ShareBegin(numS, t) <= idxS[t]
    /\ pc[t] # "push" => curR[t] = NoTuple /\ curS[t] = NoTuple
    /\ curR[t] = NoTuple \/ curS[t] = NoTuple
    /\ curR[t] # NoTuple => Owns(numR, t, curR[t]) /\ curR[t] < idxR[t]
    /\ curS[t] # NoTuple => Owns(numS, t, curS[t]) /\ curS[t] < idxS[t]
    /\ pc[t] = "push" => curR[t] # NoTuple \/ curS[t] # NoTuple

(* A fetched R tuple has one copy for each thread responsible for its key. *)
CopiesRInv ==
  \A t, u \in Threads, i \in RIdx :
    Owns(numR, t, i) =>
      CopiesR(t, u, i) = IF i < idxR[t] /\ u \in Responsible(KeyR[i]) THEN 1 ELSE 0

(* A fetched S tuple has one copy, for one of these threads. *)
CopyOfS(t, j) ==
  IF j < idxS[t]
  THEN \E v \in Responsible(KeyS[j]) \cap Threads : \A u \in Threads :
         CopiesS(t, u, j) = IF u = v THEN 1 ELSE 0
  ELSE \A u \in Threads : CopiesS(t, u, j) = 0

CopiesSInv == \A t \in Threads, j \in SIdx : Owns(numS, t, j) => CopyOfS(t, j)

(* A thread has counted exactly the pairs that meet in its windows. *)
OutInv ==
  \A t \in Threads, i \in RIdx, j \in SIdx :
    out[t][i][j] = IF Matching(i, j) /\ htR[t][i] = 1 /\ htS[t][j] = 1 THEN 1 ELSE 0

PhaseInv ==
  \A t \in Threads :
    /\ pc[t] \in Fetched => finish(t)
    /\ pc[t] \in {"drain", "drained", "exited"} => \A u \in Threads : pc[u] \in Fetched
    /\ pc[t] \in Drained => QueueEmpty(t)

(* Each tuple is where the shuffle says it is, and what has been counted is *)
(* what has met (THREAD_TASK_SHUFFLE with either shuffler).                 *)
IInv == TypeOK /\ PushInv /\ CopiesRInv /\ CopiesSInv /\ OutInv /\ PhaseInv
==============================================================================
