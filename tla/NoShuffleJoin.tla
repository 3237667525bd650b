---------------------------- MODULE NoShuffleJoin ----------------------------
(***************************************************************************)
(* THREAD_TASK_NOSHUFFLE (hashing/helper/thread_task.cpp): the eager joins  *)
(* of the JM scheme.  Every thread fetches all of R and its share of S      *)
(* (JM_NP_Fetcher) and joins each tuple it fetches in its own windows.      *)
(*                                                                          *)
(* The module keeps the clock in detail: all threads write the shared       *)
(* *startTS after the start barrier, and a fetcher takes a tuple when       *)
(* curtick() - *startTS, an unsigned subtraction, has reached its arrival   *)
(* time.  Builds with PERF_COUNTERS have one more barrier in between.       *)
(***************************************************************************)
EXTENDS EagerBase

CONSTANTS PERF_COUNTERS, (* the build has the barrier of the PCM set-up     *)
          Word,          (* number of values of uint64_t (scaled down)      *)
          StartBound,    (* bound: every thread reads its start time by then*)
          MaxArrival     (* bound: no tuple arrives later than this         *)

ASSUME NoShuffleAssumption ==
  /\ PERF_COUNTERS \in BOOLEAN
  /\ Word \in Nat /\ StartBound \in Nat /\ MaxArrival \in Nat
  /\ StartBound + MaxArrival < Word
  /\ \A i \in RIdx : TsR[i] <= MaxArrival
  /\ \A j \in SIdx : TsS[j] <= MaxArrival

VARIABLES now,        (* the processor's tick counter                       *)
          startTS,    (* *args->startTS, shared by all threads              *)
          pc,
          tick,       (* the result of the thread's last curtick()          *)
          idxR, idxS, (* state->current_index_R, current_index_S            *)
          tryR,       (* baseFetcher::tryR                                  *)
          htR, htS,   (* the windows of each thread's joiner                *)
          out         (* out[t][i][j]: times t counted the pair (i, j)      *)

vars == <<now, startTS, pc, tick, idxR, idxS, tryR, htR, htS, out>>

Init == /\ now = 0 /\ startTS = 0
        /\ pc = [t \in Threads |-> "launched"]
        /\ tick = [t \in Threads |-> 0]
        /\ idxR = [t \in Threads |-> 0]
        /\ idxS = [t \in Threads |-> ShareBegin(numS, t)]
        /\ tryR = [t \in Threads |-> TRUE]
        /\ htR = [t \in Threads |-> EmptyR] /\ htS = [t \in Threads |-> EmptyS]
        /\ out = [t \in Threads |-> EmptyOut]

(* The threads that have come to a barrier, by the pc they wait at. *)
Stopped   == {"fetched", "merged", "exited"}
Timed     == {"atPerf", "fetch", "check"} \cup Stopped
Started   == {"atStart", "readTS", "writeTS"} \cup Timed

Goto(t, l) == pc' = [pc EXCEPT ![t] = l]

CrossBarrier(t, from, team, to) == /\ pc[t] = from
                                   /\ \A u \in Threads : pc[u] \in team
                                   /\ Goto(t, to)

unchangedJoin == UNCHANGED <<idxR, idxS, tryR, htR, htS, out>>

Arrive(t) == /\ pc[t] = "launched"
             /\ Goto(t, "atStart")
             /\ UNCHANGED <<now, startTS, tick>> /\ unchangedJoin

Start(t) == /\ CrossBarrier(t, "atStart", Started, "readTS")
            /\ UNCHANGED <<now, startTS, tick>> /\ unchangedJoin

(* *args->startTS = curtick() *)
ReadStart(t) == /\ pc[t] = "readTS"
                /\ tick' = [tick EXCEPT ![t] = now]
                /\ Goto(t, "writeTS")
                /\ UNCHANGED <<now, startTS>> /\ unchangedJoin

WriteStart(t) == /\ pc[t] = "writeTS"
                 /\ startTS' = tick[t]
                 /\ Goto(t, "atPerf")
                 /\ UNCHANGED <<now, tick>> /\ unchangedJoin

PerfBarrier(t) == /\ IF PERF_COUNTERS
                     THEN CrossBarrier(t, "atPerf", Timed, "fetch")
                     ELSE pc[t] = "atPerf" /\ Goto(t, "fetch")
                  /\ UNCHANGED <<now, startTS, tick>> /\ unchangedJoin

------------------------------------------------------------------------------
(* slip: finish() compares with the relations, not with the share *)
finishWhole(iR, iS, t) == iR = numR /\ iS = numS

(* baseFetcher::next_tuple: one look at R or S, in turn *)
finish(iR, iS, t) == iR = numR /\ iS = ShareEnd(numS, t)

More(t) == IF tryR[t] THEN idxR[t] < numR ELSE idxS[t] < ShareEnd(numS, t)

(* There is a tuple on this side: read the clock ... *)
Poll(t) == /\ pc[t] = "fetch"
           /\ More(t)
           /\ tick' = [tick EXCEPT ![t] = now]
           /\ Goto(t, "check")
           /\ UNCHANGED <<now, startTS>> /\ unchangedJoin

(* No tuple left on this side; with none left at all the loop ends. *)
PollEmpty(t) == /\ pc[t] = "fetch"
                /\ ~ More(t)
                /\ tryR' = [tryR EXCEPT ![t] = ~ @]
                /\ IF finish(idxR[t], idxS[t], t) THEN Goto(t, "fetched") ELSE UNCHANGED pc
                /\ UNCHANGED <<now, startTS, tick, idxR, idxS, htR, htS, out>>

(* slip: compare with the clock only, as if startTS were 0 *)
ArrivedAbsolute(t) ==
  (IF tryR[t] THEN TsR[idxR[t]] ELSE TsS[idxS[t]]) <= tick[t]

(* ... and compare: arrivalTs <= tick - *fetchStartTime *)
Arrived(t) ==
  (IF tryR[t] THEN TsR[idxR[t]] ELSE TsS[idxS[t]]) <= (tick[t] - startTS) % Word

(* slip: the tuple is probed but not inserted *)
JoinNoBuild(t) ==
  IF tryR[t]
  THEN /\ out' = [out EXCEPT ![t] = ProbeS(@, htS[t], idxR[t])]
       /\ idxR' = [idxR EXCEPT ![t] = @ + 1]
       /\ UNCHANGED <<idxS, htR, htS>>
  ELSE /\ htS' = [htS EXCEPT ![t][idxS[t]] = @ + 1]
       /\ out' = [out EXCEPT ![t] = ProbeR(@, htR[t], idxS[t])]
       /\ idxS' = [idxS EXCEPT ![t] = @ + 1]
       /\ UNCHANGED <<idxR, htR>>

Join(t) ==
  IF tryR[t]
  THEN /\ htR' = [htR EXCEPT ![t][idxR[t]] = @ + 1]
       /\ out' = [out EXCEPT ![t] = ProbeS(@, htS[t], idxR[t])]
       /\ idxR' = [idxR EXCEPT ![t] = @ + 1]
       /\ UNCHANGED <<idxS, htS>>
  ELSE /\ htS' = [htS EXCEPT ![t][idxS[t]] = @ + 1]
       /\ out' = [out EXCEPT ![t] = ProbeR(@, htR[t], idxS[t])]
       /\ idxS' = [idxS EXCEPT ![t] = @ + 1]
       /\ UNCHANGED <<idxR, htR>>

(* The tuple is fetched and joined in the thread's own windows. *)
Fetch(t) == /\ pc[t] = "check"
            /\ Arrived(t)
            /\ Join(t)
            /\ tryR' = [tryR EXCEPT ![t] = ~ @]
            /\ Goto(t, IF finish(idxR'[t], idxS'[t], t) THEN "fetched" ELSE "fetch")
            /\ UNCHANGED <<now, startTS, tick>>

Miss(t) == /\ pc[t] = "check"
           /\ ~ Arrived(t)
           /\ tryR' = [tryR EXCEPT ![t] = ~ @]
           /\ Goto(t, "fetch")
           /\ UNCHANGED <<now, startTS, tick, idxR, idxS, htR, htS, out>>

(* joiner->merge has nothing to do for SHJ and RPJ *)
Merge(t) == /\ CrossBarrier(t, "fetched", Stopped, "merged")
            /\ UNCHANGED <<now, startTS, tick>> /\ unchangedJoin

Exit(t) == /\ CrossBarrier(t, "merged", {"merged", "exited"}, "exited")
           /\ UNCHANGED <<now, startTS, tick>> /\ unchangedJoin

(* Time passes. *)
Tick == /\ now < StartBound + MaxArrival
        /\ now < StartBound \/ \A t \in Threads : pc[t] \in Timed \cup {"writeTS"}
        /\ now' = now + 1
        /\ UNCHANGED <<startTS, pc, tick>> /\ unchangedJoin

AllExited == \A t \in Threads : pc[t] = "exited"
Terminated == AllExited /\ now = StartBound + MaxArrival /\ UNCHANGED vars

ThreadStep(t) == \/ Arrive(t) \/ Start(t) \/ ReadStart(t) \/ WriteStart(t) \/ PerfBarrier(t)
                 \/ Poll(t) \/ PollEmpty(t) \/ Fetch(t) \/ Miss(t) \/ Merge(t) \/ Exit(t)

Next == (\E t \in Threads : ThreadStep(t)) \/ Tick \/ Terminated

(* Every thread has its core and time goes on. *)
Fairness == WF_vars(Tick) /\ \A t \in Threads : WF_vars(ThreadStep(t))

SafeSpec == Init /\ [][Next]_vars
Spec == SafeSpec /\ Fairness

------------------------------------------------------------------------------
PCs == {"launched"} \cup Started

(* Type invariant: indices stay within the thread's share. *)
TypeOK ==
  /\ now \in Nat /\ now <= StartBound + MaxArrival
  /\ startTS \in Nat
  /\ pc \in [Threads -> PCs]
  /\ tick \in [Threads -> Nat]
  /\ idxR \in [Threads -> 0 .. numR] /\ idxS \in [Threads -> 0 .. numS]
  /\ \A t \in Threads : ShareBegin(numS, t) <= idxS[t] /\ idxS[t] <= ShareEnd(numS, t)
  /\ tryR \in [Threads -> BOOLEAN]
  /\ htR \in [Threads -> [RIdx -> Nat]] /\ htS \in [Threads -> [SIdx -> Nat]]
  /\ out \in [Threads -> [RIdx -> [SIdx -> Nat]]]

(* No tuple is taken before it has arrived: "tuple has arrived at current   *)
(* fetch time" (fetcher.cpp, nextTupleR and nextTupleS), whatever the other *)
(* threads do to startTS.                                                   *)
NoEarlyFetch ==
  [][\A t \in Threads :
       /\ idxR'[t] # idxR[t] => startTS + TsR[idxR[t]] <= now
       /\ idxS'[t] # idxS[t] => startTS + TsS[idxS[t]] <= now]_vars

(* The time origin does not move once a thread has begun to fetch: the       *)
(* arrival times of all threads are relative to the same *startTS, the one   *)
(* finishing() computes the processing time from.                            *)
OneOrigin ==
  [][(\E t \in Threads : pc[t] \in {"fetch", "check"} \cup Stopped) => startTS' = startTS]_vars

(* Windows hold exactly what the thread has fetched, and a thread has        *)
(* counted exactly the pairs that met in them (THREAD_TASK_NOSHUFFLE).       *)
WindowInv ==
  \A t \in Threads :
    /\ \A i \in RIdx : htR[t][i] = IF i < idxR[t] THEN 1 ELSE 0
    /\ \A j \in SIdx : htS[t][j] = IF ShareBegin(numS, t) <= j /\ j < idxS[t] THEN 1 ELSE 0
    /\ \A i \in RIdx, j \in SIdx :
         out[t][i][j] = IF Matching(i, j) /\ htR[t][i] = 1 /\ htS[t][j] = 1 THEN 1 ELSE 0

(* With the second barrier nobody fetches until everybody has written        *)
(* startTS, and clocks read afterwards are not behind it.                    *)
ClockInv ==
  /\ startTS <= now
  /\ \A t \in Threads :
       /\ tick[t] <= now
       /\ pc[t] = "check" => More(t)
       /\ pc[t] \in Stopped => finish(idxR[t], idxS[t], t)
       /\ PERF_COUNTERS /\ pc[t] \in {"fetch", "check"} \cup Stopped =>
            \A u \in Threads : pc[u] \in Timed
       /\ PERF_COUNTERS /\ pc[t] = "check" => startTS <= tick[t]

IInv == TypeOK /\ WindowInv /\ ClockInv

(* When all threads have exited each equal-key pair has been counted by      *)
(* exactly one thread, once, and no other pair: R is replicated and S is     *)
(* divided (JM_NP_Fetcher).                                                  *)
ExactlyOnce == CountedOnce(out) /\ (AllExited => CountedAll(out))

J == INSTANCE JoinSpec WITH produced <- Produced(out), done <- AllExited

(* The join without shuffling implements the join: the threads together     *)
(* count each equal-key pair once, and no other pair.                       *)
ImplementsJoin == J!JoinSafety

(* The join ends: no thread is left at a barrier or polling for a tuple     *)
(* (THREAD_TASK_NOSHUFFLE).                                                 *)
Terminates == <>AllExited
==============================================================================
