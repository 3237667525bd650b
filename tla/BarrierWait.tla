----------------------------- MODULE BarrierWait -----------------------------
(***************************************************************************)
(* The barrier that is built (hashing/utils/barrier.h): config.h leaves     *)
(* HAVE_PTHREAD_BARRIER_WAIT undefined, so pthread_barrier_wait is          *)
(* barrier_wait, a mutex, a condition variable and a counter.  The thread   *)
(* that completes the count resets it and broadcasts; the others wait on    *)
(* the condition once, with no predicate to test again: the model takes    *)
(* pthread_cond_wait to return after a broadcast only (POSIX also allows    *)
(* spurious wakeups, which this code would take for the end of the round). *)
(***************************************************************************)
EXTENDS Naturals, FiniteSets

CONSTANTS Team,       (* the threads                                        *)
          MaxRounds,  (* bound: waits per thread                            *)
          NoOwner     (* the mutex has no owner                             *)

ASSUME BarrierAssumption ==
  /\ IsFiniteSet(Team) /\ Team # {}
  /\ MaxRounds \in Nat
  /\ NoOwner \notin Team

VARIABLES called,    (* barrier->called                                     *)
          mutex,     (* owner of barrier->mutex, or NoOwner                 *)
          at,        (* where each thread is in barrier_wait                *)
          entered,   (* history: calls of t that were counted               *)
          left,      (* history: calls of t that returned                   *)
          round      (* history: broadcasts so far                          *)

waitVars == <<called, mutex, at, entered, left, round>>

(* slip: the barrier is initialised for one thread too few *)
neededOneShort == Cardinality(Team) - 1

(* barrier->needed, set by pthread_barrier_init(barrier, NULL, nthreads) *)
needed == Cardinality(Team)

WaitInit == /\ called  = 0
            /\ mutex   = NoOwner
            /\ at      = [t \in Team |-> "out"]
            /\ entered = [t \in Team |-> 0]
            /\ left    = [t \in Team |-> 0]
            /\ round   = 0

(* pthread_mutex_lock at the top of barrier_wait *)
Lock(t) == /\ at[t] = "out"
           /\ left[t] < MaxRounds
           /\ mutex = NoOwner
           /\ mutex' = t
           /\ at' = [at EXCEPT ![t] = "locked"]
           /\ UNCHANGED <<called, entered, left, round>>

(* slip: the count is not reset *)
BroadcastNoReset(t) == /\ at[t] = "locked"
                       /\ called + 1 = needed
                       /\ called' = called + 1
                       /\ at' = [u \in Team |-> IF u = t THEN "unlock"
                                                   ELSE IF at[u] = "waiting" THEN "woken"
                                                   ELSE at[u]]
                       /\ entered' = [entered EXCEPT ![t] = @ + 1]
                       /\ round' = round + 1
                       /\ UNCHANGED <<mutex, left>>

(* called++; the last one resets the count and wakes all waiters *)
Broadcast(t) == /\ at[t] = "locked"
                /\ called + 1 = needed
                /\ called' = 0
                /\ at' = [u \in Team |-> IF u = t THEN "unlock"
                                            ELSE IF at[u] = "waiting" THEN "woken"
                                            ELSE at[u]]
                /\ entered' = [entered EXCEPT ![t] = @ + 1]
                /\ round' = round + 1
                /\ UNCHANGED <<mutex, left>>

(* called++; the others release the mutex and sleep, in one step *)
CondWait(t) == /\ at[t] = "locked"
               /\ called + 1 # needed
               /\ called' = called + 1
               /\ mutex' = NoOwner
               /\ at' = [at EXCEPT ![t] = "waiting"]
               /\ entered' = [entered EXCEPT ![t] = @ + 1]
               /\ UNCHANGED <<left, round>>

(* pthread_cond_wait re-acquires the mutex before it returns *)
Relock(t) == /\ at[t] = "woken"
             /\ mutex = NoOwner
             /\ mutex' = t
             /\ at' = [at EXCEPT ![t] = "unlock"]
             /\ UNCHANGED <<called, entered, left, round>>

Unlock(t) == /\ at[t] = "unlock"
             /\ mutex' = NoOwner
             /\ at' = [at EXCEPT ![t] = "out"]
             /\ left' = [left EXCEPT ![t] = @ + 1]
             /\ UNCHANGED <<called, entered, round>>

Finished == \A t \in Team : at[t] = "out" /\ left[t] = MaxRounds

Terminated == Finished /\ UNCHANGED waitVars

WaitStep(t) == \/ Lock(t) \/ Broadcast(t) \/ CondWait(t)
               \/ Relock(t) \/ Unlock(t)

WaitNext == (\E t \in Team : WaitStep(t)) \/ Terminated

(* The scheduler runs every runnable thread, and a mutex that is released  *)
(* for good is acquired by one that waits for it.                          *)
Fairness == \A t \in Team : WF_waitVars(WaitStep(t))

WaitSafety == WaitInit /\ [][WaitNext]_waitVars

WaitSpec == WaitSafety /\ Fairness

------------------------------------------------------------------------------
PCs == {"out", "locked", "waiting", "woken", "unlock"}

(* Type invariant of barrier_wait's state. *)
WaitTypeOK == /\ called \in Nat
              /\ mutex \in Team \cup {NoOwner}
              /\ at \in [Team -> PCs]
              /\ entered \in [Team -> Nat]
              /\ left \in [Team -> Nat]
              /\ round \in Nat

(* The barrier's whole point: a thread that returned from its n-th wait     *)
(* (barrier_wait, "wait at a barrier until each thread ...") implies that   *)
(* every thread of the team has been counted in its n-th wait, even when a  *)
(* fast thread is already waiting in the next round while woken threads of  *)
(* this one still queue for the mutex.                                      *)
NobodyLeavesEarly == \A t, u \in Team : left[t] <= entered[u]

(* barrier_wait implements the barrier other modules rely on, including     *)
(* that whoever waits is released once all have come.                       *)
B == INSTANCE Barrier WITH Threads <- Team
ImplementsBarrier == B!BarrierSpec

Holding == {"locked", "unlock"}

(* What the mutex, barrier->called and the number of broadcasts say about   *)
(* every thread: the count is the number of sleepers, so no round starts    *)
(* with a left-over count or misses an arrival, and the threads still on    *)
(* their way out of the last round are told apart from those of this one.   *)
RoundInv ==
  /\ \A t \in Team : (at[t] \in Holding) <=> (mutex = t)
  /\ called = Cardinality({t \in Team : at[t] = "waiting"})
  /\ called < needed
  /\ \A t \in Team :
       /\ at[t] \in {"out", "locked"} => entered[t] = round /\ left[t] = round
       /\ at[t] = "locked" => left[t] < MaxRounds
       /\ at[t] = "waiting" => entered[t] = round + 1 /\ left[t] = round
       /\ at[t] \in {"woken", "unlock"} => entered[t] = round /\ left[t] + 1 = round

(* The inductive invariant behind NobodyLeavesEarly. *)
WaitInv == WaitTypeOK /\ RoundInv

==============================================================================
