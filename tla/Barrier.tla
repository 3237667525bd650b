------------------------------- MODULE Barrier -------------------------------
(***************************************************************************)
(* What a barrier promises, whoever implements it.  Every parallel phase of *)
(* the joins (BARRIER_ARRIVE in hashing/joins/common_functions.h) relies on *)
(* exactly this: a thread gets out of its n-th wait only after every thread *)
(* of the team has come in to its n-th wait.                                *)
(***************************************************************************)
EXTENDS Naturals

CONSTANTS Threads,    (* the threads the barrier was initialised for        *)
          MaxRounds   (* bound: how many waits a thread performs            *)

VARIABLES entered,    (* entered[t]: waits t has been counted in            *)
          left        (* left[t]: waits t has returned from                 *)

barrierVars == <<entered, left>>

BarrierInit == /\ entered = [t \in Threads |-> 0]
               /\ left    = [t \in Threads |-> 0]

Enter(t) == /\ left[t] = entered[t]
            /\ entered[t] < MaxRounds
            /\ entered' = [entered EXCEPT ![t] = @ + 1]
            /\ UNCHANGED left

Leave(t) == /\ left[t] < entered[t]
            /\ \A u \in Threads : entered[u] >= entered[t]
            /\ left' = [left EXCEPT ![t] = @ + 1]
            /\ UNCHANGED entered

BarrierNext == \E t \in Threads : Enter(t) \/ Leave(t)

BarrierSafety == BarrierInit /\ [][BarrierNext]_barrierVars

BarrierSpec == /\ BarrierSafety
               /\ \A t \in Threads : WF_barrierVars(Leave(t))
==============================================================================
