----------------------------- MODULE GroupAssign -----------------------------
(***************************************************************************)
(* The constructor of ContRandShuffler (hashing/helper/shuffler.cpp): it    *)
(* allocates numGrps groups and deals the threads out to them.  numGrps is  *)
(* ceil(nthreads / group_size), but the division is one of integers, so it  *)
(* rounds down before ceil sees it, and when the last group is not full the *)
(* loop runs past the array: that thread is in no group a key can select.   *)
(***************************************************************************)
EXTENDS Integers

CONSTANTS nthreads, group_size    (* the arguments                           *)

VARIABLES grpToTh,                (* whom each group has so far              *)
          th, curGrpId, count,    (* the locals of the loop; th is its i     *)
          beyond                  (* threads written past the array's end    *)

vars == <<grpToTh, th, curGrpId, count, beyond>>

numGrps == IF nthreads \div group_size < 1 THEN 1 ELSE nthreads \div group_size

Init == /\ grpToTh = [g \in 0 .. numGrps - 1 |-> {}]
        /\ th = 0 /\ curGrpId = 0 /\ count = 0
        /\ beyond = {}

Full == ~ (count < group_size)

(* One iteration of the loop: push_back of thread th. *)
Assign == /\ th < nthreads
          /\ LET g == IF Full THEN curGrpId + 1 ELSE curGrpId IN
             /\ curGrpId' = g
             /\ count' = IF Full THEN 1 ELSE count + 1
             /\ IF g < numGrps
                THEN grpToTh' = [grpToTh EXCEPT ![g] = @ \cup {th}] /\ UNCHANGED beyond
                ELSE beyond' = beyond \cup {th} /\ UNCHANGED grpToTh
          /\ th' = th + 1

Terminated == th = nthreads /\ UNCHANGED vars

Next == Assign \/ Terminated

Spec == Init /\ [][Next]_vars

------------------------------------------------------------------------------
(* Nothing is written past the array, and when the loop ends the groups are  *)
(* runs of group_size consecutive threads, none of them empty.               *)
GroupsAreRuns ==
  /\ beyond = {}
  /\ th = nthreads =>
       \A g \in 0 .. numGrps - 1 :
         /\ grpToTh[g] = {t \in 0 .. nthreads - 1 : t \div group_size = g}
         /\ grpToTh[g] # {}

------------------------------------------------------------------------------
TypeOK ==
  /\ grpToTh \in [0 .. numGrps - 1 -> SUBSET Nat]
  /\ th \in 0 .. nthreads /\ curGrpId \in Nat /\ count \in 0 .. group_size

(* Before iteration th the threads below th are where they belong. *)
LoopInv ==
  /\ th = group_size * curGrpId + count
  /\ th > 0 => count > 0
  /\ beyond = {}
  /\ \A g \in 0 .. numGrps - 1 : grpToTh[g] = {t \in 0 .. th - 1 : t \div group_size = g}

IInv == TypeOK /\ LoopInv
==============================================================================
