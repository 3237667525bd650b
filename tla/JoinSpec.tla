------------------------------ MODULE JoinSpec ------------------------------
(***************************************************************************)
(* What every join algorithm of the repository promises (result_t counts    *)
(* the matches in totalresults): each pair of an R tuple and an S tuple     *)
(* with equal keys is produced exactly once, in any order and in any        *)
(* portions, no other pair is ever produced, and nothing is missing when    *)
(* the join reports that it is done.                                        *)
(***************************************************************************)
EXTENDS Naturals

CONSTANTS Pairs,       (* positions <<r, s>> in the two relations           *)
          Equal        (* the pairs whose keys are equal                    *)

VARIABLES produced,    (* how often each pair has been produced             *)
          done         (* all threads have been joined                      *)

joinVars == <<produced, done>>

JoinInit == /\ produced = [p \in Pairs |-> 0]
            /\ done = FALSE

(* Some of the pairs that are still missing are produced. *)
Produce == /\ ~done
           /\ LET P == {p \in Equal : produced[p] = 0 /\ produced'[p] = 1}
              IN  produced' = [p \in Pairs |-> IF p \in P THEN 1 ELSE produced[p]]
           /\ UNCHANGED done

Complete == /\ ~done
            /\ \A p \in Equal : produced[p] = 1
            /\ done' = TRUE
            /\ UNCHANGED produced

JoinNext == Produce \/ Complete

JoinSafety == JoinInit /\ [][JoinNext]_joinVars

JoinImplementation == JoinSafety /\ <>done
==============================================================================
