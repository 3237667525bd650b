---------------------------- MODULE MCShuffleJoin ----------------------------
(***************************************************************************)
(* Instances of ShuffleJoin for TLC.  Keys repeat in R and in S, two keys   *)
(* go to the same thread, the shares are uneven and tuples arrive late.     *)
(***************************************************************************)
EXTENDS ShuffleJoin, TLC

MCKeyR == 0 :> 1 @@ 1 :> 0 @@ 2 :> 1
MCKeyS == 0 :> 1 @@ 1 :> 1
MCTsR  == 0 :> 0 @@ 1 :> 1 @@ 2 :> 0
MCTsS  == 0 :> 0 @@ 1 :> 1

MCKeyR4 == MCKeyR @@ 3 :> 4
MCTsR4  == MCTsR @@ 3 :> 1
==============================================================================
