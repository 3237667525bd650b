--------------------------- MODULE MCNoShuffleJoin ---------------------------
(***************************************************************************)
(* Instances of NoShuffleJoin for TLC: repeated keys, an uneven share of S  *)
(* and tuples that arrive late.                                             *)
(***************************************************************************)
EXTENDS NoShuffleJoin, TLC

MCKeyR == 0 :> 1 @@ 1 :> 1
MCKeyS == 0 :> 1 @@ 1 :> 0 @@ 2 :> 1 @@ 3 :> 1
MCTsR  == 0 :> 0 @@ 1 :> 1
MCTsS  == 0 :> 0 @@ 1 :> 1 @@ 2 :> 2 @@ 3 :> 0
==============================================================================
