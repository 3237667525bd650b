------------------------------ MODULE MCNPOJoin ------------------------------
(***************************************************************************)
(* Instances of NPOJoin for TLC: keys that repeat and keys that collide, so *)
(* that a chain gets two overflow buckets from different threads' buffers.  *)
(***************************************************************************)
EXTENDS NPOJoin, TLC

MCKeyR == 0 :> 1 @@ 1 :> 5 @@ 2 :> 1 @@ 3 :> 9 @@ 4 :> 5 @@ 5 :> 2
MCKeyS == 0 :> 5 @@ 1 :> 1 @@ 2 :> 13
==============================================================================
