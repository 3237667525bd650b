----------------------------- MODULE MCRadixJoin -----------------------------
(***************************************************************************)
(* Instances of RadixJoin for TLC: keys of all four pieces of two clusters, *)
(* a piece that only R has, a key that repeats and two keys that agree in   *)
(* their radix bits without being equal.                                    *)
(***************************************************************************)
EXTENDS RadixJoin, TLC

MCKeyR == 0 :> 1 @@ 1 :> 2 @@ 2 :> 1 @@ 3 :> 7 @@ 4 :> 4
MCKeyS == 0 :> 5 @@ 1 :> 1 @@ 2 :> 2 @@ 3 :> 7
==============================================================================
