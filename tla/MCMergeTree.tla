----------------------------- MODULE MCMergeTree -----------------------------
(***************************************************************************)
(* The runs of a quarter of the tree are empty, short or longer than a      *)
(* ring, and every other one is a tuple shorter.  The keys rise or fall     *)
(* from run to run, are interleaved, or repeat.                             *)
(***************************************************************************)
EXTENDS MergeTree

CONSTANTS Lengths, Patterns

KeyAt(pattern, p, k) ==
  CASE pattern = "rising"      -> 10 * p + k
    [] pattern = "falling"     -> 10 * (nparts - p) + k
    [] pattern = "interleaved" -> 3 * k + p
    [] pattern = "repeating"   -> k \div 3

LengthAt(len, p) == IF p % 2 = 1 /\ len > 0 THEN len - 1 ELSE len

MCInputs == {[p \in 0 .. nparts - 1 |->
                [k \in 1 .. LengthAt(len[(4 * p) \div nparts], p) |-> KeyAt(pattern, p, k)]] :
               len \in [0 .. 3 -> Lengths], pattern \in Patterns}
==============================================================================
