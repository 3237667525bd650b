----------------------------- MODULE Relations -----------------------------
(***************************************************************************)
(* What the sequential algorithms share.  A relation is the sequence of its *)
(* keys.                                                                    *)
(***************************************************************************)
EXTENDS Integers, FiniteSets, SequencesExt

NEXT_POW_2(v) == CHOOSE p \in {2 ^ k : k \in 0 .. 30} : p \div 2 < v /\ v <= p

Count(P(_), n) == Cardinality({i \in 1 .. n : P(i)})
Indices(s)     == [i \in 1 .. Len(s) |-> i]
SumOver(f)     == FoldFunction(+, 0, f)

(* How often a key occurs. *)
Hits(s, key) == Count(LAMBDA i : s[i] = key, Len(s))

(* "number of result tuples": the pairs of equal keys *)
Matches(R, S) == SumOver([j \in DOMAIN S |-> Hits(R, S[j])])
==============================================================================
