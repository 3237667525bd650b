----------------------------- MODULE MCSkewMerge -----------------------------
(***************************************************************************)
(* Instances of SkewMerge for TLC.  Thread 0 has most of S.  Its runs have  *)
(* no heavy hitter, one with enough tuples in every run that reaches across *)
(* it, or one that another run reaches across without having it.            *)
(***************************************************************************)
EXTENDS SkewMerge

MCRegion == [t \in Threads |-> t \div 2]

Few(t) == [p \in Parts |-> IF p = t THEN <<9 + t>> ELSE IF p = 0 /\ t = 1 THEN <<9>> ELSE << >>]

WithFirst(runs) == [t \in Threads |-> IF t = 0 THEN [p \in Parts |-> runs[p + 1]] ELSE Few(t)]

MCInputs == {WithFirst(runs) : runs \in {
               << <<2, 4, 6, 8>>, <<1, 5>>, <<3, 3>>, << >> >>,
               << <<5, 5, 5, 7>>, <<4, 5, 5>>, <<6, 7>>, << >> >>,
               << <<5, 5, 5, 7>>, <<3, 6>>, <<4>>, <<5, 8>> >>}}
==============================================================================
