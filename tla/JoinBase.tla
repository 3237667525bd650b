------------------------------ MODULE JoinBase ------------------------------
(***************************************************************************)
(* What all join algorithms share: the two input relations and the part of  *)
(* them each of the nthreads threads takes.  A tuple is its position in its *)
(* relation; of its contents only the join key matters.                     *)
(***************************************************************************)
EXTENDS Integers, Functions

CONSTANTS nthreads,     (* number of join threads                           *)
          numR, numS,   (* relR->num_tuples, relS->num_tuples               *)
          KeyR, KeyS    (* join key of each tuple                           *)

Threads == 0 .. nthreads - 1
RIdx    == 0 .. numR - 1
SIdx    == 0 .. numS - 1

ASSUME JoinAssumption ==
  /\ nthreads \in Nat \ {0}
  /\ numR \in Nat /\ numS \in Nat
  /\ KeyR \in [RIdx -> Nat] /\ KeyS \in [SIdx -> Nat]

(* The tuples i with Begin <= i < End of a relation of n tuples are thread  *)
(* t's share; the last thread also takes the remainder of the division.     *)
ShareBegin(n, t) == (n \div nthreads) * t

(* slip: the remainder of the division is forgotten *)
ShareEndNoRest(n, t) == (n \div nthreads) * (t + 1)

ShareEnd(n, t) == IF t = nthreads - 1 THEN n ELSE (n \div nthreads) * (t + 1)

Matching(i, j) == KeyR[i] = KeyS[j]

(* The pairs of positions, and those a join has to produce *)
Pairs == RIdx \X SIdx
Equal == {p \in Pairs : Matching(p[1], p[2])}

(* If thread t has counted the pair (i, j) o[t][i][j] times: how often each *)
(* pair has been counted by all threads together.                           *)
Total(f)      == FoldFunction(+, 0, f)
SumOver(f, S) == FoldFunctionOnSet(+, 0, f, S)
Produced(o)   == [p \in Pairs |-> Total([t \in Threads |-> o[t][p[1]][p[2]]])]

(* A pair is counted by at most one thread, once, and only if its keys are  *)
(* equal; every pair of equal keys is counted.                              *)
CountedOnce(o) == \A t \in Threads, i \in RIdx, j \in SIdx :
  o[t][i][j] > 0 => /\ Matching(i, j)
                    /\ o[t][i][j] = 1
                    /\ \A u \in Threads \ {t} : o[u][i][j] = 0

CountedAll(o) == \A i \in RIdx, j \in SIdx :
  Matching(i, j) => \E t \in Threads : o[t][i][j] = 1
==============================================================================
