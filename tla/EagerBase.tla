------------------------------ MODULE EagerBase ------------------------------
(***************************************************************************)
(* What the eager (online) joins add: tuples arrive in time                 *)
(* (hashing/helper/fetcher.h), and the effect of the local symmetric hash   *)
(* joiner on its windows (hashing/helper/localjoiner.cpp).                  *)
(***************************************************************************)
EXTENDS JoinBase

CONSTANTS TsR, TsS      (* arrival time of each tuple, relative to startTS  *)

ASSUME ArrivalAssumption == TsR \in [RIdx -> Nat] /\ TsS \in [SIdx -> Nat]

(* The windows of a thread, as bags: how often each tuple was inserted.     *)
EmptyR   == [i \in RIdx |-> 0]
EmptyS   == [j \in SIdx |-> 0]
EmptyOut == [i \in RIdx |-> EmptyS]

(* Inserting a tuple and probing the other window: every equal key found    *)
(* there is one more match of the pair.                                     *)
ProbeS(o, winS, i) ==
  [o EXCEPT ![i] = [j \in SIdx |-> @[j] + IF Matching(i, j) THEN winS[j] ELSE 0]]
ProbeR(o, winR, j) ==
  [i \in RIdx |-> [o[i] EXCEPT ![j] = @ + IF Matching(i, j) THEN winR[i] ELSE 0]]
==============================================================================
