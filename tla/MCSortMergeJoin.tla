--------------------------- MODULE MCSortMergeJoin ---------------------------
(***************************************************************************)
(* Instances of SortMergeJoin for TLC.  Keys repeat in both relations and   *)
(* within a thread's share, two keys share a partition, and some partitions *)
(* are empty.                                                               *)
(***************************************************************************)
EXTENDS SortMergeJoin, TLC

MCKeyR == 0 :> 7 @@ 1 :> 1 @@ 2 :> 9 @@ 3 :> 1 @@ 4 :> 8 @@ 5 :> 3 @@ 6 :> 3 @@ 7 :> 2
          @@ 8 :> 14 @@ 9 :> 1 @@ 10 :> 8 @@ 11 :> 3
MCKeyS == 0 :> 1 @@ 1 :> 8 @@ 2 :> 9 @@ 3 :> 7 @@ 4 :> 1 @@ 5 :> 3

(* The last run of thread 1 and the first of thread 2 are long enough to    *)
(* meet where m-pass puts them.                                             *)
MCKeyRPass == [MCKeyR EXCEPT ![7] = 3]

(* m-pass with AVX is left to an instance of its own. *)
MCBuilds     == {<<"m-way", FALSE>>, <<"m-way", TRUE>>, <<"m-pass", TRUE>>}
MCBuildsPass == {<<"m-pass", FALSE>>}

(* Thread 0 is the first of its region; in the other it is the thread that  *)
(* is created last.                                                         *)
MCRegion == [t \in Threads |-> t % 2]
MCSlot   == [t \in Threads |-> IF t % 2 = 0 THEN t ELSE nthreads - t]

MCShuffleOrder == [t \in Threads |-> (t + nthreads - 1) % nthreads]

(* Runs of one tuple end in the one buffer and runs of two in the other. *)
MCAvxSpace == [n \in 1 .. numR + numS |-> IF n % 2 = 1 THEN "sort" ELSE "part"]
==============================================================================
