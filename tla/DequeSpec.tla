------------------------------ MODULE DequeSpec ------------------------------
(***************************************************************************)
(* What the task queues of the joins promise their threads: a sequence of   *)
(* tasks, added at and taken from its ends one at a time.  A task is given  *)
(* to one thread only, and a thread is sent away empty-handed only when the *)
(* queue is empty.                                                          *)
(***************************************************************************)
EXTENDS Integers, Sequences

CONSTANTS Threads, Tasks,
          None                 (* the null pointer a get may answer         *)

VARIABLES queue,
          got                  (* got[t]: what t's get has answered         *)

dequeVars == <<queue, got>>

DequeInit == queue = << >> /\ got = [t \in Threads |-> None]

AddFront(x) == queue' = <<x>> \o queue /\ UNCHANGED got
AddTail(x)  == queue' = queue \o <<x>> /\ UNCHANGED got

GetFront(t) == /\ queue # << >>
               /\ got' = [got EXCEPT ![t] = Head(queue)]
               /\ queue' = Tail(queue)

GetTail(t) == /\ queue # << >>
              /\ got' = [got EXCEPT ![t] = queue[Len(queue)]]
              /\ queue' = SubSeq(queue, 1, Len(queue) - 1)

GetNothing(t) == /\ queue = << >>
                 /\ got' = [got EXCEPT ![t] = None]
                 /\ UNCHANGED queue

DequeNext == \/ \E x \in Tasks : AddFront(x) \/ AddTail(x)
             \/ \E t \in Threads : GetFront(t) \/ GetTail(t) \/ GetNothing(t)

DequeSafety == DequeInit /\ [][DequeNext]_dequeVars

(* Only the front is used: a stack. *)
StackNext == \/ \E x \in Tasks : AddFront(x)
             \/ \E t \in Threads : GetFront(t) \/ GetNothing(t)

StackSafety == DequeInit /\ [][StackNext]_dequeVars
==============================================================================
