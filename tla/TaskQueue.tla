------------------------------ MODULE TaskQueue ------------------------------
(***************************************************************************)
(* hashing/utils/task_queue.h: the queue of partitioning and join tasks of  *)
(* the radix join.  Its tasks live in slots of blocks that are allocated    *)
(* when the newest block is full; alloc_lock guards that free list, lock    *)
(* guards the list of queued tasks.  A thread gets a slot                   *)
(* (task_queue_get_slot_atomic), fills it without a lock and adds it        *)
(* (task_queue_add_atomic); others take tasks (task_queue_get_atomic).      *)
(***************************************************************************)
EXTENDS Integers, Sequences, FiniteSets

CONSTANTS Threads, Tasks, None,
          alloc_size,          (* slots of a block                          *)
          MaxBlocks            (* bound: blocks the allocator has for us    *)

ASSUME TaskQueueAssumption == /\ alloc_size \in Nat \ {0}
                              /\ MaxBlocks \in Nat \ {0}
                              /\ IsFiniteSet(Tasks)
                              /\ MaxBlocks * alloc_size >= Cardinality(Tasks)
                              /\ None \notin Tasks \cup Threads

(* Pointers to slots *)
Slots == (1 .. MaxBlocks) \X (0 .. alloc_size - 1)
NULL  == <<0, 0>>

VARIABLES pc,
          lock, alloc_lock,    (* the thread that has the mutex, or None    *)
          block, curr,         (* free_list: its newest block, slots used   *)
          head, count, next,   (* the list of queued tasks                  *)
          contents,            (* the task a slot has been filled with      *)
          slot,                (* the slot each thread works on             *)
          given,               (* tasks some thread has come to add         *)
          task,                (* the task a thread is adding               *)
          got                  (* what each thread's last get has answered  *)

vars == <<pc, lock, alloc_lock, block, curr, head, count, next, contents, slot, given, task, got>>
alloc == <<alloc_lock, block, curr>>
list  == <<head, count, next>>

Init == /\ pc = [t \in Threads |-> "idle"]
        /\ lock = None /\ alloc_lock = None
        /\ block = 1 /\ curr = 0
        /\ head = NULL /\ count = 0
        /\ next = [s \in Slots |-> NULL]
        /\ contents = [s \in Slots |-> None]
        /\ slot = [t \in Threads |-> NULL]
        /\ given = {}
        /\ task = [t \in Threads |-> None]
        /\ got = [t \in Threads |-> None]

Goto(t, l) == pc' = [pc EXCEPT ![t] = l]

------------------------------------------------------------------------------
(* task_queue_get_slot_atomic *)

(* A thread has a task to add, as serial_radix_partition does for each pair *)
(* of clusters.                                                             *)
Bring(t) == \E x \in Tasks \ given :
              /\ given' = given \cup {x}
              /\ task' = [task EXCEPT ![t] = x]

LockAlloc(t) == /\ pc[t] = "idle"
                /\ alloc_lock = None
                /\ Bring(t)
                /\ alloc_lock' = t
                /\ Goto(t, "getSlot")
                /\ UNCHANGED <<lock, block, curr, contents, slot, got>> /\ UNCHANGED list

(* l->curr is read ... *)
GetSlot(t) == /\ pc[t] = "getSlot"
              /\ slot' = [slot EXCEPT ![t] = IF curr < alloc_size THEN <<block, curr>>
                                                                  ELSE <<block + 1, 0>>]
              /\ Goto(t, "advance")
              /\ UNCHANGED <<lock, contents, given, task, got>> /\ UNCHANGED <<alloc, list>>

(* slip: the new block is put into use without counting its first slot *)
AdvanceForgotten(t) == /\ pc[t] = "advance"
                       /\ IF slot[t][1] = block THEN curr' = curr + 1 /\ UNCHANGED block
                                                ELSE block' = slot[t][1] /\ curr' = 0
                       /\ alloc_lock' = None
                       /\ Goto(t, "fill")
                       /\ UNCHANGED <<lock, contents, slot, given, task, got>> /\ UNCHANGED list

(* ... and incremented, or a new block put in front of the free list *)
Advance(t) == /\ pc[t] = "advance"
              /\ IF slot[t][1] = block THEN curr' = curr + 1 /\ UNCHANGED block
                                       ELSE block' = slot[t][1] /\ curr' = 1
              /\ alloc_lock' = None
              /\ Goto(t, "fill")
              /\ UNCHANGED <<lock, contents, slot, given, task, got>> /\ UNCHANGED list

(* The caller (serial_radix_partition) writes its task into the slot. *)
Fill(t) == /\ pc[t] = "fill"
           /\ contents' = [contents EXCEPT ![slot[t]] = task[t]]
           /\ Goto(t, "filled")
           /\ UNCHANGED <<lock, slot, given, task, got>> /\ UNCHANGED <<alloc, list>>

------------------------------------------------------------------------------
(* task_queue_add_atomic *)
LockAdd(t) == /\ pc[t] = "filled"
              /\ lock = None
              /\ lock' = t
              /\ Goto(t, "add")
              /\ UNCHANGED <<contents, slot, given, task, got>> /\ UNCHANGED <<alloc, list>>

LinkNext(t) == /\ pc[t] = "add"
               /\ next' = [next EXCEPT ![slot[t]] = head]
               /\ Goto(t, "setHead")
               /\ UNCHANGED <<lock, head, count, contents, slot, given, task, got>> /\ UNCHANGED alloc

SetHead(t) == /\ pc[t] = "setHead"
              /\ head' = slot[t]
              /\ count' = count + 1
              /\ lock' = None
              /\ Goto(t, "idle")
              /\ UNCHANGED <<next, contents, slot, given, task, got>> /\ UNCHANGED alloc

------------------------------------------------------------------------------
(* task_queue_get_atomic *)

(* slip: the mutex is not taken *)
LockGetSkipped(t) == /\ pc[t] = "idle"
                     /\ Goto(t, "get")
                     /\ UNCHANGED <<lock, contents, slot, given, task, got>> /\ UNCHANGED <<alloc, list>>

LockGet(t) == /\ pc[t] = "idle"
              /\ lock = None
              /\ lock' = t
              /\ Goto(t, "get")
              /\ UNCHANGED <<contents, slot, given, task, got>> /\ UNCHANGED <<alloc, list>>

GetHead(t) == /\ pc[t] = "get"
              /\ count > 0
              /\ slot' = [slot EXCEPT ![t] = head]
              /\ Goto(t, "unlink")
              /\ UNCHANGED <<lock, contents, given, task, got>> /\ UNCHANGED <<alloc, list>>

Unlink(t) == /\ pc[t] = "unlink"
             /\ head' = next[slot[t]]
             /\ count' = count - 1
             /\ got' = [got EXCEPT ![t] = contents[slot[t]]]
             /\ lock' = None
             /\ Goto(t, "idle")
             /\ UNCHANGED <<next, contents, slot, given, task>> /\ UNCHANGED alloc

GetNone(t) == /\ pc[t] = "get"
              /\ count = 0
              /\ got' = [got EXCEPT ![t] = None]
              /\ lock' = None
              /\ Goto(t, "idle")
              /\ UNCHANGED <<contents, slot, given, task>> /\ UNCHANGED <<alloc, list>>

ThreadStep(t) == \/ LockAlloc(t) \/ GetSlot(t) \/ Advance(t) \/ Fill(t)
                 \/ LockAdd(t) \/ LinkNext(t) \/ SetHead(t)
                 \/ LockGet(t) \/ GetHead(t) \/ Unlink(t) \/ GetNone(t)

Next == \E t \in Threads : ThreadStep(t)

Spec == Init /\ [][Next]_vars

------------------------------------------------------------------------------
(* The c slots from h on, each followed by what nx makes its next *)
Chain(h, nx, c) == LET from[n \in 0 .. c] == IF n = 0 THEN h ELSE nx[from[n - 1]]
                   IN [n \in 1 .. c |-> from[n - 1]]

(* The queued tasks from the head on *)
Walk == Chain(head, next, count)

Queued == {Walk[n] : n \in 1 .. count}

(* The threads that have a slot of their own *)
Filling == {t \in Threads : pc[t] \in {"fill", "filled", "add", "setHead"}}

(* A slot is worked on by one thread at a time, and by none while it is on  *)
(* the queue, unless that thread is unlinking it: two threads never get the *)
(* same slot (task_queue_get_slot_atomic).                                  *)
SlotsPrivate == /\ \A t, u \in Filling : slot[t] = slot[u] => t = u
                /\ \A t \in Filling : slot[t] \notin Queued

------------------------------------------------------------------------------
(* Why SlotsPrivate holds: an invariant every step preserves *)

TypeOK == /\ pc \in [Threads -> {"idle", "getSlot", "advance", "fill", "filled",
                                 "add", "setHead", "get", "unlink"}]
          /\ lock \in Threads \cup {None} /\ alloc_lock \in Threads \cup {None}
          /\ block \in 1 .. MaxBlocks /\ curr \in 0 .. alloc_size
          /\ head \in Slots \cup {NULL} /\ count \in Nat
          /\ next \in [Slots -> Slots \cup {NULL}]
          /\ contents \in [Slots -> Tasks \cup {None}]
          /\ slot \in [Threads -> Slots \cup {NULL}]
          /\ given \in SUBSET Tasks
          /\ task \in [Threads -> Tasks \cup {None}]
          /\ got \in [Threads -> Tasks \cup {None}]

(* Each critical section is left before another thread enters it. *)
LocksHeld == \A t \in Threads :
  /\ pc[t] \in {"getSlot", "advance"} <=> alloc_lock = t
  /\ pc[t] \in {"add", "setHead", "get", "unlink"} <=> lock = t

(* The slots the free list has given away, and the one it gives next *)
Used == {s \in Slots : s[1] < block \/ (s[1] = block /\ s[2] < curr)}
Free == IF curr < alloc_size THEN <<block, curr>> ELSE <<block + 1, 0>>

(* One slot has been given away for each task that was brought. *)
SlotsCounted == (block - 1) * alloc_size + curr + (IF alloc_lock = None THEN 0 ELSE 1)
                  = Cardinality(given)

(* What a thread has done so far for the task it adds, or takes. *)
Progress == \A t \in Threads :
  /\ pc[t] \in {"getSlot", "advance"} => task[t] \in Tasks
  /\ pc[t] = "advance" => slot[t] = Free
  /\ t \in Filling => slot[t] \in Used /\ task[t] \in Tasks
  /\ pc[t] \in {"filled", "add", "setHead"} => contents[slot[t]] = task[t]
  /\ pc[t] = "setHead" => next[slot[t]] = head
  /\ pc[t] = "unlink" => slot[t] = head /\ count > 0

(* The queue's list has no cycle and only filled slots. *)
ListIntact == /\ \A m, n \in 1 .. count : Walk[m] = Walk[n] => m = n
              /\ \A n \in 1 .. count : Walk[n] \in Used /\ contents[Walk[n]] \in Tasks

(* The inductive invariant: the two mutexes, the free list and the list of  *)
(* queued tasks agree (task_queue_get_slot_atomic, task_queue_add_atomic,   *)
(* task_queue_get_atomic).                                                  *)
QueueInv == TypeOK /\ LocksHeld /\ SlotsCounted /\ Progress /\ ListIntact /\ SlotsPrivate

------------------------------------------------------------------------------
D == INSTANCE DequeSpec WITH queue <- [n \in 1 .. count |-> contents[Walk[n]]]

(* The queue is a stack whose operations happen one after the other         *)
(* (task_queue_add_atomic, task_queue_get_atomic): no task is lost, given   *)
(* out twice or given out before it was filled in, and a thread finds       *)
(* nothing only when there is nothing.                                      *)
ImplementsStack == D!StackSafety
==============================================================================
