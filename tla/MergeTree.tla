----------------------------- MODULE MergeTree -----------------------------
(***************************************************************************)
(* scalar_multiway_merge (sorting/joins/scalar_multiwaymerge.cpp): a thread *)
(* of the m-way sort-merge join merges nparts sorted runs through a tree of *)
(* ring buffers.  nodes[0] and nodes[1] are the children of the root, the   *)
(* children of m are 2m+2 (right) and 2m+3 (left), and each leaf merges two *)
(* runs.  avx_multiway_merge has the same tree and loop and differs in how  *)
(* it compares.  A tuple is its key.                                        *)
(***************************************************************************)
EXTENDS Integers, SequencesExt

CONSTANTS nparts,       (* fan-in, a power of two                            *)
          FifoSizes,    (* capacities of a ring: what the buffer allows      *)
          Inputs        (* functions from 0 .. nparts - 1 to sorted runs     *)

nfifos == nparts - 2

Ordered(s) == \A k \in 1 .. Len(s) - 1 : s[k] <= s[k + 1]

ASSUME TreeAssumption ==
  /\ nparts \in {2 ^ k : k \in 2 .. 8}
  /\ FifoSizes \subseteq Nat \ {0, 1}     (* readthreshold is at least one *)
  /\ \A f \in Inputs : /\ f \in [0 .. nparts - 1 -> Seq(Nat)]
                        /\ \A p \in 0 .. nparts - 1 : Ordered(f[p])

VARIABLES
  fifosize,
  input,               (* the runs as they were                              *)
  unread,              (* parts: what is left of them                        *)
  nodes, done,
  output,
  finished,
  turn,                (* m, the node whose turn it is, -1 for the root      *)
  running              (* the while loop goes on                             *)

treeVars == <<fifosize, input, unread, nodes, done, output, finished, turn, running>>

readthreshold == fifosize \div 2
Leaves        == nparts \div 2 - 2 .. nfifos - 1

TreeInit ==
  /\ fifosize \in FifoSizes
  /\ input \in Inputs /\ unread = input
  /\ nodes = [i \in 0 .. nfifos - 1 |->
                [buffer |-> [slot \in 0 .. fifosize - 1 |-> 0], head |-> 0, tail |-> 0, count |-> 0]]
  /\ done = [i \in 0 .. nfifos - 1 |-> FALSE]
  /\ output = <<>>
  /\ finished = TRUE /\ turn = nfifos - 1
  /\ running = TRUE

------------------------------------------------------------------------------
(* Op of a value that is worked out once. *)
Once(x, Op(_)) == CHOOSE y \in {Op(z) : z \in {x}} : TRUE

(* A ring is taken apart into two blocks that need no modulo.               *)
Slots(from, to) == [k \in 1 .. to - from |-> from + k - 1]

FreeSlots(node) ==
  IF node.head > node.tail THEN Slots(node.tail, node.head)
  ELSE Slots(node.tail, fifosize) \o Slots(0, node.head)

(* slip: a full ring, whose head and tail meet, is taken for an empty one *)
UsedSlotsFullEmpty(node) ==
  IF node.head > node.tail THEN Slots(node.head, fifosize) \o Slots(0, node.tail)
  ELSE Slots(node.head, node.tail)

UsedSlots(node) ==
  IF node.head >= node.tail THEN Slots(node.head, fifosize) \o Slots(0, node.tail)
  ELSE Slots(node.head, node.tail)

Contents(node) ==
  IF node.count = 0 THEN <<>>
  ELSE [k \in DOMAIN UsedSlots(node) |-> node.buffer[UsedSlots(node)[k]]]

Filled(node, s, free) ==
  [node EXCEPT !.buffer = [slot \in DOMAIN @ |->
                             IF \E k \in DOMAIN s : free[k] = slot
                             THEN s[CHOOSE k \in DOMAIN s : free[k] = slot] ELSE @[slot]],
               !.tail = (@ + Len(s)) % fifosize,
               !.count = @ + Len(s)]

Put(node, more) == Once(more, LAMBDA s : Once(FreeSlots(node), LAMBDA free : Filled(node, s, free)))

Take(node, n) == [node EXCEPT !.head = (@ + n) % fifosize, !.count = @ - n]

Room(node) == fifosize - node.count

First(s, n) == SubSeq(s, 1, Min({n, Len(s)}))
Skip(s, n)  == SubSeq(s, n + 1, Len(s))

(* One tuple of either side, as long as both have some: A's only if it is   *)
(* smaller.  a and b count what is used of either.                          *)
MergeOne(A, B, st) ==
  IF st.a = Len(A) \/ st.b = Len(B) THEN st
  ELSE IF A[st.a + 1] < B[st.b + 1]
       THEN [a |-> st.a + 1, b |-> st.b, out |-> Append(st.out, A[st.a + 1])]
       ELSE [a |-> st.a, b |-> st.b + 1, out |-> Append(st.out, B[st.b + 1])]

(* serialmergekernel: up to n tuples *)
Merge2(A, B, n) ==
  LET kernel[k \in 0 .. n] == IF k = 0 THEN [a |-> 0, b |-> 0, out |-> <<>>]
                              ELSE MergeOne(A, B, kernel[k - 1])
  IN  kernel[n]

------------------------------------------------------------------------------
(* readmerge_scalar_decomposed: fill the leaf from its two runs, and when   *)
(* one is used up from the other.                                           *)
Readmerge(node, A, B) ==
  Once(Merge2(A, B, Room(node)), LAMBDA both :
    LET left  == Room(node) - Len(both.out)
        moreA == First(Skip(A, both.a), left)
        moreB == IF both.a = Len(A) THEN First(Skip(B, both.b), left) ELSE <<>>
    IN [node |-> Put(node, both.out \o moreA \o moreB),
        A |-> Skip(A, both.a + Len(moreA)), B |-> Skip(B, both.b + Len(moreB)),
        nread |-> Len(both.out \o moreA \o moreB)])

(* A child that is done and empty lets the other one's tuples through. *)
Through(right, left, rightdone, leftdone) ==
  IF rightdone /\ right.count = 0 THEN IF ~leftdone /\ left.count > 0 THEN "left" ELSE "none"
  ELSE IF leftdone /\ left.count = 0 /\ ~rightdone /\ right.count > 0 THEN "right"
  ELSE "none"

direct_copy(dest, src) ==
  LET s == First(Contents(src), Room(dest)) IN [dest |-> Put(dest, s), src |-> Take(src, Len(s))]

(* slip: what is left of one side may follow as soon as either is done *)
BothDoneEither(rightdone, leftdone) == rightdone \/ leftdone

BothDone(rightdone, leftdone) == rightdone /\ leftdone

(* Merge as long as both children have tuples; only when both are done may  *)
(* the rest of one follow, and of it what fits before the end of the        *)
(* buffer.                                                                  *)
MergeChildren(node, right, left, rightdone, leftdone) ==
  LET R == Contents(right)
      L == Contents(left)
  IN Once(Merge2(R, L, Room(node)), LAMBDA both :
     Once(Put(node, both.out), LAMBDA n :
       LET room  == Min({Room(n), fifosize - n.tail})
           moreR == IF BothDone(rightdone, leftdone) THEN First(Skip(R, both.a), room) ELSE <<>>
           moreL == IF BothDone(rightdone, leftdone) /\ both.a = Len(R)
                    THEN First(Skip(L, both.b), room) ELSE <<>>
       IN [node |-> Put(n, moreR \o moreL),
           right |-> Take(right, both.a + Len(moreR)), left |-> Take(left, both.b + Len(moreL))]))

merge_scalar_decomposed(node, right, left, rightdone, leftdone) ==
  CASE Through(right, left, rightdone, leftdone) = "left" ->
         LET c == direct_copy(node, left) IN [node |-> c.dest, right |-> right, left |-> c.src]
    [] Through(right, left, rightdone, leftdone) = "right" ->
         LET c == direct_copy(node, right) IN [node |-> c.dest, right |-> c.src, left |-> left]
    [] OTHER -> MergeChildren(node, right, left, rightdone, leftdone)

direct_copy_to_output(src) == Contents(src)

(* How many tuples of the two rings the root takes, and which. *)
mergestore_scalar_decomposed(right, left, rightdone, leftdone) ==
  LET R == direct_copy_to_output(right)
      L == direct_copy_to_output(left)
  IN CASE Through(right, left, rightdone, leftdone) = "left"  -> [a |-> 0, b |-> Len(L), out |-> L]
       [] Through(right, left, rightdone, leftdone) = "right" -> [a |-> Len(R), b |-> 0, out |-> R]
       [] OTHER -> Once(Merge2(R, L, Len(R) + Len(L)), LAMBDA both :
                     IF BothDone(rightdone, leftdone)
                     THEN [a |-> Len(R), b |-> Len(L), out |-> both.out \o Skip(R, both.a) \o Skip(L, both.b)]
                     ELSE both)

------------------------------------------------------------------------------
(* A leaf that is less than half full reads.  A leaf that is not has no say *)
(* in finished.                                                             *)
ReadLeaf ==
  /\ running /\ turn \in Leaves
  /\ IF ~done[turn] /\ nodes[turn].count < readthreshold
     THEN LET A == 2 * (nfifos - 1 - turn)
              B == A + 1
          IN \E rd \in {Readmerge(nodes[turn], unread[A], unread[B])} :
               /\ nodes' = [nodes EXCEPT ![turn] = rd.node]
               /\ unread' = [unread EXCEPT ![A] = rd.A, ![B] = rd.B]
               /\ done' = [done EXCEPT ![turn] = rd.nread = 0 \/ (rd.A = <<>> /\ rd.B = <<>>)]
               /\ finished' = (finished /\ done'[turn])
     ELSE UNCHANGED <<nodes, unread, done, finished>>
  /\ turn' = turn - 1
  /\ UNCHANGED <<fifosize, input, output, running>>

(* slip: both children have to be done *)
EitherDoneBoth(r, l) == done[r] /\ done[l]

EitherDone(r, l) == done[r] \/ done[l]

(* slip: an inner node that did not merge has no say either *)
FinishedIfVisited(visited, isdone) == finished /\ (visited => isdone)

(* An inner node keeps the loop going until it is done. *)
FinishedInner(visited, isdone) == finished /\ isdone

(* An inner node merges when it is less than half full and both children    *)
(* are at least half full, and whenever a child is done.                    *)
MergeInner ==
  /\ running /\ turn >= 0 /\ turn \notin Leaves
  /\ LET r == 2 * turn + 2
         l == r + 1
         children_done == EitherDone(r, l)
         wanted == /\ ~done[turn] /\ nodes[turn].count < fifosize
                   /\ children_done \/ nodes[turn].count < readthreshold
         ready == children_done \/ (nodes[r].count >= readthreshold /\ nodes[l].count >= readthreshold)
     IN /\ IF wanted /\ ready
           THEN \E mg \in {merge_scalar_decomposed(nodes[turn], nodes[r], nodes[l], done[r], done[l])} :
                  nodes' = [nodes EXCEPT ![turn] = mg.node, ![r] = mg.right, ![l] = mg.left]
           ELSE UNCHANGED nodes
        /\ done' = IF wanted
                   THEN [done EXCEPT ![turn] = /\ done[r] /\ done[l]
                                            /\ nodes'[r].count = 0 /\ nodes'[l].count = 0]
                   ELSE done
        /\ finished' = FinishedInner(wanted, done'[turn])
  /\ turn' = turn - 1
  /\ UNCHANGED <<fifosize, input, unread, output, running>>

(* The root stores what can be merged, and the loop ends or begins anew. *)
StoreRoot ==
  /\ running /\ turn = -1
  /\ \E st \in {mergestore_scalar_decomposed(nodes[0], nodes[1], done[0], done[1])} :
        /\ nodes' = [nodes EXCEPT ![0] = Take(@, st.a), ![1] = Take(@, st.b)]
        /\ output' = output \o st.out
  /\ running' = ~finished
  /\ finished' = TRUE /\ turn' = nfifos - 1
  /\ UNCHANGED <<fifosize, input, unread, done>>

Stopped == ~running /\ UNCHANGED treeVars

TreeNext == ReadLeaf \/ MergeInner \/ StoreRoot \/ Stopped

(* The thread takes the next step of the loop until it returns; a step of   *)
(* TreeNext moves turn.                                                     *)
Advance == running /\ turn' = IF turn = -1 THEN nfifos - 1 ELSE turn - 1

TreeSpec == TreeInit /\ [][TreeNext]_treeVars /\ WF_turn(Advance)

------------------------------------------------------------------------------
Below(s, t) == s # <<>> /\ t # <<>> => s[Len(s)] <= t[1]

(* head, tail and count of a ring agree, whether it is empty, full or laid  *)
(* over the end of its buffer: merge_scalar_decomposed and direct_copy find *)
(* the blocks by comparing head and tail, the loop looks at count.          *)
RingsAgree == \A i \in DOMAIN nodes : nodes[i].count = Len(Contents(nodes[i]))

(* The tree is in order at every step: each ring is sorted, and no tuple    *)
(* behind it, in a child's ring or in a run not yet read, is smaller than   *)
(* the last that went through.  A side that is only empty for the moment    *)
(* must never be overtaken by the other.                                    *)
TreeInOrder ==
  /\ Ordered(output)
  /\ \A i \in {0, 1} : Below(output, Contents(nodes[i]))
  /\ \A i \in DOMAIN nodes :
       LET c == Contents(nodes[i]) IN
         /\ Ordered(c)
         /\ IF i \in Leaves
            THEN Below(c, unread[2 * (nfifos - 1 - i)]) /\ Below(c, unread[2 * (nfifos - 1 - i) + 1])
            ELSE Below(c, Contents(nodes[2 * i + 2])) /\ Below(c, Contents(nodes[2 * i + 3]))

(* How often key x is in s, and in all of the runs *)
Copies(x, s)     == Cardinality({k \in 1 .. Len(s) : s[k] = x})
AllCopies(x, rs) == FoldFunction(+, 0, [p \in DOMAIN rs |-> Copies(x, rs[p])])

Keys == UNION {ToSet(s) : s \in Range(input) \cup {output}}

(* When the loop ends the output is all of the input, sorted: the loop      *)
(* looks at flags of only some nodes and must not end while a leaf still    *)
(* has tuples to read or a ring still holds some.                           *)
MergedAll == ~running =>
  /\ Ordered(output)
  /\ \A x \in Keys : Copies(x, output) = AllCopies(x, input)

(* The loop ends: no two nodes wait for each other with rings that are too  *)
(* full or too empty to go on.                                              *)
Ends == <>(~running)
==============================================================================
