------------------------------ MODULE RadixJoin ------------------------------
(***************************************************************************)
(* prj_thread (hashing/joins/parallel_radix_join.cpp): the parallel radix   *)
(* join PRO in its two-pass build.  The threads scatter R and then S into   *)
(* clusters of temporary space (parallel_radix_partition), thread 0 makes a *)
(* task of each pair of clusters and puts it on the queue of a NUMA node,   *)
(* the threads of a node split its tasks further, back into the space of    *)
(* the input relations (serial_radix_partition), and join the pieces.       *)
(* A queue operation is one step: each is done under the queue's mutex.     *)
(***************************************************************************)
EXTENDS JoinBase, FiniteSets, SequencesExt

CONSTANTS D1, D2,                (* radix bits of the two passes            *)
          SMALL_PADDING_TUPLES,
          numnuma,               (* get_num_numa_regions()                  *)
          Nodes                  (* the nodes the kernel places pages on    *)

FANOUT_PASS1   == 2 ^ D1
FANOUT_PASS2   == 2 ^ D2
PADDING_TUPLES == SMALL_PADDING_TUPLES * (FANOUT_PASS2 + 1)
Clusters1      == 0 .. FANOUT_PASS1 - 1
Clusters2      == 0 .. FANOUT_PASS2 - 1

ASSUME RadixAssumption ==
  /\ D1 \in Nat /\ D2 \in Nat
  /\ FANOUT_PASS1 > 0 /\ FANOUT_PASS2 > 0
  /\ SMALL_PADDING_TUPLES \in Nat
  /\ numnuma \in Nat \ {0}
  /\ Nodes \subseteq 0 .. numnuma - 1

(* The two relations, and the space each has with its RELATION_PADDING *)
Rels      == {"R", "S"}
Num(x)    == IF x = "R" THEN numR ELSE numS
Tuples(x) == 0 .. Num(x) - 1
Key(x, i) == IF x = "R" THEN KeyR[i] ELSE KeyS[i]
NoTuple   == -1

Addr(x) == 0 .. Num(x) + FANOUT_PASS1 * PADDING_TUPLES - 1

(* The D bits of a key above its lowest R *)
HASH_BIT_MODULO(key, R, D) == (key \div 2 ^ R) % 2 ^ D

Cluster1(x, i) == HASH_BIT_MODULO(Key(x, i), 0, D1)
Cluster2(x, i) == HASH_BIT_MODULO(Key(x, i), D1, D2)

get_numa_id(t) == t % numnuma

VARIABLES pc,
          rel,                     (* the relation a thread partitions      *)
          mem,                     (* the input relations: a tuple per slot *)
          tmp,                     (* the temporary space                   *)
          hist,                    (* histR, histS: one row per thread      *)
          output,                  (* outputR, outputS of each thread       *)
          dst, pos,                (* locals of parallel_radix_partition    *)
          part_queue, join_queue,  (* per NUMA region, newest task first    *)
          todo,                    (* join tasks a thread has still to add  *)
          out                      (* out[t][i][j]: times t counted (i, j)  *)

vars == <<pc, rel, mem, tmp, hist, output, dst, pos, part_queue, join_queue, todo, out>>
partition == <<rel, hist, output, dst, pos>>

NoTasks == [n \in 0 .. numnuma - 1 |-> << >>]

Init == /\ pc = [t \in Threads |-> "launched"]
        /\ rel = [t \in Threads |-> "R"]
        /\ mem = [x \in Rels |-> [a \in Addr(x) |-> IF a < Num(x) THEN a ELSE NoTuple]]
        /\ tmp = [x \in Rels |-> [a \in Addr(x) |-> NoTuple]]
        /\ hist = [x \in Rels |-> [t \in Threads |-> [c \in Clusters1 |-> 0]]]
        /\ output = [x \in Rels |-> [t \in Threads |-> [c \in 0 .. FANOUT_PASS1 |-> 0]]]
        /\ dst = [t \in Threads |-> [c \in Clusters1 |-> 0]]
        /\ pos = [t \in Threads |-> 0]
        /\ part_queue = NoTasks /\ join_queue = NoTasks
        /\ todo = [t \in Threads |-> << >>]
        /\ out = [t \in Threads |-> [i \in RIdx |-> [j \in SIdx |-> 0]]]

------------------------------------------------------------------------------
(* Barriers, by the pcs of those that have come to them. *)
Joined      == {"joined", "exited"}
Partitioned == {"partitioned", "join"} \cup Joined
TasksMade   == {"tasksMade", "part", "add"} \cup Partitioned
Copied      == {"copied"} \cup TasksMade
Started     == {"atStart", "hist", "counted", "copy"} \cup Copied

Goto(t, l) == pc' = [pc EXCEPT ![t] = l]

CrossBarrier(t, from, team, to) == /\ pc[t] = from
                                   /\ \A u \in Threads : pc[u] \in team
                                   /\ Goto(t, to)

Arrive(t) == /\ pc[t] = "launched"
             /\ Goto(t, "atStart")
             /\ UNCHANGED <<mem, tmp, part_queue, join_queue, todo, out>> /\ UNCHANGED partition

Start(t) == /\ CrossBarrier(t, "atStart", Started, "hist")
            /\ UNCHANGED <<mem, tmp, part_queue, join_queue, todo, out>> /\ UNCHANGED partition

------------------------------------------------------------------------------
(* parallel_radix_partition, for the relation x the thread is at *)
Share(x, t) == ShareBegin(Num(x), t) .. ShareEnd(Num(x), t) - 1

(* The histogram of the thread's share, as running totals *)
PrefixSums(x, t) == [c \in Clusters1 |->
                       Cardinality({i \in Share(x, t) : Cluster1(x, mem[x][i]) <= c})]

Histogram(t) == /\ pc[t] = "hist"
                /\ hist' = [hist EXCEPT ![rel[t]][t] = PrefixSums(rel[t], t)]
                /\ Goto(t, "counted")
                /\ UNCHANGED <<rel, mem, tmp, output, dst, pos, part_queue, join_queue, todo, out>>

(* slip: the running totals of the threads from t on are of the same        *)
(* cluster, not of the one before                                           *)
ClusterStartWrong(x, t, c) ==
  SumOver([u \in Threads |-> hist[x][u][c]], Threads) + c * PADDING_TUPLES

(* Where thread t's part of cluster c begins: behind all smaller clusters   *)
(* and the parts of the threads before it.                                  *)
ClusterStart(x, t, c) ==
  c * PADDING_TUPLES
    + SumOver([u \in Threads |-> hist[x][u][c]], 0 .. t - 1)
    + IF c = 0 THEN 0 ELSE SumOver([u \in Threads |-> hist[x][u][c - 1]], t .. nthreads - 1)

(* All threads have counted rel[t]: those that are at S, or past it, have   *)
(* counted R.                                                               *)
HasCounted(u, x) == \/ pc[u] \in Copied
                    \/ rel[u] = "S" /\ x = "R"
                    \/ rel[u] = x /\ pc[u] \in {"counted", "copy"}

Offsets(t) ==
  LET x == rel[t] IN
    /\ pc[t] = "counted"
    /\ \A u \in Threads : HasCounted(u, x)
    /\ output' = [output EXCEPT ![x][t] =
         [c \in 0 .. FANOUT_PASS1 |-> IF c = FANOUT_PASS1
                                      THEN Num(x) + FANOUT_PASS1 * PADDING_TUPLES
                                      ELSE ClusterStart(x, t, c)]]
    /\ dst' = [dst EXCEPT ![t] = [c \in Clusters1 |-> ClusterStart(x, t, c)]]
    /\ pos' = [pos EXCEPT ![t] = ShareBegin(Num(x), t)]
    /\ Goto(t, "copy")
    /\ UNCHANGED <<rel, mem, tmp, hist, part_queue, join_queue, todo, out>>

Copy(t) ==
  LET x == rel[t]
      c == Cluster1(x, mem[x][pos[t]])
  IN /\ pc[t] = "copy"
     /\ pos[t] < ShareEnd(Num(x), t)
     /\ tmp' = [tmp EXCEPT ![x][dst[t][c]] = mem[x][pos[t]]]
     /\ dst' = [dst EXCEPT ![t][c] = @ + 1]
     /\ pos' = [pos EXCEPT ![t] = @ + 1]
     /\ UNCHANGED <<pc, rel, mem, hist, output, part_queue, join_queue, todo, out>>

CopyDone(t) == /\ pc[t] = "copy"
               /\ pos[t] = ShareEnd(Num(rel[t]), t)
               /\ IF rel[t] = "R" THEN Goto(t, "hist") ELSE Goto(t, "copied")
               /\ rel' = [rel EXCEPT ![t] = "S"]
               /\ UNCHANGED <<mem, tmp, hist, output, dst, pos, part_queue, join_queue, todo, out>>

------------------------------------------------------------------------------
(* A task: where its piece of each relation begins, and how long it is.  A  *)
(* task for the second pass lies in tmp, a join task in mem.                *)

PartTask(c) == [base |-> [x \in Rels |-> output[x][0][c]],
                n    |-> [x \in Rels |-> output[x][0][c + 1] - output[x][0][c] - PADDING_TUPLES]]

BothSides(task) == \A x \in Rels : task.n[x] > 0

(* The clusters C in the order in which a loop over all comes to them *)
InOrder(C) == [k \in 1 .. Cardinality(C) |-> CHOOSE c \in C : Cardinality({d \in C : d < c}) = k - 1]

(* Thread 0 puts a task on the queue of the node its cluster of R is on;    *)
(* the kernel has decided which that is.                                    *)
TasksOn(q, node) ==
  LET clusters == InOrder({c \in Clusters1 : node[c] = q /\ BothSides(PartTask(c))})
  IN Reverse([k \in DOMAIN clusters |-> PartTask(clusters[k])])

CreateTasks(t) ==
  /\ CrossBarrier(t, "copied", Copied, "tasksMade")
  /\ IF t = 0
     THEN \E node \in [Clusters1 -> Nodes] :
            part_queue' = [q \in DOMAIN part_queue |-> TasksOn(q, node)]
     ELSE UNCHANGED part_queue
  /\ UNCHANGED <<mem, tmp, join_queue, todo, out>> /\ UNCHANGED partition

(* slip: the barrier behind the creation of the tasks is left out *)
StartPartEarly(t) == /\ pc[t] = "tasksMade"
                     /\ Goto(t, "part")
                     /\ UNCHANGED <<mem, tmp, part_queue, join_queue, todo, out>> /\ UNCHANGED partition

StartPart(t) == /\ CrossBarrier(t, "tasksMade", TasksMade, "part")
                /\ UNCHANGED <<mem, tmp, part_queue, join_queue, todo, out>> /\ UNCHANGED partition

------------------------------------------------------------------------------
(* radix_cluster: the second pass over the piece of a task *)
Piece(task, x)     == task.base[x] .. task.base[x] + task.n[x] - 1
InCluster(task, x, c) == {a \in Piece(task, x) : Cluster2(x, tmp[x][a]) = c}

(* slip: no padding between the clusters *)
SubStartUnpadded(task, x, c) ==
  task.base[x] + Cardinality({a \in Piece(task, x) : Cluster2(x, tmp[x][a]) < c})

SubStart(task, x, c) ==
  task.base[x] + c * SMALL_PADDING_TUPLES
    + Cardinality({a \in Piece(task, x) : Cluster2(x, tmp[x][a]) < c})

(* The slot the tuple in slot a goes to: tuples of a cluster keep their     *)
(* order.                                                                   *)
Scatter(task, x, a) ==
  LET c == Cluster2(x, tmp[x][a]) IN
    SubStart(task, x, c) + Cardinality({d \in InCluster(task, x, c) : d < a})

radix_cluster(task, x) ==
  [d \in Addr(x) |->
     LET from == {a \in Piece(task, x) : Scatter(task, x, a) = d} IN
       IF from = {} THEN mem[x][d] ELSE tmp[x][Max(from)]]

(* The pieces serial_radix_partition makes a join task of: their offsets    *)
(* are added up again, with the padding.                                    *)
JoinTask(task, c) ==
  [base |-> [x \in Rels |-> task.base[x] + c * SMALL_PADDING_TUPLES
                            + SumOver([d \in Clusters2 |-> Cardinality(InCluster(task, x, d))], 0 .. c - 1)],
   n    |-> [x \in Rels |-> Cardinality(InCluster(task, x, c))]]

TakePart(t) ==
  LET q == get_numa_id(t)
      task == Head(part_queue[q])
  IN /\ pc[t] = "part"
     /\ part_queue[q] # << >>
     /\ part_queue' = [part_queue EXCEPT ![q] = Tail(@)]
     /\ mem' = [x \in Rels |-> radix_cluster(task, x)]
     /\ LET pieces == InOrder({c \in Clusters2 : BothSides(JoinTask(task, c))})
        IN  todo' = [todo EXCEPT ![t] = [k \in DOMAIN pieces |-> JoinTask(task, pieces[k])]]
     /\ Goto(t, "add")
     /\ UNCHANGED <<tmp, join_queue, out>> /\ UNCHANGED partition

(* task_queue_add_atomic *)
AddJoin(t) ==
  /\ pc[t] = "add"
  /\ todo[t] # << >>
  /\ join_queue' = [join_queue EXCEPT ![get_numa_id(t)] = <<Head(todo[t])>> \o @]
  /\ todo' = [todo EXCEPT ![t] = Tail(@)]
  /\ UNCHANGED <<pc, mem, tmp, part_queue, out>> /\ UNCHANGED partition

AddDone(t) == /\ pc[t] = "add"
              /\ todo[t] = << >>
              /\ Goto(t, "part")
              /\ UNCHANGED <<mem, tmp, part_queue, join_queue, todo, out>> /\ UNCHANGED partition

(* slip: the loop over the queue ends before it is empty *)
PartDoneEarly(t) == /\ pc[t] = "part"
                    /\ Goto(t, "partitioned")
                    /\ UNCHANGED <<mem, tmp, part_queue, join_queue, todo, out>> /\ UNCHANGED partition

PartDone(t) == /\ pc[t] = "part"
               /\ part_queue[get_numa_id(t)] = << >>
               /\ Goto(t, "partitioned")
               /\ UNCHANGED <<mem, tmp, part_queue, join_queue, todo, out>> /\ UNCHANGED partition

------------------------------------------------------------------------------
StartJoin(t) == /\ CrossBarrier(t, "partitioned", Partitioned, "join")
                /\ UNCHANGED <<mem, tmp, part_queue, join_queue, todo, out>> /\ UNCHANGED partition

(* bucket_chaining_join counts the pairs of slots with equal keys *)
Hits(task, i, j) == IF Matching(i, j)
                    THEN Cardinality({p \in Piece(task, "R") \X Piece(task, "S") :
                                        mem["R"][p[1]] = i /\ mem["S"][p[2]] = j})
                    ELSE 0

JoinPiece(t) ==
  LET q == get_numa_id(t)
      task == Head(join_queue[q])
  IN /\ pc[t] = "join"
     /\ join_queue[q] # << >>
     /\ join_queue' = [join_queue EXCEPT ![q] = Tail(@)]
     /\ out' = [out EXCEPT ![t] = [i \in RIdx |-> [j \in SIdx |-> @[i][j] + Hits(task, i, j)]]]
     /\ UNCHANGED <<pc, mem, tmp, part_queue, todo>> /\ UNCHANGED partition

(* slip: a thread that finds its queue empty looks again *)
JoinDoneSpin(t) == /\ pc[t] = "join"
                   /\ join_queue[get_numa_id(t)] = << >>
                   /\ Goto(t, "join")
                   /\ UNCHANGED <<mem, tmp, part_queue, join_queue, todo, out>> /\ UNCHANGED partition

JoinDone(t) == /\ pc[t] = "join"
               /\ join_queue[get_numa_id(t)] = << >>
               /\ Goto(t, "joined")
               /\ UNCHANGED <<mem, tmp, part_queue, join_queue, todo, out>> /\ UNCHANGED partition

Exit(t) == /\ CrossBarrier(t, "joined", Joined, "exited")
           /\ UNCHANGED <<mem, tmp, part_queue, join_queue, todo, out>> /\ UNCHANGED partition

AllExited == \A t \in Threads : pc[t] = "exited"
Terminated == AllExited /\ UNCHANGED vars

ThreadStep(t) == \/ Arrive(t) \/ Start(t) \/ Histogram(t) \/ Offsets(t) \/ Copy(t) \/ CopyDone(t)
                 \/ CreateTasks(t) \/ StartPart(t) \/ TakePart(t) \/ AddJoin(t) \/ AddDone(t)
                 \/ PartDone(t) \/ StartJoin(t) \/ JoinPiece(t) \/ JoinDone(t) \/ Exit(t)

Next == (\E t \in Threads : ThreadStep(t)) \/ Terminated

(* Every thread has its core; the mutexes of the queues are held for a few  *)
(* instructions only.                                                       *)
Fairness == \A t \in Threads : WF_vars(ThreadStep(t))

SafeSpec == Init /\ [][Next]_vars

Spec == SafeSpec /\ Fairness

------------------------------------------------------------------------------
QueuedTasks(queue) == UNION {Range(queue[n]) : n \in DOMAIN queue}
JoinTasks == QueuedTasks(join_queue) \cup UNION {Range(todo[t]) : t \in Threads}

Task == [base : [Rels -> Nat], n : [Rels -> Nat]]

(* The kinds of values *)
TypeOK ==
  /\ pc \in [Threads -> {"launched"} \cup Started]
  /\ rel \in [Threads -> Rels]
  /\ DOMAIN mem = Rels /\ DOMAIN tmp = Rels
  /\ \A x \in Rels : /\ mem[x] \in [Addr(x) -> Tuples(x) \cup {NoTuple}]
                     /\ tmp[x] \in [Addr(x) -> Tuples(x) \cup {NoTuple}]
  /\ hist \in [Rels -> [Threads -> [Clusters1 -> Nat]]]
  /\ output \in [Rels -> [Threads -> [0 .. FANOUT_PASS1 -> Nat]]]
  /\ dst \in [Threads -> [Clusters1 -> Nat]]
  /\ pos \in [Threads -> Nat]
  /\ part_queue \in [0 .. numnuma - 1 -> Seq(Task)]
  /\ join_queue \in [0 .. numnuma - 1 -> Seq(Task)]
  /\ todo \in [Threads -> Seq(Task)]
  /\ out \in [Threads -> [RIdx -> [SIdx -> Nat]]]

(* No thread writes outside of the space the relations were allocated with  *)
(* (parallel_radix_partition), and no task reaches out of it.               *)
InSpace ==
  /\ \A t \in Threads :
       pc[t] = "copy" /\ pos[t] < ShareEnd(Num(rel[t]), t) =>
         dst[t][Cluster1(rel[t], mem[rel[t]][pos[t]])] \in Addr(rel[t])
  /\ \A task \in QueuedTasks(part_queue) \cup JoinTasks, x \in Rels : Piece(task, x) \subseteq Addr(x)

(* When the threads have copied out (parallel_radix_partition), every tuple *)
(* is in the temporary space once, and cluster c is what lies between       *)
(* thread 0's output[c] and the padding before output[c + 1]: no thread has *)
(* overwritten a tuple of another.                                          *)
FirstPassExact ==
  (\A t \in Threads : pc[t] \in Copied) =>
    \A x \in Rels, c \in Clusters1 :
      LET slots == output[x][0][c] .. output[x][0][c + 1] - PADDING_TUPLES - 1 IN
        /\ {tmp[x][a] : a \in slots} = {i \in Tuples(x) : Cluster1(x, i) = c}
        /\ Cardinality(slots) = Cardinality({i \in Tuples(x) : Cluster1(x, i) = c})

(* A join task (serial_radix_partition) holds all the tuples of R and of S  *)
(* that agree in their low bits, from the time it is made until it is       *)
(* joined: other tasks of the second pass, which write to the same space,   *)
(* do not reach into it.                                                    *)
JoinTaskExact ==
  \A task \in JoinTasks :
    \E c \in Clusters1, d \in Clusters2 :
      \A x \in Rels :
        LET members == {i \in Tuples(x) : Cluster1(x, i) = c /\ Cluster2(x, i) = d} IN
          /\ {mem[x][a] : a \in Piece(task, x)} = members
          /\ task.n[x] = Cardinality(members)

J == INSTANCE JoinSpec WITH produced <- Produced(out), done <- AllExited

(* PRO implements the join: both passes keep equal keys together, and each  *)
(* piece is joined once by a thread that reads its queue (prj_thread).      *)
ImplementsJoin == J!JoinSafety

(* Every thread gets through the barriers and finds its queues empty in the *)
(* end (prj_thread).                                                        *)
Terminates == <>AllExited

------------------------------------------------------------------------------
(* The inductive invariant *)

Members(x, c)     == {i \in Tuples(x) : Cluster1(x, i) = c}
Members2(x, c, d) == {i \in Members(x, c) : Cluster2(x, i) = d}

(* Where cluster c begins, and the slot tuple i is scattered to *)
Start1(x, c) == c * PADDING_TUPLES + Cardinality({i \in Tuples(x) : Cluster1(x, i) < c})
Slot(x, i)   == Start1(x, Cluster1(x, i)) + Cardinality({j \in Members(x, Cluster1(x, i)) : j < i})

(* The task of cluster c, and the one of its d-th piece *)
Whole(c)   == [base |-> [x \in Rels |-> Start1(x, c)],
               n    |-> [x \in Rels |-> Cardinality(Members(x, c))]]
Part(c, d) == [base |-> [x \in Rels |-> Start1(x, c) + d * SMALL_PADDING_TUPLES
                                         + Cardinality({i \in Members(x, c) : Cluster2(x, i) < d})],
               n    |-> [x \in Rels |-> Cardinality(Members2(x, c, d))]]

(* What the barriers keep apart *)
PhaseInv ==
  \A t \in Threads :
    /\ pc[t] \in {"launched", "atStart"} => rel[t] = "R"
    /\ pc[t] \in Copied => rel[t] = "S"
    /\ \A u \in Threads :
         /\ pc[t] \in TasksMade => pc[u] \in Copied
         /\ pc[t] \in TasksMade \ {"tasksMade"} => pc[u] \in TasksMade
         /\ pc[t] \in Partitioned \ {"partitioned"} => pc[u] \in Partitioned
         /\ pc[t] = "exited" => pc[u] \in Joined

HasOffsets(u, x) == \/ pc[u] \in Copied
                    \/ rel[u] = "S" /\ x = "R"
                    \/ rel[u] = x /\ pc[u] = "copy"

(* The running totals stay what they were when a fast thread counts S.      *)
HistInv ==
  \A u \in Threads, x \in Rels : HasCounted(u, x) =>
    hist[x][u] = [c \in Clusters1 |-> Cardinality({i \in Share(x, u) : Cluster1(x, i) <= c})]

OutputInv ==
  \A x \in Rels : HasOffsets(0, x) => output[x][0] = [c \in 0 .. FANOUT_PASS1 |-> Start1(x, c)]

(* A thread is about to put the next tuple of each cluster where it belongs. *)
CopyInv ==
  \A t \in Threads : pc[t] = "copy" =>
    /\ pos[t] \in ShareBegin(Num(rel[t]), t) .. ShareEnd(Num(rel[t]), t)
    /\ \A c \in Clusters1 :
         dst[t][c] = Start1(rel[t], c) + Cardinality({i \in Members(rel[t], c) : i < pos[t]})

TmpInv ==
  \A t \in Threads, x \in Rels : HasOffsets(t, x) =>
    \A i \in Share(x, t) : (rel[t] = x /\ pc[t] = "copy" => i < pos[t]) => tmp[x][Slot(x, i)] = i

(* The input is as it was until all have scattered it. *)
MemInv ==
  (\E t \in Threads : pc[t] \notin TasksMade) =>
    \A x \in Rels : \A i \in Tuples(x) : mem[x][i] = i

TaskInv ==
  /\ \A task \in QueuedTasks(part_queue) : \E c \in Clusters1 : task = Whole(c)
  /\ \A task \in JoinTasks : \E c \in Clusters1, d \in Clusters2 :
       /\ task = Part(c, d)
       /\ \A x \in Rels : {mem[x][a] : a \in Piece(task, x)} = Members2(x, c, d)

PassInv == TypeOK /\ PhaseInv /\ HistInv /\ OutputInv /\ CopyInv /\ TmpInv /\ MemInv /\ TaskInv

(* No task is in two places, or in two passes. *)
Distinct(queue) ==
  \A n, m \in DOMAIN queue : \A k \in DOMAIN queue[n], l \in DOMAIN queue[m] :
    queue[n][k] = queue[m][l] => n = m /\ k = l

OnceInv ==
  /\ Distinct(part_queue) /\ Distinct(join_queue) /\ Distinct(todo)
  /\ QueuedTasks(todo) \cap QueuedTasks(join_queue) = {}
  /\ \A task \in QueuedTasks(part_queue) \cup JoinTasks : BothSides(task)
  /\ \A c \in Clusters1, d \in Clusters2 : Part(c, d) \in JoinTasks => Whole(c) \notin QueuedTasks(part_queue)

(* Where tasks can be, and the queues a thread leaves empty for good *)
DrainInv ==
  /\ pc[0] \notin TasksMade => QueuedTasks(part_queue) = {} /\ JoinTasks = {}
  /\ \A n \in DOMAIN part_queue : part_queue[n] # << >> => n \in Nodes
  /\ \A n \in DOMAIN join_queue : join_queue[n] # << >> => \E t \in Threads : get_numa_id(t) = n
  /\ \A t \in Threads : /\ pc[t] # "add" => todo[t] = << >>
                        /\ pc[t] \in Partitioned => part_queue[get_numa_id(t)] = << >>
                        /\ pc[t] \in Joined => join_queue[get_numa_id(t)] = << >>

(* A pair is counted once the task that holds it is no longer to be found.  *)
CountInv ==
  /\ CountedOnce(out)
  /\ \A i \in RIdx, j \in SIdx : Matching(i, j) =>
       ((\E t \in Threads : out[t][i][j] = 1) <=>
          /\ pc[0] \in TasksMade
          /\ Whole(Cluster1("R", i)) \notin QueuedTasks(part_queue)
          /\ Part(Cluster1("R", i), Cluster2("R", i)) \notin JoinTasks)

IInv == PassInv /\ OnceInv /\ DrainInv /\ CountInv
==============================================================================
