------------------------------ MODULE SkewMerge ------------------------------
(***************************************************************************)
(* multiwaymerge_phase_withskewhandling (sorting/joins): how the m-way sort-*)
(* merge join with skew handling merges S.  A thread whose runs of S are    *)
(* much more than its share cuts them by key into several merge tasks, and  *)
(* cuts a heavy hitter out of the largest, to be copied instead of merged.  *)
(* The tasks of the threads of a NUMA region go to a queue of the region;   *)
(* after a barrier all its threads take tasks until the queue is empty.     *)
(*                                                                           *)
(* The phases before and after, and the merge of R, are those of            *)
(* SortMergeJoin.  A tuple is its key.                                      *)
(***************************************************************************)
EXTENDS Integers, SequencesExt

CONSTANTS nthreads,
          PARTFANOUT,    (* runs each thread has to merge                    *)
          NumaRegion,    (* where the cpu of each thread is                  *)
          SAMPLES,       (* SKEW_DECOMPOSE_SAMPLES                           *)
          Inputs,        (* runs of S: a sorted run per thread and index     *)
          SplitKeys      (* bound: keys that a splitter may be               *)

Threads == 0 .. nthreads - 1
Parts   == 0 .. PARTFANOUT - 1
Regions == {NumaRegion[t] : t \in Threads}

Tuples(runs) == FoldFunction(+, 0, [p \in Parts |-> Len(runs[p])])
AllTuples(f) == FoldFunction(+, 0, [t \in Threads |-> Tuples(f[t])])

ASSUME SkewAssumption ==
  /\ nthreads \in Nat \ {0, 1}  (* one thread has nothing to merge *)
  /\ SAMPLES \in Nat \ {0}
  /\ PARTFANOUT \in 1 .. 16     (* SKEW_MAX_HEAVY_HITTERS, one of each run *)
  /\ NumaRegion \in [Threads -> Nat]
  /\ \A f \in Inputs : /\ AllTuples(f) >= nthreads     (* no share is empty *)
                       /\ \A t \in Threads, p \in Parts :
                            /\ \A k \in DOMAIN f[t][p] : f[t][p][k] \in Nat \ {0}
                            /\ \A k \in 1 .. Len(f[t][p]) - 1 : f[t][p][k] <= f[t][p][k + 1]

(* The share of S that sortmergejoin_initrun gave a thread, plus ten percent *)
DECOMPOSE_THRESHOLD ==
  [f \in Inputs |-> [t \in Threads |->
     LET n == AllTuples(f) \div nthreads
     IN  ((IF t = nthreads - 1 THEN AllTuples(f) - t * n ELSE n) * 11) \div 10]]

Sorted(s)    == SortSeq(s, <)
Concat(runs) == FlattenSeq([n \in 1 .. PARTFANOUT |-> runs[n - 1]])

------------------------------------------------------------------------------
(* generic_task_queue: a doubly linked list of slots, which come from the   *)
(* free list one after the other and are not given back.  A call holds the  *)
(* queue's mutex from beginning to end and is one step.                     *)
NULL == 0

taskqueue_init == [head |-> NULL, tail |-> NULL, count |-> 0, next |-> << >>, prev |-> << >>, task |-> << >>]

taskqueue_addfront(tq, x) ==
  LET slot == Len(tq.task) + 1
  IN  [task |-> Append(tq.task, x), next |-> Append(tq.next, tq.head), prev |-> Append(tq.prev, NULL),
       head |-> slot, tail |-> IF tq.tail = NULL THEN slot ELSE tq.tail, count |-> tq.count + 1]

taskqueue_addtail(tq, x) ==
  LET slot == Len(tq.task) + 1
      next == Append(tq.next, NULL)
  IN  [task |-> Append(tq.task, x),
       next |-> IF tq.tail = NULL THEN next ELSE [next EXCEPT ![tq.tail] = slot],
       prev |-> Append(tq.prev, tq.tail),
       head |-> IF tq.tail = NULL THEN slot ELSE tq.head, tail |-> slot, count |-> tq.count + 1]

(* The queue without its first task *)
taskqueue_getfront(tq) ==
  LET head == tq.next[tq.head]
  IN  [tq EXCEPT !.head = head, !.count = @ - 1,
                 !.tail = IF tq.count = 1 THEN NULL ELSE @,
                 !.prev = IF tq.count = 1 THEN @ ELSE [@ EXCEPT ![head] = NULL]]

------------------------------------------------------------------------------
(* Offsets in sorted runs, from zero *)

(* The first offset whose key is not below skey, or one past the end *)
binsearch_lower_bound(run, skey) ==
  LET n == Len(run)
      key(off) == run[off + 1]
      search[lo, hi \in 0 .. n] ==
        IF lo < hi THEN LET mid == (lo + hi) \div 2
                        IN  IF key(mid) >= skey THEN search[lo, mid] ELSE search[mid + 1, hi]
        ELSE IF key(lo) >= skey THEN lo ELSE lo + 1
  IN  search[0, n - 1]

(* The last offset whose key is below skey; 0 also when there is none *)
binsearch_upper_bound(run, skey) ==
  LET n == Len(run)
      key(off) == run[off + 1]
      search[lo, hi \in 0 .. n] ==
        IF lo < hi THEN LET mid == (lo + hi + 1) \div 2
                        IN  IF key(mid) < skey THEN search[mid, hi] ELSE search[lo, mid - 1]
        ELSE IF key(lo) < skey THEN lo ELSE 0
  IN  search[0, n - 1]

First(run, n)   == SubSeq(run, 1, n)
Without(run, n) == SubSeq(run, n + 1, Len(run))

(* find_heavy_hitters: keys of more than half of a run's samples.  The last *)
(* key among the samples is never looked at, and so a run that is too short *)
(* to be sampled, whose samples are all what is in front of it, has none.   *)
Samples(run) == [i \in 1 .. SAMPLES |-> run[i * (Len(run) \div SAMPLES)]]

find_heavy_hitters(run) ==
  IF Len(run) < SAMPLES THEN {}
  ELSE LET s == Samples(run)
       IN  {k \in {s[i] : i \in DOMAIN s} \ {s[SAMPLES]} :
              Cardinality({i \in DOMAIN s : s[i] = k}) > SAMPLES \div 2}

------------------------------------------------------------------------------
(* Merge tasks: where in whose merged relation the result is to go, and the *)
(* runs it comes from.                                                      *)
Task(t, at, runs, isheavyhitter) ==
  [owner |-> t, output |-> at, runs |-> runs, totaltuples |-> Tuples(runs), isheavyhitter |-> isheavyhitter]

(* create_and_add_merge_tasks: the n-th task has what is below the n-th     *)
(* splitter and in no task before, the last has the rest.                   *)
Cut(run, skey) == IF run = << >> THEN 0 ELSE binsearch_lower_bound(run, skey)

(* Where in a run the tasks after the first k begin *)
startoffset(run, splitters, k) == Max({0} \cup {Cut(run, splitters[j]) : j \in 1 .. k})

(* slip: a task starts in the output where the one before does *)
SplitTasksOverlap(t, runs, splitters) ==
  LET start == [k \in 0 .. Len(splitters) |-> [p \in Parts |-> startoffset(runs[p], splitters, k)]]
      end(k, p) == IF k = Len(splitters) THEN Len(runs[p]) ELSE start[k + 1][p]
  IN  [k \in 0 .. Len(splitters) |->
         Task(t, FoldFunction(+, 0, start[IF k > 0 THEN k - 1 ELSE 0]),
              [p \in Parts |-> SubSeq(runs[p], start[k][p] + 1, end(k, p))], FALSE)]

SplitTasks(t, runs, splitters) ==
  LET start == [k \in 0 .. Len(splitters) |-> [p \in Parts |-> startoffset(runs[p], splitters, k)]]
      end(k, p) == IF k = Len(splitters) THEN Len(runs[p]) ELSE start[k + 1][p]
  IN  [k \in 0 .. Len(splitters) |->
         Task(t, FoldFunction(+, 0, start[k]),
              [p \in Parts |-> SubSeq(runs[p], start[k][p] + 1, end(k, p))], FALSE)]

(* The largest of the first tasks, the first of them if there are several;  *)
(* it is kept back, the others go to the tail of the queue when they      *)
(* are, or turn out not to be, the largest.                                 *)
Largest(made, k) ==
  CHOOSE i \in 0 .. k : /\ \A j \in 0 .. k : made[j].totaltuples <= made[i].totaltuples
                        /\ \A j \in 0 .. i - 1 : made[j].totaltuples < made[i].totaltuples

AtFront(x) == <<"front", x>>
AtTail(x)  == <<"tail", x>>

AddOthers(made) ==
  [k \in 1 .. Cardinality(DOMAIN made) - 1 |->
     AtTail(made[IF Largest(made, k) = k THEN Largest(made, k - 1) ELSE k])]

(* detect_heavy_hitters_and_add_tasks *)
HittersIn(task, hitters) ==
  {h \in hitters : \E p \in Parts : LET run == task.runs[p] IN
                     run # << >> /\ run[1] <= h /\ h <= run[Len(run)]}

(* A run of the largest task in three: what is left to it, the heavy hitter *)
(* h, and what goes behind that.                                            *)
CutOut(run, h) ==
  IF run = << >> THEN [low |-> run, hit |-> run, high |-> run]
  ELSE LET stoff  == binsearch_lower_bound(run, h)
           endoff == binsearch_upper_bound(run, h + 1)
       IN  IF endoff > stoff THEN [low  |-> First(run, stoff),
                                   hit  |-> SubSeq(run, stoff + 1, endoff + 1),
                                   high |-> Without(run, endoff + 1)]
           ELSE IF endoff = 0 THEN [low |-> << >>, hit |-> << >>, high |-> run]
           ELSE [low |-> run, hit |-> << >>, high |-> << >>]

AddCutOut(task, h) ==
  LET part(piece) == [p \in Parts |-> CutOut(task.runs[p], h)[piece]]
      low  == Task(task.owner, task.output, part("low"), FALSE)
      hit  == Task(task.owner, low.output + low.totaltuples, part("hit"), TRUE)
      high == Task(task.owner, hit.output + hit.totaltuples, part("high"), FALSE)
  IN  IF low.totaltuples > hit.totaltuples
      THEN IF low.totaltuples > high.totaltuples THEN <<AtFront(low), AtTail(hit), AtTail(high)>>
                                                 ELSE <<AtFront(high), AtTail(low), AtTail(hit)>>
      ELSE IF hit.totaltuples > high.totaltuples THEN <<AtFront(hit), AtTail(low), AtTail(high)>>
                                                 ELSE <<AtFront(high), AtTail(hit), AtTail(low)>>

AddLargest(task, hitters) ==
  IF hitters = {} THEN <<AtFront(task)>> ELSE AddCutOut(task, Min(hitters))

------------------------------------------------------------------------------
VARIABLES pc,
          Sparts,       (* the runs of S each thread is to merge            *)
          tasks,        (* what a thread has cut its runs into              *)
          toadd,        (* calls of addfront and addtail still to be made   *)
          queue,        (* numa_taskqueues                                  *)
          mwtask,       (* the task a thread is working on                  *)
          tmpoutS,      (* merged relations, 0 where nothing is written yet *)
          clean         (* history: no run got in the way of a heavy hitter *)

vars == <<pc, Sparts, tasks, toadd, queue, mwtask, tmpoutS, clean>>

NoTask == [owner |-> -1]

Init == /\ pc = [t \in Threads |-> "split"]
        /\ Sparts \in Inputs
        /\ tasks = [t \in Threads |-> << >>]
        /\ toadd = [t \in Threads |-> << >>]
        /\ queue = [r \in Regions |-> taskqueue_init]
        /\ mwtask = [t \in Threads |-> NoTask]
        /\ tmpoutS = [t \in Threads |-> [i \in 1 .. Tuples(Sparts[t]) |-> 0]]
        /\ clean = [t \in Threads |-> TRUE]

Goto(t, l) == pc' = [pc EXCEPT ![t] = l]

mergeStotal(t) == Len(tmpoutS[t])

CeilDiv(a, b) == (a + b - 1) \div b

(* Does the test of CutOut tell a run's parts below, at and above h apart? *)
Separable(run, h) == LET pieces == CutOut(run, h)
                     IN  /\ \A k \in DOMAIN pieces.low : pieces.low[k] <= h
                         /\ \A k \in DOMAIN pieces.high : pieces.high[k] >= h

(* A thread that has no more than its share makes one task. *)
AddWhole(t) == /\ pc[t] = "split"
               /\ mergeStotal(t) <= DECOMPOSE_THRESHOLD[Sparts][t]
               /\ Goto(t, "added")
               /\ queue' = [queue EXCEPT ![NumaRegion[t]] =
                              taskqueue_addfront(@, Task(t, 0, Sparts[t], FALSE))]
               /\ UNCHANGED <<Sparts, tasks, toadd, mwtask, tmpoutS, clean>>

(* balanced_sorted_partition chooses the splitters from samples, as good as *)
(* it can; when the samples do not reach far enough it leaves them unset.   *)
Decompose(t) ==
  /\ pc[t] = "split"
  /\ mergeStotal(t) > DECOMPOSE_THRESHOLD[Sparts][t]
  /\ Goto(t, "create")
  /\ \E splitters \in [1 .. CeilDiv(mergeStotal(t), DECOMPOSE_THRESHOLD[Sparts][t]) - 1 -> SplitKeys] :
       tasks' = [tasks EXCEPT ![t] = SplitTasks(t, Sparts[t], splitters)]
  /\ UNCHANGED <<Sparts, toadd, queue, mwtask, tmpoutS, clean>>

(* The smaller tasks and the largest, or what it is cut into, are to be     *)
(* added to the queue.                                                      *)
CreateTasks(t) ==
  /\ pc[t] = "create"
  /\ Goto(t, "add")
  /\ LET largest == tasks[t][Largest(tasks[t], Cardinality(DOMAIN tasks[t]) - 1)]
         hitters == HittersIn(largest, UNION {find_heavy_hitters(Sparts[t][p]) : p \in Parts})
     IN  /\ toadd' = [toadd EXCEPT ![t] = AddOthers(tasks[t]) \o AddLargest(largest, hitters)]
         /\ clean' = [clean EXCEPT ![t] =
              hitters = {} \/ \A p \in Parts : Separable(largest.runs[p], Min(hitters))]
  /\ tasks' = [tasks EXCEPT ![t] = << >>]
  /\ UNCHANGED <<Sparts, queue, mwtask, tmpoutS>>

AddTask(t) == /\ pc[t] = "add"
              /\ LET call == Head(toadd[t])
                 IN  queue' = [queue EXCEPT ![NumaRegion[t]] =
                                 IF call[1] = "front" THEN taskqueue_addfront(@, call[2])
                                                      ELSE taskqueue_addtail(@, call[2])]
              /\ toadd' = [toadd EXCEPT ![t] = Tail(@)]
              /\ Goto(t, IF Len(toadd[t]) = 1 THEN "added" ELSE "add")
              /\ UNCHANGED <<Sparts, tasks, mwtask, tmpoutS, clean>>

Added == {"added", "take", "work", "merged"}

(* "Wait until all threads complete skew handling logic"; then the thread   *)
(* merges its runs of R.                                                    *)
StartTasks(t) == /\ pc[t] = "added"
                 /\ \A u \in Threads : pc[u] \in Added
                 /\ Goto(t, "take")
                 /\ UNCHANGED <<Sparts, tasks, toadd, queue, mwtask, tmpoutS, clean>>

(* slip: a task with nothing to do is left in the queue *)
TakeLeavesEmpty(t) == /\ pc[t] = "take"
                      /\ \E tq \in {queue[NumaRegion[t]]} :
                           /\ tq.count > 0
                           /\ mwtask' = [mwtask EXCEPT ![t] = tq.task[tq.head]]
                           /\ queue' = IF tq.task[tq.head].totaltuples = 0 THEN queue
                                       ELSE [queue EXCEPT ![NumaRegion[t]] = taskqueue_getfront(tq)]
                      /\ Goto(t, "work")
                      /\ UNCHANGED <<Sparts, tasks, toadd, tmpoutS, clean>>

Take(t) == /\ pc[t] = "take"
           /\ \E tq \in {queue[NumaRegion[t]]} :
                /\ tq.count > 0
                /\ mwtask' = [mwtask EXCEPT ![t] = tq.task[tq.head]]
                /\ queue' = [queue EXCEPT ![NumaRegion[t]] = taskqueue_getfront(tq)]
           /\ Goto(t, "work")
           /\ UNCHANGED <<Sparts, tasks, toadd, tmpoutS, clean>>

TakeNothing(t) == /\ pc[t] = "take"
                  /\ queue[NumaRegion[t]].count = 0
                  /\ Goto(t, "merged")
                  /\ UNCHANGED <<Sparts, tasks, toadd, queue, mwtask, tmpoutS, clean>>

(* slip: the runs of a task are always copied one behind the other *)
ResultCopied(task) == Concat(task.runs)

(* A heavy hitter is copied (do_fast_memcpy), the rest is merged. *)
Result(task) == IF task.isheavyhitter THEN Concat(task.runs) ELSE Sorted(Concat(task.runs))

Extent(task) == task.output + 1 .. task.output + task.totaltuples

Work(t) == /\ pc[t] = "work"
           /\ Goto(t, "take")
           /\ LET task == mwtask[t] out == Result(task)
              IN  tmpoutS' = [tmpoutS EXCEPT ![task.owner] =
                    [i \in DOMAIN @ |-> IF i \in Extent(task) THEN out[i - task.output] ELSE @[i]]]
           /\ mwtask' = [mwtask EXCEPT ![t] = NoTask]
           /\ UNCHANGED <<Sparts, tasks, toadd, queue, clean>>

AllMerged == \A t \in Threads : pc[t] = "merged"

Terminated == AllMerged /\ UNCHANGED vars

ThreadStep(t) == \/ AddWhole(t) \/ Decompose(t) \/ CreateTasks(t) \/ AddTask(t)
                 \/ StartTasks(t) \/ Take(t) \/ TakeNothing(t) \/ Work(t)

Next == (\E t \in Threads : ThreadStep(t)) \/ Terminated

(* Every thread has its cpu. *)
Fairness == \A t \in Threads : WF_vars(ThreadStep(t))

Spec == Init /\ [][Next]_vars /\ Fairness
------------------------------------------------------------------------------
(* The queued tasks in order, following next from the head *)
Walk(tq) == LET slot[n \in 1 .. tq.count] == IF n = 1 THEN tq.head ELSE tq.next[slot[n - 1]]
            IN  slot

(* From the head of a queue one comes to its tail in count steps, and an    *)
(* empty queue has neither.                                                 *)
Linked(tq) == IF tq.count = 0 THEN tq.head = NULL /\ tq.tail = NULL
                              ELSE Walk(tq)[tq.count] = tq.tail /\ tq.next[tq.tail] = NULL

(* The tasks that are still to be done for t's merged relation: not added   *)
(* yet, queued or in some thread's hands.                                   *)
Outstanding(t) ==
  {task \in UNION {{toadd[u][n][2] : n \in DOMAIN toadd[u]} : u \in Threads}
            \cup UNION {{queue[r].task[Walk(queue[r])[n]] : n \in 1 .. queue[r].count} : r \in Regions}
            \cup {mwtask[u] : u \in Threads} : task.owner = t}

(* The queues' links are sound (taskqueue_getfront), and once a thread has  *)
(* cut up its merge, every place of the merged relation is either written   *)
(* or in exactly one task that is still to be done, whoever will do it      *)
(* (mergetask_t): nothing is written twice, nothing is forgotten.           *)
EachPlaceOnce ==
  /\ \A r \in Regions : Linked(queue[r])
  /\ \A t \in Threads : pc[t] \notin {"split", "create"} =>
       \E tasksof \in {Outstanding(t)} : \A i \in DOMAIN tmpoutS[t] :
         LET todo == {task \in tasksof : i \in Extent(task)}
         IN  IF tmpoutS[t][i] = 0 THEN Cardinality(todo) = 1 ELSE todo = {}

(* When all threads are through, S is "completely merged" (mergedRelS): each *)
(* thread has its tuples in order.  The code achieves it unless a run of the *)
(* largest task holds keys on both sides of the heavy hitter without holding *)
(* that twice, or is one tuple below it: detect_heavy_hitters_and_add_tasks  *)
(* then finds no bounds in the run.                                          *)
MergedUnlessMixed ==
  AllMerged => \A t \in Threads : clean[t] => tmpoutS[t] = Sorted(Concat(Sparts[t]))

(* Every thread comes to an end of its tasks, also when others add to the   *)
(* queue what they have cut up, or leave it empty (taskqueue_getfront).     *)
EventuallyMerged == <>AllMerged
==============================================================================
