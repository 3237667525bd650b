# AllianceDB in TLA+

AllianceDB is a testbed for joins of two streams on a multicore machine. One
program (`hashing/`) holds the hash-based algorithms, lazy and eager, a second
one (`sorting/`) the sort-merge joins. Every algorithm is given two relations R
and S, starts a team of threads, and reports how many pairs of tuples with
equal keys it found (`result_t.totalresults`). This directory models the
threads of these joins, checks them with TLC, and proves with TLAPS that six
of them, and the barrier, the task queue and the merge tree they stand on, do
what they promise.

## 1. Inventory

### The parts, their state and their operations

| part | state | operations | source |
|---|---|---|---|
| barrier | mutex, condition variable, counter | `barrier_wait` | `*/utils/barrier.h` |
| fetchers | a range of R and of S per thread, the next index, who is next, the shared start time | `next_tuple`, `finish` | `hashing/helper/fetcher.*` |
| shufflers | one concurrent queue per thread; groups of threads | `push`, `pull` | `hashing/helper/shuffler.*` |
| eager joiners | two windows per thread (hash tables, sorted runs or lists) | `join`, `merge`, `clean` | `hashing/helper/localjoiner.*` |
| eager thread bodies | program counter, counts of what was fetched | NOSHUFFLE, SHUFFLE, SHUFFLE_HS and the PMJ versions | `hashing/helper/thread_task.cpp` |
| no-partitioning join | one hash table with latches and overflow buckets | `build_hashtable_mt`, `probe_hashtable`, free | `hashing/joins/no_partitioning_join.cpp`, `common_functions.cpp` |
| parallel radix join | histograms, temporary spaces, task queues per NUMA node | `parallel_radix_partition`, `serial_radix_partition`, `bucket_chaining_join` | `hashing/joins/parallel_radix_join.cpp` |
| radix task queue | free list of slots in blocks, list of tasks, two mutexes | get slot, add, get | `hashing/utils/task_queue.h` |
| handshake join | two queues per thread, windows, counts of what has passed | `processLeft`, `processRight`, `forward_tuples` | `hashing/helper/thread_task.cpp`, `shuffler.cpp` |
| sequential joins | hash table of one thread, runs of PMJ, lists of RPJ | build, probe, unmake; sort, join and merge runs; `RJ_st`, `histogram_join` | `hashing/joins`, `hashing/helper` |
| m-way and m-pass sort-merge joins | temporary spaces, sorted chunks of all threads, merge buffer per NUMA region | partition, sort, merge (at once, or in passes of two), join | `sorting/joins/sortmergejoin_multiway.cpp`, `sortmergejoin_multipass.cpp` |
| merge tree | tree of ring buffers of one thread, flags `done` and `finished` | read a leaf, merge an inner node, store from the root | `sorting/joins/*_multiwaymerge.cpp` |
| merge with skew handling | merge tasks, one queue per NUMA region, merged relations | cut S into tasks, cut out a heavy hitter, add, take, merge or copy | `sorting/joins/sortmergejoin_multiway_skewhandling.cpp`, `sorting/utils/generic_task_queue.cpp` |

The threads of a team are created by one main thread and joined at the end
(`launch`, `finishing`, `sortmergejoin_initrun`, `join_init_run`). They
interact through barriers (all joins), through concurrent queues (the shuffled
eager joins), through latched buckets (NPJ), through task queues and disjoint
ranges of shared arrays (the radix and sort-merge joins), and through the start
time that every one of them writes (the eager joins). There is no persistent
state and no communication between processes, so there are no crashes to
recover from and no lost messages.

### What is hard, and what makes each part correct

* A barrier is reused round after round; a fast thread may be counted for the
  next round while others have not left the last one. Correct: nobody leaves a
  round before all have come, and everybody leaves eventually.
* Eager joins insert into one window and probe the other while tuples arrive.
  Replicating one side and dividing the other counts a pair once only if the
  shares are disjoint and complete. Tuples in queues must be taken after the
  last push and not before. Correct: each pair with equal keys is counted by
  exactly one thread, exactly once, and the join ends.
* The clock: `curtick() - *startTS` is unsigned, and all threads store into
  `*startTS`. Correct: no tuple is used before it has arrived.
* NPJ threads prepend overflow buckets to shared chains and own the memory of
  buckets in everybody's chains. Correct: no insertion is lost, no freed bucket
  is read.
* The radix join writes one array from all threads without locks and then
  splits clusters in place with padding. Correct: every tuple is in one slot of
  its cluster, pieces do not reach into their neighbours, each task is taken
  once and by somebody.
* The sort-merge join does the same with per-thread regions, and its sort
  leaves the result in one of two buffers. Correct: chunks stay intact until
  they are merged, buffers live as long as they are used.
* In the handshake join R and S travel through a line of threads in opposite
  directions. Correct: no two tuples pass each other between two neighbours
  unseen, or meet twice, and a thread that ends leaves nothing behind that
  another one needs.
* The loop over the merge tree visits nodes that wait for each other's rings to
  be half full and half empty. Correct: it ends, with nothing left in a ring.
* With skew handling threads work on parts of each other's output. Correct:
  each place is written by one task, and the whole is in order.

All hazards are listed in `PROJECT.json` with the line where they bite and the
properties that cover them.

## 2. Modules

| module | models | uses |
|---|---|---|
| `Barrier` | what a barrier promises (abstract) | |
| `BarrierWait` | `barrier_wait`: mutex, condition variable, `called` | `Barrier` |
| `JoinSpec` | what every join promises (abstract): each equal-key pair produced once and none missing when done; each join maps the sum of its threads' counters and "all threads have exited" to it | |
| `JoinBase`, `EagerBase` | relations, keys, shares, sums of counters; windows and probes | |
| `ShuffleJoin` | `THREAD_TASK_SHUFFLE` with `HashShuffler` or `ContRandShuffler` | `EagerBase` |
| `GroupAssign` | the constructor of `ContRandShuffler`; `ShuffleJoinProofs` shows that it makes the groups of `ShuffleJoin` | |
| `NoShuffleJoin` | `THREAD_TASK_NOSHUFFLE` with the JM fetchers and the clock | `EagerBase` |
| `NPOJoin` | `npo_thread`, `build_hashtable_mt`, `probe_hashtable` | `JoinBase` |
| `RadixJoin` | `prj_thread`, two passes, NUMA task queues | `JoinBase` |
| `TaskQueue`, `DequeSpec` | `task_queue.h` at the grain of its reads and writes; the stack it should be (abstract) | |
| `HandshakeJoin` | `THREAD_TASK_SHUFFLE_HS` with `HSShuffler` and `HS_NP_Fetcher`, as `SHJ_HS_NP` and `RPJ_HS_NP` use them | `JoinBase` |
| `Relations` | relations as sequences of keys, the number of equal-key pairs | |
| `HashTable` | the hash table of one thread: build, probe, debuild, `NPO_st` | `Relations` |
| `ProgressiveMergeJoin` | `PMJJoiner`, `sorting_phase`, `merging_phase`, `pmj` | `Relations` |
| `LocalJoins` | `bucket_chaining_join`, `histogram_join`, `RJ_st` as functions | `Relations` |
| `SequentialJoins` | one thread with its joiner (SHJ, PMJ, RPJ) or a lazy function | the three above |
| `SortMergeJoin` | `sortmergejoin_multiway_thread` and `sortmergejoin_multipass_thread`, all phases | `JoinBase` |
| `MergeTree` | `scalar_multiway_merge`: the tree inside a step of `SortMergeJoin` | |
| `SkewMerge` | `multiwaymerge_phase_withskewhandling` with the generic task queue | |
| `MC...` | constants for TLC | |
| `...Proofs` | theorems about the module of that name; `TaskQueueProofs` has those about `BarrierWait` too, `SortMergeJoinProofs` those about `MergeTree` | |

The joins see a barrier as one predicate over the program counters (a thread
may leave when every thread has come), which is what `Barrier` promises and
`BarrierWait` is shown to implement. `RadixJoin` takes a queue operation as one
step, which is what `TaskQueue` is shown to implement; `SortMergeJoin` takes a
multi-way merge as one step that delivers its runs in order, which is what
`MergeTree` is shown to do (`MergedAll`). So components compose through their
abstract specifications.

How state and actions correspond to the code: a tuple is its position in its
relation, with its key (and arrival time) a constant; `out[t][i][j]` is how
often thread `t` counted the pair, so that `totalresults` is the sum and a pair
counted twice is not hidden by one that is missing. An action is one handler or
one stretch of code between two points where other threads can see a
difference; what is private to a thread or separated by barriers is one step.
In `NPOJoin` the insertion is split at the points where it reads and writes the
chain; in `NoShuffleJoin` the reading of the clock, of `*startTS` and their
comparison are separate; in `TaskQueue` every read and write between lock and
unlock is a step; in `BarrierWait` lock, wait, broadcast, re-lock and unlock
are.

Definitions named "slip: ..." are wrong versions of the definition that follows
them. No specification uses them; putting one in the place of the right one
must make a property fail, which shows that the property depends on that line
of code.

## 3. Runs

Passing runs (all with deadlock checking: a state that is not the end of the
program and has no step is an error):

* `barrier_wait`: three threads, three rounds. The inductive invariant holds,
  and the code implements `Barrier` (nobody leaves early) with progress. Three
  rounds let a fast thread enter a round while another is two steps behind, and
  show a count left over from a round.
* `shuffle`: four threads in two groups, four R and two S tuples that arrive at
  two times. R is replicated in a group and S sent to any one thread of it; no
  pair is lost or counted twice, and every thread gets through the barriers.
* `no_shuffle`: three threads, uneven shares of S, late tuples, a clock with 16
  values, in the build with `PERF_COUNTERS`: exact, and no early fetch.
* `npo`: three threads, six R tuples, buckets of two, two chains. One chain
  gets two overflow buckets from different threads' buffers, so that each case
  of the insertion meets each other one.
* `task_queue`: three threads, three tasks, blocks of one slot, so that every
  second request allocates a block. The queue acts as a stack, and a slot is in
  one thread's hands (part of `QueueInv`). Threads and tasks are symmetric: the code never compares
  them, and the run checks no liveness.
* `radix`: four threads on two NUMA nodes, two clusters of two pieces, pages on
  any node that has threads: both passes are exact, every task is taken once,
  every pair is counted once, and all threads get through the barriers.
* `handshake`: three threads, one R and two S tuples, the hash joiner and the
  ripple joiner. `HS_NP_Fetcher` may read the tuple behind each relation; both
  have the key of R's tuple, or keys that match nothing. Tuples pass in every
  order; a middle thread has both neighbours. The windows and queues are right
  (`IInv`), no two tuples, those behind the relations included, meet twice
  (`MetOnce`) or pass each other unseen (`AwaitedKept`), and all threads end.
  `ImplementsJoin` sums over all pairs of tuples the threads can read
  (`ProducedRead`), as `finishing` adds up the threads' counters; it has the
  condition that the keys behind match nothing (`PastHarmless`). In that case
  the tuples behind are still read, forwarded, acknowledged and kept in windows.
* `sequential`: one thread. The eager joiners get up to five R and two S tuples
  over three keys in every order, with all small progressive steps and with
  tuples taken out of the hash tables again (what a handshake thread does); the
  lazy functions get all such R and S over keys that collide in their radix
  bits or not. All counts are compared with the number of equal-key pairs.
* `sort_merge`: m-way and m-pass on four threads on two NUMA regions, eight
  partitions, twelve R and six S tuples with uneven shares of S, all three NUMA
  strategies, m-way with both sorters and m-pass with the scalar one. Sorted
  chunks stay intact, and the spaces and buffers are there and large enough
  (`MemorySafe`). The first cpu of one region is that of the last thread
  created, so asking who is first too early would matter.
* `merge_tree`: sixteen runs, empty, short or longer than a ring, with keys
  that rise or fall from run to run, are interleaved or repeat, through rings
  of two, three and four tuples. Sixteen is the smallest fan-in with inner
  nodes above inner nodes. The rings' counts are right (`RingsAgree`), nothing
  is overtaken (`TreeInOrder`), and the loop ends (`Ends`) with all of the input
  in the output (`MergedAll`).
* `skew_merge`: four threads in two regions; thread 0 has most of S, in runs
  without a heavy hitter, with one that is cut out cleanly and with one that
  another run reaches across. The splitters are all combinations of three keys.

One run shows a disagreement between the code and what it says of itself
(`findings` in `PROJECT.json`):

* `mpass_overlap`: `mpass_sorting_phase` keeps the threads' spaces for the
  sorted runs of R one cache line apart, and then aligns every run of a thread
  to a cache line. The runs of two threads overlap, and with the AVX sort
  sorted chunks are overwritten. The runs of one or two tuples of the instance
  stand for runs of at least `BLOCKSIZE` tuples (16384 with 256 KB of L2
  cache): `avxsort` sorts shorter ones in place (`avxsort_rem`) and leaves the
  other buffer alone. With two tuples per cache line, or with the scalar sort,
  the same instance has no violation; `sort_merge` therefore has m-pass with
  the scalar sort, and that pair of program and sort is what the hypothesis
  `SafeBuilds` of the proofs excludes.

Problems the models show that have no run of their own; most are notes of
hazards in `PROJECT.json`:

* Barrier: `pthread_cond_wait` is in no predicate loop, so a spurious wakeup
  lets a thread through. `BarrierWait` assumes there is none.
* `ContRandShuffler` with threads that do not fill its groups evenly leaves
  threads in no group (`EvenGroups` is proved for the other case).
* Unshuffled eager joins without `PERF_COUNTERS`: nothing separates the stores
  to `*startTS` from the fetches; the unsigned difference wraps and a tuple that
  has not arrived is fetched (`NoShuffleJoin` without the second barrier).
* NPJ with `NO_TIMING` and without `PERF_COUNTERS`: no barrier between probing
  and freeing the overflow buckets (`NPOJoin` with `JoinBarrier = FALSE`).
* Radix join with fewer threads than NUMA nodes: a cluster whose pages are on a
  node without a thread goes to a queue nobody reads (`RadixImplements` is
  proved for the other case, `NodesServed`).
* Handshake join with repeated keys in S: an acknowledgement takes every tuple
  with that key out of the window (`debuild_hashtable_single`), also one that
  still has to meet an R tuple (`HandshakeImplements` is proved for the other
  case, `ExactCleaning`).
* Handshake join: `HS_NP_Fetcher` reads up to and including `num_tuples` as long
  as the thread's loop goes on. The tuple behind the array, in padding that
  nobody initialises, is joined, and `totalresults` has its matches too: more
  than "the number of result tuples" that `onlinejoins.h` promises. None of the
  real matches is missing (`AwaitedKept`). `ImplementsJoin` has the condition
  `PastHarmless`; without it the instance of `handshake` violates it.
* m-way join: each thread computes `bitshift` from its own share; when the last
  share crosses a power of two (nine tuples, two threads), equal keys go to
  different partitions (`SortMergeImplements` is proved for threads that
  `Agree`; `EvenSharesAgree`: they do when the shares of R are equal).
* m-pass with one thread and an even number of passes frees `tmp_part` twice.
* Merge tree with a fan-in of four (`--partfanout=4`): no inner node keeps the
  loop going, and it can end with tuples unread (`MergeIsComplete` is proved
  for the other fan-ins).
* Skew handling: the offsets that `binsearch_lower_bound` and `_upper_bound`
  return stand for "not found" as well, so a run with keys on both sides of the
  heavy hitter and fewer than two of it, or with one tuple below it, goes as a
  whole to one side, and the merged relation is out of order. Also: a share of
  S that is empty makes the threshold, a divisor, zero; a seventeenth heavy
  hitter is stored behind the array; runs of fewer than 64 tuples are sampled
  in front of their beginning; the last sampled key is never considered.
  `SkewAssumption` excludes the first two, the model has the others.
* PMJ in one thread: `join` merges what is left over and the thread's `merge`
  counts it again. `pmj` reads past a relation that is shorter than a step.

Bounds. `MaxRounds`, `MaxTime`, `StartBound`, `MaxArrival`, `MaxBlocks`,
`MaxR`, `MaxS`, `Keys`, `LazyKeys`, `Steps`, `PastKeys` and `SplitKeys` are the
only ones; the numbers of tuples and
threads are parameters of the program itself. The
interesting cases need two threads in one phase and one that is late, a key
that repeats on both sides, two keys that collide, and a remainder in the
shares: the constants in the `MC` modules have all of these.

## 4. Fairness and liveness

Each thread has weak fairness of its own next step, and the clock ticks. The
drivers pin each thread to a cpu of its own, so a thread with a step to take
takes it. A mutex or latch needs no more than that: the number of times others
take it is finite, so from some point on it stays free for the one that waits.
Polling loops (`next_tuple`, the drain loop) end because time goes on and
because nobody pushes after the barrier. That all threads end is `Terminates`
for the eager joins, the handshake join, NPJ and the radix join, and a part of
`ImplementsJoin` for the sort-merge joins; for the merge with skew handling it
is `EventuallyMerged`.
The merge tree is the loop of one thread, and weak fairness of its turns says
no more than that this thread runs (`Ends`).

## 5. Proofs

All for any number of threads and tuples and all keys, from the assumptions
named `...Assumption` in the modules (which TLC evaluates in the runs). The
invariants `IInv`, `WaitInv` and `QueueInv`, which stand in the modules of the
components, are also invariants of their runs; `ProbeInv` and those of the
sort-merge joins and of the merge tree speak of things the state does not hold
(homes of buckets, the partition a run belongs to, marks) and are stated with
their proofs; of those, what follows from them is what the runs check.

* `TaskQueueProofs`, the barrier: `BarrierInvariant`, `BarrierIsSafe`,
  `BarrierRefinement`, for every finite team. "Nobody leaves early" is not
  inductive: it does not say how many threads sleep. `WaitInv` adds that
  `called` is the number of sleepers and how far each thread's count of rounds
  is from the number of broadcasts. The step that needs work is the last
  arrival: the others are all asleep because the sleepers are one fewer than
  the team.
* `TaskQueueProofs`, the queue: `QueueInvariant`, `PrivateSlots`, `QueueIsStack`: the
  list that threads link and unlink under the mutexes is a stack, and a slot is
  in one thread's hands or on the queue, never in two places, for any number
  of threads, tasks and slots of a block. `QueueInv` has to say, at every point
  between lock and unlock, which pointer of the list or of the free list is
  out of date and who holds its new value.
* `JoinBaseProofs`: `ShareExists`, `ShareUnique`: the integer divisions of the
  fetchers (`n / nthreads` each, the rest to the last) cut a relation into
  disjoint shares without a gap, also with fewer tuples than threads. Also the
  sums: a pair that one thread counted once and the others not at all has the
  sum one, so the steps of `JoinSpec` can be read off the threads' counters.
  The fold over the threads is unique because of two that differ there would
  be a smallest set of threads on which they do. The same sums over finite sets
  count tuples in partitions, chunks and rings in the proofs below.
* `ShuffleJoinProofs`: `ShuffleInvariant`, `ShuffleNoSpurious`,
  `ShuffleNoLost`, `ShuffleImplements`, for both shufflers. `IInv` says for
  each tuple where each of its copies is (not fetched, on its way to the rest
  of the group, in a queue, in a window), that a pair is counted exactly when
  both are in one window, and that nobody pushes once somebody drains.
  `EvenGroups`: the constructor of `ContRandShuffler` makes the groups the join
  relies on when the threads fill them; its invariant relates the position in
  the loop to the current group and its count.
* `NoShuffleJoinProofs`: `NoShuffleInvariant`, `NoShuffleExact`,
  `NoShuffleImplements`, `NoShuffleOrigin`, `NoShuffleArrival`. The last two
  assume `PERF_COUNTERS`, and the word size bounds the clock as the named
  assumption says. `ClockInv` is what the barriers give: once somebody fetches
  nobody writes.
* `NPOJoinProofs`: `NPOInvariant`, `NPONothingOverwritten`,
  `NPONoUseAfterFree` (assuming the barrier after the probe), `NPOProbe`,
  `NPOImplements`. `IInv` follows the pointers: who holds a latch, that a chain
  has no cycle and owns its buckets, that a slot which is about to be written
  is in nobody else's hands, and that a thread past the barrier has inserted
  its whole share. For the probe that is not enough: a chain could still be
  that of another hash value, or a probe could pass a bucket by. `ProbeInv`
  says that there are a home and a position of every bucket, fixed by the
  chains, and that a thread has counted exactly the matches at the positions
  its probe has passed.
* `HandshakeJoinProofs`: `HandshakeInvariant`, `HandshakeMetOnce`,
  `HandshakeAwaited`, `HandshakeImplements`, `HandshakeRefines`, for lines of
  any length. `IInv` is: how many tuples each thread has seen (`CountInv`);
  that the queue between two neighbours holds exactly those one has sent and
  the other not yet taken, in order (`LineInv`); that only what the left
  neighbour has seen is acknowledged (`AckInv`); what a window keeps until then
  (`WinInv`); that a pair is counted in the thread that had one in its window
  when the other came (`OutInv`), and that two tuples that have not met still
  can (`MeetInv`). The last is the point of the protocol: an S tuple that has
  left the window is behind its acknowledgement in the queue the R tuple comes
  from. `HandshakeImplements` has the hypothesis `ExactCleaning` (the ripple
  joiner, or keys of S that do not repeat), without which the code loses pairs,
  and `ImplementsJoin` the condition `PastHarmless` (the keys read behind the
  relations match nothing), without which it counts too many, see 3. Both are
  conditions on the input and the memory, not on the schedule.
  `HandshakeRefines` is the same as a refinement: `SafeSpec`, `ExactCleaning`
  and `PastHarmless` at the start imply `JoinSafety` of `JoinSpec`, over all
  pairs of tuples the threads can read. `HSNoPast` shows from `OutInv` that the
  tuples behind add nothing, so the sum over the relations is the whole of it.
* `RadixJoinProofs`: `RadixPasses`, `RadixInvariant`, `RadixInSpace`,
  `RadixFirstPass`, `RadixJoinTasks`, `RadixImplements`, for any number of
  radix bits and any padding. `PassInv` is the arithmetic: `Slot` says where
  each tuple belongs, a thread's destination of a cluster is the slot of its
  next tuple there (`CopyInv`), and this follows from running totals
  (`HistInv`) that stay right while a fast thread counts S already. The proof
  that slots are all different, and that pieces with their padding stay within
  their cluster, is counting: the rank of an element in a finite set of
  numbers. `OnceInv` (no task in two places), `DrainInv` (queues a thread has
  left stay empty) and `CountInv` (a pair is counted exactly when its task is
  nowhere any more) lead from there to the join. `RadixImplements` has the
  hypothesis `NodesServed`: each node that has pages of R has a thread; without
  it the code loses tasks, see 3. `InSpace`, that nobody writes behind the
  padding, is proved and follows from `IInv`; no run lists it.

* `SortMergeJoinProofs`, the joins: `MemoryInvariant`, `MemoryIsSafe`,
  `ChunkInvariant`, `ChunksAreIntact`, `MergeInvariant`, `SortMergeImplements`,
  for any number of threads and radix bits, all three NUMA strategies, every
  topology and cache line size. The invariant grows with the phases.
  `MemoryInv`: how far a thread can be ahead of the others (`PhaseInv`), how
  often each region's merge buffer has been allocated and freed as a function
  of that (`BufInv`), and that each tuple lies in the one slot of `tmp_part`
  that the prefix sums give it (`SpaceInv`, `PartInv`); from it follows that no
  address is outside its space and no buffer is used before it is there or
  after it is gone. `ChunkInv`: as long as its merger has not read it, a chunk
  is where the thread that sorted it says, sorted, with just the tuples of its
  partition; the work is that the place of one chunk, rounded up to cache
  lines, ends before the next begins. `MergeInv`: what a thread has merged, at
  once or in passes of two (whose number of runs stays a power of two), are
  ascending runs with just the tuples of its partitions. `OutInv`: what it has
  counted are the pairs of equal keys among them.
  All but `MemoryInv` have the hypothesis `SafeBuilds` (m-pass is not built with
  the AVX sort) and `SortMergeImplements` has `Agree` (all threads compute the
  same `bitshift`): without them the code overwrites chunks and loses pairs,
  see 3. `EvenSharesAgree`: equal shares of R are enough for `Agree`. That the
  threads all exit is a premise of the liveness part of `ImplementsJoin` here
  and left to the run.
* `SortMergeJoinProofs`, the merge tree: `TreeInvariant`, `RingsKeepCount`,
  `TreeKeepsOrder`, `MergeIsComplete`, for every power of two up to 256 as
  fan-in, every size of a ring from two up, and all sorted inputs. `TreeInOrder`
  is not inductive: it compares a ring with its children's only where both have
  tuples, and a child that is empty may be filled from far below. `TreeInv`
  gives every node a *mark*: nothing that went through the node is above it,
  nothing in the children's rings is below it, and the mark of a child that is
  not done is not below it either, so whatever the child gets later is not
  below it. A merge moves a node's mark to the last tuple it takes; it takes
  none above the last one of a side that may still get more. The second part is
  conservation: the number of tuples with a key in the runs, the rings and the
  output together never changes. The third are the flags: a node that is done
  has nothing behind it, and as long as `finished` is set the inner nodes
  visited in this turn are done. When the loop ends all inner nodes are done,
  so their children are empty and so are the runs, and the output has every key
  as often as the input. This needs an inner node: `MergeIsComplete` excludes
  a fan-in of four (`nparts # 4`), where the code may end too early, see 3.
  `Merge2` and the places of a ring are recursive functions and sequences,
  and what they compute is proved by induction over the number of steps.

Only model-checked: liveness under fairness (`Terminates`, `Ends`,
`EventuallyMerged` and the progress part of `ImplementsBarrier` and
`ImplementsJoin`; beyond the prover), and all of the sequential joins and
`SkewMerge`, whose functions over sequences of keys (sorting, merging, binary
search, chains of buckets) TLC evaluates on all small inputs. No theorem joins
`MergeTree` to the merging step of `SortMergeJoin`: the one has keys in
rings, the other tuples in runs.

## 6. Assumptions about what is outside

`moodycamel::ConcurrentQueue` and `ReaderWriterQueue` are taken for queues that
keep what was enqueued, and whose `try_dequeue` may miss elements while
producers are active. `rdtsc` is a clock that all cores share and that does not
go back. `pthread_mutex_t` excludes; `pthread_cond_wait` returns after a
broadcast only. Memory is sequentially consistent at the points where threads
synchronise (the code runs on x86 and its unsynchronised accesses are the ones
the models split into steps).

## 7. Not modelled, and what could follow

* The fat-tuple task of `PMJ_HS_NP`: the code that would set its end condition
  is commented out, it cannot end.
* `histogram_optimized_join`, `avx_multiway_merge` and the sorting networks:
  the same results as the modelled versions, computed in SIMD registers; what
  is specific to them is data, not control. Together with the vendored PCM
  library (`cpucounters`, counted twice), the vendored concurrent queues and
  their headers, they make up most of the lines of the repository.
* `RippleJoiner`'s estimate of the result, which nobody reads.
* `mpsm`: its body is not in the repository.
* `taskqueue_gettail`: no caller. It would follow `prev` pointers that
  `taskqueue_addfront` leaves unset.
* Data generators, command lines and file loading (I/O); timers and hardware
  counters (measurement; their barriers are modelled); `tuple_buffer.h`
  (private to a thread); NUMA allocation; scripts.
* The `SKEW_HANDLING` branch of the radix join, and the sizes `launch` hands to
  `allocate_hashtable` when a table gets no bucket: the modules assume one.
* A data race on the state of `ContRandShuffler`'s random generator: any choice
  of thread is allowed in `ShuffleJoin`, so it makes no difference there.

Theorems worth proving next: `EachPlaceOnce` of `SkewMerge`; that the merging
step of `SortMergeJoin` is implemented by `MergeTree`.
