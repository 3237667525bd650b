---------------------------- MODULE SortMergeJoin ----------------------------
(***************************************************************************)
(* sortmergejoin_multiway_thread and sortmergejoin_multipass_thread         *)
(* (sorting/joins): the m-way and the m-pass sort-merge join.  Each thread  *)
(* partitions its share of R and S by bits of the key into temporary space  *)
(* and sorts the partitions; then it merges some of the partitions, over    *)
(* all threads, and joins the two sorted results.  m-way merges at once,    *)
(* m-pass two runs at a time.  Barriers separate the phases; inside a phase *)
(* a thread is meant to write only what is its own, so a phase of a thread  *)
(* is one step.                                                             *)
(*                                                                           *)
(* The sort and the merges are taken for what they deliver, a sorted run of *)
(* the tuples they were given; the tree the multi-way merge is made of is   *)
(* MergeTree.                                                               *)
(***************************************************************************)
EXTENDS JoinBase, FiniteSets, Sequences, SequencesExt

CONSTANTS Builds,               (* pairs of algorithm and scalarflag        *)
          NRADIXBITS,           (* log2 of joincfg->PARTFANOUT              *)
          TUPLESPERCACHELINE,
          NumaRegion, NumaSlot, (* where the cpu of each thread is          *)
          NumaStrategies,       (* the values of joincfg->NUMASTRATEGY      *)
          ShuffleOrder,         (* shuffleorder, for strategy RANDOM        *)
          AvxSpace              (* buffer avxsort_tuples ends in, by length *)

PARTFANOUT == 2 ^ NRADIXBITS
Parts      == 0 .. PARTFANOUT - 1
Regions    == {NumaRegion[t] : t \in Threads}

(* Bits the keys are shifted by: the partitions are ranges of the keys up   *)
(* to the number of tuples, rounded up to a power of two.                   *)
CeilLog2(n) == CHOOSE b \in 0 .. n : 2 ^ b >= n /\ \A c \in 0 .. b - 1 : 2 ^ c < n

NumShare(n, t) == ShareEnd(n, t) - ShareBegin(n, t)
Shift(a, t)    == CeilLog2(NumShare(numR, t) * nthreads) - NRADIXBITS - IF a = "m-pass" THEN 1 ELSE 0

ASSUME SortMergeAssumption ==
  /\ NRADIXBITS \in Nat /\ TUPLESPERCACHELINE \in Nat \ {0}
  /\ \E b \in 0 .. NRADIXBITS : nthreads = 2 ^ b      (* main checks both   *)
  /\ Builds \subseteq {"m-way", "m-pass"} \X BOOLEAN
  /\ NRADIXBITS = 0 => Builds \subseteq {"m-way"} \X BOOLEAN
  /\ \A t \in Threads, b \in Builds : NumShare(numR, t) > 0 /\ Shift(b[1], t) >= 0
  /\ NumaRegion \in [Threads -> Nat] /\ NumaSlot \in [Threads -> Nat]
  /\ \A t, u \in Threads : NumaRegion[t] = NumaRegion[u] /\ NumaSlot[t] = NumaSlot[u] => t = u
  /\ NumaStrategies \subseteq {"RANDOM", "RING", "NEXT"}
  /\ ShuffleOrder \in [Threads -> Threads]
  /\ \A t, u \in Threads : ShuffleOrder[t] = ShuffleOrder[u] => t = u
  /\ AvxSpace \in [1 .. numR + numS -> {"part", "sort"}]

Rels      == {"R", "S"}
Num(x)    == IF x = "R" THEN numR ELSE numS
Key(x, i) == IF x = "R" THEN KeyR[i] ELSE KeyS[i]
NoTuple   == -1

------------------------------------------------------------------------------
(* The temporary spaces and the region of each that is a thread's *)
ALIGN_NUMTUPLES(n) ==
  ((n + TUPLESPERCACHELINE - 1) \div TUPLESPERCACHELINE) * TUPLESPERCACHELINE

CACHELINEPADDING == PARTFANOUT * TUPLESPERCACHELINE

Addr(x) == 0 .. Num(x) + nthreads * CACHELINEPADDING - 1

Base(x, t) == t * ((Num(x) \div nthreads) + CACHELINEPADDING)

(* The partition of a key for a thread that shifts by R bits *)
HASH_BIT_MODULO(key, R) == ((key - 1) \div 2 ^ R) % PARTFANOUT

VARIABLES pc,
          algo,              (* "m-way" or "m-pass"                         *)
          active,            (* threads whose cpu is marked active          *)
          strategy,          (* numastrategy_                               *)
          scalarflag,        (* sort with the C++ library, not with AVX     *)
          tmp_part, tmp_sort,  (* the spaces: a tuple per address           *)
          parts,             (* relRparts, relSparts of each thread         *)
          chunks,            (* threadrelchunks: where each sorted run is   *)
          mergebuf,          (* allocations of sharedmergebuffer, and frees *)
          freed,             (* m-pass has given back the temporary spaces  *)
          mergeruns,         (* of m-pass: what is left to merge            *)
          merged,            (* mergedRelR, mergedRelS: pairs of runs       *)
          out                (* out[t][i][j]: times t counted (i, j)        *)

vars == <<pc, active, algo, strategy, scalarflag, tmp_part, tmp_sort, parts, chunks,
          mergebuf, freed, mergeruns, merged, out>>
config == <<active, algo, strategy, scalarflag>>
spaces == <<tmp_part, tmp_sort>>
mpass  == <<freed, mergeruns>>

NoRun == [space |-> "none", at |-> 0, num |-> 0]
NoRuns == [x \in Rels |-> [p \in Parts |-> NoRun]]

Init == /\ pc = [t \in Threads |-> "none"]
        /\ active = {}
        /\ strategy \in NumaStrategies
        /\ \E b \in Builds : algo = b[1] /\ scalarflag = b[2]
        /\ tmp_part = [x \in Rels |-> [a \in Addr(x) |-> NoTuple]]
        /\ tmp_sort = [x \in Rels |-> [a \in Addr(x) |-> NoTuple]]
        /\ parts = [t \in Threads |-> NoRuns] /\ chunks = [t \in Threads |-> NoRuns]
        /\ mergebuf = [r \in Regions |-> [allocs |-> 0, frees |-> 0]]
        /\ freed = FALSE /\ mergeruns = [t \in Threads |-> << >>]
        /\ merged = [t \in Threads |-> << >>]
        /\ out = [t \in Threads |-> [i \in RIdx |-> [j \in SIdx |-> 0]]]

------------------------------------------------------------------------------
(* Barriers, by the pcs of those that have come to them. *)
Joined      == {"joined", "exited"}
Merged      == {"merged", "join"} \cup Joined
FirstMerged == {"firstmerged", "fullmerge"} \cup Merged
Sorted      == {"sorted", "merge"} \cup FirstMerged
Partitioned == {"partitioned", "sort"} \cup Sorted
Started     == {"atStart", "partition"} \cup Partitioned

Goto(t, l) == pc' = [pc EXCEPT ![t] = l]

CrossBarrier(t, from, team, to) == /\ pc[t] = from
                                   /\ \A u \in Threads : pc[u] \in team
                                   /\ Goto(t, to)

(* sortmergejoin_initrun marks the cpu and creates the thread, in order *)
Launch(t) == /\ pc[t] = "none"
             /\ \A u \in Threads : u < t => pc[u] # "none"
             /\ active' = active \cup {t}
             /\ Goto(t, "launched")
             /\ UNCHANGED <<algo, strategy, scalarflag, parts, chunks, mergebuf, merged, out>>
             /\ UNCHANGED <<spaces, mpass>>

Arrive(t) == /\ pc[t] = "launched"
             /\ Goto(t, "atStart")
             /\ UNCHANGED <<parts, chunks, mergebuf, merged, out>> /\ UNCHANGED <<config, spaces, mpass>>

Start(t) == /\ CrossBarrier(t, "atStart", Started, "partition")
            /\ UNCHANGED <<parts, chunks, mergebuf, merged, out>> /\ UNCHANGED <<config, spaces, mpass>>

------------------------------------------------------------------------------
(* partitioning_phase *)
Share(x, t) == ShareBegin(Num(x), t) .. ShareEnd(Num(x), t) - 1

PartSets == [a \in {b[1] : b \in Builds} |-> [x \in Rels |-> [t \in Threads |-> [p \in Parts |->
               {i \in Share(x, t) : HASH_BIT_MODULO(Key(x, i), Shift(a, t)) = p}]]]]

PartOf(x, t, p) == PartSets[algo][x][t][p]

(* The partitions start at multiples of a cache line. *)
Offsets == [a \in DOMAIN PartSets |-> [x \in Rels |-> [t \in Threads |-> [p \in Parts |->
              SumOver([q \in Parts |-> ALIGN_NUMTUPLES(Cardinality(PartSets[a][x][t][q]))], 0 .. p - 1)]]]]

Offset(x, t, p) == Offsets[algo][x][t][p]

PartRuns(t) == [x \in Rels |-> [p \in Parts |->
                 [space |-> "part", at |-> Base(x, t) + Offset(x, t, p), num |-> Cardinality(PartOf(x, t, p))]]]

(* radix_cluster_optimized keeps the order of the tuples in a partition. *)
SlotOf(x, t, i) ==
  LET p == HASH_BIT_MODULO(Key(x, i), Shift(algo, t))
  IN  Base(x, t) + Offset(x, t, p) + Cardinality({j \in PartOf(x, t, p) : j < i})

Scatter(x, t) ==
  LET slot == [i \in Share(x, t) |-> SlotOf(x, t, i)]
      at   == {slot[i] : i \in Share(x, t)}
  IN  [a \in Addr(x) \cup at |-> IF a \in at THEN CHOOSE i \in Share(x, t) : slot[i] = a
                                             ELSE tmp_part[x][a]]

Partition(t) == /\ pc[t] = "partition"
                /\ Goto(t, "partitioned")
                /\ tmp_part' = [x \in Rels |-> Scatter(x, t)]
                /\ parts' = [parts EXCEPT ![t] = PartRuns(t)]
                /\ UNCHANGED <<tmp_sort, chunks, mergebuf, merged, out>> /\ UNCHANGED <<config, mpass>>

StartSort(t) == /\ CrossBarrier(t, "partitioned", Partitioned, "sort")
                /\ UNCHANGED <<parts, chunks, mergebuf, merged, out>> /\ UNCHANGED <<config, spaces, mpass>>

------------------------------------------------------------------------------
(* sorting_phase *)

(* The tuples of a run; a run is read in the space it has been left in. *)
Read(x, run) == [n \in 1 .. run.num |-> IF run.space = "sort" THEN tmp_sort[x][run.at + n - 1]
                                                              ELSE tmp_part[x][run.at + n - 1]]

(* The order in which a sort delivers the m-th and the k-th of a sequence *)
Before(x, s, m, k) == \/ Key(x, s[m]) < Key(x, s[k])
                      \/ Key(x, s[m]) = Key(x, s[k]) /\ m < k

(* Where each is to go: behind as many as come before it *)
Places(x, s) == {<<k, Cardinality({m \in 1 .. Len(s) : Before(x, s, m, k)}) + 1>> : k \in 1 .. Len(s)}

InOrder(s, places) == [n \in 1 .. Len(s) |-> s[(CHOOSE p \in places : p[2] = n)[1]]]

(* Op of a value that is worked out once. *)
With(v, Op(_)) == CHOOSE y \in {Op(z) : z \in {v}} : TRUE

SortTuples(x, s) ==
  With(s, LAMBDA v : With(Places(x, v), LAMBDA places : InOrder(v, places)))

(* scalarsort_tuples sorts in place and swaps the pointers; avxsort_tuples   *)
(* goes back and forth between the two buffers as often as the length asks   *)
(* for and returns the one it ended in.  Nothing is done to an empty run.    *)
SortSpace(n) == IF scalarflag THEN "part" ELSE IF n = 0 THEN "sort" ELSE AvxSpace[n]

(* Where thread t has its p-th run in a space.  In the space for sorting    *)
(* m-pass keeps the threads' runs of R only a cache line apart.              *)
SortBase(x, t) == IF algo = "m-pass" /\ x = "R"
                  THEN t * ((Num(x) \div nthreads) + TUPLESPERCACHELINE)
                  ELSE Base(x, t)

RunAt(space, x, t, p) == (IF space = "sort" THEN SortBase(x, t) ELSE Base(x, t)) + Offset(x, t, p)

(* A space when thread t has sorted; what avxsort_tuples leaves in the       *)
(* buffer that does not hold the result is of no use.                        *)
AfterSort(space, mem, x, t) ==
  LET run(p) == parts[t][x][p]
      at     == [p \in Parts |-> RunAt(space, x, t, p)]
      in(a)  == {p \in Parts : at[p] <= a /\ a < at[p] + run(p).num}
  IN  [a \in DOMAIN mem[x] |->
         IF in(a) = {} THEN mem[x][a]
         ELSE LET p == CHOOSE p \in in(a) : TRUE IN
                IF SortSpace(run(p).num) = space
                THEN SortTuples(x, Read(x, run(p)))[a - at[p] + 1]
                ELSE IF scalarflag THEN mem[x][a] ELSE NoTuple]

(* slip: the output buffer is taken from before the pointers were swapped *)
SortedRunUnswapped(x, t, p) == [space |-> "sort", at |-> RunAt("sort", x, t, p), num |-> parts[t][x][p].num]

SortedRun(x, t, p) ==
  LET space == SortSpace(parts[t][x][p].num)
  IN  [space |-> space, at |-> RunAt(space, x, t, p), num |-> parts[t][x][p].num]

(* get_thread_index_in_numa(t) = 0, and the same for every active thread *)
is_first_thread_in_numa_region(t) ==
  \A u \in active : NumaRegion[u] = NumaRegion[t] => NumaSlot[t] <= NumaSlot[u]

Allocate(t) == IF algo = "m-way" /\ is_first_thread_in_numa_region(t)
               THEN mergebuf' = [mergebuf EXCEPT ![NumaRegion[t]].allocs = @ + 1]
               ELSE UNCHANGED mergebuf

Sort(t) == /\ pc[t] = "sort"
           /\ Goto(t, "sorted")
           /\ tmp_part' = [x \in Rels |-> AfterSort("part", tmp_part, x, t)]
           /\ tmp_sort' = [x \in Rels |-> AfterSort("sort", tmp_sort, x, t)]
           /\ chunks' = [chunks EXCEPT ![t] =
                           [x \in Rels |-> [p \in Parts |-> SortedRun(x, t, p)]]]
           /\ Allocate(t)
           /\ UNCHANGED <<parts, merged, out>> /\ UNCHANGED <<config, mpass>>

StartMerge(t) == /\ CrossBarrier(t, "sorted", Sorted, "merge")
                 /\ UNCHANGED <<parts, chunks, mergebuf, merged, out>> /\ UNCHANGED <<config, spaces, mpass>>

------------------------------------------------------------------------------
(* m-way: multiwaymerge_phase *)
get_numa_shuffle_strategy(t, i) ==
  CASE strategy = "RANDOM" -> ShuffleOrder[i]
    [] strategy = "RING"   -> (t + (nthreads \div Cardinality(Regions)) + i) % nthreads
    [] strategy = "NEXT"   -> (t + i) % nthreads

perthread == PARTFANOUT \div nthreads

MyParts(t) == t * perthread .. t * perthread + perthread - 1

(* The runs of a partition, one per thread, in the order of the strategy *)
RunsOf(x, t, p) == [n \in 1 .. nthreads |->
                      Read(x, chunks[get_numa_shuffle_strategy(t, n - 1)][x][p])]

MergeRuns(x, t) ==
  SortTuples(x, FlattenSeq([m \in 1 .. Cardinality(MyParts(t)) |->
                              FlattenSeq(RunsOf(x, t, t * perthread + m - 1))]))

(* What a thread will join: the merged relations, or, for a single thread,  *)
(* which has nothing to merge, its sorted partitions pair by pair.          *)
ToJoin(t) ==
  IF nthreads > 1 THEN <<[x \in Rels |-> MergeRuns(x, t)]>>
  ELSE [n \in 1 .. PARTFANOUT |-> [x \in Rels |-> Read(x, chunks[t][x][n - 1])]]

(* The merge takes the tuples off the runs it is given. *)
Consumed(run) == IF nthreads > 1 THEN [run EXCEPT !.at = @ + run.num, !.num = 0] ELSE run

Merge(t) == /\ pc[t] = "merge"
            /\ algo = "m-way"
            /\ Goto(t, "merged")
            /\ merged' = [merged EXCEPT ![t] = ToJoin(t)]
            /\ chunks' = [u \in Threads |-> [x \in Rels |-> [p \in Parts |->
                            IF p \in MyParts(t) THEN Consumed(chunks[u][x][p])
                                                ELSE chunks[u][x][p]]]]
            /\ UNCHANGED <<parts, mergebuf, out>> /\ UNCHANGED <<config, spaces, mpass>>

------------------------------------------------------------------------------
(* m-pass: mpass_firstnumamerge_phase and mpass_fullmultipassmerge_phase *)
MergeTwo(x, a, b) == SortTuples(x, a \o b)

(* slip: the neighbour of the last thread is not found by wrapping around *)
PairOfUnwrapped(x, t, p, i) ==
  LET tid1 == (t + i) % nthreads
      tid2 == IF tid1 + 1 = nthreads THEN tid1 ELSE tid1 + 1
  IN  MergeTwo(x, Read(x, chunks[tid1][x][p]), Read(x, chunks[tid2][x][p]))

(* A partition's chunks of two neighbouring threads, the first of which is   *)
(* i threads on from t.                                                      *)
PairOf(x, t, p, i) ==
  LET tid1 == (t + i) % nthreads
      tid2 == (tid1 + 1) % nthreads
  IN  MergeTwo(x, Read(x, chunks[tid1][x][p]), Read(x, chunks[tid2][x][p]))

(* The runs the first merge leaves: half of the threads' for each partition *)
(* of t, or, for a single thread, the chunks as they are.                    *)
FirstRuns(x, t) ==
  IF nthreads = 1 THEN [n \in 1 .. PARTFANOUT |-> Read(x, chunks[t][x][n - 1])]
  ELSE FlattenSeq([m \in 1 .. perthread |->
                     [n \in 1 .. nthreads \div 2 |-> PairOf(x, t, t * perthread + m - 1, 2 * (n - 1))]])

FirstMerge(t) == /\ pc[t] = "merge"
                 /\ algo = "m-pass"
                 /\ Goto(t, "firstmerged")
                 /\ mergeruns' = [mergeruns EXCEPT ![t] = [x \in Rels |-> FirstRuns(x, t)]]
                 /\ UNCHANGED <<parts, chunks, mergebuf, freed, merged, out>> /\ UNCHANGED <<config, spaces>>

(* The barrier after the first merge; with several threads nobody needs the *)
(* temporary spaces any more.                                                *)
StartFullMerge(t) ==
  /\ CrossBarrier(t, "firstmerged", FirstMerged, "fullmerge")
  /\ freed' = (freed \/ (t = 0 /\ nthreads > 1))
  /\ UNCHANGED <<parts, chunks, mergebuf, mergeruns, merged, out>> /\ UNCHANGED <<config, spaces>>

(* The runs after k passes: each pass merges the first with the second, the *)
(* third with the fourth, ...                                                *)
MultiPass(x, runs) ==
  LET after[k \in 0 .. NRADIXBITS] ==
        IF k = 0 THEN runs
        ELSE LET r == after[k - 1] IN
               IF Len(r) = 1 THEN r
               ELSE [j \in 1 .. Len(r) \div 2 |-> MergeTwo(x, r[2 * j - 1], r[2 * j])]
  IN  after[NRADIXBITS][1]

FullMerge(t) == /\ pc[t] = "fullmerge"
                /\ Goto(t, "merged")
                /\ merged' = [merged EXCEPT ![t] = <<[x \in Rels |-> MultiPass(x, mergeruns[t][x])]>>]
                /\ mergeruns' = [mergeruns EXCEPT ![t] = << >>]
                /\ UNCHANGED <<parts, chunks, mergebuf, freed, out>> /\ UNCHANGED <<config, spaces>>

------------------------------------------------------------------------------
(* Thread 0 of m-way frees its region's buffer if it is the one that        *)
(* allocated it.                                                            *)
FreesBuffer(t) == algo = "m-way" /\ t = 0 /\ is_first_thread_in_numa_region(t)

(* slip: the buffer is freed by a thread that has only finished its own merge *)
StartJoinEarly(t) ==
  /\ pc[t] = "merged"
  /\ Goto(t, "join")
  /\ mergebuf' = IF FreesBuffer(t) THEN [mergebuf EXCEPT ![NumaRegion[t]].frees = @ + 1] ELSE mergebuf
  /\ UNCHANGED <<parts, chunks, merged, out>> /\ UNCHANGED <<config, spaces, mpass>>

(* The barrier after the merge *)
StartJoin(t) ==
  /\ CrossBarrier(t, "merged", Merged, "join")
  /\ mergebuf' = IF FreesBuffer(t) THEN [mergebuf EXCEPT ![NumaRegion[t]].frees = @ + 1] ELSE mergebuf
  /\ UNCHANGED <<parts, chunks, merged, out>> /\ UNCHANGED <<config, spaces, mpass>>

------------------------------------------------------------------------------
(* mergejoin_phase *)

(* One past the tuples that have the key of the n-th *)
RunEnd(x, q, n) == CHOOSE m \in n + 1 .. Len(q) + 1 :
                     /\ m = Len(q) + 1 \/ Key(x, q[m]) # Key(x, q[n])
                     /\ \A k \in n .. m - 1 : Key(x, q[k]) = Key(x, q[n])

(* merge_join: the positions of the matches, from the i-th of r and the     *)
(* j-th of s on.                                                            *)
merge_join(r, s) ==
  LET from[p \in (1 .. Len(r) + 1) \X (1 .. Len(s) + 1)] ==
        LET i == p[1] j == p[2] IN
          IF i > Len(r) \/ j > Len(s) THEN {}
          ELSE IF KeyR[r[i]] < KeyS[s[j]] THEN from[<<i + 1, j>>]
          ELSE IF KeyR[r[i]] > KeyS[s[j]] THEN from[<<i, j + 1>>]
          ELSE LET ii == RunEnd("R", r, i) jj == RunEnd("S", s, j)
               IN  ((i .. ii - 1) \X (j .. jj - 1)) \cup from[<<ii, jj>>]
  IN  from[<<1, 1>>]

Join(t) == /\ pc[t] = "join"
           /\ Goto(t, "joined")
           /\ LET R(k) == merged[t][k]["R"]
                  S(k) == merged[t][k]["S"]
                  found == UNION {{k} \X merge_join(R(k), S(k)) : k \in DOMAIN merged[t]}
              IN  out' = [out EXCEPT ![t] = [i \in RIdx |-> [j \in SIdx |->
                            Cardinality({f \in found : R(f[1])[f[2][1]] = i /\ S(f[1])[f[2][2]] = j})]]]
           /\ UNCHANGED <<parts, chunks, mergebuf, merged>> /\ UNCHANGED <<config, spaces, mpass>>

(* The last barrier; the thread frees its chunks and merged relations. *)
Exit(t) == /\ CrossBarrier(t, "joined", Joined, "exited")
           /\ parts' = [parts EXCEPT ![t] = NoRuns] /\ chunks' = [chunks EXCEPT ![t] = NoRuns]
           /\ merged' = [merged EXCEPT ![t] = << >>]
           /\ UNCHANGED <<mergebuf, out>> /\ UNCHANGED <<config, spaces, mpass>>

AllExited == \A t \in Threads : pc[t] = "exited"

Terminated == AllExited /\ UNCHANGED vars

ThreadStep(t) == \/ Launch(t) \/ Arrive(t) \/ Start(t) \/ Partition(t) \/ StartSort(t) \/ Sort(t)
                 \/ StartMerge(t) \/ Merge(t)
                 \/ FirstMerge(t) \/ StartFullMerge(t) \/ FullMerge(t)
                 \/ StartJoin(t) \/ Join(t) \/ Exit(t)

Next == (\E t \in Threads : ThreadStep(t)) \/ Terminated

(* The main thread creates all threads and each has its cpu. *)
Fairness == \A t \in Threads : WF_vars(ThreadStep(t))

Spec == Init /\ [][Next]_vars /\ Fairness
------------------------------------------------------------------------------
(* A chunk that is still to be merged holds, sorted, the tuples of its       *)
(* thread's share that have its bits, whatever the other threads have        *)
(* written since (sorting_phase), so equal keys of all threads meet in the   *)
(* thread that merges the partition.                                         *)
ChunksIntact ==
  \A t \in Threads, x \in Rels, p \in Parts :
    pc[t] \in Sorted /\ pc[p \div perthread] \in {"sorted", "merge"} =>
      LET run == Read(x, chunks[t][x][p]) IN
        /\ Len(run) = Cardinality(PartOf(x, t, p))
        /\ {run[n] : n \in DOMAIN run} = PartOf(x, t, p)
        /\ \A m, n \in DOMAIN run : m < n => Key(x, run[m]) <= Key(x, run[n])

(* The spaces the threads share are there and large enough: none writes     *)
(* outside of them, and a thread that merges the chunks has the buffer of   *)
(* its NUMA region, which one thread has allocated and none has freed       *)
(* (sharedmergebuffer); m-pass, which has no such buffer, still has the     *)
(* spaces the chunks are in.                                                *)
MemorySafe ==
  /\ \A x \in Rels : /\ tmp_part[x] \in [Addr(x) -> 0 .. Num(x) - 1 \cup {NoTuple}]
                    /\ tmp_sort[x] \in [Addr(x) -> 0 .. Num(x) - 1 \cup {NoTuple}]
  /\ \A t \in Threads : pc[t] = "merge" =>
       IF algo = "m-pass" THEN ~freed
       ELSE nthreads > 1 => mergebuf[NumaRegion[t]] = [allocs |-> 1, frees |-> 0]

J == INSTANCE JoinSpec WITH produced <- Produced(out), done <- AllExited

(* The sort-merge joins implement the join: every equal-key pair is counted *)
(* by exactly one thread, and every thread gets through the barriers        *)
(* (sortmergejoin_multiway_thread, sortmergejoin_multipass_thread).         *)
ImplementsJoin == J!JoinImplementation
==============================================================================
