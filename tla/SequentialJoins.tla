--------------------------- MODULE SequentialJoins ---------------------------
(***************************************************************************)
(* One thread and its joiner.  An eager algorithm (SHJ, PMJ or RPJ) gets    *)
(* its tuples one at a time, those of R and of S in any order, and merges   *)
(* once its share has come; the share may be all of the input or a part of  *)
(* it.  A handshake thread also takes tuples out again.  A lazy algorithm   *)
(* has the whole relations at once.                                         *)
(***************************************************************************)
EXTENDS LocalJoins, HashTable, ProgressiveMergeJoin

CONSTANTS Keys, sizeR, sizeS,           (* an eager input and its sizes      *)
          LazyKeys, MaxR, MaxS,         (* bounds of the lazy inputs         *)
          Steps                         (* progressive steps                 *)

ASSUME SequentialAssumption ==
  /\ Keys \subseteq Nat /\ LazyKeys \subseteq Nat /\ Steps \subseteq Nat
  /\ sizeR \in Nat /\ sizeS \in Nat /\ MaxR \in Nat /\ MaxS \in Nat
  /\ sizeR \div BUCKET_SIZE > 0 /\ sizeS \div BUCKET_SIZE > 0   (* SHJJoiner's asserts *)

Lazy  == {"bucket_chaining_join", "histogram_join", "NPO_st", "RJ_st", "PMJ_st"}
Eager == {"SHJ", "PMJ", "RPJ"}

VARIABLES
  algo, step,     (* the algorithm and PMJ's progressive_step_R and _S        *)
  R, S,           (* the tuples received                                      *)
  liveR, liveS,   (* how many of each key have not been taken out again       *)
  shj,            (* htR and htS                                              *)
  pmj_arg,        (* t_pmj                                                    *)
  matches, done

vars == <<algo, step, R, S, liveR, liveS, shj, pmj_arg, matches, done>>

Cfg == [sizeR |-> sizeR, sizeS |-> sizeS, stepR |-> step.R, stepS |-> step.S]

NoSteps == [R |-> 0, S |-> 0]

(* The steps that matter: those of PMJ, and for PMJ_st (which would read    *)
(* past a relation that is shorter than a step) those that fit.             *)
StepsFor(a, lenR, lenS) ==
  CASE a = "PMJ"    -> [R : Steps, S : Steps]
    [] a = "PMJ_st" -> [R : Steps \cap 1 .. lenR, S : Steps \cap 1 .. lenS]
    [] OTHER        -> {NoSteps}

Init == /\ \/ algo \in Eager /\ R = <<>> /\ S = <<>>
           \/ /\ algo \in Lazy
              /\ R \in UNION {[1 .. n -> LazyKeys] : n \in BUCKET_SIZE .. MaxR}
              /\ S \in UNION {[1 .. n -> LazyKeys] : n \in 1 .. MaxS}
        /\ step \in StepsFor(algo, Len(R), Len(S))
        /\ liveR = [k \in Keys |-> 0] /\ liveS = [k \in Keys |-> 0]
        /\ shj = [R |-> allocate_hashtable(sizeR \div BUCKET_SIZE),
                  S |-> allocate_hashtable(sizeS \div BUCKET_SIZE)]
        /\ pmj_arg = NewJoiner
        /\ matches = 0 /\ done = FALSE

------------------------------------------------------------------------------
(* joiner->join for a tuple of R *)
SHJ_joinR(key) == /\ algo = "SHJ"
                  /\ shj' = [shj EXCEPT !.R = build_hashtable_single(@, key)]
                  /\ matches' = matches + probe_hashtable_single(shj.S, key)
                  /\ UNCHANGED pmj_arg

PMJ_joinR(key) == /\ algo = "PMJ"
                  /\ pmj_arg' = PMJ_join(pmj_arg, Cfg, TRUE, key)
                  /\ matches' = pmj_arg'.matches
                  /\ UNCHANGED shj

RPJ_joinR(key) == /\ algo = "RPJ"          (* R_Window and S_Window are R and S *)
                  /\ matches' = matches + Hits(S, key)
                  /\ UNCHANGED <<shj, pmj_arg>>

JoinR(key) == /\ ~done /\ Len(R) < sizeR
              /\ R' = Append(R, key)
              /\ liveR' = [liveR EXCEPT ![key] = @ + 1]
              /\ SHJ_joinR(key) \/ PMJ_joinR(key) \/ RPJ_joinR(key)
              /\ UNCHANGED <<algo, step, S, liveS, done>>

(* joiner->join for a tuple of S *)
SHJ_joinS(key) == /\ algo = "SHJ"
                  /\ shj' = [shj EXCEPT !.S = build_hashtable_single(@, key)]
                  /\ matches' = matches + probe_hashtable_single(shj.R, key)
                  /\ UNCHANGED pmj_arg

PMJ_joinS(key) == /\ algo = "PMJ"
                  /\ pmj_arg' = PMJ_join(pmj_arg, Cfg, FALSE, key)
                  /\ matches' = pmj_arg'.matches
                  /\ UNCHANGED shj

(* slip: the tuple is compared with its own window *)
RPJ_joinSOwn(key) == /\ algo = "RPJ"
                     /\ matches' = matches + Hits(S, key)
                     /\ UNCHANGED <<shj, pmj_arg>>

RPJ_joinS(key) == /\ algo = "RPJ"
                  /\ matches' = matches + Hits(R, key)
                  /\ UNCHANGED <<shj, pmj_arg>>

JoinS(key) == /\ ~done /\ Len(S) < sizeS
              /\ S' = Append(S, key)
              /\ liveS' = [liveS EXCEPT ![key] = @ + 1]
              /\ SHJ_joinS(key) \/ PMJ_joinS(key) \/ RPJ_joinS(key)
              /\ UNCHANGED <<algo, step, R, liveR, done>>

(* joiner->clean, of a handshake thread *)
CleanR(key) == /\ ~done /\ algo = "SHJ" /\ liveR[key] > 0
               /\ shj' = [shj EXCEPT !.R = debuild_hashtable_single(@, key)]
               /\ liveR' = [liveR EXCEPT ![key] = 0]
               /\ UNCHANGED <<algo, step, R, S, liveS, pmj_arg, matches, done>>

CleanS(key) == /\ ~done /\ algo = "SHJ" /\ liveS[key] > 0
               /\ shj' = [shj EXCEPT !.S = debuild_hashtable_single(@, key)]
               /\ liveS' = [liveS EXCEPT ![key] = 0]
               /\ UNCHANGED <<algo, step, R, S, liveR, pmj_arg, matches, done>>

(* joiner->merge: SHJ and RPJ inherit the one that does nothing *)
Merge == /\ ~done /\ algo \in Eager
         /\ pmj_arg' = IF algo = "PMJ" THEN PMJ_merge(pmj_arg) ELSE pmj_arg
         /\ matches' = IF algo = "PMJ" THEN pmj_arg'.matches ELSE matches
         /\ done' = TRUE
         /\ UNCHANGED <<algo, step, R, S, liveR, liveS, shj>>

JoinAll == /\ ~done /\ algo \in Lazy
           /\ matches' = CASE algo = "NPO_st" -> NPO_st(R, S)
                           [] algo = "RJ_st" -> RJ_st(R, S)
                           [] algo = "bucket_chaining_join" -> bucket_chaining_join(R, S)
                           [] algo = "histogram_join" -> histogram_join(R, S)
                           [] algo = "PMJ_st" -> pmj(R, S, step.R, step.S)
           /\ done' = TRUE
           /\ UNCHANGED <<algo, step, R, S, liveR, liveS, shj, pmj_arg>>

Terminated == done /\ UNCHANGED vars

Next == \/ \E key \in Keys : JoinR(key) \/ JoinS(key) \/ CleanR(key) \/ CleanS(key)
        \/ Merge \/ JoinAll \/ Terminated

Spec == Init /\ [][Next]_vars

------------------------------------------------------------------------------
(* SHJ's tables hold what has been built and not cleaned since, whatever    *)
(* overflow buckets were put into the chain in between: a probe finds each  *)
(* of them once and none of the others.                                     *)
TablesExact == algo = "SHJ" =>
                 \A key \in Keys : /\ probe_hashtable_single(shj.R, key) = liveR[key]
                                  /\ probe_hashtable_single(shj.S, key) = liveS[key]

(* As long as nothing is cleaned, SHJ and RPJ have at every moment counted  *)
(* each pair of equal keys among the tuples received once, in any order of  *)
(* arrival: whichever of the two came last has found the other.             *)
EagerExact == algo \in {"SHJ", "RPJ"} /\ SumOver(liveR) = Len(R) /\ SumOver(liveS) = Len(S)
                => matches = Matches(R, S)

(* PMJ has counted each pair once when it is done: in the run that holds    *)
(* both, or when the runs of the two are merged.  A thread that received    *)
(* all of the input has done so before merge() (which adds the left-over a  *)
(* second time).  Before it is done PMJ has counted the pairs in its runs,  *)
(* and its n-th run holds the n-th step of R and of S, in whatever order    *)
(* the tuples came and whichever side had to wait for the other.            *)
PMJExact ==
  algo = "PMJ" =>
    /\ done # pmj_arg.all => matches = Matches(R, S)
    /\ ~done /\ ~pmj_arg.all =>
         matches = SumOver([n \in DOMAIN pmj_arg.Q |->
                              Matches(SubSeq(R, (n - 1) * step.R + 1, n * step.R),
                                      SubSeq(S, (n - 1) * step.S + 1, n * step.S))])

(* Each lazy algorithm counts each pair once: bucket_chaining_join for keys *)
(* of one piece and for any others; histogram_join, whose prefix sums are   *)
(* shifted by two places; RJ_st, whose two stable passes must leave the     *)
(* pieces of R and S aligned; NPO_st through any chain of overflow buckets; *)
(* PMJ_st however the steps divide the relations.                           *)
LazyExact == algo \in Lazy /\ done => matches = Matches(R, S)
==============================================================================
