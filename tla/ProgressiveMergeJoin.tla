------------------------ MODULE ProgressiveMergeJoin ------------------------
(***************************************************************************)
(* PMJJoiner (hashing/helper/localjoiner.cpp, pmj_helper.cpp): tuples are   *)
(* collected until both sides hold a progressive step, which is sorted,     *)
(* joined with itself and kept as a run; at the end the runs are merged and *)
(* what lies in different runs is joined.  A tuple is its key, a run a pair *)
(* of sorted sequences.                                                     *)
(***************************************************************************)
EXTENDS Relations

Sorted(s) == SortSeq(s, <)

(* slip: equal tuples are erased too *)
SweptEqual(sx, key) == SelectSeq(sx, LAMBDA x : x > key)

(* sweepArea::query erases what is smaller than the tuple; what is left and *)
(* equal matches.                                                           *)
Swept(sx, key) == SelectSeq(sx, LAMBDA x : x >= key)

Times(n) == [k \in 1 .. n |-> k]

------------------------------------------------------------------------------
(* The two sequences of a run are read in the order of their keys. *)
earlyJoinInitialRuns(R, S) ==
  LET Step(st, k) ==
        IF st.s = Len(S) \/ (st.r < Len(R) /\ R[st.r + 1] <= S[st.s + 1])
        THEN LET tr == R[st.r + 1]
                 SM == Swept(st.SM, tr)
             IN [st EXCEPT !.r = @ + 1, !.RM = Append(@, tr), !.SM = SM,
                           !.matches = @ + Hits(SM, tr)]
        ELSE LET ts == S[st.s + 1]
                 RM == Swept(st.RM, ts)
             IN [st EXCEPT !.s = @ + 1, !.SM = Append(@, ts), !.RM = RM,
                           !.matches = @ + Hits(RM, ts)]
  IN FoldLeft(Step, [r |-> 0, s |-> 0, RM |-> <<>>, SM |-> <<>>, matches |-> 0],
              Times(Len(R) + Len(S))).matches

------------------------------------------------------------------------------
(* The run whose next tuple is the smallest, the first of them on a tie, or *)
(* 0 if all are used up.                                                    *)
FirstMin(seqs, pos) ==
  LET left == {q \in DOMAIN seqs : pos[q] < Len(seqs[q])}
      key(q) == seqs[q][pos[q] + 1]
  IN IF left = {} THEN 0
     ELSE CHOOSE q \in left : \A p \in left : key(q) < key(p) \/ (key(q) = key(p) /\ q <= p)

(* The tuple of run q queries the sweep areas of the other runs. *)
OtherAreas(areas, q, key) ==
  [p \in DOMAIN areas |-> IF p = q THEN areas[p] ELSE Swept(areas[p], key)]

HitsElsewhere(areas, q, key) ==
  SumOver([p \in DOMAIN areas |-> IF p = q THEN 0 ELSE Hits(areas[p], key)])

(* earlyJoinMergedRuns: the next smallest tuple of all runs is joined with  *)
(* the sweep areas of all runs but its own and appended to the new run.     *)
earlyJoinMergedRuns(Q) ==
  LET Rs == [q \in DOMAIN Q |-> Q[q].R]
      Ss == [q \in DOMAIN Q |-> Q[q].S]
      none == [q \in DOMAIN Q |-> <<>>]
      Step(st, k) ==
        LET i == FirstMin(Rs, st.posR)
            j == FirstMin(Ss, st.posS)
        IN IF j = 0 \/ (i # 0 /\ Rs[i][st.posR[i] + 1] <= Ss[j][st.posS[j] + 1])
           THEN LET minR == Rs[i][st.posR[i] + 1]
                    SM == OtherAreas(st.SM, i, minR)
                IN [st EXCEPT !.posR[i] = @ + 1, !.RM[i] = Append(@, minR), !.SM = SM,
                              !.R = Append(@, minR), !.matches = @ + HitsElsewhere(SM, i, minR)]
           ELSE LET minS == Ss[j][st.posS[j] + 1]
                    RM == OtherAreas(st.RM, j, minS)
                IN [st EXCEPT !.posS[j] = @ + 1, !.SM[j] = Append(@, minS), !.RM = RM,
                              !.S = Append(@, minS), !.matches = @ + HitsElsewhere(RM, j, minS)]
      total == SumOver([q \in DOMAIN Q |-> Len(Rs[q]) + Len(Ss[q])])
      zero == [q \in DOMAIN Q |-> 0]
  IN FoldLeft(Step, [posR |-> zero, posS |-> zero, RM |-> none, SM |-> none,
                     R |-> <<>>, S |-> <<>>, matches |-> 0], Times(total))

(* One round of merging_phase.  With less than two runs nothing is merged   *)
(* and the empty new run is appended.                                       *)
MergeRound(st) ==
  IF Len(st.Q) < 2
  THEN [st EXCEPT !.Q = Append(@, [R |-> <<>>, S |-> <<>>])]
  ELSE LET m == earlyJoinMergedRuns(st.Q)
       IN [st EXCEPT !.Q = <<[R |-> m.R, S |-> m.S]>>, !.matches = @ + m.matches]

(* The loop ends with one run, after two rounds at most. *)
merging_phase(st) ==
  LET once == MergeRound(st) IN IF Len(once.Q) > 1 THEN MergeRound(once) ELSE once

sorting_phase(st, R, S) ==
  [st EXCEPT !.Q = Append(@, [R |-> Sorted(R), S |-> Sorted(S)]),
             !.matches = @ + earlyJoinInitialRuns(Sorted(R), Sorted(S))]

------------------------------------------------------------------------------
(* pmj: one thread reads the relations step by step, at least once, and     *)
(* what is left of either when one is nearly read as one more run.          *)
pmj(R, S, stepR, stepS) ==
  LET Enough(n) == n * stepR >= Len(R) - stepR \/ n * stepS >= Len(S) - stepS
      rounds == CHOOSE n \in 1 .. Len(R) + 1 : Enough(n) /\ \A m \in 1 .. n - 1 : ~Enough(m)
      Piece(s, from, len) == SubSeq(s, from + 1, from + len)
      normal == FoldLeft(LAMBDA st, n : sorting_phase(st, Piece(R, (n - 1) * stepR, stepR),
                                                          Piece(S, (n - 1) * stepS, stepS)),
                         [Q |-> <<>>, matches |-> 0], Times(rounds))
      rest == sorting_phase(normal, Piece(R, rounds * stepR, Len(R) - rounds * stepR),
                                    Piece(S, rounds * stepS, Len(S) - rounds * stepS))
  IN merging_phase(rest).matches

------------------------------------------------------------------------------
(* PMJJoiner, as a thread of an eager join uses it.  cfg holds the sizes of *)
(* the relations and the progressive steps; tmpR and tmpS are what join()   *)
(* has stored, of which the first outerR and outerS are in runs.            *)
NewJoiner == [tmpR |-> <<>>, tmpS |-> <<>>, outerR |-> 0, outerS |-> 0,
              Q |-> <<>>, matches |-> 0, all |-> FALSE]

innerR(st) == SubSeq(st.tmpR, st.outerR + 1, Len(st.tmpR))
innerS(st) == SubSeq(st.tmpS, st.outerS + 1, Len(st.tmpS))

Stored(st, isR, key) ==
  IF isR THEN [st EXCEPT !.tmpR = Append(@, key)] ELSE [st EXCEPT !.tmpS = Append(@, key)]

(* slip: the rest of the step is forgotten with it *)
NextRunDropsRest(st, cfg) ==
  [sorting_phase(st, SubSeq(innerR(st), 1, cfg.stepR), SubSeq(innerS(st), 1, cfg.stepS))
     EXCEPT !.outerR = Len(st.tmpR), !.outerS = Len(st.tmpS)]

(* slip: the last tuple of the step is left out of the run *)
NextRunShort(st, cfg) ==
  [sorting_phase(st, SubSeq(innerR(st), 1, cfg.stepR), SubSeq(innerS(st), 1, cfg.stepS - 1))
     EXCEPT !.outerR = @ + cfg.stepR, !.outerS = @ + cfg.stepS]

NextRun(st, cfg) ==
  [sorting_phase(st, SubSeq(innerR(st), 1, cfg.stepR), SubSeq(innerS(st), 1, cfg.stepS))
     EXCEPT !.outerR = @ + cfg.stepR, !.outerS = @ + cfg.stepS]

(* The last branch sorts and merges what is left once everything is there.  *)
(* It leaves the pointers as they are.                                      *)
PMJ_join(old, cfg, isR, key) ==
  LET st == Stored(old, isR, key) IN
    IF st.outerR < cfg.sizeR - cfg.stepR /\ st.outerS < cfg.sizeS - cfg.stepS
    THEN IF Len(innerR(st)) >= cfg.stepR /\ Len(innerS(st)) >= cfg.stepS
         THEN NextRun(st, cfg) ELSE st
    ELSE IF Len(st.tmpR) = cfg.sizeR /\ Len(st.tmpS) = cfg.sizeS
         THEN merging_phase(sorting_phase([st EXCEPT !.all = TRUE], innerR(st), innerS(st)))
         ELSE st

(* joiner->merge after the last join() *)
PMJ_merge(st) == merging_phase(sorting_phase(st, innerR(st), innerS(st)))
==============================================================================
