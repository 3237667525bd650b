----------------------------- MODULE MCTaskQueue -----------------------------
(* Instances of TaskQueue for TLC: more tasks than a block has slots. *)
EXTENDS TaskQueue, TLC

CONSTANTS t1, t2, t3, a, b, c

MCThreads == {t1, t2, t3}
MCTasks   == {a, b, c}
Symm      == Permutations(MCThreads) \cup Permutations(MCTasks)
==============================================================================
