----------------------------- MODULE MCTSQueue -----------------------------
(* Three threads, each calling any member of a queue of two kinds of item. *)
EXTENDS TSQueue, TLC

Symmetry == Permutations(Threads) \cup Permutations(Items)
=============================================================================
