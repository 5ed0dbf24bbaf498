----------------------------- MODULE MCMpmcQueue -----------------------------
(* MpmcQueue with model values for its threads and pointers.               *)
EXTENDS MpmcQueue, TLC
CONSTANTS t1, t2, t3, v1, v2
MCSymmetry == Permutations(Threads) \cup Permutations(Values)
=============================================================================
