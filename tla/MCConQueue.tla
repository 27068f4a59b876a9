----------------------------- MODULE MCConQueue -----------------------------
(* ConQueue for TLC: the sets of threads of each run, and their symmetry. *)
EXTENDS ConQueueInv, TLC

ThreadSymmetry == Permutations(Producers) \cup Permutations(Consumers)
=============================================================================
