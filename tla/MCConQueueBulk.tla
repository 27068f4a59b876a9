--------------------------- MODULE MCConQueueBulk ---------------------------
(* ConQueueBulk for TLC. *)
EXTENDS ConQueueBulk, TLC

ThreadSymmetry == Permutations(Producers)
=============================================================================
