----------------------------- MODULE LockThreads -----------------------------
(* The callers of a lock of extend_mutex.h. *)
CONSTANT Threads
=============================================================================
