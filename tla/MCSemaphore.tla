----------------------------- MODULE MCSemaphore -----------------------------
(* Model-checking instance of Semaphore. *)
EXTENDS Semaphore, TLC

Symmetry == Permutations(Threads)
=============================================================================
