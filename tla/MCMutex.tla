------------------------------- MODULE MCMutex -------------------------------
(* Model-checking instance of Mutex. *)
EXTENDS Mutex, TLC

Symmetry == Permutations(Threads)
TypesRobust == {[kind |-> "errorcheck", robust |-> TRUE, pshared |-> FALSE]}
=============================================================================
