---------------------------- MODULE ExclusiveLock ----------------------------
(***************************************************************************)
(* What an exclusive lock promises its users, whatever its implementation: *)
(* a thread gets the lock when nobody holds it, and only the holder gives  *)
(* it up.                                                                  *)
(***************************************************************************)
CONSTANT Threads

VARIABLE holders   \* the threads that hold the lock

Acquire(t) == holders = {} /\ holders' = {t}
Release(t) == holders = {t} /\ holders' = {}

Init == holders = {}
Next == \E t \in Threads : Acquire(t) \/ Release(t)
Spec == Init /\ [][Next]_holders
=============================================================================
