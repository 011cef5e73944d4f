-------------------------- MODULE MCThreadLifecycle --------------------------
(* Model-checking instance of ThreadLifecycle. *)
EXTENDS ThreadLifecycle, TLC

CONSTANTS a, b

Symmetry == Permutations({a, b})
Joinable == [detach |-> FALSE, ownstack |-> FALSE, sched |-> FALSE]
Detached == [Joinable EXCEPT !.detach = TRUE]
Sched    == [Joinable EXCEPT !.sched = TRUE]

AttrsAll == {Joinable, Detached, Sched,
             [Joinable EXCEPT !.ownstack = TRUE],
             [Detached EXCEPT !.sched = TRUE]}
AttrsTwo == {Joinable, Detached}
=============================================================================
