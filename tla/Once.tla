-------------------------------- MODULE Once --------------------------------
(***************************************************************************)
(* pthread_once.  The control word is 0 (initial), 1 (init is running),    *)
(* 2 (done) or 3 (init is running, and there are waiters).  A thread that  *)
(* is cancelled in init undoes its claim.                                  *)
(***************************************************************************)
EXTENDS Integers, FiniteSets

CONSTANT Threads

VARIABLES control, pc,
          completed   \* how many times init has run to its end

vars == <<control, pc, completed>>

Init == /\ control = 0
        /\ pc = [t \in Threads |-> "out"]
        /\ completed = 0

Goto(t, loc) == pc' = [pc EXCEPT ![t] = loc]

\* The fast path returns at once if init finished before.
Call(t) == /\ pc[t] \in {"out", "back"}
           /\ Goto(t, IF control = 2 THEN "back" ELSE "cas")
           /\ UNCHANGED <<control, completed>>

\* switch (a_cas(control, 0, 1))
Switch_NoWait(c) == IF c = 0 THEN "init" ELSE "back"
Switch(c) == CASE c = 0 -> "init" [] c = 1 -> "mark" [] c = 2 -> "back" [] c = 3 -> "wait"
Claimed(c) == IF c = 0 THEN 1 ELSE c

Cas(t) == /\ pc[t] = "cas"
          /\ control' = Claimed(control)
          /\ Goto(t, Switch(control))
          /\ UNCHANGED completed

\* a_cas(control, 1, 3)
Marked(c) == IF c = 1 THEN 3 ELSE c

Mark(t) == /\ pc[t] = "mark"
           /\ control' = Marked(control)
           /\ Goto(t, "wait")
           /\ UNCHANGED completed

\* __wait(control, 0, 3, 1): sleep while the word is 3.
Wait(t) == /\ pc[t] = "wait"
           /\ Goto(t, IF control = 3 THEN "asleep" ELSE "cas")
           /\ UNCHANGED <<control, completed>>

WaitInterrupted(t) == /\ pc[t] = "asleep"
                      /\ Goto(t, "wait")
                      /\ UNCHANGED <<control, completed>>

\* init() returns, or the thread is cancelled in it.
InitDone(t) == /\ pc[t] = "init"
               /\ completed' = completed + 1
               /\ Goto(t, "finish")
               /\ UNCHANGED control

InitCanceled(t) == /\ pc[t] = "init"
                   /\ Goto(t, "undo")
                   /\ UNCHANGED <<control, completed>>

\* a_swap, and a wake of all if there are waiters.
MustWake_Never(w) == FALSE
MustWake(w) == w = 3

Finish(t) == /\ pc[t] = "finish"
             /\ control' = 2
             /\ Goto(t, IF MustWake(control) THEN "wake" ELSE "back")
             /\ UNCHANGED completed

Undo(t) == /\ pc[t] = "undo"
           /\ control' = 0
           /\ Goto(t, IF MustWake(control) THEN "undo_wake" ELSE "dead")
           /\ UNCHANGED completed

WakeAll(t, loc) ==
  pc' = [w \in Threads |-> IF w = t THEN loc ELSE IF pc[w] = "asleep" THEN "wait" ELSE pc[w]]

FinishWake(t) == /\ pc[t] = "wake" /\ WakeAll(t, "back")
                 /\ UNCHANGED <<control, completed>>
UndoWake(t) == /\ pc[t] = "undo_wake" /\ WakeAll(t, "dead")
               /\ UNCHANGED <<control, completed>>

Step(t) == \/ Cas(t) \/ Mark(t) \/ Wait(t) \/ Finish(t) \/ Undo(t)
           \/ FinishWake(t) \/ UndoWake(t)

Next == \E t \in Threads : Step(t) \/ Call(t) \/ WaitInterrupted(t) \/ InitDone(t) \/ InitCanceled(t)

Spec == Init /\ [][Next]_vars

\* Threads inside a call keep running, and init ends one way or the other.
FairSpec == /\ Spec
            /\ \A t \in Threads : WF_vars(Step(t)) /\ WF_vars(InitDone(t) \/ InitCanceled(t))

-----------------------------------------------------------------------------
Locations == {"out", "cas", "mark", "wait", "asleep", "init", "finish", "wake", "undo",
              "undo_wake", "back", "dead"}

TypeOK == /\ control \in 0..3
          /\ pc \in [Threads -> Locations]
          /\ completed \in Nat

Claimants == {t \in Threads : pc[t] \in {"init", "finish", "undo"}}

\* At most one thread runs init, init completes at most once, and nobody runs it
\* again after that: a cancelled init gives its claim back, a completed one never.
InitOnce == /\ Cardinality(Claimants) = IF control \in {1, 3} THEN 1 ELSE 0
            /\ completed <= 1
            /\ completed = 1 => \A t \in Threads : pc[t] \notin {"init", "undo"}

\* No call of pthread_once returns before init has completed.
ReturnAfterInit == \A t \in Threads : pc[t] = "back" => completed = 1 /\ control = 2

\* A thread sleeps only while the word says so, or its wake is on the way.
NoLostWakeup ==
  \A t \in Threads : pc[t] = "asleep" =>
    control = 3 \/ \E u \in Threads : pc[u] \in {"wake", "undo_wake"}

=============================================================================
