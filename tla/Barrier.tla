------------------------------- MODULE Barrier -------------------------------
(***************************************************************************)
(* Process-private barriers: pthread_barrier_wait.  The first thread to    *)
(* enter becomes the owner of an instance, which is on its stack: here the *)
(* owner stands for its instance.                                          *)
(***************************************************************************)
EXTENDS Integers, FiniteSets

CONSTANTS Threads, None,
          limit,     \* _b_limit: one less than the count of the barrier
          MaxCalls   \* bound on the calls of a thread

VARIABLES lock, waiters, binst,          \* _b_lock, _b_waiters, _b_inst
          count, last, iwaiters, finished, \* the fields of each instance
          pc, inst, calls,
          arrived    \* how many threads have entered an instance

bar  == <<lock, waiters, binst>>
flds == <<count, last, iwaiters, finished>>
vars == <<bar, flds, pc, inst, calls, arrived>>

Init == /\ lock = 0 /\ waiters = 0 /\ binst = None
        /\ count = [t \in Threads |-> 0]
        /\ last = [t \in Threads |-> 0]
        /\ iwaiters = [t \in Threads |-> 0]
        /\ finished = [t \in Threads |-> 0]
        /\ pc = [t \in Threads |-> "out"]
        /\ inst = [t \in Threads |-> None]
        /\ calls = [t \in Threads |-> 0]
        /\ arrived = [t \in Threads |-> 0]

Goto(t, loc) == pc' = [pc EXCEPT ![t] = loc]

Call(t) == /\ pc[t] = "out" /\ calls[t] < MaxCalls
           /\ calls' = [calls EXCEPT ![t] = @ + 1]
           /\ Goto(t, "swap")
           /\ UNCHANGED <<bar, flds, inst, arrived>>

-----------------------------------------------------------------------------
\* while (a_swap(&b->_b_lock, 1)) __wait(&b->_b_lock, &b->_b_waiters, 1, 1);
Got == lock = 0

LockSwap(t) == /\ pc[t] = "swap"
               /\ lock' = 1
               /\ Goto(t, IF Got THEN "in" ELSE "l_spin")
               /\ UNCHANGED <<waiters, binst, flds, inst, calls, arrived>>

LockSpin(t) == /\ pc[t] = "l_spin"
               /\ \/ waiters = 0 /\ lock # 1 /\ Goto(t, "swap") /\ UNCHANGED waiters
                  \/ waiters' = waiters + 1 /\ Goto(t, "l_test")
               /\ UNCHANGED <<lock, binst, flds, inst, calls, arrived>>

LockTest(t) == /\ pc[t] = "l_test"
               /\ Goto(t, IF lock = 1 THEN "l_asleep" ELSE "l_dec")
               /\ UNCHANGED <<bar, flds, inst, calls, arrived>>

LockDec(t) == /\ pc[t] = "l_dec"
              /\ waiters' = waiters - 1
              /\ Goto(t, "swap")
              /\ UNCHANGED <<lock, binst, flds, inst, calls, arrived>>

\* The first thread becomes the owner of a new instance, ...
Own(t) == /\ pc[t] = "in" /\ binst = None
          /\ binst' = t
          /\ inst' = [inst EXCEPT ![t] = t]
          /\ arrived' = [arrived EXCEPT ![t] = 1]
          /\ Goto(t, "release")
          /\ UNCHANGED <<lock, waiters, flds, calls>>

\* ... the others count, and the last one to enter takes the instance away.
IsLast_Early(o) == count[o] + 1 >= limit - 1
IsLast(o) == count[o] + 1 = limit

Enter(t) == /\ pc[t] = "in" /\ binst # None
            /\ inst' = [inst EXCEPT ![t] = binst]
            /\ count' = [count EXCEPT ![binst] = @ + 1]
            /\ arrived' = [arrived EXCEPT ![binst] = @ + 1]
            /\ IF IsLast(binst)
               THEN binst' = None /\ Goto(t, "last_release")
               ELSE Goto(t, "release") /\ UNCHANGED binst
            /\ UNCHANGED <<lock, waiters, last, iwaiters, finished, calls>>

Release(t) == /\ pc[t] \in {"release", "last_release"}
              /\ lock' = 0
              /\ Goto(t, IF pc[t] = "release" THEN "rel_wake" ELSE "last_rel_wake")
              /\ UNCHANGED <<waiters, binst, flds, inst, calls, arrived>>

\* if (b->_b_waiters) __wake(&b->_b_lock, 1, 1);
AfterRelease(t) == IF pc[t] = "last_rel_wake" THEN "last"
                   ELSE IF inst[t] = t THEN "o_inc" ELSE "i_spin"

ReleaseWake(t) ==
  /\ pc[t] \in {"rel_wake", "last_rel_wake"}
  /\ LET asleep == {u \in Threads : pc[u] = "l_asleep"} IN
     IF waiters # 0 /\ asleep # {}
     THEN \E u \in asleep : pc' = [pc EXCEPT ![t] = AfterRelease(t), ![u] = "l_test"]
     ELSE Goto(t, AfterRelease(t))
  /\ UNCHANGED <<bar, flds, inst, calls, arrived>>

-----------------------------------------------------------------------------
\* The owner waits for the last thread to exit: finished becomes 2.
OwnerInc(t) == /\ pc[t] = "o_inc"
               /\ finished' = [finished EXCEPT ![t] = @ + 1]
               /\ Goto(t, "o_wait")
               /\ UNCHANGED <<bar, count, last, iwaiters, inst, calls, arrived>>

\* It returns PTHREAD_BARRIER_SERIAL_THREAD, and its frame is gone.
OwnerReturns_Inc(o) == finished[o] # 0
OwnerReturns(o) == finished[o] # 1

OwnerWait(t) ==
  /\ pc[t] = "o_wait"
  /\ IF OwnerReturns(t)
     THEN /\ Goto(t, "out")
          /\ inst' = [inst EXCEPT ![t] = None]
          /\ arrived' = [arrived EXCEPT ![t] = 0]
          /\ count' = [count EXCEPT ![t] = 0]
          /\ last' = [last EXCEPT ![t] = 0]
          /\ iwaiters' = [iwaiters EXCEPT ![t] = 0]
          /\ finished' = [finished EXCEPT ![t] = 0]
     ELSE Goto(t, "o_asleep") /\ UNCHANGED <<inst, arrived, flds>>
  /\ UNCHANGED <<bar, calls>>

\* a_store(&inst->last, 1); if (inst->waiters) __wake(&inst->last, -1, 1);
Last(t) == /\ pc[t] = "last"
           /\ last' = [last EXCEPT ![inst[t]] = 1]
           /\ Goto(t, "last_wake")
           /\ UNCHANGED <<bar, count, iwaiters, finished, inst, calls, arrived>>

LastWakes(t) == {u \in Threads : pc[u] = "i_asleep" /\ inst[u] = inst[t]}

LastWake(t) ==
  /\ pc[t] = "last_wake"
  /\ pc' = [u \in Threads |->
             IF u = t THEN "x_count"
             ELSE IF iwaiters[inst[t]] # 0 /\ u \in LastWakes(t) THEN "i_test" ELSE pc[u]]
  /\ UNCHANGED <<bar, flds, inst, calls, arrived>>

\* __wait(&inst->last, &inst->waiters, 0, 1)
InstSpin(t) ==
  /\ pc[t] = "i_spin"
  /\ \/ /\ iwaiters[inst[t]] = 0 /\ last[inst[t]] # 0
        /\ Goto(t, "x_count") /\ UNCHANGED iwaiters
     \/ iwaiters' = [iwaiters EXCEPT ![inst[t]] = @ + 1] /\ Goto(t, "i_test")
  /\ UNCHANGED <<bar, count, last, finished, inst, calls, arrived>>

InstTest(t) == /\ pc[t] = "i_test"
               /\ Goto(t, IF last[inst[t]] = 0 THEN "i_asleep" ELSE "i_dec")
               /\ UNCHANGED <<bar, flds, inst, calls, arrived>>

InstDec(t) == /\ pc[t] = "i_dec"
              /\ iwaiters' = [iwaiters EXCEPT ![inst[t]] = @ - 1]
              /\ Goto(t, "x_count")
              /\ UNCHANGED <<bar, count, last, finished, inst, calls, arrived>>

\* a_fetch_add(&inst->count,-1)==1 && a_fetch_add(&inst->finished,1)
LastOut(o) == count[o] = 1

Return(t, loc) == Goto(t, loc) /\ inst' = [inst EXCEPT ![t] = IF loc = "out" THEN None ELSE @]

ExitCount(t) == /\ pc[t] = "x_count"
                /\ count' = [count EXCEPT ![inst[t]] = @ - 1]
                /\ Return(t, IF LastOut(inst[t]) THEN "x_finished" ELSE "out")
                /\ UNCHANGED <<bar, last, iwaiters, finished, calls, arrived>>

ExitFinished(t) == /\ pc[t] = "x_finished"
                   /\ finished' = [finished EXCEPT ![inst[t]] = @ + 1]
                   /\ Return(t, IF finished[inst[t]] # 0 THEN "x_wake" ELSE "out")
                   /\ UNCHANGED <<bar, count, last, iwaiters, calls, arrived>>

\* The owner may have returned already, and even wait again at that address.
ExitWake(t) ==
  /\ pc[t] = "x_wake"
  /\ pc' = [pc EXCEPT ![t] = "out", ![inst[t]] = IF @ = "o_asleep" THEN "o_wait" ELSE @]
  /\ inst' = [inst EXCEPT ![t] = None]
  /\ UNCHANGED <<bar, flds, calls, arrived>>

\* FUTEX_WAIT is interrupted.
Interrupted(t) ==
  /\ pc' = [pc EXCEPT ![t] = CASE @ = "l_asleep" -> "l_test" [] @ = "i_asleep" -> "i_test"
                               [] @ = "o_asleep" -> "o_wait"]
  /\ UNCHANGED <<bar, flds, inst, calls, arrived>>

-----------------------------------------------------------------------------
Step(t) == \/ LockSwap(t) \/ LockSpin(t) \/ LockTest(t) \/ LockDec(t)
           \/ Own(t) \/ Enter(t) \/ Release(t) \/ ReleaseWake(t)
           \/ OwnerInc(t) \/ OwnerWait(t) \/ Last(t) \/ LastWake(t)
           \/ InstSpin(t) \/ InstTest(t) \/ InstDec(t)
           \/ ExitCount(t) \/ ExitFinished(t) \/ ExitWake(t)

Next == \E t \in Threads : \/ Step(t) \/ Call(t)
                           \/ pc[t] \in {"l_asleep", "i_asleep", "o_asleep"} /\ Interrupted(t)

Spec == Init /\ [][Next]_vars

\* Threads inside a call keep running.
FairSpec == Spec /\ \A t \in Threads : WF_vars(Step(t))

-----------------------------------------------------------------------------
Locations == {"out", "swap", "l_spin", "l_test", "l_asleep", "l_dec", "in", "release",
              "last_release", "rel_wake", "last_rel_wake", "o_inc", "o_wait", "o_asleep",
              "last", "last_wake", "i_spin", "i_test", "i_asleep", "i_dec", "x_count",
              "x_finished", "x_wake"}

TypeOK == /\ lock \in 0..1
          /\ waiters \in 0..Cardinality(Threads)
          /\ binst \in Threads \cup {None}
          /\ count \in [Threads -> 0..limit]
          /\ last \in [Threads -> 0..1]
          /\ iwaiters \in [Threads -> 0..limit]
          /\ finished \in [Threads -> 0..2]
          /\ pc \in [Threads -> Locations]
          /\ inst \in [Threads -> Threads \cup {None}]
          /\ calls \in [Threads -> 0..MaxCalls]
          /\ arrived \in [Threads -> 0..limit + 1]

\* Nobody gets past the barrier before as many threads as it counts have entered.
NobodyEarly == \A t \in Threads : pc[t] \in {"x_count", "x_finished"} =>
                                    arrived[inst[t]] = limit + 1

\* The owner returns last: nobody uses its instance, or the barrier on the way
\* into that instance, after the frame is gone.  Only the wake of the owner may
\* still be under way.
OwnerLeavesLast ==
  \A o \in Threads : pc[o] = "o_wait" /\ pc'[o] = "out" =>
    \A u \in Threads \ {o} : inst[u] = o => pc[u] = "x_wake"

\* One thread at a time is in the section that decides who is first and last.
LockExact == Cardinality({t \in Threads : pc[t] \in {"in", "release", "last_release"}}) = lock

\* Nobody sleeps for the lock of a barrier when nobody has it and nobody is
\* about to take it or to wake.
NoLostWakeup ==
  lock = 0 /\ (\E t \in Threads : pc[t] = "l_asleep") =>
    \E t \in Threads : pc[t] \in {"swap", "l_test", "l_dec", "rel_wake", "last_rel_wake"}

\* As many threads as the barrier counts have entered the instance of t.
AllIn(t) == inst[t] # None /\ arrived[inst[t]] = limit + 1

=============================================================================
