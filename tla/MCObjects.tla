------------------------------ MODULE MCObjects ------------------------------
(***************************************************************************)
(* Model-checking instance of the objects that threads share: in every     *)
(* behaviour the threads use one object, which kind names.                 *)
(***************************************************************************)
EXTENDS Rwlock, TLC

CONSTANTS None, MaxCalls

VARIABLES kind,
          o_control, o_pc, o_completed,
          b_lock, b_waiters, b_inst, b_count, b_last, b_iwaiters, b_finished,
          b_pc, b_own, b_calls, b_arrived

once    == <<o_control, o_pc, o_completed>>
barrier == <<b_lock, b_waiters, b_inst, b_count, b_last, b_iwaiters, b_finished,
             b_pc, b_own, b_calls, b_arrived>>
all     == <<kind, vars, once, barrier>>

Once == INSTANCE Once WITH control <- o_control, pc <- o_pc, completed <- o_completed

Barrier(limit) ==
  INSTANCE Barrier WITH lock <- b_lock, waiters <- b_waiters, binst <- b_inst,
    count <- b_count, last <- b_last, iwaiters <- b_iwaiters, finished <- b_finished,
    pc <- b_pc, inst <- b_own, calls <- b_calls, arrived <- b_arrived

ObjectsInit == /\ kind \in {"rwlock", "once", "barrier2", "barrier3"}
               /\ Init /\ Once!Init /\ Barrier(1)!Init

\* One of the three moves, the one that the behaviour is about.
Use(Rw, On, Ba(_)) ==
  \/ kind = "rwlock" /\ Rw /\ UNCHANGED <<kind, once, barrier>>
  \/ kind = "once" /\ On /\ UNCHANGED <<kind, vars, barrier>>
  \/ kind = "barrier2" /\ Ba(1) /\ UNCHANGED <<kind, vars, once>>
  \/ kind = "barrier3" /\ Ba(2) /\ UNCHANGED <<kind, vars, once>>

ObjectsNext == Use(Next, Once!Next, LAMBDA m : Barrier(m)!Next)

\* A thread inside a call keeps running, one that has the rwlock unlocks it,
\* and init ends or is cancelled, as in each object's own specification.
ObjectsSpec ==
  /\ ObjectsInit /\ [][ObjectsNext]_all
  /\ \A t \in Threads :
       WF_all(Use(Step(t) \/ Unlock(t),
                  Once!Step(t) \/ Once!InitDone(t) \/ Once!InitCanceled(t),
                  LAMBDA m : Barrier(m)!Step(t)))

-----------------------------------------------------------------------------
\* pthread_rwlock: writers exclude everybody by the results of the calls, the
\* count of readers never looks like a writer, waiters are counted, and nobody
\* is left asleep under a free lock or, reading, under a lock of readers.
RwlockSound == /\ TypeOK /\ Exclusion /\ CountIsReaders /\ WaitersExact
               /\ NoLostWakeup /\ ReadersSleepForWriters

\* pthread_once: init completes once, in one thread at a time, no call returns
\* before that, and who sleeps is woken.
OnceSound == Once!TypeOK /\ Once!InitOnce /\ Once!ReturnAfterInit /\ Once!NoLostWakeup

\* pthread_barrier_wait: nobody passes before all have come, over several
\* rounds, and the lock of the barrier is exact and leaves no sleeper behind.
BarrierSound ==
  /\ kind = "barrier2" => Barrier(1)!TypeOK /\ Barrier(1)!NobodyEarly
  /\ kind = "barrier3" => Barrier(2)!TypeOK /\ Barrier(2)!NobodyEarly
  /\ Barrier(1)!LockExact /\ Barrier(1)!NoLostWakeup

\* pthread_barrier_wait: the instance lives on the owner's stack, and the owner
\* returns last.
BarrierOwnerLast == [][Barrier(1)!OwnerLeavesLast]_all

Blocked(t) == \/ kind = "rwlock" /\ pc[t] = "asleep" /\ op[t] \in Reading
              \/ kind = "once" /\ o_pc[t] \notin {"out", "back", "dead"}
              \/ kind = "barrier2" /\ Barrier(1)!AllIn(t)
              \/ kind = "barrier3" /\ Barrier(2)!AllIn(t)

\* Nobody stays asleep in pthread_rwlock_rdlock when no writer has the lock, in
\* pthread_once, or in pthread_barrier_wait when as many have come as it counts.
NobodyStuck == \A t \in Threads : (Blocked(t) /\ (kind = "rwlock" => cnt # MAX)) ~> ~Blocked(t)
=============================================================================
