--------------------------- MODULE ThreadListLock ---------------------------
(***************************************************************************)
(* The lock of the thread list: __tl_lock, __tl_unlock and __tl_sync, with *)
(* the futex wait of __wait.  A thread that exits does so as the holder,   *)
(* and the kernel releases the lock for it (CLONE_CHILD_CLEARTID).  The    *)
(* lock word is the holder's tid, which a later thread may be given again: *)
(* here a thread stands for its tid, and Free for 0.                       *)
(***************************************************************************)
EXTENDS Integers, FiniteSets

CONSTANTS Threads,
          Free,      \* the word of the free lock
          MaxDepth   \* bound on nested __tl_lock calls

VARIABLES lock,             \* __thread_list_lock
          tl_lock_count,
          tl_lock_waiters,
          pc,
          call,             \* what each thread is in: "none", "lock", "sync"
          val               \* the local of that name

vars == <<lock, tl_lock_count, tl_lock_waiters, pc, call, val>>

Locations == {"out", "cas", "load", "spin", "test", "futex", "asleep", "dec",
              "in", "wake_check", "sync_check", "clear", "dead"}

Init == /\ lock = Free
        /\ tl_lock_count = 0
        /\ tl_lock_waiters = 0
        /\ pc = [t \in Threads |-> "out"]
        /\ call = [t \in Threads |-> "none"]
        /\ val = [t \in Threads |-> Free]

Goto(t, loc) == pc' = [pc EXCEPT ![t] = loc]

\* The call is over.
Leave(t, loc) == /\ Goto(t, loc)
                 /\ call' = [call EXCEPT ![t] = "none"]
                 /\ val' = [val EXCEPT ![t] = Free]

Begin(t, c, loc) == /\ pc[t] = "out"
                    /\ call' = [call EXCEPT ![t] = c]
                    /\ Goto(t, loc)
                    /\ UNCHANGED <<lock, tl_lock_count, tl_lock_waiters, val>>

-----------------------------------------------------------------------------
\* __tl_lock by a thread that does not hold the lock, and by its holder.
Lock(t) == Begin(t, "lock", "cas")

LockAgain(t) ==
  /\ pc[t] = "in"
  /\ lock = t
  /\ tl_lock_count < MaxDepth
  /\ tl_lock_count' = tl_lock_count + 1
  /\ UNCHANGED <<lock, tl_lock_waiters, pc, call, val>>

\* val = a_cas(&__thread_list_lock, 0, tid)
LockCas(t) ==
  /\ pc[t] = "cas"
  /\ \/ lock = Free /\ lock' = t /\ Leave(t, "in")
     \/ /\ lock # Free
        /\ val' = [val EXCEPT ![t] = lock]
        /\ Goto(t, "spin")
        /\ UNCHANGED <<lock, call>>
  /\ UNCHANGED <<tl_lock_count, tl_lock_waiters>>

\* Where a call goes on when __wait returns.
AfterWait(t) == IF call[t] = "lock" THEN "cas" ELSE "sync_check"

\* __wait: spin for a while, unless others wait already ...
WaitSpin(t) ==
  /\ pc[t] = "spin"
  /\ tl_lock_waiters = 0
  /\ lock # val[t]
  /\ Goto(t, AfterWait(t))
  /\ UNCHANGED <<lock, tl_lock_count, tl_lock_waiters, call, val>>

\* ... then count in and sleep for as long as the word is val.
WaitInc(t) ==
  /\ pc[t] = "spin"
  /\ tl_lock_waiters' = tl_lock_waiters + 1
  /\ Goto(t, "test")
  /\ UNCHANGED <<lock, tl_lock_count, call, val>>

WaitTest(t) ==
  /\ pc[t] = "test"
  /\ Goto(t, IF lock = val[t] THEN "futex" ELSE "dec")
  /\ UNCHANGED <<lock, tl_lock_count, tl_lock_waiters, call, val>>

WaitFutex(t) ==
  /\ pc[t] = "futex"
  /\ Goto(t, IF lock = val[t] THEN "asleep" ELSE "test")
  /\ UNCHANGED <<lock, tl_lock_count, tl_lock_waiters, call, val>>

WaitInterrupted(t) ==
  /\ pc[t] = "asleep"
  /\ Goto(t, "test")
  /\ UNCHANGED <<lock, tl_lock_count, tl_lock_waiters, call, val>>

WaitDec(t) ==
  /\ pc[t] = "dec"
  /\ tl_lock_waiters' = tl_lock_waiters - 1
  /\ Goto(t, AfterWait(t))
  /\ UNCHANGED <<lock, tl_lock_count, call, val>>

\* __wake(&__thread_list_lock, 1, 0), after which t goes on at loc.
WakeOne(t, loc) ==
  LET sleepers == {u \in Threads : pc[u] = "asleep"} IN
  \E W \in IF sleepers = {} THEN {{}} ELSE {{u} : u \in sleepers} :
    pc' = [u \in Threads |-> IF u \in W THEN "test"
                             ELSE IF u = t THEN loc ELSE pc[u]]

\* The inner of two nested calls is undone, or the word is cleared.
Unlock_Whole(t) ==
  /\ pc[t] = "in"
  /\ tl_lock_count' = IF tl_lock_count > 0 THEN tl_lock_count - 1 ELSE 0
  /\ lock' = Free
  /\ Goto(t, IF tl_lock_count > 0 THEN "in" ELSE "wake_check")
  /\ UNCHANGED <<tl_lock_waiters, call, val>>
Unlock(t) ==
  /\ pc[t] = "in"
  /\ \/ /\ tl_lock_count > 0
        /\ tl_lock_count' = tl_lock_count - 1
        /\ UNCHANGED <<lock, pc>>
     \/ /\ tl_lock_count = 0
        /\ lock' = Free
        /\ Goto(t, "wake_check")
        /\ UNCHANGED tl_lock_count
  /\ UNCHANGED <<tl_lock_waiters, call, val>>

\* if (tl_lock_waiters) __wake(&__thread_list_lock, 1, 0); of __tl_unlock
UnlockWake(t) ==
  /\ pc[t] = "wake_check"
  /\ IF tl_lock_waiters # 0 THEN WakeOne(t, "out") ELSE Goto(t, "out")
  /\ UNCHANGED <<lock, tl_lock_count, tl_lock_waiters, call, val>>

\* The holder exits: the kernel clears the word, then wakes one sleeper.
SysExit(t) ==
  /\ pc[t] = "in"
  /\ tl_lock_count = 0
  /\ lock' = Free
  /\ Goto(t, "clear")
  /\ UNCHANGED <<tl_lock_count, tl_lock_waiters, call, val>>

KernelWake(t) ==
  /\ pc[t] = "clear"
  /\ WakeOne(t, "dead")
  /\ UNCHANGED <<lock, tl_lock_count, tl_lock_waiters, call, val>>

\* The kernel gives the tid of an exited thread to a new one.
TidReused(t) ==
  /\ pc[t] = "dead"
  /\ Goto(t, "out")
  /\ UNCHANGED <<lock, tl_lock_count, tl_lock_waiters, call, val>>

\* __tl_sync waits for a holder to let go, and takes nothing.
Sync(t) == Begin(t, "sync", "load")

SyncLoad(t) ==
  /\ pc[t] = "load"
  /\ \/ lock = Free /\ Leave(t, "out")
     \/ /\ lock # Free
        /\ val' = [val EXCEPT ![t] = lock]
        /\ Goto(t, "spin")
        /\ UNCHANGED call
  /\ UNCHANGED <<lock, tl_lock_count, tl_lock_waiters>>

\* if (tl_lock_waiters) __wake(&__thread_list_lock, 1, 0); of __tl_sync: the
\* wake that ended its sleep may have been meant for a locker.
SyncWake_None(t) ==
  /\ pc[t] = "sync_check"
  /\ Leave(t, "out")
  /\ UNCHANGED <<lock, tl_lock_count, tl_lock_waiters>>
SyncWake(t) ==
  /\ pc[t] = "sync_check"
  /\ IF tl_lock_waiters # 0 THEN WakeOne(t, "out") ELSE Goto(t, "out")
  /\ call' = [call EXCEPT ![t] = "none"]
  /\ val' = [val EXCEPT ![t] = Free]
  /\ UNCHANGED <<lock, tl_lock_count, tl_lock_waiters>>

-----------------------------------------------------------------------------
Step(t) == \/ LockCas(t) \/ WaitSpin(t) \/ WaitInc(t) \/ WaitTest(t)
           \/ WaitFutex(t) \/ WaitDec(t) \/ Unlock(t) \/ UnlockWake(t)
           \/ KernelWake(t) \/ SyncLoad(t) \/ SyncWake(t)

Next == \E t \in Threads :
          \/ Step(t)
          \/ Lock(t) \/ Sync(t) \/ SysExit(t) \/ TidReused(t)
          \/ LockAgain(t) \/ WaitInterrupted(t)

Spec == Init /\ [][Next]_vars

\* Threads in a call, and holders of the lock, keep running.
FairSpec == Spec /\ \A t \in Threads : WF_vars(Step(t))

-----------------------------------------------------------------------------
TypeOK == /\ lock \in Threads \cup {Free}
          /\ tl_lock_count \in 0..MaxDepth
          /\ tl_lock_waiters \in Nat
          /\ pc \in [Threads -> Locations]
          /\ call \in [Threads -> {"none", "lock", "sync"}]
          /\ val \in [Threads -> Threads \cup {Free}]

Holders == {t \in Threads : pc[t] = "in"}
Counted == {t \in Threads : pc[t] \in {"test", "futex", "asleep", "dec"}}
Asleep  == {t \in Threads : pc[t] = "asleep"}

\* The word names the one holder, nested calls included.
HolderExact == Holders = {t \in Threads : lock = t}

\* tl_lock_waiters counts the threads that may be asleep.
WaitersExact == tl_lock_waiters = Cardinality(Counted)

\* Threads sleep for the lock although it is free.
Unserved == lock = Free /\ Asleep # {}

\* The lock as its users see it: an exclusive lock.
Abstract == INSTANCE ExclusiveLock WITH holders <- Holders
Refines == Abstract!Spec
=============================================================================
