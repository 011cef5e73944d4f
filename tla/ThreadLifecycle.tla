--------------------------- MODULE ThreadLifecycle ---------------------------
(***************************************************************************)
(* The life of threads: pthread_create, pthread_exit, pthread_join and its *)
(* timed, try and clock variants, pthread_detach and pthread_kill, over    *)
(* the per-thread structure (struct pthread, which lies in the thread's    *)
(* own stack mapping) and the global thread list.                          *)
(*                                                                         *)
(* Futex waits for detach_state are explicit; the thread list lock and the *)
(* kill lock are taken in one step when free.  The value of the thread     *)
(* list lock is the holder's tid, written here as the holder.  Callers     *)
(* obey POSIX: an operation on a handle needs a thread that was neither    *)
(* joined nor detached, and no two calls dispose of one handle at a time   *)
(* (owner).                                                                *)
(***************************************************************************)
EXTENDS Integers, FiniteSets

CONSTANTS Threads,  \* struct pthreads; each is used for one thread
          Main,     \* the initial thread
          Nobody,   \* a value that is not a thread
          Attrs,    \* thread attributes in use: [detach, ownstack, sched]
          Ops       \* the operations threads perform on other handles

AllAttrs == [detach : BOOLEAN, ownstack : BOOLEAN, sched : BOOLEAN]
JoinOps  == {"join", "timedjoin", "tryjoin", "clockjoin", "detach"}
AllOps   == JoinOps \cup {"kill"}

ASSUME LifeAssumption == /\ IsFiniteSet(Threads)
                         /\ Main \in Threads
                         /\ Nobody \notin Threads
                         /\ Attrs \subseteq AllAttrs
                         /\ Ops \subseteq AllOps

VARIABLES
  detach_state, \* self->detach_state
  tid,          \* self->tid is nonzero
  killlock,     \* holder of self->killlock
  mapping,      \* the memory holding the structure: "none", "live", "freed"
  map_base,     \* self->map_base is nonzero: libc mapped that memory
  control,      \* args->control of the start handshake
  lock,         \* __thread_list_lock
  list,         \* the threads linked into the thread list
  threads_minus_1,
  need_locks,   \* libc.need_locks
  alive,        \* kernel threads that exist
  pc,           \* the next step of each thread
  op,           \* the operation each thread is performing
  target,       \* and the handle it is performed on
  seen,         \* a value the thread loaded and still uses
  owner         \* who may use the handle: Nobody, a thread, "joined", "detached"

struct  == <<detach_state, tid, killlock, mapping, map_base, control>>
tlist   == <<lock, list, threads_minus_1, need_locks>>
locals  == <<op, target, seen>>
vars    == <<struct, tlist, alive, pc, locals, owner>>

States == {"DT_EXITED", "DT_EXITING", "DT_JOINABLE", "DT_DETACHED"}

Locations ==
  {"unborn", "run", "dead", "process_exit", "crashed", "lock_cas",
   "create_lock", "create_clone", "create_sched", "create_reap",
   "create_link", "create_undo", "create_unmap",
   "start_load", "start_cas", "start_wait", "start_check", "start_exit",
   "exit_cas", "exit_kill", "exit_tl", "exit_check", "exit_unlink",
   "exit_unmapself", "exit_store", "exit_wake", "sys_exit",
   "detach_cas", "try_load", "clock_time",
   "join_load", "join_futex", "join_asleep", "sync_load", "sync_wait",
   "join_unmap", "kill_lock", "kill_check", "kill_unlock"}

Init ==
  /\ detach_state = [t \in Threads |-> "DT_JOINABLE"]
  /\ tid = [t \in Threads |-> t = Main]
  /\ killlock = [t \in Threads |-> Nobody]
  /\ mapping = [t \in Threads |-> IF t = Main THEN "live" ELSE "none"]
  /\ map_base = [t \in Threads |-> FALSE]
  /\ control = [t \in Threads |-> 0]
  /\ lock = Nobody
  /\ list = {Main}
  /\ threads_minus_1 = 0
  /\ need_locks = 0
  /\ alive = {Main}
  /\ pc = [t \in Threads |-> IF t = Main THEN "run" ELSE "unborn"]
  /\ op = [t \in Threads |-> "none"]
  /\ target = [t \in Threads |-> t]
  /\ seen = [t \in Threads |-> "none"]
  /\ owner = [t \in Threads |-> Nobody]

Goto(t, loc) == pc' = [pc EXCEPT ![t] = loc]

\* A call is over: its locals are gone.
Leave(t, loc) == /\ Goto(t, loc)
                 /\ op' = [op EXCEPT ![t] = "none"]
                 /\ target' = [target EXCEPT ![t] = t]
                 /\ seen' = [seen EXCEPT ![t] = "none"]

Return(t) == Leave(t, "run")

Remember(t, x) == seen' = [seen EXCEPT ![t] = x] /\ UNCHANGED <<op, target>>

\* munmap of the thread's memory, when libc mapped it.
Unmap(u) ==
  mapping' = IF map_base[u] THEN [mapping EXCEPT ![u] = "freed"] ELSE mapping

-----------------------------------------------------------------------------
(***************************************************************************)
(* pthread_create by t of the new thread target[t].                        *)
(***************************************************************************)
CreateMap(t, u, a) ==
  /\ pc[t] = "run"
  /\ pc[u] = "unborn"
  /\ mapping[u] = "none"
  /\ mapping' = [mapping EXCEPT ![u] = "live"]
  /\ map_base' = [map_base EXCEPT ![u] = ~a.ownstack]
  /\ detach_state' = [detach_state EXCEPT
                        ![u] = IF a.detach THEN "DT_DETACHED" ELSE "DT_JOINABLE"]
  /\ owner' = [owner EXCEPT ![u] = IF a.detach THEN "detached" ELSE t]
  /\ control' = [control EXCEPT ![u] = IF a.sched THEN 1 ELSE 0]
  /\ Goto(t, "create_lock")
  /\ op' = [op EXCEPT ![t] = "create"]
  /\ target' = [target EXCEPT ![t] = u]
  /\ UNCHANGED <<tid, killlock, tlist, alive, seen>>

\* if (!libc.threads_minus_1++) libc.need_locks = 1;
CreateLock(t) ==
  /\ pc[t] = "create_lock"
  /\ lock = Nobody
  /\ lock' = t
  /\ threads_minus_1' = threads_minus_1 + 1
  /\ need_locks' = IF threads_minus_1 = 0 THEN 1 ELSE need_locks
  /\ Goto(t, "create_clone")
  /\ UNCHANGED <<struct, list, alive, locals, owner>>

\* The new thread may run before its creator goes on.
CreateClone(t) ==
  LET u == target[t] IN
  /\ pc[t] = "create_clone"
  /\ \/ /\ alive' = alive \cup {u}
        /\ tid' = [tid EXCEPT ![u] = TRUE]
        /\ pc' = [pc EXCEPT
                    ![u] = "start_load",
                    ![t] = IF control[u] = 0 THEN "create_link"
                                             ELSE "create_sched"]
     \/ /\ Goto(t, "create_undo")
        /\ UNCHANGED <<alive, tid>>
  /\ UNCHANGED <<detach_state, killlock, mapping, map_base, control, tlist,
                 locals, owner>>

\* sched_setscheduler, then a_swap(&args->control, ret ? 3 : 0) and the wake.
CreateSched(t) ==
  LET u == target[t] IN
  /\ pc[t] = "create_sched"
  /\ \/ /\ control' = [control EXCEPT ![u] = 0]
        /\ Goto(t, "create_link")
     \/ /\ control' = [control EXCEPT ![u] = 3]
        /\ Goto(t, "create_reap")
  /\ UNCHANGED <<detach_state, tid, killlock, mapping, map_base, tlist, alive,
                 locals, owner>>

\* __wait(&args->control, 0, 3, 0): until the kernel clears it.
CreateReap(t) ==
  /\ pc[t] = "create_reap"
  /\ control[target[t]] # 3
  /\ Goto(t, "create_undo")
  /\ UNCHANGED <<struct, tlist, alive, locals, owner>>

\* The application gets to know a new handle when pthread_create returns it or
\* the new thread asks for its own; until then it is the creator's.
Publish(u) ==
  owner' = IF \E c \in Threads : owner[u] = c /\ op[c] = "create" /\ target[c] = u
           THEN [owner EXCEPT ![u] = Nobody] ELSE owner

\* Link the new thread and unlock.
CreateLink(t) ==
  LET u == target[t] IN
  /\ pc[t] = "create_link"
  /\ list' = list \cup {u}
  /\ lock' = Nobody
  /\ Publish(u)
  /\ Return(t)
  /\ UNCHANGED <<struct, threads_minus_1, need_locks, alive>>

\* if (!--libc.threads_minus_1) libc.need_locks = 0;
NeedLocksAfterUndo_Zero == 0
NeedLocksAfterUndo == IF threads_minus_1 = 1 THEN 0 ELSE need_locks

CreateUndo(t) ==
  /\ pc[t] = "create_undo"
  /\ threads_minus_1' = threads_minus_1 - 1
  /\ need_locks' = NeedLocksAfterUndo
  /\ lock' = Nobody
  /\ Goto(t, "create_unmap")
  /\ UNCHANGED <<struct, list, alive, locals, owner>>

CreateUnmap(t) ==
  /\ pc[t] = "create_unmap"
  /\ Unmap(target[t])
  /\ owner' = [owner EXCEPT ![target[t]] = "joined"]
  /\ Return(t)
  /\ UNCHANGED <<detach_state, tid, killlock, map_base, control, tlist, alive>>

\* start(): the handshake with a creator that sets scheduling parameters.
StartLoad(t) ==
  /\ pc[t] = "start_load"
  /\ \/ control[t] = 0 /\ Goto(t, "run") /\ Publish(t)
     \/ control[t] # 0 /\ Goto(t, "start_cas") /\ UNCHANGED owner
  /\ UNCHANGED <<struct, tlist, alive, locals>>

StartCas(t) ==
  /\ pc[t] = "start_cas"
  /\ \/ /\ control[t] = 1
        /\ control' = [control EXCEPT ![t] = 2]
        /\ Goto(t, "start_wait")
     \/ /\ control[t] # 1
        /\ Goto(t, "start_check")
        /\ UNCHANGED control
  /\ UNCHANGED <<detach_state, tid, killlock, mapping, map_base, tlist, alive,
                 locals, owner>>

StartWait(t) ==
  /\ pc[t] = "start_wait"
  /\ control[t] # 2
  /\ Goto(t, "start_check")
  /\ UNCHANGED <<struct, tlist, alive, locals, owner>>

StartCheck(t) ==
  /\ pc[t] = "start_check"
  /\ \/ control[t] = 0 /\ Goto(t, "run") /\ Publish(t)
     \/ control[t] # 0 /\ Goto(t, "start_exit") /\ UNCHANGED owner
  /\ UNCHANGED <<struct, tlist, alive, locals>>

\* set_tid_address(&args->control) and SYS_exit: the kernel clears control
\* instead of the thread list lock, which the creator holds.
StartExit(t) ==
  /\ pc[t] = "start_exit"
  /\ control' = [control EXCEPT ![t] = 0]
  /\ alive' = alive \ {t}
  /\ Goto(t, "dead")
  /\ UNCHANGED <<detach_state, tid, killlock, mapping, map_base, tlist, locals,
                 owner>>

-----------------------------------------------------------------------------
(***************************************************************************)
(* LOCK() anywhere in libc: with need_locks negative, the first lock taken *)
(* resets it to 0 after its compare-and-swap.                              *)
(***************************************************************************)
LockRead(t) ==
  /\ pc[t] = "run"
  /\ need_locks < 0
  /\ Goto(t, "lock_cas")
  /\ UNCHANGED <<struct, tlist, alive, locals, owner>>

LockReset(t) ==
  /\ pc[t] = "lock_cas"
  /\ need_locks' = 0
  /\ Goto(t, "run")
  /\ UNCHANGED <<struct, lock, list, threads_minus_1, alive, locals, owner>>

-----------------------------------------------------------------------------
(***************************************************************************)
(* pthread_exit.  Cleanup handlers, thread-specific data destructors,      *)
(* signal masks and the robust list do not touch this module's state.      *)
(***************************************************************************)
pthread_exit(t) ==
  /\ pc[t] = "run"
  /\ Goto(t, "exit_cas")
  /\ UNCHANGED <<struct, tlist, alive, locals, owner>>

\* state = a_cas(&self->detach_state, DT_JOINABLE, DT_EXITING)
ExitCas(t) ==
  /\ pc[t] = "exit_cas"
  /\ Remember(t, detach_state[t])
  /\ detach_state' = [detach_state EXCEPT
                        ![t] = IF @ = "DT_JOINABLE" THEN "DT_EXITING" ELSE @]
  /\ Goto(t, "exit_kill")
  /\ UNCHANGED <<tid, killlock, mapping, map_base, control, tlist, alive, owner>>

ExitKillLock(t) ==
  /\ pc[t] = "exit_kill"
  /\ killlock[t] = Nobody
  /\ killlock' = [killlock EXCEPT ![t] = t]
  /\ Goto(t, "exit_tl")
  /\ UNCHANGED <<detach_state, tid, mapping, map_base, control, tlist, alive,
                 locals, owner>>

ExitTlLock(t) ==
  /\ pc[t] = "exit_tl"
  /\ lock = Nobody
  /\ lock' = t
  /\ Goto(t, "exit_check")
  /\ UNCHANGED <<struct, list, threads_minus_1, need_locks, alive, locals, owner>>

\* The only thread left: undo, and exit(0) the process.
IsLast_Counted(t) == threads_minus_1 <= 1
IsLast(t) == list = {t}

ExitLast(t) ==
  /\ pc[t] = "exit_check"
  /\ IsLast(t)
  /\ lock' = Nobody
  /\ killlock' = [killlock EXCEPT ![t] = Nobody]
  /\ detach_state' = [detach_state EXCEPT ![t] = seen[t]]
  /\ Goto(t, "process_exit")
  /\ UNCHANGED <<tid, mapping, map_base, control, list, threads_minus_1,
                 need_locks, alive, locals, owner>>

\* Committed: self->tid = 0 before the kill lock is released.
ClearedTid_Kept(t) == tid
ClearedTid(t) == [tid EXCEPT ![t] = FALSE]

ExitCommit(t) ==
  /\ pc[t] = "exit_check"
  /\ ~IsLast(t)
  /\ tid' = ClearedTid(t)
  /\ killlock' = [killlock EXCEPT ![t] = Nobody]
  /\ Goto(t, "exit_unlink")
  /\ UNCHANGED <<detach_state, mapping, map_base, control, tlist, alive, locals,
                 owner>>

\* if (!--libc.threads_minus_1) libc.need_locks = -1; unlink from the list.
Unlinked_Kept(t) == list
Unlinked(t) == list \ {t}

ExitUnlink(t) ==
  /\ pc[t] = "exit_unlink"
  /\ threads_minus_1' = threads_minus_1 - 1
  /\ need_locks' = IF threads_minus_1 = 1 THEN -1 ELSE need_locks
  /\ list' = Unlinked(t)
  /\ Goto(t, IF seen[t] = "DT_DETACHED" /\ map_base[t] THEN "exit_unmapself"
                                                       ELSE "exit_store")
  /\ UNCHANGED <<struct, lock, alive, locals, owner>>

\* __unmapself frees the stack and exits without touching it.
ExitUnmapself(t) ==
  /\ pc[t] = "exit_unmapself"
  /\ Unmap(t)
  /\ Goto(t, "sys_exit")
  /\ UNCHANGED <<detach_state, tid, killlock, map_base, control, tlist, alive,
                 locals, owner>>

ExitStore(t) ==
  /\ pc[t] = "exit_store"
  /\ detach_state' = [detach_state EXCEPT ![t] = "DT_EXITED"]
  /\ Goto(t, "exit_wake")
  /\ UNCHANGED <<tid, killlock, mapping, map_base, control, tlist, alive, locals,
                 owner>>

\* __wake(&self->detach_state, 1, 1)
ExitWake(t) ==
  LET joiners == {j \in Threads : pc[j] = "join_asleep" /\ target[j] = t} IN
  /\ pc[t] = "exit_wake"
  /\ \E W \in IF joiners = {} THEN {{}} ELSE {{j} : j \in joiners} :
       pc' = [j \in Threads |-> IF j \in W THEN "join_load"
                                ELSE IF j = t THEN "sys_exit" ELSE pc[j]]
  /\ UNCHANGED <<struct, tlist, alive, locals, owner>>

\* The kernel ends the thread, then clears the thread list lock
\* (CLONE_CHILD_CLEARTID) and wakes a waiter for it.
SysExit(t) ==
  /\ pc[t] = "sys_exit"
  /\ alive' = alive \ {t}
  /\ lock' = Nobody
  /\ Goto(t, "dead")
  /\ UNCHANGED <<struct, list, threads_minus_1, need_locks, locals, owner>>

-----------------------------------------------------------------------------
(***************************************************************************)
(* Operations on the handle u of another thread.                           *)
(***************************************************************************)
Begin(t, u, o) ==
  /\ pc[t] = "run"
  /\ o \in Ops
  /\ u # t \/ o \in {"detach", "kill"}
  /\ owner[u] = Nobody
  /\ mapping[u] # "none"
  /\ owner' = [owner EXCEPT ![u] = t]
  /\ op' = [op EXCEPT ![t] = o]
  /\ target' = [target EXCEPT ![t] = u]
  /\ UNCHANGED <<struct, tlist, alive, seen>>

pthread_join(t, u)         == Begin(t, u, "join") /\ Goto(t, "join_load")
pthread_timedjoin_np(t, u) == Begin(t, u, "timedjoin") /\ Goto(t, "join_load")
pthread_tryjoin_np(t, u)   == Begin(t, u, "tryjoin") /\ Goto(t, "try_load")
pthread_clockjoin_np(t, u) == Begin(t, u, "clockjoin") /\ Goto(t, "try_load")
pthread_kill(t, u)         == Begin(t, u, "kill") /\ Goto(t, "kill_lock")
pthread_detach(t, u)       == Begin(t, u, "detach") /\ Goto(t, "detach_cas")

\* The call returns without disposing of the handle.
GiveUp(t) == /\ Return(t)
             /\ owner' = [owner EXCEPT ![target[t]] = Nobody]
             /\ UNCHANGED <<struct, tlist, alive>>

\* is_mapped holds for a valid handle.  A thread still joinable is marked;
\* otherwise it is exiting and pthread_join cleans up.
DetachCas_Swap(t) ==
  LET u == target[t] IN
  /\ pc[t] = "detach_cas"
  /\ detach_state' = [detach_state EXCEPT ![u] = "DT_DETACHED"]
  /\ \/ /\ detach_state[u] = "DT_JOINABLE"
        /\ owner' = [owner EXCEPT ![u] = "detached"]
        /\ Return(t)
     \/ /\ detach_state[u] # "DT_JOINABLE"
        /\ Goto(t, "join_load")
        /\ UNCHANGED <<owner, locals>>
  /\ UNCHANGED <<tid, killlock, mapping, map_base, control, tlist, alive>>
DetachCas(t) ==
  LET u == target[t] IN
  /\ pc[t] = "detach_cas"
  /\ \/ /\ detach_state[u] = "DT_JOINABLE"
        /\ detach_state' = [detach_state EXCEPT ![u] = "DT_DETACHED"]
        /\ owner' = [owner EXCEPT ![u] = "detached"]
        /\ Return(t)
     \/ /\ detach_state[u] # "DT_JOINABLE"
        /\ Goto(t, "join_load")
        /\ UNCHANGED <<detach_state, owner, locals>>
  /\ UNCHANGED <<tid, killlock, mapping, map_base, control, tlist, alive>>

\* pthread_tryjoin_np: EBUSY for a joinable thread, pthread_join otherwise.
\* EBUSY is the result of a tryjoin; a clockjoin looks at the clock first,
\* and times out when this was its last attempt.
TryLoad(t) ==
  /\ pc[t] = "try_load"
  /\ \/ /\ detach_state[target[t]] # "DT_JOINABLE"
        /\ Goto(t, "join_load")
        /\ UNCHANGED <<struct, tlist, alive, locals, owner>>
     \/ /\ detach_state[target[t]] = "DT_JOINABLE"
        /\ op[t] = "clockjoin"
        /\ Goto(t, "clock_time")
        /\ UNCHANGED <<struct, tlist, alive, locals, owner>>
     \/ /\ detach_state[target[t]] = "DT_JOINABLE"
        /\ op[t] # "clockjoin"
        /\ GiveUp(t)

\* The deadline of a clockjoin is read against the clock: the clock fails,
\* the deadline has passed, or the thread sleeps a poll interval and tries
\* again.
ClockTime(t) ==
  /\ pc[t] = "clock_time"
  /\ \/ GiveUp(t)
     \/ /\ Goto(t, "try_load")
        /\ op' = [op EXCEPT ![t] = "clocklast"]
        /\ UNCHANGED <<struct, tlist, alive, target, seen, owner>>
     \/ /\ Goto(t, "try_load")
        /\ UNCHANGED <<struct, tlist, alive, locals, owner>>

JoinLoad(t) ==
  LET s == detach_state[target[t]] IN
  /\ pc[t] = "join_load"
  /\ Remember(t, s)
  /\ Goto(t, CASE s = "DT_EXITED"   -> "sync_load"
               [] s = "DT_DETACHED" -> "crashed"
               [] OTHER             -> "join_futex")
  /\ UNCHANGED <<struct, tlist, alive, owner>>

JoinFutex(t) ==
  /\ pc[t] = "join_futex"
  /\ Goto(t, IF detach_state[target[t]] = seen[t] THEN "join_asleep"
                                                  ELSE "join_load")
  /\ UNCHANGED <<struct, tlist, alive, locals, owner>>

\* A signal handler interrupts the sleep: the loop starts over.
JoinInterrupted(t) ==
  /\ pc[t] = "join_asleep"
  /\ Goto(t, "join_load")
  /\ UNCHANGED <<struct, tlist, alive, locals, owner>>

\* ETIMEDOUT or EINVAL: the thread stays joinable.
JoinTimesOut(t) ==
  /\ pc[t] \in {"join_futex", "join_asleep"}
  /\ op[t] = "timedjoin"
  /\ GiveUp(t)

\* The caller is cancelled in a join, but not in the one pthread_detach makes
\* with cancellation disabled, or in the sleep of a clockjoin.
JoinCanceled(t) ==
  /\ pc[t] \in {"join_futex", "join_asleep", "clock_time"}
  /\ op[t] # "detach"
  /\ Leave(t, "exit_cas")
  /\ owner' = [owner EXCEPT ![target[t]] = Nobody]
  /\ UNCHANGED <<struct, tlist, alive>>

\* __tl_sync: wait for a holder of the thread list lock to let go of it.
ListLockFree_Assumed == TRUE
ListLockFree == lock = Nobody

SyncLoad(t) ==
  /\ pc[t] = "sync_load"
  /\ Remember(t, lock)
  /\ Goto(t, IF ListLockFree THEN "join_unmap" ELSE "sync_wait")
  /\ UNCHANGED <<struct, tlist, alive, owner>>

SyncWait(t) ==
  /\ pc[t] = "sync_wait"
  /\ lock # seen[t]
  /\ Goto(t, "join_unmap")
  /\ UNCHANGED <<struct, tlist, alive, locals, owner>>

JoinUnmap(t) ==
  /\ pc[t] = "join_unmap"
  /\ Unmap(target[t])
  /\ owner' = [owner EXCEPT ![target[t]] = "joined"]
  /\ Return(t)
  /\ UNCHANGED <<detach_state, tid, killlock, map_base, control, tlist, alive>>

KillLock(t) ==
  LET u == target[t] IN
  /\ pc[t] = "kill_lock"
  /\ killlock[u] = Nobody
  /\ killlock' = [killlock EXCEPT ![u] = t]
  /\ Goto(t, "kill_check")
  /\ UNCHANGED <<detach_state, tid, mapping, map_base, control, tlist, alive,
                 locals, owner>>

\* t->tid ? tkill(t->tid, sig) : 0
KillCheck(t) ==
  /\ pc[t] = "kill_check"
  /\ Remember(t, IF tid[target[t]] THEN "tkill" ELSE "none")
  /\ Goto(t, "kill_unlock")
  /\ UNCHANGED <<struct, tlist, alive, owner>>

KillUnlock(t) ==
  /\ pc[t] = "kill_unlock"
  /\ killlock' = [killlock EXCEPT ![target[t]] = Nobody]
  /\ owner' = [owner EXCEPT ![target[t]] = Nobody]
  /\ Return(t)
  /\ UNCHANGED <<detach_state, tid, mapping, map_base, control, tlist, alive>>

-----------------------------------------------------------------------------
Call(t, u) ==
  \/ \E a \in Attrs : CreateMap(t, u, a)
  \/ pthread_join(t, u)
  \/ pthread_timedjoin_np(t, u)
  \/ pthread_tryjoin_np(t, u)
  \/ pthread_clockjoin_np(t, u)
  \/ pthread_detach(t, u)
  \/ pthread_kill(t, u)

\* The steps a thread takes by itself inside a call.
Step(t) ==
  \/ CreateLock(t) \/ CreateClone(t) \/ CreateSched(t) \/ CreateReap(t)
  \/ CreateLink(t) \/ CreateUndo(t) \/ CreateUnmap(t)
  \/ StartLoad(t) \/ StartCas(t) \/ StartWait(t) \/ StartCheck(t)
  \/ StartExit(t) \/ LockReset(t)
  \/ ExitCas(t) \/ ExitKillLock(t) \/ ExitTlLock(t) \/ ExitLast(t)
  \/ ExitCommit(t) \/ ExitUnlink(t) \/ ExitUnmapself(t) \/ ExitStore(t)
  \/ ExitWake(t) \/ SysExit(t)
  \/ DetachCas(t) \/ TryLoad(t) \/ ClockTime(t)
  \/ JoinLoad(t) \/ JoinFutex(t) \/ SyncLoad(t) \/ SyncWait(t) \/ JoinUnmap(t)
  \/ KillLock(t) \/ KillCheck(t) \/ KillUnlock(t)

Next == \E t \in Threads :
          \/ \E u \in Threads : Call(t, u)
          \/ pthread_exit(t) \/ LockRead(t)
          \/ Step(t)
          \/ JoinInterrupted(t) \/ JoinTimesOut(t) \/ JoinCanceled(t)

Spec == Init /\ [][Next]_vars

\* A thread inside a call keeps running; calls, interruptions, timeouts and
\* cancellations need not happen.
FairSpec == Spec /\ \A t \in Threads : WF_vars(Step(t))

-----------------------------------------------------------------------------
TypeOK ==
  /\ detach_state \in [Threads -> States]
  /\ tid \in [Threads -> BOOLEAN]
  /\ killlock \in [Threads -> Threads \cup {Nobody}]
  /\ mapping \in [Threads -> {"none", "live", "freed"}]
  /\ map_base \in [Threads -> BOOLEAN]
  /\ control \in [Threads -> 0..3]
  /\ lock \in Threads \cup {Nobody}
  /\ list \in SUBSET Threads
  /\ threads_minus_1 \in Nat
  /\ need_locks \in {-1, 0, 1}
  /\ alive \in SUBSET Threads
  /\ pc \in [Threads -> Locations]
  /\ op \in [Threads -> AllOps \cup {"none", "create", "clocklast"}]
  /\ target \in [Threads -> Threads]
  /\ seen \in [Threads -> States \cup Threads \cup {Nobody, "none", "tkill"}]
  /\ owner \in [Threads -> Threads \cup {Nobody, "joined", "detached"}]

Exiting == {"exit_cas", "exit_kill", "exit_tl", "exit_check", "exit_unlink",
            "exit_unmapself", "exit_store", "exit_wake"}

\* The structures the next step of t reads, writes or frees.
Touches(t) ==
  CASE pc[t] \in {"unborn", "dead", "sys_exit"} -> {}
    [] pc[t] \in Exiting \cup {"run", "lock_cas"} -> {t}
    [] OTHER -> {t, target[t]}

\* Nobody uses a thread's structure or stack after it was unmapped, and
\* nothing is unmapped twice: pthread_exit's "the loser is responsible for
\* freeing thread resources", the joiner's __tl_sync and the creator's wait
\* for a failed child.
NoUseAfterUnmap == \A t \in Threads : \A x \in Touches(t) : mapping[x] # "freed"

\* With the thread list lock free, the list holds exactly the threads the
\* kernel runs and threads_minus_1 counts them; and every linked structure is
\* mapped, so that unlinking a neighbour writes to memory that exists.
ListSound ==
  /\ TypeOK
  /\ lock = Nobody => list = alive /\ threads_minus_1 = Cardinality(list) - 1
  /\ \A t \in list : mapping[t] = "live"

\* need_locks may only let LOCK() skip locking while a single thread can call
\* it; one past its unlinking calls it no more.
NeedLocksSound ==
  need_locks <= 0 =>
    Cardinality({t \in alive : pc[t] \notin
        {"exit_unmapself", "exit_store", "exit_wake", "sys_exit"}}) <= 1

\* pthread_kill never signals a tid whose thread is gone: the exiting thread
\* clears its tid under the kill lock.
KillHitsLiveThread ==
  \A t \in Threads :
    pc[t] = "kill_unlock" /\ seen[t] = "tkill" => target[t] \in alive

\* When a join has returned, the kernel thread is gone; and pthread_join never
\* traps when callers obey POSIX, not even the one that pthread_detach falls
\* back to.
JoinSound == \A t \in Threads : /\ owner[t] = "joined" => t \notin alive
                                /\ pc[t] # "crashed"

\* exit(0) runs as the last thread, on the detach state it started with.
LastThreadAlone ==
  \A t \in Threads : pc[t] = "process_exit" =>
    alive = {t} /\ detach_state[t] # "DT_EXITING"

\* A detached thread has begun to exit, and its memory is still there.
Unreclaimed(t) == /\ owner[t] = "detached" /\ map_base[t] /\ mapping[t] # "freed"
                  /\ pc[t] \in Exiting \cup {"sys_exit", "dead"}

\* A call of pthread_detach, which may have to wait for a thread that exits.
Detaching(t) == op[t] = "detach"

\* What pthread_clockjoin_np says of its attempt after the deadline: "Attempt
\* one last non-blocking join."
LastJoinNonBlocking ==
  \A t \in Threads : op[t] = "clocklast" => pc[t] # "join_asleep"
=============================================================================
