------------------------------ MODULE MCProgress ------------------------------
(***************************************************************************)
(* Model-checking instance for what must eventually happen: in every       *)
(* behaviour the threads use one of libc's own lock, the lock of the       *)
(* thread list, a semaphore, a mutex, or create, detach and join each      *)
(* other; kind says which.                                                 *)
(***************************************************************************)
EXTENDS LibcLock

CONSTANTS Free, MaxDepth,                                     \* ThreadListLock
          SEM_VALUE_MAX, MaxPosts,                            \* Semaphore
          Busy, Unusable, INT_MAX,                            \* Mutex
          Nobody                                              \* ThreadLifecycle

VARIABLES kind,
          tl_lock, tl_count, tl_waiters, tl_pc, tl_call, tl_val,
          s_val, s_waiters, s_asleep, s_pc, s_site, s_deadline, s_vread, s_wread, s_r,
          s_cancel, s_posted, s_taken,
          m_type, m_lock, m_waiters, m_count, m_pc, m_op, m_old, m_wread, m_r, m_depth,
          th_detach_state, th_tid, th_killlock, th_mapping, th_map_base, th_control,
          th_lock, th_list, th_count, th_need_locks, th_alive, th_pc, th_op, th_target,
          th_seen, th_owner

listlock  == <<tl_lock, tl_count, tl_waiters, tl_pc, tl_call, tl_val>>
semaphore == <<s_val, s_waiters, s_asleep, s_pc, s_site, s_deadline, s_vread, s_wread,
               s_r, s_cancel, s_posted, s_taken>>
mutex     == <<m_type, m_lock, m_waiters, m_count, m_pc, m_op, m_old, m_wread, m_r, m_depth>>
threads   == <<th_detach_state, th_tid, th_killlock, th_mapping, th_map_base, th_control,
               th_lock, th_list, th_count, th_need_locks, th_alive, th_pc, th_op,
               th_target, th_seen, th_owner>>
all       == <<kind, vars, listlock, semaphore, mutex, threads>>

List == INSTANCE ThreadListLock
          WITH lock <- tl_lock, tl_lock_count <- tl_count, tl_lock_waiters <- tl_waiters,
               pc <- tl_pc, call <- tl_call, val <- tl_val

Sem == INSTANCE Semaphore
         WITH InitialValue <- 0, EintrValid <- FALSE, Timeouts <- {"none"}, MaxCancels <- 0,
              val <- s_val, waiters <- s_waiters, asleep <- s_asleep, pc <- s_pc,
              site <- s_site, deadline <- s_deadline, vread <- s_vread, wread <- s_wread,
              r <- s_r, cancel <- s_cancel, posted <- s_posted, taken <- s_taken

Mutex == INSTANCE Mutex
           WITH Types <- {[kind |-> "normal", robust |-> FALSE, pshared |-> FALSE]},
                Ops <- {"lock"}, EintrValid <- FALSE,
                type <- m_type, lock <- m_lock, waiters <- m_waiters, count <- m_count,
                pc <- m_pc, op <- m_op, old <- m_old, wread <- m_wread, r <- m_r,
                depth <- m_depth

Life == INSTANCE ThreadLifecycle
          WITH Attrs <- [detach : BOOLEAN, ownstack : {FALSE}, sched : {FALSE}],
               Ops <- {"detach"},
               detach_state <- th_detach_state, tid <- th_tid, killlock <- th_killlock,
               mapping <- th_mapping, map_base <- th_map_base, control <- th_control,
               lock <- th_lock, list <- th_list, threads_minus_1 <- th_count,
               need_locks <- th_need_locks, alive <- th_alive, pc <- th_pc, op <- th_op,
               target <- th_target, seen <- th_seen, owner <- th_owner

MinInt == -8

ProgressInit == /\ kind \in {"libc", "list", "semaphore", "mutex", "threads"}
                /\ Init /\ List!Init /\ Sem!Init /\ Mutex!Init /\ Life!Init

\* One of the five moves, the one that the behaviour is about.
Use(Lc, Li, Se, Mu, Th) ==
  /\ \/ kind = "libc" /\ Lc /\ UNCHANGED <<listlock, semaphore, mutex, threads>>
     \/ kind = "list" /\ Li /\ UNCHANGED <<vars, semaphore, mutex, threads>>
     \/ kind = "semaphore" /\ Se /\ UNCHANGED <<vars, listlock, mutex, threads>>
     \/ kind = "mutex" /\ Mu /\ UNCHANGED <<vars, listlock, semaphore, threads>>
     \/ kind = "threads" /\ Th /\ UNCHANGED <<vars, listlock, semaphore, mutex>>
  /\ UNCHANGED kind

ProgressNext == Use(Next, List!Next, Sem!Next, Mutex!Next, Life!Next)

\* A thread inside a call keeps running, and one that has the mutex gives it
\* back or exits, as in each component's own specification.
ProgressSpec ==
  /\ ProgressInit /\ [][ProgressNext]_all
  /\ \A t \in Threads :
       WF_all(Use(Step(t), List!Step(t), Sem!Step(t),
                  Mutex!Step(t) \/ Mutex!GivesBack(t), Life!Step(t)))

-----------------------------------------------------------------------------
\* __tl_lock and __tl_unlock: the word names the holder, nested calls included,
\* and the waiters are counted.
ListLockSound == List!TypeOK /\ List!HolderExact /\ List!WaitersExact

\* __tl_lock is an exclusive lock for its users, exits of holders included.
ListLockRefines == List!Refines

Stuck(t) == \/ kind = "libc" /\ Unserved
            \/ kind = "list" /\ List!Unserved
            \/ kind = "semaphore" /\ Sem!Unserved(t)
            \/ kind = "mutex" /\ Mutex!Unserved
            \/ kind = "threads" /\ (Life!Unreclaimed(t) \/ Life!Detaching(t))

\* Nobody waits for ever for what is there: a lock that is free while threads
\* wait for it is taken, a semaphore's sleeper gets a token that is left,
\* a detached thread that exits gives its memory back, and pthread_detach
\* returns.
WaitersServed == \A t \in Threads : Stuck(t) ~> ~Stuck(t)
=============================================================================
