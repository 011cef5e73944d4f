------------------------------ MODULE Semaphore ------------------------------
(***************************************************************************)
(* Unnamed POSIX semaphores: musl's sem_post, sem_trywait, sem_wait and    *)
(* sem_timedwait together with libgcompat's sem_clockwait, run by several  *)
(* threads on one sem_t.  Every atomic access to the sem_t and every futex *)
(* system call is a step of its own; pc[t] says which one thread t does    *)
(* next.                                                                   *)
(*                                                                         *)
(* The int sem->__val[0] is a count in its low 31 bits and a "there may be *)
(* waiters" flag in its sign bit; it is kept here as the pair of the two,  *)
(* which is exact because the count never reaches the sign bit.            *)
(***************************************************************************)
EXTENDS Integers, FiniteSets

CONSTANTS Threads,        \* the threads using the semaphore
          SEM_VALUE_MAX,  \* the largest count
          InitialValue,   \* the value given to sem_init
          EintrValid,     \* __eintr_valid_flag: an interrupting handler exists
          Timeouts,       \* the kinds of abs_timeout the program passes
          MaxPosts,       \* bound: no sem_post starts after this many posts
          MaxCancels      \* bound: cancellation requests in a behaviour

Deadlines == {"none", "timed", "invalid"}

ASSUME SemAssumption == /\ IsFiniteSet(Threads)
                        /\ SEM_VALUE_MAX \in Nat \ {0}
                        /\ InitialValue \in 0..SEM_VALUE_MAX
                        /\ EintrValid \in BOOLEAN
                        /\ Timeouts \subseteq Deadlines
                        /\ MaxPosts \in Nat
                        /\ MaxCancels \in Nat

VARIABLES val,     \* sem->__val[0]: [count, flag]
          waiters, \* sem->__val[1]
          asleep,  \* threads queued by the kernel in FUTEX_WAIT on __val[0]
          pc,      \* the next step of each thread
          site,    \* where a running sem_trywait returns to
          deadline,\* argument abs_timeout of a wait
          vread,   \* local val: what was loaded from __val[0]
          wread,   \* local waiters: what sem_post loaded from __val[1]
          r,       \* local r: the result of __timedwait_cp
          cancel,  \* threads with a pending cancellation request
          posted,  \* history: posts that raised the count
          taken    \* history: waits that lowered the count

shared == <<val, waiters, asleep>>
locals == <<site, deadline, vread, wread, r>>
ghosts == <<posted, taken>>
vars   == <<shared, pc, locals, cancel, ghosts>>

Vals      == [count : 0..SEM_VALUE_MAX, flag : BOOLEAN]
Sites     == {"trywait", "entry", "loop"}
Results   == {"ok", "ETIMEDOUT", "EINTR", "EINVAL", "canceled"}
Locations == {"idle", "exited", "try_load", "try_cas", "inc_waiters",
              "set_flag", "futex_wait", "asleep", "dec_waiters",
              "post_val", "post_waiters", "post_cas", "post_wake"}

Zero == [count |-> 0, flag |-> FALSE]

\* The value 0x80000000 a waiter sleeps on: no count, flag set.
FlagOnly == [count |-> 0, flag |-> TRUE]

-----------------------------------------------------------------------------
sem_init ==
  /\ val = [count |-> InitialValue, flag |-> FALSE]
  /\ waiters = 0

Init ==
  /\ sem_init
  /\ asleep = {}
  /\ pc = [t \in Threads |-> "idle"]
  /\ site = [t \in Threads |-> "trywait"]
  /\ deadline = [t \in Threads |-> "none"]
  /\ vread = [t \in Threads |-> Zero]
  /\ wread = [t \in Threads |-> 0]
  /\ r = [t \in Threads |-> "ok"]
  /\ cancel = {}
  /\ posted = 0
  /\ taken = 0

Goto(t, loc) == pc' = [pc EXCEPT ![t] = loc]

\* The call is over, and with it the lifetime of its locals.
Leave(t, loc) ==
  /\ Goto(t, loc)
  /\ site' = [site EXCEPT ![t] = "trywait"]
  /\ deadline' = [deadline EXCEPT ![t] = "none"]
  /\ vread' = [vread EXCEPT ![t] = Zero]
  /\ wread' = [wread EXCEPT ![t] = 0]
  /\ r' = [r EXCEPT ![t] = "ok"]

-----------------------------------------------------------------------------
(***************************************************************************)
(* sem_trywait: load the value, fail when its count is 0, otherwise        *)
(* compare-and-swap it down by one and start over when the value moved.    *)
(***************************************************************************)
sem_trywait(t) ==
  /\ pc[t] = "idle"
  /\ Goto(t, "try_load")
  /\ UNCHANGED <<shared, locals, cancel, ghosts>>

\* A failed sem_trywait returns to its caller: the application (EAGAIN), or
\* the wait functions, whose spin loop only re-reads the value and is left
\* out here.
TryLoad(t) ==
  /\ pc[t] = "try_load"
  /\ \/ /\ val.count # 0
        /\ vread' = [vread EXCEPT ![t] = val]
        /\ Goto(t, "try_cas")
        /\ UNCHANGED <<site, deadline, wread, r>>
     \/ /\ val.count = 0
        /\ site[t] = "trywait"
        /\ Leave(t, "idle")
     \/ /\ val.count = 0
        /\ site[t] = "entry"
        /\ site' = [site EXCEPT ![t] = "loop"]
        /\ UNCHANGED <<pc, deadline, vread, wread, r>>
     \/ /\ val.count = 0
        /\ site[t] = "loop"
        /\ Goto(t, "inc_waiters")
        /\ UNCHANGED locals
  /\ UNCHANGED <<shared, cancel, ghosts>>

\* The value sem_trywait swaps in: one token less, the flag untouched.
Lowered_DropsFlag(v) == [count |-> v.count - 1, flag |-> FALSE]
Lowered(v) == [count |-> v.count - 1, flag |-> v.flag]

\* a_cas finds the value thread t loaded.
Unmoved_Unchecked(t) == TRUE
Unmoved(t) == val = vread[t]

TryCas(t) ==
  /\ pc[t] = "try_cas"
  /\ \/ /\ Unmoved(t)
        /\ val' = Lowered(vread[t])
        /\ taken' = taken + 1
        /\ Leave(t, "idle")
     \/ /\ ~Unmoved(t)
        /\ vread' = [vread EXCEPT ![t] = Zero]
        /\ Goto(t, "try_load")
        /\ UNCHANGED <<val, taken, site, deadline, wread, r>>
  /\ UNCHANGED <<waiters, asleep, cancel, posted>>

-----------------------------------------------------------------------------
(***************************************************************************)
(* The blocking waits.  sem_wait passes no timeout, sem_timedwait one on   *)
(* CLOCK_REALTIME, sem_clockwait one on the caller's clock; an invalid     *)
(* timeout is one whose tv_nsec is out of range or whose clock cannot be   *)
(* read.  All three start with pthread_testcancel.                         *)
(***************************************************************************)
StartWait(t, d) ==
  /\ pc[t] = "idle"
  /\ \/ /\ t \in cancel
        /\ Leave(t, "exited")
     \/ /\ t \notin cancel
        /\ site' = [site EXCEPT ![t] = "entry"]
        /\ deadline' = [deadline EXCEPT ![t] = d]
        /\ Goto(t, "try_load")
        /\ UNCHANGED <<vread, wread, r>>
  /\ UNCHANGED <<shared, cancel, ghosts>>

sem_wait(t)      == StartWait(t, "none")
sem_timedwait(t) == \E d \in Timeouts : StartWait(t, d)
sem_clockwait(t) == \E d \in Timeouts : StartWait(t, d)

\* a_inc(sem->__val+1): announce the waiter.
IncWaiters(t) ==
  /\ pc[t] = "inc_waiters"
  /\ waiters' = waiters + 1
  /\ Goto(t, "set_flag")
  /\ UNCHANGED <<val, asleep, locals, cancel, ghosts>>

\* a_cas(sem->__val, 0, 0x80000000): a failed swap is ignored.
SetFlag(t) ==
  /\ pc[t] = "set_flag"
  /\ val' = IF val = Zero THEN FlagOnly ELSE val
  /\ Goto(t, "futex_wait")
  /\ UNCHANGED <<waiters, asleep, locals, cancel, ghosts>>

\* __timedwait_cp returns before it sleeps: the timeout is invalid, has
\* passed already, a cancellation is pending at the system call, or the value
\* is no longer 0x80000000 (EAGAIN, reported as 0).
TimedwaitReturns(t, res) ==
  /\ pc[t] = "futex_wait"
  /\ \/ res = "EINVAL" /\ deadline[t] = "invalid"
     \/ res = "ETIMEDOUT" /\ deadline[t] = "timed"
     \/ res = "canceled" /\ deadline[t] # "invalid" /\ t \in cancel
     \/ /\ res = "ok"
        /\ deadline[t] # "invalid"
        /\ t \notin cancel
        /\ val # FlagOnly
  /\ Goto(t, "dec_waiters")
  /\ r' = [r EXCEPT ![t] = res]
  /\ UNCHANGED <<shared, site, deadline, vread, wread, cancel, ghosts>>

\* The kernel compares the value and queues the thread in one step.
FutexSleep(t) ==
  /\ pc[t] = "futex_wait"
  /\ deadline[t] # "invalid"
  /\ t \notin cancel
  /\ val = FlagOnly
  /\ asleep' = asleep \cup {t}
  /\ Goto(t, "asleep")
  /\ UNCHANGED <<val, waiters, locals, cancel, ghosts>>

\* A sleep that ends without FUTEX_WAKE: a timeout, a cancellation, or a
\* signal handler, whose EINTR is reported as 0 unless EintrValid and which
\* acts on a cancellation that is pending by then.
SleepEnds(t, res) ==
  /\ pc[t] = "asleep"
  /\ \/ res = "ETIMEDOUT" /\ deadline[t] = "timed"
     \/ res = "canceled" /\ t \in cancel
     \/ res = (IF EintrValid THEN "EINTR" ELSE "ok") /\ t \notin cancel
  /\ asleep' = asleep \ {t}
  /\ Goto(t, "dec_waiters")
  /\ r' = [r EXCEPT ![t] = res]
  /\ UNCHANGED <<val, waiters, site, deadline, vread, wread, cancel, ghosts>>

\* The cleanup handler, which runs on every way out of the sleep.
cleanup_clockwait_NotIfCanceled(t) ==
  waiters' = IF r[t] = "canceled" THEN waiters ELSE waiters - 1
cleanup_clockwait(t) == waiters' = waiters - 1

\* After the cleanup a cancelled thread exits, an error is returned, or the
\* loop tries again.
DecWaiters(t) ==
  /\ pc[t] = "dec_waiters"
  /\ cleanup_clockwait(t)
  /\ \/ /\ r[t] = "ok"
        /\ Goto(t, "try_load")
        /\ UNCHANGED locals
     \/ /\ r[t] = "canceled"
        /\ Leave(t, "exited")
     \/ /\ r[t] \notin {"ok", "canceled"}
        /\ Leave(t, "idle")
  /\ UNCHANGED <<val, asleep, cancel, ghosts>>

-----------------------------------------------------------------------------
(***************************************************************************)
(* sem_post: load the value and the waiter count, swap in the raised       *)
(* value, and wake when the old value carried the flag.                    *)
(***************************************************************************)
sem_post(t) ==
  /\ pc[t] = "idle"
  /\ posted < MaxPosts
  /\ Goto(t, "post_val")
  /\ UNCHANGED <<shared, locals, cancel, ghosts>>

PostLoadVal(t) ==
  /\ pc[t] = "post_val"
  /\ vread' = [vread EXCEPT ![t] = val]
  /\ Goto(t, "post_waiters")
  /\ UNCHANGED <<shared, site, deadline, wread, r, cancel, ghosts>>

\* A full count is reported as EOVERFLOW.
Full(v) == v.count = SEM_VALUE_MAX

PostLoadWaiters(t) ==
  /\ pc[t] = "post_waiters"
  /\ \/ /\ Full(vread[t])
        /\ Leave(t, "idle")
     \/ /\ ~Full(vread[t])
        /\ wread' = [wread EXCEPT ![t] = waiters]
        /\ Goto(t, "post_cas")
        /\ UNCHANGED <<site, deadline, vread, r>>
  /\ UNCHANGED <<shared, cancel, ghosts>>

\* new = val + 1, with the flag cleared when at most one waiter was seen.
Raised_ClearsFlag(v, w) == [count |-> v.count + 1, flag |-> FALSE]
Raised(v, w) == [count |-> v.count + 1, flag |-> v.flag /\ w > 1]

PostCas(t) ==
  /\ pc[t] = "post_cas"
  /\ \/ /\ Unmoved(t)
        /\ val' = Raised(vread[t], wread[t])
        /\ posted' = posted + 1
        /\ \/ vread[t].flag /\ Goto(t, "post_wake") /\ UNCHANGED locals
           \/ ~vread[t].flag /\ Leave(t, "idle")
     \/ /\ ~Unmoved(t)
        /\ Leave(t, "post_val")
        /\ UNCHANGED <<val, posted>>
  /\ UNCHANGED <<waiters, asleep, cancel, taken>>

\* FUTEX_WAKE takes one sleeper when more than one waiter was seen, every
\* sleeper otherwise.
WakeSets_One(w) == IF asleep # {} THEN {{u} : u \in asleep} ELSE {{}}
WakeSets(w) ==
  IF w > 1 /\ asleep # {} THEN {{u} : u \in asleep} ELSE {asleep}

\* The woken threads return 0 from the futex call.
PostWake(t) ==
  /\ pc[t] = "post_wake"
  /\ \E W \in WakeSets(wread[t]) :
       /\ asleep' = asleep \ W
       /\ pc' = [u \in Threads |-> IF u \in W THEN "dec_waiters"
                                   ELSE IF u = t THEN "idle" ELSE pc[u]]
       /\ r' = [u \in Threads |-> IF u \in W THEN "ok" ELSE r[u]]
  /\ vread' = [vread EXCEPT ![t] = Zero]
  /\ wread' = [wread EXCEPT ![t] = 0]
  /\ UNCHANGED <<val, waiters, site, deadline, cancel, ghosts>>

-----------------------------------------------------------------------------
\* Some thread of the program requests the cancellation of t.
pthread_cancel(t) ==
  /\ t \notin cancel
  /\ Cardinality(cancel) < MaxCancels
  /\ cancel' = cancel \cup {t}
  /\ UNCHANGED <<shared, pc, locals, ghosts>>

Call(t) == \/ sem_wait(t) \/ sem_timedwait(t) \/ sem_clockwait(t)
           \/ sem_trywait(t) \/ sem_post(t)

\* The steps a thread takes by itself once it is inside a call.
Step(t) == \/ TryLoad(t) \/ TryCas(t)
           \/ IncWaiters(t) \/ SetFlag(t) \/ FutexSleep(t) \/ DecWaiters(t)
           \/ \E res \in Results : TimedwaitReturns(t, res)
           \/ PostLoadVal(t) \/ PostLoadWaiters(t) \/ PostCas(t) \/ PostWake(t)

Next == \E t \in Threads : \/ Call(t)
                           \/ Step(t)
                           \/ \E res \in Results : SleepEnds(t, res)
                           \/ pthread_cancel(t)

Spec == Init /\ [][Next]_vars

\* Threads inside a call keep running; nobody has to make a call, time a
\* sleeper out, interrupt it or cancel it.
FairSpec == Spec /\ \A t \in Threads : WF_vars(Step(t))

-----------------------------------------------------------------------------
TypeOK ==
  /\ val \in Vals
  /\ waiters \in Int
  /\ asleep \in SUBSET Threads
  /\ pc \in [Threads -> Locations]
  /\ site \in [Threads -> Sites]
  /\ deadline \in [Threads -> Deadlines]
  /\ vread \in [Threads -> Vals]
  /\ wread \in [Threads -> Int]
  /\ r \in [Threads -> Results]
  /\ cancel \in SUBSET Threads
  /\ posted \in Nat
  /\ taken \in Nat

\* No token is lost or made up: the count is what sem_init put there, plus
\* the posts, minus the successful waits, however their loads and swaps
\* interleave (sem_post.c, sem_trywait.c).
Conservation == val.count + taken = InitialValue + posted

Announced == {t \in Threads :
                pc[t] \in {"set_flag", "futex_wait", "asleep", "dec_waiters"}}

\* __val[1] is exactly the number of threads between a_inc and a_dec, also
\* after timeouts and cancellations (the cleanup_clockwait handler).
WaitersExact == waiters = Cardinality(Announced)

\* Threads about to call FUTEX_WAKE, and those about to wake everybody.
Waking    == {t \in Threads : pc[t] = "post_wake"}
WakingAll == {t \in Waking : wread[t] <= 1}

\* Waiters that are awake and will look at the count again.
Retrying == {t \in Threads :
               \/ pc[t] \in {"try_load", "try_cas"} /\ site[t] = "loop"
               \/ pc[t] = "dec_waiters" /\ r[t] = "ok"}

\* No lost wakeup: when a thread sleeps although the count is positive, a
\* FUTEX_WAKE is on its way or an awake waiter is left to notice the count.
NoLostWakeup ==
  val.count > 0 /\ asleep # {} => Waking \cup Retrying # {}

\* The counting form of NoLostWakeup, which is inductive: a sleeper either
\* has a wake-all on its way, or the flag is up and every token on offer is
\* spoken for by a pending wake or an awake waiter.
TokensCovered ==
  asleep # {} /\ WakingAll = {} =>
    val.flag /\ val.count <= Cardinality(Waking \cup Retrying)

\* Only a post lowers the flag, and it raises the count by one as it does: a
\* wait that takes a token leaves the flag for the other waiters.
FlagLoweredByPost ==
  [][val.flag /\ ~val'.flag => val'.count = val.count + 1]_vars

\* A thread sleeps although there are tokens.
Unserved(t) == pc[t] = "asleep" /\ val.count > 0
=============================================================================
