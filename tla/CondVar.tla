------------------------------- MODULE CondVar -------------------------------
(***************************************************************************)
(* Process-private condition variables: pthread_cond_timedwait, _signal    *)
(* and _broadcast, composed with the plain mutex they are used with, and   *)
(* pthread_cond_clockwait, which is built from them.                       *)
(*                                                                         *)
(* Each waiting thread has a node on its stack, in a list that runs from   *)
(* the newest (head) to the oldest (tail) waiter.  A thread stands for its *)
(* node: a thread that waits again may get the same address again.  The    *)
(* sections under _c_lock are one step each, except the scan of a signal,  *)
(* which races with waiters that leave without that lock.                  *)
(***************************************************************************)
EXTENDS Integers, FiniteSets, FiniteSetsExt

CONSTANTS Threads, None,
          Waits,       \* per thread, the waits it may do:
                       \*   subset of {"wait", "timedwait", "clockwait"}
          Signals,     \* per thread: subset of {"signal", "broadcast"}
          Cancelable,  \* the threads that may be cancelled in a wait
          Requeue,     \* the mutex is not process-shared: !(_m_type & 128)
          MaxCalls     \* bound on the calls of a thread

ASSUME CondAssumption ==
  /\ IsFiniteSet(Threads) /\ None \notin Threads
  /\ Waits \in [Threads -> SUBSET {"wait", "timedwait", "clockwait"}]
  /\ Signals \in [Threads -> SUBSET {"signal", "broadcast"}]
  /\ Cancelable \subseteq Threads
  /\ Requeue \in BOOLEAN
  /\ MaxCalls \in Nat

VARIABLES pc, calls, op,
          ret,               \* where a mutex call or a signal returns to
          \* the mutex: its word and its count
          word,              \* "free", "held" (EBUSY), "contended" (sign bit)
          waiters,           \* _m_waiters
          seen,              \* the word a locker loaded, _m_waiters # 0 for an unlocker
          \* the condition variable
          head, tail,        \* _c_head, _c_tail
          clock,             \* the holder of _c_lock
          \* the nodes
          state, barrier, prev, next, notify,
          \* a waiter's locals: its result, and the futex it is queued on
          e, queue,
          \* a signaller's locals
          n, p, first, ref, cur

mutex  == <<word, waiters, seen>>
list   == <<head, tail, clock>>
links  == <<prev, next, notify>>
node   == <<state, barrier, links>>
sigloc == <<n, p, first, ref, cur>>
vars   == <<pc, calls, op, ret, mutex, list, node, e, queue, sigloc>>

Goto(t, loc) == pc' = [pc EXCEPT ![t] = loc]

Init == /\ pc = [t \in Threads |-> "idle"]
        /\ calls = [t \in Threads |-> 0]
        /\ op = [t \in Threads |-> "none"]
        /\ ret = [t \in Threads |-> "idle"]
        /\ word = "free" /\ waiters = 0
        /\ seen = [t \in Threads |-> "none"]
        /\ head = None /\ tail = None /\ clock = None
        /\ state = [t \in Threads |-> "none"]
        /\ barrier = [t \in Threads |-> 0]
        /\ prev = [t \in Threads |-> None]
        /\ next = [t \in Threads |-> None]
        /\ notify = [t \in Threads |-> None]
        /\ e = [t \in Threads |-> "ok"]
        /\ queue = [t \in Threads |-> "none"]
        /\ n = [t \in Threads |-> 0]
        /\ p = [t \in Threads |-> None]
        /\ first = [t \in Threads |-> None]
        /\ ref = [t \in Threads |-> 0]
        /\ cur = [t \in Threads |-> 0]

-----------------------------------------------------------------------------
(***************************************************************************)
(* The mutex.  lock and unlock are the paths of a plain mutex.             *)
(***************************************************************************)
LockMutex(t, back) == /\ Goto(t, "m_try")
                      /\ ret' = [ret EXCEPT ![t] = back]

\* A thread whose wait was cancelled exits once its cleanup has unlocked.
PthreadLock(t) ==
  /\ pc[t] = "idle" /\ e[t] # "ECANCELED"
  /\ Waits[t] # {} /\ calls[t] < MaxCalls
  /\ calls' = [calls EXCEPT ![t] = @ + 1]
  /\ LockMutex(t, "held")
  /\ e' = [e EXCEPT ![t] = "ok"]
  /\ UNCHANGED <<op, mutex, list, node, queue, sigloc>>

Takable_Any == TRUE
Takable == word = "free"

MTry(t) ==
  /\ pc[t] = "m_try"
  /\ \/ /\ Takable /\ word' = "held"
        /\ Goto(t, ret[t])
        /\ ret' = [ret EXCEPT ![t] = "idle"]
     \/ ~Takable /\ Goto(t, "m_look") /\ UNCHANGED <<word, ret>>
  /\ UNCHANGED <<calls, op, waiters, seen, list, node, e, queue, sigloc>>

MLook(t) ==
  /\ pc[t] = "m_look"
  /\ IF word = "free"
     THEN Goto(t, "m_try") /\ UNCHANGED seen
     ELSE Goto(t, "m_inc") /\ seen' = [seen EXCEPT ![t] = word]
  /\ UNCHANGED <<calls, op, ret, word, waiters, list, node, e, queue, sigloc>>

MInc(t) ==
  /\ pc[t] = "m_inc"
  /\ waiters' = waiters + 1
  /\ Goto(t, "m_mark")
  /\ UNCHANGED <<calls, op, ret, word, seen, list, node, e, queue, sigloc>>

MMark(t) ==
  /\ pc[t] = "m_mark"
  /\ word' = IF word = seen[t] THEN "contended" ELSE word
  /\ seen' = [seen EXCEPT ![t] = "none"]
  /\ Goto(t, "m_wait")
  /\ UNCHANGED <<calls, op, ret, waiters, list, node, e, queue, sigloc>>

MWait(t) ==
  /\ pc[t] = "m_wait"
  /\ IF word = "contended"
     THEN Goto(t, "m_sleep") /\ queue' = [queue EXCEPT ![t] = "mutex"]
     ELSE Goto(t, "m_dec") /\ UNCHANGED queue
  /\ UNCHANGED <<calls, op, ret, mutex, list, node, e, sigloc>>

MDec(t) ==
  /\ \/ pc[t] = "m_sleep" /\ queue[t] = "none"
     \/ pc[t] = "m_dec"
  /\ waiters' = waiters - 1
  /\ Goto(t, "m_try")
  /\ UNCHANGED <<calls, op, ret, word, seen, list, node, e, queue, sigloc>>

\* __pthread_mutex_unlock: load _m_waiters, swap, wake.
UnlockMutex(t, back) == /\ Goto(t, "u_swap")
                        /\ ret' = [ret EXCEPT ![t] = back]
                        /\ seen' = [seen EXCEPT ![t] = IF waiters # 0 THEN "wake" ELSE "none"]

PthreadUnlock(t) ==
  /\ pc[t] = "held"
  /\ UnlockMutex(t, "idle")
  /\ UNCHANGED <<calls, op, word, waiters, list, node, e, queue, sigloc>>

Contended(t) == seen[t] = "wake" \/ word = "contended"

USwap(t) ==
  /\ pc[t] = "u_swap"
  /\ word' = "free"
  /\ seen' = [seen EXCEPT ![t] = "none"]
  /\ IF Contended(t)
     THEN Goto(t, "u_wake") /\ UNCHANGED ret
     ELSE Goto(t, ret[t]) /\ ret' = [ret EXCEPT ![t] = "idle"]
  /\ UNCHANGED <<calls, op, waiters, list, node, e, queue, sigloc>>

\* FUTEX_WAKE of one: a requeued waiter of the condition variable may be it.
UWake(t) ==
  /\ pc[t] = "u_wake"
  /\ LET asleep == {u \in Threads : queue[u] = "mutex"} IN
     IF asleep = {} THEN UNCHANGED queue
     ELSE \E u \in asleep : queue' = [queue EXCEPT ![u] = "none"]
  /\ Goto(t, ret[t])
  /\ ret' = [ret EXCEPT ![t] = "idle"]
  /\ UNCHANGED <<calls, op, mutex, list, node, e, sigloc>>

-----------------------------------------------------------------------------
(***************************************************************************)
(* Waiting.                                                                *)
(***************************************************************************)
CondWait(t, o) ==
  /\ pc[t] = "held" /\ e[t] # "ECANCELED"
  /\ calls[t] < MaxCalls
  /\ calls' = [calls EXCEPT ![t] = @ + 1]
  /\ op' = [op EXCEPT ![t] = o]
  /\ e' = [e EXCEPT ![t] = "ok"]
  /\ Goto(t, IF o = "clockwait" THEN "clockwait" ELSE "enqueue")
  /\ UNCHANGED <<ret, mutex, list, node, queue, sigloc>>

\* The call is over, and the caller has the mutex; its node is gone.
CondReturn(t, r) == /\ Goto(t, "held")
                    /\ op' = [op EXCEPT ![t] = "none"]
                    /\ e' = [e EXCEPT ![t] = IF r = "ECANCELED" THEN r ELSE "ok"]
                    /\ state' = [state EXCEPT ![t] = "none"]
                    /\ barrier' = [barrier EXCEPT ![t] = 0]
                    /\ prev' = [prev EXCEPT ![t] = None]
                    /\ next' = [next EXCEPT ![t] = None]
                    /\ notify' = [notify EXCEPT ![t] = None]

\* The loop of pthread_cond_clockwait: the deadline has passed on the clock it
\* was given, or it is converted to CLOCK_REALTIME and waited for.
ClockWait(t) ==
  /\ pc[t] = "clockwait"
  /\ \/ CondReturn(t, "ETIMEDOUT")
     \/ t \in Cancelable /\ CondReturn(t, "ECANCELED")
     \/ Goto(t, "enqueue") /\ e' = [e EXCEPT ![t] = "ok"] /\ UNCHANGED <<op, node>>
  /\ UNCHANGED <<calls, ret, mutex, list, queue, sigloc>>

\* __pthread_testcancel
TestCancel(t) ==
  /\ pc[t] = "enqueue" /\ t \in Cancelable
  /\ CondReturn(t, "ECANCELED")
  /\ UNCHANGED <<calls, ret, mutex, list, queue, sigloc>>

Enqueue(t) ==
  /\ pc[t] = "enqueue" /\ clock = None
  /\ barrier' = [barrier EXCEPT ![t] = 2]
  /\ state' = [state EXCEPT ![t] = "WAITING"]
  /\ next' = [next EXCEPT ![t] = head]
  /\ notify' = [notify EXCEPT ![t] = None]
  /\ head' = t
  /\ IF tail = None
     THEN tail' = t /\ prev' = [prev EXCEPT ![t] = None]
     ELSE prev' = [prev EXCEPT ![t] = None, ![head] = t] /\ UNCHANGED tail
  /\ Goto(t, "u_read")
  /\ UNCHANGED <<calls, op, ret, mutex, clock, e, queue, sigloc>>

CvUnlock(t) ==
  /\ pc[t] = "u_read"
  /\ UnlockMutex(t, "cv_wait")
  /\ UNCHANGED <<calls, op, word, waiters, list, node, e, queue, sigloc>>

\* How __timedwait_cp may end by itself.
EndsAs(t) == (IF op[t] = "wait" THEN {} ELSE {"ETIMEDOUT"})
             \cup (IF t \in Cancelable THEN {"ECANCELED"} ELSE {})

\* FUTEX_WAIT on the barrier, for as long as it is 2.
CvWait(t) ==
  /\ pc[t] = "cv_wait"
  /\ \/ /\ IF barrier[t] = 2
           THEN Goto(t, "cv_sleep") /\ queue' = [queue EXCEPT ![t] = "barrier"]
           ELSE Goto(t, "leave") /\ UNCHANGED queue
        /\ UNCHANGED e
     \/ \E r \in EndsAs(t) : e' = [e EXCEPT ![t] = r] /\ Goto(t, "leave") /\ UNCHANGED queue
  /\ UNCHANGED <<calls, op, ret, mutex, list, node, sigloc>>

\* Woken: back to sleep if the barrier is still 2.
CvWoken(t) ==
  /\ pc[t] = "cv_sleep" /\ queue[t] = "none"
  /\ Goto(t, IF barrier[t] = 2 THEN "cv_wait" ELSE "leave")
  /\ UNCHANGED <<calls, op, ret, mutex, list, node, e, queue, sigloc>>

CvSleepEnds(t) ==
  /\ pc[t] = "cv_sleep" /\ queue[t] # "none"
  /\ \E r \in EndsAs(t) : e' = [e EXCEPT ![t] = r]
  /\ queue' = [queue EXCEPT ![t] = "none"]
  /\ Goto(t, "leave")
  /\ UNCHANGED <<calls, op, ret, mutex, list, node, sigloc>>

\* oldstate = a_cas(&node.state, WAITING, LEAVING)
Leave(t) ==
  /\ pc[t] = "leave"
  /\ IF state[t] = "WAITING"
     THEN state' = [state EXCEPT ![t] = "LEAVING"] /\ Goto(t, "unlink")
     ELSE Goto(t, "b_lock") /\ UNCHANGED state
  /\ UNCHANGED <<calls, op, ret, mutex, list, barrier, links, e, queue, sigloc>>

\* if (c->_c_tail == &node) c->_c_tail = node.prev;
TailWithout_Kept(t) == tail
TailWithout(t) == IF tail = t THEN prev[t] ELSE tail

\* Out of the list, which may be one that a signal has detached already.
Unlink(t) ==
  /\ pc[t] = "unlink" /\ clock = None
  /\ head' = IF head = t THEN next[t] ELSE head
  /\ next' = IF head # t /\ prev[t] # None
             THEN [next EXCEPT ![prev[t]] = next[t]] ELSE next
  /\ tail' = TailWithout(t)
  /\ prev' = IF tail # t /\ next[t] # None
             THEN [prev EXCEPT ![next[t]] = prev[t]] ELSE prev
  /\ Goto(t, "notify")
  /\ UNCHANGED <<calls, op, ret, mutex, clock, state, barrier, notify, e, queue, sigloc>>

\* if (a_fetch_add(node.notify, -1)==1) __wake(node.notify, 1, 1);
LastLeaver(t) == ref[notify[t]] = 1

Notify(t) ==
  /\ pc[t] = "notify"
  /\ IF notify[t] = None
     THEN LockMutex(t, "relocked") /\ UNCHANGED ref
     ELSE /\ ref' = [ref EXCEPT ![notify[t]] = @ - 1]
          /\ IF LastLeaver(t) THEN Goto(t, "n_wake") /\ UNCHANGED ret
                                   ELSE LockMutex(t, "relocked")
  /\ UNCHANGED <<calls, op, mutex, list, node, e, queue, n, p, first, cur>>

NotifyWake(t) ==
  /\ pc[t] = "n_wake"
  /\ queue' = IF queue[notify[t]] = "ref" THEN [queue EXCEPT ![notify[t]] = "none"] ELSE queue
  /\ LockMutex(t, "relocked")
  /\ UNCHANGED <<calls, op, mutex, list, node, e, sigloc>>

\* lock(&node.barrier): released by the signaller, or by the waiter before.
BarrierOpen_Ignored(t) == TRUE
BarrierOpen(t) == barrier[t] = 0

BarrierLock(t) ==
  /\ pc[t] = "b_lock"
  /\ IF BarrierOpen(t)
     THEN barrier' = [barrier EXCEPT ![t] = 1] /\ LockMutex(t, "relocked")
     ELSE Goto(t, "b_wait") /\ UNCHANGED <<barrier, ret>>
  /\ UNCHANGED <<calls, op, mutex, list, state, links, e, queue, sigloc>>

BarrierWait(t) ==
  /\ pc[t] = "b_wait"
  /\ IF barrier[t] = 2
     THEN Goto(t, "b_sleep") /\ queue' = [queue EXCEPT ![t] = "barrier"]
     ELSE Goto(t, "b_cas") /\ UNCHANGED queue
  /\ UNCHANGED <<calls, op, ret, mutex, list, node, e, sigloc>>

BarrierWoken(t) ==
  /\ pc[t] = "b_sleep" /\ queue[t] = "none"
  /\ Goto(t, "b_wait")
  /\ UNCHANGED <<calls, op, ret, mutex, list, node, e, queue, sigloc>>

BarrierCas(t) ==
  /\ pc[t] = "b_cas"
  /\ barrier' = [barrier EXCEPT ![t] = 2]
  /\ LockMutex(t, "relocked")
  /\ UNCHANGED <<calls, op, mutex, list, state, links, e, queue, sigloc>>

\* The mutex is held again.  The oldest waiter of a group counts the group as
\* a waiter of the mutex, so that every unlock wakes.
GroupShare_Zero == 0
GroupShare == 1
OpensGroup_Each(t) == TRUE
OpensGroup(t) == next[t] = None

Relocked(t) ==
  /\ pc[t] = "relocked"
  /\ IF state[t] = "LEAVING"
     THEN Goto(t, "done") /\ UNCHANGED waiters
     ELSE /\ waiters' = waiters + IF OpensGroup(t) THEN GroupShare ELSE 0
          /\ Goto(t, "chain")
  /\ UNCHANGED <<calls, op, ret, word, seen, list, node, e, queue, sigloc>>

\* Mark the mutex as contended for the next waiter of the group; the newest
\* one ends the group's count.
Chain(t) ==
  /\ pc[t] = "chain"
  /\ IF prev[t] # None
     THEN /\ word' = IF word = "held" THEN "contended" ELSE word
          /\ Goto(t, "pass") /\ UNCHANGED waiters
     ELSE waiters' = waiters - GroupShare /\ Goto(t, "done") /\ UNCHANGED word
  /\ UNCHANGED <<calls, op, ret, seen, list, node, e, queue, sigloc>>

\* unlock_requeue: open the next barrier, then wake its waiter or move it to
\* the mutex.
Pass_Closed(t) ==
  /\ pc[t] = "pass"
  /\ Goto(t, "requeue")
  /\ UNCHANGED <<calls, op, ret, mutex, list, node, e, queue, sigloc>>
Pass(t) ==
  /\ pc[t] = "pass"
  /\ barrier' = [barrier EXCEPT ![prev[t]] = 0]
  /\ Goto(t, "requeue")
  /\ UNCHANGED <<calls, op, ret, mutex, list, state, links, e, queue, sigloc>>

RequeueNext(t) ==
  /\ pc[t] = "requeue"
  /\ queue' = IF queue[prev[t]] = "barrier"
              THEN [queue EXCEPT ![prev[t]] = IF Requeue THEN "mutex" ELSE "none"]
              ELSE queue
  /\ Goto(t, "done")
  /\ UNCHANGED <<calls, op, ret, mutex, list, node, e, sigloc>>

\* A signal was consumed: no cancellation.
Outcome(t) == IF state[t] = "SIGNALED" /\ e[t] = "ECANCELED" THEN "ok" ELSE e[t]

Done(t) ==
  /\ pc[t] = "done"
  /\ IF op[t] = "clockwait" /\ Outcome(t) = "ETIMEDOUT"
     THEN Goto(t, "clockwait") /\ UNCHANGED <<op, e, node>>
     ELSE CondReturn(t, Outcome(t))
  /\ UNCHANGED <<calls, ret, mutex, list, queue, sigloc>>

-----------------------------------------------------------------------------
(***************************************************************************)
(* Signalling.                                                             *)
(***************************************************************************)
\* __private_cond_signal(c, 1) or (c, -1), with or without the mutex held.
Signal(t, o) ==
  /\ pc[t] \in {"idle", "held"} /\ e[t] # "ECANCELED"
  /\ calls[t] < MaxCalls
  /\ calls' = [calls EXCEPT ![t] = @ + 1]
  /\ ret' = [ret EXCEPT ![t] = pc[t]]
  /\ n' = [n EXCEPT ![t] = IF o = "signal" THEN 1 ELSE -1]
  /\ Goto(t, "s_lock")
  /\ UNCHANGED <<op, mutex, list, node, e, queue, p, first, ref, cur>>

SLock(t) ==
  /\ pc[t] = "s_lock" /\ clock = None
  /\ clock' = t
  /\ p' = [p EXCEPT ![t] = tail]
  /\ Goto(t, "s_scan")
  /\ UNCHANGED <<calls, op, ret, mutex, head, tail, node, e, queue, n, first, ref, cur>>

Scan(t) ==
  /\ pc[t] = "s_scan" /\ n[t] # 0 /\ p[t] # None
  /\ LET w == p[t] IN
     /\ IF state[w] # "WAITING"
        THEN /\ ref' = [ref EXCEPT ![t] = @ + 1]
             /\ notify' = [notify EXCEPT ![w] = t]
             /\ UNCHANGED <<state, n, first>>
        ELSE /\ state' = [state EXCEPT ![w] = "SIGNALED"]
             /\ n' = [n EXCEPT ![t] = @ - 1]
             /\ first' = IF first[t] = None THEN [first EXCEPT ![t] = w] ELSE first
             /\ UNCHANGED <<ref, notify>>
     /\ p' = [p EXCEPT ![t] = prev[w]]
  /\ UNCHANGED <<pc, calls, op, ret, mutex, list, barrier, prev, next, e, queue, cur>>

\* Split the list, leaving any remainder on the cv, and release _c_lock.
Split(t) ==
  /\ pc[t] = "s_scan" /\ (n[t] = 0 \/ p[t] = None)
  /\ IF p[t] # None
     THEN /\ prev' = IF next[p[t]] # None THEN [prev EXCEPT ![next[p[t]]] = None] ELSE prev
          /\ next' = [next EXCEPT ![p[t]] = None]
          /\ UNCHANGED head
     ELSE head' = None /\ UNCHANGED <<prev, next>>
  /\ tail' = p[t]
  /\ clock' = None
  /\ p' = [p EXCEPT ![t] = None]
  /\ n' = [n EXCEPT ![t] = 0]
  /\ Goto(t, "s_wait")
  /\ UNCHANGED <<calls, op, ret, mutex, state, barrier, notify, e, queue, first, ref, cur>>

\* while ((cur = ref)) __wait(&ref, 0, cur, 1);
LeaversGone_Ignored(t) == TRUE
LeaversGone(t) == ref[t] = 0

AwaitLeaving(t) ==
  /\ pc[t] = "s_wait"
  /\ IF LeaversGone(t)
     THEN Goto(t, "s_first") /\ cur' = [cur EXCEPT ![t] = 0]
     ELSE Goto(t, "s_futex") /\ cur' = [cur EXCEPT ![t] = ref[t]]
  /\ UNCHANGED <<calls, op, ret, mutex, list, node, e, queue, n, p, first, ref>>

AwaitFutex(t) ==
  /\ pc[t] = "s_futex"
  /\ IF ref[t] = cur[t]
     THEN Goto(t, "s_sleep") /\ queue' = [queue EXCEPT ![t] = "ref"]
     ELSE Goto(t, "s_wait") /\ UNCHANGED queue
  /\ UNCHANGED <<calls, op, ret, mutex, list, node, e, sigloc>>

AwaitWoken(t) ==
  /\ pc[t] = "s_sleep" /\ queue[t] = "none"
  /\ Goto(t, "s_futex")
  /\ UNCHANGED <<calls, op, ret, mutex, list, node, e, queue, sigloc>>

\* if (first) unlock(&first->barrier);
SignalReturn(t) == /\ Goto(t, ret[t])
                   /\ ret' = [ret EXCEPT ![t] = "idle"]
                   /\ first' = [first EXCEPT ![t] = None]

SignalFirst(t) ==
  /\ pc[t] = "s_first"
  /\ IF first[t] = None
     THEN SignalReturn(t) /\ UNCHANGED barrier
     ELSE /\ barrier' = [barrier EXCEPT ![first[t]] = 0]
          /\ IF barrier[first[t]] = 2 THEN Goto(t, "s_wake") /\ UNCHANGED <<ret, first>>
                                      ELSE SignalReturn(t)
  /\ UNCHANGED <<calls, op, mutex, list, state, links, e, queue, n, p, ref, cur>>

SignalWake(t) ==
  /\ pc[t] = "s_wake"
  /\ queue' = IF queue[first[t]] = "barrier" THEN [queue EXCEPT ![first[t]] = "none"] ELSE queue
  /\ SignalReturn(t)
  /\ UNCHANGED <<calls, op, mutex, list, node, e, n, p, ref, cur>>

-----------------------------------------------------------------------------
MutexStep(t) == \/ MTry(t) \/ MLook(t) \/ MInc(t) \/ MMark(t) \/ MWait(t) \/ MDec(t)
                \/ USwap(t) \/ UWake(t)
WaitStep(t) == \/ ClockWait(t) \/ Enqueue(t) \/ CvUnlock(t) \/ CvWait(t) \/ CvWoken(t)
               \/ Leave(t) \/ Unlink(t) \/ Notify(t) \/ NotifyWake(t)
               \/ BarrierLock(t) \/ BarrierWait(t) \/ BarrierWoken(t) \/ BarrierCas(t)
               \/ Relocked(t) \/ Chain(t) \/ Pass(t) \/ RequeueNext(t) \/ Done(t)
SignalStep(t) == \/ SLock(t) \/ Scan(t) \/ Split(t) \/ AwaitLeaving(t) \/ AwaitFutex(t)
                 \/ AwaitWoken(t) \/ SignalFirst(t) \/ SignalWake(t)
Call(t) == \/ PthreadLock(t) \/ PthreadUnlock(t)
           \/ \E o \in Waits[t] : CondWait(t, o)
           \/ \E o \in Signals[t] : Signal(t, o)

Next == \E t \in Threads : \/ MutexStep(t) \/ WaitStep(t) \/ SignalStep(t)
                           \/ CvSleepEnds(t) \/ TestCancel(t) \/ Call(t)

Spec == Init /\ [][Next]_vars

\* Threads inside a call keep running, and whoever has the mutex unlocks it.
FairSpec == /\ Spec
            /\ \A t \in Threads : WF_vars(MutexStep(t) \/ WaitStep(t) \/ SignalStep(t))
            /\ \A t \in Threads : WF_vars(PthreadUnlock(t))

-----------------------------------------------------------------------------
MLocs == {"m_try", "m_look", "m_inc", "m_mark", "m_wait", "m_sleep", "m_dec"}
ULocs == {"u_swap", "u_wake"}
Owned == {"held", "clockwait", "enqueue", "u_read", "u_swap", "relocked", "chain", "pass",
          "requeue", "done"}
SLocs == {"s_lock", "s_scan", "s_wait", "s_futex", "s_sleep", "s_first", "s_wake"}
Locations == {"idle", "cv_wait", "cv_sleep", "leave", "unlink", "notify", "n_wake",
              "b_lock", "b_wait", "b_sleep", "b_cas"} \cup MLocs \cup ULocs \cup Owned \cup SLocs

TypeOK ==
  /\ pc \in [Threads -> Locations]
  /\ calls \in [Threads -> 0..MaxCalls]
  /\ op \in [Threads -> {"none", "wait", "timedwait", "clockwait"}]
  /\ ret \in [Threads -> {"idle", "held", "relocked", "cv_wait"}]
  /\ word \in {"free", "held", "contended"}
  /\ waiters \in 0..2 * Cardinality(Threads)
  /\ seen \in [Threads -> {"none", "held", "contended", "wake"}]
  /\ {head, tail, clock} \subseteq Threads \cup {None}
  /\ state \in [Threads -> {"none", "WAITING", "SIGNALED", "LEAVING"}]
  /\ barrier \in [Threads -> 0..2]
  /\ prev \in [Threads -> Threads \cup {None}]
  /\ next \in [Threads -> Threads \cup {None}]
  /\ notify \in [Threads -> Threads \cup {None}]
  /\ e \in [Threads -> {"ok", "ETIMEDOUT", "ECANCELED"}]
  /\ queue \in [Threads -> {"none", "barrier", "mutex", "ref"}]
  /\ n \in [Threads -> -(Cardinality(Threads) + 1)..1]
  /\ p \in [Threads -> Threads \cup {None}]
  /\ first \in [Threads -> Threads \cup {None}]
  /\ ref \in [Threads -> 0..Cardinality(Threads)]
  /\ cur \in [Threads -> 0..Cardinality(Threads)]

\* The thread is in a wait, with a node on its stack.
InWait(t) == \/ pc[t] \in {"u_read", "cv_wait", "cv_sleep", "leave", "unlink", "notify",
                           "n_wake", "b_lock", "b_wait", "b_sleep", "b_cas", "relocked",
                           "chain", "pass", "requeue", "done"}
             \/ pc[t] \in MLocs /\ ret[t] = "relocked"
             \/ pc[t] \in ULocs /\ ret[t] = "cv_wait"
HasMutex(t)  == pc[t] \in Owned \/ (pc[t] \in SLocs /\ ret[t] = "held")
Signaled(t)  == InWait(t) /\ state[t] = "SIGNALED"
PastBarrier(t) == pc[t] \in MLocs \cup {"relocked", "chain", "pass", "requeue", "done"}

\* The mutex has one holder, also after a wait, and its word says so.
MutexExact == Cardinality({t \in Threads : HasMutex(t)}) = IF word = "free" THEN 0 ELSE 1

\* No stack frame is used after its function returned: neither the node of a
\* waiter, by signallers and by other waiters, nor the counter of a signaller.
FramesAlive ==
  \A t \in Threads :
    /\ pc[t] = "s_scan" /\ p[t] # None => InWait(p[t])
    /\ pc[t] = "s_first" /\ first[t] # None => InWait(first[t])
    /\ pc[t] \in {"pass", "requeue"} => InWait(prev[t])
    /\ pc[t] = "unlink" => \A u \in {prev[t], next[t]} \ {None} : InWait(u)
    /\ pc[t] = "notify" /\ notify[t] # None =>
         pc[notify[t]] \in {"s_wait", "s_futex", "s_sleep"}

\* The nodes from the tail, by prev.
Walk[i \in 0..Cardinality(Threads)] ==
  IF i = 0 THEN tail ELSE IF Walk[i - 1] = None THEN None ELSE prev[Walk[i - 1]]
OnList == {Walk[i] : i \in 0..Cardinality(Threads)} \ {None}

\* A waiter that was not signalled can be found by the next signal, whatever
\* waiters left meanwhile, and what is on the list is waiting or about to leave.
ListExact ==
  clock = None =>
    /\ {t \in Threads : InWait(t) /\ state[t] = "WAITING"} \subseteq OnList
    /\ \A t \in OnList : InWait(t) /\ state[t] \in {"WAITING", "LEAVING"}
    /\ \A t \in OnList : prev[t] = None <=> head = t
    /\ \A t \in OnList : prev[t] # None => next[prev[t]] = t

\* The list is exact, and a signal lets nobody proceed before the waiters that
\* it found leaving are out of it: "Wait for any waiters in the LEAVING state to
\* remove themselves".
ListSound ==
  /\ TypeOK /\ ListExact
  /\ \A t, u \in Threads :
       pc[t] \in {"s_first", "s_wake"} /\ InWait(u) /\ notify[u] = t =>
         pc[u] \notin {"unlink", "notify"}

\* The waiters of a broadcast compete for the mutex one after the other, the
\* oldest first: the next one is let go when its predecessor has the mutex.
WakeOrder ==
  \A t, u \in Threads :
    Signaled(t) /\ Signaled(u) /\ next[t] = u /\ prev[u] = t /\ PastBarrier(t) =>
      pc[u] \in {"requeue", "done"}

\* The group of u is counted in _m_waiters: u is the one that must pass it on.
CarriesGroup(u) ==
  /\ Signaled(u)
  /\ \/ pc[u] \in {"chain", "pass"}
     \/ /\ next[u] # None
        /\ barrier[u] = 0 \/ PastBarrier(u)
        /\ pc[u] \notin {"requeue", "done"}

\* The count of the mutex is that of the threads that lock it and may sleep,
\* and one for each group of signalled waiters that is being let go.
WaitersExact ==
  waiters = Cardinality({t \in Threads : pc[t] \in {"m_mark", "m_wait", "m_sleep", "m_dec"}})
            + Cardinality({t \in Threads : CarriesGroup(t)})

\* A waiter is moved to the mutex only in the wait that was signalled, never in
\* a later one at the same address: it could not be woken by a signal there.
NoStrayRequeue ==
  \A t \in Threads : queue[t] = "mutex" /\ pc[t] # "m_sleep" => barrier[t] = 0

\* A waiter that was signalled returns from its wait.
SignaledReturns == \A t \in Threads : Signaled(t) ~> ~InWait(t)

\* pthread_cond_clockwait returns "0 if the condition was signaled": it does not
\* wait again after a wait that took a signal.
ClockWaitKeepsSignal == \A t \in Threads : pc[t] = "clockwait" => state[t] # "SIGNALED"
=============================================================================
