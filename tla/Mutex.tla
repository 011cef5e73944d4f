-------------------------------- MODULE Mutex --------------------------------
(***************************************************************************)
(* pthread mutexes without priority inheritance: pthread_mutex_lock,       *)
(* _timedlock, _trylock, _unlock and _consistent, and what the exit of a   *)
(* thread does to the mutexes on its robust list.                          *)
(*                                                                         *)
(* The lock word is a record: own is the owner's tid (its low 30 bits, all *)
(* ones for Unusable; EBUSY for a plain mutex, which has no owner), died   *)
(* is 0x40000000 and waiting is the sign bit.                              *)
(***************************************************************************)
EXTENDS Integers, FiniteSets

CONSTANTS Threads,
          Free, Busy, Unusable,  \* owners that are not threads: 0, EBUSY, 0x3fffffff
          Types,                 \* the types of mutex to consider
          Ops,                   \* "lock", "timedlock", "trylock"
          INT_MAX,               \* largest recursion count
          EintrValid             \* __eintr_valid_flag

AllTypes == [kind : {"normal", "recursive", "errorcheck"}, robust : BOOLEAN,
             pshared : BOOLEAN]

ASSUME MutexAssumption ==
  /\ IsFiniteSet(Threads)
  /\ Threads \cap {Free, Busy, Unusable} = {}
  /\ Cardinality({Free, Busy, Unusable}) = 3
  /\ Types \subseteq AllTypes
  /\ Ops \subseteq {"lock", "timedlock", "trylock"}
  /\ INT_MAX \in Nat
  /\ EintrValid \in BOOLEAN

VARIABLES type,     \* _m_type
          lock,     \* _m_lock
          waiters,  \* _m_waiters
          count,    \* _m_count
          pc, op,
          old,      \* the word a thread loaded
          wread,    \* what it read _m_waiters to be: nonzero or not
          r,        \* the result of its last __timedwait
          depth     \* how often the thread holds the mutex, by its calls' results

mutex  == <<lock, waiters, count>>
locals == <<op, old, wread>>
vars   == <<type, mutex, pc, locals, r, depth>>

Word(own, died, waiting) == [own |-> own, died |-> died, waiting |-> waiting]
Zero == Word(Free, FALSE, FALSE)
Dead == Word(Unusable, TRUE, FALSE)   \* 0x7fffffff

\* (type & 15) == PTHREAD_MUTEX_NORMAL
Plain == type.kind = "normal" /\ ~type.robust

Init == /\ type \in Types
        /\ lock = Zero
        /\ waiters = 0
        /\ count = 0
        /\ pc = [t \in Threads |-> "out"]
        /\ op = [t \in Threads |-> "none"]
        /\ old = [t \in Threads |-> Zero]
        /\ wread = [t \in Threads |-> FALSE]
        /\ r = [t \in Threads |-> "ok"]
        /\ depth = [t \in Threads |-> 0]

Results == {"ok", "EBUSY", "EAGAIN", "ENOTRECOVERABLE", "EOWNERDEAD", "EDEADLK",
            "ETIMEDOUT", "EPERM"}

Goto(t, loc) == pc' = [pc EXCEPT ![t] = loc]
Load(t)      == old' = [old EXCEPT ![t] = lock]

\* The call returns e, which its caller sees in depth if it got the mutex;
\* its locals are gone.
Return(t, e) == /\ Goto(t, "out")
                /\ e \in Results
                /\ r' = [r EXCEPT ![t] = "ok"]
                /\ op' = [op EXCEPT ![t] = "none"]
                /\ old' = [old EXCEPT ![t] = Zero]
                /\ wread' = [wread EXCEPT ![t] = FALSE]

Holds(t, n) == depth' = [depth EXCEPT ![t] = n]

-----------------------------------------------------------------------------
(***************************************************************************)
(* Locking.  A failed attempt of pthread_mutex_trylock leaves no trace, so *)
(* the attempts that precede the loop of timedlock are not separate steps. *)
(***************************************************************************)
\* A thread does not lock a plain mutex it holds: that is a deadlock by
\* definition.
Lock(t, o) == /\ pc[t] = "out"
              /\ Plain => depth[t] = 0 \/ o = "trylock"
              /\ op' = [op EXCEPT ![t] = o]
              /\ Goto(t, "try")
              /\ UNCHANGED <<type, mutex, old, wread, r, depth>>

\* EBUSY from trylock: returned, or the loop of timedlock looks why.
Refused(t) == IF op[t] = "trylock"
              THEN Return(t, "EBUSY")
              ELSE Goto(t, "look") /\ UNCHANGED <<op, old, wread, r>>

\* a_cas(&m->_m_lock, 0, EBUSY)
TryPlain(t) ==
  /\ pc[t] = "try"
  /\ Plain
  /\ \/ lock = Zero /\ lock' = Word(Busy, FALSE, FALSE) /\ Return(t, "ok") /\ Holds(t, 1)
     \/ lock # Zero /\ Refused(t) /\ UNCHANGED <<lock, depth>>
  /\ UNCHANGED <<type, waiters, count>>

\* __pthread_mutex_trylock_owner, up to its compare-and-swap.
MayTake_NotOwned(w) == w.own \notin Threads /\ (w = Zero \/ type.robust)
MayTake(w) == w.own = Free /\ (w = Zero \/ type.robust)

TryLoad(t) ==
  /\ pc[t] = "try"
  /\ ~Plain
  /\ \/ /\ lock.own = t /\ type.kind = "recursive"
        /\ IF count >= INT_MAX
           THEN Return(t, "EAGAIN") /\ UNCHANGED <<count, depth>>
           ELSE Return(t, "ok") /\ count' = count + 1 /\ Holds(t, depth[t] + 1)
     \/ /\ lock.own = Unusable
        /\ Return(t, "ENOTRECOVERABLE")
        /\ UNCHANGED <<count, depth>>
     \/ /\ ~(lock.own = t /\ type.kind = "recursive") /\ lock.own # Unusable
        /\ ~MayTake(lock)
        /\ Refused(t)
        /\ UNCHANGED <<count, depth>>
     \/ /\ MayTake(lock)
        /\ Load(t)
        /\ Goto(t, IF type.pshared THEN "try_waiters" ELSE "try_cas")
        /\ UNCHANGED <<count, depth, op, wread, r>>
  /\ UNCHANGED <<type, lock, waiters>>

\* if (m->_m_waiters) tid |= 0x80000000;
TryWaiters(t) ==
  /\ pc[t] = "try_waiters"
  /\ wread' = [wread EXCEPT ![t] = waiters # 0]
  /\ Goto(t, "try_cas")
  /\ UNCHANGED <<type, mutex, op, old, r, depth>>

\* The owner died if the old word is not 0: EOWNERDEAD, and the count restarts.
CountAfterDeath_Kept == count
CountAfterDeath == 0

\* a_cas(&m->_m_lock, old, tid) == old
Unmoved(t) == lock = old[t]

TryCas(t) ==
  /\ pc[t] = "try_cas"
  /\ \/ /\ Unmoved(t)
        /\ lock' = Word(t, old[t].died, wread[t])
        /\ Holds(t, 1)
        /\ IF old[t] = Zero
           THEN Return(t, "ok") /\ UNCHANGED count
           ELSE Return(t, "EOWNERDEAD") /\ count' = CountAfterDeath
     \/ ~Unmoved(t) /\ Refused(t) /\ UNCHANGED <<lock, count, depth>>
  /\ UNCHANGED <<type, waiters>>

\* r = m->_m_lock in the loop of timedlock: free meanwhile, or the caller's
\* own in an errorcheck mutex, or something to wait for.
Look(t) ==
  /\ pc[t] = "look"
  /\ \/ /\ MayTake(lock)
        /\ Goto(t, "try")
        /\ UNCHANGED <<op, old, wread, r>>
     \/ /\ ~MayTake(lock) /\ type.kind = "errorcheck" /\ lock.own = t
        /\ Return(t, "EDEADLK")
     \/ /\ ~MayTake(lock) /\ ~(type.kind = "errorcheck" /\ lock.own = t)
        /\ Load(t)
        /\ Goto(t, "inc")
        /\ UNCHANGED <<op, wread, r>>
  /\ UNCHANGED <<type, mutex, depth>>

IncWaiters_Missing(t) ==
  /\ pc[t] = "inc"
  /\ Goto(t, "mark")
  /\ UNCHANGED <<type, mutex, locals, r, depth>>
IncWaiters(t) ==
  /\ pc[t] = "inc"
  /\ waiters' = waiters + 1
  /\ Goto(t, "mark")
  /\ UNCHANGED <<type, lock, count, locals, r, depth>>

\* t = r | 0x80000000; a_cas(&m->_m_lock, r, t);
MarkWaiting(t) ==
  /\ pc[t] = "mark"
  /\ old' = [old EXCEPT ![t].waiting = TRUE]
  /\ lock' = IF lock = old[t] THEN old'[t] ELSE lock
  /\ Goto(t, "futex")
  /\ UNCHANGED <<type, waiters, count, op, wread, r, depth>>

\* __timedwait: it sleeps while the word is t; the deadline may be invalid or
\* past already.
FutexWait(t) ==
  /\ pc[t] = "futex"
  /\ \/ Goto(t, IF lock = old[t] THEN "asleep" ELSE "dec") /\ UNCHANGED r
     \/ op[t] = "timedlock" /\ Goto(t, "dec") /\ r' = [r EXCEPT ![t] = "ETIMEDOUT"]
  /\ UNCHANGED <<type, mutex, locals, depth>>

\* The sleep ends without a wake: a timeout, or a signal handler.
SleepEnds(t) ==
  /\ pc[t] = "asleep"
  /\ \/ op[t] = "timedlock" /\ r' = [r EXCEPT ![t] = "ETIMEDOUT"]
     \/ r' = [r EXCEPT ![t] = IF EintrValid THEN "EINTR" ELSE "ok"]
  /\ Goto(t, "dec")
  /\ UNCHANGED <<type, mutex, locals, depth>>

\* a_dec(&m->_m_waiters); if (r && r != EINTR) break;
DecWaiters(t) ==
  /\ pc[t] = "dec"
  /\ waiters' = waiters - 1
  /\ IF r[t] = "ETIMEDOUT"
     THEN Return(t, r[t])
     ELSE /\ Goto(t, "try")
          /\ r' = [r EXCEPT ![t] = "ok"]
          /\ old' = [old EXCEPT ![t] = Zero]
          /\ UNCHANGED <<op, wread>>
  /\ UNCHANGED <<type, lock, count, depth>>

-----------------------------------------------------------------------------
\* __wake(&m->_m_lock, 1, priv), after which t goes on at loc.
WakeOne(t, loc) ==
  LET sleepers == {u \in Threads : pc[u] = "asleep"} IN
  \E W \in IF sleepers = {} THEN {{}} ELSE {{u} : u \in sleepers} :
    pc' = [u \in Threads |-> IF u \in W THEN "dec"
                             ELSE IF u = t THEN loc ELSE pc[u]]

\* pthread_mutex_unlock: the load of _m_waiters comes first.  EPERM for a
\* thread that is not the owner; a plain mutex is only unlocked by its holder.
Unlock(t) ==
  /\ pc[t] = "out"
  /\ Plain => depth[t] > 0
  /\ IF ~Plain /\ lock.own # t
     THEN Return(t, "EPERM") /\ UNCHANGED <<mutex, depth>>
     ELSE IF type.kind = "recursive" /\ count > 0
     THEN /\ Return(t, "ok")
          /\ count' = count - 1
          /\ Holds(t, depth[t] - 1)
          /\ UNCHANGED <<lock, waiters>>
     ELSE /\ wread' = [wread EXCEPT ![t] = waiters # 0]
          /\ Goto(t, "swap")
          /\ UNCHANGED <<mutex, op, old, r, depth>>
  /\ UNCHANGED type

\* The word left behind: 0, or 0x7fffffff when the state was not made
\* consistent.
Released == IF type.robust /\ lock.died THEN Dead ELSE Zero

\* cont = a_swap(&m->_m_lock, new); wake if (waiters || cont<0).
Contended_ByCount(t) == wread[t]
Contended(t) == wread[t] \/ lock.waiting

Swap(t) ==
  /\ pc[t] = "swap"
  /\ lock' = Released
  /\ Holds(t, 0)
  /\ IF Contended(t)
     THEN Goto(t, "wake") /\ UNCHANGED <<locals, r>>
     ELSE Return(t, "ok")
  /\ UNCHANGED <<type, waiters, count>>

UnlockWake(t) ==
  /\ pc[t] = "wake"
  /\ WakeOne(t, "out")
  /\ wread' = [wread EXCEPT ![t] = FALSE]
  /\ UNCHANGED <<type, mutex, op, old, r, depth>>

\* pthread_mutex_consistent; a_and(&m->_m_lock, ~0x40000000).
Consistent(t) ==
  /\ pc[t] = "out"
  /\ type.robust /\ lock.own = t /\ lock.died
  /\ lock' = [lock EXCEPT !.died = FALSE]
  /\ UNCHANGED <<type, waiters, count, pc, locals, r, depth>>

\* A thread exits: a mutex on its robust list, which every mutex with an owner
\* is, is released with 0x40000000.  _m_waiters is loaded first.  Threads do
\* not exit with a plain mutex, which would stay locked.
Exit(t) ==
  /\ pc[t] = "out"
  /\ \/ /\ ~Plain /\ lock.own = t
        /\ wread' = [wread EXCEPT ![t] = waiters # 0]
        /\ Goto(t, "exit_swap")
     \/ Plain /\ depth[t] = 0 /\ Goto(t, "dead") /\ UNCHANGED wread
     \/ ~Plain /\ lock.own # t /\ Goto(t, "dead") /\ UNCHANGED wread
  /\ UNCHANGED <<type, mutex, op, old, r, depth>>

ExitSwap(t) ==
  /\ pc[t] = "exit_swap"
  /\ lock' = Word(Free, TRUE, FALSE)
  /\ Holds(t, 0)
  /\ Goto(t, IF Contended(t) THEN "exit_wake" ELSE "dead")
  /\ UNCHANGED <<type, waiters, count, locals, r>>

ExitWake(t) ==
  /\ pc[t] = "exit_wake"
  /\ WakeOne(t, "dead")
  /\ UNCHANGED <<type, mutex, locals, r, depth>>

-----------------------------------------------------------------------------
Step(t) == \/ TryPlain(t) \/ TryLoad(t) \/ TryWaiters(t) \/ TryCas(t) \/ Look(t)
           \/ IncWaiters(t) \/ MarkWaiting(t) \/ FutexWait(t) \/ DecWaiters(t)
           \/ Swap(t) \/ UnlockWake(t) \/ ExitSwap(t) \/ ExitWake(t)

Next == \E t \in Threads : \/ Step(t) \/ SleepEnds(t)
                           \/ \E o \in Ops : Lock(t, o)
                           \/ Unlock(t) \/ Consistent(t) \/ Exit(t)

Spec == Init /\ [][Next]_vars

GivesBack(t) == depth[t] > 0 /\ (Unlock(t) \/ Exit(t))

\* Threads inside a call keep running, and whoever holds the mutex eventually
\* gives it back or exits.
FairSpec == /\ Spec
            /\ \A t \in Threads : WF_vars(Step(t))
            /\ \A t \in Threads : WF_vars(GivesBack(t))

-----------------------------------------------------------------------------
Words == [own : Threads \cup {Free, Busy, Unusable}, died : BOOLEAN, waiting : BOOLEAN]
Locations == {"out", "try", "try_waiters", "try_cas", "look", "inc", "mark",
              "futex", "asleep", "dec", "swap", "wake", "exit_swap", "exit_wake",
              "dead"}

TypeOK == /\ type \in Types
          /\ lock \in Words
          /\ waiters \in 0..Cardinality(Threads)
          /\ count \in 0..INT_MAX
          /\ pc \in [Threads -> Locations]
          /\ op \in [Threads -> Ops \cup {"none"}]
          /\ old \in [Threads -> Words]
          /\ wread \in [Threads -> BOOLEAN]
          /\ r \in [Threads -> {"ok", "ETIMEDOUT", "EINTR"}]
          /\ depth \in [Threads -> 0..INT_MAX + 1]

Holders == {t \in Threads : depth[t] > 0}
Counted == {t \in Threads : pc[t] \in {"mark", "futex", "asleep", "dec"}}
Asleep  == {t \in Threads : pc[t] = "asleep"}

\* One thread at a time has the mutex by the results of its calls, and the
\* word names it: a mutex is taken neither from a dead thread that is not
\* robust nor from one whose tid is still there.  The recursion count is one
\* less than the number of times the holder has to unlock, also after the
\* previous owner died holding the mutex twice.
HoldExact ==
  /\ TypeOK
  /\ \A t, u \in Holders : t = u
  /\ IF Plain THEN lock.own = Busy <=> Holders # {}
              ELSE Holders = {t \in Threads : lock.own = t}
  /\ \A t \in Holders : depth[t] = count + 1

\* Every thread that may be asleep is counted.
WaitersExact == waiters = Cardinality(Counted)

\* A robust mutex that can be taken does not leave a sleeper without a wake on
\* its way.
NoLostWakeup ==
  (MayTake(lock) /\ Asleep # {}) =>
    \E t \in Threads : pc[t] \notin {"out", "asleep", "dead", "swap", "exit_swap"}

\* Once a robust mutex is not recoverable, nobody gets it again.
UnrecoverableForever ==
  [][lock.own = Unusable => lock'.own = Unusable /\ Holders' = {}]_vars

\* Threads sleep for a mutex that can be taken.
Unserved == MayTake(lock) /\ Asleep # {}

\* No locker waits for a mutex that is not recoverable, because nobody will
\* unlock it: the "subtle errors in robust mutex unrecoverable status handling"
\* that WHATSNEW lists as fixed.
UnrecoverableReported ==
  \A t \in Threads : (lock.own = Unusable /\ pc[t] = "asleep") ~> pc[t] # "asleep"
=============================================================================
