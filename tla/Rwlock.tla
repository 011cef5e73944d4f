------------------------------- MODULE Rwlock -------------------------------
(***************************************************************************)
(* Read-write locks: pthread_rwlock_rdlock, _wrlock, their try and timed   *)
(* forms, and _unlock.  The lock word is a count, which is MAX for a       *)
(* writer, and a flag, its sign bit.                                       *)
(***************************************************************************)
EXTENDS Integers, FiniteSets

CONSTANTS Threads,
          MAX,        \* 0x7fffffff
          Ops,        \* the calls that threads make
          MaxDepth    \* bound on the read locks of one thread

AllOps == {"rdlock", "tryrdlock", "timedrdlock", "wrlock", "trywrlock", "timedwrlock"}
Reading == {"rdlock", "tryrdlock", "timedrdlock"}
Timed   == {"timedrdlock", "timedwrlock"}
Trying  == {"tryrdlock", "trywrlock"}

\* There are fewer threads than a wake of MAX can wake.
ASSUME RwlockAssumption == /\ IsFiniteSet(Threads)
                           /\ MAX \in Nat /\ MAX > 1 /\ Cardinality(Threads) <= MAX
                           /\ Ops \subseteq AllOps
                           /\ MaxDepth \in Nat

VARIABLES cnt, flag,   \* _rw_lock: its low 31 bits and its sign bit
          waiters,     \* _rw_waiters
          pc, op,
          vcnt, vflag, \* the word that a thread loaded
          wread,       \* whether it found _rw_waiters # 0
          timedout,    \* what its last __timedwait said
          reads,       \* how often a thread has locked for reading,
          writes       \* and whether for writing, by the results of its calls

word   == <<cnt, flag>>
loaded == <<vcnt, vflag>>
held   == <<reads, writes>>
vars   == <<word, waiters, pc, op, loaded, wread, timedout, held>>

Init == /\ cnt = 0 /\ flag = FALSE
        /\ waiters = 0
        /\ pc = [t \in Threads |-> "out"]
        /\ op = [t \in Threads |-> "none"]
        /\ vcnt = [t \in Threads |-> 0]
        /\ vflag = [t \in Threads |-> FALSE]
        /\ wread = [t \in Threads |-> FALSE]
        /\ timedout = [t \in Threads |-> FALSE]
        /\ reads = [t \in Threads |-> 0]
        /\ writes = [t \in Threads |-> FALSE]

Goto(t, loc) == pc' = [pc EXCEPT ![t] = loc]

\* The word that was loaded is not used again.
Forget(t) == /\ vcnt' = [vcnt EXCEPT ![t] = 0]
             /\ vflag' = [vflag EXCEPT ![t] = FALSE]

Return(t) == /\ Goto(t, "out")
             /\ op' = [op EXCEPT ![t] = "none"]
             /\ Forget(t)
             /\ wread' = [wread EXCEPT ![t] = FALSE]
             /\ timedout' = [timedout EXCEPT ![t] = FALSE]

Load(t) == /\ vcnt' = [vcnt EXCEPT ![t] = cnt]
           /\ vflag' = [vflag EXCEPT ![t] = flag]

IsLoaded(t) == cnt = vcnt[t] /\ flag = vflag[t]

-----------------------------------------------------------------------------
\* A thread does not wait for a lock that it holds itself.
Lock(t, o) ==
  /\ pc[t] = "out"
  /\ o \in Trying \/ ~writes[t]
  /\ o \in Trying \cup Reading \/ reads[t] = 0
  /\ o \in Reading => reads[t] < MaxDepth
  /\ op' = [op EXCEPT ![t] = o]
  /\ Goto(t, "try")
  /\ UNCHANGED <<word, waiters, loaded, wread, timedout, held>>

\* EBUSY: returned by the try forms, waited for by the others.
Refused(t) == IF op[t] \in Trying
              THEN Return(t)
              ELSE Goto(t, "look") /\ UNCHANGED <<op, loaded, wread, timedout>>

\* pthread_rwlock_tryrdlock: EBUSY, EAGAIN, or another reader.
Refuses_NoLimit(c) == c = MAX
Refuses(c) == c >= MAX - 1

ReadLoad(t) ==
  /\ pc[t] = "try" /\ op[t] \in Reading
  /\ \/ cnt = MAX /\ Refused(t)
     \/ cnt # MAX /\ Refuses(cnt) /\ Return(t)
     \/ cnt # MAX /\ ~Refuses(cnt) /\ Load(t) /\ Goto(t, "cas") /\ UNCHANGED <<op, wread, timedout>>
  /\ UNCHANGED <<word, waiters, held>>

ReadCas(t) ==
  /\ pc[t] = "cas"
  /\ \/ /\ IsLoaded(t)
        /\ cnt' = cnt + 1
        /\ reads' = [reads EXCEPT ![t] = @ + 1]
        /\ Return(t)
     \/ ~IsLoaded(t) /\ Goto(t, "try") /\ Forget(t) /\ UNCHANGED <<cnt, reads, op, wread, timedout>>
  /\ UNCHANGED <<flag, waiters, writes>>

\* a_cas(&rw->_rw_lock, 0, 0x7fffffff)
Zero == cnt = 0 /\ ~flag

WriteCas(t) ==
  /\ pc[t] = "try" /\ op[t] \notin Reading
  /\ \/ /\ Zero
        /\ cnt' = MAX
        /\ writes' = [writes EXCEPT ![t] = TRUE]
        /\ Return(t)
     \/ ~Zero /\ Refused(t) /\ UNCHANGED <<cnt, writes>>
  /\ UNCHANGED <<flag, waiters, reads>>

\* r = rw->_rw_lock in the loops of timedrdlock and timedwrlock.
Look(t) ==
  /\ pc[t] = "look"
  /\ IF (cnt = 0 /\ ~flag) \/ (op[t] \in Reading /\ cnt # MAX)
     THEN Goto(t, "try") /\ UNCHANGED loaded
     ELSE Goto(t, "inc") /\ Load(t)
  /\ UNCHANGED <<word, waiters, op, wread, timedout, held>>

IncWaiters(t) ==
  /\ pc[t] = "inc"
  /\ waiters' = waiters + 1
  /\ Goto(t, "mark")
  /\ UNCHANGED <<word, op, loaded, wread, timedout, held>>

\* a_cas(&rw->_rw_lock, r, t), with t = r | 0x80000000
MarkWaiting(t) ==
  /\ pc[t] = "mark"
  /\ flag' = IF IsLoaded(t) THEN TRUE ELSE flag
  /\ vflag' = [vflag EXCEPT ![t] = TRUE]
  /\ Goto(t, "futex")
  /\ UNCHANGED <<cnt, waiters, op, vcnt, wread, timedout, held>>

FutexWait(t) ==
  /\ pc[t] = "futex"
  /\ \/ Goto(t, IF IsLoaded(t) THEN "asleep" ELSE "dec") /\ UNCHANGED timedout
     \/ op[t] \in Timed /\ Goto(t, "dec") /\ timedout' = [timedout EXCEPT ![t] = TRUE]
  /\ Forget(t)
  /\ UNCHANGED <<word, waiters, op, wread, held>>

\* The sleep ends without a wake: a timeout, or a signal handler.
SleepEnds(t) ==
  /\ pc[t] = "asleep"
  /\ Goto(t, "dec")
  /\ \/ op[t] \in Timed /\ timedout' = [timedout EXCEPT ![t] = TRUE]
     \/ UNCHANGED timedout
  /\ UNCHANGED <<word, waiters, op, loaded, wread, held>>

DecWaiters(t) ==
  /\ pc[t] = "dec"
  /\ waiters' = waiters - 1
  /\ IF timedout[t]
     THEN Return(t)
     ELSE Goto(t, "try") /\ UNCHANGED <<op, loaded, wread, timedout>>
  /\ UNCHANGED <<word, held>>

-----------------------------------------------------------------------------
\* pthread_rwlock_unlock: the word and then the waiters are loaded.
Unlock(t) ==
  /\ \/ pc[t] = "out" /\ (reads[t] > 0 \/ writes[t])
     \/ pc[t] = "u_again"
  /\ Load(t)
  /\ Goto(t, "u_waiters")
  /\ UNCHANGED <<word, waiters, op, wread, timedout, held>>

UnlockWaiters(t) ==
  /\ pc[t] = "u_waiters"
  /\ wread' = [wread EXCEPT ![t] = waiters # 0]
  /\ Goto(t, "u_cas")
  /\ UNCHANGED <<word, waiters, op, loaded, timedout, held>>

\* The last one out: the word becomes 0, which drops the flag.
Last(t) == vcnt[t] \in {MAX, 1}
NewCount(t) == IF Last(t) THEN 0 ELSE vcnt[t] - 1

\* if (!new && (waiters || val<0))
MustWake(t) == Last(t) /\ (wread[t] \/ vflag[t])

UnlockCas(t) ==
  /\ pc[t] = "u_cas"
  /\ \/ /\ IsLoaded(t)
        /\ cnt' = NewCount(t)
        /\ flag' = (vflag[t] /\ ~Last(t))
        /\ IF writes[t] THEN writes' = [writes EXCEPT ![t] = FALSE] /\ UNCHANGED reads
                        ELSE reads' = [reads EXCEPT ![t] = @ - 1] /\ UNCHANGED writes
        /\ IF MustWake(t) THEN Goto(t, "u_wake") /\ UNCHANGED <<op, loaded, wread, timedout>>
                          ELSE Return(t)
     \/ /\ ~IsLoaded(t)
        /\ Goto(t, "u_again")
        /\ Forget(t)
        /\ wread' = [wread EXCEPT ![t] = FALSE]
        /\ UNCHANGED <<word, held, op, timedout>>
  /\ UNCHANGED waiters

\* __wake(&rw->_rw_lock, cnt, priv): one for the last reader, all for a writer.
WakesAll(t) == vcnt[t] = MAX

UnlockWake(t) ==
  /\ pc[t] = "u_wake"
  /\ LET asleep == {u \in Threads : pc[u] = "asleep"} IN
     \E W \in SUBSET asleep :
       /\ IF WakesAll(t) \/ asleep = {} THEN W = asleep ELSE \E u \in asleep : W = {u}
       /\ pc' = [u \in Threads |-> IF u \in W THEN "dec" ELSE IF u = t THEN "out" ELSE pc[u]]
  /\ Forget(t)
  /\ wread' = [wread EXCEPT ![t] = FALSE]
  /\ UNCHANGED <<word, waiters, op, timedout, held>>

-----------------------------------------------------------------------------
Step(t) == \/ ReadLoad(t) \/ ReadCas(t) \/ WriteCas(t) \/ Look(t) \/ IncWaiters(t)
           \/ MarkWaiting(t) \/ FutexWait(t) \/ DecWaiters(t)
           \/ UnlockWaiters(t) \/ UnlockCas(t) \/ UnlockWake(t)

Next == \E t \in Threads : \/ Step(t) \/ SleepEnds(t) \/ Unlock(t)
                           \/ \E o \in Ops : Lock(t, o)

Spec == Init /\ [][Next]_vars

\* Threads inside a call keep running, and holders unlock.
FairSpec == /\ Spec
            /\ \A t \in Threads : WF_vars(Step(t)) /\ WF_vars(Unlock(t))

-----------------------------------------------------------------------------
Locations == {"out", "try", "cas", "look", "inc", "mark", "futex", "asleep", "dec",
              "u_again", "u_waiters", "u_cas", "u_wake"}

TypeOK == /\ cnt \in 0..MAX /\ flag \in BOOLEAN
          /\ waiters \in 0..Cardinality(Threads)
          /\ pc \in [Threads -> Locations]
          /\ op \in [Threads -> Ops \cup {"none"}]
          /\ vcnt \in [Threads -> 0..MAX]
          /\ vflag \in [Threads -> BOOLEAN]
          /\ wread \in [Threads -> BOOLEAN]
          /\ timedout \in [Threads -> BOOLEAN]
          /\ reads \in [Threads -> Nat]
          /\ writes \in [Threads -> BOOLEAN]

Readers == {t \in Threads : reads[t] > 0}
Writers == {t \in Threads : writes[t]}
Asleep  == {t \in Threads : pc[t] = "asleep"}

\* A writer excludes all others, by the results of their calls.
Exclusion == \A t \in Writers : Writers = {t} /\ Readers = {}

\* Readers do not reach the value that means a writer, though there be more
\* read locks than the count can hold.
CountIsReaders == Writers = {} => cnt # MAX

\* Every thread that may be asleep is counted.
WaitersExact ==
  waiters = Cardinality({t \in Threads : pc[t] \in {"mark", "futex", "asleep", "dec"}})

\* A lock that is free does not leave a sleeper without somebody on the way to
\* take it or to wake, although a new holder finds the flag dropped.
NoLostWakeup ==
  (cnt = 0 /\ Asleep # {}) =>
    \E t \in Threads : pc[t] \in Locations \ {"out", "asleep"}

\* A sleeping reader waits for a writer, not for readers: it is asleep under a
\* read lock only until the wake by the writer that left.
ReadersSleepForWriters ==
  (\E t \in Asleep : op[t] \in Reading) /\ cnt # MAX =>
    \E u \in Threads : pc[u] = "u_wake" /\ vcnt[u] = MAX

=============================================================================
