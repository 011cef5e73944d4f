------------------------------ MODULE LibcLock ------------------------------
(***************************************************************************)
(* The lock libc uses for its own data (LOCK and UNLOCK, __lock.c): one    *)
(* int that is INT_MIN when locked, plus a congestion count of the holder  *)
(* and the threads that gave up spinning.  A process with one thread skips *)
(* it (libc.need_locks), so the creation and exit of threads are part of   *)
(* the model; no thread creates another or exits inside a critical section.*)
(***************************************************************************)
EXTENDS Integers, FiniteSets

CONSTANTS Threads, Main,
          INT_MIN,   \* the lock bit; the count must stay below its magnitude
          Spins      \* attempts of the first loop (10 in the code)

ASSUME LockAssumption == /\ IsFiniteSet(Threads)
                         /\ Main \in Threads
                         /\ INT_MIN \in Int
                         /\ INT_MIN + Cardinality(Threads) + 1 < 0
                         /\ Spins \in Nat

VARIABLES l,          \* the lock word
          need_locks, \* libc.need_locks
          alive,      \* threads that exist
          pc,
          current,    \* __lock's local of that name
          spin        \* and its loop counter i

vars == <<l, need_locks, alive, pc, current, spin>>

Locations == {"out", "cas", "cas_reset", "reset", "spin", "test", "wait", "asleep",
              "heavy", "in", "wake"}

Init == /\ l = 0
        /\ need_locks = 0
        /\ alive = {Main}
        /\ pc = [t \in Threads |-> "out"]
        /\ current = [t \in Threads |-> 0]
        /\ spin = [t \in Threads |-> 0]

Goto(t, loc) == pc' = [pc EXCEPT ![t] = loc]
Read(t, v)   == current' = [current EXCEPT ![t] = v]

\* The caller enters its critical section: the locals of __lock are gone.
Enter(t) == /\ Goto(t, "in")
            /\ Read(t, 0)
            /\ spin' = [spin EXCEPT ![t] = 0]

-----------------------------------------------------------------------------
\* if (!libc.threads_minus_1++) libc.need_locks = 1;
Create(t, u) ==
  /\ t \in alive /\ pc[t] = "out"
  /\ u \notin alive
  /\ alive' = alive \cup {u}
  /\ need_locks' = IF alive = {t} THEN 1 ELSE need_locks
  /\ UNCHANGED <<l, pc, current, spin>>

\* if (!--libc.threads_minus_1) libc.need_locks = -1;
NeedLocksAfterExit_OneEarly == IF Cardinality(alive) <= 3 THEN -1 ELSE need_locks
NeedLocksAfterExit == IF Cardinality(alive) = 2 THEN -1 ELSE need_locks

Exit(t) ==
  /\ t \in alive /\ pc[t] = "out"
  /\ alive # {t}
  /\ alive' = alive \ {t}
  /\ need_locks' = NeedLocksAfterExit
  /\ UNCHANGED <<l, pc, current, spin>>

\* int need_locks = libc.need_locks; if (!need_locks) return;
Lock(t) ==
  /\ t \in alive /\ pc[t] = "out"
  /\ IF need_locks = 0 THEN Enter(t)
     ELSE Goto(t, IF need_locks < 0 THEN "cas_reset" ELSE "cas")
          /\ UNCHANGED <<current, spin>>
  /\ UNCHANGED <<l, need_locks, alive>>

\* current = a_cas(l, 0, INT_MIN + 1); a caller that read need_locks < 0 resets
\* it before it looks at current.
FastCas(t) ==
  /\ pc[t] \in {"cas", "cas_reset"}
  /\ l' = IF l = 0 THEN INT_MIN + 1 ELSE l
  /\ \/ pc[t] = "cas" /\ l = 0 /\ Enter(t)
     \/ pc[t] = "cas" /\ l # 0 /\ Read(t, l) /\ Goto(t, "spin") /\ UNCHANGED spin
     \/ pc[t] = "cas_reset" /\ Read(t, l) /\ Goto(t, "reset") /\ UNCHANGED spin
  /\ UNCHANGED <<need_locks, alive>>

Reset(t) ==
  /\ pc[t] = "reset"
  /\ need_locks' = 0
  /\ IF current[t] = 0 THEN Enter(t)
                       ELSE Goto(t, "spin") /\ UNCHANGED <<current, spin>>
  /\ UNCHANGED <<l, alive>>

\* The value the lock would have if it were free.
Freed(v) == IF v < 0 THEN v - (INT_MIN + 1) ELSE v

\* for (unsigned i = 0; i < 10; ++i)
Spinning(t) == spin[t] < Spins

SpinCas(t) ==
  LET c == Freed(current[t]) IN
  /\ pc[t] = "spin"
  /\ Spinning(t)
  /\ \/ /\ l = c
        /\ l' = INT_MIN + (c + 1)
        /\ Enter(t)
     \/ /\ l # c
        /\ Read(t, l)
        /\ spin' = [spin EXCEPT ![t] = @ + 1]
        /\ UNCHANGED <<l, pc>>
  /\ UNCHANGED <<need_locks, alive>>

\* current = a_fetch_add(l, 1) + 1;
Congest(t) ==
  /\ pc[t] = "spin"
  /\ ~Spinning(t)
  /\ l' = l + 1
  /\ Read(t, l + 1)
  /\ spin' = [spin EXCEPT ![t] = 0]
  /\ Goto(t, "test")
  /\ UNCHANGED <<need_locks, alive>>

TestHeld(t) ==
  /\ pc[t] = "test"
  /\ Goto(t, IF current[t] < 0 THEN "wait" ELSE "heavy")
  /\ UNCHANGED <<l, need_locks, alive, current, spin>>

\* __futexwait sleeps unless the word has changed.
FutexWait(t) ==
  /\ pc[t] = "wait"
  /\ IF l = current[t] THEN Goto(t, "asleep") /\ UNCHANGED current
                       ELSE Goto(t, "heavy") /\ Read(t, Freed(current[t]))
  /\ UNCHANGED <<l, need_locks, alive, spin>>

\* A signal handler ends the sleep early.
Interrupted(t) ==
  /\ pc[t] = "asleep"
  /\ Goto(t, "heavy")
  /\ Read(t, Freed(current[t]))
  /\ UNCHANGED <<l, need_locks, alive, spin>>

\* int val = a_cas(l, current, INT_MIN + current); the count includes the
\* caller already.
HeavyLocked_CountsAgain(v) == INT_MIN + (v + 1)
HeavyLocked(v) == INT_MIN + v

HeavyCas(t) ==
  /\ pc[t] = "heavy"
  /\ \/ /\ l = current[t]
        /\ l' = HeavyLocked(current[t])
        /\ Enter(t)
     \/ /\ l # current[t]
        /\ Read(t, l)
        /\ Goto(t, "test")
        /\ UNCHANGED <<l, spin>>
  /\ UNCHANGED <<need_locks, alive>>

\* a_fetch_add(l, -(INT_MIN + 1)) != (INT_MIN + 1): others are counted.
MustWake_Never == FALSE
MustWake == l # INT_MIN + 1

\* __unlock; a word that is not negative was not locked.
Unlock(t) ==
  /\ pc[t] = "in"
  /\ IF l < 0 THEN l' = l - (INT_MIN + 1) /\ Goto(t, IF MustWake THEN "wake" ELSE "out")
              ELSE Goto(t, "out") /\ UNCHANGED l
  /\ UNCHANGED <<need_locks, alive, current, spin>>

\* __wake(l, 1, 1)
Wake(t) ==
  /\ pc[t] = "wake"
  /\ \/ /\ \A u \in Threads : pc[u] # "asleep"
        /\ Goto(t, "out")
        /\ UNCHANGED current
     \/ \E u \in Threads :
          /\ pc[u] = "asleep"
          /\ pc' = [pc EXCEPT ![t] = "out", ![u] = "heavy"]
          /\ Read(u, Freed(current[u]))
  /\ UNCHANGED <<l, need_locks, alive, spin>>

-----------------------------------------------------------------------------
Step(t) == \/ FastCas(t) \/ Reset(t) \/ SpinCas(t) \/ Congest(t) \/ TestHeld(t)
           \/ FutexWait(t) \/ HeavyCas(t) \/ Unlock(t) \/ Wake(t)

Next == \E t \in Threads : \/ Step(t)
                           \/ Lock(t) \/ Exit(t) \/ Interrupted(t)
                           \/ \E u \in Threads : Create(t, u)

Spec == Init /\ [][Next]_vars

\* Threads inside __lock, a critical section or __unlock keep running.
FairSpec == Spec /\ \A t \in Threads : WF_vars(Step(t))

-----------------------------------------------------------------------------
Congested == {"test", "wait", "asleep", "heavy"}
Waiting   == {t \in Threads : pc[t] \in Congested}
Inside    == {t \in Threads : pc[t] = "in"}

\* The threads that hold the lock: one that took it on the fast path and has
\* still to reset need_locks holds it too.
Holders == Inside \cup {t \in Threads : pc[t] = "reset" /\ current[t] = 0}

TypeOK == /\ l \in Int
          /\ need_locks \in {-1, 0, 1}
          /\ alive \in SUBSET Threads
          /\ pc \in [Threads -> Locations]
          /\ current \in [Threads -> Int]
          /\ spin \in [Threads -> 0..Spins]

\* At most one thread is in a critical section, also across the switches
\* between one and several threads.
MutualExclusion == \A t, u \in Holders : t = u

\* The word is exact: the lock bit and one for a holder that locked it, and one
\* for every thread that stopped spinning ("INT_MIN for the lock, +1 for the
\* congestion"), so the count cannot drift and never reaches the lock bit.
CountExact ==
  l = Cardinality(Waiting) + (IF l < 0 THEN INT_MIN + 1 ELSE 0)

\* __lock.c:30 and :47, the "assertion" comments of the two loops.
SpinAssertion ==
  \A t \in Threads : /\ pc[t] = "spin" => Freed(current[t]) >= 0
                     /\ pc[t] = "heavy" => current[t] > 0

\* While the lock is free, not all who wait for it sleep without a wake on
\* its way.
NoLostWakeup ==
  (l >= 0 /\ Waiting # {}) =>
    \/ \E t \in Waiting : pc[t] # "asleep"
    \/ \E t \in Threads : pc[t] = "wake"

\* Threads are in __lock or __unlock, and none gets in.
Unserved == Inside = {} /\ \E t \in Threads : pc[t] # "out"

\* What __lock and __unlock promise: a lock with one holder at a time.
Abstract == INSTANCE ExclusiveLock WITH holders <- Inside
Refines == Abstract!Spec
=============================================================================
