--------------------------- MODULE LibcLockProofs ---------------------------
(***************************************************************************)
(* Proofs about LibcLock, for any set of threads and any number of spins.  *)
(*                                                                         *)
(* Mutual exclusion rests on the exactness of the lock word (a free lock   *)
(* has no bit to confuse with a count) and on need_locks being 0 only      *)
(* while a single thread exists and that thread is not between the load of *)
(* need_locks and its use.                                                 *)
(***************************************************************************)
EXTENDS LibcLock, FiniteSetTheorems, TLAPS

\* A thread that is doing anything exists.
AliveInv == \A t \in Threads : pc[t] # "out" => t \in alive

\* need_locks lets a caller skip the lock only when it is alone.
NeedInv ==
  /\ need_locks # 1 => \E t \in Threads : alive = {t}
  /\ need_locks = 0 => \A t \in Threads : pc[t] \in {"out", "in", "wake"}
  /\ \A t \in Threads : pc[t] \in {"cas_reset", "reset"} => need_locks = -1

\* The lock bit is set exactly while somebody holds the lock, except by a lone
\* thread that skipped it.
HoldInv == /\ MutualExclusion
           /\ l < 0 => Holders # {}
           /\ l >= 0 /\ Holders # {} => need_locks = 0

\* What the locals of a thread remember of the word.
LocalInv ==
  \A t \in Threads :
    /\ pc[t] = "reset" => current[t] = 0
    /\ pc[t] = "spin" => Freed(current[t]) >= 0
    /\ pc[t] \in {"test", "wait", "asleep"} => Freed(current[t]) > 0
    /\ pc[t] \in {"wait", "asleep"} => current[t] < 0
    /\ pc[t] = "heavy" => current[t] > 0

IInv == TypeOK /\ AliveInv /\ NeedInv /\ HoldInv /\ CountExact /\ LocalInv
        /\ NoLostWakeup

-----------------------------------------------------------------------------
LEMMA WaitingFinite ==
  /\ IsFiniteSet(Waiting) /\ Cardinality(Waiting) \in Nat
  /\ Waiting \subseteq Threads
  /\ Cardinality(Waiting) <= Cardinality(Threads) /\ Cardinality(Threads) \in Nat
<1>1. Waiting \subseteq Threads
  BY DEF Waiting
<1> QED
  BY <1>1, FS_Subset, FS_CardinalityType, LockAssumption

LEMMA WaitingFinitePrime ==
  IsFiniteSet(Waiting') /\ Cardinality(Waiting') \in Nat
<1>1. Waiting' \subseteq Threads
  BY DEF Waiting
<1> QED
  BY <1>1, FS_Subset, FS_CardinalityType, LockAssumption

\* A thread that is counted makes the count positive.
LEMMA WaitingCounts ==
  ASSUME NEW t \in Waiting PROVE Cardinality(Waiting) > 0
<1>1. Cardinality(Waiting) # 0
  BY WaitingFinite, FS_EmptySet
<1> QED
  BY <1>1, WaitingFinite

LEMMA WaitingGrows ==
  ASSUME NEW t \in Threads, t \notin Waiting, Waiting' = Waiting \cup {t}
  PROVE  Cardinality(Waiting') = Cardinality(Waiting) + 1
  BY WaitingFinite, FS_AddElement

LEMMA WaitingShrinks ==
  ASSUME NEW t \in Threads, t \in Waiting, Waiting' = Waiting \ {t}
  PROVE  Cardinality(Waiting') = Cardinality(Waiting) - 1
  BY WaitingFinite, FS_RemoveElement

\* The range of the word that CountExact gives.
LEMMA WordRange ==
  ASSUME TypeOK, CountExact
  PROVE  /\ Freed(l) = Cardinality(Waiting)
         /\ l < 0 => l - (INT_MIN + 1) = Cardinality(Waiting)
         /\ l >= 0 => l = Cardinality(Waiting)
  BY WaitingFinite, LockAssumption DEF TypeOK, CountExact, Freed

-----------------------------------------------------------------------------
LEMMA InitIInv == Init => IInv
<1> SUFFICES ASSUME Init PROVE IInv
  OBVIOUS
<1>1. TypeOK
  BY LockAssumption DEF Init, TypeOK, Locations
<1>2. Waiting = {} /\ Holders = {}
  BY DEF Init, Waiting, Congested, Holders, Inside
<1>3. CountExact
  BY <1>2, FS_EmptySet DEF Init, CountExact
<1>4. HoldInv
  BY <1>2 DEF Init, HoldInv, MutualExclusion
<1>5. AliveInv /\ NeedInv
  BY LockAssumption DEF Init, AliveInv, NeedInv
<1>6. LocalInv
  BY DEF Init, LocalInv
<1>7. NoLostWakeup
  BY <1>2 DEF NoLostWakeup
<1> QED
  BY <1>1, <1>3, <1>4, <1>5, <1>6, <1>7 DEF IInv

LEMMA FreedType == \A v \in Int : Freed(v) \in Int
  BY LockAssumption DEF Freed

LEMMA TypeStep == TypeOK /\ [Next]_vars => TypeOK'
<1> SUFFICES ASSUME TypeOK, [Next]_vars PROVE TypeOK'
  OBVIOUS
<1> USE LockAssumption, FreedType DEF TypeOK, Locations, Goto, Read, Enter
<1>1. CASE UNCHANGED vars
  BY <1>1 DEF vars
<1>2. ASSUME NEW t \in Threads, NEW u \in Threads, Create(t, u) PROVE TypeOK'
  BY <1>2 DEF Create
<1>3. ASSUME NEW t \in Threads, Exit(t) PROVE TypeOK'
  BY <1>3 DEF Exit, NeedLocksAfterExit
<1>4. ASSUME NEW t \in Threads, Lock(t) PROVE TypeOK'
  BY <1>4 DEF Lock
<1>5. ASSUME NEW t \in Threads, FastCas(t) PROVE TypeOK'
  BY <1>5 DEF FastCas
<1>6. ASSUME NEW t \in Threads, Reset(t) PROVE TypeOK'
  BY <1>6 DEF Reset
<1>7. ASSUME NEW t \in Threads, SpinCas(t) PROVE TypeOK'
  <2>1. Freed(current[t]) \in Int /\ spin[t] \in 0..Spins
    OBVIOUS
  <2> QED
    BY <1>7, <2>1 DEF SpinCas, Spinning
<1>8. ASSUME NEW t \in Threads, Congest(t) PROVE TypeOK'
  BY <1>8 DEF Congest
<1>9. ASSUME NEW t \in Threads, TestHeld(t) PROVE TypeOK'
  BY <1>9 DEF TestHeld
<1>10. ASSUME NEW t \in Threads, FutexWait(t) PROVE TypeOK'
  BY <1>10 DEF FutexWait
<1>11. ASSUME NEW t \in Threads, Interrupted(t) PROVE TypeOK'
  BY <1>11 DEF Interrupted
<1>12. ASSUME NEW t \in Threads, HeavyCas(t) PROVE TypeOK'
  BY <1>12 DEF HeavyCas, HeavyLocked
<1>13. ASSUME NEW t \in Threads, Unlock(t) PROVE TypeOK'
  BY <1>13 DEF Unlock
<1>14. ASSUME NEW t \in Threads, Wake(t) PROVE TypeOK'
  BY <1>14 DEF Wake
<1> QED
  BY <1>1, <1>2, <1>3, <1>4, <1>5, <1>6, <1>7, <1>8, <1>9, <1>10, <1>11, <1>12,
     <1>13, <1>14 DEF Next, Step

LEMMA WaitingBound ==
  ASSUME NEW t \in Threads, t \notin Waiting
  PROVE  Cardinality(Waiting) + 1 <= Cardinality(Threads)
<1>1. /\ IsFiniteSet(Waiting \cup {t})
      /\ Cardinality(Waiting \cup {t}) = Cardinality(Waiting) + 1
  BY WaitingFinite, FS_AddElement
<1>2. Cardinality(Waiting \cup {t}) <= Cardinality(Threads)
  BY WaitingFinite, LockAssumption, FS_Subset
<1> QED
  BY <1>1, <1>2

LEMMA AliveStep == IInv /\ [Next]_vars => AliveInv'
<1> SUFFICES ASSUME IInv, [Next]_vars PROVE AliveInv'
  OBVIOUS
<1> USE DEF IInv, TypeOK, AliveInv, Goto, Read, Enter
<1>1. CASE UNCHANGED vars
  BY <1>1 DEF vars
<1>2. ASSUME NEW t \in Threads, NEW u \in Threads, Create(t, u) PROVE AliveInv'
  BY <1>2 DEF Create
<1>3. ASSUME NEW t \in Threads, Exit(t) PROVE AliveInv'
  BY <1>3 DEF Exit, NeedLocksAfterExit
<1>4. ASSUME NEW t \in Threads, Lock(t) PROVE AliveInv'
  BY <1>4 DEF Lock
<1>5. ASSUME NEW t \in Threads, FastCas(t) PROVE AliveInv'
  BY <1>5 DEF FastCas
<1>6. ASSUME NEW t \in Threads, Reset(t) PROVE AliveInv'
  BY <1>6 DEF Reset
<1>7. ASSUME NEW t \in Threads, SpinCas(t) PROVE AliveInv'
  BY <1>7 DEF SpinCas, Spinning
<1>8. ASSUME NEW t \in Threads, Congest(t) PROVE AliveInv'
  BY <1>8 DEF Congest
<1>9. ASSUME NEW t \in Threads, TestHeld(t) PROVE AliveInv'
  BY <1>9 DEF TestHeld
<1>10. ASSUME NEW t \in Threads, FutexWait(t) PROVE AliveInv'
  BY <1>10 DEF FutexWait
<1>11. ASSUME NEW t \in Threads, Interrupted(t) PROVE AliveInv'
  BY <1>11 DEF Interrupted
<1>12. ASSUME NEW t \in Threads, HeavyCas(t) PROVE AliveInv'
  BY <1>12 DEF HeavyCas, HeavyLocked
<1>13. ASSUME NEW t \in Threads, Unlock(t) PROVE AliveInv'
  BY <1>13 DEF Unlock, MustWake
<1>14. ASSUME NEW t \in Threads, Wake(t) PROVE AliveInv'
  BY <1>14 DEF Wake
<1> QED
  BY <1>1, <1>2, <1>3, <1>4, <1>5, <1>6, <1>7, <1>8, <1>9, <1>10, <1>11, <1>12,
     <1>13, <1>14 DEF Next, Step

LEMMA NeedStep == IInv /\ [Next]_vars => NeedInv'
<1> SUFFICES ASSUME IInv, [Next]_vars PROVE NeedInv'
  OBVIOUS
<1> USE DEF IInv, TypeOK, AliveInv, NeedInv, LocalInv, Goto, Read, Enter
<1>1. CASE UNCHANGED vars
  BY <1>1 DEF vars
<1>2. ASSUME NEW t \in Threads, NEW u \in Threads, Create(t, u) PROVE NeedInv'
  BY <1>2 DEF Create
<1>3. ASSUME NEW t \in Threads, Exit(t) PROVE NeedInv'
  <2>1. CASE Cardinality(alive) = 2
    <3>1. IsFiniteSet(alive)
      BY LockAssumption, FS_Subset
    <3>2. Cardinality(alive \ {t}) = 1 /\ IsFiniteSet(alive \ {t})
      BY <1>3, <2>1, <3>1, FS_RemoveElement DEF Exit
    <3>3. PICK x : alive \ {t} = {x}
      BY <3>2, FS_Singleton
    <3>4. x \in Threads /\ alive' = {x} /\ need_locks' = -1
      BY <1>3, <2>1, <3>3 DEF Exit, NeedLocksAfterExit
    <3> QED
      BY <1>3, <3>4 DEF Exit
  <2>2. CASE Cardinality(alive) # 2
    BY <1>3, <2>2 DEF Exit, NeedLocksAfterExit
  <2> QED
    BY <2>1, <2>2
<1>4. ASSUME NEW t \in Threads, Lock(t) PROVE NeedInv'
  BY <1>4 DEF Lock
<1>5. ASSUME NEW t \in Threads, FastCas(t) PROVE NeedInv'
  BY <1>5 DEF FastCas
<1>6. ASSUME NEW t \in Threads, Reset(t) PROVE NeedInv'
  BY <1>6 DEF Reset
<1>7. ASSUME NEW t \in Threads, SpinCas(t) PROVE NeedInv'
  BY <1>7 DEF SpinCas, Spinning
<1>8. ASSUME NEW t \in Threads, Congest(t) PROVE NeedInv'
  BY <1>8 DEF Congest
<1>9. ASSUME NEW t \in Threads, TestHeld(t) PROVE NeedInv'
  BY <1>9 DEF TestHeld
<1>10. ASSUME NEW t \in Threads, FutexWait(t) PROVE NeedInv'
  BY <1>10 DEF FutexWait
<1>11. ASSUME NEW t \in Threads, Interrupted(t) PROVE NeedInv'
  BY <1>11 DEF Interrupted
<1>12. ASSUME NEW t \in Threads, HeavyCas(t) PROVE NeedInv'
  BY <1>12 DEF HeavyCas, HeavyLocked
<1>13. ASSUME NEW t \in Threads, Unlock(t) PROVE NeedInv'
  BY <1>13 DEF Unlock, MustWake
<1>14. ASSUME NEW t \in Threads, Wake(t) PROVE NeedInv'
  BY <1>14 DEF Wake
<1> QED
  BY <1>1, <1>2, <1>3, <1>4, <1>5, <1>6, <1>7, <1>8, <1>9, <1>10, <1>11, <1>12,
     <1>13, <1>14 DEF Next, Step

\* The lock word keeps counting its holder and its waiters.
LEMMA CountStep == IInv /\ [Next]_vars => CountExact'
<1> SUFFICES ASSUME IInv, [Next]_vars PROVE CountExact'
  OBVIOUS
<1> USE LockAssumption, WaitingFinite DEF IInv, TypeOK, CountExact, Goto, Read, Enter
<1>1. CASE UNCHANGED vars
  BY <1>1 DEF vars, Waiting
<1>2. ASSUME NEW t \in Threads, NEW u \in Threads, Create(t, u) PROVE CountExact'
  <2>1. Waiting' = Waiting
    BY <1>2 DEF Create, Waiting, Congested
  <2> QED
    BY <1>2, <2>1 DEF Create
<1>3. ASSUME NEW t \in Threads, Exit(t) PROVE CountExact'
  <2>1. Waiting' = Waiting
    BY <1>3 DEF Exit, NeedLocksAfterExit, Waiting, Congested
  <2> QED
    BY <1>3, <2>1 DEF Exit, NeedLocksAfterExit
<1>4. ASSUME NEW t \in Threads, Lock(t) PROVE CountExact'
  <2>1. Waiting' = Waiting
    BY <1>4 DEF Lock, Waiting, Congested
  <2> QED
    BY <1>4, <2>1 DEF Lock
<1>5. ASSUME NEW t \in Threads, FastCas(t) PROVE CountExact'
  <2>1. Waiting' = Waiting
    BY <1>5 DEF FastCas, Waiting, Congested
  <2>2. CASE l = 0
    BY <1>5, <2>1, <2>2 DEF FastCas
  <2>3. CASE l # 0
    BY <1>5, <2>1, <2>3 DEF FastCas
  <2> QED
    BY <2>2, <2>3
<1>6. ASSUME NEW t \in Threads, Reset(t) PROVE CountExact'
  <2>1. Waiting' = Waiting
    BY <1>6 DEF Reset, Waiting, Congested
  <2> QED
    BY <1>6, <2>1 DEF Reset
<1>7. ASSUME NEW t \in Threads, SpinCas(t) PROVE CountExact'
  <2>1. Waiting' = Waiting /\ t \notin Waiting
    BY <1>7 DEF SpinCas, Waiting, Congested
  <2>2. CASE l' = l
    BY <1>7, <2>1, <2>2
  <2>3. CASE l = Freed(current[t]) /\ l' = INT_MIN + (l + 1)
    <3>1. l >= 0
      BY <1>7, <2>3 DEF SpinCas, LocalInv
    <3>2. l = Cardinality(Waiting) /\ Cardinality(Waiting) + 1 <= Cardinality(Threads)
      BY <2>1, <3>1, WaitingBound
    <3> QED
      BY <2>1, <2>3, <3>1, <3>2
  <2> QED
    BY <1>7, <2>2, <2>3 DEF SpinCas
<1>8. ASSUME NEW t \in Threads, Congest(t) PROVE CountExact'
  <2>1. Waiting' = Waiting \cup {t} /\ t \notin Waiting
    BY <1>8 DEF Congest, Waiting, Congested
  <2>2. Cardinality(Waiting') = Cardinality(Waiting) + 1
    BY <2>1, WaitingGrows
  <2>3. Cardinality(Waiting) + 1 <= Cardinality(Threads)
    BY <2>1, WaitingBound
  <2> QED
    BY <1>8, <2>2, <2>3 DEF Congest
<1>9. ASSUME NEW t \in Threads, TestHeld(t) PROVE CountExact'
  <2>1. Waiting' = Waiting
    BY <1>9 DEF TestHeld, Waiting, Congested
  <2> QED
    BY <1>9, <2>1 DEF TestHeld
<1>10. ASSUME NEW t \in Threads, FutexWait(t) PROVE CountExact'
  <2>1. Waiting' = Waiting
    BY <1>10 DEF FutexWait, Waiting, Congested
  <2> QED
    BY <1>10, <2>1 DEF FutexWait
<1>11. ASSUME NEW t \in Threads, Interrupted(t) PROVE CountExact'
  <2>1. Waiting' = Waiting
    BY <1>11 DEF Interrupted, Waiting, Congested
  <2> QED
    BY <1>11, <2>1 DEF Interrupted
<1>12. ASSUME NEW t \in Threads, HeavyCas(t) PROVE CountExact'
  <2>1. CASE l' = l /\ pc' = [pc EXCEPT ![t] = "test"]
    <3>1. Waiting' = Waiting
      BY <1>12, <2>1 DEF HeavyCas, Waiting, Congested
    <3> QED
      BY <2>1, <3>1
  <2>2. CASE l = current[t] /\ l' = INT_MIN + l /\ pc' = [pc EXCEPT ![t] = "in"]
    <3>1. Waiting' = Waiting \ {t} /\ t \in Waiting
      BY <1>12, <2>2 DEF HeavyCas, Waiting, Congested
    <3>2. Cardinality(Waiting') = Cardinality(Waiting) - 1
      BY <3>1, WaitingShrinks
    <3>3. l > 0
      BY <1>12, <2>2 DEF HeavyCas, LocalInv
    <3> QED
      BY <2>2, <3>2, <3>3
  <2> QED
    BY <1>12, <2>1, <2>2 DEF HeavyCas, HeavyLocked
<1>13. ASSUME NEW t \in Threads, Unlock(t) PROVE CountExact'
  <2>1. Waiting' = Waiting
    BY <1>13 DEF Unlock, Waiting, Congested
  <2> QED
    BY <1>13, <2>1 DEF Unlock
<1>14. ASSUME NEW t \in Threads, Wake(t) PROVE CountExact'
  <2>1. Waiting' = Waiting
    BY <1>14 DEF Wake, Waiting, Congested
  <2> QED
    BY <1>14, <2>1 DEF Wake
<1> QED
  BY <1>1, <1>2, <1>3, <1>4, <1>5, <1>6, <1>7, <1>8, <1>9, <1>10, <1>11, <1>12,
     <1>13, <1>14 DEF Next, Step

LEMMA LocalStep == IInv /\ [Next]_vars => LocalInv'
<1> SUFFICES ASSUME IInv, [Next]_vars PROVE LocalInv'
  OBVIOUS
<1> USE LockAssumption, FreedType DEF IInv, TypeOK, LocalInv, Goto, Read, Enter
<1>1. CASE UNCHANGED vars
  BY <1>1 DEF vars
<1>2. ASSUME NEW t \in Threads, NEW u \in Threads, Create(t, u) PROVE LocalInv'
  BY <1>2 DEF Create
<1>3. ASSUME NEW t \in Threads, Exit(t) PROVE LocalInv'
  BY <1>3 DEF Exit, NeedLocksAfterExit
<1>4. ASSUME NEW t \in Threads, Lock(t) PROVE LocalInv'
  BY <1>4 DEF Lock
<1>5. ASSUME NEW t \in Threads, FastCas(t) PROVE LocalInv'
  <2>1. Freed(l) >= 0
    BY WordRange, WaitingFinite
  <2>2. ASSUME pc[t] = "cas_reset" PROVE l = 0
    <3>1. need_locks = -1 /\ t \in alive
      BY <2>2 DEF NeedInv, AliveInv
    <3>2. \A u \in Threads \ {t} : pc[u] = "out"
      BY <3>1 DEF NeedInv, AliveInv
    <3>3. Waiting = {} /\ Holders = {}
      BY <2>2, <3>2 DEF Waiting, Congested, Holders, Inside
    <3> QED
      BY <3>3, FS_EmptySet, WordRange DEF HoldInv
  <2> QED
    BY <1>5, <2>1, <2>2 DEF FastCas
<1>6. ASSUME NEW t \in Threads, Reset(t) PROVE LocalInv'
  BY <1>6 DEF Reset
<1>7. ASSUME NEW t \in Threads, SpinCas(t) PROVE LocalInv'
  <2>1. Freed(l) >= 0
    BY WordRange, WaitingFinite
  <2> QED
    BY <1>7, <2>1 DEF SpinCas
<1>8. ASSUME NEW t \in Threads, Congest(t) PROVE LocalInv'
  <2>1. Freed(l) >= 0 /\ Freed(l) = Cardinality(Waiting)
    BY WordRange, WaitingFinite
  <2>2. t \notin Waiting
    BY <1>8 DEF Congest, Waiting, Congested
  <2>3. Cardinality(Waiting) + 1 <= Cardinality(Threads)
    BY <2>2, WaitingBound
  <2>4. Freed(l + 1) > 0
    BY <2>1, <2>3, WaitingFinite, WordRange DEF Freed, CountExact
  <2> QED
    BY <1>8, <2>4 DEF Congest
<1>9. ASSUME NEW t \in Threads, TestHeld(t) PROVE LocalInv'
  BY <1>9 DEF TestHeld, Freed
<1>10. ASSUME NEW t \in Threads, FutexWait(t) PROVE LocalInv'
  BY <1>10 DEF FutexWait, Freed
<1>11. ASSUME NEW t \in Threads, Interrupted(t) PROVE LocalInv'
  BY <1>11 DEF Interrupted, Freed
<1>12. ASSUME NEW t \in Threads, HeavyCas(t) PROVE LocalInv'
  <2>1. t \in Waiting
    BY <1>12 DEF HeavyCas, Waiting, Congested
  <2>2. Freed(l) > 0
    BY <2>1, WaitingCounts, WordRange
  <2> QED
    BY <1>12, <2>2 DEF HeavyCas
<1>13. ASSUME NEW t \in Threads, Unlock(t) PROVE LocalInv'
  BY <1>13 DEF Unlock, MustWake
<1>14. ASSUME NEW t \in Threads, Wake(t) PROVE LocalInv'
  BY <1>14 DEF Wake, Freed
<1> QED
  BY <1>1, <1>2, <1>3, <1>4, <1>5, <1>6, <1>7, <1>8, <1>9, <1>10, <1>11, <1>12,
     <1>13, <1>14 DEF Next, Step

\* Mutual exclusion, and the lock bit telling whether the lock is held.
LEMMA HoldStep == IInv /\ [Next]_vars => HoldInv'
<1> SUFFICES ASSUME IInv, [Next]_vars PROVE HoldInv'
  OBVIOUS
<1> USE LockAssumption DEF IInv, TypeOK, HoldInv, MutualExclusion, Goto, Read, Enter
<1>1. CASE UNCHANGED vars
  BY <1>1 DEF vars, Holders, Inside
<1>2. ASSUME NEW t \in Threads, NEW u \in Threads, Create(t, u) PROVE HoldInv'
  <2>1. Holders' = Holders
    BY <1>2 DEF Create, Holders, Inside
  <2>2. need_locks = 0 => Holders = {}
    <3> SUFFICES ASSUME need_locks = 0, NEW x \in Holders PROVE FALSE
      OBVIOUS
    <3>1. alive = {t} /\ x \in alive
      BY <1>2 DEF Create, NeedInv, AliveInv, Holders, Inside
    <3> QED
      BY <1>2, <3>1 DEF Create, Holders, Inside
  <2> QED
    BY <1>2, <2>1, <2>2 DEF Create
<1>3. ASSUME NEW t \in Threads, Exit(t) PROVE HoldInv'
  <2>1. Holders' = Holders
    BY <1>3 DEF Exit, Holders, Inside
  <2>2. need_locks # 0
    BY <1>3 DEF Exit, NeedInv
  <2> QED
    BY <1>3, <2>1, <2>2 DEF Exit
<1>4. ASSUME NEW t \in Threads, Lock(t) PROVE HoldInv'
  <2>1. CASE need_locks = 0
    <3>1. alive = {t} /\ need_locks' = 0 /\ l' = l
      BY <1>4, <2>1 DEF Lock, NeedInv
    <3>2. \A x \in Threads \ {t} : pc[x] = "out"
      BY <3>1 DEF AliveInv
    <3>3. Holders = {} /\ Holders' = {t}
      BY <1>4, <2>1, <3>2 DEF Lock, Holders, Inside
    <3> QED
      BY <3>1, <3>3
  <2>2. CASE need_locks # 0
    <3>1. Holders' = Holders
      BY <1>4, <2>2 DEF Lock, Holders, Inside
    <3> QED
      BY <1>4, <3>1 DEF Lock
  <2> QED
    BY <2>1, <2>2
<1>5. ASSUME NEW t \in Threads, FastCas(t) PROVE HoldInv'
  <2>1. need_locks # 0
    BY <1>5 DEF FastCas, NeedInv
  <2>2. CASE l = 0
    <3>1. Holders = {} /\ Holders' = {t} /\ l' \in Int /\ l' < 0
      BY <1>5, <2>1, <2>2, WaitingFinite DEF FastCas, Holders, Inside
    <3> QED
      BY <3>1
  <2>3. CASE l # 0
    <3>1. Holders' = Holders /\ l' = l /\ need_locks' = need_locks
      BY <1>5, <2>3 DEF FastCas, Holders, Inside
    <3> QED
      BY <3>1
  <2> QED
    BY <2>2, <2>3
<1>6. ASSUME NEW t \in Threads, Reset(t) PROVE HoldInv'
  <2>1. current[t] = 0 /\ t \in Holders
    BY <1>6 DEF Reset, LocalInv, Holders
  <2>2. Holders' = Holders
    BY <1>6, <2>1 DEF Reset, Holders, Inside
  <2> QED
    BY <1>6, <2>2 DEF Reset
<1>7. ASSUME NEW t \in Threads, SpinCas(t) PROVE HoldInv'
  <2>1. CASE l # Freed(current[t])
    <3>1. Holders' = Holders
      BY <1>7, <2>1 DEF SpinCas, Holders, Inside
    <3> QED
      BY <1>7, <2>1, <3>1 DEF SpinCas
  <2>2. CASE l = Freed(current[t])
    <3>1. l >= 0 /\ need_locks # 0
      BY <1>7, <2>2 DEF SpinCas, LocalInv, NeedInv
    <3>2. Holders = {}
      BY <3>1
    <3>3. Holders' = {t}
      BY <1>7, <2>2, <3>2 DEF SpinCas, Holders, Inside
    <3>4. l' = INT_MIN + (l + 1) /\ l = Cardinality(Waiting) /\ t \notin Waiting
      BY <1>7, <2>2, <3>1, WordRange DEF SpinCas, Waiting, Congested
    <3>5. l' \in Int /\ l' < 0
      BY <3>4, WaitingBound, WaitingFinite
    <3> QED
      BY <3>3, <3>5
  <2> QED
    BY <2>1, <2>2
<1>8. ASSUME NEW t \in Threads, Congest(t) PROVE HoldInv'
  <2>1. Holders' = Holders
    BY <1>8 DEF Congest, Holders, Inside
  <2>2. t \notin Waiting
    BY <1>8 DEF Congest, Waiting, Congested
  <2>3. l < 0 <=> l' < 0
    BY <1>8, <2>2, WordRange, WaitingBound, WaitingFinite DEF Congest
  <2> QED
    BY <1>8, <2>1, <2>3 DEF Congest
<1>9. ASSUME NEW t \in Threads, TestHeld(t) PROVE HoldInv'
  <2>1. Holders' = Holders
    BY <1>9 DEF TestHeld, Holders, Inside
  <2> QED
    BY <1>9, <2>1 DEF TestHeld
<1>10. ASSUME NEW t \in Threads, FutexWait(t) PROVE HoldInv'
  <2>1. Holders' = Holders
    BY <1>10 DEF FutexWait, Holders, Inside
  <2> QED
    BY <1>10, <2>1 DEF FutexWait
<1>11. ASSUME NEW t \in Threads, Interrupted(t) PROVE HoldInv'
  <2>1. Holders' = Holders
    BY <1>11 DEF Interrupted, Holders, Inside
  <2> QED
    BY <1>11, <2>1 DEF Interrupted
<1>12. ASSUME NEW t \in Threads, HeavyCas(t) PROVE HoldInv'
  <2>1. CASE l # current[t]
    <3>1. Holders' = Holders
      BY <1>12, <2>1 DEF HeavyCas, Holders, Inside
    <3> QED
      BY <1>12, <2>1, <3>1 DEF HeavyCas
  <2>2. CASE l = current[t]
    <3>1. l > 0 /\ need_locks # 0
      BY <1>12, <2>2 DEF HeavyCas, LocalInv, NeedInv
    <3>2. Holders = {}
      BY <3>1
    <3>3. Holders' = {t}
      BY <1>12, <2>2, <3>2 DEF HeavyCas, Holders, Inside
    <3>4. l' = INT_MIN + l /\ l = Cardinality(Waiting)
      BY <1>12, <2>2, <3>1, WordRange DEF HeavyCas, HeavyLocked
    <3>5. l' \in Int /\ l' < 0
      BY <3>4, WaitingFinite
    <3> QED
      BY <3>3, <3>5
  <2> QED
    BY <2>1, <2>2
<1>13. ASSUME NEW t \in Threads, Unlock(t) PROVE HoldInv'
  <2>1. Holders = {t}
    BY <1>13 DEF Unlock, Holders, Inside
  <2>2. Holders' = {}
    BY <1>13, <2>1 DEF Unlock, Holders, Inside
  <2>3. l' >= 0
    BY <1>13, WordRange, WaitingFinite DEF Unlock
  <2> QED
    BY <1>13, <2>2, <2>3 DEF Unlock
<1>14. ASSUME NEW t \in Threads, Wake(t) PROVE HoldInv'
  <2>1. Holders' = Holders
    BY <1>14 DEF Wake, Holders, Inside
  <2> QED
    BY <1>14, <2>1 DEF Wake
<1> QED
  BY <1>1, <1>2, <1>3, <1>4, <1>5, <1>6, <1>7, <1>8, <1>9, <1>10, <1>11, <1>12,
     <1>13, <1>14 DEF Next, Step

\* A wake is never lost while the lock is free.
LEMMA WakeupStep == IInv /\ [Next]_vars => NoLostWakeup'
<1> SUFFICES ASSUME IInv, [Next]_vars PROVE NoLostWakeup'
  OBVIOUS
<1> USE LockAssumption DEF IInv, TypeOK, NoLostWakeup, Goto, Read, Enter
<1>1. CASE UNCHANGED vars
  BY <1>1 DEF vars, Waiting
<1>2. ASSUME NEW t \in Threads, NEW u \in Threads, Create(t, u) PROVE NoLostWakeup'
  BY <1>2 DEF Create, Waiting, Congested
<1>3. ASSUME NEW t \in Threads, Exit(t) PROVE NoLostWakeup'
  BY <1>3 DEF Exit, NeedLocksAfterExit, Waiting, Congested
<1>4. ASSUME NEW t \in Threads, Lock(t) PROVE NoLostWakeup'
  BY <1>4 DEF Lock, Waiting, Congested
<1>5. ASSUME NEW t \in Threads, FastCas(t) PROVE NoLostWakeup'
  <2>1. l = 0 => l' < 0
    BY <1>5, WaitingFinite DEF FastCas
  <2> QED
    BY <1>5, <2>1 DEF FastCas, Waiting, Congested
<1>6. ASSUME NEW t \in Threads, Reset(t) PROVE NoLostWakeup'
  BY <1>6 DEF Reset, Waiting, Congested
<1>7. ASSUME NEW t \in Threads, SpinCas(t) PROVE NoLostWakeup'
  <2>1. CASE l # Freed(current[t])
    BY <1>7, <2>1 DEF SpinCas, Waiting, Congested
  <2>2. CASE l = Freed(current[t])
    <3>1. l >= 0 /\ t \notin Waiting /\ l' = INT_MIN + (l + 1)
      BY <1>7, <2>2 DEF SpinCas, LocalInv, Waiting, Congested
    <3>2. l' \in Int /\ l' < 0
      BY <3>1, WordRange, WaitingBound, WaitingFinite
    <3> QED
      BY <3>2
  <2> QED
    BY <2>1, <2>2
<1>8. ASSUME NEW t \in Threads, Congest(t) PROVE NoLostWakeup'
  BY <1>8 DEF Congest, Waiting, Congested
<1>9. ASSUME NEW t \in Threads, TestHeld(t) PROVE NoLostWakeup'
  BY <1>9 DEF TestHeld, Waiting, Congested
<1>10. ASSUME NEW t \in Threads, FutexWait(t) PROVE NoLostWakeup'
  <2>1. current[t] < 0
    BY <1>10 DEF FutexWait, LocalInv
  <2> QED
    BY <1>10, <2>1 DEF FutexWait, Waiting, Congested
<1>11. ASSUME NEW t \in Threads, Interrupted(t) PROVE NoLostWakeup'
  BY <1>11 DEF Interrupted, Waiting, Congested
<1>12. ASSUME NEW t \in Threads, HeavyCas(t) PROVE NoLostWakeup'
  <2>1. CASE l # current[t]
    BY <1>12, <2>1 DEF HeavyCas, Waiting, Congested
  <2>2. CASE l = current[t]
    <3>1. l > 0 /\ l' = INT_MIN + l
      BY <1>12, <2>2 DEF HeavyCas, HeavyLocked, LocalInv
    <3>2. l' \in Int /\ l' < 0
      BY <3>1, WordRange, WaitingFinite
    <3> QED
      BY <3>2
  <2> QED
    BY <2>1, <2>2
<1>13. ASSUME NEW t \in Threads, Unlock(t) PROVE NoLostWakeup'
  <2>1. Waiting' = Waiting
    BY <1>13 DEF Unlock, Waiting, Congested
  <2>2. CASE l < 0 /\ l # INT_MIN + 1
    BY <1>13, <2>2 DEF Unlock, MustWake
  <2>3. CASE l = INT_MIN + 1
    <3>1. Cardinality(Waiting) = 0
      BY <2>3, WordRange, WaitingFinite
    <3>2. Waiting = {}
      BY <3>1, WaitingFinite, FS_EmptySet
    <3> QED
      BY <2>1, <3>2
  <2>4. CASE l >= 0
    BY <1>13, <2>1, <2>4 DEF Unlock, Waiting, Congested
  <2> QED
    BY <2>2, <2>3, <2>4, WaitingFinite
<1>14. ASSUME NEW t \in Threads, Wake(t) PROVE NoLostWakeup'
  BY <1>14 DEF Wake, Waiting, Congested
<1> QED
  BY <1>1, <1>2, <1>3, <1>4, <1>5, <1>6, <1>7, <1>8, <1>9, <1>10, <1>11, <1>12,
     <1>13, <1>14 DEF Next, Step

LEMMA IInvStep == IInv /\ [Next]_vars => IInv'
<1> SUFFICES ASSUME IInv, [Next]_vars PROVE IInv'
  OBVIOUS
<1>1. TypeOK'
  BY TypeStep DEF IInv
<1>2. AliveInv' /\ NeedInv'
  BY AliveStep, NeedStep
<1>3. HoldInv' /\ CountExact'
  BY HoldStep, CountStep
<1>4. LocalInv' /\ NoLostWakeup'
  BY LocalStep, WakeupStep
<1> QED
  BY <1>1, <1>2, <1>3, <1>4 DEF IInv

LEMMA Invariance == Spec => []IInv
  BY InitIInv, IInvStep, PTL DEF Spec

-----------------------------------------------------------------------------
\* The variables of __lock keep their types.
THEOREM TypeCorrect == Spec => []TypeOK
<1>1. IInv => TypeOK
  BY DEF IInv
<1> QED
  BY <1>1, Invariance, PTL

\* LOCK and UNLOCK exclude each other's callers, also while the process goes
\* from one thread to several and back.
THEOREM LockExcludes == Spec => []MutualExclusion
<1>1. IInv => MutualExclusion
  BY DEF IInv, HoldInv
<1> QED
  BY <1>1, Invariance, PTL

\* The congestion count of the lock word is exact, so it never runs into the
\* lock bit.
THEOREM CongestionCounted == Spec => []CountExact
<1>1. IInv => CountExact
  BY DEF IInv
<1> QED
  BY <1>1, Invariance, PTL

\* The two comments "assertion: current >= 0" and "assertion: current > 0" of
\* __lock hold.
THEOREM AssertionsHold == Spec => []SpinAssertion
<1>1. IInv => SpinAssertion
  BY DEF IInv, LocalInv, SpinAssertion
<1> QED
  BY <1>1, Invariance, PTL

\* Whoever sleeps for a free lock has a wake coming or a competitor awake.
THEOREM NoWakeupLost == Spec => []NoLostWakeup
<1>1. IInv => NoLostWakeup
  BY DEF IInv
<1> QED
  BY <1>1, Invariance, PTL

\* __lock and __unlock implement an exclusive lock: every step is an
\* acquisition, a release, or invisible.
THEOREM LockImplementsExclusiveLock == Spec => Refines
<1>1. Init => Abstract!Init
  BY DEF Init, Abstract!Init, Inside
<1>2. IInv /\ IInv' /\ [Next]_vars => [Abstract!Next]_Inside
  <2> SUFFICES ASSUME IInv, IInv', [Next]_vars
               PROVE  Abstract!Next \/ Inside' = Inside
    OBVIOUS
  <2>1. ASSUME NEW t \in Inside, t \notin Inside' PROVE Abstract!Next
    <3>1. Inside = {t}
      BY <2>1 DEF IInv, HoldInv, MutualExclusion, Holders
    <3>2. Unlock(t)
      BY <2>1 DEF IInv, TypeOK, Inside, vars, Next, Step, Create, Exit, Lock,
         FastCas, Reset, SpinCas, Congest, TestHeld, FutexWait, Interrupted,
         HeavyCas, Unlock, Wake, Goto, Enter
    <3>3. Inside' = {}
      BY <3>1, <3>2 DEF IInv, TypeOK, Unlock, Inside, Goto
    <3> QED
      BY <3>1, <3>3 DEF Abstract!Next, Abstract!Release, Inside
  <2>2. ASSUME NEW t \in Inside', t \notin Inside, Inside \subseteq Inside'
        PROVE  Abstract!Next
    <3>1. \A x \in Inside' : x = t
      BY <2>2 DEF IInv, HoldInv, MutualExclusion, Holders
    <3>2. Inside' = {t} /\ Inside = {}
      BY <2>2, <3>1
    <3> QED
      BY <3>2 DEF Abstract!Next, Abstract!Acquire, Inside
  <2> QED
    BY <2>1, <2>2
<1> QED
  BY <1>1, <1>2, Invariance, PTL DEF Spec, Refines, Abstract!Spec

=============================================================================
