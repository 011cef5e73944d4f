--------------------------- MODULE SemaphoreProofs ---------------------------
(***************************************************************************)
(* Proofs about Semaphore, for every set of threads, every SEM_VALUE_MAX   *)
(* and every initial value.                                                *)
(***************************************************************************)
EXTENDS Semaphore, FiniteSetTheorems, TLAPS

\* What a thread has established about its locals by the time it swaps.
LocalInv ==
  \A t \in Threads :
    /\ pc[t] = "try_cas" => vread[t].count # 0
    /\ pc[t] = "post_cas" => vread[t].count # SEM_VALUE_MAX
    /\ pc[t] \in {"inc_waiters", "set_flag", "futex_wait", "asleep",
                  "dec_waiters"} => site[t] = "loop"
    /\ t \in asleep <=> pc[t] = "asleep"

\* The type invariant with the facts about locals that make it inductive.
TInv == TypeOK /\ LocalInv

LEMMA ValTypes ==
  /\ Zero \in Vals
  /\ FlagOnly \in Vals
  /\ \A v \in Vals : v.count \in 0..SEM_VALUE_MAX /\ v.flag \in BOOLEAN
  /\ \A n \in 0..SEM_VALUE_MAX, f \in BOOLEAN :
       [count |-> n, flag |-> f] \in Vals
BY SemAssumption DEF Zero, FlagOnly, Vals

\* What a compare-and-swap stores is a value again.
LEMMA TakenVal ==
  ASSUME NEW v \in Vals, v.count # 0
  PROVE  Lowered(v) \in Vals
<1>1. v.count \in 0..SEM_VALUE_MAX /\ v.flag \in BOOLEAN
  BY ValTypes
<1>2. v.count - 1 \in 0..SEM_VALUE_MAX
  BY <1>1, SemAssumption
<1> QED
  BY <1>1, <1>2, ValTypes DEF Lowered

LEMMA RaisedVal ==
  ASSUME NEW v \in Vals, NEW w \in Int, v.count # SEM_VALUE_MAX
  PROVE  Raised(v, w) \in Vals
<1>1. v.count \in 0..SEM_VALUE_MAX /\ (v.flag /\ w > 1) \in BOOLEAN
  BY ValTypes
<1>2. v.count + 1 \in 0..SEM_VALUE_MAX
  BY <1>1, SemAssumption
<1> QED
  BY <1>1, <1>2, ValTypes DEF Raised

LEMMA InitTInv == Init => TInv
<1> SUFFICES ASSUME Init PROVE TInv
  OBVIOUS
<1>1. val \in Vals
  BY SemAssumption, ValTypes DEF Init, sem_init
<1>2. TypeOK
  BY <1>1, ValTypes DEF Init, sem_init, TypeOK, Sites, Deadlines, Results,
     Locations
<1>3. LocalInv
  BY DEF Init, LocalInv
<1> QED
  BY <1>2, <1>3 DEF TInv

\* Leaving a call keeps the types of the program counter and the locals.
LEMMA LeaveTypes ==
  ASSUME TypeOK, NEW t \in Threads, NEW loc \in Locations, Leave(t, loc)
  PROVE  /\ pc' \in [Threads -> Locations]
         /\ site' \in [Threads -> Sites]
         /\ deadline' \in [Threads -> Deadlines]
         /\ vread' \in [Threads -> Vals]
         /\ wread' \in [Threads -> Int]
         /\ r' \in [Threads -> Results]
<1>1. pc' \in [Threads -> Locations]
  BY DEF TypeOK, Leave, Goto
<1>2. site' \in [Threads -> Sites]
  BY DEF TypeOK, Leave, Sites
<1>3. deadline' \in [Threads -> Deadlines]
  BY DEF TypeOK, Leave, Deadlines
<1>4. vread' \in [Threads -> Vals]
  BY ValTypes DEF TypeOK, Leave
<1>5. wread' \in [Threads -> Int]
  BY DEF TypeOK, Leave
<1>6. r' \in [Threads -> Results]
  BY DEF TypeOK, Leave, Results
<1> QED
  BY <1>1, <1>2, <1>3, <1>4, <1>5, <1>6

LEMMA NextTypeOK == TInv /\ [Next]_vars => TypeOK'
<1> SUFFICES ASSUME TInv, [Next]_vars PROVE TypeOK'
  OBVIOUS
<1>0. TypeOK /\ LocalInv
  BY DEF TInv
<1>a. {"idle", "exited", "try_load", "post_val"} \subseteq Locations
  BY DEF Locations
<1> USE <1>0, <1>a DEF TypeOK, shared, ghosts
<1>1. CASE UNCHANGED vars
  BY <1>1 DEF vars, locals
<1>2. ASSUME NEW t \in Threads, Call(t) PROVE TypeOK'
  <2>1. ASSUME NEW d \in Deadlines, StartWait(t, d) PROVE TypeOK'
    <3>1. CASE t \in cancel
      BY <2>1, <3>1, LeaveTypes DEF StartWait
    <3>2. CASE t \notin cancel
      BY <2>1, <3>2 DEF StartWait, Goto, Sites, Locations
    <3> QED
      BY <3>1, <3>2
  <2>2. CASE sem_trywait(t)
    BY <2>2 DEF sem_trywait, Goto, locals, Locations
  <2>3. CASE sem_post(t)
    BY <2>3 DEF sem_post, Goto, locals, Locations
  <2> QED
    BY <1>2, <2>1, <2>2, <2>3, SemAssumption
    DEF Call, sem_wait, sem_timedwait, sem_clockwait, Deadlines
<1>3. ASSUME NEW t \in Threads, Step(t) PROVE TypeOK'
  <2>1. CASE TryLoad(t)
    <3>1. CASE val.count # 0
      BY <2>1, <3>1 DEF TryLoad, Goto, Locations
    <3>2. CASE val.count = 0 /\ site[t] = "trywait"
      BY <2>1, <3>2, LeaveTypes DEF TryLoad
    <3>3. CASE val.count = 0 /\ site[t] = "entry"
      BY <2>1, <3>3 DEF TryLoad, Sites
    <3>4. CASE val.count = 0 /\ site[t] = "loop"
      BY <2>1, <3>4 DEF TryLoad, Goto, locals, Locations
    <3> QED
      BY <3>1, <3>2, <3>3, <3>4 DEF Sites
  <2>2. CASE TryCas(t)
    <3>1. CASE val = vread[t]
      <4>1. val' \in Vals
        BY <2>2, <3>1, TakenVal DEF TryCas, Unmoved, LocalInv
      <4> QED
        BY <2>2, <3>1, <4>1, LeaveTypes DEF TryCas, Unmoved
    <3>2. CASE val # vread[t]
      BY <2>2, <3>2, ValTypes DEF TryCas, Unmoved, Goto, Locations
    <3> QED
      BY <3>1, <3>2
  <2>3. CASE IncWaiters(t)
    BY <2>3 DEF IncWaiters, Goto, locals, Locations
  <2>4. CASE SetFlag(t)
    BY <2>4, ValTypes DEF SetFlag, Goto, locals, Locations
  <2>5. CASE FutexSleep(t)
    BY <2>5 DEF FutexSleep, Goto, locals, Locations
  <2>6. CASE DecWaiters(t)
    <3>1. CASE r[t] = "ok"
      BY <2>6, <3>1 DEF DecWaiters, cleanup_clockwait, Goto, locals, Locations
    <3>2. CASE r[t] # "ok"
      BY <2>6, <3>2, LeaveTypes DEF DecWaiters, cleanup_clockwait
    <3> QED
      BY <3>1, <3>2
  <2>7. ASSUME NEW res \in Results, TimedwaitReturns(t, res) PROVE TypeOK'
    BY <2>7 DEF TimedwaitReturns, Goto, Locations
  <2>8. CASE PostLoadVal(t)
    BY <2>8 DEF PostLoadVal, Goto, Locations
  <2>9. CASE PostLoadWaiters(t)
    <3>1. CASE vread[t].count = SEM_VALUE_MAX
      BY <2>9, <3>1, LeaveTypes DEF PostLoadWaiters, Full
    <3>2. CASE vread[t].count # SEM_VALUE_MAX
      BY <2>9, <3>2 DEF PostLoadWaiters, Full, Goto, Locations
    <3> QED
      BY <3>1, <3>2
  <2>10. CASE PostCas(t)
    <3>1. CASE val = vread[t]
      <4>1. val' \in Vals
        BY <2>10, <3>1, RaisedVal DEF PostCas, Unmoved, LocalInv
      <4>2. CASE val.flag
        BY <2>10, <3>1, <4>1, <4>2 DEF PostCas, Unmoved, Goto, locals,
           Locations
      <4>3. CASE ~val.flag
        BY <2>10, <3>1, <4>1, <4>3, LeaveTypes DEF PostCas, Unmoved
      <4> QED
        BY <4>2, <4>3
    <3>2. CASE val # vread[t]
      BY <2>10, <3>2, LeaveTypes DEF PostCas, Unmoved
    <3> QED
      BY <3>1, <3>2
  <2>11. CASE PostWake(t)
    BY <2>11, ValTypes DEF PostWake, WakeSets, Locations, Results
  <2> QED
    BY <1>3, <2>1, <2>2, <2>3, <2>4, <2>5, <2>6, <2>7, <2>8, <2>9, <2>10,
       <2>11 DEF Step
<1>4. ASSUME NEW t \in Threads, NEW res \in Results, SleepEnds(t, res)
      PROVE  TypeOK'
  BY <1>4 DEF SleepEnds, Goto, Locations
<1>5. ASSUME NEW t \in Threads, pthread_cancel(t) PROVE TypeOK'
  BY <1>5 DEF pthread_cancel, locals
<1> QED
  BY <1>1, <1>2, <1>3, <1>4, <1>5 DEF Next

LEMMA NextLocalInv == TInv /\ [Next]_vars => LocalInv'
<1> SUFFICES ASSUME TInv, [Next]_vars PROVE LocalInv'
  OBVIOUS
<1> USE DEF TInv, TypeOK, LocalInv, Goto, Leave, shared, locals, ghosts
<1>1. CASE UNCHANGED vars
  BY <1>1 DEF vars
<1>2. ASSUME NEW t \in Threads, Call(t) PROVE LocalInv'
  <2>1. ASSUME NEW d \in Deadlines, StartWait(t, d) PROVE LocalInv'
    BY <2>1 DEF StartWait
  <2>2. CASE sem_trywait(t)
    BY <2>2 DEF sem_trywait
  <2>3. CASE sem_post(t)
    BY <2>3 DEF sem_post
  <2> QED
    BY <1>2, <2>1, <2>2, <2>3, SemAssumption
    DEF Call, sem_wait, sem_timedwait, sem_clockwait, Deadlines
<1>3. ASSUME NEW t \in Threads, Step(t) PROVE LocalInv'
  <2>1. CASE TryLoad(t)
    BY <2>1 DEF TryLoad
  <2>2. CASE TryCas(t)
    BY <2>2 DEF TryCas, Unmoved
  <2>3. CASE IncWaiters(t)
    BY <2>3 DEF IncWaiters
  <2>4. CASE SetFlag(t)
    BY <2>4 DEF SetFlag
  <2>5. CASE FutexSleep(t)
    BY <2>5 DEF FutexSleep
  <2>6. CASE DecWaiters(t)
    BY <2>6 DEF DecWaiters, cleanup_clockwait
  <2>7. ASSUME NEW res \in Results, TimedwaitReturns(t, res) PROVE LocalInv'
    BY <2>7 DEF TimedwaitReturns
  <2>8. CASE PostLoadVal(t)
    BY <2>8 DEF PostLoadVal
  <2>9. CASE PostLoadWaiters(t)
    BY <2>9 DEF PostLoadWaiters, Full
  <2>10. CASE PostCas(t)
    BY <2>10 DEF PostCas, Unmoved
  <2>11. CASE PostWake(t)
    BY <2>11 DEF PostWake, WakeSets
  <2> QED
    BY <1>3, <2>1, <2>2, <2>3, <2>4, <2>5, <2>6, <2>7, <2>8, <2>9, <2>10,
       <2>11 DEF Step
<1>4. ASSUME NEW t \in Threads, NEW res \in Results, SleepEnds(t, res)
      PROVE  LocalInv'
  BY <1>4 DEF SleepEnds
<1>5. ASSUME NEW t \in Threads, pthread_cancel(t) PROVE LocalInv'
  BY <1>5 DEF pthread_cancel
<1> QED
  BY <1>1, <1>2, <1>3, <1>4, <1>5 DEF Next

LEMMA NextTInv == TInv /\ [Next]_vars => TInv'
BY NextTypeOK, NextLocalInv DEF TInv

\* Every variable keeps its type: in particular the count of __val[0] stays
\* between 0 and SEM_VALUE_MAX, so it never runs into the flag bit.
THEOREM TypeCorrect == Spec => []TypeOK
<1>1. TInv => TypeOK
  BY DEF TInv
<1> QED
  BY InitTInv, NextTInv, <1>1, PTL DEF Spec
-----------------------------------------------------------------------------
(***************************************************************************)
(* Conservation of tokens.                                                 *)
(***************************************************************************)
LEMMA NextConservation == TInv /\ Conservation /\ [Next]_vars => Conservation'
<1> SUFFICES ASSUME TInv, Conservation, [Next]_vars PROVE Conservation'
  OBVIOUS
<1>0. val.count \in Int /\ posted \in Int /\ taken \in Int
  BY ValTypes DEF TInv, TypeOK
<1>a. CASE UNCHANGED <<val, ghosts>>
  BY <1>a DEF Conservation, ghosts
<1>1. ASSUME NEW t \in Threads, TryCas(t) PROVE Conservation'
  BY <1>0, <1>1, <1>a, SemAssumption DEF TryCas, Unmoved, Lowered,
     Conservation, ghosts
<1>2. ASSUME NEW t \in Threads, PostCas(t) PROVE Conservation'
  BY <1>0, <1>2, <1>a, SemAssumption DEF PostCas, Unmoved, Raised,
     Conservation, ghosts
<1>3. ASSUME NEW t \in Threads, SetFlag(t) PROVE Conservation'
  BY <1>0, <1>3 DEF SetFlag, Zero, FlagOnly, Conservation, ghosts
<1>4. ASSUME NEW t \in Threads,
             \/ Call(t) \/ pthread_cancel(t)
             \/ \E res \in Results : SleepEnds(t, res)
             \/ TryLoad(t) \/ IncWaiters(t) \/ FutexSleep(t) \/ DecWaiters(t)
             \/ \E res \in Results : TimedwaitReturns(t, res)
             \/ PostLoadVal(t) \/ PostLoadWaiters(t) \/ PostWake(t)
      PROVE  UNCHANGED <<val, ghosts>>
  BY <1>4 DEF Call, sem_wait, sem_timedwait, sem_clockwait, StartWait,
     sem_trywait, sem_post, pthread_cancel, SleepEnds, TryLoad, IncWaiters,
     FutexSleep, DecWaiters, cleanup_clockwait, TimedwaitReturns, PostLoadVal,
     PostLoadWaiters, Full, PostWake, shared
<1>5. CASE UNCHANGED vars
  BY <1>5, <1>a DEF vars, shared
<1> QED
  BY <1>a, <1>1, <1>2, <1>3, <1>4, <1>5 DEF Next, Step

\* However the loads and swaps of sem_post and sem_trywait interleave, no
\* token is lost and none is taken twice.
THEOREM TokensConserved == Spec => []Conservation
<1>1. Init => Conservation
  BY SemAssumption DEF Init, sem_init, Conservation
<1> QED
  BY InitTInv, NextTInv, NextConservation, <1>1, PTL DEF Spec

-----------------------------------------------------------------------------
(***************************************************************************)
(* The waiter count.                                                       *)
(***************************************************************************)
LEMMA NextWaitersExact == TInv /\ WaitersExact /\ [Next]_vars => WaitersExact'
<1> SUFFICES ASSUME TInv, WaitersExact, [Next]_vars PROVE WaitersExact'
  OBVIOUS
<1>0. IsFiniteSet(Announced)
  BY SemAssumption, FS_Subset DEF Announced
<1>a. CASE UNCHANGED waiters /\ Announced' = Announced
  BY <1>a DEF WaitersExact
<1>1. CASE UNCHANGED vars
  BY <1>1, <1>a DEF vars, shared, Announced
<1>2. ASSUME NEW t \in Threads, Call(t) PROVE WaitersExact'
  <2>1. \/ \E d \in Deadlines : StartWait(t, d)
        \/ sem_trywait(t)
        \/ sem_post(t)
    BY <1>2, SemAssumption DEF Call, sem_wait, sem_timedwait, sem_clockwait,
       Deadlines
  <2>2. UNCHANGED waiters /\ Announced' = Announced
    BY <2>1 DEF StartWait, sem_trywait, sem_post, Leave, Goto, shared,
       Announced, TInv, TypeOK
  <2> QED
    BY <1>a, <2>2
<1>3. ASSUME NEW t \in Threads, IncWaiters(t) PROVE WaitersExact'
  <2>1. Announced' = Announced \cup {t} /\ t \notin Announced
    BY <1>3 DEF IncWaiters, Goto, Announced, TInv, TypeOK
  <2>2. Cardinality(Announced') = Cardinality(Announced) + 1
    BY <1>0, <2>1, FS_AddElement
  <2> QED
    BY <1>3, <2>2 DEF IncWaiters, WaitersExact
<1>4. ASSUME NEW t \in Threads, DecWaiters(t) PROVE WaitersExact'
  <2>1. Announced' = Announced \ {t} /\ t \in Announced
    BY <1>4 DEF DecWaiters, cleanup_clockwait, Leave, Goto, Announced, TInv,
       TypeOK
  <2>2. Cardinality(Announced') = Cardinality(Announced) - 1
    BY <1>0, <2>1, FS_RemoveElement
  <2> QED
    BY <1>4, <2>2 DEF DecWaiters, cleanup_clockwait, WaitersExact
<1>5. ASSUME NEW t \in Threads,
             \/ TryLoad(t) \/ TryCas(t) \/ SetFlag(t) \/ FutexSleep(t)
             \/ \E res \in Results : TimedwaitReturns(t, res)
             \/ \E res \in Results : SleepEnds(t, res)
             \/ PostLoadVal(t) \/ PostLoadWaiters(t) \/ PostCas(t)
             \/ pthread_cancel(t)
      PROVE  UNCHANGED waiters /\ Announced' = Announced
  BY <1>5 DEF TryLoad, TryCas, SetFlag, FutexSleep, TimedwaitReturns,
     SleepEnds, PostLoadVal, PostLoadWaiters, Full, PostCas, Unmoved,
     pthread_cancel, Leave, Goto, shared, Announced, TInv, TypeOK
<1>6. ASSUME NEW t \in Threads, PostWake(t)
      PROVE  UNCHANGED waiters /\ Announced' = Announced
  <2>1. PICK W \in SUBSET asleep :
          pc' = [u \in Threads |-> IF u \in W THEN "dec_waiters"
                                   ELSE IF u = t THEN "idle" ELSE pc[u]]
    BY <1>6 DEF PostWake, WakeSets
  <2> QED
    BY <1>6, <2>1 DEF PostWake, Announced, TInv, TypeOK, LocalInv
<1> QED
  BY <1>a, <1>1, <1>2, <1>3, <1>4, <1>5, <1>6 DEF Next, Step

\* __val[1] counts the waiters exactly, whatever mix of wakeups, timeouts,
\* interruptions and cancellations ends their sleeps.
THEOREM WaitersCounted == Spec => []WaitersExact
<1>1. Init => WaitersExact
  <2> SUFFICES ASSUME Init PROVE WaitersExact
    OBVIOUS
  <2>1. Announced = {}
    BY DEF Init, Announced
  <2> QED
    BY <2>1, FS_EmptySet DEF Init, sem_init, WaitersExact
<1> QED
  BY InitTInv, NextTInv, NextWaitersExact, <1>1, PTL DEF Spec
-----------------------------------------------------------------------------
(***************************************************************************)
(* No lost wakeup.  Helpers are the threads that will still act on a token *)
(* left on the semaphore.                                                  *)
(***************************************************************************)
Helpers == Waking \cup Retrying

LEMMA HelpersFinite ==
  /\ IsFiniteSet(Helpers)
  /\ Cardinality(Helpers) \in Nat
<1>1. Helpers \subseteq Threads
  BY DEF Helpers, Waking, Retrying
<1> QED
  BY <1>1, SemAssumption, FS_Subset, FS_CardinalityType

\* A step that puts nobody to sleep, takes no helper away and leaves the value
\* alone keeps TokensCovered.
LEMMA HelpersMonotone ==
  ASSUME TInv, TokensCovered,
         asleep' \subseteq asleep,
         WakingAll \subseteq WakingAll',
         Helpers \subseteq Helpers',
         val'.flag = val.flag,
         val'.count \in Nat,
         val'.count <= val.count
  PROVE  TokensCovered'
<1>1. /\ IsFiniteSet(Helpers')
      /\ Cardinality(Helpers') \in Nat
  <2>1. Helpers' \subseteq Threads
    BY DEF Helpers, Waking, Retrying
  <2> QED
    BY <2>1, SemAssumption, FS_Subset, FS_CardinalityType
<1>2. Cardinality(Helpers) <= Cardinality(Helpers')
  BY <1>1, FS_Subset
<1>3. val.count \in Nat
  BY ValTypes DEF TInv, TypeOK
<1> QED
  BY <1>1, <1>2, <1>3, HelpersFinite DEF TokensCovered, Helpers

LEMMA NextTokensCovered ==
  TInv /\ TInv' /\ TokensCovered /\ [Next]_vars => TokensCovered'
<1> SUFFICES ASSUME TInv, TInv', TokensCovered, [Next]_vars
             PROVE  TokensCovered'
  OBVIOUS
<1>0. val.count \in Nat /\ val'.count \in Nat
  BY ValTypes DEF TInv, TypeOK
<1>a. ASSUME asleep' \subseteq asleep, WakingAll \subseteq WakingAll',
             Helpers \subseteq Helpers', UNCHANGED val
      PROVE  TokensCovered'
  BY <1>0, <1>a, HelpersMonotone
<1>b. Cardinality((Waking \cup Retrying)') \in Nat
  BY SemAssumption, FS_Subset, FS_CardinalityType DEF Waking, Retrying
<1>1. CASE UNCHANGED vars
  BY <1>1 DEF vars, shared, locals, TokensCovered, WakingAll, Waking, Retrying
<1>2. ASSUME NEW t \in Threads, Call(t) PROVE TokensCovered'
  <2>1. \/ \E d \in Deadlines : StartWait(t, d)
        \/ sem_trywait(t)
        \/ sem_post(t)
    BY <1>2, SemAssumption DEF Call, sem_wait, sem_timedwait, sem_clockwait,
       Deadlines
  <2>2. asleep' = asleep /\ UNCHANGED val
    BY <2>1 DEF StartWait, sem_trywait, sem_post, shared
  <2>3. WakingAll \subseteq WakingAll'
    BY <2>1 DEF StartWait, sem_trywait, sem_post, Leave, Goto, locals,
       WakingAll, Waking, TInv, TypeOK
  <2>4. Helpers \subseteq Helpers'
    BY <2>1 DEF StartWait, sem_trywait, sem_post, Leave, Goto, locals,
       Helpers, Waking, Retrying, TInv, TypeOK
  <2> QED
    BY <1>a, <2>2, <2>3, <2>4
<1>3. ASSUME NEW t \in Threads, TryLoad(t) PROVE TokensCovered'
  <2>1. CASE val.count = 0 /\ site[t] = "loop"
    <3>1. UNCHANGED <<val, asleep>> /\ WakingAll' = WakingAll
      BY <1>3, <2>1 DEF TryLoad, shared, Goto, locals, WakingAll, Waking, TInv,
         TypeOK
    <3> QED
      BY <2>1, <3>1, <1>b DEF TokensCovered
  <2>2. CASE ~(val.count = 0 /\ site[t] = "loop")
    <3>1. UNCHANGED <<val, asleep>> /\ WakingAll \subseteq WakingAll'
      BY <1>3, <2>2 DEF TryLoad, shared, Goto, Leave, WakingAll, Waking, TInv,
         TypeOK
    <3>2. Helpers \subseteq Helpers'
      BY <1>3, <2>2 DEF TryLoad, shared, Goto, Leave, Helpers, Waking,
         Retrying, TInv, TypeOK
    <3> QED
      BY <1>a, <3>1, <3>2
  <2> QED
    BY <2>1, <2>2
<1>4. ASSUME NEW t \in Threads, TryCas(t) PROVE TokensCovered'
  <2>1. UNCHANGED asleep /\ WakingAll' = WakingAll
    BY <1>4 DEF TryCas, Unmoved, Goto, Leave, WakingAll, Waking, TInv, TypeOK
  <2>2. CASE val # vread[t]
    <3>1. Helpers \subseteq Helpers' /\ UNCHANGED val
      BY <1>4, <2>2 DEF TryCas, Unmoved, Goto, Helpers, Waking, Retrying, TInv,
         TypeOK
    <3> QED
      BY <1>a, <2>1, <3>1
  <2>3. CASE val = vread[t] /\ t \notin Helpers
    <3>1. Helpers \subseteq Helpers'
      BY <1>4, <2>3 DEF TryCas, Unmoved, Goto, Leave, Helpers, Waking,
         Retrying, TInv, TypeOK
    <3>2. val'.flag = val.flag /\ val'.count = val.count - 1
      BY <1>4, <2>3 DEF TryCas, Unmoved, Lowered
    <3> QED
      BY <1>0, <2>1, <3>1, <3>2, HelpersMonotone
  <2>4. CASE val = vread[t] /\ t \in Helpers
    <3>1. Helpers' = Helpers \ {t}
      BY <1>4, <2>4 DEF TryCas, Unmoved, Goto, Leave, Helpers, Waking,
         Retrying, TInv, TypeOK
    <3>2. val'.flag = val.flag /\ val'.count = val.count - 1
      BY <1>4, <2>4 DEF TryCas, Unmoved, Lowered
    <3>3. Cardinality(Helpers') = Cardinality(Helpers) - 1
      BY <2>4, <3>1, HelpersFinite, FS_RemoveElement
    <3> QED
      BY <1>0, <2>1, <3>2, <3>3, HelpersFinite DEF TokensCovered, Helpers
  <2> QED
    BY <2>2, <2>3, <2>4
<1>5. ASSUME NEW t \in Threads, SetFlag(t) PROVE TokensCovered'
  <2>1. /\ UNCHANGED asleep
        /\ WakingAll' = WakingAll
        /\ Helpers \subseteq Helpers'
    BY <1>5 DEF SetFlag, Goto, locals, WakingAll, Helpers, Waking, Retrying,
       TInv, TypeOK
  <2>2. CASE val = Zero
    BY <2>1, <2>2 DEF TokensCovered, Zero
  <2>3. CASE val # Zero
    BY <1>5, <1>a, <2>1, <2>3 DEF SetFlag
  <2> QED
    BY <2>2, <2>3
<1>6. ASSUME NEW t \in Threads, FutexSleep(t) PROVE TokensCovered'
  <2>1. val'.flag /\ val'.count = 0
    BY <1>6 DEF FutexSleep, FlagOnly
  <2> QED
    BY <1>b, <2>1 DEF TokensCovered
<1>7. ASSUME NEW t \in Threads,
             \/ IncWaiters(t) \/ DecWaiters(t)
             \/ \E res \in Results : TimedwaitReturns(t, res)
             \/ \E res \in Results : SleepEnds(t, res)
             \/ PostLoadVal(t) \/ PostLoadWaiters(t) \/ pthread_cancel(t)
      PROVE  TokensCovered'
  <2>1. asleep' \subseteq asleep /\ UNCHANGED val
    BY <1>7 DEF IncWaiters, DecWaiters, cleanup_clockwait, TimedwaitReturns,
       SleepEnds, PostLoadVal, PostLoadWaiters, Full, pthread_cancel, shared
  <2>2. WakingAll \subseteq WakingAll'
    BY <1>7 DEF IncWaiters, DecWaiters, cleanup_clockwait, TimedwaitReturns,
       SleepEnds, PostLoadVal, PostLoadWaiters, Full, pthread_cancel, Leave,
       Goto, locals, WakingAll, Waking, TInv, TypeOK
  <2>3. Helpers \subseteq Helpers'
    BY <1>7 DEF IncWaiters, DecWaiters, cleanup_clockwait, TimedwaitReturns,
       SleepEnds, PostLoadVal, PostLoadWaiters, Full, pthread_cancel, Leave,
       Goto, locals, Helpers, Waking, Retrying, TInv, TypeOK, LocalInv
  <2> QED
    BY <1>a, <2>1, <2>2, <2>3
<1>8. ASSUME NEW t \in Threads, PostCas(t) PROVE TokensCovered'
  <2>1. UNCHANGED asleep
    BY <1>8 DEF PostCas, Unmoved
  <2>2. CASE val # vread[t]
    <3>1. /\ WakingAll \subseteq WakingAll'
          /\ Helpers \subseteq Helpers'
          /\ UNCHANGED val
      BY <1>8, <2>2 DEF PostCas, Unmoved, Goto, Leave, WakingAll, Helpers,
         Waking, Retrying, TInv, TypeOK
    <3> QED
      BY <1>a, <2>1, <3>1
  <2>3. CASE val = vread[t] /\ ~val.flag
    <3>1. WakingAll' = WakingAll
      BY <1>8, <2>3 DEF PostCas, Unmoved, Goto, Leave, WakingAll, Waking, TInv,
         TypeOK
    <3> QED
      BY <2>1, <2>3, <3>1 DEF TokensCovered
  <2>4. CASE val = vread[t] /\ val.flag /\ wread[t] <= 1
    <3>1. t \in WakingAll'
      BY <1>8, <2>4 DEF PostCas, Unmoved, Goto, locals, WakingAll, Waking,
         TInv, TypeOK
    <3> QED
      BY <3>1 DEF TokensCovered
  <2>5. CASE val = vread[t] /\ val.flag /\ wread[t] > 1
    <3>1. WakingAll' = WakingAll
      BY <1>8, <2>5 DEF PostCas, Unmoved, Goto, locals, WakingAll, Waking,
         TInv, TypeOK
    <3>2. Helpers' = Helpers \cup {t} /\ t \notin Helpers
      BY <1>8, <2>5 DEF PostCas, Unmoved, Goto, locals, Helpers, Waking,
         Retrying, TInv, TypeOK
    <3>3. Cardinality(Helpers') = Cardinality(Helpers) + 1
      BY <3>2, HelpersFinite, FS_AddElement
    <3>4. val' = [count |-> val.count + 1, flag |-> val.flag /\ wread[t] > 1]
      BY <1>8, <2>5 DEF PostCas, Unmoved, Raised
    <3>5. val'.flag
      BY <2>5, <3>4, Zenon
    <3>6. val'.count = val.count + 1
      BY <3>4
    <3> QED
      BY <1>0, <2>1, <3>1, <3>3, <3>5, <3>6, HelpersFinite
      DEF TokensCovered, Helpers
  <2> QED
    BY <2>2, <2>3, <2>4, <2>5 DEF TInv, TypeOK
<1>9. ASSUME NEW t \in Threads, PostWake(t) PROVE TokensCovered'
  <2>1. CASE ~(wread[t] > 1 /\ asleep # {})
    <3>1. asleep' = {}
      BY <1>9, <2>1 DEF PostWake, WakeSets
    <3> QED
      BY <3>1 DEF TokensCovered
  <2>2. CASE wread[t] > 1 /\ asleep # {}
    <3>1. PICK u \in asleep :
            /\ asleep' = asleep \ {u}
            /\ pc' = [v \in Threads |-> IF v \in {u} THEN "dec_waiters"
                                        ELSE IF v = t THEN "idle" ELSE pc[v]]
            /\ r' = [v \in Threads |-> IF v \in {u} THEN "ok" ELSE r[v]]
      BY <1>9, <2>2 DEF PostWake, WakeSets
    <3>2. u \in Threads /\ u # t /\ pc[u] = "asleep" /\ pc[t] = "post_wake"
      BY <1>9 DEF PostWake, TInv, TypeOK, LocalInv
    <3>3. WakingAll' = WakingAll
      BY <1>9, <2>2, <3>1, <3>2 DEF PostWake, WakingAll, Waking, TInv, TypeOK
    <3>4. Helpers' = (Helpers \ {t}) \cup {u}
      BY <1>9, <3>1, <3>2 DEF PostWake, Helpers, Waking, Retrying, TInv, TypeOK
    <3>5. t \in Helpers /\ u \notin Helpers
      BY <3>2 DEF Helpers, Waking, Retrying
    <3>6. /\ IsFiniteSet(Helpers \ {t})
          /\ Cardinality(Helpers \ {t}) = Cardinality(Helpers) - 1
      BY <3>5, HelpersFinite, FS_RemoveElement
    <3>7. Cardinality(Helpers') = Cardinality(Helpers)
      <4>1. u \notin Helpers \ {t}
        BY <3>5
      <4>2. Cardinality((Helpers \ {t}) \cup {u})
              = Cardinality(Helpers \ {t}) + 1
        BY <3>6, <4>1, FS_AddElement
      <4> QED
        BY <3>4, <3>6, <4>2, HelpersFinite
    <3> QED
      BY <1>9, <2>2, <3>3, <3>7 DEF PostWake, TokensCovered, Helpers
  <2> QED
    BY <2>1, <2>2
<1> QED
  BY <1>1, <1>2, <1>3, <1>4, <1>5, <1>6, <1>7, <1>8, <1>9 DEF Next, Step

\* The counting invariant holds in every state.
THEOREM TokensAreCovered == Spec => []TokensCovered
<1>1. Init => TokensCovered
  BY DEF Init, TokensCovered
<1> QED
  BY InitTInv, NextTInv, NextTokensCovered, <1>1, PTL DEF Spec

\* The design argument of sem_post (clear the flag only when at most one
\* waiter was seen, wake one or all accordingly) never leaves a sleeper on a
\* semaphore whose tokens nobody awake is going to notice.
THEOREM NoWakeupIsLost == Spec => []NoLostWakeup
<1>1. TInv /\ TokensCovered => NoLostWakeup
  <2> SUFFICES ASSUME TInv, TokensCovered, val.count > 0, asleep # {},
                      Helpers = {}
               PROVE  FALSE
    BY DEF NoLostWakeup, Helpers
  <2>1. WakingAll = {}
    BY DEF Helpers, WakingAll
  <2>2. val.count <= 0
    BY <2>1, FS_EmptySet DEF TokensCovered, Helpers
  <2> QED
    BY <2>2, ValTypes DEF TInv, TypeOK
<1> QED
  BY InitTInv, NextTInv, TokensAreCovered, <1>1, PTL DEF Spec

\* Only sem_post lowers the flag, and it adds a token in the same swap.
THEOREM FlagOnlyLoweredByPost == Spec => FlagLoweredByPost
<1>1. TInv /\ [Next]_vars =>
        [val.flag /\ ~val'.flag => val'.count = val.count + 1]_vars
  <2> SUFFICES ASSUME TInv, Next, val.flag, ~val'.flag
               PROVE  val'.count = val.count + 1
    OBVIOUS
  <2>1. PICK t \in Threads : TryCas(t) \/ SetFlag(t) \/ PostCas(t)
    BY DEF Next, Call, sem_wait, sem_timedwait, sem_clockwait, StartWait,
       sem_trywait, sem_post, pthread_cancel, SleepEnds, Step, TryLoad,
       IncWaiters, FutexSleep, DecWaiters, cleanup_clockwait, TimedwaitReturns,
       PostLoadVal, PostLoadWaiters, Full, PostWake, shared
  <2> QED
    BY <2>1 DEF TryCas, Unmoved, Lowered, SetFlag, PostCas, Raised, FlagOnly
<1> QED
  BY InitTInv, NextTInv, <1>1, PTL DEF Spec, FlagLoweredByPost
=============================================================================
