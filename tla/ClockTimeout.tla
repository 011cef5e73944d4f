----------------------------- MODULE ClockTimeout -----------------------------
(***************************************************************************)
(* Deadlines on an arbitrary clock: how pthread_clockjoin_np turns one     *)
(* into sleeps between polls, and how pthread_cond_clockwait turns one     *)
(* into a deadline on CLOCK_REALTIME.  The caller's clock is CLOCK_MONO-   *)
(* TONIC; CLOCK_REALTIME runs off units ahead of it and may be set.        *)
(***************************************************************************)
EXTENDS Integers

CONSTANTS NSEC,       \* nanoseconds in a second
          LLONG_MAX,  \* largest long long
          POLL,       \* poll_interval, in nanoseconds
          Ops,        \* subset of {"join", "wait"}
          MaxSec,     \* bound on the seconds of a deadline
          MaxTime,    \* bound on the clock
          Offsets     \* what CLOCK_REALTIME may be ahead by

ASSUME ClockAssumption ==
  /\ NSEC \in Nat \ {0} /\ LLONG_MAX \in Nat /\ POLL \in 1..NSEC - 1
  /\ Ops \subseteq {"join", "wait"}
  /\ MaxSec \in Nat /\ MaxTime \in Nat /\ Offsets \subseteq Nat

VARIABLES now,       \* CLOCK_MONOTONIC, in nanoseconds
          off,       \* CLOCK_REALTIME - CLOCK_MONOTONIC
          condclock, \* _c_clock
          over,      \* the thread has terminated, or the condition is signalled
          pc, op, abstime,
          cur,       \* current_time_custom_clock
          until,     \* when the sleep, or the wait, ends on its clock
          drift,     \* nanoseconds between the two readings of the clocks
          set,       \* CLOCK_REALTIME was set since the wait began
          result

env  == <<now, off, condclock, over>>
vars == <<env, pc, op, abstime, cur, until, drift, set, result>>

TimeSpec(ns) == [tv_sec |-> ns \div NSEC, tv_nsec |-> ns % NSEC]
Nanos(ts)    == ts.tv_sec * NSEC + ts.tv_nsec

\* What a long long holds after an overflow that wraps.
Wrap(x) == ((x + LLONG_MAX + 1) % (2 * (LLONG_MAX + 1))) - (LLONG_MAX + 1)

timespec_compare(a, b) ==
  IF a.tv_sec # b.tv_sec THEN (IF a.tv_sec < b.tv_sec THEN -1 ELSE 1)
  ELSE IF a.tv_nsec # b.tv_nsec THEN (IF a.tv_nsec < b.tv_nsec THEN -1 ELSE 1)
  ELSE 0

\* remaining_ns and delta_ns
Remaining_Later(ts, c) == Wrap((ts.tv_sec - c.tv_sec) * NSEC + ts.tv_nsec)
Remaining(ts, c) == Wrap(Wrap((ts.tv_sec - c.tv_sec) * NSEC) + (ts.tv_nsec - c.tv_nsec))

Init == /\ now = 0
        /\ off \in Offsets
        /\ condclock \in {"realtime", "monotonic"}
        /\ over = FALSE
        /\ pc = "idle" /\ op = "none"
        /\ abstime = TimeSpec(0) /\ cur = TimeSpec(0)
        /\ until = 0 /\ drift = 0 /\ set = FALSE
        /\ result = "none"

\* Time passes, the clock is set, the thread ends or the condition is signalled.
Tick(n) == /\ now + n <= MaxTime
           /\ now' = now + n
           /\ drift' = IF pc = "remaining" /\ op = "wait" THEN drift + n ELSE drift
           /\ UNCHANGED <<off, condclock, over, pc, op, abstime, cur, until, set, result>>

SetRealtime(o) == /\ off' = o
                  /\ set' = (pc = "waiting" \/ set)
                  /\ UNCHANGED <<now, condclock, over, pc, op, abstime, cur, until, drift, result>>

Over == /\ ~over
        /\ over' = TRUE
        /\ UNCHANGED <<now, off, condclock, pc, op, abstime, cur, until, drift, set, result>>

Return(r) == /\ pc' = "done"
             /\ result' = r
             /\ cur' = TimeSpec(0) /\ until' = 0 /\ drift' = 0 /\ set' = FALSE

\* The deadline is checked for a valid tv_nsec.
Rejects(ts) == ts.tv_nsec < 0 \/ ts.tv_nsec >= NSEC

Call(o, ts) ==
  /\ pc = "idle"
  /\ op' = o
  /\ abstime' = ts
  /\ IF Rejects(ts)
     THEN Return("EINVAL")
     ELSE pc' = "check" /\ UNCHANGED <<cur, until, drift, set, result>>
  /\ UNCHANGED env

\* pthread_tryjoin_np, also as the last attempt when the time is up.
JoinDone == /\ op = "join" /\ pc = "check" /\ over
            /\ Return("ok")
            /\ UNCHANGED <<env, op, abstime>>

\* clock_gettime, and the comparison with the deadline.
IsDue_Seconds(c) == c.tv_sec >= abstime.tv_sec
IsDue(c) == timespec_compare(c, abstime) >= 0

Check == /\ pc = "check"
         /\ op = "join" => ~over
         /\ IF IsDue(TimeSpec(now))
            THEN Return("ETIMEDOUT")
            ELSE /\ cur' = TimeSpec(now)
                 /\ pc' = "remaining"
                 /\ UNCHANGED <<until, drift, set, result>>
         /\ UNCHANGED <<env, op, abstime>>

\* The safeguard: nothing remains although the deadline is ahead.
Safeguard == /\ pc = "remaining"
             /\ Remaining(abstime, cur) <= 0
             /\ Return(IF op = "join" /\ over THEN "ok" ELSE "ETIMEDOUT")
             /\ UNCHANGED <<env, op, abstime>>

\* How long to sleep before the next poll.
SleepTime_Poll(r) == POLL
SleepTime(r) == IF r < POLL THEN r ELSE POLL

JoinSleep == /\ pc = "remaining" /\ op = "join"
             /\ Remaining(abstime, cur) > 0
             /\ until' = now + SleepTime(Remaining(abstime, cur))
             /\ pc' = "asleep"
             /\ cur' = TimeSpec(0)
             /\ UNCHANGED <<env, op, abstime, drift, set, result>>

\* The sleep is over, or EINTR.
JoinWake == /\ pc = "asleep"
            /\ until' = 0
            /\ pc' = "check"
            /\ UNCHANGED <<env, op, abstime, cur, drift, set, result>>

Carry(ts) ==
  IF ts.tv_nsec >= NSEC THEN [tv_sec |-> ts.tv_sec + 1, tv_nsec |-> ts.tv_nsec - NSEC]
  ELSE IF ts.tv_nsec < 0 THEN [tv_sec |-> ts.tv_sec - 1, tv_nsec |-> ts.tv_nsec + NSEC]
  ELSE ts

\* timeout_realtime: CLOCK_REALTIME is read after the other clock.
RealDeadline(real, delta) ==
  Carry([tv_sec |-> real.tv_sec + (delta \div NSEC), tv_nsec |-> real.tv_nsec + (delta % NSEC)])

WaitBegin ==
  /\ pc = "remaining" /\ op = "wait"
  /\ Remaining(abstime, cur) > 0
  /\ LET timeout == RealDeadline(TimeSpec(now + off), Remaining(abstime, cur)) IN
     IF Rejects(timeout)
     THEN Return("EINVAL")
     ELSE /\ until' = Nanos(timeout)
          /\ pc' = "waiting"
          /\ cur' = TimeSpec(0)
          /\ UNCHANGED <<drift, set, result>>
  /\ UNCHANGED <<env, op, abstime>>

CondClock == IF condclock = "realtime" THEN now + off ELSE now

\* pthread_cond_timedwait returns 0, or ETIMEDOUT and the loop checks again.
WaitSignaled == /\ pc = "waiting" /\ over
                /\ Return("ok")
                /\ UNCHANGED <<env, op, abstime>>

WaitTimesOut == /\ pc = "waiting" /\ CondClock >= until
                /\ pc' = "check"
                /\ until' = 0 /\ drift' = 0 /\ set' = FALSE
                /\ UNCHANGED <<env, op, abstime, cur, result>>

Step == \/ JoinDone \/ Check \/ Safeguard \/ JoinSleep \/ JoinWake
        \/ WaitBegin \/ WaitSignaled \/ WaitTimesOut

Deadlines == [tv_sec : 0..MaxSec, tv_nsec : -1..NSEC]

Next == \/ Step
        \/ \E n \in 1..2 : Tick(n)
        \/ \E o \in Offsets : SetRealtime(o)
        \/ Over
        \/ \E o \in Ops, ts \in Deadlines : Call(o, ts)

Spec == Init /\ [][Next]_vars

-----------------------------------------------------------------------------
Valid(ts) == ts.tv_nsec >= 0 /\ ts.tv_nsec < NSEC

TypeOK == /\ now \in 0..MaxTime /\ off \in Offsets /\ condclock \in {"realtime", "monotonic"}
          /\ over \in BOOLEAN
          /\ pc \in {"idle", "check", "remaining", "asleep", "waiting", "done"}
          /\ op \in Ops \cup {"none"}
          /\ abstime \in Deadlines /\ (result # "EINVAL" => Valid(abstime))
          /\ Valid(cur) /\ cur.tv_sec \in Nat
          /\ until \in Nat /\ drift \in 0..MaxTime /\ set \in BOOLEAN
          /\ result \in {"none", "ok", "ETIMEDOUT", "EINVAL"}

\* The distance to the deadline, in nanoseconds, is a long long.
Countable == Nanos(abstime) <= LLONG_MAX

\* ETIMEDOUT means that the deadline has passed on the caller's clock, however
\* CLOCK_REALTIME is set meanwhile, if a long long counts the way to it; and
\* EINVAL is for deadlines that are not valid, not for what they convert to.
ResultRight == /\ result = "ETIMEDOUT" /\ Countable => now >= Nanos(abstime)
               /\ result = "EINVAL" => ~Valid(abstime)

\* "ETIMEDOUT if the timeout expired", whatever the deadline.
NoEarlyTimeout == result = "ETIMEDOUT" => now >= Nanos(abstime)

\* A poll ends by the deadline, but for the time between the reading of the
\* clock and the sleep, also when the distance overflowed.
SleepEndsByDeadline ==
  [][pc = "remaining" /\ pc' = "asleep" =>
       until' - now' <= Nanos(abstime) - Nanos(cur)]_vars

\* A wait ends by the deadline on the caller's clock, but for the time between
\* the readings of the two clocks: if CLOCK_REALTIME is the clock of the
\* condition variable, and nobody sets it.
WaitEndsByDeadline ==
  pc = "waiting" /\ now >= Nanos(abstime) + drift /\ ~set /\ condclock = "realtime" =>
    CondClock >= until
=============================================================================
