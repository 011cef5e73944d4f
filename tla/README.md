# Verification of gcompat-musl

gcompat-musl lets programs that were linked against glibc run on musl: the
shims in `libgcompat/` are compiled into a patched musl 1.2.5, and the result is
one shared object that is the dynamic linker, the C library and the
compatibility layer at once.  This directory holds TLA+ models of its
concurrent core and of the parts of `libgcompat` that keep state, the TLC runs
that check them on small instances, and proofs that TLAPS checks for all
instances.

Paths below are relative to `src/`; `thread/` stands for
`musl-1.2.5/src/thread/`.

## The system

| part | where | state | model |
|---|---|---|---|
| semaphores | `libgcompat/semaphore.c`, `thread/sem_*.c` | `sem_t` | `Semaphore` |
| libc's own lock | `thread/__lock.c` | an `int` and `libc.need_locks` | `LibcLock`, `ExclusiveLock` |
| thread list lock | `thread/pthread_create.c:20-52` | `__thread_list_lock` and two counters | `ThreadListLock`, `ExclusiveLock` |
| life of threads | `thread/pthread_{create,join,detach,kill}.c`, `libgcompat/pthread.c` | `struct pthread`, the thread list | `ThreadLifecycle` |
| mutex | `thread/pthread_mutex_*.c` | `pthread_mutex_t`, the robust list | `Mutex` |
| condition variable | `thread/pthread_cond_*.c`, `libgcompat/pthread.c` | `pthread_cond_t`, nodes on stacks | `CondVar` |
| read-write lock | `thread/pthread_rwlock_*.c` | `pthread_rwlock_t` | `Rwlock` |
| once | `thread/pthread_once.c` | an `int` | `Once` |
| barrier | `thread/pthread_barrier_*.c` | `pthread_barrier_t`, an instance on a stack | `Barrier` |
| deadlines on any clock | `libgcompat/pthread.c` | locals and clocks | `ClockTimeout` |
| obstack | `libgcompat/obstack.[ch]` | `struct obstack`, chunks | `Obstack` |
| thread-specific data, synccall, cancellation signal, fork, vmlock, named semaphores, stdio locks, exit handlers, malloc, aio, `random_r`, group files, `close_range` | | | not yet: see the plan |
| math, strings, locale, regex, network, checked wrappers, ELF loading, contexts | | | out of scope, see the end |

How they interact.  All waiting is on futexes, through `__wait` and
`__timedwait`: a thread tests a word, and the kernel puts it to sleep if the
word still has the value the thread read.  `pthread_create` and `pthread_exit`
change the thread list under its lock, and `need_locks`, which lets `LOCK` be
skipped by a lone thread; the exiting thread never releases the list lock, the
kernel does when the thread is gone.  A condition variable moves its waiters to
the futex of the mutex, whose counts it maintains.  `pthread_cond_clockwait`,
`pthread_clockjoin_np` and `sem_clockwait` are libgcompat's layers over these.

## Conventions of the models

* One step is one access to shared memory, or one system call.  A thread's
  `pc` names what it does next; loads that are used later are locals.  Memory
  is sequentially consistent: musl's atomics are full barriers on x86_64, the
  only architecture of the package, and the plain loads of words that are
  changed by others are steps of their own.
* A word with fields (a count and a sign bit, an owner and flags) is a record
  or two variables.  Counts keep their limit as a constant (`SEM_VALUE_MAX`,
  `MAX`, `INT_MAX`, `INT_MIN`), so that the limit can be met on a small
  instance.
* A futex sleep is the location `"asleep"`.  The sleep may end by a wake, a
  timeout, or a signal handler; wakes choose any sleeper.  In
  `__timedwait`, EINTR is passed on only when `EintrValid`
  (`__eintr_valid_flag`) holds.
* Spinning only delays: the loops of `a_spin` are skipped, except in `LibcLock`,
  where each turn is an attempt to lock.
* Bounds are constants whose names begin with `Max`, and stand in guards of the
  operations that start something.
* Callers obey POSIX: a mutex is unlocked by its owner unless the type allows
  to try, a handle is joined or detached once, a barrier has as many callers as
  it counts.
* Operators named `X_Y` beside an operator `X` are wrong versions of `X`, used to
  confirm that a property notices the difference.  No specification uses them.

## The modules

**`Semaphore`** keeps `__val[0]` as a count and the waiter flag, and `__val[1]`
as `waiters`.  `sem_post` is four steps (`PostLoadVal`, `PostLoadWaiters`,
`PostCas`, `PostWake`), a wait is `TryLoad`, `TryCas`, `IncWaiters`, `SetFlag`,
`FutexSleep`, `TimedwaitReturns`, `DecWaiters`.  A cancelled wait runs
`cleanup_clockwait` on its way out.

**`LibcLock`** follows `__lock` line by line: the uncontended swap, a few
attempts, the congestion count, the futex.  `Create` and `Exit` change
`need_locks` as `pthread_create` and `pthread_exit` do (1, then -1 when one
thread is left, then 0 when that thread has taken a lock once).
**`ExclusiveLock`** is what users rely on: `Acquire` when nobody holds it,
`Release`.  `LibcLock` and **`ThreadListLock`** implement it; the latter adds
nesting, `__tl_sync`, and the kernel's release at thread exit, after which a tid
may be given again.

**`ThreadLifecycle`** has one `struct pthread` per thread and the memory it lies
in.  The list lock and the kill lock are one step each, for their protocols are
the subject of the two modules above.  `Touches` names the structures that the
next step of a thread reads or writes, and `mapping` says which are unmapped, so
that a use after unmapping is a reachable state if the code allows it;
`"crashed"` is the `a_crash` of a join on a detached thread.  `pthread_create` may fail in
`clone` or in the scheduler call, with the handshake through `args->control`.

**`Mutex`** has the twelve types without priority inheritance.  `depth` is what a
caller may believe from the results of its calls; the invariants relate it to
the word.  `Exit` is the walk over the robust list.

**`CondVar`** contains its mutex (of the plain type), because the two are coupled
by the requeueing.  Nodes are named by their threads.  The sections under
`_c_lock` are one step, except for the scan in `__private_cond_signal`, which is one
step per node since waiters change their `state` without that lock.
`pthread_cond_clockwait` is the loop around the timed wait: its clock and
CLOCK_REALTIME are two different clocks, so after an ETIMEDOUT it may return or
wait again.

**`Rwlock`**, **`Once`** and **`Barrier`** are direct.  In `Barrier` an instance is
named by its owner, whose frame holds it.

**`ClockTimeout`** does the arithmetic: `timespec` values with `NSEC`
nanoseconds to the second, products that wrap at `LLONG_MAX` (the C standard leaves
the overflow undefined; the build wraps), the poll interval, and CLOCK_REALTIME
being set during a wait.  Reading two clocks takes time (`drift`).

**`Obstack`** has addresses and remembers for every byte what was written to it,
so that `ObjectsIntact` compares objects with what their owner wrote.  Chunks are
placed anywhere in `Blocks`, also directly behind each other, and sizes wrap at
`SIZE_MAX`.  A failed allocation is no step: the handler does not return, and
nothing has changed before it is called.

## The runs

`tlc -config X.cfg M` in this directory.  States are distinct states.

| run | module, cfg | states | shows |
|---|---|---|---|
| `semaphore` | `MCSemaphore` | 775 000 | tokens are conserved, waiters are exact, no wakeup is lost, only `sem_post` lowers the flag |
| `thread_lifecycle` | `MCThreadLifecycle` | 580 000 | nothing is used after unmapping; list, count and `need_locks` agree; a signal reaches the thread that was meant; a join returns after the end, once; `exit` is called by the last thread alone |
| `progress` | `MCProgress` | 134 000 | both internal locks exclude and implement `ExclusiveLock`; nobody waits for ever for what is there |
| `mutex` | `MCMutex` | 1 080 000 | one holder, exact word, recursion count and waiters, no lost wakeup, unrecoverable means for ever, for all twelve types |
| `condvar` | `MCCondVar` | 1 490 000 | the list is sound, no frame is used after its return, waiters are woken in order, requeued and counted exactly |
| `condvar_live` | `MCCondVar`, `MCCondVarLive.cfg` | 168 000 | a waiter that was signalled returns |
| `objects` | `MCObjects` | 157 000 | rwlock, once and barriers for two and three keep their promises, nobody stays asleep |
| `gcompat` | `MCGcompat` | 141 000 | results of the clock functions agree with the clock, sleeps end by the deadline; objects of an obstack keep their place and bytes, chunks are freed once |
| `mutex_unrecoverable` | `MCMutex`, `MCMutexUnrecoverable.cfg` | | finding 1 |
| `clockwait_signal` | `MCCondVar`, `MCClockWait.cfg` | | finding 2 |
| `clockjoin_last_attempt` | `MCThreadLifecycle`, `MCClockJoin.cfg` | | finding 3 |
| `clock_overflow` | `ClockTimeout`, `MCClockOverflow.cfg` | | finding 4 |

`MCProgress`, `MCObjects` and `MCGcompat` put several components into one run.  A
variable `kind` is chosen initially and says which of them the behaviour is
about; the others do not move.

### Bounds

Three threads everywhere: two compete and a third arrives, leaves, or is left
asleep.  In `Semaphore` the limit of the count is 1, so that the value is at its
limit, at zero, and flagged; two posts and one cancellation suffice for a post
that finds a waiter which leaves.  `INT_MAX` of a recursive mutex is 1, `MAX` of a
rwlock is 3, which three readers exceed.  A condition variable has two waiters,
of which one is timed and cancelable, a signaller, and three calls per thread, so
that a thread waits again with the node it used before.  Barriers run for two calls
per thread, so that rounds overlap.  A second has four nanoseconds and
`LLONG_MAX` is 7, so that a deadline of two seconds overflows.  The memory of the
obstack holds three chunks, of which two may touch.  `progress` and
`condvar_live` use smaller constants than the safety runs because liveness is
checked on the whole graph; their safety is covered by the others.  Symmetry is
used only where the properties are invariants or action properties.

`CHECK_DEADLOCK FALSE` is set throughout: calls are bounded, threads exit, and a
program may block for ever by its own fault (nobody posts, nobody unlocks).  That
nobody blocks by libc's fault is what `NoLostWakeup`, `WaitersServed`,
`NobodyStuck` and `SignaledReturns` say.

### Fairness

Weak fairness for the steps of each thread inside a call: the kernel's scheduler
runs every runnable thread.  Threads need not start calls.  `progress` and
`objects` also assume that the program gives back a mutex or rwlock it holds, and
that an `init` routine ends; `condvar_live` uses that the mutex is released by those
who return.  There is no fairness for timeouts, signals, cancellations or clock
changes, which need not happen.  The locks are not fair, and no
property says that a given thread obtains one: it says that a free lock with
waiters is taken by somebody.

## What is proved

`SemaphoreProofs` and `LibcLockProofs` hold for every finite set of threads and every
value of the constants that the named assumptions `SemAssumption` and
`LockAssumption` allow.  The latter asks that the count of waiters cannot reach
the lock bit (`INT_MIN + Cardinality(Threads) + 1 < 0`).

Semaphore:

* `TypeCorrect`: `TypeOK` with what a thread knows of its locals when it swaps
  (`LocalInv`: the value read is not zero, respectively not the maximum).
* `TokensConserved`: count = initial value + posts - successful waits.
* `WaitersCounted`: `__val[1]` is the number of threads between `a_inc` and
  `a_dec`.
* `TokensAreCovered`, hence `NoWakeupIsLost`.  `NoLostWakeup` is not inductive: it
  says that a sleeper on a positive semaphore has somebody on the way, and one
  thread on the way may serve one token only.  `TokensCovered` counts: while
  somebody sleeps, either a wake of all is coming, or the flag is up and there
  are at least as many threads waking or about to retry as there are
  tokens.  The proof shows for every action how the number of such helpers
  changes with the count, using `WaitersExact` for the step of `sem_post` that
  lowers the flag.
* `FlagOnlyLoweredByPost`: an action property.

LibcLock:

* `TypeCorrect`, `LockExcludes`, `CongestionCounted`, `AssertionsHold` (the
  assertions in the comments of `__lock`), `NoWakeupLost`, from the inductive
  `IInv`: the word is the lock bit plus the number of the holder and of waiters,
  `need_locks` is not 1 only if there is one thread, it is 0 only
  if nobody is between reading it and acting on it, and locals bound the word.
* `LockImplementsExclusiveLock`: every step is a step of `ExclusiveLock` or leaves
  the holder as it is.

Only model-checked: everything about the other modules, and liveness
(`WaitersServed`, `NobodyStuck`, `SignaledReturns`), since neither fairness nor
ENABLED is in reach of the prover.  Induction over data is not, either; no proof
needs it so far.

## Findings

1. `thread/pthread_mutex_timedlock.c:74`.  A locker of a robust mutex tests for an
   unrecoverable word in trylock only.  If the owner unlocks an inconsistent mutex
   between that and the load at line 74, the locker sleeps on the word
   that nobody will change again; with several sleepers, unlock wakes one.
   WHATSNEW lists this handling as fixed.
2. `libgcompat/pthread.c:268`.  A timed wait whose deadline passed while it was being
   signalled returns ETIMEDOUT; `pthread_cond_clockwait` then waits again if its
   own clock is behind, and the signal is gone.
3. `libgcompat/pthread.c:125`.  The "last non-blocking join" blocks if the target is
   exiting but not gone, because `pthread_tryjoin_np` joins unless the
   target is joinable.  The time is short, but it is spent after the deadline.
4. `libgcompat/pthread.c:133`, `:211`.  The distance to a deadline more than 292 years
   ahead overflows and may be taken for expired.

Observations that no run states:

* `pthread_cond_clockwait` converts to CLOCK_REALTIME (`libgcompat/pthread.c:225`), but
  the wait uses the clock of the condition variable
  (`thread/pthread_cond_timedwait.c:65`).  For one created with CLOCK_MONOTONIC the
  wait lasts longer by the difference of the clocks; `WaitEndsByDeadline` has
  CLOCK_REALTIME as a premise.
* The EINVAL at `libgcompat/pthread.c:240-252` cannot be reached.
* `close_range` (`libgcompat/custom.c:254`) does not end for `fd_end` = UINT_MAX.
* `__libc_single_threaded` (`libgcompat/misc.c:35`) stays 1 when threads are created.
* An empty object that was capped at `chunk_limit` need not be aligned
  (`libgcompat/obstack.h:415-417`; the comment at `obstack.c:108` says objects are).

## Plan

1. Thread-specific data, `__synccall` and the cancellation signal: they walk or stop the
   threads of `ThreadLifecycle`; as further kinds in `progress` and `objects`.
2. Process-shared condition variables and barriers with `vmlock`; fork with the order of
   its locks; named semaphores.
3. `random_r`, `__libc_ns_makecanon`, `close_range` and the buffers of
   `fgetgrent_r` as algorithms, in `gcompat`; then slots and groups of mallocng.
4. Proofs, in this order: `Once`, `Rwlock`, `ThreadListLock`, `Mutex` (holder and
   waiters), `Barrier`, `ClockTimeout` (arithmetic), `Obstack` (address order).

## What is not modelled, and why

* Priority-inheritance mutexes: the queue is the kernel's.
* Weak memory: the package is for x86_64, and every store that publishes something is
  an atomic with a barrier.
* The comparison of program counters in the cancellation handler, context switching
  and thread start: machine code.
* Mathematics: floating point.  Strings, locale, regex, search, crypt: sequential
  functions on buffers.  Network, time, processes: wrappers of system calls.
  The `_chk` functions of libgcompat: a test of a size and a call.
* Dynamic linking: ELF data.
