# wasix-libc: TLA+ models, checks and proofs

wasix-libc is a C library for WebAssembly programs that run on a WASIX host. Its top
half (`libc-top-half/`) is musl with the Linux system calls replaced; its bottom half
(`libc-bottom-half/`) maps POSIX calls onto the WASI and WASIX host interface. This
directory models the parts of the library that keep state and are hard to test: the
futex calls and every synchronisation object above them, the life of a thread,
signals, thread-specific data, exit functions, emulated memory mappings, path lookup
and the buffer of a stdio stream. Section 2 says what is left.

The models describe the build with `THREAD_MODEL=posix`: `_REENTRANT` is defined,
`__wasilibc_unmodified_upstream` is not, and assertions are off.
`T/` below stands for `libc-top-half/musl/src/thread/`.

## 1. Inventory

| Component | State it keeps | Operations | What makes it correct |
|---|---|---|---|
| Futex layer: `__wasilibc_futex.c`, `T/__wait.c`, `T/__timedwait.c` | the host's queue of sleepers on a word | `__wait`, `__timedwait`, `__wake` | a wait whose word has changed does not sleep; a timed wait ends after its deadline and not before |
| Mutexes: `T/pthread_mutex_*.c` | `_m_lock` (owner and contention bit), `_m_waiters`, `_m_count`, the owner's robust list | lock, trylock, timedlock, unlock, hand-over at thread exit | mutual exclusion, no lost wake-up, recursion balance |
| Internal lock: `T/__lock.c` | one word: held bit and congestion count; `libc.need_locks` | `__lock`, `__unlock` | mutual exclusion, exact congestion count, no lost wake-up |
| Thread life: `T/pthread_create.c`, `pthread_join.c`, `pthread_detach.c` | thread list under `__thread_list_lock`, `detach_state`, `threads_minus_1`, `need_locks`, the stack mapping | create, exit, join, detach | one party frees a stack, exactly once and not while it is in use; the list and the counter agree |
| Thread-specific data: `T/pthread_key_create.c` | key table, one value table per thread | key create and delete, destructors at exit | no destructor for a deleted key, no stale value under a new key |
| Condition variables: `T/pthread_cond_timedwait.c` and friends | waiter list on the waiters' stacks, or a sequence counter when process-shared | wait, timedwait, signal, broadcast, destroy | a signal wakes a waiter that was there, no node is used after its thread returned |
| Read-write locks: `T/pthread_rwlock_*.c` | `_rw_lock` (readers, writer, contention bit), `_rw_waiters` | rd, wr, try, timed, unlock | readers exclude writers, no lost wake-up |
| Semaphores: `T/sem_*.c` | value and waiter count | post, wait, trywait, timedwait | tokens are conserved, a thread does not sleep beside a token (broken when posts overlap, see findings), the maximum is respected |
| Barriers: `T/pthread_barrier_*.c` | instance on the first arriver's stack, or counters when shared | wait, destroy | nobody leaves early, exactly one serial thread a round, the instance outlives its users |
| Once: `T/pthread_once.c` | one word 0, 1, 2, 3 | `pthread_once` | runs exactly once, nobody returns before it is complete |
| Signals: `signal/*.c`, `T/pthread_sigmask.c` | handler table, per-thread mask and pending set, the host's disposition table | sigaction, sigmask, raise, dispatch, deliver pending | nothing deliverable stays pending, a one-shot handler runs once, masks are restored |
| Exit functions: `exit/atexit.c`, `exit/at_quick_exit.c` | blocks of functions, newest first | atexit, at_quick_exit, exit, quick_exit | each function runs once, the last registered first, also those registered meanwhile |
| Standard I/O: `stdio/*.c` | one buffer a stream with read and write pointers, flags, a lock; the list of open streams | getc, fread, ungetc, putc, fwrite, fseek, ftell, fflush, fclose, setvbuf | a program sees one file and one position, whatever is in the buffer; lost bytes are reported |
| fork, vfork: `process/fork.c`, `_Fork.c`, `vfork.c` | all the library's locks, the child's thread list | fork handlers, child reset | the child starts with every lock free |
| Pre-opened directories: `libc-bottom-half/sources/preopens.c` | table of directories, its lock | register, populate, find | table consistent, a lookup picks the longest prefix |
| Working directory: `sources/chdir.c` | `__wasilibc_cwd`, its lock, a static buffer | chdir, getcwd, relative lookups | a reader sees one complete path |
| Memory mapping emulation: `libc-bottom-half/mman/mman.c` | sorted table of regions, shared file references | mmap, munmap, msync | regions sorted and disjoint, the table never overflows its reservation, references counted |
| Process spawn, epoll, sockets, poll, select, environment, sbrk | thin translations to host calls | | |
| Allocators (`dlmalloc/`, `emmalloc/`), mathematics, locale, regex, crypt, formatting, network resolver | vendored code | | |

How they interact. Everything that blocks goes through the futex layer, which asks the
host to put a thread to sleep on a word and to wake sleepers on it. The host keeps no
order. Internal locks are skipped while the process has one thread
(`need_locks`), so thread creation and exit change how every other component
synchronises. Thread exit walks the robust list and so changes mutexes. `pthread_join`
synchronises with exit through `detach_state` and the thread list lock. Signal handlers
run on the receiving thread at host-chosen points, from one callback that the library
registers at start-up.

What is hard: interleavings of threads at single atomic accesses; waits that end by
wake-up, timeout or for no reason; the window between publishing a state and the last
use of the memory it lives in; state sampled before it is used (`_m_waiters` in unlock,
`need_locks`, the pending set); counters at their limits; deadlines that are exactly now.

## 2. Plan

Done, in this order: `Futex`, `PthreadMutex`, `InternalLock`, `ThreadLifecycle`,
`TimedWait`, `PthreadCond` and the proofs of `PthreadMutex`, `InternalLock` and
`TimedWait`; then `RWLock`, `Semaphore`, `Once` and `Barrier` over `ThreadCalls`; then
`Signals`, `Mman`, `TsdKeys`, `ExitHandlers`, `PathLookup` and `StdioStream` with its
abstract specification `AbstractStream`.

Proved, in this order: mutual exclusion and recursion balance of `PthreadMutex`, the
refinement of `InternalLock`, the timeouts of `TimedWait`; then what is left of these
modules (`NoStrandedWaiter`, `CongestionExact`, `AllReached`), the read-write lock, the
semaphore (both invariants), once and the barrier (`SyncObjectsProofs`), thread-specific data, signals and exit functions
(`LibraryStateProofs`), the four invariants of `ThreadLifecycle`, those of `PthreadCond`,
that `StdioStream` implements `AbstractStream` (`StreamProofs`),
where the lookups of `PathLookup` lead, and the region table and the contents of `Mman` (`MmanProofs`).
Section 5 describes them.

Models to add: the lock of a stream (the pattern of the mutex, but with the anonymous
owner of `locking_getc`) and the list of open streams; process-shared condition
variables; the locks that `fork` takes and resets, over the abstract lock.

## 3. Modules

Every model takes one atomic access to shared memory as one step, so two threads
interleave wherever the code lets them. Steps that touch only a thread's own variables
are joined to the access before or after them. `Goto(t, l)` sets the place a thread has
reached. `PROJECT.json` maps each definition to the lines it models. Operators
whose comment begins with "Mutant" are plausible wrong versions of the operation they
precede; no specification uses them.

**Futex** has one operator, `Wake(S, n)`: the sets of sleepers that may remain after
`__wake` for `n` of `S`. The host promises no order.

**PthreadMutex** models `pthread_mutex_lock`, `trylock`, `timedlock`, `unlock` and what
`__pthread_exit` does to the robust list. `lock` is `_m_lock`, a record of the owner and
the contention bit: `Busy` is the `EBUSY` a NORMAL mutex holds, `Orphan` the word
`0x40000000` an exiting owner leaves. `waiters`, `count` are `_m_waiters`, `_m_count`; `r` and
`seen` are locals of the code; `depth` is a ghost: how many locks a thread holds. `op`
and `pc` say which call a thread is in and where. The lock path is `TryNormal` or
`TryOwned`, `TryOwner`, `TryWaiters`, `TryCas` (trylock), `Load`, `IncWaiters`,
`MarkContended`, `Wait`, `Woken`, `Timeout`, `Recheck`, `DecWaiters` (timedlock). The
unlock path is `CallUnlock`, `Swap`, `WakeOne`, and at exit `Exit`, `ExitSwap`, `ExitWake`.

**InternalLock** models `__lock` and `__unlock`. The word is a record of the held
bit and the congestion count. `FastPath`, `SpinTurn`, `Commit`, `MainLoop`, `FutexWait`,
`MainCas` are the stages of `__lock`. The switch `libc.need_locks` is in the model
because it decides whether `__lock` does anything. `Spawn`, `SpawnFails` and `ThreadExit`
change it as `pthread_create` and `__pthread_exit` do. After an exit that leaves one
thread it is -1, and the next `__lock` sets it to 0. **AbstractLock** says what a lock
promises (one holder, and a free lock with waiters is taken); `InternalLock` refines it
with the threads inside `__lock` as `waiting` and those between `__lock` and `__unlock`
as `holding`.

**ThreadLifecycle** models `pthread_create`, the start of the thread, `__pthread_exit`,
`pthread_join`, `pthread_timedjoin_np`, `pthread_detach`, `pthread_kill` and the thread
list lock (`__tl_lock`, `__tl_unlock`, `__tl_sync`). `tid`, `detach`, `next`, `prev` are fields of the
descriptor; `freed` counts calls of `free` on a stack; `claimed` holds the threads
somebody has joined or detached, so that the model only makes calls POSIX allows
(`Started` says which threads such a call may name). The
life ends in `HostExit` (`__wasi_thread_exit`) or `exit(0)` of the last thread.

**TimedWait** models one level below the others: `__timedwait_cp`, `__futex4_cp`,
`__wasilibc_futex_wait_wasix` and the loop of `__wasilibc_futex_wake_wasix`, against a
host that keeps a clock and puts threads to sleep. Time is in nanoseconds and a second
has `NSEC` of them, so the borrow between seconds and nanoseconds is really computed
(`TimeLeft`). The word only grows, so a thread asleep on an old value is one that has
missed a change. `HostEinval` chooses whether the host answers a stale value with an error.

**PthreadCond** models `__pthread_cond_timedwait` and `__private_cond_signal` for private
condition variables. A waiter's node is on its stack and is named by its thread; `prev`,
`next`, `state`, `notify` are its fields, `word[t]` its barrier and `word[Cv]` the lock
`_c_lock`. `LockCas` to `UnlockWake` are `lock` and `unlock` of that file. `Register` to
`Done` are the waiter; `SigStart`, `SigLoop`, `SigSplit`, `Drain`, `OpenFirst`, `WakeFirst`
the signaller. WASI has no requeue, so `PassWake` wakes the next waiter. The mutex is
reduced to its owner and to what the hand-over adds to `_m_waiters`.

**ThreadCalls** is what the next four modules share: the call a thread is in (`op`), its
place (`pc`), who is asleep in a futex call (`asleep`), and the steps `Call`, `Goto`,
`Return`, `FutexWait` and `WakeUp`.

**RWLock** models `pthread_rwlock_*`. `rwlock` is `_rw_lock`, a record of the count (readers, or
`WRITER`) and the bit that someone sleeps; `rwwaiters` is `_rw_waiters`. `RdLoad`, `RdCas` and
`WrCas` are the try functions, `RwLoop` to `RwDec` the loop of the timed ones, `UnLoad` to
`UnWake` unlock. `rwheld` is what the application holds.

**Semaphore** models `sem_wait`, `sem_trywait`, `sem_timedwait` and `sem_post`. `semval` may be
-1, zero with sleepers. `SemLoad` to `SemCas` are an attempt, `SemInc` to `SemDec` the sleep,
`PostLoad` to `PostWake` the post. Two variables are history: `semtokens` counts posts minus
waits, `semapart` says that no two posts have overlapped so far between their reading of the
value and their compare-and-swap (`Posting`). `SemRescuers` are the threads that will look at the
value again before they sleep or wake a sleeper. `SemTokenServed` says that while posts stay apart there is
one whenever a thread sleeps beside a token; `SemTokenTaken` says of any posts that nobody sleeps
beside a token once everyone is at rest, and does not hold.

**Once** models `pthread_once`, whose routine may end in `pthread_exit` and so run `undo`.

**Barrier** models `pthread_barrier_wait` for private barriers (the record of a round is on
the first arriver's stack and named by its thread; `BTakeLock` to `BFinishWake`) and for
shared ones (`PCas` to `PUnwake`), and `pthread_barrier_destroy`, which the application may
call when the last round is full and over (`DestroyCall`). `bentered`, `bleft` and
`bserials` are history.

**Signals** models one thread: `sigaction`, `pthread_sigmask`, `__wasm_signal`,
`dispatch_signal`, `__sig_deliver_pending`, and `_Fork` seen from the child. The stack of
running handlers is `frames`; a handler is code of the application and may make all the
calls the program may, including raising its own signal. `sigmode` is `"trapped"` after a
call through the default handler that was never set.

**Mman** models `mmap`, `munmap` and `msync`. `regs` is the table, searched by the binary
search of the code; `Cut`, `Coalesce`, `Acquired` and `Reserved` are the steps on it; `refs`
counts shared descriptors, up for a region that `Splits` and down for one that is `Gone`. `mem` and `file` are contents, so that zeroing, reading and
writing back are computed. `owner` is what the application was promised of each address.

**TsdKeys** models `pthread_key_create`, `pthread_key_delete`, `pthread_setspecific` and the
rounds of destructors of an exiting thread, which run without the key lock.

**ExitHandlers** models `__cxa_atexit`, `exit`, `at_quick_exit` and `quick_exit`. A function that
runs may register more.

**PathLookup** models the table of pre-opened directories, `__wasilibc_find_abspath`,
`__wasilibc_find_relpath`, `make_absolute` and `chdir`. A path is a sequence of characters
because the code counts them; `Names` says which directory a path means and is the
reference the lookup is compared with. `pstuck` is a thread that takes a lock it holds.
`PathAssumption` says that the entries of a directory have proper names: not empty, not `.` or `..`,
and without a slash.

**StdioStream** models a stream over a file. `fp` is the `FILE`, its buffer and the host's
file and offset; addresses are numbers, the `UNGET` bytes before the buffer included.
Each operator translates one function and gives the set of its outcomes, since the
host may read less than asked for or fail at any byte. **AbstractStream** has no buffer:
a file, a position and what reads return next. `StreamAsPromised` is the refinement.

`MCSyncObjects`, `MCLibraryState` and `MCMutexTimedWait` put components that share no state in one
instance; the initial state chooses the one a behaviour is about. `MCPthreadMutex`,
`MCTimedWait` and `MCSemaphore` are instances of one component.

## 4. Runs

| Run | Question | Instance |
|---|---|---|
| `mutex_normal` | Does a NORMAL mutex exclude, can an unlock that sampled `_m_waiters` too early strand a sleeper, does every call return? | 3 threads, one call each of lock, timedlock or trylock; one may exit, with the mutex or without |
| `mutex_timedwait` | Do the count, `_m_waiters` and the owner agree for RECURSIVE and ERRORCHECK mutexes, at the count's limit, with an owner that exits? Timed wait: is a reported timeout true, does a broadcast reach all? | 3 threads, up to 3 locks by one, count limit 1, process-shared bit set; 2 waiters, 3 nanoseconds a second, clock to 5, word to 2 |
| `internal_lock` | Does `__lock` exclude while locking is switched on and off, is the congestion count exact, does it refine the abstract lock with its liveness? | 3 threads, 1 spin, 2 calls each |
| `life` | Is each stack freed once, the list consistent, `exit(0)` called alone; do joins return, do stacks leak, can a joiner take the wake-up a waiter of the list lock needs? | initial thread and 2 more, one of them calls `pthread_kill` |
| `cond_safety` | Are nodes alive when they are touched, is `_m_waiters` balanced, is the wake order kept? | 3 waiters, 2 signals or broadcasts |
| `cond_progress` | Is a waiter ever orphaned, do signalled waiters and signallers return? | 2 waiters, 2 signals or broadcasts |
| `sync_objects` | Read-write lock: exclusion, at the reader limit too, and every call returns. Once: one complete run, everyone returns. Barrier: rounds do not mix, one serial thread, memory alive when it is touched, everyone returns. | 3 threads; writer mark 3, two threads that may exit in the routine, two rounds of a barrier for 3 |
| `library_state` | Semaphore: is no token lost or made, and, as long as posts do not overlap, is somebody awake to take a token beside which a thread sleeps? Are signals settled and one-shot handlers run once; is the region table right and are contents kept; are destructors run for the right key; do exit functions run in order; does a lookup reach the directory that was named; does a stream hide its buffer? | 4 threads, one of which makes two calls, initial value 1, maximum 2; 2 signals, 3 sends, 3 nested handlers, 3 settings; 3 pages of 2 units, 4 calls; 2 key slots, 3 keys, 2 rounds; blocks of 2, 6 functions; 2 preopens, 2 chdirs; a buffer of 2 bytes and 1 for `ungetc`, 4 calls |
| `life_stack` | Counterexample, see findings | 2 threads |
| `sem_lost_wake` | Counterexample, see findings | the 4 threads and the semaphore of `library_state` |
| `timedwait_zero` | Counterexample, see findings | 1 waiter |
| `preopens_longest` | Counterexample, see findings | 2 preopens |

Findings (the runs that end with a counterexample):

- `life_stack`: `__pthread_exit` releases the thread list lock, and then frees its own
  stack or lets a joiner free it, before `__wasi_thread_exit`. The comment in the same
  function says the lock is only released after the thread has exited. `FreedOnce`
  still holds.
- `timedwait_zero`: a deadline that is exactly now gives `max_wait_ns = 0`, which is passed
  on as "no timeout". The comment in `__wait.c` says only a negative value means forever.
- `sem_lost_wake`: a wake-up is lost when two `sem_post` overlap. One reads a value of 1 and no
  waiters. Before its compare-and-swap another thread takes the token, two threads
  go to sleep on -1, and a second post makes the value 1 again and wakes one of them. The
  compare-and-swap finds the 1 it expects, makes it 2, and the post wakes nobody, going by the
  waiters it read at first. The woken thread takes one token; the other sleeps beside the second. Four
  threads and five calls are needed. POSIX, to which `unistd.h` (`_POSIX_SEMAPHORES`) and the README of
  musl commit the library, allows no blocked thread after a post with a positive result. `SemTokenServed`
  delimits it: without overlapping posts it holds, in `library_state` on the same
  instance and for any number of threads by `SemServedAlways`.
- `preopens_longest`: `__wasilibc_find_abspath` compares the length of a candidate with a
  match length that includes slashes around the best prefix so far, so with `/a/b` and
  then `/a` pre-opened a lookup of `/a/b` uses `/a`. The comment in the loop says a longer
  candidate is taken. The file that is reached is the same (`PathReached` holds); the
  descriptor, with its rights, is not.

Seen while modelling, without a run:

- The WASIX `pthread_kill` reads `tid` without `killlock` and may ask the host to signal
  thread 0 or a thread that has gone (`ThreadLifecycle` models the call).
- Every error of `__wasi_futex_wait` traps. `TimedWait` has a constant `HostEinval` for a
  host that answers a stale value with an error; the runs and the other modules assume
  one that does not.
- With no disposition from the host, a signal before the first `sigaction` is dispatched
  through a null `default_handler` (`sigmode = "trapped"` in `Signals`).
- `resize` in `preopens.c` takes the lock its caller holds. While locks are off this does
  nothing; in a threaded program registering a fifth directory blocks (`pstuck`).
- `make_absolute` in `chdir.c` returns a static buffer after it has released its lock.
- For a root pre-open, whose prefix is empty, `__wasilibc_find_abspath` returns a relative path
  that begins with the slash of the path looked up; `libc-find-relpath.h:41` says it
  has none. `preopens.c` does so on purpose ("don't remove leading '/' for root parent fd"), and
  `PathLookup` models it; the host reads the path from its root either way, so that `PathReached` is
  not affected.
- `rewind` clears the error indicator that its own flush has set, as ISO C asks, so
  bytes lost there are not reported. `AbstractStream` makes this exception, and one for
  `exit`, explicitly.

Bounds. Three threads are the least with which a wake-up can go to the wrong one of two
sleepers while a third holds or releases. One or two calls a thread are enough for a
thread that returns to overtake a sleeper. A count limit of 1 makes the limit reachable
in three locks, and the code compares with the limit and otherwise only adds and
subtracts one. A second of three nanoseconds has deadlines with and without a borrow.
With three waiters a broadcast has a first, a middle and a last node, and each may
leave. A writer mark of 3 puts the reader limit within reach of three threads, and a
semaphore maximum of 2 the overflow check. Four threads, one of which calls twice, and an
initial value of 1 are the least with which a post can be overtaken by a take, two
sleepers and another post. Three pages are the least of which munmap
can cut out the middle, and a file of 3 units ends inside a page of 2. A buffer of two
bytes is filled, exceeded by one `fwrite` and left half read within four calls. Two key
slots and three keys make a slot be reused. Blocks of two functions make the list grow
while functions run. Spin counts are 1 or 0, since spinning only delays. Symmetry is used only in
runs without liveness properties (and only over threads that make the same calls and, in
`mutex_timedwait`, cannot exit).

Deadlock is checked everywhere except in `TimedWait`, whose clock and word are bounded
and where a wait without a deadline may last for ever (`Waits` in `MCMutexTimedWait`), and in the modules of
`library_state`, whose programs may stop at any point and run out of calls. In the other modules `Finished`
and `Over` are the states in which a program may stop.

Fairness. Weak fairness of each thread's `Step`: the host runs each runnable thread, and
a step is always enabled until the thread sleeps. Nothing is assumed of wake-ups that
nobody sends, of timeouts (they may never come) or of spurious returns. Callers of `CallLock`,
`CallWait` or `CallJoin` need not call. `PthreadMutex` also assumes a holder unlocks in
the end, and `RWLock` likewise that a thread unlocks what it holds. A thread that waits
at a barrier depends on the others making their calls, so `BarrierReturns` assumes that each thread makes all
of its calls. A routine of `pthread_once` ends, by returning or by `pthread_exit`.
`WF` is enough because the number of calls is bounded (`MaxCalls`); with
unbounded barging neither lock promises that a given thread gets in. The bound is
part of what `EveryCallReturns` and `EveryLockEnters` say. A thread that exits with a mutex
leaves it locked for ever (`Abandoned`); `EveryCallReturns` promises nothing then.

## 5. Proofs

The proofs hold for any number of threads and all values of the constants that satisfy
the assumption named in each module.

- `PthreadMutexProofs`: `MutexSafe` (`MutualExclusion`), `CountCorrect` (`RecursionBalance`),
  `TypeCorrect`, `NobodyStranded` (`NoStrandedWaiter`). Mutual exclusion is not inductive:
  during unlock `depth` is 0 while the word is still taken, and an unlock of a RECURSIVE
  mutex releases the word only if count and history agree. `IInv` adds who is responsible
  for the word (`MarkInWord`, `OwnerResponsible`, `OneResponsible`) and that the count is 0
  when nobody uses it (`CountAtRest`, needed because trylock never resets it). The lemma
  `QuietIInv` covers the many steps that change neither the owner nor a depth. For the
  wake-ups, `WakeInv` says that `_m_waiters` is exact, that whoever is about to release the
  word has seen a waiter or will see the bit (`ReleaseWakes`), and that somebody is committed
  to a word that is free while others sleep on it (`FreeRescued`).
- `InternalLockProofs`: `LockSafe` (`MutualExclusion`), `CongestionCorrect` (`CongestionExact`)
  and `LockRefines` (every step is a step of `AbstractLock` or a stutter). The difficulty
  is the switch: a thread may be in its critical section without the bit set.
  `SkippedAlone` says it is then the only thread, `OffAlone` that locking is off only with
  one thread, `CasOpen` that the value compared with is that of an open lock.
- `SyncObjectsProofs`: `RwSafe` (`RwExclusion`), `SemSafe` (`SemTokensKept`), `SemServedAlways`
  (`SemTokenServed`), `OnceSafe` (`OnceOnly`). The count of the read-write lock is the number of readers and never reaches
  the writer's mark, which needs what a thread knows of the value it has loaded when it
  comes to its compare-and-swap (`RwLocal`, `SemReadOK`); `control` says how far the routine is.
  For the wake-ups of the semaphore, `SemEnough` says that the rescuers are at least as many as the
  tokens: a post adds one of each and a waiter that takes a token takes itself away. A post that
  wakes nobody keeps this because, while posts are apart, the value only falls between its
  reading and its compare-and-swap (`SemPostOK`); if it is the same again nobody has changed it, so nobody
  has gone to sleep since the waiters were counted.
  For `Barrier`: `RoundsCorrect` (`BarrierRounds`) and `MemoryAlive` (`BarrierMemoryAlive`), for any
  `Count`, from `BarrierInvariant`. Most steps of a call are waits, unlocks and wakes that
  the rounds do not notice: `Heading(t)` is what `t` does apart from them, and `TurnStep` shows
  each of the 34 actions to be one of 25 turns over it. `CountsOK` is the arithmetic of the rounds: the calls that
  have come are `Count` for each full round plus those present in the one that is not full,
  and likewise one serial thread. `InstanceOK` says of a private round that its count is the
  number of its users, that `last` and `finished` say how far it is, and that its owner
  cannot leave before `finished` has been reported. A shared barrier is in one phase of a round at
  a time (`Filling`, `Full`, `Emptying`, `Empty`, `Ending`), which fixes `_b_lock` and `_b_count`;
  `DestroyOK` says that with the last round full and over, `pthread_barrier_destroy` meets
  `Ending` or nobody.
- `LibraryStateProofs`: `TsdSafe` (`TsdDestroyed`), `SigSettledAlways` (`SigSettled`),
  `SigOneShotAlways` (`SigOneShot`), `ExitSafe` (`ExitOrder`). A stored value belongs to the key
  that is in its slot now, and the slots a round of destructors has passed stay empty
  until the thread stores something (`SweptSlots`). The mask the application chose is the one
  the outermost handler frame restores (`MaskKept`). The function at place `o` of an exit
  block with `n` blocks behind it is number `n * COUNT + o` of those still to run (`HoldsInOrder`).
  For `TimedWait`, which has no other module of proofs: `TimeoutCorrect` (`TimeoutIsReal`),
  `TimedTypeCorrect` and `WakeReachesAll` (`AllReached`), for any length of a second and any
  deadlines. `TimeLeftExact` shows that the borrow keeps the total, `NothingLeft` that negative
  seconds mean the deadline is over; `TimeInv` carries "the host's timeout is not before the
  deadline" through the call.
  For `PathLookup`: `LookupsReach` (`PathReached`) and `CwdAlwaysFollows`, for any directories, any
  prefixes and any paths. `Walk(d, p)` is the directory that `p` leads to from `d`; `WalkJoin`
  says that a path may be cut in two where a slash is, and each function that takes a
  path apart or puts one together is shown to cut at such a place: `PrefixMatchesIs`
  (a prefix ends where a component does), `MatchReached`, `MakeAbsoluteIs`, `PathOfIs`. The
  invariant `PathIInv` carries the working directory along, since a lookup is as
  right as the library's copy of it. Which of the prefixes that match is taken does not matter
  (`BestIsGood` only says that it matches), which is why the property holds
  although `PreopenLongest` does not. The recursive functions of the model have a value because
  `RankRecursion` shows, for functions as values, that a recursion whose arguments have a
  bounded rank that decreases has a solution; `Upwards` and `Downwards` are the inductions over
  places in a path.
- `ThreadLifecycleProofs`: `FreedAtMostOnce` (`FreedOnce`), `ListOwnerHasStack`
  (`ListLockOwnerAlive`), `ListAlwaysConsistent` (`ListConsistent`), `ExitIsAlone` (`ExitsAlone`).
  `CoreInv` says which call a thread is in, who holds the list lock and whom a
  `pthread_create` is about; `FreeInv` who is going to free an allocation, from the
  transitions of `detach_state` and the release of the list lock; `RingInv` that the list is
  one ring of the linked threads (a part of it that `next` does not leave is all of it)
  and that `threads_minus_1` counts it.
- `PthreadCondProofs`: `CondNodesAlive` (`NodesAlive`), `CondWaitersBalanced` (`WaitersBalanced`),
  `CondWokenInOrder` (`WokenInOrder`), `CondWaitingListed` (`WaitingListed`). The waiters' list is cut by
  signals into several lists that threads still walk, on the stacks of threads that may
  leave. The invariant says that there are a numbering of these lists (`grp`), an order of
  arrival (`age`) and a clock (`now`) such that links stay inside a group and follow the
  order (`ListsOK`), with who holds a node's address (`RefOK`), who carries the
  duty to wake the next waiter and its count in `_m_waiters` (`CarryOK`), and that a
  thread outside the call has no node (`Outside`). The numbering exists only in the proof.
- `StreamProofs`: `StdioRefinesStream` (`StreamAsPromised`): every step of stdio is a step of
  `AbstractStream` or a stutter, for any size of the buffer, any bytes and files, in every
  mode, however short the host reads and wherever it fails. The state of the
  abstract stream is `View(f)` (the file with what is held back laid over it), `Position(f)` and
  `InputOf(f)`. One lemma per function (`StdioReadIs`, `FreadIs`, `FwritexIs`, `UngetcIs`, `FseekoIs`,
  `FflushIs` and so on) says what it does to these three, and one per abstract action when a step is that
  action. That a buffer may be written in two pieces is `OverlayTwice`. The
  invariant `StreamInv` is needed because the code keeps reading and writing apart only by
  which pointers are null: `Pointers` says that one of the two is, `EndOfFile` that at the end
  nothing is unread, `LinesWritten` that a line-buffered stream holds no newline (a
  `putc` would otherwise leave it behind), and `dir` that nothing read ahead is left when
  the program may write. The proof shows where the buffer of `setvbuf` must come from: the theorem
  assumes a finite set of sizes, since the largest is the room the model reserves.

- `MmanProofs`: `TableAlwaysRight` (`MmanTable`) and `ContentsAlwaysRight` (`MmanContents`), for
  memory, files and tables of any size. The
  invariant `MmanIInv` is about the set `Live(regs)` of regions that are not free: what each
  shows of an address is what the application knows of it (`Agree`), no other address is owned,
  and a descriptor counts its `Users` (`Counted`). Most of the proof shows that the loops of the
  code do to this set what is wanted: `FirstOverlapIs` is the binary search over a
  sorted table, `CutAllIs` the loop of `unmap_range` (each live region becomes its `Pieces`, and
  at most two regions are added however many the range meets, which is why reserving two suffices),
  `CoalesceIs` the joining of free neighbours, which leaves the live regions alone and
  no two free ones touching, `ReservedIs` the doubling, `AcquiredIs` the reuse of a free region or
  the growth of memory. `PieceShows` is the arithmetic of offsets in a fragment, `UsersCount` that of the
  descriptors. That free regions do not touch is an invariant only because each
  call joins at the borders of its range: `Touching(C, Near(start, end))` says that nothing else
  can touch in between. The table's loops are recursive functions; they have a value by the
  lemma `RankRecursion`, as in `LibraryStateProofs`.
  The contents need one more fact, `ContentsOK`: memory that was never mapped is zero. With it
  `NewIsClean` shows that a new region is zeroed, or behind everything mapped before, and that
  nobody owns it; `WritebackAllIs` is the loop that writes the regions of a range back, and
  `FileAfter` says in terms of the application's addresses what it leaves in the file. A range whose
  regions show one offset twice keeps one of the two contents.

Where the proofs count threads they assume that `Threads` is finite, as it is in
every process.

Checked by TLC only:

- everything about progress (fairness and `ENABLED` are beyond the prover):
  `EveryCallReturns`, `EveryLockEnters`, `JoinReturns`, `NoLeak`, `ListLockGranted`,
  `SignaledReturns`, `SignalReturns`, `RwCallsReturn`, `OnceReturns`,
  `BarrierReturns`, and the liveness half of the refinement of `AbstractLock`.

## 6. Not modelled

Left out of the modelled parts: the recursion of the list lock (`tl_lock_count`) and
`killlock`, which besides exit only the scheduling stubs take in this build; the list structure of
the robust list (one mutex is modelled); process-shared condition variables, `EPERM`
and `EINVAL` checks on arguments, `pthread_cond_destroy`; waits so long that their
nanoseconds overflow 64 bits (292 years); the alignment check of the futex call and
errors of the wake call, which the callers ignore; cancellation, which cannot take effect in this
build; memory ordering weaker than sequential consistency (the atomics of this target
are sequentially consistent, and plain accesses to the same words are read as atomic).

In the modules added later: `sigwait`, `sigsuspend`, alternate stacks, timers and the mask
a new thread inherits; named semaphores, which are not in the build; argument checks of
`mmap`; the lock of a stream, the list of open streams and the flush of all of them,
streams that cannot seek or that live in memory, wide characters, formatting, `freopen`;
writing directly after reading, which ISO C leaves undefined; the wrappers of `posix.c`; the
failures of `make_absolute` when it first asks the host for the working directory (it returns NULL if
`getcwd` fails, as it does for a directory of 256 characters or more, and if `malloc` fails it
keeps NULL as the directory and does not ask again), so that `Cwd` always has a value;
the locks `fork` takes, which are one by one locks of `InternalLock`.

Not modelled because there is little to check: spawn and exec, sockets, poll and epoll,
start-up and clocks translate their arguments to one host call. Cancellation cannot
take effect in this build. The allocators, mathematics, locale, regular expressions,
encryption, sorting, strings, formatting and the resolver, which make up most of the
lines of the repository, are vendored sequential code without state that outlives a
call (the allocators: with state whose invariants need far larger instances than a
model checker holds), and large parts are tables and headers. `PROJECT.json` lists every
part with its reason.
