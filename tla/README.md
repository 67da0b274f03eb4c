# leblibc in TLA+

leblibc is the C library of Lebirun, a fork of musl.  This directory holds TLA+
models of it: mostly of the parts whose correctness depends on order (locks,
condition variables, threads, cancellation, the allocator, asynchronous I/O,
streams, fork, exit, the dynamic linker, the DNS client), and of functions
without state whose branches are hard to test (formats, patterns, calendar,
elementary functions, password hashing).

Every module is translated from the C source that its header names.
`PROJECT.json` maps each definition to source lines (paths such as
`src/thread/__lock.c` below are relative to the repository), lists the parts of
the library with what is modelled of each, the runs, the mutants that show that
each property can fail, the hazards, and the theorems.

## How to read it

A module has the state of one component as VARIABLES, `Init`, one action for
each step of the code, `Next` and the properties.  A step is one access to
shared memory, one futex or other system call, or one section of a lock where
the section cannot be observed from outside.  Functions of the library keep
their names; a program counter `pc[t]` says where a thread is.  The futex is
modelled by what the code relies on: a wait returns at once when the word has
changed, a wake releases some sleeper, and sleepers may wake for no reason.

Components that share no state are checked together: the modules `MCSync`,
`MCThreads`, `MCProcess` and `MCMallocng` have a variable `part` that says which
component the behaviour is one of, and variables `x1`, `x2` ... that the
substitutions of their INSTANCEs give to the components.  What a component
promises is in its own module; the properties of the MC modules collect what
belongs to one question.

Definitions named after a mistake (`SignalFailsKeepsFunc`, `VisitDestroyed` ...)
with a comment that begins with "Mutant" are not part of any specification.
`PROJECT.json` says which definition each of them stands in for, and which
property then fails.

## Modules and code

| Module | Code | State and actions |
|---|---|---|
| `FutexLock` | `src/thread/__lock.c`, need_locks in `pthread_create.c` | the lock word (held bit and count), `need_locks`; every atomic access of `__lock` and `__unlock`, creation and exit of threads. Implements `AbstractLock` |
| `Mutex` | `src/thread/pthread_mutex_*.c`, robust list in `pthread_create.c` | `_m_lock`, `_m_waiters`, `_m_count`; lock, trylock, timedlock, unlock, consistent, exit of an owner, for every type except priority inheritance. Implements `AbstractLock` |
| `RWLock`, `Semaphore` | `pthread_rwlock_*.c`, `sem_*.c` | the word and the waiters; implement abstract objects stated at their ends |
| `Once` | `pthread_once.c` | the control word, initialisers that are cancelled |
| `Barrier`, `BarrierShared` | `pthread_barrier_*.c`, `vmlock.c` | the instance on the first thread's stack; the shared words, the vmlock, destroy |
| `CondVar` | `pthread_cond_timedwait.c`, `pthread_cond_signal.c` | the list of waiters, the barriers in their frames, timeouts, cancellation, the mutex |
| `ThreadLife` | `pthread_create.c`, `pthread_join.c`, `pthread_detach.c`, `pthread_kill.c` | the list of threads, its lock, the handshake of a new thread, exit, unmapping |
| `Cancel` | `pthread_cancel.c`, `__syscall_cp_asm`, `pthread_setcancel*.c` | a stack of frames with their masks; the flag and the signal |
| `SyncCall` | `synccall.c` | three semaphores, the handler in every thread |
| `TSD` | `pthread_key_create.c` | the table of keys, inline slots, the list of further values, destructors |
| `DynTls` | `ldso/dynlink.c`, `lock_ptc.c` | the count and the list of threads, vectors of modules, dlopen |
| `Timer` | `src/time/timer_create.c`, `timer_delete.c` | the caller, the thread, the kernel's timer |
| `AtExit`, `AtFork`, `Fork` | `src/exit`, `pthread_atfork.c`, `src/process/fork.c` | blocks of functions, handlers, all the locks that fork takes |
| `FileLock`, `FileList` | `src/stdio/__lockfile.c`, `ofl*.c`, `fclose.c`, `fflush.c`, `popen.c` | the lock of a stream, the list of streams |
| `SemOpen` | `sem_open.c` | names, mappings and the table |
| `Ctors` | `ldso/dynlink.c` | constructors and destructors of libraries, with several threads |
| `Resolver` | `src/network/res_msend.c`, `lookup_name.c` | sockets, servers, a network that loses, duplicates and reorders, TCP |
| `Mallocng` | `src/malloc/mallocng` | groups, masks and queues; malloc under the lock, free by compare-and-swap |
| `SlotHeader` | the same, `meta.h` | the bytes of headers; size classes and shapes of groups |
| `Aio` | `src/aio` | requests, their threads, queues, cancellation, waiting |
| `Stdio`, `AbstractStream` | `src/stdio` | one buffer for reading, pushing back and writing; implements a sequence of bytes with a position |
| `Dlopen`, `DsoGraph` | `ldso/dynlink.c` | the lists of libraries through dlopen and its failures; the order of dependencies, mapping of segments |
| `Math`, `Formats`, `Patterns`, `Calendar`, `Crypt` | `src/math`, `src/complex`, `src/stdio`, `src/internal`, `src/regex`, `src/time`, `src/crypt` | functions, checked by `MCFunctions` |

The interfaces between parts are kept narrow: where the code of one component
uses another (the allocator uses the internal lock, `__synccall` semaphores, the
asynchronous I/O a mutex and a condition variable), the model uses what the
other component is shown to promise.

## Runs

| Run | Module and configuration | Question |
|---|---|---|
| `futex_lock` | `FutexLock` | exclusion, exact count, no lost wakeup, also while the lock is elided; every call of lock returns |
| `sync` | `MCSync` | the words tell who holds what; no lost wakeup; nobody is early; nothing is used after it is gone; refinement of the abstract objects |
| `sync_live` | `MCSync`, `MCSyncLive.cfg` | what threads wait for comes |
| `threads` | `MCThreads` | stacks and descriptors outlive their users, nobody is forgotten, thread-specific data and TLS are current, cancellation obeys |
| `threads_live` | `MCThreads`, `MCThreadsLive.cfg` | joins, creations, exits, `__synccall`, destructors, cancellation and timers end |
| `process` | `MCProcess` | exit handlers, fork, streams, named semaphores, constructors, answers of the DNS client |
| `process_live` | `MCProcess`, `MCProcessLive.cfg` | fork, exit, dlopen, look-ups and calls on streams end |
| `malloc` | `MCMallocng` | every slot has one owner, pointers decode, sizes are right |
| `aio` | `Aio` | the queue lives as long as it is used, ordered requests wait, calls end |
| `stdio` | `Stdio` | a stream is a sequence of bytes with a position, calls report what happened |
| `ldso` | `Dlopen` | a dlopen that fails leaves nothing behind |
| `functions` | `MCFunctions` | functions against what they shall compute |

All of them pass.  The comment above each property says what it means for the
code.

### Bounds

Bounds are CONSTANTs, and guards name them.  Three threads (four at a barrier
or in `__synccall`) are enough for a holder, a sleeper and a newcomer, or a
creator, a child and a joiner, to meet in every order; two suffice for liveness,
where the third would only repeat the second.  Counters are bounded where they
enter the state: recursion of a mutex at 1, readers at 2, a semaphore at 2,
calls that create or kill at 3, signals of the program at 3, keys at 4, TLS
modules at 2, expiries of a timer at 3, registered exit functions at 5 with
blocks of 2 (so that a block fills and another begins), three fork handlers and
three forks, groups of two and three slots.  `Aio` has up to three requests in
four setups: a write that may never end and a sync, with a canceller; two
appending writes and a sync; a write and a read with two waiters; three reads,
two of which may never end, with two waiters whose lists overlap.  `Stdio`
has a buffer of at most two bytes, one byte of space for ungetc and files of three bytes; its CONSTRAINT `SmallFile` bounds the file.
`Dlopen` has five libraries, two of which need each other.  Symmetry is used
between threads that no constant tells apart, and only in runs without liveness.

In the functions, words are narrower than those of the machine (formats have
limbs of few digits, a minute has two seconds), so that all carries, limits and
ends of ranges occur within the arguments that TLC enumerates.

Deadlock is checked except in `Aio.cfg` and `Stdio.cfg`: there all requests
have ended or the file has its final length, and nothing is left to do.  Where
only some components of an MC module may stop, `Next` lets these stutter.

### Fairness

Fairness says that threads inside the library are scheduled, nothing else.  In
`FutexLock` and `MCSync` it is weak fairness of each thread's steps; the
initialiser of pthread_once ends, and no timeout need happen.  In `MCThreads`
handlers of the program return and signals that are not blocked are delivered; a
system call may block for ever.  In `MCProcess` strong fairness says that a lock
is given at last to a thread that keeps asking for it, that a thread that called
flockfile does not keep the stream for ever, and that time passes in poll.  In
`Aio` it is weak fairness of the steps of callers, threads, cancellers and
waiters.  The program is never assumed to make a call.

## Proofs

TLC checks small instances; TLAPS proves the following for any finite sets of
threads and any values of the other constants that the named ASSUMEs allow.
Each proof has the same shape: an inductive invariant `IInv`, defined in the
component's module, holds initially, is preserved by every action and by
stuttering, and implies the properties.  An invariant by itself says too little
about the places between two steps: it must know what each program counter
means.

* **The internal lock** (`FutexLockProofs`, about `FutexLock`): `TypeCorrect`;
  `LockExcludes`; `WordCounts` (the word is the holder bit plus the number of
  counted threads); `SleepersRemembered` (no wakeup is lost); `ElisionIsSound`
  (need_locks is 0 or -1 only while one thread is left); `LockRefinement` (the
  steps implement `AbstractLock`).  `FutexLock` assumes that there are finitely
  many threads and that their number is below half the range of int
  (`ThreadAssumption`, `HalfAssumption`), that no thread is called `NoThread`
  (`NoThreadAssumption`), and that a thread spins at least once
  (`SpinsAssumption`).  The invariant counts, for every place in `__lock` and
  `__unlock`, whether the thread there is in the word.
* **Mutexes, read-write locks, semaphores, pthread_once and barriers**
  (`LockProofs`, `BarrierProofs`, `SharedProofs`, put together in `MCSync`):
  `StateIsExact`, `NoWakeupIsLost`, `NobodyIsEarly`, `NothingDangles` and
  `PromisesAreKept` say of every component but condition variables what the
  properties of run `sync` say of all.  `SyncAssumption` has the threads finite
  and different from the marks for nobody, the bounds natural numbers and a
  barrier of at least one thread.  The lemmas have the constants of one
  component as parameters, because the theorems are about instances
  (`LockConstants`, `BarrierConstants`, `SharedConstants`).  The invariants say
  who is counted in which counter at which place, and who is on duty to wake a
  sleeper: the thread that has released the word and not yet looked for waiters,
  or the one that was woken and has not yet tried.
* **Asynchronous I/O** (`AioListProofs` for the list of a queue and aio_cancel,
  `AioProofs` for the rest, about `Aio`): `Invariance`; `QueueIsSound` (the
  queue lives as long as somebody uses it, and its count is exact);
  `RequestsAreOrdered` (ordered requests wait, a cancelled request is at rest,
  sleepers of aio_suspend are woken or have missed their wakeup in the one way
  that the code allows).  `IInv` is `TypeOK /\ QueueInv /\ ListInv /\ CancelInv
  /\ Watches /\ Sleepers`: who holds the lock of the map and that of a queue,
  which requests the list holds and in which order, what aio_cancel remembers of
  the list across its waits, and which word a caller of aio_suspend sleeps on.
  `AioAssumption` types the setups, and `NullAssumption` keeps the null pointer
  apart from queues.

What these theorems except is what the properties except: `late` in `Aio`, and
robust mutexes that are not recoverable.

## What is checked only by TLC

* Liveness: `Progress`, `WaitsEnd` and `CallsEnd`.  The prover has no rules for
  fairness.
* Condition variables.  The list of waiters is a chain through frames of the
  stack, and what a walk along it visits is a recursive function: statements
  about it need induction over the list.
* The components of `MCThreads`.  Thread-specific data needs the same induction;
  the others have no proofs so far.
* Streams and the allocator.  `SelectSeq` and the other
  operators on the sequences that hold their state are recursive, with the same
  consequence.
* Everything in `MCProcess`, `Dlopen` and `MCFunctions`.  These modules reach
  RECURSIVE operators, which the prover does not accept.

## What is not modelled

`PROJECT.json` lists every part of the library with the reason.  In short:
wrappers of system calls and the start of the program have no state of their
own; string and memory functions, sorting, searching, locale tables and
multibyte decoding are sequential loops and tables; the environment may not be
changed concurrently; the parsing of text files and packets is left to tests.
Priority inheritance (work of the kernel), process-shared condition variables,
notification of asynchronous I/O, and timeouts of aio_suspend are left out of
the components named above.

## Where the code departs

The models do what the code does, also where it does not do what it should.  The
properties name these cases and say what holds in them; nothing else is
excepted.

* Giving a robust mutex up as not recoverable wakes one sleeper, and that one
  wakes nobody (`pthread_mutex_unlock.c:47`).  `WaitsEnd` of `sync_live` is about
  mutexes that can still be taken.
* When the first allocation of the table of keys fails, the capacity is already
  one, and the next use of a key reads a null table
  (`pthread_key_create.c:165-169`; `TSD`, `UseAbsent`).  `DataCurrent` is about
  the process until then.
* timer_delete reads the thread's id after the mark that lets the thread end
  (`timer_delete.c:10`; `Timer`, `Kill`).  The read faults or finds some other
  number; `NoDangling` says that this needs an expiry of the timer.
* A fork that found no handler runs those registered before the copy, unprepared
  and without the lock, which it then releases for whoever holds it
  (`pthread_atfork.c:23`; `AtFork`, `raced`).  `NoneMissed` promises pairs and a
  whole list only until then.
* fflush(0), or exit, with the lock of the list waits for a stream, while a
  thread that has this stream by flockfile waits for the list (`fflush.c:15`;
  `FileList`, `Embraced`).  `WaitsEnd` of `process_live` admits this end.
* A constructor that calls dlopen: dlopen looks only at the flag of the library
  it was asked for, and one called while the program exits does not return.
  `WaitsEnd` is checked for constructors that do not call dlopen.
* aio_cancel waits for a thread with the lock of the queue held; a thread that
  waits for older writes needs this lock (`aio.c:348`; `Aio`, `Embraced`).  A
  caller of aio_suspend that is overtaken twice between reading and sleeping
  misses its wakeup (`aio_suspend.c:53-64`; `late`).  `CallsEnd` and
  `RequestsOrdered` admit these two and no others.
* When memory runs out in extend_bfs_deps, marks and a longer list stay
  (`dynlink.c:1285`; `Dlopen`, `oom`), and a library that needs itself is linked
  in the lazy list twice (`dynlink.c:2008`; `twice`).
* fmemopen shows what the memory held in a gap that fseek leaves, and bytes that
  do not fit are lost without an error (`Stdio`, `Overlay`, `lost`).
* `Math`: below -13 tgammal has the opposite sign where the argument is nearer to
  the odd integer under it (`TgammalDeparts`); powl of zero to a huge negative
  power overflows where a division by zero is due (`PowlDeparts`); fmaf rounds
  some subnormal results twice, to nearest, and is then one unit off
  (`FmafDeparts`).
* `Formats`: strtod rounds the numbers that `Twice` names twice, and is off by at
  most one unit (two for hexadecimal digits and directed rounding); wscanf's %mc
  with a small width does not grow its block (`Cramped`, `vfwscanf.c:271`).
* `Patterns`: regexec with back references does not try all starts, and may miss
  the longest match where a group that is referred to is empty (`tried`,
  `EmptyRef`, `regexec.c:808`).
* `Calendar`: mktime may take the wrong one of two offsets near a transition
  (`WrongSide`, `__tz.c:353`), and strptime runs past the text when it skips a
  %Z name that it does not know (`strptime.c:208`).

MD5-crypt, SHA-crypt and the key schedule of bcrypt are compared with their
specifications; DES is not, only with its own inverse.  Of the complex functions
catan, clog, cacos, casin and cpow are not modelled, and neither is lrint.

## How to run

    tlc -workers 2 -config MCSync.cfg MCSync
    tlapm MCSync.tla

Each run takes at most about two minutes on four processors, and each module
with proofs at most about eight.
