------------------------------ MODULE ThreadLife ------------------------------
(***************************************************************************)
(* The life of a thread: pthread_create, the start of the new thread,      *)
(* pthread_exit, join, detach and kill, and the thread list lock           *)
(* (src/thread/pthread_create.c, pthread_join.c, pthread_detach.c,         *)
(* pthread_kill.c).                                                        *)
(*                                                                         *)
(* An exiting thread keeps the thread list lock until it is gone: the      *)
(* kernel clears the word (CLONE_CHILD_CLEARTID) and wakes a waiter.  That *)
(* is how join knows that the stack is no longer in use.  Only Main has no *)
(* mapping of its own.  A thread that is gone may be created again.        *)
(***************************************************************************)
EXTENDS Integers, FiniteSets

CONSTANTS
    Thread,
    Main,       \* the initial thread
    None,       \* no thread
    MaxCalls   \* bound on the calls of pthread_create and pthread_kill

VARIABLES
    tl,        \* __thread_list_lock: its owner
    tlwaiters, \* tl_lock_waiters
    list,      \* the circular list of threads
    minus1,    \* libc.threads_minus_1
    detach,    \* detach_state of each thread
    tid,       \* threads whose tid field is not zero
    killlock,  \* the owner of each thread's killlock
    control,   \* start_args.control of each new thread
    mapped,    \* threads whose stack and descriptor exist
    alive,     \* threads the kernel knows
    pc, arg,   \* arg: the thread that an operation is about
    val,       \* the owner of the list lock that a thread waits for
    then,      \* where a thread goes on with the list lock, or after __tl_sync
    claimed,   \* threads that no program may join or detach (any more)
    calls

sync == <<tl, tlwaiters>>
shared == <<list, minus1, detach, tid, killlock, control>>
kernel == <<mapped, alive>>
local == <<pc, arg, val, then>>
program == <<claimed, calls>>
vars == <<sync, shared, kernel, local, program>>

LockPC == {"tl lock", "tl count", "tl test", "tl asleep", "tl uncount", "tl unlock", "tl wake"}
CreatePC == {"clone", "sched", "wake child", "await child", "link", "uncreate", "created", "failed"}
StartPC == {"start", "start wait", "start asleep", "go"}
JoinPC == {"join", "join asleep", "sync", "sync count", "sync test", "sync asleep",
           "sync uncount", "sync wake", "unmap"}
ExitPC == {"exit", "exit killlock", "only", "untid", "unlink", "unmap self", "exited",
           "exit wake", "dying", "vanish"}
PC == {"run", "dead", "ended", "detach", "kill", "tkill"} \cup LockPC \cup CreatePC \cup StartPC
        \cup JoinPC \cup ExitPC

TypeOK ==
    /\ tl \in Thread \cup {None} /\ tlwaiters \in Nat
    /\ list \subseteq Thread /\ minus1 \in Nat
    /\ detach \in [Thread -> {"EXITED", "EXITING", "JOINABLE", "DETACHED"}]
    /\ tid \subseteq Thread
    /\ killlock \in [Thread -> Thread \cup {None}]
    /\ control \in [Thread -> 0..3]
    /\ mapped \subseteq Thread /\ alive \subseteq Thread
    /\ pc \in [Thread -> PC] /\ arg \in [Thread -> Thread \cup {None}]
    /\ then \in [Thread -> PC] /\ val \in [Thread -> Thread \cup {None}]
    /\ claimed \subseteq Thread /\ calls \in 0..MaxCalls

Init ==
    /\ tl = None /\ tlwaiters = 0
    /\ list = {Main} /\ minus1 = 0
    /\ detach = [t \in Thread |-> IF t = Main THEN "JOINABLE" ELSE "EXITED"]
    /\ tid = {Main}
    /\ killlock = [t \in Thread |-> None]
    /\ control = [t \in Thread |-> 0]
    /\ mapped = {Main} /\ alive = {Main}
    /\ pc = [t \in Thread |-> IF t = Main THEN "run" ELSE "dead"]
    /\ arg = [t \in Thread |-> None]
    /\ then = [t \in Thread |-> "run"] /\ val = [t \in Thread |-> None]
    /\ claimed = {} /\ calls = 0

Goto(t, from, to) == pc[t] = from /\ pc' = [pc EXCEPT ![t] = to] /\ UNCHANGED <<arg, val, then>>

\* An operation of t is over.
Back(t, from) ==
    /\ pc[t] = from
    /\ pc' = [pc EXCEPT ![t] = "run"]
    /\ arg' = [arg EXCEPT ![t] = None]
    /\ then' = [then EXCEPT ![t] = "run"]
    /\ UNCHANGED val

-----------------------------------------------------------------------------
(***************************************************************************)
(* The thread list lock.  Nested locking (tl_lock_count) does not occur in *)
(* these functions.                                                        *)
(***************************************************************************)

LockList(t, from, to) ==
    /\ pc[t] = from
    /\ pc' = [pc EXCEPT ![t] = "tl lock"]
    /\ then' = [then EXCEPT ![t] = to]

Sleeping == {t \in Thread : pc[t] \in {"tl asleep", "sync asleep"}}
Woken(u) == IF pc[u] = "tl asleep" THEN "tl test" ELSE "sync test"

TlAwait(t, to) ==
    /\ pc' = [pc EXCEPT ![t] = to]
    /\ val' = [val EXCEPT ![t] = tl]
    /\ UNCHANGED <<arg, then>>

WakeList(t, from, to) ==
    /\ pc[t] = from
    /\ \/ Sleeping = {} /\ pc' = [pc EXCEPT ![t] = to]
       \/ \E u \in Sleeping : pc' = [pc EXCEPT ![t] = to, ![u] = Woken(u)]
    /\ UNCHANGED <<arg, val, then>>

\* __tl_lock: the compare-and-swap, and __wait.
TlLock(t) ==
    /\ pc[t] = "tl lock"
    /\ \/ /\ tl = None /\ tl' = t
          /\ pc' = [pc EXCEPT ![t] = then[t]]
          /\ then' = [then EXCEPT ![t] = "run"] /\ UNCHANGED <<arg, val>>
       \/ tl # None /\ TlAwait(t, "tl count") /\ UNCHANGED tl
    /\ UNCHANGED <<tlwaiters, shared, kernel, program>>

\* __wait(&__thread_list_lock, &tl_lock_waiters, val) of __tl_lock and __tl_sync.
TlWait(t, count, test, asleep, uncount, done) ==
    /\ \/ Goto(t, count, test) /\ tlwaiters' = tlwaiters + 1
       \/ /\ Goto(t, test, IF tl = val[t] THEN asleep ELSE uncount)
          /\ UNCHANGED tlwaiters
       \/ /\ pc[t] = uncount /\ pc' = [pc EXCEPT ![t] = done]
          /\ val' = [val EXCEPT ![t] = None]
          /\ tlwaiters' = tlwaiters - 1
          /\ UNCHANGED <<arg, then>>
    /\ UNCHANGED <<tl, shared, kernel, program>>

LockWait(t) == TlWait(t, "tl count", "tl test", "tl asleep", "tl uncount", "tl lock")

Spurious(t) ==
    /\ t \in Sleeping
    /\ Goto(t, pc[t], Woken(t))
    /\ UNCHANGED <<sync, shared, kernel, program>>

\* __tl_unlock
TlUnlock(t) ==
    /\ Goto(t, "tl unlock", "tl wake")
    /\ tl' = None
    /\ UNCHANGED <<tlwaiters, shared, kernel, program>>

TlWake(t) ==
    /\ IF tlwaiters # 0 THEN WakeList(t, "tl wake", then[t])
       ELSE Goto(t, "tl wake", then[t])
    /\ UNCHANGED <<sync, shared, kernel, program>>

-----------------------------------------------------------------------------
(***************************************************************************)
(* pthread_create and start.                                               *)
(***************************************************************************)

\* Allocation of the descriptor and the stack, with and without scheduling
\* attributes (control is then 1).
Create(t, u, detached, sched) ==
    /\ calls < MaxCalls /\ calls' = calls + 1
    /\ u \notin mapped \cup alive
    /\ mapped' = mapped \cup {u}
    /\ detach' = [detach EXCEPT ![u] = IF detached THEN "DETACHED" ELSE "JOINABLE"]
    /\ control' = [control EXCEPT ![u] = sched]
    /\ LockList(t, "run", "clone")
    /\ arg' = [arg EXCEPT ![t] = u]
    /\ claimed' = claimed \cup {u}
    /\ UNCHANGED <<sync, list, minus1, tid, killlock, alive, val>>

\* A thread that runs can give its handle away.
Known(u) == claimed' = IF detach[u] = "DETACHED" THEN claimed ELSE claimed \ {u}

\* The new thread runs as soon as it has been cloned, or the clone fails.
Clone(t) ==
    LET u == arg[t] IN
    /\ pc[t] = "clone"
    /\ minus1' = minus1 + 1
    /\ \/ /\ pc' = [pc EXCEPT ![t] = IF control[u] = 1 THEN "sched" ELSE "link",
                              ![u] = IF control[u] = 0 THEN "run" ELSE "start"]
          /\ alive' = alive \cup {u} /\ tid' = tid \cup {u}
          /\ IF control[u] = 0 THEN Known(u) ELSE UNCHANGED claimed
       \/ pc' = [pc EXCEPT ![t] = "uncreate"] /\ UNCHANGED <<alive, tid, claimed>>
    /\ UNCHANGED <<sync, list, detach, killlock, control, mapped, arg, val, then, calls>>

\* SYS_sched_setscheduler, then a_swap(&args->control, ret ? 3 : 0).
Sched(t) ==
    /\ pc[t] = "sched"
    /\ \E ret \in {0, 3} :
        LET next == IF ret = 0 THEN "link" ELSE "await child" IN
        /\ control' = [control EXCEPT ![arg[t]] = ret]
        /\ pc' = [pc EXCEPT ![t] = IF control[arg[t]] = 2 THEN "wake child" ELSE next]
        /\ then' = [then EXCEPT ![t] = next]
    /\ UNCHANGED <<sync, list, minus1, detach, tid, killlock, kernel, arg, val, program>>

WakeChild(t) ==
    /\ pc[t] = "wake child"
    /\ pc' = [pc EXCEPT ![t] = then[t],
                        ![arg[t]] = IF @ = "start asleep" THEN "start wait" ELSE @]
    /\ UNCHANGED <<sync, shared, kernel, arg, val, then, program>>

\* __wait(&args->control, 0, 3): the kernel clears control when the child is gone.
AwaitChild(t) ==
    /\ Goto(t, "await child", "uncreate")
    /\ control[arg[t]] # 3
    /\ UNCHANGED <<sync, shared, kernel, program>>

Unlock(t, from, to) ==
    /\ pc[t] = from
    /\ pc' = [pc EXCEPT ![t] = "tl unlock"]
    /\ then' = [then EXCEPT ![t] = to]

Link(t) ==
    /\ Unlock(t, "link", "created")
    /\ list' = list \cup {arg[t]}
    /\ UNCHANGED <<sync, minus1, detach, tid, killlock, control, kernel, arg, val, program>>

Uncreate(t) ==
    /\ Unlock(t, "uncreate", "failed")
    /\ minus1' = minus1 - 1
    /\ UNCHANGED <<sync, list, detach, tid, killlock, control, kernel, arg, val, program>>

\* The end of pthread_create; after a failure the mapping is given back.
Created(t) ==
    /\ \/ Back(t, "created") /\ UNCHANGED <<mapped, claimed>>
       \/ /\ Back(t, "failed") /\ mapped' = mapped \ {arg[t]}
          /\ claimed' = claimed \ {arg[t]}
    /\ UNCHANGED <<sync, shared, alive, calls>>

\* a_cas(&args->control, 1, 2), __wait(&args->control, 0, 2)
Start(t) ==
    /\ \/ /\ control[t] = 1 /\ Goto(t, "start", "start wait")
          /\ control' = [control EXCEPT ![t] = 2]
       \/ control[t] # 1 /\ Goto(t, "start", "go") /\ UNCHANGED control
       \/ control[t] = 2 /\ Goto(t, "start wait", "start asleep") /\ UNCHANGED control
       \/ control[t] # 2 /\ Goto(t, "start wait", "go") /\ UNCHANGED control
    /\ UNCHANGED <<sync, list, minus1, detach, tid, killlock, kernel, program>>

Go(t) ==
    /\ \/ control[t] = 0 /\ Goto(t, "go", "run") /\ Known(t)
       \/ control[t] # 0 /\ Goto(t, "go", "vanish") /\ UNCHANGED claimed
    /\ UNCHANGED <<sync, shared, kernel, calls>>

\* SYS_set_tid_address and SYS_exit: control is cleared, the list lock is not.
Vanish(t) ==
    /\ Goto(t, "vanish", "dead")
    /\ alive' = alive \ {t} /\ tid' = tid \ {t}
    /\ control' = [control EXCEPT ![t] = 0]
    /\ UNCHANGED <<sync, list, minus1, detach, killlock, mapped, program>>

-----------------------------------------------------------------------------
(***************************************************************************)
(* pthread_join, pthread_detach, pthread_kill.  A program joins or         *)
(* detaches a thread once and does not use its handle afterwards.          *)
(***************************************************************************)

Target(u) ==
    /\ u \in mapped \ claimed
    /\ \A k \in Thread : ~(pc[k] \in {"kill", "tkill"} /\ arg[k] = u)

Call(t, u, to) ==
    /\ pc[t] = "run"
    /\ pc' = [pc EXCEPT ![t] = to]
    /\ arg' = [arg EXCEPT ![t] = u]
    /\ UNCHANGED <<val, then>>

CallJoin(t, u) ==
    /\ t # u /\ Target(u)
    /\ Call(t, u, "join")
    /\ claimed' = claimed \cup {u}
    /\ UNCHANGED <<sync, shared, kernel, calls>>

CallDetach(t, u) ==
    /\ Target(u)
    /\ Call(t, u, "detach")
    /\ claimed' = claimed \cup {u}
    /\ UNCHANGED <<sync, shared, kernel, calls>>

\* A detached thread frees itself; one that is exiting already must be joined.
Detach(t) ==
    /\ pc[t] = "detach"
    /\ \/ /\ detach[arg[t]] = "JOINABLE"
          /\ Back(t, "detach")
          /\ detach' = [detach EXCEPT ![arg[t]] = "DETACHED"]
       \/ /\ detach[arg[t]] # "JOINABLE"
          /\ Goto(t, "detach", "join")
          /\ UNCHANGED detach
    /\ UNCHANGED <<sync, list, minus1, tid, killlock, control, kernel, program>>

Join(t) ==
    /\ Goto(t, "join", IF detach[arg[t]] = "EXITED" THEN "sync" ELSE "join asleep")
    /\ UNCHANGED <<sync, shared, kernel, program>>

JoinTimesOut(t) ==
    /\ Back(t, "join asleep")
    /\ claimed' = claimed \ {arg[t]}
    /\ UNCHANGED <<sync, shared, kernel, calls>>

\* __tl_sync waits until the list lock has been given up once, and passes the
\* wakeup on that it may have used.
TlSync(t) ==
    /\ pc[t] = "sync"
    /\ IF tl = None THEN Goto(t, "sync", "unmap") ELSE TlAwait(t, "sync count")
    /\ UNCHANGED <<sync, shared, kernel, program>>

SyncWait(t) == TlWait(t, "sync count", "sync test", "sync asleep", "sync uncount", "sync wake")

SyncWake(t) ==
    /\ \/ tlwaiters # 0 /\ WakeList(t, "sync wake", "unmap")
       \/ tlwaiters = 0 /\ Goto(t, "sync wake", "unmap")
    /\ UNCHANGED <<sync, shared, kernel, program>>

\* munmap, unless it is the initial thread.
Unmap(t) ==
    /\ Back(t, "unmap")
    /\ mapped' = IF arg[t] = Main THEN mapped ELSE mapped \ {arg[t]}
    /\ claimed' = IF arg[t] = Main THEN claimed ELSE claimed \ {arg[t]}
    /\ UNCHANGED <<sync, shared, alive, calls>>

CallKill(t, u) ==
    /\ u \in mapped \ claimed
    /\ calls < MaxCalls /\ calls' = calls + 1
    /\ Call(t, u, "kill")
    /\ UNCHANGED <<sync, shared, kernel, claimed>>

\* LOCK(t->killlock); with tid zero no signal is sent.
Kill(t) ==
    LET u == arg[t] IN
    /\ pc[t] = "kill" /\ killlock[u] = None
    /\ \/ /\ u \in tid /\ Goto(t, "kill", "tkill")
          /\ killlock' = [killlock EXCEPT ![u] = t]
       \/ u \notin tid /\ Back(t, "kill") /\ UNCHANGED killlock
    /\ UNCHANGED <<sync, list, minus1, detach, tid, control, kernel, program>>

\* SYS_tkill and UNLOCK
Tkill(t) ==
    /\ Back(t, "tkill")
    /\ killlock' = [killlock EXCEPT ![arg[t]] = None]
    /\ UNCHANGED <<sync, list, minus1, detach, tid, control, kernel, program>>

-----------------------------------------------------------------------------
(***************************************************************************)
(* pthread_exit.  The robust list is in Mutex, destructors in TSD.         *)
(***************************************************************************)

CallExit(t) ==
    /\ Goto(t, "run", "exit")
    /\ UNCHANGED <<sync, shared, kernel, program>>

\* a_cas(&self->detach_state, DT_JOINABLE, DT_EXITING)
Exit(t) ==
    /\ Goto(t, "exit", "exit killlock")
    /\ detach' = [detach EXCEPT ![t] = IF @ = "JOINABLE" THEN "EXITING" ELSE @]
    /\ UNCHANGED <<sync, list, minus1, tid, killlock, control, kernel, program>>

\* Mutant: tid is cleared without killlock.
LockKillNothing(t) ==
    /\ LockList(t, "exit killlock", "only")
    /\ UNCHANGED <<sync, shared, kernel, arg, val, program>>

LockKill(t) ==
    /\ killlock[t] = None /\ killlock' = [killlock EXCEPT ![t] = t]
    /\ LockList(t, "exit killlock", "only")
    /\ UNCHANGED <<sync, list, minus1, detach, tid, control, kernel, arg, val, program>>

\* The last thread ends the process instead.
Only(t) ==
    /\ \/ list = {t} /\ Goto(t, "only", "ended") /\ tl' = None
          /\ killlock' = [killlock EXCEPT ![t] = None] /\ UNCHANGED tid
       \/ /\ list # {t} /\ Goto(t, "only", "unlink")
          /\ tid' = tid \ {t} /\ killlock' = [killlock EXCEPT ![t] = None]
          /\ UNCHANGED tl
    /\ UNCHANGED <<tlwaiters, list, minus1, detach, control, kernel, program>>

\* state is that of the compare-and-swap: nobody changes it any more.
Unlink(t) ==
    /\ Goto(t, "unlink", IF detach[t] = "DETACHED" /\ t # Main THEN "unmap self" ELSE "exited")
    /\ list' = list \ {t} /\ minus1' = minus1 - 1
    /\ UNCHANGED <<sync, detach, tid, killlock, control, kernel, program>>

UnmapSelf(t) ==
    /\ Goto(t, "unmap self", "dying")
    /\ mapped' = mapped \ {t} /\ claimed' = claimed \ {t}
    /\ UNCHANGED <<sync, shared, alive, calls>>

Exited(t) ==
    /\ Goto(t, "exited", "exit wake")
    /\ detach' = [detach EXCEPT ![t] = "EXITED"]
    /\ UNCHANGED <<sync, list, minus1, tid, killlock, control, kernel, program>>

ExitWake(t) ==
    /\ pc[t] = "exit wake"
    /\ pc' = [u \in Thread |-> IF u = t THEN "dying"
                               ELSE IF pc[u] = "join asleep" /\ arg[u] = t THEN "join"
                               ELSE pc[u]]
    /\ UNCHANGED <<sync, shared, kernel, arg, val, then, program>>

\* SYS_exit: the kernel clears the list lock and wakes one waiter.
Die(t) ==
    /\ WakeList(t, "dying", "dead")
    /\ tl' = None
    /\ alive' = alive \ {t}
    /\ UNCHANGED <<tlwaiters, shared, mapped, program>>

-----------------------------------------------------------------------------
Program(t) ==
    \/ \E u \in Thread, d \in BOOLEAN, s \in {0, 1} : Create(t, u, d, s)
    \/ \E u \in Thread : CallJoin(t, u) \/ CallDetach(t, u) \/ CallKill(t, u)
    \/ CallExit(t)

Step(t) ==
    \/ TlLock(t) \/ LockWait(t) \/ TlUnlock(t) \/ TlWake(t)
    \/ Clone(t) \/ Sched(t) \/ WakeChild(t) \/ AwaitChild(t) \/ Link(t) \/ Uncreate(t)
    \/ Created(t) \/ Start(t) \/ Go(t) \/ Vanish(t)
    \/ Detach(t) \/ Join(t) \/ TlSync(t) \/ SyncWait(t) \/ SyncWake(t) \/ Unmap(t)
    \/ Kill(t) \/ Tkill(t)
    \/ Exit(t) \/ LockKill(t) \/ Only(t) \/ Unlink(t) \/ UnmapSelf(t) \/ Exited(t)
    \/ ExitWake(t) \/ Die(t)

Next == \E t \in Thread : Program(t) \/ Step(t) \/ JoinTimesOut(t) \/ Spurious(t)

Spec == Init /\ [][Next]_vars

-----------------------------------------------------------------------------
(***************************************************************************)
(* Properties.                                                             *)
(***************************************************************************)

\* The stack and the descriptor of a thread are unmapped only when nothing uses
\* them any more: not while the thread itself still executes on its stack (a
\* detached thread unmaps it as its last act), be it one that exits or one whose
\* creation has failed, and not while another thread works on its descriptor.
StackOutlives ==
    /\ \A t \in alive : t \in mapped \/ (pc[t] = "dying" /\ detach[t] = "DETACHED")
    /\ \A t \in Thread :
        pc[t] \in JoinPC \cup CreatePC \cup {"detach", "kill", "tkill"} =>
            arg[t] \in mapped \/ pc[t] = "created"

\* pthread_kill sends its signal to the thread it was asked about, never to a
\* kernel id that is free again.
KillHitsTarget == \A t \in Thread : pc[t] = "tkill" => arg[t] \in alive

\* Whoever finds the list lock free finds in the list exactly the threads that
\* run, and threads_minus_1 counts them; an exiting thread is gone for the kernel,
\* too, when the lock becomes free.
ListExact == tl = None => list = alive /\ minus1 = Cardinality(list) - 1

\* No wakeup of the list lock is lost: while it is free and a thread sleeps on it,
\* another one is about to wake it, to take the lock or to pass a wakeup on.
NoLostWakeup ==
    tl = None /\ Sleeping # {} =>
        \E t \in Thread : pc[t] \in {"tl wake", "tl lock", "tl count", "tl test", "tl uncount",
                                     "sync test", "sync uncount", "sync wake"}

\* A join whose target has exited, and a call that the program has begun.
JoinDue(t) == pc[t] \in {"join", "join asleep"} /\ detach[arg[t]] = "EXITED"
Begun(t) == pc[t] \in {"clone", "exit"}
Ended(t) == pc[t] \in {"run", "dead", "ended"}
=============================================================================
