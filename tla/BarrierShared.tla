---------------------------- MODULE BarrierShared ----------------------------
(***************************************************************************)
(* Process-shared barriers: pshared_barrier_wait, pthread_barrier_destroy  *)
(* and the vmlock that keeps the memory of a shared object mapped while    *)
(* threads may still touch it (src/thread/pthread_barrier_wait.c:3-50,     *)
(* pthread_barrier_destroy.c, vmlock.c, __wait.c).                         *)
(*                                                                         *)
(* _b_lock is a record: n is 0 when free, the number of threads of a round *)
(* while a thread arrives, and the number of threads still to leave at the *)
(* end of a round; dead is the sign bit that destroy sets.                 *)
(***************************************************************************)
EXTENDS Integers, FiniteSets

CONSTANTS
    Thread,
    Limits     \* numbers of threads of a round to consider

VARIABLES
    limit,     \* (_b_limit & INT_MAX) + 1
    lock,      \* _b_lock
    waiters,   \* _b_waiters
    count,     \* _b_count
    waiters2,  \* _b_waiters2
    vmlock,    \* vmlock[0]
    vmwaiters, \* vmlock[1]
    pc,
    on,        \* the call of __wait a thread is in
    v,         \* a thread's copy of the word it works on
    saw,       \* a thread's local w
    inround,   \* ghost: threads that arrived in a round still incomplete
    gone       \* ghost: destroy has returned, the memory may be unmapped

barrier == <<lock, waiters, count, waiters2>>
vm == <<vmlock, vmwaiters>>
vars == <<limit, barrier, vm, pc, on, v, saw, inround, gone>>

LockWord == [n : Nat, dead : BOOLEAN]
Plain(k) == [n |-> k, dead |-> FALSE]
FreeLock == Plain(0)

\* Where __wait is called: for the lock, for the round to complete, for the
\* threads to leave, by destroy, and in __vm_wait.
Site == {"lock", "round", "leaving", "destroy", "vm"}
Waits == {"spin", "inc", "test", "asleep", "dec"}
Arriving == {"cas", "arrive", "reset", "wakeall", "unlock", "kick"}
Leaving == {"vmlock", "fetch", "zero", "wakeout", "look", "peek", "release", "wakelock"}
PC == {"idle", "round", "leaving", "vmunlock", "vmwake", "destroy", "setdead",
       "deadloop", "vmloop"} \cup Waits \cup Arriving \cup Leaving

TypeOK ==
    /\ limit \in Limits
    /\ lock \in LockWord
    /\ waiters \in Nat /\ waiters2 \in Nat
    /\ count \in Int
    /\ vmlock \in Nat /\ vmwaiters \in Nat
    /\ pc \in [Thread -> PC]
    /\ on \in [Thread -> Site]
    /\ v \in [Thread -> [n : Int, dead : BOOLEAN]]
    /\ saw \in [Thread -> BOOLEAN]
    /\ inround \subseteq Thread
    /\ gone \in BOOLEAN

Init ==
    /\ limit \in Limits
    /\ lock = FreeLock
    /\ waiters = 0 /\ count = 0 /\ waiters2 = 0
    /\ vmlock = 0 /\ vmwaiters = 0
    /\ pc = [t \in Thread |-> "idle"]
    /\ on = [t \in Thread |-> "lock"]
    /\ v = [t \in Thread |-> FreeLock]
    /\ saw = [t \in Thread |-> FALSE]
    /\ inround = {}
    /\ gone = FALSE

Goto(t, from, to) == pc[t] = from /\ pc' = [pc EXCEPT ![t] = to]

-----------------------------------------------------------------------------
\* __wait(addr, waiters, val)

Addr(site) == IF site \in {"lock", "destroy"} THEN lock ELSE
              IF site \in {"round", "leaving"} THEN Plain(count) ELSE Plain(vmlock)

\* Where the caller of __wait goes on: it looks at the word again.
Back(site) == IF site = "lock" THEN "cas" ELSE IF site = "destroy" THEN "deadloop" ELSE
              IF site = "vm" THEN "vmloop" ELSE site

\* a_inc or a_dec of the counter that was passed; destroy passes none.
AddWaiter(site, d) ==
    /\ waiters' = IF site = "lock" THEN waiters + d ELSE waiters
    /\ waiters2' = IF site \in {"round", "leaving"} THEN waiters2 + d ELSE waiters2
    /\ vmwaiters' = IF site = "vm" THEN vmwaiters + d ELSE vmwaiters

CallWait(t, from, site) ==
    /\ Goto(t, from, "spin")
    /\ on' = [on EXCEPT ![t] = site]
    /\ v' = [v EXCEPT ![t] = Addr(site)]

\* Returning to the caller: v and on are no longer used.
WaitReturns(t, from) ==
    /\ Goto(t, from, Back(on[t]))
    /\ on' = [on EXCEPT ![t] = "lock"]
    /\ v' = [v EXCEPT ![t] = FreeLock]

Wait(t) ==
    /\ \/ /\ Addr(on[t]) # v[t]
          /\ WaitReturns(t, "spin")
          /\ UNCHANGED <<waiters, waiters2, vmwaiters>>
       \/ /\ Goto(t, "spin", "inc")
          /\ UNCHANGED <<on, v, waiters, waiters2, vmwaiters>>
       \/ /\ Goto(t, "inc", "test")
          /\ AddWaiter(on[t], 1)
          /\ UNCHANGED <<on, v>>
       \/ /\ Goto(t, "test", IF Addr(on[t]) = v[t] THEN "asleep" ELSE "dec")
          /\ UNCHANGED <<on, v, waiters, waiters2, vmwaiters>>
       \/ /\ WaitReturns(t, "dec")
          /\ AddWaiter(on[t], -1)
    /\ UNCHANGED <<limit, lock, count, vmlock, saw, inround, gone>>

Interrupt(t) ==
    /\ Goto(t, "asleep", "test")
    /\ UNCHANGED <<limit, barrier, vm, on, v, saw, inround, gone>>

Sleepers(sites) == {t \in Thread : pc[t] = "asleep" /\ on[t] \in sites}

WakeAll(t, from, to, sites) ==
    /\ pc[t] = from
    /\ pc' = [u \in Thread |-> IF u = t THEN to ELSE
                               IF u \in Sleepers(sites) THEN "test" ELSE pc[u]]

WakeOne(t, from, to, sites) ==
    /\ pc[t] = from
    /\ \/ Sleepers(sites) = {} /\ pc' = [pc EXCEPT ![t] = to]
       \/ \E u \in Sleepers(sites) : pc' = [pc EXCEPT ![t] = to, ![u] = "test"]

-----------------------------------------------------------------------------
\* Arriving

\* Threads that are at the barrier in a round that is not complete.
Pending == inround \cup {t \in Thread : \/ pc[t] \in {"cas", "arrive"}
                                        \/ pc[t] \in Waits /\ on[t] = "lock"}

Destroying == \E t \in Thread :
    \/ pc[t] \in {"destroy", "setdead", "deadloop", "vmloop"}
    \/ pc[t] \in Waits /\ on[t] \in {"destroy", "vm"}

\* No thread calls a barrier that is being destroyed.
Call(t) ==
    /\ ~Destroying /\ ~gone
    /\ Goto(t, "idle", "cas")
    /\ UNCHANGED <<limit, barrier, vm, on, v, saw, inround, gone>>

\* v = a_cas(&b->_b_lock, 0, limit)
Cas(t) ==
    /\ \/ /\ lock = FreeLock
          /\ Goto(t, "cas", "arrive")
          /\ lock' = Plain(limit)
          /\ UNCHANGED <<on, v>>
       \/ /\ lock # FreeLock
          /\ CallWait(t, "cas", "lock")
          /\ UNCHANGED lock
    /\ UNCHANGED <<limit, waiters, count, waiters2, vm, saw, inround, gone>>

\* ++b->_b_count == limit
Arrive(t) ==
    /\ Goto(t, "arrive", IF count + 1 = limit THEN "reset" ELSE "unlock")
    /\ count' = count + 1
    /\ inround' = inround \cup {t}
    /\ UNCHANGED <<limit, lock, waiters, waiters2, vm, on, v, saw, gone>>

\* a_store(&b->_b_count, 0): the round is complete.
Reset(t) ==
    /\ Goto(t, "reset", "wakeall")
    /\ count' = 0
    /\ inround' = {}
    /\ UNCHANGED <<limit, lock, waiters, waiters2, vm, on, v, saw, gone>>

\* if (b->_b_waiters2) __wake(&b->_b_count, -1)
WakeRound(t) ==
    /\ IF waiters2 # 0 THEN WakeAll(t, "wakeall", "vmlock", {"round", "leaving"})
       ELSE Goto(t, "wakeall", "vmlock")
    /\ UNCHANGED <<limit, barrier, vm, on, v, saw, inround, gone>>

\* a_store(&b->_b_lock, 0)
Unlock(t) ==
    /\ Goto(t, "unlock", "kick")
    /\ lock' = FreeLock
    /\ UNCHANGED <<limit, waiters, count, waiters2, vm, on, v, saw, inround, gone>>

\* if (b->_b_waiters) __wake(&b->_b_lock, 1)
Kick(t) ==
    /\ IF waiters # 0 THEN WakeOne(t, "kick", "round", {"lock", "destroy"})
       ELSE Goto(t, "kick", "round")
    /\ UNCHANGED <<limit, barrier, vm, on, v, saw, inround, gone>>

\* while ((v = b->_b_count) > 0) __wait(&b->_b_count, &b->_b_waiters2, v)
AwaitRound(t) ==
    /\ \/ count > 0 /\ CallWait(t, "round", "round")
       \/ count <= 0 /\ Goto(t, "round", "vmlock") /\ UNCHANGED <<on, v>>
    /\ UNCHANGED <<limit, barrier, vm, saw, inround, gone>>

-----------------------------------------------------------------------------
\* Leaving

\* __vm_lock
VmLock(t) ==
    /\ Goto(t, "vmlock", "fetch")
    /\ vmlock' = vmlock + 1
    /\ UNCHANGED <<limit, barrier, vmwaiters, on, v, saw, inround, gone>>

\* a_fetch_add(&b->_b_count, -1) == 1 - limit
Fetch(t) ==
    /\ Goto(t, "fetch", IF count = 1 - limit THEN "zero" ELSE "leaving")
    /\ count' = count - 1
    /\ UNCHANGED <<limit, lock, waiters, waiters2, vm, on, v, saw, inround, gone>>

Zero(t) ==
    /\ Goto(t, "zero", "wakeout")
    /\ count' = 0
    /\ UNCHANGED <<limit, lock, waiters, waiters2, vm, on, v, saw, inround, gone>>

WakeOut(t) ==
    /\ IF waiters2 # 0 THEN WakeAll(t, "wakeout", "look", {"round", "leaving"})
       ELSE Goto(t, "wakeout", "look")
    /\ UNCHANGED <<limit, barrier, vm, on, v, saw, inround, gone>>

\* while ((v = b->_b_count)) __wait(&b->_b_count, &b->_b_waiters2, v)
AwaitLeaving(t) ==
    /\ \/ count # 0 /\ CallWait(t, "leaving", "leaving")
       \/ count = 0 /\ Goto(t, "leaving", "look") /\ UNCHANGED <<on, v>>
    /\ UNCHANGED <<limit, barrier, vm, saw, inround, gone>>

\* v = b->_b_lock
Look(t) ==
    /\ Goto(t, "look", "peek")
    /\ v' = [v EXCEPT ![t] = lock]
    /\ UNCHANGED <<limit, barrier, vm, on, saw, inround, gone>>

\* w = b->_b_waiters
Peek(t) ==
    /\ Goto(t, "peek", "release")
    /\ saw' = [saw EXCEPT ![t] = waiters # 0]
    /\ UNCHANGED <<limit, barrier, vm, on, v, inround, gone>>

\* Mutant: the first thread to leave frees the lock.
FirstOut(t) == v[t].n = limit

LastOut(t) == v[t].n = 1

\* v == INT_MIN+1 || (v == 1 && w)
MustWake(t) == LastOut(t) /\ (v[t].dead \/ saw[t])

\* a_cas(&b->_b_lock, v, v == INT_MIN+1 ? 0 : v-1)
Release(t) ==
    /\ IF lock = v[t]
       THEN /\ Goto(t, "release", IF MustWake(t) THEN "wakelock" ELSE "vmunlock")
            /\ lock' = IF LastOut(t) THEN FreeLock ELSE [n |-> lock.n - 1, dead |-> lock.dead]
       ELSE Goto(t, "release", "look") /\ UNCHANGED lock
    /\ v' = [v EXCEPT ![t] = FreeLock]
    /\ saw' = [saw EXCEPT ![t] = FALSE]
    /\ UNCHANGED <<limit, waiters, count, waiters2, vm, on, inround, gone>>

WakeLock(t) ==
    /\ WakeOne(t, "wakelock", "vmunlock", {"lock", "destroy"})
    /\ UNCHANGED <<limit, barrier, vm, on, v, saw, inround, gone>>

\* __vm_unlock, and the return of pshared_barrier_wait.
VmUnlock(t) ==
    /\ Goto(t, "vmunlock", IF vmlock = 1 THEN "vmwake" ELSE "idle")
    /\ vmlock' = vmlock - 1
    /\ UNCHANGED <<limit, barrier, vmwaiters, on, v, saw, inround, gone>>

VmWake(t) ==
    /\ IF vmwaiters # 0 THEN WakeAll(t, "vmwake", "idle", {"vm"})
       ELSE Goto(t, "vmwake", "idle")
    /\ UNCHANGED <<limit, barrier, vm, on, v, saw, inround, gone>>

-----------------------------------------------------------------------------
\* pthread_barrier_destroy, by a thread that has returned from the barrier, when
\* no thread is or will be blocked on an incomplete round.

Destroy(t) ==
    /\ Pending = {} /\ ~Destroying /\ ~gone
    /\ Goto(t, "idle", "destroy")
    /\ UNCHANGED <<limit, barrier, vm, on, v, saw, inround, gone>>

\* if (b->_b_lock)
TestLock(t) ==
    /\ Goto(t, "destroy", IF lock = FreeLock THEN "vmloop" ELSE "setdead")
    /\ UNCHANGED <<limit, barrier, vm, on, v, saw, inround, gone>>

\* a_or(&b->_b_lock, INT_MIN)
SetDead(t) ==
    /\ Goto(t, "setdead", "deadloop")
    /\ lock' = [n |-> lock.n, dead |-> TRUE]
    /\ UNCHANGED <<limit, waiters, count, waiters2, vm, on, v, saw, inround, gone>>

\* while ((v = b->_b_lock) & INT_MAX) __wait(&b->_b_lock, 0, v)
AwaitUnlocked(t) ==
    /\ \/ lock.n # 0 /\ CallWait(t, "deadloop", "destroy")
       \/ lock.n = 0 /\ Goto(t, "deadloop", "vmloop") /\ UNCHANGED <<on, v>>
    /\ UNCHANGED <<limit, barrier, vm, saw, inround, gone>>

\* __vm_wait, and the return of pthread_barrier_destroy.
VmWait(t) ==
    /\ \/ /\ vmlock # 0
          /\ CallWait(t, "vmloop", "vm")
          /\ UNCHANGED gone
       \/ /\ vmlock = 0
          /\ Goto(t, "vmloop", "idle")
          /\ gone' = TRUE
          /\ UNCHANGED <<on, v>>
    /\ UNCHANGED <<limit, barrier, vm, saw, inround>>

-----------------------------------------------------------------------------
Step(t) ==
    \/ Wait(t) \/ Cas(t) \/ Arrive(t) \/ Reset(t) \/ WakeRound(t) \/ Unlock(t)
    \/ Kick(t) \/ AwaitRound(t) \/ VmLock(t) \/ Fetch(t) \/ Zero(t) \/ WakeOut(t)
    \/ AwaitLeaving(t) \/ Look(t) \/ Peek(t) \/ Release(t) \/ WakeLock(t)
    \/ VmUnlock(t) \/ VmWake(t) \/ TestLock(t) \/ SetDead(t) \/ AwaitUnlocked(t)
    \/ VmWait(t)

Next == \E t \in Thread : Call(t) \/ Destroy(t) \/ Step(t) \/ Interrupt(t)

Spec == Init /\ [][Next]_vars

-----------------------------------------------------------------------------
Past == Leaving \cup {"leaving", "vmunlock", "vmwake"}

\* Threads that may still read or write the barrier.
Touching == {t \in Thread : \/ pc[t] \in Arriving \cup Leaving \cup {"round", "leaving"}
                            \/ pc[t] \in Waits /\ on[t] \in {"lock", "round", "leaving"}}

\* Nobody gets past the barrier before its round is complete, and a new round
\* does not begin before everybody has left the last one
\* (pthread_barrier_wait.c:11-35).
RoundsSeparate ==
    \A t \in Thread :
        /\ pc[t] \in Past => t \notin inround
        /\ pc[t] \in Leaving \ {"wakelock"} => inround = {}

\* When pthread_barrier_destroy returns, no thread touches the barrier any more:
\* its memory may be unmapped (pthread_barrier_destroy.c:5-12, vmlock.c).
NoAccessAfterDestroy == gone => Touching = {}

\* The round of t is complete, or t is in pthread_barrier_destroy.
Out(t) == pc[t] \in Past \cup {"destroy"}

-----------------------------------------------------------------------------
(***************************************************************************)
(* The inductive invariant.                                                *)
(***************************************************************************)
\* The threads that an a_inc of __wait counted and no a_dec yet.
Counted(sites) == {t \in Thread : pc[t] \in {"test", "asleep", "dec"} /\ on[t] \in sites}

\* The threads between their __vm_lock and their __vm_unlock.
VmHolders ==
    {t \in Thread : \/ pc[t] \in (Leaving \ {"vmlock"}) \cup {"leaving", "vmunlock"}
                    \/ pc[t] \in Waits /\ on[t] = "leaving"}

CountsExact ==
    /\ waiters = Cardinality(Counted({"lock"}))
    /\ waiters2 = Cardinality(Counted({"round", "leaving"}))
    /\ vmwaiters = Cardinality(Counted({"vm"}))
    /\ vmlock = Cardinality(VmHolders)

\* The thread that has the lock in order to arrive; the threads of the round, from their
\* arrival to the a_cas with which they leave the lock; of these, the ones that do not yet
\* know that the round is complete or have not said that they leave.
Holder == {t \in Thread : pc[t] \in {"arrive", "reset", "unlock"}}
Inside == {t \in Thread : \/ pc[t] \in {"reset", "wakeall", "unlock", "kick", "round", "leaving"}
                          \/ pc[t] \in Leaving \ {"wakelock"}
                          \/ pc[t] \in Waits /\ on[t] \in {"round", "leaving"}}
Before == {t \in Thread : \/ pc[t] \in {"wakeall", "kick", "round", "vmlock", "fetch"}
                          \/ pc[t] \in Waits /\ on[t] = "round"}
Zeroing == {t \in Thread : pc[t] = "zero"}

\* A round is open: threads arrive one by one, and the count is theirs.
Open ==
    /\ Inside = inround
    /\ \A t \in Inside : \/ pc[t] \in {"reset", "unlock", "kick", "round"}
                         \/ pc[t] \in Waits /\ on[t] = "round"
    /\ count = Cardinality(inround) /\ count <= limit
    /\ count = limit <=> \E t \in Thread : pc[t] = "reset"
    /\ \A t, u \in Holder : t = u
    /\ lock.n = IF Holder = {} THEN 0 ELSE limit

\* The round is complete: the lock counts the threads that have not left.  They first
\* count themselves down from 0 to -limit, and the last of them sets the count to 0.
Closing ==
    /\ inround = {} /\ Holder = {} /\ Inside # {}
    /\ lock.n = Cardinality(Inside)
    /\ IF Before = {} /\ Zeroing = {} THEN count = 0
       ELSE /\ Cardinality(Inside) = limit
            /\ count = Cardinality(Before) - limit
            /\ \A t \in Thread : pc[t] \notin {"wakeout", "look", "peek", "release"}
            /\ Before # {} => Zeroing = {}
            /\ \A t, u \in Zeroing : t = u

\* pthread_barrier_destroy: nobody is or comes in an incomplete round; when it waits for
\* the vmlock everybody has left the lock, and when it has returned the vmlock too.
Ending ==
    /\ Destroying \/ gone => Pending = {}
    /\ \A t \in Thread : pc[t] = "vmloop" \/ (pc[t] \in Waits /\ on[t] = "vm") => Inside = {}
    /\ gone => Inside = {} /\ VmHolders = {}

IInv == TypeOK /\ CountsExact /\ (Open \/ Closing) /\ Ending
=============================================================================
