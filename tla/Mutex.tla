-------------------------------- MODULE Mutex --------------------------------
(***************************************************************************)
(* pthread_mutex_lock, trylock, timedlock, unlock and consistent for       *)
(* normal, recursive, errorcheck and robust mutexes, and what              *)
(* pthread_exit does to the mutexes a thread still owns                    *)
(* (src/thread/pthread_mutex_*.c, pthread_create.c:104-118).  Priority     *)
(* inheritance (type bit 8) is not modelled.                               *)
(*                                                                         *)
(* The word _m_lock is a record: own is its low 30 bits (a thread id, the  *)
(* EBUSY of a normal mutex, or 0x3fffffff), died is bit 30, cont bit 31.   *)
(* Failed attempts before the waiting loop (the fast path, the first       *)
(* trylock and the spinning) have no effect and are folded into one.       *)
(***************************************************************************)
EXTENDS Integers, FiniteSets

CONSTANTS
    Thread,
    NoThread,   \* own = 0
    Busy,       \* own = EBUSY, how a normal mutex is marked locked
    Dead,       \* own = 0x3fffffff, not recoverable
    Types,      \* the mutex types to consider
    MaxCount    \* INT_MAX, the largest recursion count

VARIABLES
    type,     \* _m_type, fixed when the mutex is initialised
    lock,     \* _m_lock
    waiters,  \* _m_waiters
    count,    \* _m_count
    pc,
    op,       \* the call a thread is executing
    old,      \* the value of _m_lock a thread read last
    saw,      \* whether a thread read _m_waiters as nonzero
    held,     \* ghost: successful locks minus unlocks of each thread
    damaged   \* ghost: the protected data was left behind by a dead owner

vars == <<type, lock, waiters, count, pc, op, old, saw, held, damaged>>

Word == [own : Thread \cup {NoThread, Busy, Dead}, died : BOOLEAN, cont : BOOLEAN]

Free == [own |-> NoThread, died |-> FALSE, cont |-> FALSE]
OwnerDied == [own |-> NoThread, died |-> TRUE, cont |-> FALSE]
NotRecoverable == [own |-> Dead, died |-> TRUE, cont |-> FALSE]

\* (type & 15) == PTHREAD_MUTEX_NORMAL: no owner is recorded.
Normal == type.kind = "normal" /\ ~type.robust

PC == {"idle", "read", "cas", "look", "count", "mark", "wait", "asleep",
       "peek", "uncount", "timeout", "swap", "wake", "bury", "exitwake", "gone"}

Op == {"lock", "trylock", "timedlock"}

TypeOK ==
    /\ type \in Types
    /\ lock \in Word
    /\ waiters \in Nat
    /\ count \in 0..MaxCount
    /\ pc \in [Thread -> PC]
    /\ op \in [Thread -> Op]
    /\ old \in [Thread -> Word]
    /\ saw \in [Thread -> BOOLEAN]
    /\ held \in [Thread -> Nat]
    /\ damaged \in BOOLEAN

Init ==
    /\ type \in Types
    /\ lock = Free
    /\ waiters = 0
    /\ count = 0
    /\ pc = [t \in Thread |-> "idle"]
    /\ op = [t \in Thread |-> "lock"]
    /\ old = [t \in Thread |-> Free]
    /\ saw = [t \in Thread |-> FALSE]
    /\ held = [t \in Thread |-> 0]
    /\ damaged = FALSE

Goto(t, from, to) == pc[t] = from /\ pc' = [pc EXCEPT ![t] = to]

locals == <<op, old, saw>>

\* A function returns: its local variables are gone.
Return(t, from) ==
    /\ Goto(t, from, "idle")
    /\ op' = [op EXCEPT ![t] = "lock"]
    /\ old' = [old EXCEPT ![t] = Free]
    /\ saw' = [saw EXCEPT ![t] = FALSE]

Asleep == {t \in Thread : pc[t] = "asleep"}

-----------------------------------------------------------------------------
\* Locking

\* !own && (!r || (type & 4))
Available == lock.own = NoThread /\ (lock = Free \/ type.robust)

\* A thread calls a locking function.  On a normal mutex it already holds the
\* call would deadlock by definition, so the program does not make it.
Call(t, o) ==
    /\ Normal => held[t] = 0
    /\ Goto(t, "idle", IF Normal THEN "cas" ELSE "read")
    /\ op' = [op EXCEPT ![t] = o]
    /\ UNCHANGED <<type, lock, waiters, count, old, saw, held, damaged>>

\* EBUSY: trylock returns it, the others enter the waiting loop.
IsBusy(t, from) ==
    \/ op[t] = "trylock" /\ Return(t, from)
    \/ /\ op[t] # "trylock"
       /\ Goto(t, from, "look")
       /\ saw' = [saw EXCEPT ![t] = FALSE]
       /\ UNCHANGED <<op, old>>

\* (unsigned)m->_m_count >= INT_MAX
AtLimit == count >= MaxCount

\* __pthread_mutex_trylock_owner up to its compare-and-swap.
TryRead(t) ==
    /\ \/ \* The owner locks a recursive mutex again, or gets EAGAIN.
          /\ lock.own = t /\ type.kind = "recursive"
          /\ Return(t, "read")
          /\ IF AtLimit THEN UNCHANGED <<count, held>>
             ELSE /\ count' = count + 1
                  /\ held' = [held EXCEPT ![t] = @ + 1]
       \/ \* ENOTRECOVERABLE
          /\ lock.own = Dead
          /\ Return(t, "read")
          /\ UNCHANGED <<count, held>>
       \/ /\ \/ lock.own = t /\ type.kind # "recursive"
             \/ lock.own \notin {t, Dead, NoThread}
             \/ lock.own = NoThread /\ ~Available
          /\ IsBusy(t, "read")
          /\ UNCHANGED <<count, held>>
       \/ /\ Available
          /\ Goto(t, "read", IF type.shared THEN "peek" ELSE "cas")
          /\ old' = [old EXCEPT ![t] = lock]
          /\ UNCHANGED <<op, saw, count, held>>
    /\ UNCHANGED <<type, lock, waiters, damaged>>

\* (type & 128) && m->_m_waiters
Peek(t) ==
    /\ Goto(t, "peek", "cas")
    /\ saw' = [saw EXCEPT ![t] = waiters # 0]
    /\ UNCHANGED <<type, lock, waiters, count, op, old, held, damaged>>

\* The word a successful compare-and-swap writes: the owner-died bit stays,
\* and a process-shared mutex with waiters is marked contended at once.
Taken(t) ==
    IF Normal THEN [own |-> Busy, died |-> FALSE, cont |-> FALSE]
    ELSE [own |-> t, died |-> old[t].died, cont |-> saw[t]]

\* Mutant: the count a dead owner left is kept.
TryCasKeepsCount(t) ==
    /\ IF lock = old[t]
       THEN /\ lock' = Taken(t)
            /\ held' = [held EXCEPT ![t] = 1]
            /\ Return(t, "cas")
       ELSE IsBusy(t, "cas") /\ UNCHANGED <<lock, held>>
    /\ UNCHANGED <<type, waiters, count, damaged>>

\* a_cas, then putting the mutex on the robust list and resetting the count
\* of a mutex inherited from a dead owner (EOWNERDEAD).
TryCas(t) ==
    /\ IF lock = old[t]
       THEN /\ lock' = Taken(t)
            /\ held' = [held EXCEPT ![t] = 1]
            /\ count' = IF old[t] # Free THEN 0 ELSE count
            /\ Return(t, "cas")
       ELSE IsBusy(t, "cas") /\ UNCHANGED <<lock, held, count>>
    /\ UNCHANGED <<type, waiters, damaged>>

Retry == IF Normal THEN "cas" ELSE "read"

\* r = m->_m_lock and the two tests of the waiting loop: try again, EDEADLK,
\* or wait for the value just read to change.
Look(t) ==
    /\ \/ /\ Available
          /\ Goto(t, "look", Retry)
          /\ UNCHANGED locals
       \/ /\ type.kind = "errorcheck" /\ lock.own = t
          /\ Return(t, "look")
       \/ /\ ~Available /\ ~(type.kind = "errorcheck" /\ lock.own = t)
          /\ Goto(t, "look", "count")
          /\ old' = [old EXCEPT ![t] = lock]
          /\ UNCHANGED <<op, saw>>
    /\ UNCHANGED <<type, lock, waiters, count, held, damaged>>

\* a_inc(&m->_m_waiters)
Count(t) ==
    /\ Goto(t, "count", "mark")
    /\ waiters' = waiters + 1
    /\ UNCHANGED <<type, lock, count, op, old, saw, held, damaged>>

Marked(w) == [own |-> w.own, died |-> w.died, cont |-> TRUE]

\* a_cas(&m->_m_lock, r, r | 0x80000000); old[t] becomes the awaited value t.
Mark(t) ==
    /\ Goto(t, "mark", "wait")
    /\ lock' = IF lock = old[t] THEN Marked(lock) ELSE lock
    /\ old' = [old EXCEPT ![t] = Marked(@)]
    /\ UNCHANGED <<type, waiters, count, op, saw, held, damaged>>

\* __timedwait: the deadline has passed already, or FUTEX_WAIT.
Wait(t) ==
    /\ \/ Goto(t, "wait", IF lock = old[t] THEN "asleep" ELSE "uncount")
       \/ op[t] = "timedlock" /\ Goto(t, "wait", "timeout")
    /\ UNCHANGED <<type, lock, waiters, count, op, old, saw, held, damaged>>

\* FUTEX_WAIT returns without a wake: a signal (which retries) or the deadline.
WaitEnds(t) ==
    /\ \/ Goto(t, "asleep", "uncount")
       \/ op[t] = "timedlock" /\ Goto(t, "asleep", "timeout")
    /\ UNCHANGED <<type, lock, waiters, count, op, old, saw, held, damaged>>

\* a_dec(&m->_m_waiters), then another turn or the return of ETIMEDOUT.
Uncount(t) ==
    /\ \/ /\ Goto(t, "uncount", Retry)
          /\ old' = [old EXCEPT ![t] = Free]
          /\ UNCHANGED <<op, saw>>
       \/ Return(t, "timeout")
    /\ waiters' = waiters - 1
    /\ UNCHANGED <<type, lock, count, held, damaged>>

LockStep(t) ==
    \/ TryRead(t) \/ Peek(t) \/ TryCas(t) \/ Look(t) \/ Count(t) \/ Mark(t)
    \/ Wait(t) \/ Uncount(t)

-----------------------------------------------------------------------------
\* Unlocking

\* waiters = m->_m_waiters, then the owner checks.  Only the holder unlocks a
\* normal mutex; the other types answer EPERM or undo one recursive lock.
Unlock(t) ==
    /\ Normal => held[t] > 0
    /\ \/ /\ ~Normal /\ lock.own # t
          /\ Return(t, "idle")
          /\ UNCHANGED <<count, held>>
       \/ /\ ~Normal /\ lock.own = t
          /\ type.kind = "recursive" /\ count > 0
          /\ Return(t, "idle")
          /\ count' = count - 1
          /\ held' = [held EXCEPT ![t] = @ - 1]
       \/ /\ Normal \/ lock.own = t
          /\ ~(type.kind = "recursive" /\ count > 0)
          /\ Goto(t, "idle", "swap")
          /\ saw' = [saw EXCEPT ![t] = waiters # 0]
          /\ UNCHANGED <<op, old, count, held>>
    /\ UNCHANGED <<type, lock, waiters, damaged>>

\* a_swap(&m->_m_lock, new): a robust mutex whose damage was not repaired is
\* left not recoverable.
Swap(t) ==
    /\ \/ /\ saw[t] \/ lock.cont
          /\ Goto(t, "swap", "wake")
          /\ UNCHANGED locals
       \/ /\ ~saw[t] /\ ~lock.cont
          /\ Return(t, "swap")
    /\ lock' = IF type.robust /\ lock.died THEN NotRecoverable ELSE Free
    /\ held' = [held EXCEPT ![t] = 0]
    /\ UNCHANGED <<type, waiters, count, damaged>>

\* __wake(&m->_m_lock, 1)
WakeOne(t, from, to) ==
    /\ pc[t] = from
    /\ \/ Asleep = {} /\ pc' = [pc EXCEPT ![t] = to]
       \/ \E u \in Asleep : pc' = [pc EXCEPT ![t] = to, ![u] = "uncount"]
    /\ saw' = [saw EXCEPT ![t] = FALSE]
    /\ UNCHANGED <<type, lock, waiters, count, op, old, held, damaged>>

Wake(t) == WakeOne(t, "wake", "idle")

\* pthread_mutex_consistent, when it does not answer EINVAL or EPERM.
Consistent(t) ==
    /\ pc[t] = "idle"
    /\ type.robust /\ lock.died /\ lock.own = t
    /\ lock' = [own |-> lock.own, died |-> FALSE, cont |-> lock.cont]
    /\ damaged' = FALSE
    /\ UNCHANGED <<type, waiters, count, pc, op, old, saw, held>>

UnlockStep(t) == Swap(t) \/ Wake(t)

-----------------------------------------------------------------------------
\* pthread_exit walks the list of owned mutexes.  A normal mutex is not on the
\* list; a thread that exits holding one is outside the model.

Exit(t) ==
    /\ Normal => held[t] = 0
    /\ Goto(t, "idle", IF ~Normal /\ lock.own = t THEN "bury" ELSE "gone")
    /\ saw' = [saw EXCEPT ![t] = ~Normal /\ lock.own = t /\ waiters # 0]
    /\ UNCHANGED <<type, lock, waiters, count, op, old, held, damaged>>

\* a_swap(&m->_m_lock, 0x40000000)
Bury(t) ==
    /\ Goto(t, "bury", IF saw[t] \/ lock.cont THEN "exitwake" ELSE "gone")
    /\ lock' = OwnerDied
    /\ held' = [held EXCEPT ![t] = 0]
    /\ damaged' = TRUE
    /\ UNCHANGED <<type, waiters, count, op, old, saw>>

ExitWake(t) == WakeOne(t, "exitwake", "gone")

ExitStep(t) == Bury(t) \/ ExitWake(t)

-----------------------------------------------------------------------------
Next ==
    \E t \in Thread :
      \/ \E o \in Op : Call(t, o)
      \/ LockStep(t) \/ WaitEnds(t)
      \/ Unlock(t) \/ UnlockStep(t) \/ Consistent(t)
      \/ Exit(t) \/ ExitStep(t)

Spec == Init /\ [][Next]_vars

-----------------------------------------------------------------------------
\* The mutex knows its owner: a thread that holds a mutex of an owner-tracking
\* type is the one in the word, _m_count is its number of extra locks, and
\* nobody is recorded who does not hold it (pthread_mutex_trylock.c:10-62,
\* pthread_mutex_unlock.c:13-41).
OwnerExact ==
    ~Normal => \A t \in Thread :
        /\ lock.own = t <=> held[t] > 0
        /\ held[t] > 0 => held[t] = count + 1

\* Threads that can still take a free mutex or wake somebody who can.
OnDuty == {t \in Thread :
             \/ pc[t] \in {"wake", "exitwake", "uncount"}
             \/ pc[t] \in {"read", "peek", "cas", "look"} /\ op[t] # "trylock"}

\* No wakeup is lost between the counter, the contended bit and the futex: a
\* thread asleep on a mutex that can be taken is owed a wake or has an awake
\* competitor (pthread_mutex_timedlock.c:82-87, pthread_mutex_unlock.c:6,41,47).
NoLostWakeup == Available /\ Asleep # {} => OnDuty # {}

\* What a dead owner left behind is reported until somebody calls
\* pthread_mutex_consistent: the owner-died bit is never dropped, so every new
\* owner gets EOWNERDEAD or ENOTRECOVERABLE (pthread_mutex_trylock.c:35,59).
DamageReported == damaged => lock.died

\* A mutex given up as not recoverable is never locked again.
StaysDead == lock.own = Dead => lock'.own = Dead /\ held' = held

\* A mutex implements the abstract lock; recursive locks stutter.
owner == IF \E t \in Thread : held[t] > 0
         THEN CHOOSE t \in Thread : held[t] > 0 ELSE NoThread

Abstract == INSTANCE AbstractLock

-----------------------------------------------------------------------------
(***************************************************************************)
(* The inductive invariant.                                                *)
(***************************************************************************)
Counted == {t \in Thread : pc[t] \in {"mark", "wait", "asleep", "uncount", "timeout"}}

\* _m_waiters counts the threads between their a_inc and their a_dec.
WaitersExact == waiters = Cardinality(Counted)

\* A normal mutex is busy while one thread holds it, once; the others know their
\* owner.  The count is that of a recursive mutex somebody holds or held when it died.
HoldersExact ==
    /\ OwnerExact
    /\ Normal => /\ lock.own \in {NoThread, Busy} /\ ~lock.died /\ ~damaged
                 /\ \A t \in Thread : held[t] > 0 => lock.own = Busy
                 /\ \A t, u \in Thread : held[t] > 0 /\ held[u] > 0 => t = u
    /\ ~Normal => lock.own # Busy
    /\ type.kind # "recursive" \/ lock = Free => count = 0
    /\ lock.died /\ ~type.robust => lock.own = NoThread

\* The word a thread read last, for as long as it is used: it was available when the
\* thread tries to take the mutex, and not when it goes to sleep.
Following ==
    \A t \in Thread :
        /\ Normal /\ pc[t] \in {"idle", "cas", "look", "swap", "wake"} => old[t] = Free
        /\ ~Normal /\ pc[t] \in {"peek", "cas"} =>
             old[t].own = NoThread /\ (old[t] = Free \/ type.robust)
        /\ pc[t] \in {"count", "mark", "wait"} =>
             old[t].own # NoThread \/ (~type.robust /\ old[t] # Free)
        /\ pc[t] = "wait" => old[t].cont
        /\ pc[t] \in {"look", "count"} \/ t \in Counted => op[t] # "trylock"
        /\ pc[t] = "swap" => held[t] > 0 /\ count = 0
        /\ pc[t] = "bury" => ~Normal /\ held[t] > 0
        /\ pc[t] \in {"read", "peek"} => ~Normal

\* A thread that found no waiter before it unlocks or exits finds the mark of one that
\* came to sleep since.
UnlockersSee ==
    \A t \in Thread :
        pc[t] \in {"swap", "bury"} /\ ~saw[t] => Asleep = {} \/ lock.cont

IInv ==
    /\ TypeOK /\ WaitersExact /\ HoldersExact /\ Following /\ UnlockersSee
    /\ NoLostWakeup /\ DamageReported
=============================================================================
