------------------------------- MODULE RWLock -------------------------------
(***************************************************************************)
(* Read-write locks: rdlock, wrlock, their try and timed forms, and unlock *)
(* (src/thread/pthread_rwlock_*.c).                                        *)
(*                                                                         *)
(* The word _rw_lock is a record: cnt is its low 31 bits, the number of    *)
(* readers or Exclusive (0x7fffffff) for a writer; cont is bit 31, set by  *)
(* a thread that is about to sleep.  The lock does not record who reads,   *)
(* so a thread that reads twice looks like two readers and the model lets  *)
(* every thread read once.                                                 *)
(***************************************************************************)
EXTENDS Integers, FiniteSets

CONSTANTS
    Thread,
    NoThread,
    MaxReaders    \* 0x7ffffffe

VARIABLES
    lock,      \* _rw_lock
    waiters,   \* _rw_waiters
    pc,
    op,        \* the call a thread is executing
    old,       \* the value of _rw_lock a thread read last
    saw,       \* whether unlock read _rw_waiters as nonzero
    readers,   \* ghost: the threads that hold a read lock
    writer     \* ghost: the thread that holds the write lock

vars == <<lock, waiters, pc, op, old, saw, readers, writer>>
locals == <<op, old, saw>>

Exclusive == MaxReaders + 1

Word == [cnt : 0..Exclusive, cont : BOOLEAN]

Free == [cnt |-> 0, cont |-> FALSE]

PC == {"idle", "try", "look", "count", "mark", "wait", "asleep", "uncount",
       "timeout", "unlock", "peek", "cas", "wake"}

Read == {"rdlock", "tryrdlock", "timedrdlock"}
Write == {"wrlock", "trywrlock", "timedwrlock"}
Try == {"tryrdlock", "trywrlock"}
Timed == {"timedrdlock", "timedwrlock"}
Op == Read \cup Write

TypeOK ==
    /\ lock \in Word
    /\ waiters \in Nat
    /\ pc \in [Thread -> PC]
    /\ op \in [Thread -> Op]
    /\ old \in [Thread -> Word]
    /\ saw \in [Thread -> BOOLEAN]
    /\ readers \subseteq Thread
    /\ writer \in Thread \cup {NoThread}

Init ==
    /\ lock = Free
    /\ waiters = 0
    /\ pc = [t \in Thread |-> "idle"]
    /\ op = [t \in Thread |-> "rdlock"]
    /\ old = [t \in Thread |-> Free]
    /\ saw = [t \in Thread |-> FALSE]
    /\ readers = {}
    /\ writer = NoThread

Goto(t, from, to) == pc[t] = from /\ pc' = [pc EXCEPT ![t] = to]

\* A function returns: its local variables are gone.
Return(t, from) ==
    /\ Goto(t, from, "idle")
    /\ op' = [op EXCEPT ![t] = "rdlock"]
    /\ old' = [old EXCEPT ![t] = Free]
    /\ saw' = [saw EXCEPT ![t] = FALSE]

Asleep == {t \in Thread : pc[t] = "asleep"}

-----------------------------------------------------------------------------
\* Locking

\* A thread that holds the lock in a way that would make it wait for itself
\* does not ask for it again.
Call(t, o) ==
    /\ writer # t /\ t \notin readers
    /\ Goto(t, "idle", "try")
    /\ op' = [op EXCEPT ![t] = o]
    /\ UNCHANGED <<lock, waiters, old, saw, readers, writer>>

\* EBUSY: the try forms return it, the others wait.
IsBusy(t) ==
    IF op[t] \in Try THEN Return(t, "try")
    ELSE Goto(t, "try", "look") /\ UNCHANGED locals

\* cnt == 0x7ffffffe
Full == lock.cnt = MaxReaders

\* pthread_rwlock_tryrdlock: its loop repeats until the compare-and-swap meets
\* the value just read, so it takes effect in one step.  EAGAIN when full.
TryRdLock(t) ==
    /\ op[t] \in Read
    /\ \/ /\ lock.cnt = Exclusive
          /\ IsBusy(t)
          /\ UNCHANGED <<lock, readers>>
       \/ /\ lock.cnt # Exclusive /\ Full
          /\ Return(t, "try")
          /\ UNCHANGED <<lock, readers>>
       \/ /\ lock.cnt # Exclusive /\ ~Full
          /\ Return(t, "try")
          /\ lock' = [cnt |-> lock.cnt + 1, cont |-> lock.cont]
          /\ readers' = readers \cup {t}
    /\ UNCHANGED <<waiters, writer>>

\* pthread_rwlock_trywrlock
TryWrLock(t) ==
    /\ op[t] \in Write
    /\ IF lock = Free
       THEN /\ Return(t, "try")
            /\ lock' = [cnt |-> Exclusive, cont |-> FALSE]
            /\ writer' = t
       ELSE IsBusy(t) /\ UNCHANGED <<lock, writer>>
    /\ UNCHANGED <<waiters, readers>>

\* Whether a thread in the waiting loop finds a reason to wait.
Blocked(t) == IF op[t] \in Read THEN lock.cnt = Exclusive ELSE lock # Free

\* r = rw->_rw_lock, and back to the attempt if the lock has changed.
Look(t) ==
    /\ IF Blocked(t)
       THEN /\ Goto(t, "look", "count")
            /\ old' = [old EXCEPT ![t] = lock]
            /\ UNCHANGED <<op, saw>>
       ELSE Goto(t, "look", "try") /\ UNCHANGED locals
    /\ UNCHANGED <<lock, waiters, readers, writer>>

\* a_inc(&rw->_rw_waiters)
Count(t) ==
    /\ Goto(t, "count", "mark")
    /\ waiters' = waiters + 1
    /\ UNCHANGED <<lock, op, old, saw, readers, writer>>

Marked(w) == [cnt |-> w.cnt, cont |-> TRUE]

\* a_cas(&rw->_rw_lock, r, t); old[t] becomes the awaited value.
Mark(t) ==
    /\ Goto(t, "mark", "wait")
    /\ lock' = IF lock = old[t] THEN Marked(lock) ELSE lock
    /\ old' = [old EXCEPT ![t] = Marked(@)]
    /\ UNCHANGED <<waiters, op, saw, readers, writer>>

\* __timedwait: the deadline has passed already, or FUTEX_WAIT.
Wait(t) ==
    /\ \/ Goto(t, "wait", IF lock = old[t] THEN "asleep" ELSE "uncount")
       \/ op[t] \in Timed /\ Goto(t, "wait", "timeout")
    /\ UNCHANGED <<lock, waiters, op, old, saw, readers, writer>>

\* FUTEX_WAIT ends without a wake: a signal (which retries) or the deadline.
WaitEnds(t) ==
    /\ \/ Goto(t, "asleep", "uncount")
       \/ op[t] \in Timed /\ Goto(t, "asleep", "timeout")
    /\ UNCHANGED <<lock, waiters, op, old, saw, readers, writer>>

\* a_dec(&rw->_rw_waiters), then another turn or the return of ETIMEDOUT.
Uncount(t) ==
    /\ \/ /\ Goto(t, "uncount", "try")
          /\ old' = [old EXCEPT ![t] = Free]
          /\ UNCHANGED <<op, saw>>
       \/ Return(t, "timeout")
    /\ waiters' = waiters - 1
    /\ UNCHANGED <<lock, readers, writer>>

LockStep(t) ==
    \/ pc[t] = "try" /\ (TryRdLock(t) \/ TryWrLock(t))
    \/ Look(t) \/ Count(t) \/ Mark(t) \/ Wait(t) \/ Uncount(t)

-----------------------------------------------------------------------------
\* Unlocking

Unlock(t) ==
    /\ writer = t \/ t \in readers
    /\ Goto(t, "idle", "unlock")
    /\ UNCHANGED <<lock, waiters, op, old, saw, readers, writer>>

\* val = rw->_rw_lock
ReadLock(t) ==
    /\ Goto(t, "unlock", "peek")
    /\ old' = [old EXCEPT ![t] = lock]
    /\ UNCHANGED <<lock, waiters, op, saw, readers, writer>>

\* waiters = rw->_rw_waiters
ReadWaiters(t) ==
    /\ Goto(t, "peek", "cas")
    /\ saw' = [saw EXCEPT ![t] = waiters # 0]
    /\ UNCHANGED <<lock, waiters, op, old, readers, writer>>

\* The value unlock leaves in place of w.
Released(w) == 
    IF w.cnt \in {1, Exclusive} THEN Free ELSE [cnt |-> w.cnt - 1, cont |-> w.cont]

\* !new && (waiters || val < 0)
MustWake(t) == Released(old[t]) = Free /\ (saw[t] \/ old[t].cont)

Release(t) ==
    /\ IF lock = old[t]
       THEN /\ lock' = Released(lock)
            /\ readers' = readers \ {t}
            /\ writer' = IF writer = t THEN NoThread ELSE writer
            /\ IF MustWake(t) THEN Goto(t, "cas", "wake") /\ UNCHANGED locals
               ELSE Return(t, "cas")
       ELSE /\ Goto(t, "cas", "unlock")
            /\ UNCHANGED <<lock, op, old, saw, readers, writer>>
    /\ UNCHANGED waiters

\* Mutant: one sleeper is woken whoever unlocked.
WakeOnlyOne(t) ==
    /\ \/ Asleep = {} /\ pc' = [pc EXCEPT ![t] = "idle"]
       \/ \E u \in Asleep : pc' = [pc EXCEPT ![t] = "idle", ![u] = "uncount"]
    /\ pc[t] = "wake"
    /\ old' = [old EXCEPT ![t] = Free]
    /\ saw' = [saw EXCEPT ![t] = FALSE]
    /\ UNCHANGED <<lock, waiters, op, readers, writer>>

\* __wake(&rw->_rw_lock, cnt): a writer wakes everybody, the last reader one.
Wake(t) ==
    /\ pc[t] = "wake"
    /\ \/ /\ old[t].cnt = Exclusive \/ Asleep = {}
          /\ pc' = [u \in Thread |-> IF u = t THEN "idle" ELSE
                                     IF u \in Asleep THEN "uncount" ELSE pc[u]]
       \/ /\ old[t].cnt # Exclusive
          /\ \E u \in Asleep : pc' = [pc EXCEPT ![t] = "idle", ![u] = "uncount"]
    /\ old' = [old EXCEPT ![t] = Free]
    /\ saw' = [saw EXCEPT ![t] = FALSE]
    /\ UNCHANGED <<lock, waiters, op, readers, writer>>

UnlockStep(t) == ReadLock(t) \/ ReadWaiters(t) \/ Release(t) \/ Wake(t)

-----------------------------------------------------------------------------
Next ==
    \E t \in Thread :
      \/ \E o \in Op : Call(t, o)
      \/ LockStep(t) \/ WaitEnds(t) \/ Unlock(t) \/ UnlockStep(t)

Spec == Init /\ [][Next]_vars

-----------------------------------------------------------------------------
\* The word tells exactly who holds the lock: the mark of a writer, or the
\* number of readers, up to and including the largest number of readers
\* (pthread_rwlock_tryrdlock.c:6-11, pthread_rwlock_unlock.c:7-12).
WordExact ==
    lock.cnt = IF writer # NoThread THEN Exclusive ELSE Cardinality(readers)

\* Threads that can still take the lock or wake somebody who can.
OnDuty == {t \in Thread : \/ pc[t] \in {"wake", "uncount"}
                          \/ pc[t] \in {"try", "look"} /\ op[t] \notin Try}

\* A thread asleep on a free lock is owed a wake or has an awake competitor
\* (pthread_rwlock_timedwrlock.c:16-20, pthread_rwlock_unlock.c:7-15).
Idle == lock = Free /\ Asleep # {}

NoLostWakeup == Idle => OnDuty # {}

\* A reader sleeps only while a writer holds the lock or is about to wake
\* everybody: the single wake of a last reader, which may hit any sleeper,
\* never has to reach a reader (pthread_rwlock_unlock.c:14-15).
ReadersNotStranded ==
    \A t \in Asleep : op[t] \in Read =>
        \/ writer # NoThread
        \/ \E u \in Thread : pc[u] = "wake" /\ old[u].cnt = Exclusive

-----------------------------------------------------------------------------
(***************************************************************************)
(* What a read-write lock promises: any number of readers or one writer.   *)
(***************************************************************************)
owners == <<readers, writer>>

AbstractInit == readers = {} /\ writer = NoThread

Share(t) == writer = NoThread /\ t \notin readers /\ owners' = <<readers \cup {t}, writer>>
Own(t) == writer = NoThread /\ readers = {} /\ owners' = <<readers, t>>
Leave(t) == \/ t \in readers /\ owners' = <<readers \ {t}, writer>>
            \/ writer = t /\ owners' = <<readers, NoThread>>

AbstractNext == \E t \in Thread : Share(t) \/ Own(t) \/ Leave(t)

-----------------------------------------------------------------------------
(***************************************************************************)
(* The inductive invariant.                                                *)
(***************************************************************************)
Counted == {t \in Thread : pc[t] \in {"mark", "wait", "asleep", "uncount", "timeout"}}

\* _rw_waiters counts the threads between their a_inc and their a_dec.
WaitersExact == waiters = Cardinality(Counted)

\* The owners are readers or one writer, not more than the word can count, and a
\* free lock is not marked.
OwnersExact ==
    /\ WordExact
    /\ writer # NoThread => readers = {}
    /\ Cardinality(readers) <= MaxReaders
    /\ lock.cnt = 0 => lock = Free

\* A thread that waits holds nothing and has found a reason to wait; one that
\* unlocks holds the lock.
Following ==
    \A t \in Thread :
        /\ pc[t] \in {"try", "look", "count"} \/ t \in Counted =>
             t \notin readers /\ writer # t
        /\ pc[t] \in {"unlock", "peek", "cas"} => t \in readers \/ writer = t
        /\ pc[t] \in {"look", "count"} \/ t \in Counted => op[t] \notin Try
        /\ pc[t] \in {"count", "mark", "wait"} =>
             /\ old[t].cnt > 0
             /\ op[t] \in Read => old[t].cnt = Exclusive
        /\ pc[t] = "wait" => old[t].cont

\* A thread that found no waiter before it unlocks finds the mark of one that came
\* to sleep since.
UnlockersSee ==
    \A t \in Thread : pc[t] = "cas" /\ ~saw[t] => Asleep = {} \/ lock.cont

IInv ==
    /\ TypeOK /\ WaitersExact /\ OwnersExact /\ Following /\ UnlockersSee
    /\ NoLostWakeup /\ ReadersNotStranded
=============================================================================
