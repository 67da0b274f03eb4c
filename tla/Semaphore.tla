------------------------------ MODULE Semaphore ------------------------------
(***************************************************************************)
(* POSIX semaphores: sem_post, sem_wait, sem_timedwait, sem_trywait        *)
(* (src/thread/sem_*.c).                                                   *)
(*                                                                         *)
(* __val[0] is a record: val is its low 31 bits, the value; cont is bit    *)
(* 31, which a thread sets in a zero word before it sleeps.  __val[1]      *)
(* counts the waiters.                                                     *)
(***************************************************************************)
EXTENDS Integers, FiniteSets

CONSTANTS
    Thread,
    ValueMax,    \* SEM_VALUE_MAX
    Initial      \* the value given to sem_init

VARIABLES
    sem,       \* __val[0]
    waiters,   \* __val[1]
    pc,
    op,        \* the call a thread is executing
    old,       \* sem_post's local val
    saw        \* sem_post's local waiters

vars == <<sem, waiters, pc, op, old, saw>>

Word == [val : 0..ValueMax, cont : BOOLEAN]

Zero == [val |-> 0, cont |-> FALSE]
Contended == [val |-> 0, cont |-> TRUE]

PC == {"idle", "try", "count", "mark", "wait", "asleep", "uncount", "giveup",
       "post", "peek", "cas", "wake"}

\* sem_wait is sem_timedwait without a deadline.  A signal or a cancellation can
\* end it as well, so the model does not tell the two apart.
Op == {"wait", "trywait"}

TypeOK ==
    /\ sem \in Word
    /\ waiters \in Nat
    /\ pc \in [Thread -> PC]
    /\ op \in [Thread -> Op]
    /\ old \in [Thread -> Word]
    /\ saw \in [Thread -> Nat]

\* sem_init
Init ==
    /\ sem = [val |-> Initial, cont |-> FALSE]
    /\ waiters = 0
    /\ pc = [t \in Thread |-> "idle"]
    /\ op = [t \in Thread |-> "wait"]
    /\ old = [t \in Thread |-> Zero]
    /\ saw = [t \in Thread |-> 0]

Goto(t, from, to) == pc[t] = from /\ pc' = [pc EXCEPT ![t] = to]

\* A function returns: its local variables are gone.
Return(t, from) ==
    /\ Goto(t, from, "idle")
    /\ op' = [op EXCEPT ![t] = "wait"]
    /\ old' = [old EXCEPT ![t] = Zero]
    /\ saw' = [saw EXCEPT ![t] = 0]

Asleep == {t \in Thread : pc[t] = "asleep"}

-----------------------------------------------------------------------------
\* Waiting

Call(t, o) ==
    /\ Goto(t, "idle", "try")
    /\ op' = [op EXCEPT ![t] = o]
    /\ UNCHANGED <<sem, waiters, old, saw>>

\* sem_trywait: its loop repeats until the compare-and-swap meets the value
\* just read, so it takes effect in one step.
TryWait(t) ==
    /\ IF sem.val # 0
       THEN /\ Return(t, "try")
            /\ sem' = [val |-> sem.val - 1, cont |-> sem.cont]
       ELSE /\ IF op[t] = "trywait" THEN Return(t, "try")
               ELSE Goto(t, "try", "count") /\ UNCHANGED <<op, old, saw>>
            /\ UNCHANGED sem
    /\ UNCHANGED waiters

\* a_inc(sem->__val+1)
Count(t) ==
    /\ Goto(t, "count", "mark")
    /\ waiters' = waiters + 1
    /\ UNCHANGED <<sem, op, old, saw>>

\* a_cas(sem->__val, 0, 0x80000000)
Mark(t) ==
    /\ Goto(t, "mark", "wait")
    /\ sem' = IF sem = Zero THEN Contended ELSE sem
    /\ UNCHANGED <<waiters, op, old, saw>>

\* __timedwait_cp: the deadline has passed or the thread is cancelled before it
\* sleeps, or FUTEX_WAIT.
Wait(t) ==
    /\ \/ Goto(t, "wait", IF sem = Contended THEN "asleep" ELSE "uncount")
       \/ Goto(t, "wait", "giveup")
    /\ UNCHANGED <<sem, waiters, op, old, saw>>

\* FUTEX_WAIT ends without a wake: the kernel may return early, and the
\* deadline, a signal or a cancellation make the caller give up.
WaitEnds(t) ==
    /\ Goto(t, "asleep", "uncount") \/ Goto(t, "asleep", "giveup")
    /\ UNCHANGED <<sem, waiters, op, old, saw>>

\* cleanup: a_dec(sem->__val+1), on every way out of the wait.
Uncount(t) ==
    /\ \/ Goto(t, "uncount", "try") /\ UNCHANGED <<op, old, saw>>
       \/ Return(t, "giveup")
    /\ waiters' = waiters - 1
    /\ UNCHANGED sem

WaitStep(t) == TryWait(t) \/ Count(t) \/ Mark(t) \/ Wait(t) \/ Uncount(t)

-----------------------------------------------------------------------------
\* Posting

Post(t) ==
    /\ Goto(t, "idle", "post")
    /\ UNCHANGED <<sem, waiters, op, old, saw>>

\* val = sem->__val[0]
ReadValue(t) ==
    /\ Goto(t, "post", "peek")
    /\ old' = [old EXCEPT ![t] = sem]
    /\ UNCHANGED <<sem, waiters, op, saw>>

\* (val & SEM_VALUE_MAX) == SEM_VALUE_MAX
Overflow(t) == old[t].val = ValueMax

\* waiters = sem->__val[1], then the return of EOVERFLOW.
ReadWaiters(t) ==
    /\ IF Overflow(t) THEN Return(t, "peek")
       ELSE /\ Goto(t, "peek", "cas")
            /\ saw' = [saw EXCEPT ![t] = waiters]
            /\ UNCHANGED <<op, old>>
    /\ UNCHANGED <<sem, waiters>>

\* if (waiters <= 1) new &= ~0x80000000
KeepMark(t) == old[t].cont /\ saw[t] > 1

MustWake(t) == old[t].cont \/ saw[t] # 0

Increment(t) ==
    /\ IF sem = old[t]
       THEN /\ sem' = [val |-> old[t].val + 1, cont |-> KeepMark(t)]
            /\ IF MustWake(t) THEN Goto(t, "cas", "wake") /\ UNCHANGED <<op, old, saw>>
               ELSE Return(t, "cas")
       ELSE Goto(t, "cas", "post") /\ UNCHANGED <<sem, op, old, saw>>
    /\ UNCHANGED waiters

\* __wake(sem->__val, waiters > 1 ? 1 : -1)
Wake(t) ==
    /\ pc[t] = "wake"
    /\ \/ /\ saw[t] <= 1 \/ Asleep = {}
          /\ pc' = [u \in Thread |-> IF u = t THEN "idle" ELSE
                                     IF u \in Asleep THEN "uncount" ELSE pc[u]]
       \/ /\ saw[t] > 1
          /\ \E u \in Asleep : pc' = [pc EXCEPT ![t] = "idle", ![u] = "uncount"]
    /\ old' = [old EXCEPT ![t] = Zero]
    /\ saw' = [saw EXCEPT ![t] = 0]
    /\ UNCHANGED <<sem, waiters, op>>

PostStep(t) == ReadValue(t) \/ ReadWaiters(t) \/ Increment(t) \/ Wake(t)

-----------------------------------------------------------------------------
Next ==
    \E t \in Thread :
      \/ \E o \in Op : Call(t, o)
      \/ WaitStep(t) \/ WaitEnds(t) \/ Post(t) \/ PostStep(t)

Spec == Init /\ [][Next]_vars

-----------------------------------------------------------------------------
\* Threads that will take a value or wake a sleeper.
OnDuty == {t \in Thread : \/ pc[t] \in {"wake", "uncount"}
                          \/ pc[t] = "try" /\ op[t] = "wait"}

WakingAll == {t \in Thread : pc[t] = "wake" /\ saw[t] <= 1}

\* No wakeup is lost among the value, the contended bit and the count of
\* waiters: for each unit of the value that a sleeper could take, a waiter is
\* awake or about to be woken (sem_post.c:8-19, sem_timedwait.c:20-26).
NoLostWakeup ==
    \/ WakingAll # {}
    \/ Cardinality(OnDuty) >= sem.val
    \/ Cardinality(OnDuty) >= Cardinality(Asleep)

\* A value lies unused while threads sleep.
Unused == sem.val > 0 /\ Asleep # {}

value == sem.val

\* The abstract counting semaphore, which this one implements: its value goes up by one post and
\* down by one wait at a time, between zero and the maximum, and never changes
\* when a waiter marks the word, times out or is cancelled.
AbstractInit == value = Initial

AbstractPost == value < ValueMax /\ value' = value + 1

AbstractWait == value > 0 /\ value' = value - 1

AbstractNext == AbstractPost \/ AbstractWait

-----------------------------------------------------------------------------
(***************************************************************************)
(* The inductive invariant.                                                *)
(***************************************************************************)
Counted == {t \in Thread : pc[t] \in {"mark", "wait", "asleep", "uncount", "giveup"}}

\* __val[1] counts the threads between their a_inc and their a_dec.
WaitersExact == waiters = Cardinality(Counted)

\* sem_trywait never waits, and sem_post does not overflow the value it has read.
Following ==
    \A t \in Thread : /\ pc[t] = "count" \/ t \in Counted => op[t] = "wait"
                      /\ pc[t] = "cas" => old[t].val < ValueMax

\* The mark of a sleeper stays until a post takes it away and wakes everybody.
SleepersMarked == Asleep # {} => sem.cont \/ WakingAll # {}

\* A post that leaves the value for a sleeper wakes one.
UnitsCovered == Asleep # {} /\ WakingAll = {} => Cardinality(OnDuty) >= sem.val

IInv == TypeOK /\ WaitersExact /\ Following /\ SleepersMarked /\ UnitsCovered
==============================================================================
