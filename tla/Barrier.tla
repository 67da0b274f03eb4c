------------------------------- MODULE Barrier -------------------------------
(***************************************************************************)
(* pthread_barrier_wait for a barrier that is not process-shared           *)
(* (src/thread/pthread_barrier_wait.c:52-111).                             *)
(*                                                                         *)
(* The first thread of a round puts an instance on its own stack and waits *)
(* until the others have left it.  An instance is identified here by that  *)
(* thread, so a later round of the same first thread reuses its address.   *)
(***************************************************************************)
EXTENDS Integers, FiniteSets

CONSTANTS
    Thread,
    NoThread,  \* a null instance
    Limits     \* the values of _b_limit to consider: threads of a round, less one

VARIABLES
    limit,     \* _b_limit
    lock,      \* _b_lock
    waiters,   \* _b_waiters
    binst,     \* _b_inst
    inst,      \* the instance on each thread's stack
    pc,
    my,        \* the local variable inst of each thread
    members    \* ghost: the threads that entered each thread's instance

vars == <<limit, lock, waiters, binst, inst, pc, my, members>>

Instance == [count : Int, last : {0, 1}, waiters : Int, finished : Int]

Value(c, l, w, f) == [count |-> c, last |-> l, waiters |-> w, finished |-> f]
New == Value(0, 0, 0, 0)

\* An instance i whose count, waiters or finished is n more than it was.
Counting(i, n) == Value(i.count + n, i.last, i.waiters, i.finished)
Waiting(i, n) == Value(i.count, i.last, i.waiters + n, i.finished)
Finishing(i) == Value(i.count, i.last, i.waiters, i.finished + 1)

\* Waiting for the barrier's lock; the first thread of a round; another one;
\* the last one.
Locking == {"swap", "spinlock", "inclock", "testlock", "sleeplock", "declock"}
First == {"unlock1", "kick1", "finish", "test1", "sleep1", "serial"}
Other == {"unlock2", "kick2", "spinlast", "inclast", "testlast", "sleeplast", "declast"}
Last == {"unlock3", "kick3", "setlast", "wakelast"}
PC == {"idle", "enter", "leave", "lastout", "wakefirst"} \cup Locking \cup First
        \cup Other \cup Last

TypeOK ==
    /\ limit \in Limits
    /\ lock \in {0, 1}
    /\ waiters \in Nat
    /\ binst \in Thread \cup {NoThread}
    /\ inst \in [Thread -> Instance]
    /\ pc \in [Thread -> PC]
    /\ my \in [Thread -> Thread \cup {NoThread}]
    /\ members \in [Thread -> SUBSET Thread]

Init ==
    /\ limit \in Limits
    /\ lock = 0
    /\ waiters = 0
    /\ binst = NoThread
    /\ inst = [t \in Thread |-> New]
    /\ pc = [t \in Thread |-> "idle"]
    /\ my = [t \in Thread |-> NoThread]
    /\ members = [t \in Thread |-> {}]

Goto(t, from, to) == pc[t] = from /\ pc' = [pc EXCEPT ![t] = to]

\* A futex wake of all or of one of the threads in the set of sleepers.
WakeAll(t, from, to, sleepers, awake) ==
    /\ pc[t] = from
    /\ pc' = [u \in Thread |-> IF u = t THEN to ELSE
                               IF u \in sleepers THEN awake ELSE pc[u]]

WakeOne(t, from, to, sleepers, awake) ==
    /\ pc[t] = from
    /\ \/ sleepers = {} /\ pc' = [pc EXCEPT ![t] = to]
       \/ \E u \in sleepers : pc' = [pc EXCEPT ![t] = to, ![u] = awake]

-----------------------------------------------------------------------------
\* The barrier's lock

Call(t) ==
    /\ Goto(t, "idle", "swap")
    /\ UNCHANGED <<limit, lock, waiters, binst, inst, my, members>>

\* a_swap(&b->_b_lock, 1)
Swap(t) ==
    /\ Goto(t, "swap", IF lock = 0 THEN "enter" ELSE "spinlock")
    /\ lock' = 1
    /\ UNCHANGED <<limit, waiters, binst, inst, my, members>>

\* __wait(&b->_b_lock, &b->_b_waiters, 1): spinning, counting, sleeping.
AwaitLock(t) ==
    /\ \/ lock = 0 /\ Goto(t, "spinlock", "swap") /\ UNCHANGED waiters
       \/ Goto(t, "spinlock", "inclock") /\ UNCHANGED waiters
       \/ Goto(t, "inclock", "testlock") /\ waiters' = waiters + 1
       \/ /\ Goto(t, "testlock", IF lock = 1 THEN "sleeplock" ELSE "declock")
          /\ UNCHANGED waiters
       \/ Goto(t, "declock", "swap") /\ waiters' = waiters - 1
    /\ UNCHANGED <<limit, lock, binst, inst, my, members>>

LockSleepers == {t \in Thread : pc[t] = "sleeplock"}

\* a_store(&b->_b_lock, 0)
Unlock(t) ==
    /\ \/ Goto(t, "unlock1", "kick1")
       \/ Goto(t, "unlock2", "kick2")
       \/ Goto(t, "unlock3", "kick3")
    /\ lock' = 0
    /\ UNCHANGED <<limit, waiters, binst, inst, my, members>>

\* if (b->_b_waiters) __wake(&b->_b_lock, 1)
Kick(t) ==
    /\ \E p \in {<<"kick1", "finish">>, <<"kick2", "spinlast">>, <<"kick3", "setlast">>} :
         IF waiters # 0
         THEN WakeOne(t, p[1], p[2], LockSleepers, "testlock")
         ELSE Goto(t, p[1], p[2])
    /\ UNCHANGED <<limit, lock, waiters, binst, inst, my, members>>

-----------------------------------------------------------------------------
\* A round

\* With the lock held: the first thread makes the instance, the others are
\* counted, the last one takes the instance out of the barrier.
Enter(t) ==
    /\ LET new == binst = NoThread
           o == IF new THEN t ELSE binst
           n == inst[o].count + 1
       IN /\ my' = [my EXCEPT ![t] = o]
          /\ members' = [members EXCEPT ![o] = IF new THEN {t} ELSE @ \cup {t}]
          /\ inst' = [inst EXCEPT ![o] = IF new THEN New ELSE Counting(@, 1)]
          /\ binst' = IF ~new /\ n = limit THEN NoThread ELSE o
          /\ Goto(t, "enter", IF new THEN "unlock1" ELSE
                              IF n = limit THEN "unlock3" ELSE "unlock2")
    /\ UNCHANGED <<limit, lock, waiters>>

\* The first thread: a_inc(&inst->finished), then the futex loop.
Finish(t) ==
    /\ Goto(t, "finish", "test1")
    /\ inst' = [inst EXCEPT ![t] = Finishing(@)]
    /\ UNCHANGED <<limit, lock, waiters, binst, my, members>>

AwaitFinished(t) ==
    /\ Goto(t, "test1", IF inst[t].finished = 1 THEN "sleep1" ELSE "serial")
    /\ UNCHANGED <<limit, lock, waiters, binst, inst, my, members>>

\* __wait(&inst->last, &inst->waiters, 0)
AwaitLast(t) ==
    LET i == inst[my[t]] IN
    /\ \/ Goto(t, "spinlast", "leave") /\ i.last = 1 /\ UNCHANGED inst
       \/ Goto(t, "spinlast", "inclast") /\ UNCHANGED inst
       \/ /\ Goto(t, "inclast", "testlast")
          /\ inst' = [inst EXCEPT ![my[t]] = Waiting(@, 1)]
       \/ /\ Goto(t, "testlast", IF i.last = 0 THEN "sleeplast" ELSE "declast")
          /\ UNCHANGED inst
       \/ /\ Goto(t, "declast", "leave")
          /\ inst' = [inst EXCEPT ![my[t]] = Waiting(@, -1)]
    /\ UNCHANGED <<limit, lock, waiters, binst, my, members>>

\* a_store(&inst->last, 1)
SetLast(t) ==
    /\ Goto(t, "setlast", "wakelast")
    /\ inst' = [inst EXCEPT ![my[t]] = Value(@.count, 1, @.waiters, @.finished)]
    /\ UNCHANGED <<limit, lock, waiters, binst, my, members>>

\* if (inst->waiters) __wake(&inst->last, -1)
WakeLast(t) ==
    /\ pc[t] = "wakelast"
    /\ IF inst[my[t]].waiters # 0
       THEN WakeAll(t, "wakelast", "leave",
                    {u \in Thread : pc[u] = "sleeplast" /\ my[u] = my[t]}, "testlast")
       ELSE Goto(t, "wakelast", "leave")
    /\ UNCHANGED <<limit, lock, waiters, binst, inst, my, members>>

Return(t, from) ==
    /\ Goto(t, from, "idle")
    /\ my' = [my EXCEPT ![t] = NoThread]

\* a_fetch_add(&inst->count, -1) == 1
Leave(t) ==
    /\ pc[t] = "leave"
    /\ inst' = [inst EXCEPT ![my[t]] = Counting(@, -1)]
    /\ IF inst[my[t]].count = 1
       THEN Goto(t, "leave", "lastout") /\ UNCHANGED my
       ELSE Return(t, "leave")
    /\ UNCHANGED <<limit, lock, waiters, binst, members>>

\* a_fetch_add(&inst->finished, 1)
LastOut(t) ==
    /\ pc[t] = "lastout"
    /\ inst' = [inst EXCEPT ![my[t]] = Finishing(@)]
    /\ IF inst[my[t]].finished # 0
       THEN Goto(t, "lastout", "wakefirst") /\ UNCHANGED my
       ELSE Return(t, "lastout")
    /\ UNCHANGED <<limit, lock, waiters, binst, members>>

\* __wake(&inst->finished, 1): the address only, the instance may be gone.
WakeFirst(t) ==
    /\ WakeOne(t, "wakefirst", "idle",
               {u \in Thread : pc[u] = "sleep1" /\ u = my[t]}, "test1")
    /\ my' = [my EXCEPT ![t] = NoThread]
    /\ UNCHANGED <<limit, lock, waiters, binst, inst, members>>

\* The first thread returns PTHREAD_BARRIER_SERIAL_THREAD: its stack is gone.
Serial(t) ==
    /\ Return(t, "serial")
    /\ inst' = [inst EXCEPT ![t] = New]
    /\ members' = [members EXCEPT ![t] = {}]
    /\ UNCHANGED <<limit, lock, waiters, binst>>

\* FUTEX_WAIT returns early, and the loop around it looks again.
Interrupt(t) ==
    /\ \/ Goto(t, "sleeplock", "testlock")
       \/ Goto(t, "sleeplast", "testlast")
       \/ Goto(t, "sleep1", "test1")
    /\ UNCHANGED <<limit, lock, waiters, binst, inst, my, members>>

-----------------------------------------------------------------------------
Step(t) ==
    \/ Swap(t) \/ AwaitLock(t) \/ Unlock(t) \/ Kick(t) \/ Enter(t)
    \/ Finish(t) \/ AwaitFinished(t) \/ AwaitLast(t) \/ SetLast(t)
    \/ WakeLast(t) \/ Leave(t) \/ LastOut(t) \/ WakeFirst(t) \/ Serial(t)

Next == \E t \in Thread : Call(t) \/ Step(t) \/ Interrupt(t)

Spec == Init /\ [][Next]_vars

-----------------------------------------------------------------------------
\* Nobody gets past the barrier before the round is complete
\* (pthread_barrier_wait.c:92-105).
RoundComplete ==
    \A t \in Thread :
        /\ pc[t] \in {"leave", "lastout"} => Cardinality(members[my[t]]) = limit + 1
        /\ pc[t] = "serial" => Cardinality(members[t]) = limit + 1

\* The instance on the first thread's stack outlives every access to it: when
\* the serial thread is about to return, and in between, no other thread of the
\* round still reads or writes the instance or the barrier
\* (pthread_barrier_wait.c:77-89, 107-108).
NoDanglingInstance ==
    \A t \in Thread :
        pc[t] \in Other \cup Last \cup {"leave", "lastout"} =>
            /\ my[t] # t /\ t \in members[my[t]]
            /\ pc[my[t]] \in First \ {"serial"}

\* No wakeup of the barrier's lock is lost: while it is free and threads sleep
\* on it, somebody is about to wake one of them or to take it
\* (pthread_barrier_wait.c:72-73, 81-82, 95-96, 101-102, __wait.c:11-16).
NoLostWakeup ==
    lock = 0 /\ LockSleepers # {} =>
        \E t \in Thread : pc[t] \in {"kick1", "kick2", "kick3"} \cup (Locking \ {"sleeplock"})

\* The round that began on t's stack has its last thread.
Complete(t) == \E u \in Thread : my[u] = t /\ pc[u] \in Last

-----------------------------------------------------------------------------
(***************************************************************************)
(* The inductive invariant.                                                *)
(***************************************************************************)
\* _b_waiters counts the threads between the a_inc and the a_dec of __wait.
LockWaiters == {t \in Thread : pc[t] \in {"testlock", "sleeplock", "declock"}}

WaitersExact == waiters = Cardinality(LockWaiters)

\* The threads in o's instance that are counted there, and the one that has taken the
\* count to zero and has not said so yet.
Inside(o) == {t \in Thread : my[t] = o /\ pc[t] \in Other \cup Last \cup {"leave"}}
OutLast(o) == {t \in Thread : my[t] = o /\ pc[t] = "lastout"}

\* Where each thread is in its round.
Following ==
    /\ binst # NoThread => pc[binst] \in First
    /\ \A t \in Thread :
        /\ pc[t] \in First => my[t] = t
        /\ pc[t] \in Other \cup Last \cup {"leave", "lastout"} =>
             my[t] \in Thread /\ my[t] # t /\ t \in members[my[t]] /\ pc[my[t]] \in First
        /\ pc[t] \in Last \cup {"declast", "leave", "lastout"} => binst # my[t]
        /\ pc[t] = "lastout" => Inside(my[t]) = {} /\ \A u \in OutLast(my[t]) : u = t
        /\ pc[t] = "serial" => inst[t].finished = 2

\* The instance on the stack of o, the first thread of a round: it counts the threads in
\* it, and finished is 1 for o and 1 for the last of the others once they are out.
InstanceExact ==
    \A o \in Thread : pc[o] \in First =>
        /\ inst[o].count = Cardinality(Inside(o))
        /\ inst[o].finished =
             (IF pc[o] \in {"test1", "sleep1", "serial"} THEN 1 ELSE 0) +
             (IF binst # o /\ Inside(o) = {} /\ OutLast(o) = {} THEN 1 ELSE 0)
        /\ inst[o].last = 1 => binst # o
        /\ IF binst = o THEN members[o] = {o} \cup Inside(o) /\ inst[o].count < limit
           ELSE Cardinality(members[o]) = limit + 1

IInv == TypeOK /\ WaitersExact /\ Following /\ InstanceExact /\ NoLostWakeup
=============================================================================
