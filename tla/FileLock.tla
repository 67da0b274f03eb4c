-------------------------------- MODULE FileLock --------------------------------
(***************************************************************************)
(* The lock of a stream (src/stdio/__lockfile.c, getc.h, ftrylockfile.c,    *)
(* flockfile.c, funlockfile.c).                                            *)
(*                                                                         *)
(* The word holds the owner and a bit that tells of waiters.  Three kinds   *)
(* of users take it: operations of the library, which pass if the thread    *)
(* has it already; getc and putc, which enter without naming themselves;    *)
(* and flockfile, which counts, and keeps the lock of a thread that exits   *)
(* locked for ever.                                                        *)
(***************************************************************************)
EXTENDS Naturals, FiniteSets

CONSTANTS
    Thread,
    Nobody, Anon,   \* no owner, and MAYBE_WAITERS-1, the owner of getc and putc
    MaxCount        \* bound on the nesting of flockfile

VARIABLES
    lock,        \* f->lock: the owner and MAYBE_WAITERS
    lockcount,   \* f->lockcount
    listed,      \* the threads in whose stdio_locks the stream is
    pc,
    op,          \* "io", "getc" or "flock"
    need,        \* __need_unlock
    old          \* the word as the thread has last seen it

vars == <<lock, lockcount, listed, pc, op, need, old>>

Word == [own : Thread \cup {Nobody, Anon}, waiters : BOOLEAN]
Free == [own |-> Nobody, waiters |-> FALSE]

TypeOK ==
    /\ lock \in Word /\ lockcount \in 0..MaxCount /\ listed \subseteq Thread
    /\ pc \in [Thread -> {"idle", "first", "loop", "mark", "wait", "asleep", "inside", "unlock",
                          "wake", "exited"}]
    /\ op \in [Thread -> {"none", "io", "getc", "flock"}]
    /\ need \in [Thread -> BOOLEAN] /\ old \in [Thread -> Word]

Init ==
    /\ lock = Free /\ lockcount = 0 /\ listed = {}
    /\ pc = [t \in Thread |-> "idle"] /\ op = [t \in Thread |-> "none"]
    /\ need = [t \in Thread |-> FALSE] /\ old = [t \in Thread |-> Free]

Goto(t, from, to) == pc[t] = from /\ pc' = [pc EXCEPT ![t] = to]

\* A thread that called flockfile.
Keeps(t) == t \in listed

-----------------------------------------------------------------------------
(***************************************************************************)
(* The beginning of an operation.                                          *)
(***************************************************************************)

\* FLOCK: the owner passes.
CallIO(t) ==
    /\ op' = [op EXCEPT ![t] = "io"]
    /\ IF lock.own = t
       THEN Goto(t, "idle", "inside") /\ need' = [need EXCEPT ![t] = FALSE]
       ELSE Goto(t, "idle", "first") /\ need' = [need EXCEPT ![t] = TRUE]
    /\ UNCHANGED <<lock, lockcount, listed, old>>

\* getc and putc: the owner passes, others enter as Anon or go through __lockfile.
CallGetc(t) ==
    /\ op' = [op EXCEPT ![t] = "getc"]
    /\ need' = [need EXCEPT ![t] = lock.own # t]
    /\ IF lock.own = t THEN Goto(t, "idle", "inside") /\ UNCHANGED lock
       ELSE IF lock = Free
       THEN Goto(t, "idle", "inside") /\ lock' = [own |-> Anon, waiters |-> FALSE]
       ELSE Goto(t, "idle", "first") /\ UNCHANGED lock
    /\ UNCHANGED <<lockcount, listed, old>>

\* __register_locked_file
Register(t) == lockcount' = 1 /\ listed' = listed \cup {t}

\* ftrylockfile; flockfile goes on with __lockfile if it fails.
CallFlock(t, try) ==
    /\ pc[t] = "idle"
    /\ IF lock.own = t
       THEN /\ lockcount < MaxCount /\ lockcount' = lockcount + 1
            /\ UNCHANGED <<lock, listed, pc, op, need>>
       ELSE IF lock = Free
       THEN lock' = [own |-> t, waiters |-> FALSE] /\ Register(t) /\ UNCHANGED <<pc, op, need>>
       ELSE /\ ~try /\ pc' = [pc EXCEPT ![t] = "first"] /\ op' = [op EXCEPT ![t] = "flock"]
            /\ need' = [need EXCEPT ![t] = TRUE] /\ UNCHANGED <<lock, lockcount, listed>>
    /\ UNCHANGED old

-----------------------------------------------------------------------------
(***************************************************************************)
(* __lockfile and __unlockfile.                                            *)
(***************************************************************************)

\* What follows when the lock is taken.
Entered(t) ==
    IF op[t] = "flock"
    THEN /\ Register(t) /\ pc' = [pc EXCEPT ![t] = "idle"]
         /\ op' = [op EXCEPT ![t] = "none"] /\ need' = [need EXCEPT ![t] = FALSE]
    ELSE pc' = [pc EXCEPT ![t] = "inside"] /\ UNCHANGED <<op, need, lockcount, listed>>

First(t) ==
    /\ pc[t] = "first"
    /\ IF lock = Free THEN lock' = [own |-> t, waiters |-> FALSE] /\ Entered(t)
       ELSE pc' = [pc EXCEPT ![t] = "loop"] /\ UNCHANGED <<lock, lockcount, listed, op, need>>
    /\ UNCHANGED old

\* Whoever has waited takes the lock with the waiters' bit.
Loop(t) ==
    /\ pc[t] = "loop"
    /\ IF lock = Free
       THEN lock' = [own |-> t, waiters |-> TRUE] /\ Entered(t) /\ UNCHANGED old
       ELSE /\ old' = [old EXCEPT ![t] = lock]
            /\ pc' = [pc EXCEPT ![t] = IF lock.waiters THEN "wait" ELSE "mark"]
            /\ UNCHANGED <<lock, lockcount, listed, op, need>>

Mark(t) ==
    /\ pc[t] = "mark"
    /\ IF lock = old[t]
       THEN lock' = [lock EXCEPT !.waiters = TRUE] /\ pc' = [pc EXCEPT ![t] = "wait"]
       ELSE UNCHANGED lock /\ pc' = [pc EXCEPT ![t] = "loop"]
    /\ UNCHANGED <<lockcount, listed, op, need, old>>

\* __futexwait
Wait(t) ==
    /\ Goto(t, "wait", IF lock = [old[t] EXCEPT !.waiters = TRUE] THEN "asleep" ELSE "loop")
    /\ old' = [old EXCEPT ![t] = Free]
    /\ UNCHANGED <<lock, lockcount, listed, op, need>>

\* The operation ends.
Leave(t) ==
    /\ pc[t] = "inside"
    /\ IF need[t] THEN pc' = [pc EXCEPT ![t] = "unlock"] /\ UNCHANGED op
       ELSE pc' = [pc EXCEPT ![t] = "idle"] /\ op' = [op EXCEPT ![t] = "none"]
    /\ UNCHANGED <<lock, lockcount, listed, need, old>>

\* Mutant: nobody is woken.
UnlockQuiet(t) ==
    /\ Goto(t, "unlock", "idle")
    /\ lock' = Free /\ op' = [op EXCEPT ![t] = "none"] /\ need' = [need EXCEPT ![t] = FALSE]
    /\ UNCHANGED <<lockcount, listed, old>>

Unlock(t) ==
    /\ Goto(t, "unlock", IF lock.waiters THEN "wake" ELSE "idle")
    /\ lock' = Free /\ op' = [op EXCEPT ![t] = "none"] /\ need' = [need EXCEPT ![t] = FALSE]
    /\ UNCHANGED <<lockcount, listed, old>>

Wake(t) ==
    /\ pc[t] = "wake"
    /\ LET asleep == {u \in Thread : pc[u] = "asleep"}
       IN \E u \in asleep \cup {x \in {t} : asleep = {}} :
             pc' = [[pc EXCEPT ![u] = "loop"] EXCEPT ![t] = "idle"]
    /\ UNCHANGED <<lock, lockcount, listed, op, need, old>>

\* funlockfile
funlockfile(t) ==
    /\ Keeps(t) /\ pc[t] = "idle"
    /\ IF lockcount = 1
       THEN /\ listed' = listed \ {t} /\ lockcount' = 0 /\ pc' = [pc EXCEPT ![t] = "unlock"]
       ELSE lockcount' = lockcount - 1 /\ UNCHANGED <<listed, pc>>
    /\ UNCHANGED <<lock, op, need, old>>

\* The thread exits; __do_orphaned_stdio_locks.
Exit(t) ==
    /\ Goto(t, "idle", "exited")
    /\ lock' = IF Keeps(t) THEN [own |-> Nobody, waiters |-> TRUE] ELSE lock
    /\ UNCHANGED <<lockcount, listed, op, need, old>>

-----------------------------------------------------------------------------

Step(t) ==
    First(t) \/ Loop(t) \/ Mark(t) \/ Wait(t) \/ Leave(t) \/ Unlock(t) \/ Wake(t)

Next ==
    \E t \in Thread :
        \/ Step(t) \/ CallIO(t) \/ CallGetc(t) \/ funlockfile(t) \/ Exit(t)
        \/ \E try \in BOOLEAN : CallFlock(t, try)

Spec == Init /\ [][Next]_vars

-----------------------------------------------------------------------------
(***************************************************************************)
(* Properties.                                                             *)
(***************************************************************************)

\* The threads that have the stream: in an operation or by flockfile.
Holders == {t \in Thread : pc[t] = "inside" \/ Keeps(t)}

\* Operations of two threads on a stream do not overlap, whichever way they take the lock,
\* and no other thread enters once a thread has exited with the lock.
Exclusive == Cardinality(Holders) <= 1

\* The count is that of the thread that called flockfile, and the word names this thread
\* until it exits.
CountOfOwner ==
    /\ (lockcount > 0) <=> (listed # {})
    /\ \A t \in listed : lock.own = IF pc[t] = "exited" THEN Nobody ELSE t

\* While threads sleep the word tells the owner to wake one, or a thread is on its way to
\* do so or to set the bit.
NoLostWakeup ==
    (\E t \in Thread : pc[t] = "asleep") =>
        lock.waiters \/ \E u \in Thread : pc[u] \in {"wake", "loop", "mark", "wait"}

\* A thread sleeps, and it has been woken or a thread has exited with the lock.
Sleeps(t) == pc[t] = "asleep"
Woken(t) == pc[t] # "asleep" \/ \E u \in Thread : pc[u] = "exited" /\ Keeps(u)

HeldTwice == lockcount > 1
=============================================================================
