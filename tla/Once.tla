-------------------------------- MODULE Once --------------------------------
(***************************************************************************)
(* pthread_once (src/thread/pthread_once.c): the control word, the waiters *)
(* in __wait, and the undo handler that runs when the initialiser is       *)
(* cancelled or exits its thread.                                          *)
(***************************************************************************)
EXTENDS Integers, FiniteSets

CONSTANTS
    Thread,
    MaxUndo     \* bound on how often the initialiser is abandoned

VARIABLES
    control,   \* 0 new, 1 running, 2 done, 3 running with waiters
    pc,
    done,      \* ghost: completed calls of the initialiser
    undone     \* ghost: abandoned calls of the initialiser

vars == <<control, pc, done, undone>>

PC == {"idle", "cas", "init", "mark", "spin", "wait", "asleep", "finish",
       "undo", "wake", "undowake", "returned", "gone"}

TypeOK ==
    /\ control \in 0..3
    /\ pc \in [Thread -> PC]
    /\ done \in Nat
    /\ undone \in Nat

Init ==
    /\ control = 0
    /\ pc = [t \in Thread |-> "idle"]
    /\ done = 0
    /\ undone = 0

Goto(t, from, to) == pc[t] = from /\ pc' = [pc EXCEPT ![t] = to]

Asleep == {t \in Thread : pc[t] = "asleep"}

-----------------------------------------------------------------------------
\* The test of __pthread_once for an initialiser that is done.
Call(t) ==
    /\ Goto(t, "idle", IF control = 2 THEN "returned" ELSE "cas")
    /\ UNCHANGED <<control, done, undone>>

\* switch (a_cas(control, 0, 1))
Cas(t) ==
    /\ Goto(t, "cas", IF control = 0 THEN "init" ELSE
                      IF control = 1 THEN "mark" ELSE
                      IF control = 2 THEN "returned" ELSE "spin")
    /\ control' = IF control = 0 THEN 1 ELSE control
    /\ UNCHANGED <<done, undone>>

\* init() returns.
InitReturns(t) ==
    /\ Goto(t, "init", "finish")
    /\ done' = done + 1
    /\ UNCHANGED <<control, undone>>

\* init() is cancelled or calls pthread_exit: the cleanup handler runs.
InitAbandoned(t) ==
    /\ undone < MaxUndo
    /\ Goto(t, "init", "undo")
    /\ undone' = undone + 1
    /\ UNCHANGED <<control, done>>

\* a_swap(control, 2)
Finish(t) ==
    /\ Goto(t, "finish", IF control = 3 THEN "wake" ELSE "returned")
    /\ control' = 2
    /\ UNCHANGED <<done, undone>>

\* undo: a_swap(control, 0), then the thread exits.
Undo(t) ==
    /\ Goto(t, "undo", IF control = 3 THEN "undowake" ELSE "gone")
    /\ control' = 0
    /\ UNCHANGED <<done, undone>>

\* __wake(control, -1)
WakeAll(t, from, to) ==
    /\ pc[t] = from
    /\ pc' = [u \in Thread |-> IF u = t THEN to ELSE
                               IF u \in Asleep THEN "wait" ELSE pc[u]]
    /\ UNCHANGED <<control, done, undone>>

Wake(t) == WakeAll(t, "wake", "returned")
UndoWake(t) == WakeAll(t, "undowake", "gone")

\* a_cas(control, 1, 3)
Mark(t) ==
    /\ Goto(t, "mark", "spin")
    /\ control' = IF control = 1 THEN 3 ELSE control
    /\ UNCHANGED <<done, undone>>

\* __wait(control, 0, 3): spinning, then the loop around FUTEX_WAIT.
Spin(t) ==
    /\ Goto(t, "spin", IF control = 3 THEN "wait" ELSE "cas")
    /\ UNCHANGED <<control, done, undone>>

Wait(t) ==
    /\ Goto(t, "wait", IF control = 3 THEN "asleep" ELSE "cas")
    /\ UNCHANGED <<control, done, undone>>

\* FUTEX_WAIT returns early, and the loop looks again.
Interrupt(t) ==
    /\ Goto(t, "asleep", "wait")
    /\ UNCHANGED <<control, done, undone>>

-----------------------------------------------------------------------------
Step(t) ==
    \/ Cas(t) \/ Finish(t) \/ Undo(t) \/ Wake(t) \/ UndoWake(t)
    \/ Mark(t) \/ Spin(t) \/ Wait(t)

InitEnds(t) == InitReturns(t) \/ InitAbandoned(t)

\* The caller may call again after pthread_once has returned.
CallAgain(t) ==
    /\ Goto(t, "returned", "idle")
    /\ UNCHANGED <<control, done, undone>>

Next ==
    \E t \in Thread :
        Call(t) \/ CallAgain(t) \/ Step(t) \/ InitEnds(t) \/ Interrupt(t)

Spec == Init /\ [][Next]_vars

-----------------------------------------------------------------------------
Running == {t \in Thread : pc[t] \in {"init", "finish", "undo"}}

\* At most one thread is in the initialiser, it never starts again once it has
\* completed, and the word says whether it runs (pthread_once.c:14-29).
OneInit ==
    /\ \A t, u \in Running : t = u
    /\ done <= 1
    /\ Running # {} <=> control \in {1, 3}
    /\ control = 2 => done = 1

\* pthread_once returns only after the initialiser has completed, for the
\* caller that ran it and for every caller that waited (pthread_once.c:14-41).
ReturnsAfterInit ==
    (\E t \in Thread : pc[t] \in {"returned", "wake"}) => done = 1

\* A thread sleeps only while the word still announces a waiter or a wake of
\* everybody is on its way: an abandoned initialiser loses nobody
\* (pthread_once.c:3-8, 20-27).
NoLostWakeup ==
    Asleep # {} => \/ control = 3
                   \/ \E t \in Thread : pc[t] \in {"wake", "undowake"}

-----------------------------------------------------------------------------
\* The inductive invariant: the initialiser has completed when the word says so or its
\* thread is about to, and a call that returns has seen it in the word.
IInv ==
    /\ TypeOK /\ OneInit /\ NoLostWakeup
    /\ done = 1 <=> control = 2 \/ \E t \in Thread : pc[t] = "finish"
    /\ \A t \in Thread : pc[t] \in {"returned", "wake"} => control = 2
=============================================================================
