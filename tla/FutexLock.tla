------------------------------ MODULE FutexLock ------------------------------
(***************************************************************************)
(* The internal lock of the library: __lock and __unlock                   *)
(* (src/thread/__lock.c), with the need_locks elision that pthread_create  *)
(* and pthread_exit drive.                                                 *)
(*                                                                         *)
(* The lock word is INT_MIN + n while the lock is held and n while it is   *)
(* free, n being the number of threads that are counted: the holder and    *)
(* the threads that gave up spinning.  One step of the model is one atomic *)
(* access of the code to shared memory or one futex system call.           *)
(***************************************************************************)
EXTENDS Integers, FiniteSets

CONSTANTS
    Thread,   \* every thread the process may ever have
    Main,     \* the thread main() runs on
    Half,     \* 2^31: INT_MIN is -Half
    Spins,    \* attempts before a thread is counted as a waiter (10)
    NoThread  \* the abstract owner of a free lock

ASSUME ThreadAssumption == IsFiniteSet(Thread) /\ Main \in Thread
ASSUME HalfAssumption == Half \in Nat /\ Cardinality(Thread) < Half
ASSUME NoThreadAssumption == NoThread \notin Thread
ASSUME SpinsAssumption == Spins \in Nat \ {0}

VARIABLES
    word,        \* *l
    needLocks,   \* libc.need_locks: 1 threaded, 0 not, -1 one thread is left
    live,        \* the threads on the thread list
    pc,          \* where each thread is in __lock or __unlock
    nl,          \* __lock's local need_locks
    current,     \* __lock's local current
    i            \* __lock's local i

vars == <<word, needLocks, live, pc, nl, current, i>>

IntMin == -Half

Locked(n) == IntMin + n

\* Counted in the lock word: line 20 was executed and the lock not released.
Waiting == {t \in Thread : pc[t] \in {"wait", "asleep", "cas"}}

Asleep == {t \in Thread : pc[t] = "asleep"}

\* Between the return of __lock and the release in __unlock.
Inside == {t \in Thread : pc[t] \in {"inside", "release"}}

PC == {"idle", "first", "flag", "spin", "add", "wait", "asleep", "cas",
       "inside", "release", "wake"}

TypeOK ==
    /\ word \in Int
    /\ needLocks \in {-1, 0, 1}
    /\ live \in SUBSET Thread
    /\ pc \in [Thread -> PC]
    /\ nl \in [Thread -> {-1, 0, 1}]
    /\ current \in [Thread -> Int]
    /\ i \in [Thread -> Nat]

Init ==
    /\ word = 0
    /\ needLocks = 0
    /\ live = {Main}
    /\ pc = [t \in Thread |-> "idle"]
    /\ nl = [t \in Thread |-> 0]
    /\ current = [t \in Thread |-> 0]
    /\ i = [t \in Thread |-> 0]

Goto(t, from, to) == pc[t] = from /\ pc' = [pc EXCEPT ![t] = to]

-----------------------------------------------------------------------------
\* __lock

\* Reading libc.need_locks: a process with one thread takes no lock.
Enter(t) ==
    /\ t \in live
    /\ Goto(t, "idle", IF needLocks = 0 THEN "inside" ELSE "first")
    /\ nl' = [nl EXCEPT ![t] = needLocks]
    /\ UNCHANGED <<word, needLocks, live, current, i>>

\* a_cas(l, 0, INT_MIN + 1)
FirstCas(t) ==
    /\ Goto(t, "first", "flag")
    /\ current' = [current EXCEPT ![t] = word]
    /\ word' = IF word = 0 THEN Locked(1) ELSE word
    /\ UNCHANGED <<needLocks, live, nl, i>>

\* Mutant: the early return does not look at what a_cas returned.
ClearFlagReturns(t) ==
    /\ Goto(t, "flag", "inside")
    /\ needLocks' = IF nl[t] < 0 THEN 0 ELSE needLocks
    /\ i' = [i EXCEPT ![t] = 0]
    /\ UNCHANGED <<word, live, nl, current>>

\* if (need_locks < 0) libc.need_locks = 0, then the early return.
ClearFlag(t) ==
    /\ Goto(t, "flag", IF current[t] = 0 THEN "inside" ELSE "spin")
    /\ needLocks' = IF nl[t] < 0 THEN 0 ELSE needLocks
    /\ i' = [i EXCEPT ![t] = 0]
    /\ UNCHANGED <<word, live, nl, current>>

\* The value a lock word seen while locked has once its holder leaves.
Unlocked(c) == IF c < 0 THEN c - Locked(1) ELSE c

\* One turn of the spinning loop.
SpinCas(t) ==
    LET c == Unlocked(current[t]) IN
    /\ i' = [i EXCEPT ![t] = @ + 1]
    /\ IF word = c
       THEN /\ Goto(t, "spin", "inside")
            /\ word' = Locked(c + 1)
            /\ current' = [current EXCEPT ![t] = c]
       ELSE /\ Goto(t, "spin", IF i[t] + 1 < Spins THEN "spin" ELSE "add")
            /\ current' = [current EXCEPT ![t] = word]
            /\ UNCHANGED word
    /\ UNCHANGED <<needLocks, live, nl>>

\* current = a_fetch_add(l, 1) + 1
CountMe(t) ==
    /\ Goto(t, "add", IF word + 1 < 0 THEN "wait" ELSE "cas")
    /\ word' = word + 1
    /\ current' = [current EXCEPT ![t] = word + 1]
    /\ UNCHANGED <<needLocks, live, nl, i>>

\* FUTEX_WAIT: the kernel compares and enqueues in one step, or answers EAGAIN.
FutexWait(t) ==
    /\ Goto(t, "wait", IF word = current[t] THEN "asleep" ELSE "cas")
    /\ current' = IF word = current[t] THEN current
                  ELSE [current EXCEPT ![t] = Unlocked(@)]
    /\ UNCHANGED <<word, needLocks, live, nl, i>>

\* A sleeper returns from FUTEX_WAIT because a signal handler ran.
Interrupt(t) ==
    /\ Goto(t, "asleep", "cas")
    /\ current' = [current EXCEPT ![t] = Unlocked(@)]
    /\ UNCHANGED <<word, needLocks, live, nl, i>>

\* Mutant: the thread is counted a second time.
SlowCasCounts(t) ==
    /\ IF word = current[t]
       THEN /\ Goto(t, "cas", "inside")
            /\ word' = Locked(current[t] + 1)
            /\ UNCHANGED current
       ELSE /\ Goto(t, "cas", IF word < 0 THEN "wait" ELSE "cas")
            /\ current' = [current EXCEPT ![t] = word]
            /\ UNCHANGED word
    /\ UNCHANGED <<needLocks, live, nl, i>>

\* a_cas(l, current, INT_MIN + current): the count already holds this thread.
SlowCas(t) ==
    /\ IF word = current[t]
       THEN /\ Goto(t, "cas", "inside")
            /\ word' = Locked(current[t])
            /\ UNCHANGED current
       ELSE /\ Goto(t, "cas", IF word < 0 THEN "wait" ELSE "cas")
            /\ current' = [current EXCEPT ![t] = word]
            /\ UNCHANGED word
    /\ UNCHANGED <<needLocks, live, nl, i>>

-----------------------------------------------------------------------------
\* __unlock

\* if (l[0] < 0): an elided __lock has nothing to release.
ReadWord(t) ==
    /\ Goto(t, "inside", IF word < 0 THEN "release" ELSE "idle")
    /\ UNCHANGED <<word, needLocks, live, nl, current, i>>

\* Mutant: a single waiter is not woken.
FetchReleaseOffByOne(t) ==
    /\ Goto(t, "release", IF word > Locked(2) THEN "wake" ELSE "idle")
    /\ word' = word - Locked(1)
    /\ UNCHANGED <<needLocks, live, nl, current, i>>

\* a_fetch_add(l, -(INT_MIN + 1))
FetchRelease(t) ==
    /\ Goto(t, "release", IF word # Locked(1) THEN "wake" ELSE "idle")
    /\ word' = word - Locked(1)
    /\ UNCHANGED <<needLocks, live, nl, current, i>>

\* Mutant: the wake is forgotten.
WakeNobody(t) ==
    /\ Goto(t, "wake", "idle")
    /\ UNCHANGED <<word, needLocks, live, nl, current, i>>

\* FUTEX_WAKE of one sleeper, if there is one.
Wake(t) ==
    /\ pc[t] = "wake"
    /\ \/ /\ Asleep = {}
          /\ pc' = [pc EXCEPT ![t] = "idle"]
          /\ UNCHANGED current
       \/ \E u \in Asleep :
          /\ pc' = [pc EXCEPT ![t] = "idle", ![u] = "cas"]
          /\ current' = [current EXCEPT ![u] = Unlocked(@)]
    /\ UNCHANGED <<word, needLocks, live, nl, i>>

-----------------------------------------------------------------------------
\* pthread_create and pthread_exit, as far as need_locks goes.  Both run with
\* the thread list locked and hold no internal lock while they do this.

Create(t, u) ==
    /\ t \in live /\ pc[t] = "idle"
    /\ u \notin live
    /\ live' = live \cup {u}
    /\ needLocks' = IF live = {t} THEN 1 ELSE needLocks
    /\ UNCHANGED <<word, pc, nl, current, i>>

\* __clone failed: the thread count goes back, need_locks with it.
CreateFails(t) ==
    /\ t \in live /\ pc[t] = "idle"
    /\ needLocks' = IF live = {t} THEN 0 ELSE needLocks
    /\ UNCHANGED <<word, live, pc, nl, current, i>>

\* Mutant: need_locks is dropped when two threads are left.
ExitTooEarly(t) ==
    /\ t \in live /\ pc[t] = "idle"
    /\ live # {t}
    /\ live' = live \ {t}
    /\ needLocks' = -1
    /\ UNCHANGED <<word, pc, nl, current, i>>

Exit(t) ==
    /\ t \in live /\ pc[t] = "idle"
    /\ live # {t}
    /\ live' = live \ {t}
    /\ needLocks' = IF \E u \in live : live' = {u} THEN -1 ELSE needLocks
    /\ UNCHANGED <<word, pc, nl, current, i>>

-----------------------------------------------------------------------------
LockStep(t) ==
    \/ FirstCas(t) \/ ClearFlag(t) \/ SpinCas(t) \/ CountMe(t)
    \/ FutexWait(t) \/ SlowCas(t)

UnlockStep(t) == ReadWord(t) \/ FetchRelease(t) \/ Wake(t)

Next ==
    \/ \E t \in Thread :
         Enter(t) \/ LockStep(t) \/ UnlockStep(t) \/ Interrupt(t)
           \/ CreateFails(t) \/ Exit(t)
    \/ \E t, u \in Thread : Create(t, u)

Spec == Init /\ [][Next]_vars

\* Every thread inside __lock or __unlock is eventually scheduled; nothing is
\* assumed about when threads call __lock, exit, or take signals.
Fairness == \A t \in Thread : WF_vars(LockStep(t)) /\ WF_vars(UnlockStep(t))

FairSpec == Spec /\ Fairness

-----------------------------------------------------------------------------
\* The lock excludes: no two threads are between __lock and __unlock, whether
\* they took the word or skipped it because need_locks was 0 (__lock.c:3-43).
MutualExclusion == \A t, u \in Inside : t = u

\* A sleeper is never forgotten: when the word says the lock is free while a
\* thread sleeps in futexwait, some thread is about to wake it or is awake and
\* counted, and so will take the lock and pass the duty on (__lock.c:22-40).
NoLostWakeup ==
    word >= 0 /\ Asleep # {} =>
        \E t \in Thread : pc[t] \in {"wake", "cas", "wait"}

\* The threads that took the lock through its word (not by elision).
Holders == {t \in Thread : \/ pc[t] = "release"
                           \/ pc[t] = "inside" /\ nl[t] # 0
                           \/ pc[t] = "flag" /\ current[t] = 0}

\* The word is exactly the holder bit plus the number of counted threads, so
\* no interleaving of lock, retry and unlock can leave a count behind and
\* wedge the lock (__lock.c:8-39).
CountExact ==
    word = (IF Holders = {} THEN 0 ELSE IntMin)
             + Cardinality(Holders) + Cardinality(Waiting)

\* Skipping the lock is only possible while there is nobody to exclude: with
\* need_locks 0 the process has one thread (__lock.c:5-9, pthread_create.c:124,
\* 393, 414).
ElisionSound == needLocks <= 0 => \E t \in Thread : live = {t}

\* As long as threads want the lock, somebody gets it again and again.
Progress == (\E t \in Thread : pc[t] \in {"first", "spin", "add", "wait", "asleep", "cas"})
              ~> (\E t \in Thread : pc[t] = "inside")

\* The library lock implements the abstract one; a thread owns it from the
\* return of __lock until the release in __unlock.
owner == IF Inside = {} THEN NoThread ELSE CHOOSE t \in Inside : TRUE

Abstract == INSTANCE AbstractLock

ImplementsLock == Abstract!Spec
=============================================================================
