---------------------------- MODULE SharedProofs -----------------------------
(***************************************************************************)
(* Proofs about process-shared barriers, for any finite set of threads.    *)
(***************************************************************************)
EXTENDS Integers, FiniteSets, TLAPS

CONSTANTS
    Thread, Limits

VARIABLES
    pc, limit, lock, waiters, count, waiters2, vmlock, vmwaiters, on, v, saw, inround, gone

\* The sizes of the sets of threads in T.
NumbersOf(T) ==
    /\ \A X \in SUBSET T : Cardinality(X) \in Nat /\ (Cardinality(X) = 0 <=> X = {})
    /\ \A X, Y \in SUBSET T : X \subseteq Y => Cardinality(X) <= Cardinality(Y)
    /\ \A X, Y \in SUBSET T, t \in T : (\A u \in T : u # t => (u \in X <=> u \in Y)) =>
         /\ (t \in X <=> t \in Y) => Cardinality(Y) = Cardinality(X)
         /\ t \notin X /\ t \in Y => Cardinality(Y) = Cardinality(X) + 1
         /\ t \in X /\ t \notin Y => Cardinality(Y) = Cardinality(X) - 1

\* What the proofs assume of the constants.
SharedConstants ==
    NumbersOf(Thread) /\ Limits \subseteq Nat \ {0, 1}

\* Sets of threads that differ in one element at most: how their sizes differ.
LEMMA OneApart ==
    ASSUME NEW T, NumbersOf(T), NEW X \in SUBSET T, NEW Y \in SUBSET T,
           NEW t \in T, \A u \in T : u # t => (u \in X <=> u \in Y)
    PROVE  /\ Cardinality(X) \in Nat /\ Cardinality(Y) \in Nat
           /\ (t \in X <=> t \in Y) => Cardinality(Y) = Cardinality(X)
           /\ t \notin X /\ t \in Y => Cardinality(Y) = Cardinality(X) + 1
           /\ t \in X /\ t \notin Y => Cardinality(Y) = Cardinality(X) - 1
BY ZenonT(90) DEF NumbersOf

LEMMA NumberZero ==
    ASSUME NEW T, NumbersOf(T), NEW X \in SUBSET T
    PROVE  Cardinality(X) \in Nat /\ (Cardinality(X) = 0 <=> X = {})
BY Zenon DEF NumbersOf

LEMMA NoNumber ==
    ASSUME SharedConstants
    PROVE  Cardinality({}) = 0
BY Zenon, NumberZero DEF SharedConstants

-----------------------------------------------------------------------------
(***************************************************************************)
(* Process-shared barriers.                                                *)
(***************************************************************************)
BS == INSTANCE BarrierShared

\* The component counts with an instance of its own of the standard module.
LEMMA ShSize ==
    ASSUME NEW X
    PROVE  BS!Cardinality(X) = Cardinality(X)
BY Zenon DEF BS!Cardinality, Cardinality, BS!IsFiniteSet, IsFiniteSet

LEMMA ShInit ==
    ASSUME SharedConstants, BS!Init
    PROVE  BS!IInv
<1>1. /\ BS!FreeLock \in BS!LockWord /\ BS!FreeLock \in [n : Int, dead : BOOLEAN]
      /\ BS!FreeLock.n = 0 /\ "idle" \in BS!PC /\ "lock" \in BS!Site
  BY SMTT(90) DEF BS!FreeLock, BS!Plain, BS!LockWord, BS!PC, BS!Site
<1>2. BS!TypeOK
  <2>1. /\ pc \in [Thread -> BS!PC] /\ on \in [Thread -> BS!Site]
        /\ v \in [Thread -> [n : Int, dead : BOOLEAN]] /\ saw \in [Thread -> BOOLEAN]
    BY Zenon, <1>1 DEF BS!Init
  <2> QED BY Zenon, <1>1, <2>1 DEF BS!Init, BS!TypeOK
<1>3. /\ \A S : BS!Counted(S) = {}
      /\ BS!VmHolders = {} /\ BS!Inside = {} /\ BS!Holder = {} /\ BS!Pending = {} /\ ~BS!Destroying
  BY Zenon DEF BS!Init, BS!Counted, BS!VmHolders, BS!Inside, BS!Holder, BS!Pending, BS!Destroying,
         BS!Waits, BS!Leaving
<1>4. BS!CountsExact
  BY Zenon, <1>3, NoNumber, ShSize DEF BS!Init, BS!CountsExact
<1>5. BS!Open
  <2>1. Cardinality(inround) = 0 /\ limit > 0 /\ limit \in Nat
    BY SMTT(90), NoNumber DEF BS!Init, SharedConstants
  <2> QED BY SMTT(90), <1>1, <1>3, <2>1, ShSize DEF BS!Init, BS!Open
<1>6. BS!Ending
  BY Zenon, <1>3 DEF BS!Init, BS!Ending, BS!Waits
<1> QED BY Zenon, <1>2, <1>4, <1>5, <1>6 DEF BS!IInv

\* A step of one thread leaves the others where they are, or wakes them.
LEMMA ShFrame ==
    ASSUME BS!TypeOK, NEW t \in Thread, BS!Call(t) \/ BS!Destroy(t) \/ BS!Step(t) \/ BS!Interrupt(t)
    PROVE  \A u \in Thread : u # t =>
             /\ on'[u] = on[u]
             /\ pc'[u] = pc[u] \/ (pc[u] = "asleep" /\ pc'[u] = "test")
<1> USE DEF BS!TypeOK, BS!Goto
<1>1. CASE BS!Wait(t)
  BY Zenon, <1>1 DEF BS!Wait, BS!WaitReturns
<1>2. CASE BS!Call(t) \/ BS!Destroy(t) \/ BS!Interrupt(t) \/ BS!Arrive(t) \/ BS!Reset(t) \/ BS!Unlock(t)
  BY Zenon, <1>2 DEF BS!Call, BS!Destroy, BS!Interrupt, BS!Arrive, BS!Reset, BS!Unlock
<1>3. CASE BS!Cas(t) \/ BS!AwaitRound(t) \/ BS!AwaitLeaving(t) \/ BS!AwaitUnlocked(t) \/ BS!VmWait(t)
  BY Zenon, <1>3
  DEF BS!Cas, BS!AwaitRound, BS!AwaitLeaving, BS!AwaitUnlocked, BS!VmWait, BS!CallWait
<1>4. CASE BS!WakeRound(t) \/ BS!WakeOut(t) \/ BS!VmWake(t)
  BY Zenon, <1>4 DEF BS!WakeRound, BS!WakeOut, BS!VmWake, BS!WakeAll, BS!Sleepers
<1>5. CASE BS!Kick(t) \/ BS!WakeLock(t)
  BY Zenon, <1>5 DEF BS!Kick, BS!WakeLock, BS!WakeOne, BS!Sleepers
<1>6. CASE BS!VmLock(t) \/ BS!Fetch(t) \/ BS!Zero(t) \/ BS!Look(t) \/ BS!Peek(t) \/ BS!Release(t)
  BY Zenon, <1>6 DEF BS!VmLock, BS!Fetch, BS!Zero, BS!Look, BS!Peek, BS!Release
<1>7. CASE BS!VmUnlock(t) \/ BS!TestLock(t) \/ BS!SetDead(t)
  BY Zenon, <1>7 DEF BS!VmUnlock, BS!TestLock, BS!SetDead
<1> QED BY Zenon, <1>1, <1>2, <1>3, <1>4, <1>5, <1>6, <1>7 DEF BS!Step

\* So they stay in the sets that the invariant is about.
LEMMA ShElse ==
    ASSUME BS!TypeOK, NEW t \in Thread, BS!Call(t) \/ BS!Destroy(t) \/ BS!Step(t) \/ BS!Interrupt(t)
    PROVE  \A u \in Thread : u # t =>
             /\ on'[u] = on[u]
             /\ pc[u] \in BS!Waits <=> pc'[u] \in BS!Waits
             /\ pc[u] \notin BS!Waits => pc'[u] = pc[u]
             /\ \A S : u \in BS!Counted(S) <=> u \in BS!Counted(S)'
             /\ u \in BS!VmHolders <=> u \in BS!VmHolders'
             /\ u \in BS!Holder <=> u \in BS!Holder'
             /\ u \in BS!Inside <=> u \in BS!Inside'
             /\ u \in BS!Before <=> u \in BS!Before'
             /\ u \in BS!Zeroing <=> u \in BS!Zeroing'
<1>0. \A u \in Thread : u # t =>
             /\ on'[u] = on[u]
             /\ pc'[u] = pc[u] \/ (pc[u] = "asleep" /\ pc'[u] = "test")
  BY Zenon, ShFrame
<1> TAKE u \in Thread
<1> HAVE u # t
<1>1. CASE pc'[u] = pc[u]
  BY Zenon, <1>0, <1>1 DEF BS!Counted, BS!VmHolders, BS!Holder, BS!Inside, BS!Before, BS!Zeroing
<1>2. CASE pc[u] = "asleep" /\ pc'[u] = "test"
  BY Zenon, <1>0, <1>2
  DEF BS!Counted, BS!VmHolders, BS!Holder, BS!Inside, BS!Before, BS!Zeroing, BS!Waits, BS!Leaving
<1> QED BY Zenon, <1>0, <1>1, <1>2

LEMMA ShTypes ==
    ASSUME SharedConstants, BS!IInv, BS!Next
    PROVE  BS!TypeOK'
<1> SUFFICES ASSUME NEW t \in Thread, BS!Call(t) \/ BS!Destroy(t) \/ BS!Step(t) \/ BS!Interrupt(t)
             PROVE  BS!TypeOK'
  BY Zenon DEF BS!Next
<1>0. BS!TypeOK
  BY Zenon DEF BS!IInv
<1>w. /\ BS!FreeLock \in BS!LockWord /\ BS!FreeLock \in [n : Int, dead : BOOLEAN]
      /\ \A k \in Nat : BS!Plain(k) \in BS!LockWord
      /\ \A k \in Int : BS!Plain(k) \in [n : Int, dead : BOOLEAN]
      /\ lock \in [n : Int, dead : BOOLEAN] /\ lock.n \in Nat /\ lock.dead \in BOOLEAN
      /\ \A k \in Nat, b \in BOOLEAN : [n |-> k, dead |-> b] \in BS!LockWord
      /\ limit \in Nat
  BY SMTT(90), <1>0 DEF BS!TypeOK, BS!LockWord, BS!FreeLock, BS!Plain, SharedConstants
<1>a. \A s \in BS!Site : BS!Addr(s) \in [n : Int, dead : BOOLEAN]
  BY SMTT(90), <1>0, <1>w DEF BS!TypeOK, BS!Addr
<1>b. \A s \in BS!Site : BS!Back(s) \in BS!PC
  BY Zenon DEF BS!Back, BS!PC, BS!Site, BS!Arriving
<1>p. /\ BS!Waits \subseteq BS!PC /\ BS!Arriving \subseteq BS!PC /\ BS!Leaving \subseteq BS!PC
      /\ {"idle", "round", "leaving", "vmunlock", "vmwake", "destroy", "setdead", "deadloop",
          "vmloop"} \subseteq BS!PC
      /\ BS!Site = {"lock", "round", "leaving", "destroy", "vm"}
  BY Zenon DEF BS!PC, BS!Site
<1>c. /\ pc[t] = "dec" /\ on[t] = "lock" => waiters - 1 \in Nat
      /\ pc[t] = "dec" /\ on[t] \in {"round", "leaving"} => waiters2 - 1 \in Nat
      /\ pc[t] = "dec" /\ on[t] = "vm" => vmwaiters - 1 \in Nat
      /\ pc[t] = "vmunlock" => vmlock - 1 \in Nat
  <2>1. /\ \A S : BS!Counted(S) \in SUBSET Thread
        /\ BS!VmHolders \in SUBSET Thread
        /\ \A S : pc[t] = "dec" /\ on[t] \in S => t \in BS!Counted(S)
        /\ pc[t] = "vmunlock" => t \in BS!VmHolders
    BY Zenon DEF BS!Counted, BS!VmHolders
  <2>2. /\ waiters = Cardinality(BS!Counted({"lock"}))
        /\ waiters2 = Cardinality(BS!Counted({"round", "leaving"}))
        /\ vmwaiters = Cardinality(BS!Counted({"vm"}))
        /\ vmlock = Cardinality(BS!VmHolders)
    BY Zenon, ShSize DEF BS!IInv, BS!CountsExact
  <2>3. ASSUME NEW X \in SUBSET Thread, t \in X
        PROVE  Cardinality(X) - 1 \in Nat
    BY SMTT(90), <2>3, NumberZero DEF SharedConstants
  <2>4. /\ pc[t] = "dec" /\ on[t] = "lock" => t \in BS!Counted({"lock"})
        /\ pc[t] = "dec" /\ on[t] \in {"round", "leaving"} => t \in BS!Counted({"round", "leaving"})
        /\ pc[t] = "dec" /\ on[t] = "vm" => t \in BS!Counted({"vm"})
    BY Zenon, <2>1
  <2> QED BY Zenon, <2>1, <2>2, <2>3, <2>4
<1>n. waiters + 1 \in Nat /\ waiters2 + 1 \in Nat /\ vmwaiters + 1 \in Nat /\ vmlock + 1 \in Nat
      /\ count + 1 \in Int /\ count - 1 \in Int
  BY SMTT(90), <1>0 DEF BS!TypeOK
<1> USE DEF BS!TypeOK, BS!Goto, BS!Waits, BS!Arriving, BS!Leaving
<1>1. CASE BS!Wait(t)
  <2>1. on[t] \in BS!Site /\ BS!Back(on[t]) \in BS!PC
    BY Zenon, <1>0, <1>b
  <2>2. pc' \in [Thread -> BS!PC] /\ on' \in [Thread -> BS!Site]
    BY ZenonT(90), <1>0, <1>1, <1>p, <2>1 DEF BS!Wait, BS!WaitReturns
  <2>3. v' \in [Thread -> [n : Int, dead : BOOLEAN]]
    BY Zenon, <1>0, <1>1, <1>w DEF BS!Wait, BS!WaitReturns
  <2>4. waiters' \in Nat /\ waiters2' \in Nat /\ vmwaiters' \in Nat
    BY Zenon, <1>0, <1>1, <1>c, <1>n DEF BS!Wait, BS!WaitReturns, BS!AddWaiter
  <2> QED BY Zenon, <1>0, <1>1, <2>2, <2>3, <2>4 DEF BS!Wait
<1>2. CASE BS!Call(t) \/ BS!Destroy(t) \/ BS!Interrupt(t)
  BY ZenonT(90), <1>0, <1>2, <1>p DEF BS!Call, BS!Destroy, BS!Interrupt, BS!barrier, BS!vm
<1>3. ASSUME NEW from, NEW s \in BS!Site, BS!CallWait(t, from, s)
      PROVE  /\ pc' \in [Thread -> BS!PC] /\ on' \in [Thread -> BS!Site]
             /\ v' \in [Thread -> [n : Int, dead : BOOLEAN]]
  BY Zenon, <1>0, <1>3, <1>a, <1>p DEF BS!CallWait
<1>4. CASE BS!Cas(t)
  <2>1. lock' \in BS!LockWord
    BY ZenonT(90), <1>0, <1>4, <1>w DEF BS!Cas
  <2>2. CASE lock = BS!FreeLock
    BY ZenonT(90), <1>0, <1>4, <1>p, <2>1, <2>2 DEF BS!Cas, BS!vm
  <2>3. CASE lock # BS!FreeLock
    BY Zenon, <1>0, <1>3, <1>4, <1>p, <2>1, <2>3 DEF BS!Cas, BS!vm
  <2> QED BY Zenon, <2>2, <2>3
<1>5. CASE BS!Arrive(t) \/ BS!Reset(t) \/ BS!Unlock(t)
  <2>1. lock' \in BS!LockWord
    BY Zenon, <1>0, <1>5, <1>w DEF BS!Arrive, BS!Reset, BS!Unlock
  <2> QED
    BY SMTT(90), <1>0, <1>5, <1>n, <1>p, <2>1 DEF BS!Arrive, BS!Reset, BS!Unlock, BS!vm
<1>6. CASE BS!WakeRound(t) \/ BS!WakeOut(t) \/ BS!VmWake(t)
  BY ZenonT(90), <1>0, <1>6, <1>p
  DEF BS!WakeRound, BS!WakeOut, BS!VmWake, BS!WakeAll, BS!barrier, BS!vm
<1>7. CASE BS!Kick(t) \/ BS!WakeLock(t)
  BY ZenonT(90), <1>0, <1>7, <1>p DEF BS!Kick, BS!WakeLock, BS!WakeOne, BS!barrier, BS!vm
<1>8. CASE BS!AwaitRound(t) \/ BS!AwaitLeaving(t)
  BY ZenonT(90), <1>0, <1>3, <1>8, <1>p DEF BS!AwaitRound, BS!AwaitLeaving, BS!barrier, BS!vm
<1>9. CASE BS!VmLock(t) \/ BS!VmUnlock(t)
  BY ZenonT(90), <1>0, <1>9, <1>c, <1>n, <1>p DEF BS!VmLock, BS!VmUnlock, BS!barrier
<1>10. CASE BS!Fetch(t) \/ BS!Zero(t)
  BY SMTT(90), <1>0, <1>10, <1>n, <1>p DEF BS!Fetch, BS!Zero, BS!vm
<1>11. CASE BS!Look(t) \/ BS!Peek(t)
  <2>1. v' \in [Thread -> [n : Int, dead : BOOLEAN]]
    BY Zenon, <1>0, <1>11, <1>w DEF BS!Look, BS!Peek
  <2>2. pc' \in [Thread -> BS!PC] /\ on' \in [Thread -> BS!Site]
    BY ZenonT(90), <1>0, <1>11, <1>p DEF BS!Look, BS!Peek
  <2>3. UNCHANGED <<limit, BS!barrier, BS!vm, inround, gone>> /\ saw' \in [Thread -> BOOLEAN]
    BY Zenon, <1>0, <1>11 DEF BS!Look, BS!Peek
  <2> QED
    BY Zenon, <1>0, <2>1, <2>2, <2>3 DEF BS!barrier, BS!vm
<1>12. CASE BS!Release(t)
  <2>1. lock.n > 0
    <3>1. t \in BS!Inside /\ pc[t] = "release" /\ BS!Inside \in SUBSET Thread
      BY Zenon, <1>12 DEF BS!Release, BS!Inside
    <3>2. BS!Closing
      BY Zenon, <3>1 DEF BS!IInv, BS!Open
    <3>3. lock.n = Cardinality(BS!Inside)
      BY Zenon, <3>2, ShSize DEF BS!Closing
    <3> QED BY SMTT(90), <1>w, <3>1, <3>3, NumberZero DEF SharedConstants
  <2>2. lock.n - 1 \in Nat
    BY SMTT(90), <1>w, <2>1
  <2>3. lock' \in BS!LockWord
    <3>1. [n |-> lock.n - 1, dead |-> lock.dead] \in BS!LockWord
      BY SMTT(90), <1>w, <2>2 DEF BS!LockWord
    <3> QED BY Zenon, <1>0, <1>12, <1>w, <3>1 DEF BS!Release
  <2>4. pc' \in [Thread -> BS!PC] /\ v' \in [Thread -> [n : Int, dead : BOOLEAN]]
    <3>1. v' = [v EXCEPT ![t] = BS!FreeLock]
      BY Zenon, <1>12 DEF BS!Release
    <3>2. v' \in [Thread -> [n : Int, dead : BOOLEAN]]
      BY Zenon, <1>0, <1>w, <3>1
    <3>3. pc' \in [Thread -> BS!PC]
      BY ZenonT(90), <1>0, <1>12, <1>p DEF BS!Release
    <3> QED BY Zenon, <3>2, <3>3
  <2>5. /\ UNCHANGED <<limit, waiters, count, waiters2, BS!vm, on, inround, gone>>
        /\ saw' \in [Thread -> BOOLEAN]
    BY Zenon, <1>0, <1>12 DEF BS!Release
  <2> QED
    BY Zenon, <1>0, <2>3, <2>4, <2>5 DEF BS!vm
<1>13. CASE BS!TestLock(t) \/ BS!SetDead(t)
  <2>1. lock' \in BS!LockWord
    BY ZenonT(90), <1>0, <1>13, <1>w DEF BS!TestLock, BS!SetDead, BS!barrier
  <2> QED
    BY ZenonT(90), <1>0, <1>13, <1>p, <2>1 DEF BS!TestLock, BS!SetDead, BS!barrier, BS!vm
<1>14. CASE BS!AwaitUnlocked(t) \/ BS!VmWait(t)
  BY ZenonT(90), <1>0, <1>3, <1>14, <1>p DEF BS!AwaitUnlocked, BS!VmWait, BS!barrier, BS!vm
<1> QED
  BY Zenon, <1>1, <1>2, <1>4, <1>5, <1>6, <1>7, <1>8, <1>9, <1>10, <1>11, <1>12, <1>13, <1>14
  DEF BS!Step

\* The counters of waiting threads, and the vmlock, are exact.
LEMMA ShCounts ==
    ASSUME SharedConstants, BS!IInv, BS!Next
    PROVE  BS!CountsExact'
<1> SUFFICES ASSUME NEW t \in Thread, BS!Call(t) \/ BS!Destroy(t) \/ BS!Step(t) \/ BS!Interrupt(t)
             PROVE  BS!CountsExact'
  BY Zenon DEF BS!Next
<1>0. BS!TypeOK
  BY Zenon DEF BS!IInv
<1>1. \A u \in Thread : u # t =>
        /\ \A S : u \in BS!Counted(S) <=> u \in BS!Counted(S)'
        /\ u \in BS!VmHolders <=> u \in BS!VmHolders'
  BY Zenon, <1>0, ShElse
<1>2. /\ \A S : BS!Counted(S) \in SUBSET Thread /\ BS!Counted(S)' \in SUBSET Thread
      /\ BS!VmHolders \in SUBSET Thread /\ BS!VmHolders' \in SUBSET Thread
  BY Zenon DEF BS!Counted, BS!VmHolders
<1>3. \A S : LET X == BS!Counted(S)
                 Y == BS!Counted(S)'
             IN  /\ Cardinality(X) \in Nat /\ Cardinality(Y) \in Nat
                 /\ (t \in X <=> t \in Y) => Cardinality(Y) = Cardinality(X)
                 /\ t \notin X /\ t \in Y => Cardinality(Y) = Cardinality(X) + 1
                 /\ t \in X /\ t \notin Y => Cardinality(Y) = Cardinality(X) - 1
  BY SMTT(90), <1>1, <1>2, OneApart DEF SharedConstants
<1>4. LET X == BS!VmHolders
          Y == BS!VmHolders'
      IN  /\ Cardinality(X) \in Nat /\ Cardinality(Y) \in Nat
          /\ (t \in X <=> t \in Y) => Cardinality(Y) = Cardinality(X)
          /\ t \notin X /\ t \in Y => Cardinality(Y) = Cardinality(X) + 1
          /\ t \in X /\ t \notin Y => Cardinality(Y) = Cardinality(X) - 1
  BY SMTT(90), <1>1, <1>2, OneApart DEF SharedConstants
<1>5. /\ waiters = Cardinality(BS!Counted({"lock"}))
      /\ waiters2 = Cardinality(BS!Counted({"round", "leaving"}))
      /\ vmwaiters = Cardinality(BS!Counted({"vm"}))
      /\ vmlock = Cardinality(BS!VmHolders)
  BY Zenon, ShSize DEF BS!IInv, BS!CountsExact
<1>c. \A S : /\ t \in BS!Counted(S) <=> pc[t] \in {"test", "asleep", "dec"} /\ on[t] \in S
             /\ t \in BS!Counted(S)' <=> pc'[t] \in {"test", "asleep", "dec"} /\ on'[t] \in S
  BY Zenon DEF BS!Counted
<1>v. /\ t \in BS!VmHolders <=> \/ pc[t] \in (BS!Leaving \ {"vmlock"}) \cup {"leaving", "vmunlock"}
                                \/ pc[t] \in BS!Waits /\ on[t] = "leaving"
      /\ t \in BS!VmHolders' <=> \/ pc'[t] \in (BS!Leaving \ {"vmlock"}) \cup {"leaving", "vmunlock"}
                                 \/ pc'[t] \in BS!Waits /\ on'[t] = "leaving"
  BY Zenon DEF BS!VmHolders
<1>6. SUFFICES /\ waiters' = Cardinality(BS!Counted({"lock"})')
               /\ waiters2' = Cardinality(BS!Counted({"round", "leaving"})')
               /\ vmwaiters' = Cardinality(BS!Counted({"vm"})')
               /\ vmlock' = Cardinality(BS!VmHolders')
  BY Zenon, ShSize DEF BS!CountsExact
<1> USE DEF BS!TypeOK, BS!Goto
\* The counters that a step leaves alone.
<1>s. ASSUME UNCHANGED <<waiters, waiters2, vmwaiters>>,
             \A S : t \in BS!Counted(S) <=> t \in BS!Counted(S)'
      PROVE  /\ waiters' = Cardinality(BS!Counted({"lock"})')
             /\ waiters2' = Cardinality(BS!Counted({"round", "leaving"})')
             /\ vmwaiters' = Cardinality(BS!Counted({"vm"})')
  BY Zenon, <1>3, <1>5, <1>s
<1>t. ASSUME vmlock' = vmlock, t \in BS!VmHolders <=> t \in BS!VmHolders'
      PROVE  vmlock' = Cardinality(BS!VmHolders')
  BY Zenon, <1>4, <1>5, <1>t
<1>7. CASE BS!Wait(t)
  <2>1. vmlock' = vmlock /\ (t \in BS!VmHolders <=> t \in BS!VmHolders')
    BY ZenonT(90), <1>0, <1>7, <1>v
    DEF BS!Wait, BS!WaitReturns, BS!Back, BS!Waits, BS!Leaving, BS!Site
  <2>2. CASE pc[t] = "inc"
    <3>1. /\ on' = on /\ pc'[t] = "test" /\ BS!AddWaiter(on[t], 1)
          /\ on[t] \in {"lock", "round", "leaving", "destroy", "vm"}
      BY Zenon, <1>0, <1>7, <2>2 DEF BS!Wait, BS!WaitReturns, BS!Site
    <3>2. \A S : t \notin BS!Counted(S) /\ (t \in BS!Counted(S)' <=> on[t] \in S)
      BY Zenon, <1>c, <2>2, <3>1
    <3>3. waiters' = Cardinality(BS!Counted({"lock"})')
      BY Zenon, <1>3, <1>5, <3>1, <3>2 DEF BS!AddWaiter
    <3>4. waiters2' = Cardinality(BS!Counted({"round", "leaving"})')
      BY Zenon, <1>3, <1>5, <3>1, <3>2 DEF BS!AddWaiter
    <3>5. vmwaiters' = Cardinality(BS!Counted({"vm"})')
      BY Zenon, <1>3, <1>5, <3>1, <3>2 DEF BS!AddWaiter
    <3> QED BY Zenon, <1>t, <2>1, <3>3, <3>4, <3>5
  <2>3. CASE pc[t] = "dec"
    <3>1. /\ pc'[t] \notin {"test", "asleep", "dec"} /\ BS!AddWaiter(on[t], -1)
          /\ on[t] \in {"lock", "round", "leaving", "destroy", "vm"}
      BY Zenon, <1>0, <1>7, <2>3 DEF BS!Wait, BS!WaitReturns, BS!Back, BS!Site
    <3>2. \A S : t \notin BS!Counted(S)' /\ (t \in BS!Counted(S) <=> on[t] \in S)
      BY Zenon, <1>c, <2>3, <3>1
    <3>3. waiters' = Cardinality(BS!Counted({"lock"})')
      BY Zenon, <1>3, <1>5, <3>1, <3>2 DEF BS!AddWaiter
    <3>4. waiters2' = Cardinality(BS!Counted({"round", "leaving"})')
      BY Zenon, <1>3, <1>5, <3>1, <3>2 DEF BS!AddWaiter
    <3>5. vmwaiters' = Cardinality(BS!Counted({"vm"})')
      BY Zenon, <1>3, <1>5, <3>1, <3>2 DEF BS!AddWaiter
    <3> QED BY Zenon, <1>t, <2>1, <3>3, <3>4, <3>5
  <2>4. CASE pc[t] \notin {"inc", "dec"}
    <3>1. UNCHANGED <<waiters, waiters2, vmwaiters>>
      BY Zenon, <1>7, <2>4 DEF BS!Wait, BS!WaitReturns
    <3>2. /\ pc[t] \in {"test", "asleep", "dec"} <=> pc'[t] \in {"test", "asleep", "dec"}
          /\ pc[t] \in {"test", "asleep", "dec"} => on'[t] = on[t]
      BY Zenon, <1>0, <1>7, <2>4 DEF BS!Wait, BS!WaitReturns, BS!Back, BS!Site
    <3>3. \A S : t \in BS!Counted(S) <=> t \in BS!Counted(S)'
      BY Zenon, <1>c, <3>2
    <3> QED BY Zenon, <1>s, <1>t, <2>1, <3>1, <3>3
  <2> QED BY Zenon, <2>2, <2>3, <2>4
<1>q. ASSUME UNCHANGED <<waiters, waiters2, vmwaiters>>,
             pc[t] \in {"test", "asleep", "dec"} <=> pc'[t] \in {"test", "asleep", "dec"},
             pc[t] \in {"test", "asleep", "dec"} => on'[t] = on[t]
      PROVE  /\ waiters' = Cardinality(BS!Counted({"lock"})')
             /\ waiters2' = Cardinality(BS!Counted({"round", "leaving"})')
             /\ vmwaiters' = Cardinality(BS!Counted({"vm"})')
  <2>1. \A S : t \in BS!Counted(S) <=> t \in BS!Counted(S)'
    BY Zenon, <1>c, <1>q
  <2> QED BY Zenon, <1>q, <1>s, <2>1
<1>r. CASE ~BS!Wait(t)
  <2>0. /\ UNCHANGED <<waiters, waiters2, vmwaiters>>
        /\ pc[t] \in {"test", "asleep", "dec"} <=> pc'[t] \in {"test", "asleep", "dec"}
        /\ pc[t] \in {"test", "asleep", "dec"} => on'[t] = on[t]
    <3> USE DEF BS!barrier, BS!vm
    <3>1. CASE BS!Call(t) \/ BS!Destroy(t) \/ BS!Interrupt(t) \/ BS!Arrive(t) \/ BS!Reset(t) \/ BS!Unlock(t)
      BY Zenon, <1>0, <3>1 DEF BS!Call, BS!Destroy, BS!Interrupt, BS!Arrive, BS!Reset, BS!Unlock
    <3>2. CASE BS!Cas(t) \/ BS!AwaitRound(t) \/ BS!AwaitLeaving(t) \/ BS!AwaitUnlocked(t) \/ BS!VmWait(t)
      BY Zenon, <1>0, <3>2
      DEF BS!Cas, BS!AwaitRound, BS!AwaitLeaving, BS!AwaitUnlocked, BS!VmWait, BS!CallWait
    <3>3. CASE BS!WakeRound(t) \/ BS!WakeOut(t) \/ BS!VmWake(t)
      BY Zenon, <1>0, <3>3 DEF BS!WakeRound, BS!WakeOut, BS!VmWake, BS!WakeAll
    <3>4. CASE BS!Kick(t) \/ BS!WakeLock(t)
      BY Zenon, <1>0, <3>4 DEF BS!Kick, BS!WakeLock, BS!WakeOne, BS!Sleepers
    <3>5. CASE BS!VmLock(t) \/ BS!Fetch(t) \/ BS!Zero(t) \/ BS!Look(t) \/ BS!Peek(t) \/ BS!Release(t)
      BY ZenonT(90), <1>0, <3>5 DEF BS!VmLock, BS!Fetch, BS!Zero, BS!Look, BS!Peek, BS!Release
    <3>6. CASE BS!VmUnlock(t) \/ BS!TestLock(t) \/ BS!SetDead(t)
      BY Zenon, <1>0, <3>6 DEF BS!VmUnlock, BS!TestLock, BS!SetDead
    <3> QED BY Zenon, <1>r, <3>1, <3>2, <3>3, <3>4, <3>5, <3>6 DEF BS!Step
  <2>1. CASE BS!VmLock(t)
    <3>1. t \notin BS!VmHolders /\ t \in BS!VmHolders' /\ vmlock' = vmlock + 1
      BY Zenon, <1>0, <1>v, <2>1 DEF BS!VmLock, BS!Leaving, BS!Waits
    <3> QED BY Zenon, <1>4, <1>5, <1>q, <2>0, <3>1
  <2>2. CASE BS!VmUnlock(t)
    <3>1. t \in BS!VmHolders /\ t \notin BS!VmHolders' /\ vmlock' = vmlock - 1
      BY Zenon, <1>0, <1>v, <2>2 DEF BS!VmUnlock, BS!Leaving, BS!Waits
    <3> QED BY Zenon, <1>4, <1>5, <1>q, <2>0, <3>1
  <2>3. CASE ~BS!VmLock(t) /\ ~BS!VmUnlock(t)
    <3> SUFFICES vmlock' = vmlock /\ (t \in BS!VmHolders <=> t \in BS!VmHolders')
      BY Zenon, <1>q, <1>t, <2>0
    <3> USE DEF BS!vm, BS!Waits, BS!Leaving
    <3>1. CASE BS!Call(t) \/ BS!Destroy(t) \/ BS!Interrupt(t) \/ BS!Arrive(t) \/ BS!Reset(t) \/ BS!Unlock(t)
      BY ZenonT(90), <1>0, <1>v, <3>1
      DEF BS!Call, BS!Destroy, BS!Interrupt, BS!Arrive, BS!Reset, BS!Unlock
    <3>2. CASE BS!Cas(t) \/ BS!AwaitRound(t) \/ BS!AwaitLeaving(t) \/ BS!AwaitUnlocked(t) \/ BS!VmWait(t)
      BY ZenonT(90), <1>0, <1>v, <3>2
      DEF BS!Cas, BS!AwaitRound, BS!AwaitLeaving, BS!AwaitUnlocked, BS!VmWait, BS!CallWait
    <3>3. CASE BS!WakeRound(t) \/ BS!WakeOut(t) \/ BS!VmWake(t)
      BY ZenonT(90), <1>0, <1>v, <3>3 DEF BS!WakeRound, BS!WakeOut, BS!VmWake, BS!WakeAll
    <3>4. CASE BS!Kick(t) \/ BS!WakeLock(t)
      BY ZenonT(90), <1>0, <1>v, <3>4 DEF BS!Kick, BS!WakeLock, BS!WakeOne, BS!Sleepers
    <3>5. CASE BS!Fetch(t) \/ BS!Zero(t) \/ BS!Look(t) \/ BS!Peek(t) \/ BS!Release(t)
      BY ZenonT(90), <1>0, <1>v, <3>5 DEF BS!Fetch, BS!Zero, BS!Look, BS!Peek, BS!Release
    <3>6. CASE BS!TestLock(t) \/ BS!SetDead(t)
      BY ZenonT(90), <1>0, <1>v, <3>6 DEF BS!TestLock, BS!SetDead
    <3> QED BY Zenon, <1>r, <2>3, <3>1, <3>2, <3>3, <3>4, <3>5, <3>6 DEF BS!Step
  <2> QED BY Zenon, <2>1, <2>2, <2>3
<1> QED BY Zenon, <1>7, <1>r

\* The steps that are quiet for the round: they change neither the counts nor the threads
\* that the round is about.
LEMMA ShQuiet ==
    ASSUME BS!Open \/ BS!Closing,
           UNCHANGED <<limit, count, inround>>, lock'.n = lock.n,
           BS!Holder' = BS!Holder, BS!Inside' = BS!Inside,
           BS!Before' = BS!Before, BS!Zeroing' = BS!Zeroing,
           \A u \in Thread : pc'[u] = "reset" <=> pc[u] = "reset",
           BS!Open => \A u \in BS!Inside : \/ pc'[u] \in {"reset", "unlock", "kick", "round"}
                                           \/ pc'[u] \in BS!Waits /\ on'[u] = "round",
           \A u \in Thread : pc'[u] \in {"wakeout", "look", "peek", "release"} =>
                \/ pc[u] \in {"wakeout", "look", "peek", "release"}
                \/ BS!Before = {} /\ BS!Zeroing = {}
    PROVE  (BS!Open \/ BS!Closing)'
<1>1. CASE BS!Open
  BY Zenon, <1>1 DEF BS!Open
<1>2. CASE BS!Closing
  BY Zenon, <1>2 DEF BS!Closing
<1> QED BY Zenon, <1>1, <1>2

\* Where one thread is, before and after a step.
LEMMA ShWhere ==
    ASSUME NEW t \in Thread
    PROVE  /\ t \in BS!Holder <=> pc[t] \in {"arrive", "reset", "unlock"}
           /\ t \in BS!Holder' <=> pc'[t] \in {"arrive", "reset", "unlock"}
           /\ t \in BS!Inside <=>
                \/ pc[t] \in {"reset", "wakeall", "unlock", "kick", "round", "leaving",
                              "vmlock", "fetch", "zero", "wakeout", "look", "peek", "release"}
                \/ pc[t] \in BS!Waits /\ on[t] \in {"round", "leaving"}
           /\ t \in BS!Inside' <=>
                \/ pc'[t] \in {"reset", "wakeall", "unlock", "kick", "round", "leaving",
                               "vmlock", "fetch", "zero", "wakeout", "look", "peek", "release"}
                \/ pc'[t] \in BS!Waits /\ on'[t] \in {"round", "leaving"}
           /\ t \in BS!Before <=> \/ pc[t] \in {"wakeall", "kick", "round", "vmlock", "fetch"}
                                  \/ pc[t] \in BS!Waits /\ on[t] = "round"
           /\ t \in BS!Before' <=> \/ pc'[t] \in {"wakeall", "kick", "round", "vmlock", "fetch"}
                                   \/ pc'[t] \in BS!Waits /\ on'[t] = "round"
           /\ t \in BS!Zeroing <=> pc[t] = "zero"
           /\ t \in BS!Zeroing' <=> pc'[t] = "zero"
BY Zenon DEF BS!Holder, BS!Inside, BS!Before, BS!Zeroing, BS!Leaving

\* A thread that waits for the others to leave sees 0 only when all of them have come.
LEMMA ShLeft ==
    ASSUME SharedConstants, BS!IInv, NEW t \in Thread, pc[t] = "leaving", count = 0
    PROVE  BS!Before = {} /\ BS!Zeroing = {}
<1>1. /\ t \in BS!Inside /\ t \notin BS!Before /\ BS!Inside \in SUBSET Thread
      /\ BS!Before \subseteq BS!Inside \ {t} /\ BS!Inside \ {t} \in SUBSET Thread
  BY Zenon DEF BS!Inside, BS!Before, BS!Waits, BS!Leaving
<1>2. BS!Closing
  BY Zenon, <1>1 DEF BS!IInv, BS!Open, BS!Waits
<1>3. SUFFICES ASSUME BS!Before # {} \/ BS!Zeroing # {}
               PROVE  FALSE
  BY Zenon
<1>4. /\ Cardinality(BS!Inside) = limit /\ count = Cardinality(BS!Before) - limit
      /\ limit \in Nat
  BY Zenon, <1>2, <1>3, ShSize DEF BS!Closing, BS!IInv, BS!TypeOK, SharedConstants
<1>5. Cardinality(BS!Inside \ {t}) = Cardinality(BS!Inside) - 1
  <2>1. /\ \A u \in Thread : u # t => (u \in BS!Inside <=> u \in BS!Inside \ {t})
        /\ t \notin BS!Inside \ {t}
    BY Zenon
  <2>2. PICK X \in SUBSET Thread : X = BS!Inside
    BY Zenon, <1>1
  <2>3. PICK Y \in SUBSET Thread : Y = BS!Inside \ {t}
    BY Zenon, <1>1
  <2> QED BY SMTT(90), <1>1, <2>1, <2>2, <2>3, OneApart DEF SharedConstants
<1>6. Cardinality(BS!Before) <= Cardinality(BS!Inside \ {t})
  BY Zenon, <1>1 DEF SharedConstants, NumbersOf
<1>7. Cardinality(BS!Before) \in Nat /\ Cardinality(BS!Inside) \in Nat
  <2>1. BS!Before \in SUBSET Thread
    BY Zenon, <1>1
  <2> QED BY Zenon, <1>1, <2>1, NumberZero DEF SharedConstants
<1> QED BY SMTT(90), <1>4, <1>5, <1>6, <1>7

\* The steps that arrive, and the one that completes the round.
LEMMA ShArrives ==
    ASSUME SharedConstants, BS!IInv, NEW t \in Thread,
           \/ BS!Cas(t) /\ lock = BS!FreeLock
           \/ BS!Arrive(t) \/ BS!Unlock(t) \/ BS!Reset(t)
    PROVE  (BS!Open \/ BS!Closing)'
<1>0. /\ BS!TypeOK /\ limit \in Nat /\ limit > 1 /\ BS!FreeLock.n = 0
      /\ BS!Plain(limit).n = limit
  BY SMTT(90) DEF BS!IInv, BS!TypeOK, SharedConstants, BS!FreeLock, BS!Plain
<1>1. \A u \in Thread : u # t =>
        /\ on'[u] = on[u] /\ pc'[u] = pc[u]
        /\ u \in BS!Holder <=> u \in BS!Holder'
        /\ u \in BS!Inside <=> u \in BS!Inside'
        /\ u \in BS!Before <=> u \in BS!Before'
        /\ u \in BS!Zeroing <=> u \in BS!Zeroing'
  <2>1. \A u \in Thread : u # t => on'[u] = on[u] /\ pc'[u] = pc[u]
    BY Zenon, <1>0 DEF BS!Cas, BS!Arrive, BS!Unlock, BS!Reset, BS!Goto, BS!TypeOK
  <2> QED BY Zenon, <1>0, <2>1, ShElse DEF BS!Step
<1>2. /\ BS!Holder \in SUBSET Thread /\ BS!Holder' \in SUBSET Thread
      /\ BS!Inside \in SUBSET Thread /\ BS!Inside' \in SUBSET Thread
      /\ BS!Before \in SUBSET Thread /\ BS!Before' \in SUBSET Thread
      /\ BS!Zeroing \in SUBSET Thread /\ BS!Zeroing' \in SUBSET Thread
  BY Zenon DEF BS!Holder, BS!Inside, BS!Before, BS!Zeroing
<1>3. BS!Open
  <2>1. CASE BS!Cas(t) /\ lock = BS!FreeLock
    <3>1. lock.n = 0
      BY Zenon, <1>0, <2>1
    <3>2. Cardinality(BS!Inside) = 0 <=> BS!Inside = {}
      BY Zenon, <1>2, NumberZero DEF SharedConstants
    <3> QED BY Zenon, <3>1, <3>2, ShSize DEF BS!IInv, BS!Closing
  <2>2. CASE BS!Arrive(t) \/ BS!Unlock(t) \/ BS!Reset(t)
    <3>1. t \in BS!Holder
      BY Zenon, <2>2, ShWhere DEF BS!Arrive, BS!Unlock, BS!Reset, BS!Goto
    <3> QED BY Zenon, <3>1 DEF BS!IInv, BS!Closing
  <2> QED BY Zenon, <2>1, <2>2
<1>4. count = Cardinality(inround) /\ inround = BS!Inside
  BY Zenon, <1>3, ShSize DEF BS!Open
<1>5. CASE BS!Cas(t) /\ lock = BS!FreeLock
  <2>1. /\ pc[t] = "cas" /\ pc'[t] = "arrive" /\ lock'.n = limit
        /\ UNCHANGED <<limit, count, inround>>
    BY Zenon, <1>0, <1>5 DEF BS!Cas, BS!Goto, BS!TypeOK
  <2>2. BS!Holder = {}
    BY SMTT(90), <1>0, <1>3, <1>5 DEF BS!Open
  <2>3. BS!Holder' = {t}
    <3>1. \A u \in Thread : u \in BS!Holder' <=> u = t
      BY ZenonT(90), <1>1, <2>1, <2>2, ShWhere
    <3> QED BY Zenon, <1>2, <3>1
  <2>4. BS!Inside' = BS!Inside /\ t \notin BS!Inside
    BY ZenonT(90), <1>1, <1>2, <2>1, ShWhere DEF BS!Waits
  <2>5. \A u \in Thread : pc'[u] = "reset" <=> pc[u] = "reset"
    BY Zenon, <1>1, <2>1
  <2>6. \A u \in BS!Inside : pc'[u] = pc[u] /\ on'[u] = on[u]
    BY Zenon, <1>1, <1>2, <2>4
  <2>7. BS!Open'
    BY ZenonT(90), <1>3, <2>1, <2>3, <2>4, <2>5, <2>6 DEF BS!Open
  <2> QED BY Zenon, <2>7
<1>6. CASE BS!Arrive(t)
  <2>1. /\ pc[t] = "arrive" /\ pc'[t] = IF count + 1 = limit THEN "reset" ELSE "unlock"
        /\ count' = count + 1 /\ inround' = inround \cup {t} /\ lock' = lock /\ limit' = limit
    BY Zenon, <1>0, <1>6 DEF BS!Arrive, BS!Goto, BS!TypeOK
  <2>2. BS!Holder' = BS!Holder /\ t \in BS!Holder
    <3>1. t \in BS!Holder /\ \A u \in Thread : u \in BS!Holder' <=> u \in BS!Holder
      BY ZenonT(90), <1>1, <2>1, ShWhere
    <3> QED BY Zenon, <1>2, <3>1
  <2>3. t \notin BS!Inside /\ BS!Inside' = BS!Inside \cup {t}
    BY Zenon, <1>1, <1>2, <2>1, ShWhere DEF BS!Waits
  <2>4. Cardinality(inround') = Cardinality(inround) + 1 /\ Cardinality(inround) \in Nat
    <3>1. PICK X \in SUBSET Thread : X = inround
      BY Zenon, <1>2, <1>4
    <3>2. PICK Y \in SUBSET Thread : Y = inround'
      BY Zenon, <2>1, <3>1
    <3>3. t \notin X /\ t \in Y /\ \A u \in Thread : u # t => (u \in X <=> u \in Y)
      BY Zenon, <1>4, <2>1, <2>3, <3>1, <3>2
    <3> QED BY SMTT(90), <3>1, <3>2, <3>3, OneApart DEF SharedConstants
  <2>5. \A u \in Thread : pc[u] # "reset"
    BY ZenonT(90), <1>3, <2>1, <2>2, ShWhere DEF BS!Open
  <2>6. count < limit
    BY SMTT(90), <1>0, <1>3, <1>4, <2>4, <2>5 DEF BS!Open
  <2>7. count' = limit' <=> \E u \in Thread : pc'[u] = "reset"
    <3>1. \A u \in Thread : pc'[u] = "reset" => u = t
      BY Zenon, <1>1, <2>5
    <3> QED BY Zenon, <2>1, <3>1
  <2>8. \A u \in BS!Inside' : \/ pc'[u] \in {"reset", "unlock", "kick", "round"}
                              \/ pc'[u] \in BS!Waits /\ on'[u] = "round"
    BY ZenonT(90), <1>1, <1>2, <1>3, <2>1, <2>3 DEF BS!Open
  <2>9. count' <= limit' /\ count' = Cardinality(inround') /\ BS!Inside' = inround'
    BY SMTT(90), <1>0, <1>4, <2>1, <2>3, <2>4, <2>6
  <2>10. BS!Open'
    BY Zenon, <1>3, <2>1, <2>2, <2>7, <2>8, <2>9, ShSize DEF BS!Open
  <2> QED BY Zenon, <2>10
<1>7. CASE BS!Unlock(t)
  <2>1. /\ pc[t] = "unlock" /\ pc'[t] = "kick" /\ lock'.n = 0 /\ UNCHANGED <<limit, count, inround>>
    BY Zenon, <1>0, <1>7 DEF BS!Unlock, BS!Goto, BS!TypeOK
  <2>2. BS!Holder' = {}
    BY SMTT(90), <1>1, <1>2, <1>3, <2>1, ShWhere DEF BS!Open
  <2>3. BS!Inside' = BS!Inside
    BY ZenonT(90), <1>1, <1>2, <2>1, ShWhere DEF BS!Waits
  <2>4. \A u \in Thread : pc'[u] = "reset" <=> pc[u] = "reset"
    BY Zenon, <1>1, <2>1
  <2>5. \A u \in BS!Inside : \/ pc'[u] \in {"reset", "unlock", "kick", "round"}
                             \/ pc'[u] \in BS!Waits /\ on'[u] = "round"
    BY Zenon, <1>1, <1>2, <1>3, <2>1 DEF BS!Open
  <2>6. BS!Open'
    BY Zenon, <1>3, <2>1, <2>2, <2>3, <2>4, <2>5 DEF BS!Open
  <2> QED BY Zenon, <2>6
<1>8. CASE BS!Reset(t)
  <2>1. /\ pc[t] = "reset" /\ pc'[t] = "wakeall" /\ count' = 0 /\ inround' = {}
        /\ lock' = lock /\ limit' = limit
    BY Zenon, <1>0, <1>8 DEF BS!Reset, BS!Goto, BS!TypeOK
  <2>2. BS!Holder' = {} /\ t \in BS!Holder
    BY SMTT(90), <1>1, <1>2, <1>3, <2>1, ShWhere DEF BS!Open
  <2>3. BS!Inside' = BS!Inside /\ t \in BS!Inside
    BY ZenonT(90), <1>1, <1>2, <2>1, ShWhere DEF BS!Waits
  <2>4. lock.n = limit /\ Cardinality(BS!Inside) = limit
    BY Zenon, <1>3, <1>4, <2>1, <2>2 DEF BS!Open
  <2>5. ASSUME NEW u \in Thread
        PROVE  (u \in BS!Inside <=> u \in BS!Before') /\ u \notin BS!Zeroing'
               /\ pc'[u] \notin {"wakeout", "look", "peek", "release"}
    <3>1. CASE u = t
      BY Zenon, <2>1, <2>3, <3>1, ShWhere DEF BS!Waits
    <3>2. CASE u # t
      <4>1. u \notin BS!Holder /\ pc'[u] = pc[u] /\ on'[u] = on[u]
        BY Zenon, <1>1, <1>3, <2>2, <3>2 DEF BS!Open
      <4>2. CASE u \in BS!Inside
        <5>1. pc[u] \in {"kick", "round"} \/ (pc[u] \in BS!Waits /\ on[u] = "round")
          BY Zenon, <1>3, <4>1, <4>2, ShWhere DEF BS!Open
        <5> QED BY Zenon, <4>1, <4>2, <5>1, ShWhere DEF BS!Waits
      <4>3. CASE u \notin BS!Inside
        BY Zenon, <4>1, <4>3, ShWhere DEF BS!Waits
      <4> QED BY Zenon, <4>2, <4>3
    <3> QED BY Zenon, <3>1, <3>2
  <2>6. BS!Before' = BS!Inside /\ BS!Zeroing' = {} /\ BS!Inside # {}
    BY Zenon, <1>2, <2>3, <2>5
  <2>7. BS!Closing'
    <3>1. lock'.n = Cardinality(BS!Inside') /\ Cardinality(BS!Inside') = limit'
          /\ count' = Cardinality(BS!Before') - limit'
      BY SMTT(90), <1>0, <2>1, <2>3, <2>4, <2>6
    <3> QED BY Zenon, <2>1, <2>2, <2>3, <2>5, <2>6, <3>1, ShSize DEF BS!Closing
  <2> QED BY Zenon, <2>7
<1> QED BY Zenon, <1>5, <1>6, <1>7, <1>8

\* The steps that leave.
LEMMA ShLeaves ==
    ASSUME SharedConstants, BS!IInv, NEW t \in Thread,
           \/ BS!Fetch(t) \/ BS!Zero(t)
           \/ BS!Release(t) /\ lock = v[t]
    PROVE  (BS!Open \/ BS!Closing)'
<1>0. /\ BS!TypeOK /\ limit \in Nat /\ limit > 1 /\ lock.n \in Nat
  BY SMTT(90) DEF BS!IInv, BS!TypeOK, BS!LockWord, SharedConstants
<1>1. \A u \in Thread : u # t =>
        /\ on'[u] = on[u] /\ pc'[u] = pc[u]
        /\ u \in BS!Holder <=> u \in BS!Holder'
        /\ u \in BS!Inside <=> u \in BS!Inside'
        /\ u \in BS!Before <=> u \in BS!Before'
        /\ u \in BS!Zeroing <=> u \in BS!Zeroing'
  <2>1. \A u \in Thread : u # t => on'[u] = on[u] /\ pc'[u] = pc[u]
    BY Zenon, <1>0 DEF BS!Fetch, BS!Zero, BS!Release, BS!Goto, BS!TypeOK
  <2> QED BY Zenon, <1>0, <2>1, ShElse DEF BS!Step
<1>2. /\ BS!Holder \in SUBSET Thread /\ BS!Holder' \in SUBSET Thread
      /\ BS!Inside \in SUBSET Thread /\ BS!Inside' \in SUBSET Thread
      /\ BS!Before \in SUBSET Thread /\ BS!Before' \in SUBSET Thread
      /\ BS!Zeroing \in SUBSET Thread /\ BS!Zeroing' \in SUBSET Thread
  BY Zenon DEF BS!Holder, BS!Inside, BS!Before, BS!Zeroing
<1>3. /\ t \in BS!Inside /\ BS!Closing
  <2>1. pc[t] \in {"fetch", "zero", "release"}
    BY Zenon DEF BS!Fetch, BS!Zero, BS!Release, BS!Goto
  <2> QED BY Zenon, <2>1, ShWhere DEF BS!IInv, BS!Open, BS!Waits
<1>4. /\ lock.n = Cardinality(BS!Inside) /\ inround = {} /\ BS!Holder = {}
      /\ BS!Before # {} \/ BS!Zeroing # {} =>
           Cardinality(BS!Inside) = limit /\ count = Cardinality(BS!Before) - limit
  BY Zenon, <1>3, ShSize DEF BS!Closing
<1>5. BS!Holder' = {}
  <2>1. t \notin BS!Holder'
    BY SMTT(90), <1>0, ShWhere DEF BS!Fetch, BS!Zero, BS!Release, BS!Goto, BS!TypeOK
  <2> QED BY Zenon, <1>1, <1>2, <1>4, <2>1
<1>6. CASE BS!Fetch(t)
  <2>1. /\ pc[t] = "fetch" /\ pc'[t] = IF count = 1 - limit THEN "zero" ELSE "leaving"
        /\ count' = count - 1 /\ UNCHANGED <<limit, lock, inround>>
    BY Zenon, <1>0, <1>6 DEF BS!Fetch, BS!Goto, BS!TypeOK
  <2>2. t \in BS!Before /\ t \notin BS!Before' /\ BS!Inside' = BS!Inside
    BY ZenonT(90), <1>1, <1>2, <1>3, <2>1, ShWhere DEF BS!Waits
  <2>3. /\ Cardinality(BS!Before') = Cardinality(BS!Before) - 1
        /\ Cardinality(BS!Before') \in Nat /\ Cardinality(BS!Before) \in Nat
        /\ Cardinality(BS!Before') = 0 <=> BS!Before' = {}
    <3>1. PICK X \in SUBSET Thread : X = BS!Before
      BY Zenon, <1>2
    <3>2. PICK Y \in SUBSET Thread : Y = BS!Before'
      BY Zenon, <1>2
    <3> QED BY SMTT(90), <1>1, <2>2, <3>1, <3>2, OneApart, NumberZero DEF SharedConstants
  <2>4. /\ BS!Zeroing = {} /\ Cardinality(BS!Inside) = limit
        /\ count = Cardinality(BS!Before) - limit
        /\ \A u \in Thread : pc[u] \notin {"wakeout", "look", "peek", "release"}
    BY Zenon, <1>3, <1>4, <2>2 DEF BS!Closing
  <2>5. count = 1 - limit <=> BS!Before' = {}
    BY SMTT(90), <1>0, <2>3, <2>4
  <2>6. BS!Zeroing' = IF BS!Before' = {} THEN {t} ELSE {}
    BY SMTT(90), <1>1, <1>2, <2>1, <2>4, <2>5, ShWhere
  <2>7. count' = Cardinality(BS!Before') - limit'
    BY SMTT(90), <1>0, <2>1, <2>3, <2>4
  <2>8. \A u \in Thread : pc'[u] \notin {"wakeout", "look", "peek", "release"}
    BY Zenon, <1>1, <2>1, <2>4
  <2>9. BS!Closing'
    <3>1. \/ BS!Before' # {} /\ BS!Zeroing' = {}
          \/ BS!Before' = {} /\ BS!Zeroing' = {t}
      BY Zenon, <2>6
    <3>2. /\ inround' = {} /\ BS!Inside' # {} /\ lock'.n = BS!Cardinality(BS!Inside')
          /\ BS!Cardinality(BS!Inside') = limit'
      BY Zenon, <1>3, <1>4, <2>1, <2>2, <2>4, ShSize
    <3>3. count' = BS!Cardinality(BS!Before') - limit'
      BY Zenon, <2>7, ShSize
    <3> QED BY Zenon, <1>5, <2>8, <3>1, <3>2, <3>3 DEF BS!Closing
  <2> QED BY Zenon, <2>9
<1>7. CASE BS!Zero(t)
  <2>1. /\ pc[t] = "zero" /\ pc'[t] = "wakeout" /\ count' = 0 /\ UNCHANGED <<limit, lock, inround>>
    BY Zenon, <1>0, <1>7 DEF BS!Zero, BS!Goto, BS!TypeOK
  <2>2. t \in BS!Zeroing /\ t \notin BS!Zeroing' /\ BS!Inside' = BS!Inside
        /\ t \notin BS!Before /\ t \notin BS!Before'
    BY ZenonT(90), <1>1, <1>2, <1>3, <2>1, ShWhere DEF BS!Waits
  <2>3. BS!Before = {} /\ \A u \in BS!Zeroing : u = t
    BY Zenon, <1>3, <2>2 DEF BS!Closing
  <2>4. BS!Before' = {} /\ BS!Zeroing' = {}
    BY Zenon, <1>1, <1>2, <2>2, <2>3
  <2>5. BS!Closing'
    BY Zenon, <1>3, <1>4, <1>5, <2>1, <2>2, <2>4, ShSize DEF BS!Closing
  <2> QED BY Zenon, <2>5
<1>8. CASE BS!Release(t) /\ lock = v[t]
  <2>1. /\ pc[t] = "release" /\ pc'[t] \in {"wakelock", "vmunlock"}
        /\ UNCHANGED <<limit, count, inround>>
    BY Zenon, <1>0, <1>8 DEF BS!Release, BS!Goto, BS!TypeOK
  <2>2. lock'.n = lock.n - 1
    BY SMTT(90), <1>0, <1>8 DEF BS!Release, BS!LastOut, BS!FreeLock, BS!Plain
  <2>3. BS!Before = {} /\ BS!Zeroing = {} /\ count = 0
    BY Zenon, <1>3, <2>1 DEF BS!Closing
  <2>4. t \notin BS!Inside' /\ t \notin BS!Before' /\ t \notin BS!Zeroing'
    BY Zenon, <2>1, ShWhere DEF BS!Waits
  <2>5. BS!Before' = {} /\ BS!Zeroing' = {}
    BY Zenon, <1>1, <1>2, <2>3, <2>4
  <2>6. /\ Cardinality(BS!Inside') = Cardinality(BS!Inside) - 1
        /\ Cardinality(BS!Inside') = 0 <=> BS!Inside' = {}
    <3>1. PICK X \in SUBSET Thread : X = BS!Inside
      BY Zenon, <1>2
    <3>2. PICK Y \in SUBSET Thread : Y = BS!Inside'
      BY Zenon, <1>2
    <3> QED BY SMTT(90), <1>1, <1>3, <2>4, <3>1, <3>2, OneApart, NumberZero DEF SharedConstants
  <2>7. lock'.n = Cardinality(BS!Inside')
    BY Zenon, <1>4, <2>2, <2>6
  <2>8. CASE BS!Inside' # {}
    <3>1. BS!Closing'
      BY Zenon, <1>4, <1>5, <2>1, <2>3, <2>5, <2>7, <2>8, ShSize DEF BS!Closing
    <3> QED BY Zenon, <3>1
  <2>9. CASE BS!Inside' = {}
    <3>1. lock'.n = 0 /\ inround' = {} /\ Cardinality(inround') = 0 /\ count' = 0 /\ limit' > 1
          /\ limit' \in Nat
      BY Zenon, <1>0, <1>4, <2>1, <2>3, <2>6, <2>7, <2>9, NoNumber
    <3>2. \A u \in Thread : pc'[u] # "reset"
      BY Zenon, <2>9, ShWhere
    <3>3. BS!Open'
      BY SMTT(90), <1>5, <2>9, <3>1, <3>2, ShSize DEF BS!Open
    <3> QED BY Zenon, <3>3
  <2> QED BY Zenon, <2>8, <2>9
<1> QED BY Zenon, <1>6, <1>7, <1>8

LEMMA ShRound ==
    ASSUME SharedConstants, BS!IInv, BS!Next
    PROVE  (BS!Open \/ BS!Closing)'
<1> SUFFICES ASSUME NEW t \in Thread, BS!Call(t) \/ BS!Destroy(t) \/ BS!Step(t) \/ BS!Interrupt(t)
             PROVE  (BS!Open \/ BS!Closing)'
  BY Zenon DEF BS!Next
<1>0. BS!TypeOK /\ (BS!Open \/ BS!Closing)
  BY Zenon DEF BS!IInv
<1>1. CASE \/ BS!Cas(t) /\ lock = BS!FreeLock
           \/ BS!Arrive(t) \/ BS!Unlock(t) \/ BS!Reset(t)
  BY Zenon, <1>1, ShArrives
<1>2. CASE \/ BS!Fetch(t) \/ BS!Zero(t)
           \/ BS!Release(t) /\ lock = v[t]
  BY Zenon, <1>2, ShLeaves
<1>o. BS!Open => /\ pc[t] = "round" => count > 0
                 /\ pc[t] \notin {"wakeall", "vmlock", "fetch", "zero", "leaving", "wakeout", "look",
                                  "peek", "release"}
                 /\ ~(pc[t] \in BS!Waits /\ on[t] = "leaving")
  <2> SUFFICES ASSUME BS!Open
               PROVE  /\ pc[t] = "round" => count > 0
                      /\ pc[t] \notin {"wakeall", "vmlock", "fetch", "zero", "leaving", "wakeout",
                                       "look", "peek", "release"}
                      /\ ~(pc[t] \in BS!Waits /\ on[t] = "leaving")
    BY Zenon
  <2>1. t \in BS!Inside => \/ pc[t] \in {"reset", "unlock", "kick", "round"}
                           \/ pc[t] \in BS!Waits /\ on[t] = "round"
    BY Zenon DEF BS!Open
  <2>2. BS!Inside \in SUBSET Thread /\ count = Cardinality(BS!Inside)
    BY Zenon, ShSize DEF BS!Open, BS!Inside
  <2>3. t \in BS!Inside => count > 0
    BY SMTT(90), <2>2, NumberZero DEF SharedConstants
  <2> QED BY Zenon, <2>1, <2>3, ShWhere DEF BS!Waits
<1>l. pc[t] = "leaving" /\ count = 0 => BS!Before = {} /\ BS!Zeroing = {}
  BY Zenon, ShLeft
\* It is enough to look at the thread that takes the step.
<1>3. SUFFICES ASSUME ~(BS!Cas(t) /\ lock = BS!FreeLock), ~BS!Arrive(t), ~BS!Unlock(t), ~BS!Reset(t),
                      ~BS!Fetch(t), ~BS!Zero(t), ~(BS!Release(t) /\ lock = v[t])
               PROVE  /\ UNCHANGED <<limit, count, inround>> /\ lock'.n = lock.n
                      /\ t \in BS!Holder <=> t \in BS!Holder'
                      /\ t \in BS!Inside <=> t \in BS!Inside'
                      /\ t \in BS!Before <=> t \in BS!Before'
                      /\ t \in BS!Zeroing <=> t \in BS!Zeroing'
                      /\ pc'[t] = "reset" <=> pc[t] = "reset"
                      /\ BS!Open /\ t \in BS!Inside =>
                            \/ pc'[t] \in {"reset", "unlock", "kick", "round"}
                            \/ pc'[t] \in BS!Waits /\ on'[t] = "round"
                      /\ pc'[t] \in {"wakeout", "look", "peek", "release"} =>
                            \/ pc[t] \in {"wakeout", "look", "peek", "release"}
                            \/ BS!Before = {} /\ BS!Zeroing = {}
  <2> SUFFICES ASSUME ~(BS!Cas(t) /\ lock = BS!FreeLock), ~BS!Arrive(t), ~BS!Unlock(t), ~BS!Reset(t),
                      ~BS!Fetch(t), ~BS!Zero(t), ~(BS!Release(t) /\ lock = v[t])
               PROVE  (BS!Open \/ BS!Closing)'
    BY Zenon, <1>1, <1>2
  <2>1. \A u \in Thread : u # t =>
          /\ on'[u] = on[u]
          /\ pc[u] \in BS!Waits <=> pc'[u] \in BS!Waits
          /\ pc[u] \notin BS!Waits => pc'[u] = pc[u]
          /\ u \in BS!Holder <=> u \in BS!Holder'
          /\ u \in BS!Inside <=> u \in BS!Inside'
          /\ u \in BS!Before <=> u \in BS!Before'
          /\ u \in BS!Zeroing <=> u \in BS!Zeroing'
    BY Zenon, <1>0, ShElse
  <2>2. /\ BS!Holder \in SUBSET Thread /\ BS!Holder' \in SUBSET Thread
        /\ BS!Inside \in SUBSET Thread /\ BS!Inside' \in SUBSET Thread
        /\ BS!Before \in SUBSET Thread /\ BS!Before' \in SUBSET Thread
        /\ BS!Zeroing \in SUBSET Thread /\ BS!Zeroing' \in SUBSET Thread
    BY Zenon DEF BS!Holder, BS!Inside, BS!Before, BS!Zeroing
  <2>3. /\ BS!Holder' = BS!Holder /\ BS!Inside' = BS!Inside
        /\ BS!Before' = BS!Before /\ BS!Zeroing' = BS!Zeroing
    <3>1. \A u \in Thread : /\ u \in BS!Holder <=> u \in BS!Holder'
                            /\ u \in BS!Inside <=> u \in BS!Inside'
                            /\ u \in BS!Before <=> u \in BS!Before'
                            /\ u \in BS!Zeroing <=> u \in BS!Zeroing'
      BY Zenon, <1>3, <2>1
    <3> QED BY Zenon, <2>2, <3>1
  <2>4. \A u \in Thread : pc'[u] = "reset" <=> pc[u] = "reset"
    BY Zenon, <1>3, <2>1 DEF BS!Waits
  <2>5. \A u \in Thread : pc'[u] \in {"wakeout", "look", "peek", "release"} =>
           \/ pc[u] \in {"wakeout", "look", "peek", "release"}
           \/ BS!Before = {} /\ BS!Zeroing = {}
    BY Zenon, <1>3, <2>1 DEF BS!Waits
  <2>6. BS!Open => \A u \in BS!Inside : \/ pc'[u] \in {"reset", "unlock", "kick", "round"}
                                        \/ pc'[u] \in BS!Waits /\ on'[u] = "round"
    BY SMTT(90), <1>3, <2>1, <2>2 DEF BS!Open, BS!Waits
  <2> QED BY Zenon, <1>0, <1>3, <2>3, <2>4, <2>5, <2>6, ShQuiet
<1> USE DEF BS!TypeOK, BS!Goto, BS!Waits
<1>4. CASE BS!Wait(t)
  BY SMTT(90), <1>0, <1>4, <1>o, ShWhere DEF BS!Wait, BS!WaitReturns, BS!Back, BS!Site
<1> USE DEF BS!barrier
<1>5. CASE BS!Call(t) \/ BS!Destroy(t) \/ BS!Interrupt(t)
  BY ZenonT(90), <1>0, <1>5, <1>o, ShWhere DEF BS!Call, BS!Destroy, BS!Interrupt
<1>6. CASE BS!Cas(t) \/ BS!AwaitUnlocked(t) \/ BS!VmWait(t)
  BY SMTT(90), <1>0, <1>3, <1>6, <1>o, ShWhere DEF BS!Cas, BS!AwaitUnlocked, BS!VmWait, BS!CallWait
<1>7. CASE BS!AwaitRound(t) \/ BS!AwaitLeaving(t)
  BY SMTT(90), <1>0, <1>7, <1>l, <1>o, ShWhere DEF BS!AwaitRound, BS!AwaitLeaving, BS!CallWait
<1>8. CASE BS!WakeRound(t) \/ BS!WakeOut(t) \/ BS!VmWake(t)
  BY SMTT(90), <1>0, <1>8, <1>o, ShWhere DEF BS!WakeRound, BS!WakeOut, BS!VmWake, BS!WakeAll
<1>9. CASE BS!Kick(t) \/ BS!WakeLock(t)
  <2>1. CASE BS!Kick(t)
    BY SMTT(90), <1>0, <1>o, <2>1, ShWhere DEF BS!Kick, BS!WakeOne, BS!Sleepers
  <2>2. CASE BS!WakeLock(t)
    BY SMTT(90), <1>0, <1>o, <2>2, ShWhere DEF BS!WakeLock, BS!WakeOne, BS!Sleepers
  <2> QED BY Zenon, <1>9, <2>1, <2>2
<1>10. CASE BS!VmLock(t) \/ BS!VmUnlock(t) \/ BS!Look(t) \/ BS!Peek(t) \/ BS!Release(t)
  <2>1. CASE BS!VmLock(t) \/ BS!VmUnlock(t)
    BY SMTT(90), <1>0, <1>o, <2>1, ShWhere DEF BS!VmLock, BS!VmUnlock
  <2>2. CASE BS!Look(t) \/ BS!Peek(t)
    BY SMTT(90), <1>0, <1>o, <2>2, ShWhere DEF BS!Look, BS!Peek
  <2>3. CASE BS!Release(t)
    BY SMTT(90), <1>0, <1>3, <1>o, <2>3, ShWhere DEF BS!Release
  <2> QED BY Zenon, <1>10, <2>1, <2>2, <2>3
<1>11. CASE BS!TestLock(t) \/ BS!SetDead(t)
  BY SMTT(90), <1>0, <1>11, <1>o, ShWhere DEF BS!TestLock, BS!SetDead
<1> QED BY Zenon, <1>3, <1>4, <1>5, <1>6, <1>7, <1>8, <1>9, <1>10, <1>11 DEF BS!Step

\* What pthread_barrier_destroy relies on.
LEMMA ShEnding ==
    ASSUME SharedConstants, BS!IInv, BS!Next
    PROVE  BS!Ending'
<1> SUFFICES ASSUME NEW t \in Thread, BS!Call(t) \/ BS!Destroy(t) \/ BS!Step(t) \/ BS!Interrupt(t)
             PROVE  BS!Ending'
  BY Zenon DEF BS!Next
<1>0. BS!TypeOK /\ BS!Ending /\ (BS!Open \/ BS!Closing)
  BY Zenon DEF BS!IInv
<1> DEFINE Ends(u) == \/ pc[u] \in {"destroy", "setdead", "deadloop", "vmloop"}
                      \/ pc[u] \in BS!Waits /\ on[u] \in {"destroy", "vm"}
           Comes(u) == pc[u] \in {"cas", "arrive"} \/ (pc[u] \in BS!Waits /\ on[u] = "lock")
           Last(u) == pc[u] = "vmloop" \/ (pc[u] \in BS!Waits /\ on[u] = "vm")
<1>d. /\ BS!Destroying <=> \E u \in Thread : Ends(u)
      /\ BS!Destroying' <=> \E u \in Thread : Ends(u)'
      /\ BS!Pending = inround \cup {u \in Thread : Comes(u)}
      /\ BS!Pending' = inround' \cup {u \in Thread : Comes(u)'}
  BY Zenon DEF BS!Destroying, BS!Pending
<1>1. \A u \in Thread : u # t =>
        /\ Ends(u) <=> Ends(u)'
        /\ Comes(u) <=> Comes(u)'
        /\ Last(u) <=> Last(u)'
        /\ u \in BS!VmHolders <=> u \in BS!VmHolders'
        /\ u \in BS!Inside <=> u \in BS!Inside'
  BY ZenonT(90), <1>0, ShElse DEF BS!Waits
<1>2. /\ BS!Inside \in SUBSET Thread /\ BS!Inside' \in SUBSET Thread
      /\ BS!VmHolders \in SUBSET Thread /\ BS!VmHolders' \in SUBSET Thread
  BY Zenon DEF BS!Inside, BS!VmHolders
<1>v. /\ t \in BS!VmHolders <=>
           \/ pc[t] \in {"fetch", "zero", "wakeout", "look", "peek", "release", "wakelock",
                         "leaving", "vmunlock"}
           \/ pc[t] \in BS!Waits /\ on[t] = "leaving"
      /\ t \in BS!VmHolders' <=>
           \/ pc'[t] \in {"fetch", "zero", "wakeout", "look", "peek", "release", "wakelock",
                          "leaving", "vmunlock"}
           \/ pc'[t] \in BS!Waits /\ on'[t] = "leaving"
  BY Zenon DEF BS!VmHolders, BS!Leaving
\* Once nobody arrives, a free lock means that nobody is in a round.
<1>f. BS!Pending = {} /\ lock.n = 0 => BS!Inside = {}
  <2> SUFFICES ASSUME BS!Pending = {}, lock.n = 0
               PROVE  BS!Inside = {}
    BY Zenon
  <2>1. CASE BS!Open
    BY Zenon, <2>1 DEF BS!Open, BS!Pending
  <2>2. CASE BS!Closing
    BY Zenon, <1>2, <2>2, NumberZero, ShSize DEF BS!Closing, SharedConstants
  <2> QED BY Zenon, <1>0, <2>1, <2>2
<1>h. vmlock = 0 => BS!VmHolders = {}
  BY Zenon, <1>2, NumberZero, ShSize DEF BS!IInv, BS!CountsExact, SharedConstants
<1>w. lock = BS!FreeLock => lock.n = 0
  BY SMTT(90) DEF BS!FreeLock, BS!Plain
\* What the step does to the thread that takes it.
<1>3. /\ Ends(t)' /\ ~Ends(t) => BS!Destroy(t)
      /\ Comes(t)' /\ ~Comes(t) => BS!Call(t)
      /\ inround' \subseteq inround \cup {t}
      /\ t \in inround' /\ t \notin inround => Comes(t)
      /\ Last(t) => Ends(t)
      /\ Last(t)' /\ ~Last(t) => Ends(t) /\ lock.n = 0
      /\ gone' # gone => Last(t) /\ vmlock = 0
      /\ t \in BS!Inside' /\ t \notin BS!Inside => Comes(t)
      /\ t \in BS!VmHolders' /\ t \notin BS!VmHolders => t \in BS!Inside
  <2> USE DEF BS!TypeOK, BS!Goto, BS!Waits
  <2>1. CASE BS!Wait(t)
    BY SMTT(90), <1>0, <1>v, <2>1, ShWhere DEF BS!Wait, BS!WaitReturns, BS!Back, BS!Site
  <2>2. CASE BS!Call(t) \/ BS!Destroy(t) \/ BS!Interrupt(t)
    BY ZenonT(90), <1>0, <1>v, <2>2, ShWhere DEF BS!Call, BS!Destroy, BS!Interrupt
  <2>3. CASE BS!Cas(t) \/ BS!AwaitRound(t) \/ BS!AwaitLeaving(t)
    BY ZenonT(90), <1>0, <1>v, <2>3, ShWhere DEF BS!Cas, BS!AwaitRound, BS!AwaitLeaving, BS!CallWait
  <2>4. CASE BS!AwaitUnlocked(t) \/ BS!VmWait(t)
    BY ZenonT(90), <1>0, <1>v, <2>4, ShWhere DEF BS!AwaitUnlocked, BS!VmWait, BS!CallWait
  <2>5. CASE BS!WakeRound(t) \/ BS!WakeOut(t) \/ BS!VmWake(t)
    BY SMTT(90), <1>0, <1>v, <2>5, ShWhere DEF BS!WakeRound, BS!WakeOut, BS!VmWake, BS!WakeAll
  <2>6. CASE BS!Kick(t) \/ BS!WakeLock(t)
    BY SMTT(90), <1>0, <1>v, <2>6, ShWhere DEF BS!Kick, BS!WakeLock, BS!WakeOne, BS!Sleepers
  <2>7. CASE BS!Arrive(t) \/ BS!Reset(t) \/ BS!Unlock(t) \/ BS!Fetch(t) \/ BS!Zero(t)
    BY ZenonT(90), <1>0, <1>v, <2>7, ShWhere DEF BS!Arrive, BS!Reset, BS!Unlock, BS!Fetch, BS!Zero
  <2>8. CASE BS!VmLock(t) \/ BS!VmUnlock(t) \/ BS!Look(t) \/ BS!Peek(t) \/ BS!Release(t)
    BY SMTT(90), <1>0, <1>v, <2>8, ShWhere DEF BS!VmLock, BS!VmUnlock, BS!Look, BS!Peek, BS!Release
  <2>9. CASE BS!TestLock(t) \/ BS!SetDead(t)
    BY ZenonT(90), <1>0, <1>v, <1>w, <2>9, ShWhere DEF BS!TestLock, BS!SetDead
  <2> QED BY Zenon, <2>1, <2>2, <2>3, <2>4, <2>5, <2>6, <2>7, <2>8, <2>9 DEF BS!Step
<1>c. /\ BS!Call(t) => ~BS!Destroying /\ ~gone /\ gone' = gone
      /\ BS!Call(t) => ~Ends(t)'
      /\ BS!Destroy(t) => BS!Pending = {}
      /\ gone \in BOOLEAN /\ gone' \in BOOLEAN
  BY Zenon, <1>0, ShTypes DEF BS!Call, BS!Destroy, BS!TypeOK, BS!Goto, BS!Waits, BS!Next
<1>4. BS!Destroying' \/ gone' => BS!Pending = {} /\ BS!Pending' = {}
  <2> SUFFICES ASSUME BS!Destroying' \/ gone'
               PROVE  BS!Pending = {} /\ BS!Pending' = {}
    BY Zenon
  <2>1. BS!Destroying \/ gone \/ BS!Destroy(t)
    BY Zenon, <1>1, <1>3, <1>c, <1>d
  <2>2. BS!Pending = {}
    BY Zenon, <1>0, <1>c, <2>1 DEF BS!Ending
  <2>3. ~BS!Call(t)
    <3> SUFFICES ASSUME BS!Call(t)
                 PROVE  FALSE
      BY Zenon
    <3>0. BS!Destroying'
      <4>1. ~gone'
        BY Zenon, <1>c
      <4> QED BY Zenon, <4>1
    <3>1. PICK u \in Thread : Ends(u)'
      BY Zenon, <1>d, <3>0
    <3>2. u # t
      BY Zenon, <1>c, <3>1
    <3>3. Ends(u)
      BY Zenon, <1>1, <3>1, <3>2
    <3> QED BY Zenon, <1>c, <1>d, <3>3
  <2> QED BY ZenonT(90), <1>1, <1>3, <1>d, <2>2, <2>3
<1>5. BS!Destroying' \/ gone' => BS!Inside' \subseteq BS!Inside
  BY ZenonT(90), <1>1, <1>2, <1>3, <1>4, <1>d
<1>6. ASSUME NEW u \in Thread, Last(u)'
      PROVE  BS!Inside' = {}
  <2>1. Ends(u)' /\ BS!Destroying'
    BY Zenon, <1>6, <1>d
  <2>2. BS!Inside = {}
    BY Zenon, <1>0, <1>1, <1>3, <1>4, <1>6, <1>f, <2>1 DEF BS!Ending
  <2> QED BY Zenon, <1>5, <2>1, <2>2
<1>7. gone' => BS!Inside' = {} /\ BS!VmHolders' = {}
  <2> SUFFICES ASSUME gone'
               PROVE  BS!Inside' = {} /\ BS!VmHolders' = {}
    BY Zenon
  <2>1. BS!Inside = {} /\ BS!VmHolders = {}
    BY Zenon, <1>0, <1>3, <1>c, <1>h DEF BS!Ending
  <2> QED BY Zenon, <1>1, <1>2, <1>3, <1>5, <2>1
<1> QED BY Zenon, <1>4, <1>6, <1>7 DEF BS!Ending

\* A step keeps the invariant; from the invariant, the rounds are separate and nobody
\* touches a barrier after its destruction.
LEMMA ShStep ==
    ASSUME SharedConstants, BS!IInv, BS!Next
    PROVE  BS!IInv'
BY Zenon, ShTypes, ShCounts, ShRound, ShEnding DEF BS!IInv

LEMMA ShSafe ==
    ASSUME BS!IInv
    PROVE  BS!TypeOK /\ BS!RoundsSeparate /\ BS!NoAccessAfterDestroy
<1>1. BS!RoundsSeparate
  <2>1. CASE BS!Open
    BY ZenonT(90), <2>1 DEF BS!Open, BS!RoundsSeparate, BS!Inside, BS!Past, BS!Leaving, BS!Waits
  <2>2. CASE BS!Closing
    BY Zenon, <2>2 DEF BS!Closing, BS!RoundsSeparate
  <2> QED BY Zenon, <2>1, <2>2 DEF BS!IInv
<1>2. ASSUME gone, NEW t \in BS!Touching
      PROVE  FALSE
  BY Zenon, <1>2
  DEF BS!IInv, BS!Ending, BS!Touching, BS!Pending, BS!Inside, BS!VmHolders, BS!Arriving, BS!Leaving,
      BS!Waits
<1> QED BY Zenon, <1>1, <1>2 DEF BS!IInv, BS!NoAccessAfterDestroy

\* The invariant is about the variables of the component alone.
LEMMA ShSame ==
    ASSUME BS!IInv, UNCHANGED BS!vars
    PROVE  BS!IInv'
<1> USE DEF BS!IInv, BS!vars, BS!barrier, BS!vm
<1>1. BS!TypeOK'
  BY Zenon DEF BS!TypeOK
<1>2. BS!CountsExact'
  BY Zenon DEF BS!CountsExact, BS!Counted, BS!VmHolders
<1>3. (BS!Open \/ BS!Closing)'
  <2>1. /\ BS!Holder' = BS!Holder /\ BS!Inside' = BS!Inside
        /\ BS!Before' = BS!Before /\ BS!Zeroing' = BS!Zeroing
    BY Zenon DEF BS!Holder, BS!Inside, BS!Before, BS!Zeroing
  <2>2. BS!Open => \A t \in BS!Inside : \/ pc[t] \in {"reset", "unlock", "kick", "round"}
                                        \/ pc[t] \in BS!Waits /\ on[t] = "round"
    BY Zenon DEF BS!Open
  <2> QED BY Zenon, <2>1, <2>2, ShQuiet
<1>4. BS!Ending'
  BY Zenon DEF BS!Ending, BS!Destroying, BS!Pending, BS!Inside, BS!VmHolders
<1> QED BY Zenon, <1>1, <1>2, <1>3, <1>4
=============================================================================
