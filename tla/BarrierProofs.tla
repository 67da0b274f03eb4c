---------------------------- MODULE BarrierProofs ----------------------------
(***************************************************************************)
(* Proofs about semaphores, pthread_once and barriers within a process,    *)
(* for any finite sets of threads.  The components have some of their      *)
(* variables in common; a behaviour is one of a single component.          *)
(***************************************************************************)
EXTENDS Integers, FiniteSets, TLAPS

CONSTANTS
    Thread, NoThread, MaxUndo, Limits,
    Caller, ValueMax, Initial   \* the threads that use a semaphore, and its values

VARIABLES
    pc, control, done, undone,
    limit, lock, waiters, binst, inst, my, members,
    op, old, saw

\* The sizes of the sets of threads in T.
SizesOf(T) ==
    /\ \A X \in SUBSET T : Cardinality(X) \in Nat /\ (Cardinality(X) = 0 <=> X = {})
    /\ \A X, Y \in SUBSET T : X \subseteq Y => Cardinality(X) <= Cardinality(Y)
    /\ \A X, Y \in SUBSET T, t \in T : (\A u \in T : u # t => (u \in X <=> u \in Y)) =>
         /\ (t \in X <=> t \in Y) => Cardinality(Y) = Cardinality(X)
         /\ t \notin X /\ t \in Y => Cardinality(Y) = Cardinality(X) + 1
         /\ t \in X /\ t \notin Y => Cardinality(Y) = Cardinality(X) - 1

\* What the proofs assume of the constants.
BarrierConstants ==
    /\ SizesOf(Thread) /\ SizesOf(Caller) /\ NoThread \notin Thread
    /\ Limits \subseteq Nat \ {0} /\ ValueMax \in Nat \ {0} /\ Initial \in 0..ValueMax

\* Sets of threads that differ in one element at most: how their sizes differ.
LEMMA OneDiffers ==
    ASSUME NEW T, SizesOf(T), NEW X \in SUBSET T, NEW Y \in SUBSET T,
           NEW t \in T, \A u \in T : u # t => (u \in X <=> u \in Y)
    PROVE  /\ Cardinality(X) \in Nat /\ Cardinality(Y) \in Nat
           /\ (t \in X <=> t \in Y) => Cardinality(Y) = Cardinality(X)
           /\ t \notin X /\ t \in Y => Cardinality(Y) = Cardinality(X) + 1
           /\ t \in X /\ t \notin Y => Cardinality(Y) = Cardinality(X) - 1
BY ZenonT(90) DEF SizesOf

LEMMA SizeZero ==
    ASSUME NEW T, SizesOf(T), NEW X \in SUBSET T
    PROVE  Cardinality(X) \in Nat /\ (Cardinality(X) = 0 <=> X = {})
BY Zenon DEF SizesOf

LEMMA NoSize ==
    ASSUME BarrierConstants
    PROVE  Cardinality({}) = 0
BY Zenon, SizeZero DEF BarrierConstants

-----------------------------------------------------------------------------
(***************************************************************************)
(* Semaphores.                                                             *)
(***************************************************************************)
S == INSTANCE Semaphore WITH Thread <- Caller, sem <- lock

\* Sets of callers that differ in one thread at most.
LEMMA OneCaller ==
    ASSUME SizesOf(Caller), NEW X \in SUBSET Caller, NEW Y \in SUBSET Caller,
           NEW t \in Caller, \A u \in Caller : u # t => (u \in X <=> u \in Y)
    PROVE  /\ Cardinality(X) \in Nat /\ Cardinality(Y) \in Nat
           /\ (t \in X <=> t \in Y) => Cardinality(Y) = Cardinality(X)
           /\ t \notin X /\ t \in Y => Cardinality(Y) = Cardinality(X) + 1
           /\ t \in X /\ t \notin Y => Cardinality(Y) = Cardinality(X) - 1
BY ZenonT(90) DEF SizesOf

\* The component counts with an instance of its own of the standard module.
LEMMA SemCount ==
    ASSUME NEW X
    PROVE  S!Cardinality(X) = Cardinality(X)
BY Zenon DEF S!Cardinality, Cardinality, S!IsFiniteSet, IsFiniteSet

LEMMA SemInit ==
    ASSUME BarrierConstants, S!Init
    PROVE  S!IInv /\ S!AbstractInit
<1>1. S!TypeOK /\ S!AbstractInit
  BY SMTT(90)
  DEF BarrierConstants, S!Init, S!TypeOK, S!AbstractInit, S!value, S!Word, S!PC, S!Op, S!Zero
<1>2. S!Counted = {} /\ S!Asleep = {} /\ S!Following
  BY Zenon DEF S!Init, S!Counted, S!Asleep, S!Following
<1>3. S!WaitersExact
  BY Zenon, <1>2, NoSize, SemCount DEF S!Init, S!WaitersExact
<1> QED
  BY Zenon, <1>1, <1>2, <1>3 DEF S!IInv, S!SleepersMarked, S!UnitsCovered

LEMMA SemWords ==
    ASSUME BarrierConstants, S!TypeOK
    PROVE  /\ S!Zero \in S!Word /\ S!Contended \in S!Word
           /\ lock.val \in 0..ValueMax /\ lock.cont \in BOOLEAN
           /\ \A t \in Caller : old[t].val \in 0..ValueMax /\ old[t].cont \in BOOLEAN
           /\ \A n \in 0..ValueMax, b \in BOOLEAN : [val |-> n, cont |-> b] \in S!Word
<1>1. lock \in S!Word /\ \A t \in Caller : old[t] \in S!Word
  BY Zenon DEF S!TypeOK
<1> QED
  BY SMTT(90), <1>1 DEF BarrierConstants, S!Zero, S!Contended, S!Word

\* The types, and the locals of a thread: every action.
LEMMA SemFollows ==
    ASSUME BarrierConstants, S!IInv, S!Next
    PROVE  S!TypeOK' /\ S!Following'
<1> SUFFICES ASSUME NEW t \in Caller,
                    \/ \E o \in S!Op : S!Call(t, o)
                    \/ S!WaitStep(t) \/ S!WaitEnds(t) \/ S!Post(t) \/ S!PostStep(t)
             PROVE  S!TypeOK' /\ S!Following'
  BY Zenon DEF S!Next
<1> USE DEF S!TypeOK, S!Following, S!Counted, S!PC, S!Op, S!Goto, S!Return
<1>0. S!TypeOK /\ S!Following
  BY Zenon DEF S!IInv
<1>w. /\ S!Zero \in S!Word /\ S!Contended \in S!Word
      /\ lock.val \in 0..ValueMax /\ lock.cont \in BOOLEAN
      /\ \A u \in Caller : old[u].val \in 0..ValueMax /\ old[u].cont \in BOOLEAN
      /\ \A n \in 0..ValueMax, b \in BOOLEAN : [val |-> n, cont |-> b] \in S!Word
  BY Zenon, <1>0, SemWords
<1>1. CASE \E o \in S!Op : S!Call(t, o)
  BY ZenonT(90), <1>0, <1>1 DEF S!Call
<1>2. CASE S!TryWait(t)
  <2>1. lock' \in S!Word
    BY SMTT(90), <1>0, <1>2, <1>w DEF S!TryWait, BarrierConstants
  <2> QED
    BY SMTT(90), <1>0, <1>2, <1>w, <2>1 DEF S!TryWait
<1>3. CASE S!Count(t)
  BY SMTT(90), <1>0, <1>3 DEF S!Count
<1>4. CASE S!Mark(t)
  BY Zenon, <1>0, <1>4, <1>w DEF S!Mark
<1>5. CASE S!Wait(t)
  BY ZenonT(90), <1>0, <1>5 DEF S!Wait
<1>6. CASE S!Uncount(t)
  <2>0. t \in S!Counted /\ S!Counted \in SUBSET Caller
    BY Zenon, <1>6 DEF S!Uncount
  <2>1. waiters - 1 \in Nat
    <3> HIDE DEF S!Counted
    <3> QED BY SMTT(90), <2>0, SizeZero, SemCount DEF S!IInv, S!WaitersExact, BarrierConstants
  <2> QED
    BY SMTT(90), <1>0, <1>6, <1>w, <2>1 DEF S!Uncount
<1>7. CASE S!WaitEnds(t)
  BY ZenonT(90), <1>0, <1>7 DEF S!WaitEnds
<1>8. CASE S!Post(t)
  BY Zenon, <1>0, <1>8 DEF S!Post
<1>9. CASE S!ReadValue(t)
  BY ZenonT(90), <1>0, <1>9 DEF S!ReadValue
<1>10. CASE S!ReadWaiters(t)
  <2>1. ~S!Overflow(t) => old[t].val < ValueMax
    BY SMTT(90), <1>w DEF S!Overflow, BarrierConstants
  <2> QED
    BY SMTT(90), <1>0, <1>10, <1>w, <2>1 DEF S!ReadWaiters
<1>11. CASE S!Increment(t)
  <2>1. lock' \in S!Word
    <3>1. CASE lock = old[t]
      <4>1. old[t].val + 1 \in 0..ValueMax /\ S!KeepMark(t) \in BOOLEAN
        BY SMTT(90), <1>0, <1>11, <1>w DEF S!Increment, S!KeepMark, BarrierConstants
      <4> QED
        BY ZenonT(90), <1>11, <1>w, <3>1, <4>1 DEF S!Increment
    <3>2. CASE lock # old[t]
      BY Zenon, <1>0, <1>11, <3>2 DEF S!Increment
    <3> QED BY Zenon, <3>1, <3>2
  <2> QED
    BY SMTT(90), <1>0, <1>11, <1>w, <2>1 DEF S!Increment
<1>12. CASE S!Wake(t)
  BY ZenonT(90), <1>0, <1>12, <1>w DEF S!Wake, S!Asleep
<1> QED
  BY ZenonT(90), <1>1, <1>2, <1>3, <1>4, <1>5, <1>6, <1>7, <1>8, <1>9, <1>10, <1>11, <1>12
  DEF S!WaitStep, S!PostStep

\* __val[1] counts the waiters: one thread enters or leaves its set at a time.
LEMMA SemWaiters ==
    ASSUME BarrierConstants, S!IInv, S!Next
    PROVE  S!WaitersExact'
<1> SUFFICES ASSUME NEW t \in Caller,
                    \/ \E o \in S!Op : S!Call(t, o)
                    \/ S!WaitStep(t) \/ S!WaitEnds(t) \/ S!Post(t) \/ S!PostStep(t)
             PROVE  S!WaitersExact'
  BY Zenon DEF S!Next
<1>1. /\ S!TypeOK /\ waiters = Cardinality(S!Counted)
      /\ S!Counted \in SUBSET Caller /\ S!Counted' \in SUBSET Caller
  BY Zenon, SemCount DEF S!IInv, S!WaitersExact, S!Counted
<1>2. CASE S!Count(t) \/ S!Uncount(t)
  <2>1. \A u \in Caller : u # t => (u \in S!Counted <=> u \in S!Counted')
    BY Zenon, <1>1, <1>2 DEF S!Count, S!Uncount, S!Goto, S!Return, S!TypeOK, S!Counted
  <2>2. \/ waiters' = waiters + 1 /\ t \notin S!Counted /\ t \in S!Counted'
        \/ waiters' = waiters - 1 /\ t \in S!Counted /\ t \notin S!Counted'
    BY Zenon, <1>1, <1>2 DEF S!Count, S!Uncount, S!Goto, S!Return, S!TypeOK, S!Counted
  <2>3. waiters' = Cardinality(S!Counted')
    BY SMTT(90), <1>1, <2>1, <2>2, OneCaller DEF BarrierConstants
  <2> QED
    BY Zenon, <2>3, SemCount DEF S!WaitersExact
<1>3. CASE ~(S!Count(t) \/ S!Uncount(t))
  <2>1. waiters' = waiters
    BY Zenon, <1>3
    DEF S!Call, S!WaitStep, S!TryWait, S!Mark, S!Wait, S!WaitEnds, S!Post, S!PostStep,
                S!ReadValue, S!ReadWaiters, S!Increment, S!Wake
  <2>2. S!Counted' = S!Counted
    <3>1. CASE S!Wake(t)
      BY Zenon, <1>1, <3>1 DEF S!Wake, S!Asleep, S!Counted, S!TypeOK
    <3>2. CASE ~S!Wake(t)
      BY ZenonT(90), <1>1, <1>3, <3>2
      DEF S!Call, S!WaitStep, S!TryWait, S!Mark, S!Wait, S!WaitEnds, S!Post, S!PostStep,
          S!ReadValue, S!ReadWaiters, S!Increment, S!Goto, S!Return, S!Counted, S!TypeOK
    <3> QED BY Zenon, <3>1, <3>2
  <2> QED
    BY Zenon, <1>1, <2>1, <2>2, SemCount DEF S!WaitersExact
<1> QED BY Zenon, <1>2, <1>3

\* The mark of a sleeper stays until everybody is woken.
LEMMA SemMarked ==
    ASSUME BarrierConstants, S!IInv, S!Next
    PROVE  S!SleepersMarked'
<1> SUFFICES ASSUME NEW t \in Caller,
                    \/ \E o \in S!Op : S!Call(t, o)
                    \/ S!WaitStep(t) \/ S!WaitEnds(t) \/ S!Post(t) \/ S!PostStep(t)
             PROVE  S!SleepersMarked'
  BY Zenon DEF S!Next
<1> USE DEF S!Goto, S!Return, S!TypeOK, S!Asleep, S!WakingAll, S!SleepersMarked
<1>1. S!TypeOK /\ S!SleepersMarked
  BY Zenon DEF S!IInv
<1>2. CASE \E o \in S!Op : S!Call(t, o)
  BY ZenonT(90), <1>1, <1>2 DEF S!Call
<1>3. CASE S!TryWait(t)
  BY SMTT(90), <1>1, <1>3 DEF S!TryWait
<1>4. CASE S!Count(t) \/ S!Uncount(t)
  BY ZenonT(90), <1>1, <1>4 DEF S!Count, S!Uncount
<1>5. CASE S!Mark(t)
  BY Zenon, <1>1, <1>5 DEF S!Mark, S!Contended
<1>6. CASE S!Wait(t) \/ S!WaitEnds(t)
  BY SMTT(90), <1>1, <1>6 DEF S!Wait, S!WaitEnds, S!Contended
<1>7. CASE S!Post(t) \/ S!ReadValue(t) \/ S!ReadWaiters(t)
  BY ZenonT(90), <1>1, <1>7 DEF S!Post, S!ReadValue, S!ReadWaiters
<1>8. CASE S!Increment(t)
  <2>1. CASE lock # old[t]
    BY Zenon, <1>1, <1>8, <2>1 DEF S!Increment
  <2>2. CASE lock = old[t] /\ saw[t] <= 1 /\ S!MustWake(t)
    BY ZenonT(90), <1>1, <1>8, <2>2 DEF S!Increment
  <2>3. CASE lock = old[t] /\ ~S!MustWake(t)
    BY SMTT(90), <1>1, <1>8, <2>3 DEF S!Increment, S!MustWake
  <2>4. CASE lock = old[t] /\ ~(saw[t] <= 1) /\ S!MustWake(t)
    <3>1. lock'.cont <=> lock.cont
      <4>1. saw[t] > 1
        BY SMTT(90), <1>1, <2>4
      <4>2. lock'.cont = S!KeepMark(t)
        BY SMTT(90), <1>8, <2>4 DEF S!Increment
      <4> QED
        BY Zenon, <2>4, <4>1, <4>2 DEF S!KeepMark
    <3> QED
      BY ZenonT(90), <1>1, <1>8, <2>4, <3>1 DEF S!Increment
  <2> QED BY Zenon, <2>1, <2>2, <2>3, <2>4
<1>9. CASE S!Wake(t)
  <2>1. CASE saw[t] <= 1 \/ S!Asleep = {}
    BY SMTT(90), <1>1, <1>9, <2>1 DEF S!Wake
  <2>2. CASE ~(saw[t] <= 1) /\ S!Asleep # {}
    BY Zenon, <1>1, <1>9, <2>2 DEF S!Wake
  <2> QED BY Zenon, <2>1, <2>2
<1> QED
  BY Zenon, <1>2, <1>3, <1>4, <1>5, <1>6, <1>7, <1>8, <1>9 DEF S!WaitStep, S!PostStep

\* Every unit of the value that a sleeper could take has somebody on duty.
LEMMA SemUnits ==
    ASSUME BarrierConstants, S!IInv, S!Next
    PROVE  S!UnitsCovered'
<1> SUFFICES ASSUME NEW t \in Caller,
                    \/ \E o \in S!Op : S!Call(t, o)
                    \/ S!WaitStep(t) \/ S!WaitEnds(t) \/ S!Post(t) \/ S!PostStep(t),
                    S!Asleep' # {}, S!WakingAll' = {}
             PROVE  Cardinality(S!OnDuty') >= lock'.val
  BY Zenon, SemCount DEF S!Next, S!UnitsCovered
<1>1. /\ S!TypeOK /\ S!Following /\ S!SleepersMarked
      /\ S!Asleep # {} /\ S!WakingAll = {} => Cardinality(S!OnDuty) >= lock.val
      /\ S!OnDuty \in SUBSET Caller /\ S!OnDuty' \in SUBSET Caller
      /\ Cardinality(S!OnDuty) \in Nat /\ Cardinality(S!OnDuty') \in Nat
  BY ZenonT(90), SemCount, SizeZero DEF BarrierConstants, S!IInv, S!UnitsCovered, S!OnDuty
<1>v. lock.val \in Nat /\ lock'.val \in Nat
  BY SMTT(90), <1>1, SemFollows, SemWords DEF S!TypeOK, S!Word, BarrierConstants
<1>2. CASE lock'.val = 0
  BY SMTT(90), <1>1, <1>2
<1>3. CASE ~S!TryWait(t) /\ ~S!Increment(t) /\ ~S!Wake(t) /\ lock'.val > 0
  <2> USE DEF S!Goto, S!Return, S!TypeOK, S!Asleep, S!WakingAll, S!OnDuty
  <2>0. lock'.val = lock.val
    BY SMTT(90), <1>3
    DEF S!Call, S!WaitStep, S!Count, S!Mark, S!Zero, S!Contended, S!Wait, S!Uncount,
                S!WaitEnds, S!Post, S!PostStep, S!ReadValue, S!ReadWaiters
  <2>1. S!Asleep' \subseteq S!Asleep
    <3>1. CASE S!Wait(t)
      <4>1. lock # S!Contended
        BY SMTT(90), <1>3, <2>0 DEF S!Contended
      <4> QED BY Zenon, <1>1, <3>1, <4>1 DEF S!Wait
    <3>2. CASE ~S!Wait(t)
      <4>1. pc'[t] # "asleep" /\ \A u \in Caller : u # t => pc'[u] = pc[u]
        BY ZenonT(90), <1>1, <1>3, <3>2
        DEF S!Call, S!WaitStep, S!Count, S!Mark, S!Uncount, S!WaitEnds,
            S!Post, S!PostStep, S!ReadValue, S!ReadWaiters
      <4> QED BY Zenon, <4>1
    <3> QED BY Zenon, <3>1, <3>2
  <2>2. S!WakingAll \subseteq S!WakingAll'
    BY ZenonT(90), <1>1, <1>3
    DEF S!Call, S!WaitStep, S!Count, S!Mark, S!Wait, S!Uncount, S!WaitEnds,
        S!Post, S!PostStep, S!ReadValue, S!ReadWaiters
  <2>3. \A u \in Caller : u # t => (u \in S!OnDuty <=> u \in S!OnDuty')
    BY ZenonT(90), <1>1, <1>3
    DEF S!Call, S!WaitStep, S!Count, S!Mark, S!Wait, S!Uncount, S!WaitEnds,
        S!Post, S!PostStep, S!ReadValue, S!ReadWaiters
  <2>4. t \in S!OnDuty => t \in S!OnDuty'
    BY Zenon, <1>1, <1>3
    DEF S!Call, S!WaitStep, S!Count, S!Mark, S!Wait, S!Uncount, S!WaitEnds,
        S!Post, S!PostStep, S!ReadValue, S!ReadWaiters, S!Following, S!Counted
  <2> HIDE DEF S!Asleep, S!WakingAll, S!OnDuty
  <2> QED
    BY SMTT(90), <1>1, <1>v, <2>0, <2>1, <2>2, <2>3, <2>4, OneCaller DEF BarrierConstants
<1>4. CASE S!TryWait(t) /\ lock'.val > 0
  <2>1. S!Asleep' = S!Asleep /\ S!WakingAll' = S!WakingAll /\ lock'.val = lock.val - 1
    BY SMTT(90), <1>1, <1>4 DEF S!TryWait, S!Goto, S!Return, S!TypeOK, S!Asleep, S!WakingAll
  <2>2. \A u \in Caller : u # t => (u \in S!OnDuty <=> u \in S!OnDuty')
    BY ZenonT(90), <1>1, <1>4 DEF S!TryWait, S!Goto, S!Return, S!TypeOK, S!OnDuty
  <2> QED
    BY SMTT(90), <1>1, <1>v, <2>1, <2>2, OneCaller DEF BarrierConstants
<1>5. CASE S!Increment(t)
  <2> USE DEF S!Increment, S!Goto, S!Return, S!TypeOK
  <2>1. S!Asleep' = S!Asleep
    BY Zenon, <1>1, <1>5 DEF S!Asleep
  <2>2. S!WakingAll \subseteq S!WakingAll'
    BY Zenon, <1>1, <1>5 DEF S!WakingAll
  <2>3. t \notin S!OnDuty /\ \A u \in Caller : u # t => (u \in S!OnDuty <=> u \in S!OnDuty')
    BY ZenonT(90), <1>1, <1>5 DEF S!OnDuty
  <2>4. Cardinality(S!OnDuty) >= lock.val /\ lock.cont
    BY Zenon, <1>1, <2>1, <2>2 DEF S!SleepersMarked
  <2>5. CASE lock = old[t]
    <3>1. t \in S!OnDuty' /\ lock'.val = lock.val + 1
      BY SMTT(90), <1>1, <1>5, <2>4, <2>5 DEF S!OnDuty, S!MustWake
    <3> QED
      BY SMTT(90), <1>1, <1>v, <2>3, <2>4, <3>1, OneCaller DEF BarrierConstants
  <2>6. CASE lock # old[t]
    <3>1. t \notin S!OnDuty' /\ lock' = lock
      BY Zenon, <1>1, <1>5, <2>6 DEF S!OnDuty
    <3> QED
      BY Zenon, <1>1, <1>v, <2>3, <2>4, <3>1, OneCaller DEF BarrierConstants
  <2> QED BY Zenon, <2>5, <2>6
<1>6. CASE S!Wake(t)
  <2>1. ~(saw[t] <= 1) /\ S!Asleep # {}
    BY SMTT(90), <1>1, <1>6 DEF S!Wake, S!TypeOK, S!Asleep
  <2>2. PICK u \in S!Asleep : pc' = [pc EXCEPT ![t] = "idle", ![u] = "uncount"]
    BY Zenon, <1>6, <2>1 DEF S!Wake
  <2>3. S!WakingAll \subseteq S!WakingAll'
    BY Zenon, <1>1, <1>6, <2>1, <2>2 DEF S!Wake, S!TypeOK, S!Asleep, S!WakingAll
  <2> DEFINE B == S!OnDuty \ {t}
  <2>4. B \in SUBSET Caller /\ u \in Caller /\ t \notin B /\ t \in S!OnDuty
    BY Zenon, <1>1, <1>6, <2>2 DEF S!Wake, S!Asleep, S!OnDuty
  <2>5. \A s \in Caller : s # t => (s \in S!OnDuty <=> s \in B)
    BY Zenon
  <2>6. u \notin B /\ u \in S!OnDuty' /\ \A s \in Caller : s # u => (s \in B <=> s \in S!OnDuty')
    BY Zenon, <1>1, <1>6, <2>2 DEF S!Wake, S!TypeOK, S!Asleep, S!OnDuty
  <2>7. lock' = lock
    BY Zenon, <1>6 DEF S!Wake
  <2> HIDE DEF B
  <2>8. Cardinality(B) = Cardinality(S!OnDuty) - 1
    BY Zenon, <1>1, <2>4, <2>5, OneCaller DEF BarrierConstants
  <2>9. Cardinality(S!OnDuty') = Cardinality(B) + 1
    BY Zenon, <1>1, <2>4, <2>6, OneCaller DEF BarrierConstants
  <2> QED
    BY SMTT(90), <1>1, <1>v, <2>1, <2>3, <2>7, <2>8, <2>9
<1> QED
  BY SMTT(90), <1>v, <1>2, <1>3, <1>4, <1>5, <1>6

\* The invariant is inductive, implies that no wakeup is lost, and every step is one of the
\* abstract semaphore.
LEMMA SemStep ==
    ASSUME BarrierConstants, S!IInv, S!Next
    PROVE  S!IInv' /\ (S!AbstractNext \/ UNCHANGED S!value)
<1>1. S!IInv'
  BY Zenon, SemFollows, SemWaiters, SemMarked, SemUnits DEF S!IInv
<1>2. S!AbstractNext \/ UNCHANGED S!value
  <2> SUFFICES ASSUME NEW t \in Caller,
                      \/ \E o \in S!Op : S!Call(t, o)
                      \/ S!WaitStep(t) \/ S!WaitEnds(t) \/ S!Post(t) \/ S!PostStep(t)
               PROVE  S!AbstractNext \/ UNCHANGED S!value
    BY ZenonT(90) DEF S!Next
  <2>1. S!TypeOK /\ S!Following /\ lock.val \in Nat
    BY SMTT(90), SemWords DEF S!IInv, BarrierConstants
  <2>2. CASE S!TryWait(t)
    BY SMTT(90), <2>1, <2>2 DEF S!TryWait, S!AbstractNext, S!AbstractWait, S!value
  <2>3. CASE S!Increment(t)
    BY SMTT(90), <2>1, <2>3
    DEF S!Increment, S!Goto, S!Following, S!Return, S!AbstractNext, S!AbstractPost, S!value
  <2>4. CASE ~S!TryWait(t) /\ ~S!Increment(t)
    BY SMTT(90), <2>4
    DEF S!Call, S!WaitStep, S!Count, S!Mark, S!Zero, S!Contended, S!Wait, S!Uncount,
        S!WaitEnds, S!Post, S!PostStep, S!ReadValue, S!ReadWaiters, S!Wake, S!value
  <2> QED BY Zenon, <2>2, <2>3, <2>4
<1> QED BY Zenon, <1>1, <1>2

LEMMA SemSafe ==
    ASSUME BarrierConstants, S!IInv
    PROVE  S!TypeOK /\ S!NoLostWakeup
<1>1. /\ S!OnDuty \in SUBSET Caller /\ S!Asleep \in SUBSET Caller
  BY Zenon DEF S!OnDuty, S!Asleep
<1> QED
  BY SMTT(90), <1>1, SemCount, SizeZero DEF BarrierConstants, S!IInv, S!UnitsCovered, S!NoLostWakeup

\* The invariant is about the variables of the component alone.
LEMMA SemSame ==
    ASSUME S!IInv, UNCHANGED S!vars
    PROVE  S!IInv'
<1> USE DEF S!IInv, S!vars
<1>1. S!TypeOK'
  BY Zenon DEF S!TypeOK
<1>2. S!WaitersExact'
  BY Zenon DEF S!WaitersExact, S!Counted
<1>3. S!Following'
  BY Zenon DEF S!Following, S!Counted
<1>4. S!SleepersMarked'
  BY Zenon DEF S!SleepersMarked, S!Asleep, S!WakingAll
<1>5. S!UnitsCovered'
  BY Zenon DEF S!UnitsCovered, S!Asleep, S!WakingAll, S!OnDuty
<1> QED BY Zenon, <1>1, <1>2, <1>3, <1>4, <1>5

-----------------------------------------------------------------------------
(***************************************************************************)
(* pthread_once.                                                           *)
(***************************************************************************)
O == INSTANCE Once

LEMMA OnceInit ==
    ASSUME O!Init
    PROVE  O!IInv
BY SMTT(90) DEF O!Init, O!IInv, O!TypeOK, O!PC, O!OneInit, O!Running, O!NoLostWakeup, O!Asleep

LEMMA OnceStep ==
    ASSUME O!IInv, O!Next
    PROVE  O!IInv'
<1> SUFFICES ASSUME NEW t \in Thread,
                    \/ O!Call(t) \/ O!CallAgain(t) \/ O!Step(t) \/ O!InitEnds(t) \/ O!Interrupt(t)
             PROVE  O!IInv'
  BY Zenon DEF O!Next
<1> USE DEF O!IInv, O!TypeOK, O!PC, O!OneInit, O!Running, O!NoLostWakeup, O!Asleep, O!Goto
<1>1. CASE O!Call(t) \/ O!CallAgain(t)
  BY ZenonT(90), <1>1 DEF O!Call, O!CallAgain
<1>2. CASE O!Cas(t)
  BY SMTT(90), <1>2 DEF O!Cas
<1>3. CASE O!InitReturns(t)
  BY SMTT(90), <1>3 DEF O!InitReturns
<1>4. CASE O!InitAbandoned(t)
  BY SMTT(90), <1>4 DEF O!InitAbandoned
<1>5. CASE O!Finish(t)
  BY SMTT(90), <1>5 DEF O!Finish
<1>6. CASE O!Undo(t)
  BY SMTT(90), <1>6 DEF O!Undo
<1>7. CASE O!Wake(t)
  BY ZenonT(90), <1>7 DEF O!Wake, O!WakeAll
<1>8. CASE O!UndoWake(t)
  BY SMTT(90), <1>8 DEF O!UndoWake, O!WakeAll
<1>9. CASE O!Mark(t)
  BY SMTT(90), <1>9 DEF O!Mark
<1>10. CASE O!Spin(t) \/ O!Wait(t) \/ O!Interrupt(t)
  BY SMTT(90), <1>10 DEF O!Spin, O!Wait, O!Interrupt
<1> QED
  BY ZenonT(90), <1>1, <1>2, <1>3, <1>4, <1>5, <1>6, <1>7, <1>8, <1>9, <1>10 DEF O!Step, O!InitEnds

LEMMA OnceSafe ==
    ASSUME O!IInv
    PROVE  O!TypeOK /\ O!OneInit /\ O!ReturnsAfterInit /\ O!NoLostWakeup
BY Zenon DEF O!IInv, O!ReturnsAfterInit

\* The invariant is about the variables of the component alone.
LEMMA OnceSame ==
    ASSUME O!IInv, UNCHANGED O!vars
    PROVE  O!IInv'
<1> USE DEF O!IInv, O!vars
<1>1. O!TypeOK'
  BY Zenon DEF O!TypeOK
<1>2. O!OneInit'
  BY Zenon DEF O!OneInit, O!Running
<1>3. O!NoLostWakeup'
  BY Zenon DEF O!NoLostWakeup, O!Asleep
<1> QED BY Zenon, <1>1, <1>2, <1>3

-----------------------------------------------------------------------------
(***************************************************************************)
(* Barriers within a process.                                              *)
(***************************************************************************)
B == INSTANCE Barrier

\* The component counts with an instance of its own of the standard module.
LEMMA BarSize ==
    ASSUME NEW X
    PROVE  B!Cardinality(X) = Cardinality(X)
BY Zenon DEF B!Cardinality, Cardinality, B!IsFiniteSet, IsFiniteSet

LEMMA BarInit ==
    ASSUME BarrierConstants, B!Init
    PROVE  B!IInv
<1>1. B!New \in B!Instance /\ "idle" \in B!PC
  BY SMTT(90) DEF B!New, B!Value, B!Instance, B!PC
<1>2. B!TypeOK
  <2>1. inst \in [Thread -> B!Instance] /\ pc \in [Thread -> B!PC] /\ members \in [Thread -> SUBSET Thread]
    BY Zenon, <1>1 DEF B!Init
  <2>2. my \in [Thread -> Thread \cup {NoThread}] /\ binst \in Thread \cup {NoThread}
    BY Zenon DEF B!Init
  <2> QED BY Zenon, <2>1, <2>2 DEF B!Init, B!TypeOK
<1>3. B!LockWaiters = {} /\ B!LockSleepers = {}
  BY Zenon DEF B!Init, B!LockWaiters, B!LockSleepers
<1>4. B!WaitersExact
  BY Zenon, <1>3, NoSize, BarSize DEF B!Init, B!WaitersExact
<1>5. B!Following /\ B!InstanceExact
  BY Zenon DEF B!Init, B!Following, B!InstanceExact, B!First, B!Other, B!Last
<1> QED BY Zenon, <1>2, <1>3, <1>4, <1>5 DEF B!IInv, B!NoLostWakeup

\* The fields of an instance.
LEMMA BarFields ==
    ASSUME inst \in [Thread -> B!Instance]
    PROVE  /\ \A o \in Thread : /\ inst[o].count \in Int /\ inst[o].last \in {0, 1}
                                /\ inst[o].waiters \in Int /\ inst[o].finished \in Int
           /\ B!New \in B!Instance
           /\ \A o \in Thread, n \in {1, -1} :
                /\ B!Counting(inst[o], n) \in B!Instance /\ B!Waiting(inst[o], n) \in B!Instance
                /\ B!Finishing(inst[o]) \in B!Instance
                /\ B!Value(inst[o].count, 1, inst[o].waiters, inst[o].finished) \in B!Instance
<1>1. \A o \in Thread : inst[o] \in B!Instance
  BY Zenon
<1> QED
  BY SMTT(90), <1>1 DEF B!Instance, B!New, B!Value, B!Counting, B!Waiting, B!Finishing

LEMMA BarTypes ==
    ASSUME BarrierConstants, B!IInv, B!Next
    PROVE  B!TypeOK'
<1> SUFFICES ASSUME NEW t \in Thread, B!Call(t) \/ B!Step(t) \/ B!Interrupt(t)
             PROVE  B!TypeOK'
  BY Zenon DEF B!Next
<1>0. B!TypeOK /\ B!Following
  BY Zenon DEF B!IInv
<1>i. /\ B!New \in B!Instance
      /\ \A o \in Thread, n \in {1, -1} :
           /\ B!Counting(inst[o], n) \in B!Instance /\ B!Waiting(inst[o], n) \in B!Instance
           /\ B!Finishing(inst[o]) \in B!Instance
           /\ B!Value(inst[o].count, 1, inst[o].waiters, inst[o].finished) \in B!Instance
  BY Zenon, <1>0, BarFields DEF B!TypeOK
<1>p. /\ B!Locking \subseteq B!PC /\ B!First \subseteq B!PC /\ B!Other \subseteq B!PC
      /\ B!Last \subseteq B!PC
      /\ {"idle", "enter", "leave", "lastout", "wakefirst"} \subseteq B!PC
  BY Zenon DEF B!PC
<1>m. pc[t] \in B!Other \cup B!Last \cup {"leave", "lastout"} => my[t] \in Thread
  BY Zenon, <1>0 DEF B!Following
<1> USE DEF B!TypeOK, B!Goto, B!Locking, B!First, B!Other, B!Last
<1>1. CASE B!Call(t)
  BY Zenon, <1>0, <1>1, <1>p DEF B!Call
<1>2. CASE B!Swap(t)
  BY Zenon, <1>0, <1>2, <1>p DEF B!Swap
<1>3. CASE B!AwaitLock(t)
  <2>1. pc[t] = "declock" => waiters - 1 \in Nat
    BY SMTT(90), SizeZero, BarSize DEF BarrierConstants, B!IInv, B!WaitersExact, B!LockWaiters
  <2> QED
    BY SMTT(90), <1>0, <1>3, <1>p, <2>1 DEF B!AwaitLock
<1>4. CASE B!Unlock(t)
  BY Zenon, <1>0, <1>4, <1>p DEF B!Unlock
<1>5. CASE B!Kick(t)
  BY SMTT(90), <1>0, <1>5, <1>p DEF B!Kick, B!WakeOne, B!LockSleepers
<1>6. CASE B!Enter(t)
  <2>1. CASE binst = NoThread
    BY Zenon, <1>0, <1>6, <1>i, <1>p, <2>1 DEF B!Enter
  <2>2. CASE binst # NoThread
    <3>1. binst \in Thread /\ B!Counting(inst[binst], 1) \in B!Instance
      BY Zenon, <1>0, <1>i, <2>2
    <3> QED
      BY ZenonT(90), <1>0, <1>6, <1>p, <2>2, <3>1 DEF B!Enter
  <2> QED BY Zenon, <2>1, <2>2
<1>7. CASE B!Finish(t)
  BY Zenon, <1>0, <1>7, <1>i, <1>p DEF B!Finish
<1>8. CASE B!AwaitFinished(t)
  BY Zenon, <1>0, <1>8, <1>p DEF B!AwaitFinished
<1>9. CASE B!AwaitLast(t)
  BY SMTT(90), <1>0, <1>9, <1>i, <1>m, <1>p DEF B!AwaitLast
<1>10. CASE B!SetLast(t)
  BY Zenon, <1>0, <1>10, <1>i, <1>m, <1>p DEF B!SetLast
<1>11. CASE B!WakeLast(t)
  BY Zenon, <1>0, <1>11, <1>p DEF B!WakeLast, B!WakeAll
<1>12. CASE B!Leave(t)
  BY Zenon, <1>0, <1>12, <1>i, <1>m, <1>p DEF B!Leave, B!Return
<1>13. CASE B!LastOut(t)
  BY ZenonT(90), <1>0, <1>13, <1>i, <1>m, <1>p DEF B!LastOut, B!Return
<1>14. CASE B!WakeFirst(t)
  BY ZenonT(90), <1>0, <1>14, <1>p DEF B!WakeFirst, B!WakeOne
<1>15. CASE B!Serial(t)
  BY Zenon, <1>0, <1>15, <1>i, <1>p DEF B!Serial, B!Return
<1>16. CASE B!Interrupt(t)
  BY ZenonT(90), <1>0, <1>16, <1>p DEF B!Interrupt
<1> QED
  BY ZenonT(90), <1>1, <1>2, <1>3, <1>4, <1>5, <1>6, <1>7, <1>8, <1>9, <1>10, <1>11, <1>12, <1>13,
     <1>14, <1>15,
     <1>16
  DEF B!Step

\* _b_waiters counts the waiters, and none of them is left behind.
LEMMA BarWaiters ==
    ASSUME BarrierConstants, B!IInv, B!Next
    PROVE  B!WaitersExact' /\ B!NoLostWakeup'
<1> SUFFICES ASSUME NEW t \in Thread, B!Call(t) \/ B!Step(t) \/ B!Interrupt(t)
             PROVE  B!WaitersExact' /\ B!NoLostWakeup'
  BY Zenon DEF B!Next
<1>1. /\ B!TypeOK /\ B!NoLostWakeup /\ waiters = Cardinality(B!LockWaiters)
      /\ B!LockWaiters \in SUBSET Thread /\ B!LockWaiters' \in SUBSET Thread
      /\ waiters = 0 => B!LockSleepers = {}
  <2>1. waiters = Cardinality(B!LockWaiters) /\ B!LockWaiters \in SUBSET Thread
    BY Zenon, BarSize DEF B!IInv, B!WaitersExact, B!LockWaiters
  <2>2. waiters = 0 => B!LockWaiters = {}
    BY Zenon, <2>1, SizeZero DEF BarrierConstants
  <2> QED BY Zenon, <2>1, <2>2 DEF B!IInv, B!LockWaiters, B!LockSleepers
<1>2. ASSUME B!LockWaiters' = B!LockWaiters, waiters' = waiters
      PROVE  B!WaitersExact'
  BY Zenon, <1>1, <1>2, BarSize DEF B!WaitersExact
<1> DEFINE Awake == {"kick1", "kick2", "kick3"} \cup (B!Locking \ {"sleeplock"})
<1> USE DEF B!TypeOK, B!Goto, B!LockWaiters, B!LockSleepers, B!NoLostWakeup, B!Locking
<1>3. CASE B!AwaitLock(t)
  <2>1. \A u \in Thread : u # t => pc'[u] = pc[u]
    BY Zenon, <1>1, <1>3 DEF B!AwaitLock
  <2>2. \A u \in Thread : u # t => (u \in B!LockWaiters <=> u \in B!LockWaiters')
    BY Zenon, <2>1
  <2>3. \/ waiters' = waiters + 1 /\ t \notin B!LockWaiters /\ t \in B!LockWaiters'
        \/ waiters' = waiters - 1 /\ t \in B!LockWaiters /\ t \notin B!LockWaiters'
        \/ waiters' = waiters /\ B!LockWaiters' = B!LockWaiters
    BY ZenonT(90), <1>1, <1>3, <2>1 DEF B!AwaitLock
  <2>4. waiters' = Cardinality(B!LockWaiters')
    <3> HIDE DEF B!LockWaiters
    <3> QED BY SMTT(90), <1>1, <2>2, <2>3, OneDiffers DEF BarrierConstants
  <2>5. B!NoLostWakeup'
    BY SMTT(90), <1>1, <1>3, <2>1 DEF B!AwaitLock
  <2> QED BY Zenon, <2>4, <2>5, BarSize DEF B!WaitersExact
<1>4. CASE B!Kick(t)
  <2>1. PICK p \in {<<"kick1", "finish">>, <<"kick2", "spinlast">>, <<"kick3", "setlast">>} :
          IF waiters # 0 THEN B!WakeOne(t, p[1], p[2], B!LockSleepers, "testlock")
          ELSE B!Goto(t, p[1], p[2])
    BY Zenon, <1>4 DEF B!Kick
  <2>2. B!LockWaiters' = B!LockWaiters /\ UNCHANGED <<waiters, lock>>
    BY SMTT(90), <1>1, <1>4, <2>1 DEF B!Kick, B!WakeOne
  <2>3. B!NoLostWakeup'
    BY SMTT(90), <1>1, <2>1, <2>2 DEF B!WakeOne
  <2> QED BY Zenon, <1>2, <2>2, <2>3
<1>5. CASE B!Swap(t)
  <2>1. B!LockWaiters' = B!LockWaiters /\ waiters' = waiters /\ lock' = 1
    BY Zenon, <1>1, <1>5 DEF B!Swap
  <2> QED BY SMTT(90), <1>2, <2>1
<1>6. CASE B!Unlock(t)
  <2>1. B!LockWaiters' = B!LockWaiters /\ waiters' = waiters
        /\ pc'[t] \in {"kick1", "kick2", "kick3"}
    BY Zenon, <1>1, <1>6 DEF B!Unlock
  <2> QED BY Zenon, <1>2, <2>1
<1>7. ASSUME UNCHANGED <<lock, waiters>>,
             \A u \in Thread : /\ pc[u] \in Awake => pc'[u] \in Awake
                               /\ pc'[u] = "sleeplock" => pc[u] = "sleeplock"
                               /\ u \in B!LockWaiters' <=> u \in B!LockWaiters
      PROVE  B!WaitersExact' /\ B!NoLostWakeup'
  <2>1. B!LockWaiters' = B!LockWaiters
    BY Zenon, <1>7
  <2> QED BY Zenon, <1>1, <1>2, <1>7, <2>1
<1>8. CASE B!Call(t) \/ B!Finish(t) \/ B!AwaitFinished(t)
  BY ZenonT(90), <1>1, <1>7, <1>8 DEF B!Call, B!Finish, B!AwaitFinished
<1>9. CASE B!Interrupt(t)
  BY ZenonT(90), <1>1, <1>7, <1>9 DEF B!Interrupt
<1>10. CASE B!Enter(t)
  BY Zenon, <1>1, <1>7, <1>10 DEF B!Enter
<1>11. CASE B!AwaitLast(t) \/ B!SetLast(t)
  BY SMTT(90), <1>1, <1>7, <1>11 DEF B!AwaitLast, B!SetLast
<1>12. CASE B!WakeLast(t)
  BY SMTT(90), <1>1, <1>7, <1>12 DEF B!WakeLast, B!WakeAll
<1>13. CASE B!Leave(t) \/ B!LastOut(t) \/ B!Serial(t)
  BY SMTT(90), <1>1, <1>7, <1>13 DEF B!Leave, B!LastOut, B!Serial, B!Return
<1>14. CASE B!WakeFirst(t)
  BY ZenonT(90), <1>1, <1>7, <1>14 DEF B!WakeFirst, B!WakeOne
<1> QED
  BY Zenon, <1>3, <1>4, <1>5, <1>6, <1>8, <1>9, <1>10, <1>11, <1>12, <1>13, <1>14 DEF B!Step

\* Steps that move no thread into, out of or past an instance keep the threads in place.
LEMMA BarStays ==
    ASSUME B!TypeOK, B!Following, UNCHANGED <<binst, members>>,
           \A u \in Thread :
             /\ pc'[u] \in B!First <=> pc[u] \in B!First
             /\ pc'[u] \in B!Other \cup B!Last \cup {"leave"}
                  <=> pc[u] \in B!Other \cup B!Last \cup {"leave"}
             /\ pc'[u] = "lastout" <=> pc[u] = "lastout"
             /\ pc'[u] \in B!First \cup B!Other \cup B!Last \cup {"leave", "lastout"} => my'[u] = my[u]
             /\ pc'[u] \in B!Last \cup {"declast", "leave"} =>
                  pc[u] \in B!Last \cup {"declast", "leave"} \/ binst # my[u]
             /\ pc'[u] = "serial" => inst'[u].finished = 2
    PROVE  /\ B!Following'
           /\ \A o \in Thread : B!Inside(o)' = B!Inside(o) /\ B!OutLast(o)' = B!OutLast(o)
<1>1. \A o \in Thread : B!Inside(o)' = B!Inside(o) /\ B!OutLast(o)' = B!OutLast(o)
  BY ZenonT(90) DEF B!Inside, B!OutLast
<1>2. binst' # NoThread => pc'[binst'] \in B!First
  BY Zenon DEF B!Following, B!TypeOK
<1>3. ASSUME NEW u \in Thread
      PROVE  /\ pc'[u] \in B!First => my'[u] = u
             /\ pc'[u] \in B!Other \cup B!Last \cup {"leave", "lastout"} =>
                  my'[u] \in Thread /\ my'[u] # u /\ u \in members'[my'[u]] /\ pc'[my'[u]] \in B!First
             /\ pc'[u] \in B!Last \cup {"declast", "leave", "lastout"} => binst' # my'[u]
             /\ pc'[u] = "serial" => inst'[u].finished = 2
  <2>1. pc'[u] \in B!First => my'[u] = u
    BY Zenon DEF B!Following
  <2>2. pc'[u] \in B!Last \cup {"declast", "leave", "lastout"} => binst' # my'[u]
    <3>1. CASE pc'[u] = "lastout"
      BY Zenon, <3>1 DEF B!Following
    <3>2. CASE pc'[u] \in B!Last \cup {"declast", "leave"}
      <4>1. my'[u] = my[u]
        BY Zenon, <3>2 DEF B!Other
      <4> QED BY Zenon, <3>2, <4>1 DEF B!Following
    <3> QED BY Zenon, <3>1, <3>2
  <2>3. ASSUME pc'[u] \in B!Other \cup B!Last \cup {"leave", "lastout"}
        PROVE  my'[u] \in Thread /\ my'[u] # u /\ u \in members'[my'[u]] /\ pc'[my'[u]] \in B!First
    <3>1. my'[u] = my[u] /\ pc[u] \in B!Other \cup B!Last \cup {"leave", "lastout"}
      BY Zenon, <2>3
    <3>2. my[u] \in Thread /\ my[u] # u /\ u \in members[my[u]] /\ pc[my[u]] \in B!First
      BY Zenon, <3>1 DEF B!Following
    <3> QED BY Zenon, <3>1, <3>2
  <2> QED BY Zenon, <2>1, <2>2, <2>3
<1>4. ASSUME NEW u \in Thread, pc'[u] = "lastout"
      PROVE  B!Inside(my[u])' = {} /\ (\A w \in B!OutLast(my[u])' : w = u) /\ my'[u] = my[u]
  <2>1. my[u] \in Thread /\ my'[u] = my[u] /\ pc[u] = "lastout"
    BY Zenon, <1>4 DEF B!Following
  <2>2. B!Inside(my[u]) = {} /\ \A w \in B!OutLast(my[u]) : w = u
    BY Zenon, <2>1 DEF B!Following
  <2>3. \A w \in Thread : my'[w] = my'[u] /\ pc'[w] = "lastout" => w = u
    BY Zenon, <2>1, <2>2 DEF B!OutLast
  <2>4. \A w \in Thread : ~(my'[w] = my'[u] /\ pc'[w] \in B!Other \cup B!Last \cup {"leave"})
    BY Zenon, <2>1, <2>2 DEF B!Inside
  <2> QED BY Zenon, <2>1, <2>3, <2>4 DEF B!Inside, B!OutLast
<1> QED BY Zenon, <1>1, <1>2, <1>3, <1>4 DEF B!Following

\* If they change neither the count nor finished of an instance, it is still exact.
LEMMA BarQuiet ==
    ASSUME B!InstanceExact, UNCHANGED <<limit, binst, members>>,
           \A o \in Thread : B!Inside(o)' = B!Inside(o) /\ B!OutLast(o)' = B!OutLast(o),
           \A u \in Thread :
             /\ pc'[u] \in B!First <=> pc[u] \in B!First
             /\ pc'[u] \in {"test1", "sleep1", "serial"} <=> pc[u] \in {"test1", "sleep1", "serial"}
             /\ pc[u] \in B!First =>
                  /\ inst'[u].count = inst[u].count /\ inst'[u].finished = inst[u].finished
                  /\ inst'[u].last = 1 => inst[u].last = 1 \/ binst # u
    PROVE  B!InstanceExact'
<1> SUFFICES ASSUME NEW o \in Thread, pc'[o] \in B!First
             PROVE  /\ inst'[o].count = Cardinality(B!Inside(o)')
                    /\ inst'[o].finished =
                         (IF pc'[o] \in {"test1", "sleep1", "serial"} THEN 1 ELSE 0) +
                         (IF binst' # o /\ B!Inside(o)' = {} /\ B!OutLast(o)' = {} THEN 1 ELSE 0)
                    /\ inst'[o].last = 1 => binst' # o
                    /\ IF binst' = o
                       THEN members'[o] = {o} \cup B!Inside(o)' /\ inst'[o].count < limit'
                       ELSE Cardinality(members'[o]) = limit' + 1
  BY Zenon, BarSize DEF B!InstanceExact
<1> QED BY ZenonT(90), BarSize DEF B!InstanceExact

\* A thread enters the round: it is the first and makes the instance, or it is counted in
\* the instance of the first, which it takes out of the barrier if it is the last.
LEMMA BarEnter ==
    ASSUME BarrierConstants, B!IInv, NEW t \in Thread, B!Enter(t)
    PROVE  B!Following' /\ B!InstanceExact'
<1>0. /\ B!TypeOK /\ B!Following /\ B!InstanceExact /\ SizesOf(Thread) /\ NoThread \notin Thread
      /\ limit \in Nat \ {0} /\ limit' = limit /\ pc[t] = "enter"
  BY Zenon DEF BarrierConstants, B!IInv, B!TypeOK, B!Enter, B!Goto
<1>1. \A u \in Thread : u # t => pc'[u] = pc[u] /\ my'[u] = my[u]
  BY Zenon, <1>0 DEF B!Enter, B!Goto, B!TypeOK
<1>2. B!Inside(t) = {} /\ B!OutLast(t) = {}
  BY Zenon, <1>0 DEF B!Following, B!Inside, B!OutLast, B!First
<1>3. \A o \in Thread : B!OutLast(o)' = B!OutLast(o)
  <2>1. pc'[t] # "lastout"
    BY Zenon, <1>0 DEF B!Enter, B!Goto, B!TypeOK
  <2> QED BY Zenon, <1>0, <1>1, <2>1 DEF B!OutLast
<1>4. CASE binst = NoThread
  <2>1. /\ pc'[t] = "unlock1" /\ my'[t] = t /\ binst' = t
        /\ inst' = [inst EXCEPT ![t] = B!New] /\ members' = [members EXCEPT ![t] = {t}]
    BY Zenon, <1>0, <1>4 DEF B!Enter, B!Goto, B!TypeOK
  <2>2. \A o \in Thread : B!Inside(o)' = B!Inside(o)
    BY Zenon, <1>0, <1>1, <2>1 DEF B!Inside, B!Other, B!Last
  <2>3. /\ B!New.count = 0 /\ B!New.finished = 0 /\ B!New.last = 0
    BY Zenon DEF B!New, B!Value
  <2>4. \A o \in Thread : o # t => inst'[o] = inst[o] /\ members'[o] = members[o]
    BY Zenon, <1>0, <2>1 DEF B!TypeOK
  <2>5. inst'[t] = B!New /\ members'[t] = {t}
    BY Zenon, <1>0, <2>1 DEF B!TypeOK
  <2>6. B!Following'
    <3>1. "unlock1" \in B!First /\ "enter" \notin B!First
      BY Zenon DEF B!First
    <3>2. ASSUME NEW u \in Thread, u # t
          PROVE  /\ pc'[u] \in B!First => my'[u] = u
                 /\ pc'[u] \in B!Other \cup B!Last \cup {"leave", "lastout"} =>
                      my'[u] \in Thread /\ my'[u] # u /\ u \in members'[my'[u]]
                      /\ pc'[my'[u]] \in B!First
                 /\ pc'[u] \in B!Last \cup {"declast", "leave", "lastout"} => binst' # my'[u]
                 /\ pc'[u] = "serial" => inst'[u].finished = 2
      BY SMTT(90), <1>0, <1>1, <2>1, <2>4, <3>1, <3>2 DEF B!Following, B!Other
    <3>3. ASSUME NEW u \in Thread, pc'[u] = "lastout"
          PROVE  B!Inside(my[u])' = {} /\ (\A w \in B!OutLast(my[u])' : w = u) /\ my'[u] = my[u]
      <4>1. u # t /\ my[u] \in Thread /\ pc[u] = "lastout"
        BY Zenon, <1>0, <1>1, <2>1, <3>3 DEF B!Following
      <4>2. B!Inside(my[u]) = {} /\ \A w \in B!OutLast(my[u]) : w = u
        BY Zenon, <1>0, <4>1 DEF B!Following
      <4>3. \A w \in Thread : my'[w] = my'[u] /\ pc'[w] = "lastout" => w = u
        BY Zenon, <1>1, <2>1, <4>1, <4>2 DEF B!OutLast
      <4>4. \A w \in Thread : ~(my'[w] = my'[u] /\ pc'[w] \in B!Other \cup B!Last \cup {"leave"})
        BY Zenon, <1>1, <2>1, <4>1, <4>2 DEF B!Inside, B!Other, B!Last
      <4> QED BY Zenon, <1>1, <4>1, <4>3, <4>4 DEF B!Inside, B!OutLast
    <3>4. /\ my'[t] = t /\ pc'[t] \in B!First /\ binst' = t
          /\ pc'[t] \notin B!Other \cup B!Last \cup {"declast", "leave", "lastout", "serial"}
      BY ZenonT(90), <2>1, <3>1 DEF B!Other, B!Last
    <3> QED BY Zenon, <3>2, <3>3, <3>4 DEF B!Following
  <2>7. B!InstanceExact'
    <3>1. ASSUME NEW o \in Thread, o # t, pc'[o] \in B!First
          PROVE  /\ inst'[o].count = Cardinality(B!Inside(o)')
                 /\ inst'[o].finished =
                      (IF pc'[o] \in {"test1", "sleep1", "serial"} THEN 1 ELSE 0) +
                      (IF binst' # o /\ B!Inside(o)' = {} /\ B!OutLast(o)' = {} THEN 1 ELSE 0)
                 /\ inst'[o].last = 1 => binst' # o
                 /\ binst' # o /\ Cardinality(members'[o]) = limit' + 1
      BY SMTT(90), <1>0, <1>1, <1>3, <1>4, <2>1, <2>2, <2>4, <3>1, BarSize DEF B!InstanceExact
    <3>2. /\ inst'[t].count = Cardinality(B!Inside(t)') /\ inst'[t].last = 0
          /\ inst'[t].finished = 0 /\ inst'[t].count < limit /\ members'[t] = {t} \cup B!Inside(t)'
      BY SMTT(90), <1>0, <1>2, <2>2, <2>3, <2>5, NoSize
    <3> QED
      BY SMTT(90), <1>0, <2>1, <3>1, <3>2, BarSize DEF B!InstanceExact
  <2> QED BY Zenon, <2>6, <2>7
<1>5. CASE binst # NoThread
  <2>o. PICK o \in Thread : o = binst
    BY Zenon, <1>0, <1>5 DEF B!TypeOK
  <2>0. /\ o = binst /\ pc[o] \in B!First /\ o # t /\ my[o] = o
        /\ inst[o].count = Cardinality(B!Inside(o)) /\ inst[o].count < limit
        /\ inst[o].last # 1
        /\ inst[o].finished = IF pc[o] \in {"test1", "sleep1", "serial"} THEN 1 ELSE 0
        /\ members[o] = {o} \cup B!Inside(o)
        /\ inst[o].finished \in Int
    <3>1. o = binst /\ pc[o] \in B!First /\ o # t /\ my[o] = o
      BY Zenon, <1>0, <1>5, <2>o DEF B!TypeOK, B!Following, B!First
    <3>2. inst[o].finished \in Int
      BY Zenon, <1>0, <3>1, BarFields DEF B!TypeOK
    <3> QED BY SMTT(90), <1>0, <3>1, <3>2, BarSize DEF B!InstanceExact
  <2>1. /\ my'[t] = o /\ inst' = [inst EXCEPT ![o] = B!Counting(@, 1)]
        /\ members' = [members EXCEPT ![o] = @ \cup {t}]
        /\ \/ inst[o].count + 1 = limit /\ binst' = NoThread /\ pc'[t] = "unlock3"
           \/ inst[o].count + 1 # limit /\ binst' = o /\ pc'[t] = "unlock2"
    BY Zenon, <1>0, <1>5, <2>o DEF B!Enter, B!Goto, B!TypeOK
  <2>2. /\ inst'[o].count = inst[o].count + 1 /\ inst'[o].last = inst[o].last
        /\ inst'[o].finished = inst[o].finished /\ members'[o] = members[o] \cup {t}
        /\ \A p \in Thread : p # o => inst'[p] = inst[p] /\ members'[p] = members[p]
    BY ZenonT(90), <1>0, <2>0, <2>1 DEF B!TypeOK, B!Counting, B!Value
  <2>3. /\ \A p \in Thread : p # o => B!Inside(p)' = B!Inside(p)
        /\ B!Inside(o)' = B!Inside(o) \cup {t} /\ t \notin B!Inside(o) /\ o \notin B!Inside(o)
    <3>1. "unlock2" \in B!Other /\ "unlock3" \in B!Last
          /\ "enter" \notin B!Other \cup B!Last \cup {"leave"}
      BY Zenon DEF B!Other, B!Last
    <3>2. pc[o] \notin B!Other \cup B!Last \cup {"leave"}
      BY Zenon, <2>0 DEF B!First, B!Other, B!Last
    <3> QED BY SMTT(90), <1>0, <1>1, <2>0, <2>1, <3>1, <3>2 DEF B!Inside
  <2>4. /\ Cardinality(B!Inside(o)') = Cardinality(B!Inside(o)) + 1
        /\ Cardinality(members[o]) = Cardinality(B!Inside(o)) + 1
        /\ Cardinality(members'[o]) = Cardinality(members[o]) + 1
        /\ Cardinality(B!Inside(o)) \in Nat
    <3>1. /\ B!Inside(o) \in SUBSET Thread /\ members[o] \in SUBSET Thread
          /\ B!Inside(o) \cup {t} \in SUBSET Thread /\ members[o] \cup {t} \in SUBSET Thread
      BY Zenon, <1>0, <2>0 DEF B!Inside
    <3>2. t \notin members[o]
      BY Zenon, <2>0, <2>3
    <3>3. Cardinality(B!Inside(o) \cup {t}) = Cardinality(B!Inside(o)) + 1
      BY SMTT(90), <1>0, <2>3, <3>1, OneDiffers
    <3>4. Cardinality(members[o] \cup {t}) = Cardinality(members[o]) + 1
      BY SMTT(90), <1>0, <3>1, <3>2, OneDiffers
    <3>5. /\ Cardinality(members[o]) = Cardinality(B!Inside(o)) + 1
          /\ Cardinality(B!Inside(o)) \in Nat
      BY SMTT(90), <1>0, <2>0, <2>3, <3>1, OneDiffers
    <3> QED BY Zenon, <2>2, <2>3, <3>3, <3>4, <3>5
  <2>5. B!Following'
    <3>1. \A p \in Thread : pc'[p] \in B!First <=> pc[p] \in B!First
      BY ZenonT(90), <1>0, <1>1, <2>1 DEF B!First
    <3>2. ASSUME NEW u \in Thread, u # t
          PROVE  /\ pc'[u] \in B!First => my'[u] = u
                 /\ pc'[u] \in B!Other \cup B!Last \cup {"leave", "lastout"} =>
                      my'[u] \in Thread /\ my'[u] # u /\ u \in members'[my'[u]]
                      /\ pc'[my'[u]] \in B!First
                 /\ pc'[u] \in B!Last \cup {"declast", "leave", "lastout"} =>
                      binst' # my'[u] /\ binst # my[u]
                 /\ pc'[u] = "serial" => inst'[u].finished = 2
      <4>1. pc[u] \in B!Last \cup {"declast", "leave", "lastout"} => my[u] \in Thread
        BY Zenon, <1>0 DEF B!Following, B!Other
      <4> QED
        BY SMTT(90), <1>0, <1>1, <2>0, <2>1, <2>2, <3>1, <3>2, <4>1 DEF B!Following
    <3>3. ASSUME NEW u \in Thread, pc'[u] = "lastout"
          PROVE  B!Inside(my[u])' = {} /\ (\A w \in B!OutLast(my[u])' : w = u) /\ my'[u] = my[u]
      <4>1. u # t /\ my[u] \in Thread /\ pc[u] = "lastout" /\ my[u] # o
        BY ZenonT(90), <1>0, <1>1, <2>0, <2>1, <3>3 DEF B!Following
      <4>2. B!Inside(my[u]) = {} /\ \A w \in B!OutLast(my[u]) : w = u
        BY Zenon, <1>0, <4>1 DEF B!Following
      <4>3. \A w \in Thread : my'[w] = my'[u] /\ pc'[w] = "lastout" => w = u
        BY Zenon, <1>1, <2>1, <4>1, <4>2 DEF B!OutLast
      <4>4. \A w \in Thread : ~(my'[w] = my'[u] /\ pc'[w] \in B!Other \cup B!Last \cup {"leave"})
        BY Zenon, <1>1, <2>1, <4>1, <4>2 DEF B!Inside
      <4> QED BY Zenon, <1>1, <4>1, <4>3, <4>4 DEF B!Inside, B!OutLast
    <3>4. /\ pc'[t] \notin B!First \cup {"declast", "leave", "lastout", "serial"}
          /\ my'[t] \in Thread /\ my'[t] # t /\ t \in members'[my'[t]] /\ pc'[my'[t]] \in B!First
          /\ pc'[t] \in B!Last => binst' # my'[t]
      <4>1. "unlock2" \notin B!Last \cup B!First /\ "unlock3" \notin B!First
        BY Zenon DEF B!Last, B!First
      <4> QED BY SMTT(90), <1>0, <2>0, <2>1, <2>2, <3>1, <4>1
    <3>5. binst' # NoThread => pc'[binst'] \in B!First
      BY Zenon, <2>0, <2>1, <3>1
    <3> QED BY Zenon, <3>2, <3>3, <3>4, <3>5 DEF B!Following
  <2>6. B!InstanceExact'
    <3>1. ASSUME NEW p \in Thread, p # o, pc'[p] \in B!First
          PROVE  /\ inst'[p].count = Cardinality(B!Inside(p)')
                 /\ inst'[p].finished =
                      (IF pc'[p] \in {"test1", "sleep1", "serial"} THEN 1 ELSE 0) +
                      (IF binst' # p /\ B!Inside(p)' = {} /\ B!OutLast(p)' = {} THEN 1 ELSE 0)
                 /\ binst' # p /\ Cardinality(members'[p]) = limit' + 1
      <4>1. p # t /\ pc'[p] = pc[p] /\ binst' # p
        BY ZenonT(90), <1>0, <1>1, <2>0, <2>1, <3>1 DEF B!First
      <4> QED
        BY SMTT(90), <1>0, <1>3, <2>0, <2>2, <2>3, <3>1, <4>1, BarSize DEF B!InstanceExact
    <3>2. /\ inst'[o].count = Cardinality(B!Inside(o)') /\ inst'[o].last # 1
          /\ inst'[o].finished = IF pc'[o] \in {"test1", "sleep1", "serial"} THEN 1 ELSE 0
          /\ B!Inside(o)' # {} /\ members'[o] = {o} \cup B!Inside(o)'
          /\ binst' = o => inst'[o].count < limit'
          /\ binst' # o => Cardinality(members'[o]) = limit' + 1
      BY SMTT(90), <1>0, <1>1, <2>0, <2>1, <2>2, <2>3, <2>4
    <3>3. inst'[o].finished =
            (IF pc'[o] \in {"test1", "sleep1", "serial"} THEN 1 ELSE 0) +
            (IF binst' # o /\ B!Inside(o)' = {} /\ B!OutLast(o)' = {} THEN 1 ELSE 0)
      BY SMTT(90), <3>2
    <3>4. inst'[o].count = Cardinality(B!Inside(o)') /\ inst'[o].last # 1
      BY Zenon, <3>2
    <3>5. IF binst' = o THEN members'[o] = {o} \cup B!Inside(o)' /\ inst'[o].count < limit'
          ELSE Cardinality(members'[o]) = limit' + 1
      BY Zenon, <3>2
    <3> QED
      BY Zenon, <3>1, <3>3, <3>4, <3>5, BarSize DEF B!InstanceExact
  <2> QED BY Zenon, <2>5, <2>6
<1> QED BY Zenon, <1>4, <1>5

\* The first thread is ready to return.
LEMMA BarFinish ==
    ASSUME BarrierConstants, B!IInv, NEW t \in Thread, B!Finish(t)
    PROVE  B!Following' /\ B!InstanceExact'
<1>0. B!TypeOK /\ B!Following /\ B!InstanceExact
  BY Zenon DEF B!IInv
<1>1. /\ pc[t] = "finish" /\ pc' = [pc EXCEPT ![t] = "test1"]
      /\ inst' = [inst EXCEPT ![t] = B!Finishing(@)] /\ UNCHANGED <<limit, binst, my, members>>
  BY Zenon DEF B!Finish, B!Goto
<1>2. /\ inst'[t].count = inst[t].count /\ inst'[t].last = inst[t].last
      /\ inst'[t].finished = inst[t].finished + 1
      /\ \A o \in Thread : o # t => inst'[o] = inst[o] /\ pc'[o] = pc[o]
      /\ pc'[t] = "test1"
  BY Zenon, <1>0, <1>1 DEF B!TypeOK, B!Finishing, B!Value
<1>3. /\ B!Following'
      /\ \A o \in Thread : B!Inside(o)' = B!Inside(o) /\ B!OutLast(o)' = B!OutLast(o)
  <2>1. \A u \in Thread : pc'[u] = "serial" => inst'[u].finished = 2
    BY ZenonT(90), <1>0, <1>1, <1>2 DEF B!Following
  <2>2. \A u \in Thread :
             /\ pc'[u] \in B!First <=> pc[u] \in B!First
             /\ pc'[u] \in B!Other \cup B!Last \cup {"declast", "leave", "lastout"} => pc'[u] = pc[u]
             /\ pc[u] \in B!Other \cup B!Last \cup {"leave", "lastout"} => pc'[u] = pc[u]
    BY Zenon, <1>1, <1>2 DEF B!First, B!Other, B!Last
  <2>3. \A u \in Thread :
             /\ pc'[u] \in B!Other \cup B!Last \cup {"leave"}
                  <=> pc[u] \in B!Other \cup B!Last \cup {"leave"}
             /\ pc'[u] = "lastout" <=> pc[u] = "lastout"
             /\ pc'[u] \in B!Last \cup {"declast", "leave"} => pc[u] \in B!Last \cup {"declast", "leave"}
    BY Zenon, <2>2
  <2> QED BY Zenon, <1>0, <1>1, <2>1, <2>2, <2>3, BarStays
<1>4. ASSUME NEW o \in Thread, pc'[o] \in B!First
      PROVE  /\ inst'[o].count = Cardinality(B!Inside(o)')
             /\ inst'[o].finished =
                  (IF pc'[o] \in {"test1", "sleep1", "serial"} THEN 1 ELSE 0) +
                  (IF binst' # o /\ B!Inside(o)' = {} /\ B!OutLast(o)' = {} THEN 1 ELSE 0)
             /\ inst'[o].last = 1 => binst' # o
             /\ IF binst' = o
                THEN members'[o] = {o} \cup B!Inside(o)' /\ inst'[o].count < limit'
                ELSE Cardinality(members'[o]) = limit' + 1
  <2>1. pc[o] \in B!First
    BY Zenon, <1>1, <1>2, <1>4 DEF B!First
  <2> QED BY SMTT(90), <1>0, <1>1, <1>2, <1>3, <2>1, BarSize DEF B!InstanceExact
<1> QED BY Zenon, <1>3, <1>4, BarSize DEF B!InstanceExact

\* A thread leaves the instance; the one that takes its count to zero has more to do.
LEMMA BarLeave ==
    ASSUME BarrierConstants, B!IInv, NEW t \in Thread, B!Leave(t)
    PROVE  B!Following' /\ B!InstanceExact'
<1>0. B!TypeOK /\ B!Following /\ B!InstanceExact /\ SizesOf(Thread) /\ NoThread \notin Thread
  BY Zenon DEF B!IInv, BarrierConstants
<1>o. PICK o \in Thread : o = my[t]
  BY Zenon, <1>0 DEF B!Leave, B!Following
<1>1. /\ o = my[t] /\ o # t /\ pc[o] \in B!First /\ binst # o /\ pc[t] = "leave"
      /\ UNCHANGED <<limit, binst, members>>
  BY Zenon, <1>0, <1>o DEF B!Leave, B!Following
<1>2. /\ inst'[o].count = inst[o].count - 1 /\ inst'[o].last = inst[o].last
      /\ inst'[o].finished = inst[o].finished
      /\ \A p \in Thread : p # o => inst'[p] = inst[p]
  BY Zenon, <1>0, <1>1 DEF B!Leave, B!TypeOK, B!Counting, B!Value
<1>3. /\ \A u \in Thread : u # t => pc'[u] = pc[u] /\ my'[u] = my[u]
      /\ \/ inst[o].count = 1 /\ pc'[t] = "lastout" /\ my'[t] = o
         \/ inst[o].count # 1 /\ pc'[t] = "idle"
  BY ZenonT(90), <1>0, <1>1 DEF B!Leave, B!Goto, B!Return, B!TypeOK
<1>4. /\ \A p \in Thread : p # o => B!Inside(p)' = B!Inside(p) /\ B!OutLast(p)' = B!OutLast(p)
      /\ B!Inside(o)' = B!Inside(o) \ {t} /\ t \in B!Inside(o)
      /\ B!OutLast(o) = {} /\ B!OutLast(o)' = IF inst[o].count = 1 THEN {t} ELSE {}
  <2>1. {"idle", "lastout"} \cap (B!Other \cup B!Last \cup {"leave"}) = {}
    BY Zenon DEF B!Other, B!Last
  <2>2. t \in B!Inside(o)
    BY Zenon, <1>1 DEF B!Inside
  <2>3. B!OutLast(o) = {}
    BY Zenon, <1>0, <2>2 DEF B!Following, B!OutLast
  <2>4. \A p \in Thread : p # o => B!Inside(p)' = B!Inside(p)
    BY ZenonT(90), <1>1, <1>3, <2>1 DEF B!Inside
  <2>5. B!Inside(o)' = B!Inside(o) \ {t}
    BY Zenon, <1>1, <1>3, <2>1 DEF B!Inside
  <2>6. \A p \in Thread : p # o => B!OutLast(p)' = B!OutLast(p)
    BY ZenonT(90), <1>1, <1>3 DEF B!OutLast
  <2>7. B!OutLast(o)' = IF inst[o].count = 1 THEN {t} ELSE {}
    BY SMTT(90), <1>1, <1>3, <2>3 DEF B!OutLast
  <2> QED BY Zenon, <2>2, <2>3, <2>4, <2>5, <2>6, <2>7
<1>5. /\ Cardinality(B!Inside(o)') = Cardinality(B!Inside(o)) - 1
      /\ inst[o].count = Cardinality(B!Inside(o)) /\ Cardinality(B!Inside(o)) \in Nat
      /\ B!Inside(o)' = {} <=> inst[o].count = 1
  <2>1. inst[o].count = Cardinality(B!Inside(o))
    BY Zenon, <1>0, <1>1, BarSize DEF B!InstanceExact
  <2>2. B!Inside(o) \in SUBSET Thread /\ B!Inside(o) \ {t} \in SUBSET Thread
    BY Zenon DEF B!Inside
  <2>3. /\ Cardinality(B!Inside(o) \ {t}) = Cardinality(B!Inside(o)) - 1
        /\ Cardinality(B!Inside(o)) \in Nat
    BY SMTT(90), <1>0, <1>4, <2>2, OneDiffers
  <2>4. Cardinality(B!Inside(o) \ {t}) = 0 <=> B!Inside(o) \ {t} = {}
    BY ZenonT(90), <1>0, <2>2, SizeZero
  <2> QED BY SMTT(90), <1>4, <2>1, <2>3, <2>4
<1>6. B!Following'
  <2>1. \A p \in Thread : pc'[p] \in B!First <=> pc[p] \in B!First
    BY ZenonT(90), <1>1, <1>3 DEF B!First
  <2>2. ASSUME NEW u \in Thread, u # t
        PROVE  /\ pc'[u] \in B!First => my'[u] = u
               /\ pc'[u] \in B!Other \cup B!Last \cup {"leave", "lastout"} =>
                    my'[u] \in Thread /\ my'[u] # u /\ u \in members'[my'[u]]
                    /\ pc'[my'[u]] \in B!First
               /\ pc'[u] \in B!Last \cup {"declast", "leave", "lastout"} => binst' # my'[u]
               /\ pc'[u] = "serial" => inst'[u].finished = 2
    BY SMTT(90), <1>0, <1>1, <1>2, <1>3, <2>1, <2>2 DEF B!Following
  <2>3. ASSUME NEW u \in Thread, u # t, pc'[u] = "lastout"
        PROVE  B!Inside(my[u])' = {} /\ (\A w \in B!OutLast(my[u])' : w = u) /\ my'[u] = my[u]
    <3>1. my[u] \in Thread /\ pc[u] = "lastout" /\ my'[u] = my[u]
      BY Zenon, <1>0, <1>3, <2>3 DEF B!Following
    <3>2. B!Inside(my[u]) = {} /\ \A w \in B!OutLast(my[u]) : w = u
      BY Zenon, <1>0, <3>1 DEF B!Following
    <3>3. my[u] # o
      BY Zenon, <1>4, <3>2
    <3>4. \A w \in Thread : my'[w] = my'[u] /\ pc'[w] = "lastout" => w = u
      BY Zenon, <1>3, <3>1, <3>2, <3>3 DEF B!OutLast
    <3>5. \A w \in Thread : ~(my'[w] = my'[u] /\ pc'[w] \in B!Other \cup B!Last \cup {"leave"})
      BY Zenon, <1>3, <3>1, <3>2, <3>3 DEF B!Inside, B!Other, B!Last
    <3> QED BY Zenon, <3>1, <3>4, <3>5 DEF B!Inside, B!OutLast
  <2>4. /\ pc'[t] \notin B!First \cup B!Other \cup B!Last \cup {"declast", "leave", "serial"}
        /\ pc'[t] = "lastout" =>
             /\ my'[t] = o /\ o # t /\ t \in members'[o] /\ pc'[o] \in B!First /\ binst' # o
             /\ B!Inside(o)' = {} /\ \A w \in B!OutLast(o)' : w = t
    <3>1. pc'[t] \notin B!First \cup B!Other \cup B!Last \cup {"declast", "leave", "serial"}
      BY Zenon, <1>3 DEF B!First, B!Other, B!Last
    <3>2. t \in members[o]
      BY Zenon, <1>0, <1>1 DEF B!Following
    <3> QED BY ZenonT(90), <1>1, <1>3, <1>4, <1>5, <2>1, <3>1, <3>2
  <2>5. ASSUME pc'[t] = "lastout"
        PROVE  /\ \A w \in Thread : my'[w] = my'[t] /\ pc'[w] = "lastout" => w = t
               /\ \A w \in Thread : ~(my'[w] = my'[t] /\ pc'[w] \in B!Other \cup B!Last \cup {"leave"})
    BY Zenon, <2>4, <2>5 DEF B!Inside, B!OutLast
  <2>6. binst' # NoThread => pc'[binst'] \in B!First
    BY Zenon, <1>0, <1>1, <2>1 DEF B!Following, B!TypeOK
  <2> QED BY SMTT(90), <2>2, <2>3, <2>4, <2>5, <2>6 DEF B!Following, B!Inside, B!OutLast
<1>7. ASSUME NEW p \in Thread, pc'[p] \in B!First
      PROVE  /\ inst'[p].count = Cardinality(B!Inside(p)')
             /\ inst'[p].finished =
                  (IF pc'[p] \in {"test1", "sleep1", "serial"} THEN 1 ELSE 0) +
                  (IF binst' # p /\ B!Inside(p)' = {} /\ B!OutLast(p)' = {} THEN 1 ELSE 0)
             /\ inst'[p].last = 1 => binst' # p
             /\ IF binst' = p
                THEN members'[p] = {p} \cup B!Inside(p)' /\ inst'[p].count < limit'
                ELSE Cardinality(members'[p]) = limit' + 1
  <2>1. p # t /\ pc[p] = pc'[p] /\ pc[p] \in B!First
    BY Zenon, <1>3, <1>7 DEF B!First
  <2>2. CASE p # o
    BY ZenonT(90), <1>0, <1>1, <1>2, <1>4, <2>1, <2>2, BarSize DEF B!InstanceExact
  <2>3. CASE p = o
    BY Zenon, <1>0, <1>1, <1>2, <1>4, <1>5, <2>1, <2>3, BarSize DEF B!InstanceExact
  <2> QED BY Zenon, <2>2, <2>3
<1> QED BY Zenon, <1>6, <1>7, BarSize DEF B!InstanceExact

\* The last thread to leave says so.
LEMMA BarLastOut ==
    ASSUME BarrierConstants, B!IInv, NEW t \in Thread, B!LastOut(t)
    PROVE  B!Following' /\ B!InstanceExact'
<1>0. B!TypeOK /\ B!Following /\ B!InstanceExact /\ NoThread \notin Thread
  BY Zenon DEF B!IInv, BarrierConstants
<1>o. PICK o \in Thread : o = my[t]
  BY Zenon, <1>0 DEF B!LastOut, B!Following
<1>1. /\ o = my[t] /\ o # t /\ pc[o] \in B!First /\ binst # o /\ pc[t] = "lastout"
      /\ B!Inside(o) = {} /\ t \in B!OutLast(o) /\ (\A w \in B!OutLast(o) : w = t)
      /\ UNCHANGED <<limit, binst, members>>
  BY Zenon, <1>0, <1>o DEF B!LastOut, B!Following, B!OutLast
<1>2. /\ inst'[o].count = inst[o].count /\ inst'[o].last = inst[o].last
      /\ inst'[o].finished = inst[o].finished + 1
      /\ \A p \in Thread : p # o => inst'[p] = inst[p]
  BY Zenon, <1>0, <1>1 DEF B!LastOut, B!TypeOK, B!Finishing, B!Value
<1>3. /\ \A u \in Thread : u # t => pc'[u] = pc[u] /\ my'[u] = my[u]
      /\ pc'[t] \in {"wakefirst", "idle"}
  BY ZenonT(90), <1>0, <1>1 DEF B!LastOut, B!Goto, B!Return, B!TypeOK
<1>4. /\ \A p \in Thread : B!Inside(p)' = B!Inside(p)
      /\ \A p \in Thread : p # o => B!OutLast(p)' = B!OutLast(p)
      /\ B!OutLast(o)' = {}
  <2>1. {"idle", "lastout", "wakefirst"} \cap (B!Other \cup B!Last \cup {"leave"}) = {}
    BY Zenon DEF B!Other, B!Last
  <2>2. \A p \in Thread : B!Inside(p)' = B!Inside(p)
    BY ZenonT(90), <1>1, <1>3, <2>1 DEF B!Inside
  <2>3. \A p \in Thread : p # o => B!OutLast(p)' = B!OutLast(p)
    BY ZenonT(90), <1>1, <1>3 DEF B!OutLast
  <2>4. B!OutLast(o)' = {}
    BY SMTT(90), <1>1, <1>3 DEF B!OutLast
  <2> QED BY Zenon, <2>2, <2>3, <2>4
<1>5. inst[o].finished = IF pc[o] \in {"test1", "sleep1", "serial"} THEN 1 ELSE 0
  BY SMTT(90), <1>0, <1>1 DEF B!InstanceExact
<1>6. B!Following'
  <2>1. \A p \in Thread : pc'[p] \in B!First <=> pc[p] \in B!First
    BY Zenon, <1>1, <1>3 DEF B!First
  <2>2. ASSUME NEW u \in Thread, u # t
        PROVE  /\ pc'[u] \in B!First => my'[u] = u
               /\ pc'[u] \in B!Other \cup B!Last \cup {"leave", "lastout"} =>
                    my'[u] \in Thread /\ my'[u] # u /\ u \in members'[my'[u]]
                    /\ pc'[my'[u]] \in B!First
               /\ pc'[u] \in B!Last \cup {"declast", "leave", "lastout"} => binst' # my'[u]
    BY ZenonT(90), <1>0, <1>1, <1>3, <2>1, <2>2 DEF B!Following
  <2>3. ASSUME NEW u \in Thread, pc'[u] = "serial"
        PROVE  inst'[u].finished = 2
    <3>1. u # t /\ pc[u] = "serial" /\ inst[u].finished = 2
      BY Zenon, <1>0, <1>3, <2>3 DEF B!Following
    <3>2. u # o
      BY SMTT(90), <1>5, <3>1
    <3> QED BY Zenon, <1>2, <3>1, <3>2
  <2>4. ASSUME NEW u \in Thread, pc'[u] = "lastout"
        PROVE  B!Inside(my[u])' = {} /\ (\A w \in B!OutLast(my[u])' : w = u) /\ my'[u] = my[u]
    <3>1. u # t /\ my[u] \in Thread /\ pc[u] = "lastout" /\ my'[u] = my[u]
      BY Zenon, <1>0, <1>3, <2>4 DEF B!Following
    <3>2. B!Inside(my[u]) = {} /\ \A w \in B!OutLast(my[u]) : w = u
      BY Zenon, <1>0, <3>1 DEF B!Following
    <3>3. \A w \in Thread : my'[w] = my'[u] /\ pc'[w] = "lastout" => w = u
      BY Zenon, <1>3, <3>1, <3>2 DEF B!OutLast
    <3>4. \A w \in Thread : ~(my'[w] = my'[u] /\ pc'[w] \in B!Other \cup B!Last \cup {"leave"})
      BY Zenon, <1>3, <3>1, <3>2 DEF B!Inside, B!Other, B!Last
    <3> QED BY Zenon, <3>1, <3>3, <3>4 DEF B!Inside, B!OutLast
  <2>5. pc'[t] \notin B!First \cup B!Other \cup B!Last \cup {"declast", "leave", "lastout", "serial"}
    BY Zenon, <1>3 DEF B!First, B!Other, B!Last
  <2>6. binst' # NoThread => pc'[binst'] \in B!First
    BY Zenon, <1>0, <1>1, <2>1 DEF B!Following, B!TypeOK
  <2> QED BY Zenon, <2>2, <2>3, <2>4, <2>5, <2>6 DEF B!Following
<1>7. ASSUME NEW p \in Thread, pc'[p] \in B!First
      PROVE  /\ inst'[p].count = Cardinality(B!Inside(p)')
             /\ inst'[p].finished =
                  (IF pc'[p] \in {"test1", "sleep1", "serial"} THEN 1 ELSE 0) +
                  (IF binst' # p /\ B!Inside(p)' = {} /\ B!OutLast(p)' = {} THEN 1 ELSE 0)
             /\ inst'[p].last = 1 => binst' # p
             /\ IF binst' = p
                THEN members'[p] = {p} \cup B!Inside(p)' /\ inst'[p].count < limit'
                ELSE Cardinality(members'[p]) = limit' + 1
  <2>1. p # t /\ pc[p] = pc'[p] /\ pc[p] \in B!First
    BY ZenonT(90), <1>3, <1>7 DEF B!First
  <2>2. CASE p # o
    BY ZenonT(90), <1>0, <1>1, <1>2, <1>4, <2>1, <2>2, BarSize DEF B!InstanceExact
  <2>3. CASE p = o
    BY ZenonT(90), <1>0, <1>1, <1>2, <1>4, <1>5, <2>1, <2>3, BarSize DEF B!InstanceExact
  <2> QED BY Zenon, <2>2, <2>3
<1> QED BY Zenon, <1>6, <1>7, BarSize DEF B!InstanceExact

\* The first thread returns, and its instance is gone: nobody is in it any more.
LEMMA BarSerial ==
    ASSUME BarrierConstants, B!IInv, NEW t \in Thread, B!Serial(t)
    PROVE  B!Following' /\ B!InstanceExact'
<1>0. B!TypeOK /\ B!Following /\ B!InstanceExact /\ NoThread \notin Thread
  BY Zenon DEF B!IInv, BarrierConstants
<1>1. /\ pc[t] = "serial" /\ inst[t].finished = 2 /\ pc[t] \in B!First
      /\ UNCHANGED <<limit, binst>>
  BY Zenon, <1>0 DEF B!Serial, B!Return, B!Goto, B!Following, B!First
<1>2. binst # t /\ B!Inside(t) = {} /\ B!OutLast(t) = {}
  BY SMTT(90), <1>0, <1>1 DEF B!InstanceExact
<1>3. /\ \A u \in Thread : u # t => /\ pc'[u] = pc[u] /\ my'[u] = my[u]
                                    /\ inst'[u] = inst[u] /\ members'[u] = members[u]
      /\ pc'[t] = "idle"
  BY ZenonT(90), <1>0 DEF B!Serial, B!Return, B!Goto, B!TypeOK
<1>4. \A p \in Thread : B!Inside(p)' = B!Inside(p) /\ B!OutLast(p)' = B!OutLast(p)
  <2>1. {"idle", "serial"} \cap (B!Other \cup B!Last \cup {"leave"}) = {}
    BY Zenon DEF B!Other, B!Last
  <2> QED BY SMTT(90), <1>1, <1>3, <2>1 DEF B!Inside, B!OutLast
<1>5. B!Following'
  <2>1. \A p \in Thread : p # t => (pc'[p] \in B!First <=> pc[p] \in B!First)
    BY ZenonT(90), <1>3
  <2>2. ASSUME NEW u \in Thread, u # t
        PROVE  /\ pc'[u] \in B!First => my'[u] = u
               /\ pc'[u] \in B!Other \cup B!Last \cup {"leave", "lastout"} =>
                    my'[u] \in Thread /\ my'[u] # u /\ u \in members'[my'[u]]
                    /\ pc'[my'[u]] \in B!First
               /\ pc'[u] \in B!Last \cup {"declast", "leave", "lastout"} => binst' # my'[u]
               /\ pc'[u] = "serial" => inst'[u].finished = 2
    <3>1. pc[u] \in B!Other \cup B!Last \cup {"leave", "lastout"} => my[u] # t
      BY Zenon, <1>2 DEF B!Inside, B!OutLast
    <3> QED BY SMTT(90), <1>0, <1>1, <1>3, <2>1, <2>2, <3>1 DEF B!Following
  <2>3. ASSUME NEW u \in Thread, pc'[u] = "lastout"
        PROVE  B!Inside(my[u])' = {} /\ (\A w \in B!OutLast(my[u])' : w = u) /\ my'[u] = my[u]
    <3>1. u # t /\ my[u] \in Thread /\ pc[u] = "lastout" /\ my'[u] = my[u]
      BY Zenon, <1>0, <1>3, <2>3 DEF B!Following
    <3>2. B!Inside(my[u]) = {} /\ \A w \in B!OutLast(my[u]) : w = u
      BY Zenon, <1>0, <3>1 DEF B!Following
    <3>3. \A w \in Thread : my'[w] = my'[u] /\ pc'[w] = "lastout" => w = u
      BY Zenon, <1>3, <3>1, <3>2 DEF B!OutLast
    <3>4. \A w \in Thread : ~(my'[w] = my'[u] /\ pc'[w] \in B!Other \cup B!Last \cup {"leave"})
      BY Zenon, <1>3, <3>1, <3>2 DEF B!Inside, B!Other, B!Last
    <3> QED BY Zenon, <3>1, <3>3, <3>4 DEF B!Inside, B!OutLast
  <2>4. pc'[t] \notin B!First \cup B!Other \cup B!Last \cup {"declast", "leave", "lastout", "serial"}
    BY Zenon, <1>3 DEF B!First, B!Other, B!Last
  <2>5. binst' # NoThread => pc'[binst'] \in B!First
    BY ZenonT(90), <1>0, <1>1, <1>2, <2>1 DEF B!Following, B!TypeOK
  <2> QED BY Zenon, <2>2, <2>3, <2>4, <2>5 DEF B!Following
<1>6. ASSUME NEW p \in Thread, pc'[p] \in B!First
      PROVE  /\ inst'[p].count = Cardinality(B!Inside(p)')
             /\ inst'[p].finished =
                  (IF pc'[p] \in {"test1", "sleep1", "serial"} THEN 1 ELSE 0) +
                  (IF binst' # p /\ B!Inside(p)' = {} /\ B!OutLast(p)' = {} THEN 1 ELSE 0)
             /\ inst'[p].last = 1 => binst' # p
             /\ IF binst' = p
                THEN members'[p] = {p} \cup B!Inside(p)' /\ inst'[p].count < limit'
                ELSE Cardinality(members'[p]) = limit' + 1
  <2>1. p # t /\ pc[p] = pc'[p] /\ pc[p] \in B!First
    BY Zenon, <1>3, <1>6 DEF B!First
  <2> QED BY SMTT(90), <1>0, <1>1, <1>3, <1>4, <2>1, BarSize DEF B!InstanceExact
<1> QED BY Zenon, <1>5, <1>6, BarSize DEF B!InstanceExact

\* All steps of a round.
LEMMA BarRound ==
    ASSUME BarrierConstants, B!IInv, B!Next
    PROVE  B!Following' /\ B!InstanceExact'
<1> SUFFICES ASSUME NEW t \in Thread, B!Call(t) \/ B!Step(t) \/ B!Interrupt(t)
             PROVE  B!Following' /\ B!InstanceExact'
  BY Zenon DEF B!Next
<1>0. B!TypeOK /\ B!Following /\ B!InstanceExact /\ NoThread \notin Thread
  BY Zenon DEF B!IInv, BarrierConstants
<1>q. ASSUME UNCHANGED <<limit, binst, members>>,
             \A u \in Thread :
               /\ pc'[u] \in B!First <=> pc[u] \in B!First
               /\ pc'[u] \in B!Other \cup B!Last \cup {"leave"}
                    <=> pc[u] \in B!Other \cup B!Last \cup {"leave"}
               /\ pc'[u] = "lastout" <=> pc[u] = "lastout"
               /\ pc'[u] \in {"test1", "sleep1", "serial"} <=> pc[u] \in {"test1", "sleep1", "serial"}
               /\ pc'[u] \in B!First \cup B!Other \cup B!Last \cup {"leave", "lastout"}
                    => my'[u] = my[u]
               /\ pc'[u] \in B!Last \cup {"declast", "leave"} =>
                    pc[u] \in B!Last \cup {"declast", "leave"} \/ binst # my[u]
               /\ pc'[u] = "serial" => inst'[u].finished = 2
               /\ pc[u] \in B!First =>
                    /\ inst'[u].count = inst[u].count /\ inst'[u].finished = inst[u].finished
                    /\ inst'[u].last = 1 => inst[u].last = 1 \/ binst # u
      PROVE  B!Following' /\ B!InstanceExact'
  <2>1. /\ B!Following'
        /\ \A o \in Thread : B!Inside(o)' = B!Inside(o) /\ B!OutLast(o)' = B!OutLast(o)
    BY Zenon, <1>0, <1>q, BarStays
  <2>2. B!InstanceExact'
    BY Zenon, <1>0, <1>q, <2>1, BarQuiet
  <2> QED BY Zenon, <2>1, <2>2
<1>s. \A u \in Thread : pc[u] = "serial" => inst[u].finished = 2
  BY Zenon, <1>0 DEF B!Following
<1>m. pc[t] \in B!Other \cup B!Last \cup {"leave", "lastout"} => my[t] \in Thread /\ pc[my[t]] \in B!First
  BY Zenon, <1>0 DEF B!Following
<1> USE DEF B!TypeOK, B!Goto, B!First, B!Other, B!Last
<1>1. CASE B!Call(t) \/ B!Swap(t)
  BY SMTT(90), <1>0, <1>1, <1>q, <1>s DEF B!Call, B!Swap
<1>2. CASE B!AwaitLock(t)
  BY SMTT(90), <1>0, <1>2, <1>q, <1>s DEF B!AwaitLock
<1>3. CASE B!Unlock(t)
  BY ZenonT(90), <1>0, <1>3, <1>q, <1>s DEF B!Unlock
<1>4. CASE B!Kick(t)
  BY SMTT(90), <1>0, <1>4, <1>q, <1>s DEF B!Kick, B!WakeOne, B!LockSleepers
<1>5. CASE B!Interrupt(t)
  BY SMTT(90), <1>0, <1>5, <1>q, <1>s DEF B!Interrupt
<1>6. CASE B!AwaitFinished(t)
  <2>1. inst[t].finished \in {1, 2}
    <3>1. pc[t] = "test1" /\ pc[t] \in B!First
      BY ZenonT(90), <1>6 DEF B!AwaitFinished
    <3> QED BY SMTT(90), <1>0, <3>1 DEF B!InstanceExact
  <2> QED
    BY Zenon, <1>0, <1>6, <1>q, <1>s, <2>1 DEF B!AwaitFinished
<1>7. CASE B!AwaitLast(t)
  <2>1. \A o \in Thread : inst'[o].count = inst[o].count /\ inst'[o].finished = inst[o].finished
                          /\ inst'[o].last = inst[o].last
    BY SMTT(90), <1>0, <1>7, <1>m DEF B!AwaitLast, B!Waiting, B!Value
  <2>2. /\ UNCHANGED <<limit, binst, my, members>>
        /\ \A u \in Thread : u # t => pc'[u] = pc[u]
        /\ pc[t] \in B!Other
        /\ \/ pc'[t] \in {"inclast", "testlast", "sleeplast"}
           \/ pc'[t] \in {"leave", "declast"} /\ (inst[my[t]].last # 0 \/ pc[t] = "declast")
    BY SMTT(90), <1>0, <1>7 DEF B!AwaitLast
  <2>3. inst[my[t]].last # 0 => binst # my[t]
    <3>1. my[t] \in Thread /\ pc[my[t]] \in B!First
      BY Zenon, <1>m, <2>2
    <3>2. inst[my[t]].last \in {0, 1}
      BY Zenon, <1>0, <3>1, BarFields
    <3> QED BY Zenon, <1>0, <3>1, <3>2 DEF B!InstanceExact
  <2>4. pc[t] = "declast" => binst # my[t]
    BY Zenon, <1>0 DEF B!Following
  <2>5. ASSUME NEW u \in Thread
        PROVE  /\ pc'[u] \in B!First <=> pc[u] \in B!First
               /\ pc'[u] \in B!Other \cup B!Last \cup {"leave"}
                    <=> pc[u] \in B!Other \cup B!Last \cup {"leave"}
               /\ pc'[u] = "lastout" <=> pc[u] = "lastout"
               /\ pc'[u] \in {"test1", "sleep1", "serial"} <=> pc[u] \in {"test1", "sleep1", "serial"}
               /\ pc'[u] \in B!Last \cup {"declast", "leave"} =>
                    pc[u] \in B!Last \cup {"declast", "leave"} \/ binst # my[u]
    <3>1. CASE u = t
      BY ZenonT(90), <2>2, <2>3, <2>4, <3>1
    <3>2. CASE u # t
      BY Zenon, <2>2, <3>2
    <3> QED BY Zenon, <3>1, <3>2
  <2> HIDE DEF B!First, B!Other, B!Last
  <2> QED
    BY ZenonT(90), <1>0, <1>q, <1>s, <2>1, <2>2, <2>5
<1>8. CASE B!SetLast(t)
  <2>1. pc[t] = "setlast" /\ pc' = [pc EXCEPT ![t] = "wakelast"] /\ UNCHANGED <<limit, binst, my, members>>
    BY Zenon, <1>8 DEF B!SetLast
  <2>2. binst # my[t]
    BY Zenon, <1>0, <2>1 DEF B!Following
  <2>3. \A o \in Thread : /\ inst'[o].count = inst[o].count /\ inst'[o].finished = inst[o].finished
                          /\ inst'[o].last = inst[o].last \/ o = my[t]
    BY Zenon, <1>0, <1>8, <1>m, <2>1 DEF B!SetLast, B!Value
  <2> QED
    BY ZenonT(90), <1>0, <1>q, <1>s, <2>1, <2>2, <2>3
<1>9. CASE B!WakeLast(t)
  <2>1. binst # my[t]
    BY ZenonT(90), <1>0, <1>9 DEF B!Following, B!WakeLast
  <2> QED
    BY SMTT(90), <1>0, <1>9, <1>q, <1>s, <2>1 DEF B!WakeLast, B!WakeAll
<1>10. CASE B!WakeFirst(t)
  BY SMTT(90), <1>0, <1>10, <1>q, <1>s DEF B!WakeFirst, B!WakeOne
<1>11. CASE B!Enter(t) \/ B!Finish(t) \/ B!Leave(t) \/ B!LastOut(t) \/ B!Serial(t)
  BY Zenon, <1>11, BarEnter, BarFinish, BarLeave, BarLastOut, BarSerial
<1> QED
  BY Zenon, <1>1, <1>2, <1>3, <1>4, <1>5, <1>6, <1>7, <1>8, <1>9, <1>10, <1>11 DEF B!Step

LEMMA BarStep ==
    ASSUME BarrierConstants, B!IInv, B!Next
    PROVE  B!IInv'
BY Zenon, BarTypes, BarWaiters, BarRound DEF B!IInv

LEMMA BarSafe ==
    ASSUME BarrierConstants, B!IInv
    PROVE  B!TypeOK /\ B!RoundComplete /\ B!NoDanglingInstance /\ B!NoLostWakeup
<1>0. B!TypeOK /\ B!Following /\ B!InstanceExact /\ B!NoLostWakeup
  BY Zenon DEF B!IInv
<1>1. ASSUME NEW t \in Thread, pc[t] \in {"leave", "lastout"}
      PROVE  B!Cardinality(members[my[t]]) = limit + 1
  BY ZenonT(90), <1>0, <1>1 DEF B!Following, B!InstanceExact
<1>2. ASSUME NEW t \in Thread, pc[t] = "serial"
      PROVE  B!Cardinality(members[t]) = limit + 1
  <2>1. pc[t] \in B!First /\ inst[t].finished = 2
    BY Zenon, <1>0, <1>2 DEF B!Following, B!First
  <2> QED BY SMTT(90), <1>0, <2>1 DEF B!InstanceExact
<1>3. ASSUME NEW t \in Thread, pc[t] \in B!Other \cup B!Last \cup {"leave", "lastout"}
      PROVE  /\ my[t] # t /\ t \in members[my[t]]
             /\ pc[my[t]] \in B!First \ {"serial"}
  <2>1. my[t] \in Thread /\ my[t] # t /\ t \in members[my[t]] /\ pc[my[t]] \in B!First
    BY Zenon, <1>0, <1>3 DEF B!Following
  <2>2. B!Inside(my[t]) # {} \/ B!OutLast(my[t]) # {}
    BY Zenon, <1>3 DEF B!Inside, B!OutLast
  <2>3. pc[my[t]] = "serial" => inst[my[t]].finished = 2
    BY Zenon, <1>0, <2>1 DEF B!Following
  <2>4. pc[my[t]] # "serial"
    BY SMTT(90), <1>0, <2>1, <2>2, <2>3 DEF B!InstanceExact
  <2> QED BY Zenon, <2>1, <2>4
<1> QED
  BY Zenon, <1>0, <1>1, <1>2, <1>3 DEF B!RoundComplete, B!NoDanglingInstance

\* The invariant is about the variables of the component alone.
LEMMA BarSame ==
    ASSUME B!IInv, UNCHANGED B!vars
    PROVE  B!IInv'
<1> USE DEF B!IInv, B!vars
<1>1. B!TypeOK'
  BY Zenon DEF B!TypeOK
<1>2. B!WaitersExact'
  BY Zenon DEF B!WaitersExact, B!LockWaiters
<1>3. B!Following'
  BY ZenonT(90) DEF B!Following, B!Inside, B!OutLast
<1>4. B!InstanceExact'
  BY ZenonT(90) DEF B!InstanceExact, B!Inside, B!OutLast
<1>5. B!NoLostWakeup'
  BY Zenon DEF B!NoLostWakeup, B!LockSleepers
<1> QED BY Zenon, <1>1, <1>2, <1>3, <1>4, <1>5
=============================================================================
