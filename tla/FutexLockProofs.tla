-------------------------- MODULE FutexLockProofs --------------------------
(***************************************************************************)
(* Proofs about the internal lock, for any finite set of threads, any      *)
(* number of spins and any INT_MIN too small for the threads to count up   *)
(* to zero from it.                                                        *)
(***************************************************************************)
EXTENDS FutexLock, FiniteSetTheorems, TLAPS

\* A thread that is not on the thread list executes nothing.
OutsideIdle == \A t \in Thread : t \notin live => pc[t] = "idle"

\* Only the last thread can see need_locks negative.
FlagOwner ==
    \A t \in Thread : pc[t] \in {"first", "flag"} /\ nl[t] < 0 => live = {t}

\* A thread inside by elision is alone for as long as it stays inside.
ElidedAlone == \A t \in Thread : pc[t] = "inside" /\ nl[t] = 0 => live = {t}

\* Every other place of __lock and __unlock is reached with the lock needed.
NotElided ==
    \A t \in Thread : pc[t] \notin {"idle", "inside", "wake"} => nl[t] # 0

OneHolder == \A t, u \in Holders : t = u

WordExact ==
    word = (IF Holders = {} THEN 0 ELSE Locked(1)) + Cardinality(Waiting)

\* futexwait is only called with the value of a locked word, and the final
\* CAS is only tried with the value of a free one.
WaitsOnLocked ==
    \A t \in Thread : /\ pc[t] \in {"wait", "asleep"} => current[t] < 0
                      /\ pc[t] = "cas" => current[t] >= 0

\* A negative value of current was read from a locked word.
RangeOK == \A t \in Thread : current[t] < 0 => current[t] >= Locked(1)

\* The inductive invariant.
IInv ==
    /\ TypeOK
    /\ OutsideIdle
    /\ live # {}
    /\ ElisionSound
    /\ FlagOwner
    /\ ElidedAlone
    /\ NotElided
    /\ OneHolder
    /\ WordExact
    /\ WaitsOnLocked
    /\ RangeOK
    /\ NoLostWakeup

-----------------------------------------------------------------------------
\* INT_MIN is so far below zero that the threads, all counted, leave it negative.
LEMMA IntMinAssumption == IntMin \in Int /\ IntMin + Cardinality(Thread) < 0
BY SMTT(90), HalfAssumption, ThreadAssumption, FS_CardinalityType DEF IntMin

-----------------------------------------------------------------------------
\* The counted threads are finitely many, and a thread that is not counted
\* leaves room for one more.
LEMMA WaitingBound ==
    /\ IsFiniteSet(Waiting)
    /\ Cardinality(Waiting) \in Nat
    /\ Cardinality(Waiting) = 0 <=> Waiting = {}
    /\ Cardinality(Waiting) <= Cardinality(Thread)
    /\ Cardinality(Thread) \in Nat
    /\ \A h \in Thread \ Waiting : Cardinality(Waiting) + 1 <=
       Cardinality(Thread)
<1>1. Waiting \in SUBSET Thread
  BY Zenon DEF Waiting
<1>2. IsFiniteSet(Waiting) /\ Cardinality(Waiting) <= Cardinality(Thread)
  BY Zenon, <1>1, FS_Subset, ThreadAssumption
<1>3. Cardinality(Waiting) \in Nat /\ Cardinality(Thread) \in Nat
  BY Zenon, <1>2, FS_CardinalityType, ThreadAssumption
<1>4. Cardinality(Waiting) = 0 <=> Waiting = {}
  BY Zenon, <1>2, FS_EmptySet
<1>5. ASSUME NEW h \in Thread \ Waiting
      PROVE  Cardinality(Waiting) + 1 <= Cardinality(Thread)
  <2>1. Waiting \cup {h} \in SUBSET Thread
    BY Zenon, <1>1
  <2>2. Cardinality(Waiting \cup {h}) <= Cardinality(Thread)
    BY Zenon, <2>1, FS_Subset, ThreadAssumption
  <2>3. Cardinality(Waiting \cup {h}) = Cardinality(Waiting) + 1
    BY Zenon, <1>2, FS_AddElement
  <2> QED BY Zenon, <2>2, <2>3
<1> QED BY Zenon, <1>2, <1>3, <1>4, <1>5

\* The sign of the word tells whether somebody holds it.
LEMMA WordSign ==
    ASSUME TypeOK, WordExact
    PROVE  /\ Holders = {} <=> word >= 0
           /\ Holders # {} => word < 0
           /\ word = 0 => Holders = {} /\ Waiting = {}
           /\ word = Locked(1) => Waiting = {}
<1>1. CASE Holders = {}
  BY SMTT(90), <1>1, WaitingBound, IntMinAssumption DEF WordExact, Locked, TypeOK
<1>2. CASE Holders # {}
  <2>1. PICK h : h \in Holders
    BY Zenon, <1>2
  <2>2. h \in Thread \ Waiting
    BY Zenon, <2>1 DEF Holders, Waiting
  <2> QED BY SMTT(90), <1>2, <2>2, WaitingBound, IntMinAssumption DEF WordExact,
     Locked, TypeOK
<1> QED BY Zenon, <1>1, <1>2

-----------------------------------------------------------------------------
\* The invariant holds of the unlocked lock of a process with one thread.
LEMMA InitIInv == Init => IInv
<1> SUFFICES ASSUME Init PROVE IInv
  BY Zenon
<1>1. Holders = {} /\ Waiting = {} /\ Asleep = {}
  BY Zenon DEF Init, Holders, Waiting, Asleep
<1>2. Cardinality(Waiting) = 0
  BY Zenon, <1>1, FS_EmptySet
<1> QED BY SMTT(90), <1>1, <1>2, ThreadAssumption, SpinsAssumption
        DEF Init, IInv, TypeOK, PC, OutsideIdle, ElisionSound, FlagOwner,
            ElidedAlone, NotElided, OneHolder, WordExact, WaitsOnLocked,
            RangeOK, NoLostWakeup

\* Every step of __lock, __unlock, pthread_create and pthread_exit keeps the
\* variables in their types.
LEMMA TypeStep == TypeOK /\ [Next]_vars => TypeOK'
<1> SUFFICES ASSUME TypeOK, [Next]_vars PROVE TypeOK'
  BY Zenon
<1> USE IntMinAssumption, SpinsAssumption DEF TypeOK, PC, Locked, Unlocked,
   Goto
<1>1. ASSUME NEW t \in Thread, Enter(t) PROVE TypeOK'
  BY Zenon, <1>1 DEF Enter
<1>2. ASSUME NEW t \in Thread, FirstCas(t) PROVE TypeOK'
  BY SMTT(90), <1>2 DEF FirstCas
<1>3. ASSUME NEW t \in Thread, ClearFlag(t) PROVE TypeOK'
  BY Zenon, <1>3 DEF ClearFlag
<1>4. ASSUME NEW t \in Thread, SpinCas(t) PROVE TypeOK'
  BY SMTT(90), <1>4 DEF SpinCas
<1>5. ASSUME NEW t \in Thread, CountMe(t) PROVE TypeOK'
  BY SMTT(90), <1>5 DEF CountMe
<1>6. ASSUME NEW t \in Thread, FutexWait(t) PROVE TypeOK'
  BY SMTT(90), <1>6 DEF FutexWait
<1>7. ASSUME NEW t \in Thread, SlowCas(t) PROVE TypeOK'
  BY SMTT(90), <1>7 DEF SlowCas
<1>8. ASSUME NEW t \in Thread, ReadWord(t) PROVE TypeOK'
  BY Zenon, <1>8 DEF ReadWord
<1>9. ASSUME NEW t \in Thread, FetchRelease(t) PROVE TypeOK'
  BY SMTT(90), <1>9 DEF FetchRelease
<1>10. ASSUME NEW t \in Thread, Wake(t) PROVE TypeOK'
  BY SMTT(90), <1>10 DEF Wake, Asleep
<1>11. ASSUME NEW t \in Thread, Interrupt(t) PROVE TypeOK'
  BY SMTT(90), <1>11 DEF Interrupt
<1>12. ASSUME NEW t \in Thread, CreateFails(t) PROVE TypeOK'
  BY Zenon, <1>12 DEF CreateFails
<1>13. ASSUME NEW t \in Thread, Exit(t) PROVE TypeOK'
  BY Zenon, <1>13 DEF Exit
<1>14. ASSUME NEW t \in Thread, NEW u \in Thread, Create(t, u) PROVE TypeOK'
  BY Zenon, <1>14 DEF Create
<1>15. CASE UNCHANGED vars
  BY Zenon, <1>15 DEF vars
<1> QED
  BY Zenon, <1>1, <1>2, <1>3, <1>4, <1>5, <1>6, <1>7, <1>8, <1>9, <1>10, <1>11,
     <1>12, <1>13, <1>14, <1>15
     DEF Next, LockStep, UnlockStep

\* Every step keeps the inductive invariant, one action at a time.
LEMMA SafeStep == IInv /\ [Next]_vars => IInv'
<1> SUFFICES ASSUME IInv, [Next]_vars PROVE IInv'
  BY Zenon
<1>t. TypeOK /\ TypeOK'
  BY Zenon, TypeStep DEF IInv
<1>w. /\ Holders = {} <=> word >= 0
      /\ Holders # {} => word < 0
      /\ word = 0 => Holders = {} /\ Waiting = {}
      /\ word = Locked(1) => Waiting = {}
  BY Zenon, WordSign DEF IInv
<1>1. ASSUME NEW t \in Thread, Enter(t) PROVE IInv'
  <2> USE <1>t, <1>w, <1>1, IntMinAssumption DEF IInv, Enter, Goto, TypeOK
  <2>1. Holders' = Holders
    BY Zenon DEF Holders, NotElided, ElidedAlone, FlagOwner, OutsideIdle
  <2>2. Waiting' = Waiting
    BY Zenon DEF Waiting
  <2>3. (OutsideIdle /\ live # {} /\ ElisionSound /\ NotElided)'
    BY Zenon DEF OutsideIdle, ElisionSound, NotElided
  <2>4. (OneHolder /\ WordExact)'
    BY Zenon, <2>1, <2>2 DEF OneHolder, WordExact
  <2>5. (WaitsOnLocked /\ RangeOK)'
    BY Zenon DEF WaitsOnLocked, RangeOK
  <2>6. NoLostWakeup'
    BY ZenonT(90) DEF NoLostWakeup, Asleep
  <2>7. ElidedAlone'
    BY SMTT(90) DEF ElidedAlone, ElisionSound, OutsideIdle, NotElided
  <2>8. FlagOwner'
    BY SMTT(90) DEF FlagOwner, ElisionSound, OutsideIdle
  <2> QED BY Zenon, <2>3, <2>4, <2>5, <2>6, <2>7, <2>8
<1>2. ASSUME NEW t \in Thread, FirstCas(t) PROVE IInv'
  <2> USE <1>t, <1>w, <1>2, IntMinAssumption DEF IInv, FirstCas, Goto, TypeOK
  <2>1. Holders' = IF word = 0 THEN Holders \cup {t} ELSE Holders
    BY SMTT(90) DEF Holders, NotElided, ElidedAlone, FlagOwner, OutsideIdle
  <2>2. Waiting' = Waiting
    BY Zenon DEF Waiting
  <2>3. (OutsideIdle /\ live # {} /\ ElisionSound /\ FlagOwner /\ ElidedAlone
         /\ NotElided /\ WaitsOnLocked)'
    BY ZenonT(90) DEF OutsideIdle, ElisionSound, FlagOwner, ElidedAlone, NotElided,
       WaitsOnLocked, RangeOK, Unlocked, Locked
  <2>4. OneHolder'
    BY Zenon, <2>1 DEF OneHolder
  <2>5. WordExact'
    <3>1. CASE word = 0
      <4>1. Cardinality(Waiting) = 0
        BY Zenon, <1>w, <3>1, FS_EmptySet
      <4>2. Holders' # {} /\ word' = Locked(1)
        BY SMTT(90), <2>1, <3>1
      <4> QED BY SMTT(90), <2>2, <4>1, <4>2 DEF WordExact, Locked
    <3>2. CASE word # 0
      BY Zenon, <3>2, <2>1, <2>2 DEF WordExact
    <3> QED BY Zenon, <3>1, <3>2
  <2>6. RangeOK'
    BY SMTT(90), WaitingBound DEF RangeOK, Unlocked, Locked, WordExact
  <2>7. NoLostWakeup'
    BY ZenonT(90) DEF NoLostWakeup, Asleep, WaitsOnLocked, Waiting
  <2> QED BY Zenon, <2>3, <2>4, <2>5, <2>6, <2>7
<1>3. ASSUME NEW t \in Thread, ClearFlag(t) PROVE IInv'
  <2> USE <1>t, <1>w, <1>3, IntMinAssumption DEF IInv, ClearFlag, Goto, TypeOK
  <2>1. Holders' = Holders
    BY Zenon DEF Holders, NotElided, ElidedAlone, FlagOwner, OutsideIdle
  <2>2. Waiting' = Waiting
    BY Zenon DEF Waiting
  <2>3. (OutsideIdle /\ live # {} /\ FlagOwner /\ NotElided)'
    BY ZenonT(90) DEF OutsideIdle, FlagOwner, ElisionSound, NotElided
  <2>4. (OneHolder /\ WordExact)'
    BY Zenon, <2>1, <2>2 DEF OneHolder, WordExact
  <2>5. (WaitsOnLocked /\ RangeOK)'
    BY Zenon DEF WaitsOnLocked, RangeOK
  <2>6. NoLostWakeup'
    BY Zenon DEF NoLostWakeup, Asleep
  <2>7. ElisionSound'
    BY Zenon DEF ElisionSound, FlagOwner
  <2>8. ElidedAlone'
    BY Zenon DEF ElidedAlone, ElisionSound, OutsideIdle, NotElided
  <2> QED BY Zenon, <2>3, <2>4, <2>5, <2>6, <2>7, <2>8
<1>4. ASSUME NEW t \in Thread, SpinCas(t) PROVE IInv'
  <2> USE <1>t, <1>w, <1>4, IntMinAssumption DEF IInv, SpinCas, Goto, TypeOK
  <2>1. Holders' = IF word = Unlocked(current[t]) THEN Holders \cup {t} ELSE
     Holders
    BY SMTT(90) DEF Holders, NotElided, ElidedAlone, FlagOwner, OutsideIdle
  <2>2. Waiting' = Waiting
    BY ZenonT(90) DEF Waiting
  <2>3. Unlocked(current[t]) >= 0
    BY SMTT(90) DEF Unlocked, RangeOK, Locked
  <2>4. (OutsideIdle /\ live # {} /\ ElisionSound /\ FlagOwner /\ NotElided
         /\ WaitsOnLocked)'
    BY SMTT(90), <2>3 DEF OutsideIdle, ElisionSound, FlagOwner, NotElided,
       WaitsOnLocked, RangeOK, Unlocked, Locked
  <2>5. ElidedAlone'
    BY SMTT(90), <2>3 DEF ElidedAlone, ElisionSound, OutsideIdle, NotElided
  <2>6. OneHolder'
    BY Zenon, <2>1, <2>3 DEF OneHolder
  <2>7. WordExact'
    <3>1. CASE word = Unlocked(current[t])
      <4>1. Holders = {} /\ Holders' # {}
        BY Zenon, <3>1, <2>1, <2>3
      <4>2. word' = Locked(word + 1) /\ word = Cardinality(Waiting)
        BY SMTT(90), <3>1, <4>1, WaitingBound DEF WordExact
      <4> QED BY SMTT(90), <4>1, <4>2, <2>2 DEF WordExact, Locked
    <3>2. CASE word # Unlocked(current[t])
      BY Zenon, <3>2, <2>1, <2>2 DEF WordExact
    <3> QED BY Zenon, <3>1, <3>2
  <2>8. RangeOK'
    <3>1. word < 0 => word >= Locked(1)
      BY SMTT(90), WaitingBound DEF WordExact, Locked
    <3> QED BY ZenonT(90), <3>1, <2>3 DEF RangeOK
  <2>9. NoLostWakeup'
    BY SMTT(90), <2>3 DEF NoLostWakeup, Asleep, WaitsOnLocked, Waiting
  <2> QED BY Zenon, <2>4, <2>5, <2>6, <2>7, <2>8, <2>9
<1>5. ASSUME NEW t \in Thread, CountMe(t) PROVE IInv'
  <2> USE <1>t, <1>w, <1>5, IntMinAssumption DEF IInv, CountMe, Goto, TypeOK
  <2>1. Holders' = Holders
    BY Zenon DEF Holders, NotElided, ElidedAlone, FlagOwner, OutsideIdle
  <2>2. Waiting' = Waiting \cup {t}
    BY ZenonT(90) DEF Waiting
  <2>3. t \notin Waiting /\ Cardinality(Waiting') = Cardinality(Waiting) + 1
    <3>1. t \notin Waiting
      BY Zenon DEF Waiting
    <3>2. IsFiniteSet(Waiting)
      BY Zenon, WaitingBound
    <3>3. Cardinality(Waiting \cup {t}) = Cardinality(Waiting) + 1
      BY Zenon, <3>1, <3>2, FS_AddElement
    <3> QED BY Zenon, <3>1, <3>3, <2>2
  <2>4. (OutsideIdle /\ live # {} /\ ElisionSound /\ FlagOwner /\ ElidedAlone
         /\ NotElided /\ OneHolder)'
    BY SMTT(90), <2>1, <2>3 DEF OutsideIdle, ElisionSound, FlagOwner, ElidedAlone,
       NotElided, OneHolder
  <2>5. WordExact'
    <3>1. Cardinality(Waiting) \in Nat
      BY Zenon, WaitingBound
    <3> QED BY SMTT(90), <3>1, <2>1, <2>3 DEF WordExact, Locked
  <2>6. WaitsOnLocked'
    BY SMTT(90), <2>3 DEF WaitsOnLocked, RangeOK, Unlocked, Locked
  <2>7. RangeOK'
    BY SMTT(90), WaitingBound, <2>3 DEF RangeOK, Unlocked, Locked, WordExact
  <2>8. NoLostWakeup'
    BY ZenonT(90), <2>3 DEF NoLostWakeup, Asleep, WaitsOnLocked, Waiting
  <2> QED BY Zenon, <2>4, <2>5, <2>6, <2>7, <2>8
<1>6. ASSUME NEW t \in Thread, FutexWait(t) PROVE IInv'
  <2> USE <1>t, <1>w, <1>6, IntMinAssumption DEF IInv, FutexWait, Goto, TypeOK
  <2>1. Holders' = Holders
    BY Zenon DEF Holders, NotElided, ElidedAlone, FlagOwner, OutsideIdle
  <2>2. Waiting' = Waiting
    BY Zenon DEF Waiting
  <2>3. (OutsideIdle /\ live # {} /\ ElisionSound /\ FlagOwner /\ ElidedAlone
         /\ NotElided /\ OneHolder /\ WordExact)'
    BY SMTT(90), <2>1, <2>2, WaitingBound DEF OutsideIdle, ElisionSound, FlagOwner,
       ElidedAlone, NotElided, OneHolder, WordExact, Locked
  <2>4. WaitsOnLocked'
    BY SMTT(90) DEF WaitsOnLocked, RangeOK, Unlocked, Locked
  <2>5. RangeOK'
    BY SMTT(90), WaitingBound DEF RangeOK, Unlocked, Locked, WordExact
  <2>6. NoLostWakeup'
    <3>1. ~(word = current[t] /\ word >= 0)
      BY SMTT(90) DEF WaitsOnLocked
    <3> QED BY Zenon, <3>1 DEF NoLostWakeup, Asleep
  <2> QED BY Zenon, <2>3, <2>4, <2>5, <2>6
<1>7. ASSUME NEW t \in Thread, SlowCas(t) PROVE IInv'
  <2> USE <1>t, <1>w, <1>7, IntMinAssumption DEF IInv, SlowCas, Goto, TypeOK
  <2>1. Holders' = IF word = current[t] THEN Holders \cup {t} ELSE Holders
    BY SMTT(90) DEF Holders, NotElided, ElidedAlone, FlagOwner, OutsideIdle
  <2>2. Waiting' = IF word = current[t] THEN Waiting \ {t} ELSE Waiting
    BY Zenon DEF Waiting
  <2>3. /\ t \in Waiting /\ current[t] >= 0
        /\ Cardinality(Waiting \ {t}) = Cardinality(Waiting) - 1
    <3>1. t \in Waiting /\ current[t] >= 0
      BY Zenon DEF Waiting, WaitsOnLocked
    <3>2. IsFiniteSet(Waiting)
      BY Zenon, WaitingBound
    <3> QED BY Zenon, <3>1, <3>2, FS_RemoveElement
  <2>4. (OutsideIdle /\ live # {} /\ ElisionSound /\ FlagOwner /\ NotElided)'
    BY SMTT(90), <2>3 DEF OutsideIdle, ElisionSound, FlagOwner, NotElided
  <2>5. ElidedAlone'
    BY ZenonT(90), <2>3 DEF ElidedAlone, ElisionSound, OutsideIdle, NotElided
  <2>6. OneHolder'
    BY Zenon, <2>1, <2>3 DEF OneHolder
  <2>7. WordExact'
    <3>1. CASE word = current[t]
      <4>1. Holders = {} /\ Holders' # {}
        BY Zenon, <3>1, <2>1, <2>3
      <4>2. word' = Locked(word) /\ word = Cardinality(Waiting)
        BY SMTT(90), <3>1, <4>1, WaitingBound DEF WordExact
      <4>3. Cardinality(Waiting') = Cardinality(Waiting) - 1
        BY Zenon, <3>1, <2>2, <2>3
      <4> QED BY SMTT(90), <4>1, <4>2, <4>3 DEF WordExact, Locked
    <3>2. CASE word # current[t]
      BY Zenon, <3>2, <2>1, <2>2 DEF WordExact
    <3> QED BY Zenon, <3>1, <3>2
  <2>8. WaitsOnLocked'
    BY ZenonT(90), <2>3 DEF WaitsOnLocked, RangeOK, Unlocked, Locked
  <2>9. RangeOK'
    BY SMTT(90), WaitingBound, <2>3 DEF RangeOK, Unlocked, Locked, WordExact
  <2>10. NoLostWakeup'
    <3>1. CASE word = current[t]
      <4>1. word' < 0
        BY SMTT(90), <3>1, <2>1, <2>3, WaitingBound DEF WordExact, Locked
      <4> QED BY SMTT(90), <4>1 DEF NoLostWakeup
    <3>2. CASE word # current[t]
      BY ZenonT(90), <3>2 DEF NoLostWakeup, Asleep
    <3> QED BY Zenon, <3>1, <3>2
  <2> QED BY Zenon, <2>4, <2>5, <2>6, <2>7, <2>8, <2>9, <2>10
<1>8. ASSUME NEW t \in Thread, ReadWord(t) PROVE IInv'
  <2> USE <1>t, <1>w, <1>8, IntMinAssumption DEF IInv, ReadWord, Goto, TypeOK
  <2>1. Holders' = Holders
    BY SMTT(90) DEF Holders, NotElided, ElidedAlone, FlagOwner, OutsideIdle
  <2>2. Waiting' = Waiting
    BY Zenon DEF Waiting
  <2>3. word < 0 => nl[t] # 0
    BY SMTT(90) DEF Holders, ElidedAlone, OutsideIdle
  <2>4. (OutsideIdle /\ live # {} /\ ElisionSound /\ FlagOwner /\ ElidedAlone)'
    BY ZenonT(90) DEF OutsideIdle, ElisionSound, FlagOwner, ElidedAlone
  <2>5. (OneHolder /\ WordExact)'
    BY Zenon, <2>1, <2>2 DEF OneHolder, WordExact
  <2>6. (WaitsOnLocked /\ RangeOK /\ NoLostWakeup)'
    BY ZenonT(90) DEF WaitsOnLocked, RangeOK, NoLostWakeup, Asleep
  <2>7. NotElided'
    BY Zenon, <2>3 DEF NotElided
  <2> QED BY Zenon, <2>4, <2>5, <2>6, <2>7
<1>9. ASSUME NEW t \in Thread, FetchRelease(t) PROVE IInv'
  <2> USE <1>t, <1>w, <1>9, IntMinAssumption DEF IInv, FetchRelease, Goto,
     TypeOK
  <2>1. Holders' = Holders \ {t}
    BY Zenon DEF Holders, NotElided, ElidedAlone, FlagOwner, OutsideIdle
  <2>2. Waiting' = Waiting
    BY Zenon DEF Waiting
  <2>3. Holders = {t}
    BY SMTT(90) DEF Holders, OneHolder
  <2>4. (OutsideIdle /\ live # {} /\ ElisionSound /\ FlagOwner /\ ElidedAlone
         /\ NotElided /\ WaitsOnLocked /\ RangeOK)'
    BY ZenonT(90), WaitingBound, <2>3 DEF OutsideIdle, ElisionSound, FlagOwner,
       ElidedAlone, NotElided, WaitsOnLocked, RangeOK, Unlocked, Locked,
       WordExact
  <2>5. OneHolder'
    BY Zenon, <2>1, <2>3 DEF OneHolder
  <2>6. WordExact'
    BY SMTT(90), <2>1, <2>2, WaitingBound, <2>3 DEF WordExact, Locked
  <2>7. NoLostWakeup'
    BY ZenonT(90), <2>3 DEF NoLostWakeup, Asleep, WaitsOnLocked, Waiting
  <2> QED BY Zenon, <2>4, <2>5, <2>6, <2>7
<1>10. ASSUME NEW t \in Thread, Wake(t) PROVE IInv'
  <2> USE <1>t, <1>w, <1>10, IntMinAssumption DEF IInv, Wake, Goto, TypeOK,
     Asleep
  <2>1. Holders' = Holders
    BY ZenonT(90) DEF Holders, NotElided, ElidedAlone, FlagOwner, OutsideIdle
  <2>2. Waiting' = Waiting
    BY Zenon DEF Waiting
  <2>3. (OutsideIdle /\ live # {} /\ ElisionSound /\ FlagOwner /\ ElidedAlone
         /\ OneHolder /\ WordExact)'
    BY SMTT(90), <2>1, <2>2, WaitingBound DEF OutsideIdle, ElisionSound, FlagOwner,
       ElidedAlone, NotElided, OneHolder, WordExact, Locked
  <2>4. NotElided'
    BY ZenonT(90) DEF NotElided
  <2>5. WaitsOnLocked'
    BY SMTT(90) DEF WaitsOnLocked, RangeOK, Unlocked, Locked
  <2>6. RangeOK'
    BY SMTT(90), WaitingBound DEF RangeOK, Unlocked, Locked, WordExact
  <2>7. NoLostWakeup'
    BY ZenonT(90) DEF NoLostWakeup, Asleep, WaitsOnLocked, Waiting
  <2> QED BY Zenon, <2>3, <2>4, <2>5, <2>6, <2>7
<1>11. ASSUME NEW t \in Thread, Interrupt(t) PROVE IInv'
  <2> USE <1>t, <1>w, <1>11, IntMinAssumption DEF IInv, Interrupt, Goto, TypeOK
  <2>1. Holders' = Holders
    BY Zenon DEF Holders, NotElided, ElidedAlone, FlagOwner, OutsideIdle
  <2>2. Waiting' = Waiting
    BY Zenon DEF Waiting
  <2>3. (OutsideIdle /\ live # {} /\ ElisionSound /\ FlagOwner /\ ElidedAlone
         /\ NotElided /\ OneHolder /\ WordExact /\ WaitsOnLocked)'
    BY SMTT(90), <2>1, <2>2, WaitingBound DEF OutsideIdle, ElisionSound, FlagOwner,
       ElidedAlone, NotElided, OneHolder, WordExact, Locked, WaitsOnLocked,
       RangeOK, Unlocked
  <2>4. RangeOK'
    BY SMTT(90), WaitingBound DEF RangeOK, Unlocked, Locked, WordExact
  <2>5. NoLostWakeup'
    BY Zenon DEF NoLostWakeup, Asleep, WaitsOnLocked, Waiting
  <2> QED BY Zenon, <2>3, <2>4, <2>5
<1>12. ASSUME NEW t \in Thread, CreateFails(t) PROVE IInv'
  <2> USE <1>t, <1>w, <1>12, IntMinAssumption DEF IInv, CreateFails, Goto,
     TypeOK
  <2>1. Holders' = Holders
    BY Zenon DEF Holders, NotElided, ElidedAlone, FlagOwner, OutsideIdle
  <2>2. Waiting' = Waiting
    BY Zenon DEF Waiting
  <2>3. (OutsideIdle /\ live # {} /\ ElidedAlone /\ NotElided /\ OneHolder /\
         WordExact /\ WaitsOnLocked /\ RangeOK /\ NoLostWakeup)'
    BY ZenonT(90), <2>1, <2>2, WaitingBound DEF OutsideIdle, ElidedAlone, ElisionSound,
       NotElided, OneHolder, WordExact, Locked, WaitsOnLocked, RangeOK,
       Unlocked, NoLostWakeup, Asleep, Waiting
  <2>4. ElisionSound'
    BY Zenon DEF ElisionSound, FlagOwner
  <2>5. FlagOwner'
    BY Zenon DEF FlagOwner, ElisionSound, OutsideIdle
  <2> QED BY Zenon, <2>3, <2>4, <2>5
<1>13. ASSUME NEW t \in Thread, Exit(t) PROVE IInv'
  <2> USE <1>t, <1>w, <1>13, IntMinAssumption DEF IInv, Exit, Goto, TypeOK
  <2>1. Holders' = Holders
    BY Zenon DEF Holders, NotElided, ElidedAlone, FlagOwner, OutsideIdle
  <2>2. Waiting' = Waiting
    BY Zenon DEF Waiting
  <2>3. (OutsideIdle /\ live # {} /\ NotElided /\ OneHolder /\ WordExact /\
         WaitsOnLocked /\ RangeOK /\ NoLostWakeup)'
    BY SMTT(90), <2>1, <2>2, WaitingBound DEF OutsideIdle, NotElided, OneHolder,
       WordExact, Locked, WaitsOnLocked, RangeOK, Unlocked, NoLostWakeup,
       Asleep, Waiting
  <2>4. ElisionSound'
    BY Zenon DEF ElisionSound, FlagOwner
  <2>5. FlagOwner'
    BY Zenon DEF FlagOwner, ElisionSound, OutsideIdle
  <2>6. ElidedAlone'
    BY Zenon DEF ElidedAlone, ElisionSound, OutsideIdle, NotElided
  <2> QED BY Zenon, <2>3, <2>4, <2>5, <2>6
<1>14. ASSUME NEW t \in Thread, NEW u \in Thread, Create(t, u) PROVE IInv'
  <2> USE <1>t, <1>w, <1>14, IntMinAssumption DEF IInv, Create, Goto, TypeOK
  <2>1. Holders' = Holders
    BY Zenon DEF Holders, NotElided, ElidedAlone, FlagOwner, OutsideIdle
  <2>2. Waiting' = Waiting
    BY Zenon DEF Waiting
  <2>3. (OutsideIdle /\ live # {} /\ NotElided /\ OneHolder /\ WordExact /\
         WaitsOnLocked /\ RangeOK /\ NoLostWakeup)'
    BY ZenonT(90), <2>1, <2>2, WaitingBound DEF OutsideIdle, NotElided, OneHolder,
       WordExact, Locked, WaitsOnLocked, RangeOK, Unlocked, NoLostWakeup,
       Asleep, Waiting
  <2>4. ElisionSound'
    BY SMTT(90) DEF ElisionSound, FlagOwner
  <2>5. FlagOwner'
    BY ZenonT(90) DEF FlagOwner, ElisionSound, OutsideIdle
  <2>6. ElidedAlone'
    BY ZenonT(90) DEF ElidedAlone, ElisionSound, OutsideIdle, NotElided
  <2> QED BY Zenon, <2>3, <2>4, <2>5, <2>6
<1>15. CASE UNCHANGED vars
  BY ZenonT(90), <1>15, <1>t DEF IInv, vars, OutsideIdle, ElisionSound, FlagOwner,
     ElidedAlone, NotElided, OneHolder, WordExact, WaitsOnLocked, RangeOK,
     NoLostWakeup, Holders, Waiting, Asleep
<1> QED
  BY Zenon, <1>1, <1>2, <1>3, <1>4, <1>5, <1>6, <1>7, <1>8, <1>9, <1>10, <1>11,
     <1>12, <1>13, <1>14, <1>15
     DEF Next, LockStep, UnlockStep

-----------------------------------------------------------------------------
\* The lock is used as typed.
THEOREM TypeCorrect == Spec => []TypeOK
<1>1. Init => TypeOK
  BY SMTT(90), ThreadAssumption DEF Init, TypeOK, PC
<1> QED BY <1>1, TypeStep, PTL DEF Spec

\* The inductive invariant holds in every reachable state of __lock.
THEOREM Invariance == Spec => []IInv
BY InitIInv, SafeStep, PTL DEF Spec

\* The inductive invariant implies mutual exclusion.
LEMMA InvariantExcludes == IInv => MutualExclusion
<1> SUFFICES ASSUME IInv, NEW t \in Inside, NEW u \in Inside PROVE t = u
  BY Zenon DEF MutualExclusion
<1>1. t \in Thread /\ u \in Thread /\ t \in live /\ u \in live
  BY Zenon DEF Inside, IInv, OutsideIdle
<1>2. CASE t \in Holders /\ u \in Holders
  BY Zenon, <1>2 DEF IInv, OneHolder
<1>3. CASE t \notin Holders \/ u \notin Holders
  BY Zenon, <1>1, <1>3 DEF IInv, ElidedAlone, Inside, Holders
<1> QED BY Zenon, <1>2, <1>3

\* No two threads are between __lock and __unlock, elided or not.
THEOREM LockExcludes == Spec => []MutualExclusion
BY InvariantExcludes, Invariance, PTL

\* The word counts the holder and the waiters exactly.
THEOREM WordCounts == Spec => []CountExact
<1>1. IInv => CountExact
  <2> SUFFICES ASSUME IInv PROVE CountExact
    BY Zenon
  <2>0. WordExact /\ OneHolder
    BY Zenon DEF IInv
  <2>1. CASE Holders = {}
    BY SMTT(90), <2>0, <2>1, FS_EmptySet, WaitingBound DEF CountExact, WordExact
  <2>2. CASE Holders # {}
    <3>1. \E h : Holders = {h}
      BY SMTT(90), <2>0, <2>2 DEF OneHolder
    <3>2. Cardinality(Holders) = 1
      BY Zenon, <3>1, FS_Singleton
    <3> QED BY Zenon, <2>0, <2>2, <3>2, WaitingBound, IntMinAssumption
            DEF CountExact, WordExact, Locked
  <2> QED BY Zenon, <2>1, <2>2
<1> QED BY <1>1, Invariance, PTL

\* A thread asleep on a free lock has a waker or an awake competitor.
THEOREM SleepersRemembered == Spec => []NoLostWakeup
BY Invariance, PTL DEF IInv

\* need_locks allows elision only in a process with one thread.
THEOREM ElisionIsSound == Spec => []ElisionSound
BY Invariance, PTL DEF IInv

\* A step lets at most one thread in or out.
LEMMA InsideStep ==
    ASSUME TypeOK, [Next]_vars
    PROVE  \/ Inside' = Inside
           \/ \E t \in Thread : Inside' = Inside \cup {t}
           \/ \E t \in Inside : Inside' = Inside \ {t}
<1> USE DEF Inside, Goto, TypeOK
<1>1. ASSUME NEW t \in Thread, Enter(t) \/ LockStep(t)
      PROVE  Inside' = Inside \/ Inside' = Inside \cup {t}
  BY ZenonT(90), <1>1 DEF Enter, LockStep, FirstCas, ClearFlag, SpinCas, CountMe,
              FutexWait, SlowCas
<1>2. ASSUME NEW t \in Thread, ReadWord(t) \/ FetchRelease(t)
      PROVE  t \in Inside /\ (Inside' = Inside \/ Inside' = Inside \ {t})
  BY Zenon, <1>2 DEF ReadWord, FetchRelease
<1>3. ASSUME NEW t \in Thread, Wake(t) \/ Interrupt(t)
      PROVE  Inside' = Inside
  BY Zenon, <1>3 DEF Wake, Interrupt, Asleep
<1>4. ASSUME UNCHANGED pc PROVE Inside' = Inside
  BY Zenon, <1>4
<1> QED BY Zenon, <1>1, <1>2, <1>3, <1>4
        DEF Next, UnlockStep, Create, CreateFails, Exit, vars

\* The futex lock implements the abstract lock.
THEOREM LockRefinement == Spec => ImplementsLock
<1> USE NoThreadAssumption
        DEF Abstract!Next, Abstract!Acquire, Abstract!Release, owner
<1>1. Init => Abstract!Init
  BY Zenon DEF Init, Inside, Abstract!Init
<1>2. ASSUME TypeOK, MutualExclusion, MutualExclusion', [Next]_vars
      PROVE  [Abstract!Next]_owner
  <2>1. CASE Inside' = Inside
    BY Zenon, <2>1
  <2>2. ASSUME NEW t \in Thread, t \notin Inside, Inside' = Inside \cup {t}
        PROVE  Abstract!Acquire(t)
    <3>1. Inside = {} /\ Inside' = {t}
      BY SMTT(90), <1>2, <2>2 DEF MutualExclusion
    <3> QED BY Zenon, <3>1
  <2>3. ASSUME NEW t \in Inside, Inside' = Inside \ {t}
        PROVE  t \in Thread /\ Abstract!Release(t)
    <3>1. Inside = {t} /\ Inside' = {}
      BY Zenon, <1>2, <2>3 DEF MutualExclusion
    <3> QED BY Zenon, <3>1 DEF Inside
  <2>4. \A t \in Inside : Inside \cup {t} = Inside
    BY Zenon
  <2> QED BY Zenon, <1>2, <2>1, <2>2, <2>3, <2>4, InsideStep
<1> QED
  BY <1>1, <1>2, TypeCorrect, LockExcludes, PTL
     DEF Spec, ImplementsLock, Abstract!Spec
=============================================================================
