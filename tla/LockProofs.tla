----------------------------- MODULE LockProofs -----------------------------
(***************************************************************************)
(* Proofs about the mutexes and the read-write locks, for any finite set   *)
(* of threads.  The two components have most of their variables in common; *)
(* a behaviour is one of a single component.                               *)
(***************************************************************************)
EXTENDS Integers, FiniteSets, TLAPS

CONSTANTS
    Thread, NoThread, Busy, Dead, Types, MaxCount, MaxReaders

VARIABLES
    pc, lock, waiters, op, old, saw, readers, writer, type, count, held, damaged

\* The sizes of the sets of threads in T.
CountsOf(T) ==
    /\ \A A \in SUBSET T : Cardinality(A) \in Nat /\ (Cardinality(A) = 0 <=> A = {})
    /\ \A A, B \in SUBSET T : A \subseteq B => Cardinality(A) <= Cardinality(B)
    /\ \A A, B \in SUBSET T, t \in T : (\A u \in T : u # t => (u \in A <=> u \in B)) =>
         /\ (t \in A <=> t \in B) => Cardinality(B) = Cardinality(A)
         /\ t \notin A /\ t \in B => Cardinality(B) = Cardinality(A) + 1
         /\ t \in A /\ t \notin B => Cardinality(B) = Cardinality(A) - 1

\* What the proofs assume of the constants.
LockConstants ==
    /\ CountsOf(Thread)
    /\ NoThread \notin Thread /\ Busy \notin Thread /\ Dead \notin Thread
    /\ NoThread # Busy /\ NoThread # Dead /\ Busy # Dead
    /\ Types \subseteq [kind : {"normal", "recursive", "errorcheck"},
                        robust : BOOLEAN, shared : BOOLEAN]
    /\ MaxCount \in Nat /\ MaxReaders \in Nat \ {0}

\* Sets of threads that differ in one thread at most: how their sizes differ.
LEMMA OneMoves ==
    ASSUME CountsOf(Thread), NEW A \in SUBSET Thread, NEW B \in SUBSET Thread,
           NEW t \in Thread, \A u \in Thread : u # t => (u \in A <=> u \in B)
    PROVE  /\ Cardinality(A) \in Nat /\ Cardinality(B) \in Nat
           /\ (t \in A <=> t \in B) => Cardinality(B) = Cardinality(A)
           /\ t \notin A /\ t \in B => Cardinality(B) = Cardinality(A) + 1
           /\ t \in A /\ t \notin B => Cardinality(B) = Cardinality(A) - 1
BY ZenonT(90) DEF CountsOf

LEMMA NoneCounted ==
    ASSUME CountsOf(Thread), NEW A \in SUBSET Thread
    PROVE  Cardinality(A) \in Nat /\ (Cardinality(A) = 0 <=> A = {})
BY Zenon DEF CountsOf

LEMMA NoCount ==
    ASSUME LockConstants
    PROVE  Cardinality({}) = 0
BY Zenon, NoneCounted DEF LockConstants

-----------------------------------------------------------------------------
(***************************************************************************)
(* Mutexes.                                                                *)
(***************************************************************************)
M == INSTANCE Mutex

\* The component counts with an instance of its own of the standard module.
LEMMA MCount ==
    ASSUME NEW X
    PROVE  M!Cardinality(X) = Cardinality(X)
BY Zenon DEF M!Cardinality, Cardinality, M!IsFiniteSet, IsFiniteSet

LEMMA MWords ==
    ASSUME LockConstants, lock \in M!Word, old \in [Thread -> M!Word]
    PROVE  /\ M!Free \in M!Word /\ M!OwnerDied \in M!Word /\ M!NotRecoverable \in M!Word
           /\ M!Free.own = NoThread /\ M!Free.died = FALSE /\ M!Free.cont = FALSE
           /\ M!OwnerDied.own = NoThread /\ M!OwnerDied.died = TRUE /\ M!OwnerDied.cont = FALSE
           /\ M!NotRecoverable.own = Dead /\ M!NotRecoverable.died = TRUE
           /\ lock.own \in Thread \cup {NoThread, Busy, Dead}
           /\ lock.died \in BOOLEAN /\ lock.cont \in BOOLEAN
           /\ \A t \in Thread : /\ old[t].own \in Thread \cup {NoThread, Busy, Dead}
                                /\ old[t].died \in BOOLEAN /\ old[t].cont \in BOOLEAN
           /\ \A w \in Thread \cup {NoThread, Busy, Dead}, d, c \in BOOLEAN :
                [own |-> w, died |-> d, cont |-> c] \in M!Word
           /\ lock.own = NoThread /\ ~lock.died /\ ~lock.cont => lock = M!Free
<1>1. \A t \in Thread : old[t] \in M!Word
  BY Zenon
<1>2. lock.own = NoThread /\ ~lock.died /\ ~lock.cont => lock = M!Free
  BY Zenon DEF M!Word, M!Free
<1> QED
  BY Zenon, <1>1, <1>2 DEF M!Free, M!OwnerDied, M!NotRecoverable, M!Word

LEMMA MInit ==
    ASSUME LockConstants, M!Init
    PROVE  M!IInv /\ M!Abstract!Init
<1>1. /\ M!Free \in M!Word /\ M!Free.own = NoThread /\ M!Free.died = FALSE /\ M!Free.cont = FALSE
  BY Zenon DEF M!Free, M!Word
<1>2. M!TypeOK
  <2>1. "idle" \in M!PC /\ "lock" \in M!Op /\ MaxCount \in Nat
    BY Zenon DEF M!PC, M!Op, LockConstants
  <2>2. lock \in M!Word /\ old \in [Thread -> M!Word]
    BY Zenon, <1>1 DEF M!Init
  <2>3. /\ pc \in [Thread -> M!PC] /\ op \in [Thread -> M!Op]
        /\ saw \in [Thread -> BOOLEAN] /\ damaged \in BOOLEAN
    BY Zenon, <2>1 DEF M!Init
  <2>4. waiters \in Nat /\ count \in 0..MaxCount /\ held \in [Thread -> Nat] /\ type \in Types
    BY SMTT(90), <2>1 DEF M!Init
  <2> QED BY Zenon, <2>2, <2>3, <2>4 DEF M!TypeOK
<1>3. M!Counted = {} /\ M!Asleep = {} /\ M!UnlockersSee
  BY Zenon DEF M!Init, M!Counted, M!Asleep, M!UnlockersSee
<1>4. M!WaitersExact
  BY Zenon, <1>3, NoCount, MCount DEF M!Init, M!WaitersExact
<1>5. M!HoldersExact
  BY SMTT(90), <1>1 DEF LockConstants, M!Init, M!HoldersExact, M!OwnerExact
<1>6. M!Following
  BY Zenon, <1>3 DEF M!Init, M!Following
<1>7. M!Abstract!Init
  BY SMTT(90) DEF M!Init, M!Abstract!Init, M!owner
<1> QED
  BY Zenon, <1>2, <1>3, <1>4, <1>5, <1>6, <1>7 DEF M!IInv, M!NoLostWakeup, M!DamageReported, M!Init

\* _m_waiters counts the waiters.
LEMMA MWaiters ==
    ASSUME LockConstants, M!IInv, M!Next
    PROVE  M!WaitersExact'
<1> SUFFICES ASSUME NEW t \in Thread,
                    \/ \E o \in M!Op : M!Call(t, o)
                    \/ M!LockStep(t) \/ M!WaitEnds(t)
                    \/ M!Unlock(t) \/ M!UnlockStep(t) \/ M!Consistent(t)
                    \/ M!Exit(t) \/ M!ExitStep(t)
             PROVE  M!WaitersExact'
  BY Zenon DEF M!Next
<1> USE DEF M!Goto, M!Return, M!TypeOK
<1>1. /\ M!TypeOK /\ waiters = Cardinality(M!Counted)
      /\ M!Counted \in SUBSET Thread /\ M!Counted' \in SUBSET Thread
  BY Zenon, MCount DEF M!IInv, M!WaitersExact, M!Counted
<1>2. CASE M!Count(t) \/ M!Uncount(t)
  <2>0. M!Retry \in {"cas", "read"}
    BY Zenon DEF M!Retry
  <2>1. \A u \in Thread : u # t => (u \in M!Counted <=> u \in M!Counted')
    BY Zenon, <1>1, <1>2 DEF M!Count, M!Uncount, M!Counted
  <2>2. \/ waiters' = waiters + 1 /\ t \notin M!Counted /\ t \in M!Counted'
        \/ waiters' = waiters - 1 /\ t \in M!Counted /\ t \notin M!Counted'
    BY Zenon, <1>1, <1>2, <2>0 DEF M!Count, M!Uncount, M!Counted
  <2>3. waiters' = Cardinality(M!Counted')
    BY SMTT(90), <1>1, <2>1, <2>2, OneMoves DEF LockConstants
  <2> QED
    BY Zenon, <2>3, MCount DEF M!WaitersExact
<1>3. ASSUME M!Counted' = M!Counted, waiters' = waiters
      PROVE  M!WaitersExact'
  BY Zenon, <1>1, <1>3, MCount DEF M!WaitersExact
<1>4. CASE (\E o \in M!Op : M!Call(t, o)) \/ M!Peek(t) \/ M!Mark(t) \/ M!Wait(t) \/ M!WaitEnds(t)
  BY Zenon, <1>1, <1>3, <1>4 DEF M!Call, M!Peek, M!Mark, M!Wait, M!WaitEnds, M!Counted
<1>5. CASE M!TryRead(t)
  BY Zenon, <1>1, <1>3, <1>5 DEF M!TryRead, M!IsBusy, M!Counted
<1>6. CASE M!TryCas(t)
  BY ZenonT(90), <1>1, <1>3, <1>6 DEF M!TryCas, M!IsBusy, M!Counted
<1>7. CASE M!Look(t)
  <2>0. M!Retry \in {"cas", "read"}
    BY Zenon DEF M!Retry
  <2> QED
    BY Zenon, <1>1, <1>3, <1>7, <2>0 DEF M!Look, M!Counted
<1>8. CASE M!Unlock(t) \/ M!Swap(t) \/ M!Consistent(t)
  BY Zenon, <1>1, <1>3, <1>8 DEF M!Unlock, M!Swap, M!Consistent, M!Counted
<1>9. CASE M!Exit(t) \/ M!Bury(t)
  BY Zenon, <1>1, <1>3, <1>9 DEF M!Exit, M!Bury, M!Counted
<1>10. ASSUME NEW from, NEW to, M!WakeOne(t, from, to), from \in {"wake", "exitwake"},
              to \in {"idle", "gone"}
       PROVE  M!WaitersExact'
  BY Zenon, <1>1, <1>3, <1>10 DEF M!WakeOne, M!Asleep, M!Counted
<1> QED
  BY Zenon, <1>2, <1>4, <1>5, <1>6, <1>7, <1>8, <1>9, <1>10
  DEF M!LockStep, M!UnlockStep, M!ExitStep, M!Wake, M!ExitWake

\* What the word says of the holders.
LEMMA MOwners ==
    ASSUME LockConstants, M!IInv
    PROVE  /\ \A t \in Thread : held[t] > 0 => /\ lock.own = IF M!Normal THEN Busy ELSE t
                                               /\ ~M!Available
           /\ \A t, u \in Thread : held[t] > 0 /\ held[u] > 0 => t = u
           /\ \A t \in Thread : lock.own = t => ~M!Normal /\ held[t] = count + 1
           /\ lock.own \in {NoThread, Dead} => \A t \in Thread : held[t] = 0
<1>1. /\ M!HoldersExact /\ held \in [Thread -> Nat]
      /\ NoThread \notin Thread /\ Busy \notin Thread /\ Dead \notin Thread
      /\ NoThread # Busy /\ NoThread # Dead /\ Busy # Dead
  BY Zenon DEF M!IInv, M!TypeOK, LockConstants
<1>2. \A t \in Thread : held[t] > 0 => lock.own = IF M!Normal THEN Busy ELSE t
  BY Zenon, <1>1 DEF M!HoldersExact, M!OwnerExact
<1>3. \A t \in Thread : lock.own = t => ~M!Normal /\ held[t] = count + 1
  BY Zenon, <1>1 DEF M!HoldersExact, M!OwnerExact
<1>4. \A t, u \in Thread : held[t] > 0 /\ held[u] > 0 => t = u
  BY Zenon, <1>1, <1>2 DEF M!HoldersExact
<1>5. lock.own \in {NoThread, Dead} => \A t \in Thread : held[t] = 0
  BY SMTT(90), <1>1, <1>2
<1> QED
  BY Zenon, <1>1, <1>2, <1>3, <1>4, <1>5 DEF M!Available

\* The types.
LEMMA MTypes ==
    ASSUME LockConstants, M!IInv, M!Next
    PROVE  M!TypeOK'
<1> SUFFICES ASSUME NEW t \in Thread,
                    \/ \E o \in M!Op : M!Call(t, o)
                    \/ M!LockStep(t) \/ M!WaitEnds(t)
                    \/ M!Unlock(t) \/ M!UnlockStep(t) \/ M!Consistent(t)
                    \/ M!Exit(t) \/ M!ExitStep(t)
             PROVE  M!TypeOK'
  BY Zenon DEF M!Next
<1>0. M!TypeOK /\ M!Following
  BY Zenon DEF M!IInv
<1>w. /\ M!Free \in M!Word /\ M!OwnerDied \in M!Word /\ M!NotRecoverable \in M!Word
      /\ lock.own \in Thread \cup {NoThread, Busy, Dead}
      /\ lock.died \in BOOLEAN /\ lock.cont \in BOOLEAN
      /\ \A u \in Thread : /\ old[u].own \in Thread \cup {NoThread, Busy, Dead}
                           /\ old[u].died \in BOOLEAN /\ old[u].cont \in BOOLEAN
      /\ \A w \in Thread \cup {NoThread, Busy, Dead}, d, c \in BOOLEAN :
           [own |-> w, died |-> d, cont |-> c] \in M!Word
  BY Zenon, <1>0, MWords DEF M!TypeOK
<1>n. "lock" \in M!Op /\ MaxCount \in Nat /\ M!Retry \in {"cas", "read"}
  BY Zenon DEF M!Op, LockConstants, M!Retry
<1>c. count + 1 \in Nat /\ count - 1 \in Int /\ (count > 0 => count - 1 \in 0..MaxCount)
      /\ (~M!AtLimit => count + 1 \in 0..MaxCount)
      /\ \A u \in Thread : held[u] + 1 \in Nat /\ (held[u] > 0 => held[u] - 1 \in Nat)
  BY SMTT(90), <1>0, <1>n DEF M!TypeOK, M!AtLimit
<1> USE DEF M!TypeOK, M!PC, M!Goto
<1>r. ASSUME NEW from, M!Return(t, from)
      PROVE  /\ pc' \in [Thread -> M!PC] /\ op' \in [Thread -> M!Op]
             /\ old' \in [Thread -> M!Word] /\ saw' \in [Thread -> BOOLEAN]
  BY Zenon, <1>0, <1>n, <1>w, <1>r DEF M!Return
<1>b. ASSUME NEW from, M!IsBusy(t, from)
      PROVE  /\ pc' \in [Thread -> M!PC] /\ op' \in [Thread -> M!Op]
             /\ old' \in [Thread -> M!Word] /\ saw' \in [Thread -> BOOLEAN]
  BY Zenon, <1>0, <1>b, <1>r DEF M!IsBusy
<1>1. CASE \E o \in M!Op : M!Call(t, o)
  BY SMTT(90), <1>0, <1>1 DEF M!Call
<1>2. CASE M!TryRead(t)
  BY ZenonT(90), <1>0, <1>2, <1>b, <1>c, <1>r DEF M!TryRead
<1>3. CASE M!Peek(t)
  BY Zenon, <1>0, <1>3 DEF M!Peek
<1>4. CASE M!TryCas(t)
  <2>1. M!Taken(t) \in M!Word
    BY Zenon, <1>0, <1>w DEF M!Taken
  <2> QED
    BY SMTT(90), <1>0, <1>4, <1>b, <1>n, <1>r, <2>1 DEF M!TryCas
<1>5. CASE M!Look(t)
  BY ZenonT(90), <1>0, <1>5, <1>n, <1>r DEF M!Look, M!locals
<1>6. CASE M!Count(t)
  BY SMTT(90), <1>0, <1>6 DEF M!Count
<1>7. CASE M!Mark(t)
  <2>1. M!Marked(lock) \in M!Word /\ M!Marked(old[t]) \in M!Word
    BY Zenon, <1>w DEF M!Marked
  <2> QED
    BY Zenon, <1>0, <1>7, <2>1 DEF M!Mark
<1>8. CASE M!Wait(t) \/ M!WaitEnds(t)
  BY Zenon, <1>0, <1>8 DEF M!Wait, M!WaitEnds
<1>9. CASE M!Uncount(t)
  <2>0. t \in M!Counted /\ M!Counted \in SUBSET Thread
    BY Zenon, <1>9 DEF M!Uncount, M!Return, M!Counted
  <2>1. waiters - 1 \in Nat
    BY SMTT(90), <2>0, NoneCounted, MCount DEF M!IInv, M!WaitersExact, LockConstants
  <2> QED
    BY ZenonT(90), <1>0, <1>9, <1>n, <1>r, <1>w, <2>1 DEF M!Uncount
<1>10. CASE M!Unlock(t)
  <2>1. lock.own = t => held[t] > 0
    BY SMTT(90), MOwners, <1>0
  <2> QED
    BY ZenonT(90), <1>0, <1>10, <1>c, <1>r, <2>1 DEF M!Unlock
<1>11. CASE M!Swap(t)
  BY Zenon, <1>0, <1>11, <1>r, <1>w DEF M!Swap, M!locals
<1>12. CASE M!Consistent(t)
  BY Zenon, <1>0, <1>12, <1>w DEF M!Consistent
<1>13. CASE M!Exit(t)
  BY Zenon, <1>0, <1>13 DEF M!Exit
<1>14. CASE M!Bury(t)
  BY Zenon, <1>0, <1>14, <1>w DEF M!Bury
<1>15. ASSUME NEW from, NEW to, M!WakeOne(t, from, to), to \in {"idle", "gone"}
       PROVE  M!TypeOK'
  BY Zenon, <1>0, <1>15 DEF M!WakeOne
<1> QED
  BY Zenon, <1>1, <1>2, <1>3, <1>4, <1>5, <1>6, <1>7, <1>8, <1>9, <1>10, <1>11, <1>12, <1>13,
     <1>14, <1>15
  DEF M!LockStep, M!UnlockStep, M!ExitStep, M!Wake, M!ExitWake

\* The locals of a thread.
LEMMA MFollows ==
    ASSUME LockConstants, M!IInv, M!Next
    PROVE  M!Following'
<1> SUFFICES ASSUME NEW t \in Thread,
                    \/ \E o \in M!Op : M!Call(t, o)
                    \/ M!LockStep(t) \/ M!WaitEnds(t)
                    \/ M!Unlock(t) \/ M!UnlockStep(t) \/ M!Consistent(t)
                    \/ M!Exit(t) \/ M!ExitStep(t)
             PROVE  M!Following'
  BY Zenon DEF M!Next
<1>0. /\ M!TypeOK /\ M!Following /\ M!HoldersExact
      /\ NoThread \notin Thread /\ Busy \notin Thread /\ Dead \notin Thread
      /\ NoThread # Busy /\ NoThread # Dead /\ Busy # Dead
  BY Zenon DEF M!IInv, LockConstants
<1>h. /\ \A u \in Thread : held[u] > 0 => lock.own = IF M!Normal THEN Busy ELSE u
      /\ \A u, v \in Thread : held[u] > 0 /\ held[v] > 0 => u = v
      /\ \A u \in Thread : lock.own = u => ~M!Normal /\ held[u] = count + 1
      /\ lock.own \in {NoThread, Dead} => \A u \in Thread : held[u] = 0
      /\ count \in Nat
  BY SMTT(90), MOwners DEF M!IInv, M!TypeOK
<1>w. M!Free.own = NoThread /\ M!Free.died = FALSE /\ M!Free.cont = FALSE
  BY Zenon DEF M!Free
<1>n. M!Normal' = M!Normal /\ type' = type
  BY Zenon
  DEF M!Call, M!LockStep, M!TryRead, M!Peek, M!TryCas, M!Look, M!Count, M!Mark, M!Wait, M!Uncount,
         M!WaitEnds, M!Unlock, M!UnlockStep, M!Swap, M!Wake, M!WakeOne, M!Consistent, M!Exit,
         M!ExitStep, M!Bury, M!ExitWake, M!Normal
<1> USE DEF M!TypeOK, M!Following, M!Counted, M!Goto
<1>r. ASSUME NEW from, M!Return(t, from)
      PROVE  /\ \A u \in Thread : u # t => pc'[u] = pc[u] /\ op'[u] = op[u] /\ old'[u] = old[u]
             /\ pc[t] = from /\ pc'[t] = "idle" /\ old'[t] = M!Free
  BY Zenon, <1>0, <1>r DEF M!Return
<1>b. ASSUME NEW from, M!IsBusy(t, from)
      PROVE  /\ \A u \in Thread : u # t => pc'[u] = pc[u] /\ op'[u] = op[u] /\ old'[u] = old[u]
             /\ pc[t] = from
             /\ \/ pc'[t] = "idle" /\ old'[t] = M!Free
                \/ pc'[t] = "look" /\ old'[t] = old[t] /\ op'[t] # "trylock"
  BY Zenon, <1>0, <1>b, <1>r DEF M!IsBusy
<1>1. CASE \E o \in M!Op : M!Call(t, o)
  BY SMTT(90), <1>0, <1>1, <1>n DEF M!Call
<1>2. CASE M!TryRead(t)
  <2>0. pc[t] = "read" /\ ~M!Normal
    BY Zenon, <1>0, <1>2, <1>b, <1>r DEF M!TryRead
  <2>1. \A u \in Thread : u # t =>
          pc'[u] = pc[u] /\ op'[u] = op[u] /\ old'[u] = old[u] /\ held'[u] = held[u]
    BY ZenonT(90), <1>0, <1>2, <1>b, <1>r DEF M!TryRead
  <2>2. \A u \in Thread : pc[u] = "swap" => count' = count
    BY Zenon, <1>0, <1>2, <1>h, <2>0 DEF M!TryRead
  <2>3. \/ pc'[t] \in {"idle", "look"} /\ (pc'[t] = "look" => op'[t] # "trylock")
        \/ pc'[t] \in {"peek", "cas"} /\ old'[t].own = NoThread /\ (old'[t] = M!Free \/ type.robust)
    BY Zenon, <1>0, <1>2, <1>b, <1>r DEF M!TryRead, M!Available
  <2> QED
    BY SMTT(90), <1>0, <1>n, <2>0, <2>1, <2>2, <2>3
<1>3. CASE M!Peek(t)
  BY ZenonT(90), <1>0, <1>3, <1>n DEF M!Peek
<1>4. CASE M!TryCas(t)
  <2>0. pc[t] = "cas"
    BY Zenon, <1>4, <1>b, <1>r DEF M!TryCas
  <2>1. \A u \in Thread : u # t =>
          pc'[u] = pc[u] /\ op'[u] = op[u] /\ old'[u] = old[u] /\ held'[u] = held[u]
    BY Zenon, <1>0, <1>4, <1>b, <1>r DEF M!TryCas
  <2>2. count' \in {0, count}
    BY Zenon, <1>4 DEF M!TryCas
  <2>3. \/ pc'[t] = "idle" /\ old'[t] = M!Free
        \/ pc'[t] = "look" /\ op'[t] # "trylock" /\ old'[t] = old[t]
    BY Zenon, <1>0, <1>4, <1>b, <1>r DEF M!TryCas
  <2> QED
    BY SMTT(90), <1>0, <1>n, <2>0, <2>1, <2>2, <2>3
<1>5. CASE M!Look(t)
  <2>0. M!Retry = IF M!Normal THEN "cas" ELSE "read"
    BY Zenon DEF M!Retry
  <2>1. ~M!Available => lock.own # NoThread \/ (~type.robust /\ lock # M!Free)
    BY Zenon DEF M!Available
  <2>2. CASE M!Return(t, "look")
    BY SMTT(90), <1>0, <1>5, <1>n, <1>r, <2>2 DEF M!Look
  <2>3. CASE ~M!Return(t, "look")
    BY SMTT(90), <1>0, <1>5, <1>n, <2>0, <2>1, <2>3 DEF M!Look, M!locals
  <2> QED BY Zenon, <2>2, <2>3
<1>6. CASE M!Count(t)
  BY ZenonT(90), <1>0, <1>6, <1>n DEF M!Count
<1>7. CASE M!Mark(t)
  <2>1. /\ M!Marked(old[t]).own = old[t].own /\ M!Marked(old[t]).cont = TRUE
        /\ M!Marked(old[t]) # M!Free
    BY SMTT(90), <1>w DEF M!Marked
  <2> QED
    BY ZenonT(90), <1>0, <1>7, <1>n, <2>1 DEF M!Mark
<1>8. CASE M!Wait(t)
  BY SMTT(90), <1>0, <1>8, <1>n DEF M!Wait
<1>9. CASE M!WaitEnds(t)
  BY SMTT(90), <1>0, <1>9, <1>n DEF M!WaitEnds
<1>10. CASE M!Uncount(t)
  <2>0. M!Retry = IF M!Normal THEN "cas" ELSE "read"
    BY Zenon DEF M!Retry
  <2>1. CASE M!Return(t, "timeout")
    BY SMTT(90), <1>0, <1>10, <1>n, <1>r, <2>1 DEF M!Uncount
  <2>2. CASE ~M!Return(t, "timeout")
    BY SMTT(90), <1>0, <1>10, <1>n, <2>0, <2>2 DEF M!Uncount
  <2> QED BY Zenon, <2>1, <2>2
<1>11. CASE M!Unlock(t)
  <2>0. pc[t] = "idle"
    BY Zenon, <1>11, <1>r DEF M!Unlock
  <2>1. \A u \in Thread : u # t =>
          pc'[u] = pc[u] /\ op'[u] = op[u] /\ old'[u] = old[u] /\ held'[u] = held[u]
    BY ZenonT(90), <1>0, <1>11, <1>r DEF M!Unlock
  <2>2. \A u \in Thread : pc[u] = "swap" => count' = count
    BY ZenonT(90), <1>0, <1>11, <1>h, <2>0 DEF M!Unlock
  <2>3. \/ pc'[t] = "idle" /\ old'[t] = M!Free
        \/ /\ pc'[t] = "swap" /\ UNCHANGED <<old, held, count>>
           /\ ~(type.kind = "recursive" /\ count > 0) /\ (M!Normal \/ lock.own = t)
    BY Zenon, <1>0, <1>11, <1>r DEF M!Unlock
  <2>4. pc'[t] = "swap" => held'[t] > 0 /\ count' = 0
    <3>1. pc'[t] = "swap" => held[t] > 0
      BY SMTT(90), <1>0, <1>11, <1>h, <2>3 DEF M!Unlock
    <3>2. pc'[t] = "swap" => count = 0
      BY SMTT(90), <1>0, <1>h, <2>3 DEF M!HoldersExact
    <3> QED BY Zenon, <2>3, <3>1, <3>2
  <2> QED
    BY SMTT(90), <1>0, <1>n, <2>0, <2>1, <2>2, <2>3, <2>4
<1>12. CASE M!Swap(t)
  <2>0. pc[t] = "swap" /\ held[t] > 0
    BY Zenon, <1>0, <1>12, <1>r DEF M!Swap
  <2>1. \A u \in Thread : u # t =>
          pc'[u] = pc[u] /\ op'[u] = op[u] /\ old'[u] = old[u] /\ held'[u] = held[u]
    BY ZenonT(90), <1>0, <1>12, <1>r DEF M!Swap, M!locals
  <2>2. /\ pc'[t] \in {"idle", "wake"} /\ count' = count
        /\ old'[t] = M!Free \/ old'[t] = old[t]
    BY Zenon, <1>0, <1>12, <1>r DEF M!Swap, M!locals
  <2> QED
    BY SMTT(90), <1>0, <1>n, <2>0, <2>1, <2>2
<1>13. CASE M!Consistent(t)
  BY ZenonT(90), <1>0, <1>13, <1>n DEF M!Consistent
<1>14. CASE M!Exit(t)
  BY SMTT(90), <1>0, <1>14, <1>h, <1>n DEF M!Exit
<1>15. CASE M!Bury(t)
  BY ZenonT(90), <1>0, <1>15, <1>n DEF M!Bury
<1>16. ASSUME M!Wake(t) \/ M!ExitWake(t)
       PROVE  M!Following'
  BY SMTT(90), <1>0, <1>16, <1>n DEF M!WakeOne, M!Wake, M!ExitWake, M!Asleep
<1> QED
  BY Zenon, <1>1, <1>2, <1>3, <1>4, <1>5, <1>6, <1>7, <1>8, <1>9, <1>10, <1>11, <1>12, <1>13,
     <1>14, <1>15,
     <1>16
  DEF M!LockStep, M!UnlockStep, M!ExitStep

\* Of holders that are at most one, CHOOSE gives the one.
LEMMA MOneOwner ==
    ASSUME NEW h, \A t, u \in Thread : h[t] > 0 /\ h[u] > 0 => t = u
    PROVE  \A t \in Thread : h[t] > 0 =>
             (IF \E u \in Thread : h[u] > 0 THEN CHOOSE u \in Thread : h[u] > 0 ELSE NoThread) = t
BY Zenon

\* The steps that change the word, apart from its mark, or the count: who holds the mutex
\* after them, and the step of the abstract lock that each of them is.
LEMMA MOwnersStep ==
    ASSUME LockConstants, M!IInv, M!Next
    PROVE  /\ M!HoldersExact' /\ M!DamageReported' /\ M!StaysDead
           /\ M!Abstract!Next \/ UNCHANGED M!owner
<1> SUFFICES ASSUME NEW t \in Thread,
                    \/ \E o \in M!Op : M!Call(t, o)
                    \/ M!LockStep(t) \/ M!WaitEnds(t)
                    \/ M!Unlock(t) \/ M!UnlockStep(t) \/ M!Consistent(t)
                    \/ M!Exit(t) \/ M!ExitStep(t)
             PROVE  /\ M!HoldersExact' /\ M!DamageReported' /\ M!StaysDead
                    /\ M!Abstract!Next \/ UNCHANGED M!owner
  BY Zenon DEF M!Next
<1>0. /\ M!TypeOK /\ M!Following /\ M!HoldersExact /\ M!DamageReported
      /\ NoThread \notin Thread /\ Busy \notin Thread /\ Dead \notin Thread
      /\ NoThread # Busy /\ NoThread # Dead /\ Busy # Dead
  BY Zenon DEF M!IInv, LockConstants
<1>h. /\ \A u \in Thread : held[u] > 0 => lock.own = IF M!Normal THEN Busy ELSE u
      /\ \A u, v \in Thread : held[u] > 0 /\ held[v] > 0 => u = v
      /\ \A u \in Thread : lock.own = u => ~M!Normal /\ held[u] = count + 1
      /\ lock.own \in {NoThread, Dead} => \A u \in Thread : held[u] = 0
      /\ count \in Nat /\ held \in [Thread -> Nat]
  BY SMTT(90), MOwners DEF M!IInv, M!TypeOK
<1>w. /\ M!Free.own = NoThread /\ M!Free.died = FALSE /\ M!Free.cont = FALSE
      /\ M!OwnerDied.own = NoThread /\ M!OwnerDied.died = TRUE
      /\ M!NotRecoverable.own = Dead /\ M!NotRecoverable.died = TRUE
  BY Zenon DEF M!Free, M!OwnerDied, M!NotRecoverable
<1>n. M!Normal' = M!Normal /\ type' = type
  BY Zenon
  DEF M!Call, M!LockStep, M!TryRead, M!Peek, M!TryCas, M!Look, M!Count, M!Mark, M!Wait, M!Uncount,
         M!WaitEnds, M!Unlock, M!UnlockStep, M!Swap, M!Wake, M!WakeOne, M!Consistent, M!Exit,
         M!ExitStep, M!Bury, M!ExitWake, M!Normal
<1>k. M!Normal => type.kind # "recursive" /\ ~type.robust
  BY Zenon DEF M!Normal
<1> DEFINE Owner(h) == IF \E u \in Thread : h[u] > 0 THEN CHOOSE u \in Thread : h[u] > 0 ELSE NoThread
<1>o. M!owner = Owner(held) /\ M!owner' = Owner(held')
  BY Zenon DEF M!owner
<1>1. ASSUME UNCHANGED <<held, count, damaged>>, lock'.own = lock.own, lock'.died = lock.died,
             lock' = lock \/ lock' # M!Free
      PROVE  /\ M!HoldersExact' /\ M!DamageReported' /\ M!StaysDead
             /\ M!Abstract!Next \/ UNCHANGED M!owner
  BY Zenon, <1>0, <1>1, <1>n, <1>o DEF M!HoldersExact, M!OwnerExact, M!DamageReported, M!StaysDead
<1>2. ASSUME \* one more lock, or one less, of a recursive mutex
             lock.own = t, type.kind = "recursive", UNCHANGED <<lock, damaged>>,
             \/ count' = count + 1 /\ held' = [held EXCEPT ![t] = @ + 1]
             \/ count > 0 /\ count' = count - 1 /\ held' = [held EXCEPT ![t] = @ - 1]
      PROVE  /\ M!HoldersExact' /\ M!DamageReported' /\ M!StaysDead
             /\ M!Abstract!Next \/ UNCHANGED M!owner
  <2>1. /\ ~M!Normal /\ held[t] = count + 1 /\ held'[t] = count' + 1 /\ count' \in Nat
        /\ \A u \in Thread : u # t => held'[u] = held[u] /\ ~(held[u] > 0)
    BY SMTT(90), <1>0, <1>2, <1>h
  <2>2. \A u \in Thread : held'[u] > 0 <=> held[u] > 0
    BY SMTT(90), <2>1, <1>h
  <2>3. M!HoldersExact'
    BY ZenonT(90), <1>0, <1>2, <1>n, <1>w, <2>1, <2>2 DEF M!HoldersExact, M!OwnerExact
  <2>4. Owner(held) = t /\ Owner(held') = t
    <3>1. held[t] > 0
      BY SMTT(90), <1>h, <2>1
    <3>2. /\ held'[t] > 0
          /\ \A u, v \in Thread : held[u] > 0 /\ held[v] > 0 => u = v
          /\ \A u, v \in Thread : held'[u] > 0 /\ held'[v] > 0 => u = v
      BY Zenon, <2>1, <2>2, <3>1
    <3> QED BY Zenon, <3>1, <3>2, MOneOwner
  <2> QED
    BY Zenon, <1>0, <1>2, <1>o, <2>3, <2>4 DEF M!DamageReported, M!StaysDead
<1>3. CASE M!TryRead(t)
  <2>1. UNCHANGED <<lock, damaged>>
    BY Zenon, <1>3 DEF M!TryRead
  <2>2. \/ UNCHANGED <<held, count>>
        \/ /\ lock.own = t /\ type.kind = "recursive"
           /\ count' = count + 1 /\ held' = [held EXCEPT ![t] = @ + 1]
    BY Zenon, <1>3 DEF M!TryRead
  <2> QED BY Zenon, <1>1, <1>2, <2>1, <2>2
<1>4. CASE M!TryCas(t)
  <2>1. CASE lock # old[t]
    BY Zenon, <1>1, <1>4, <2>1 DEF M!TryCas
  <2>2. CASE lock = old[t]
    <3>1. /\ lock' = M!Taken(t) /\ held' = [held EXCEPT ![t] = 1] /\ UNCHANGED damaged
          /\ count' = IF lock # M!Free THEN 0 ELSE count
          /\ pc[t] = "cas"
      BY Zenon, <1>4, <2>2 DEF M!TryCas, M!Return, M!Goto
    <3>2. /\ lock.own = NoThread /\ (M!Normal => lock = M!Free)
          /\ lock = M!Free \/ type.robust
      BY Zenon, <1>0, <1>w, <2>2, <3>1 DEF M!Following
    <3>3. /\ \A u \in Thread : held[u] = 0 /\ held'[u] = IF u = t THEN 1 ELSE 0
          /\ count' = 0
      BY Zenon, <1>0, <1>h, <3>1, <3>2 DEF M!HoldersExact
    <3>4. /\ lock'.own = IF M!Normal THEN Busy ELSE t
          /\ lock'.died = lock.died
      BY Zenon, <1>w, <2>2, <3>1, <3>2 DEF M!Taken
    <3>5. M!HoldersExact'
      BY SMTT(90), <1>0, <1>n, <1>w, <3>1, <3>2, <3>3, <3>4 DEF M!HoldersExact, M!OwnerExact
    <3>6. M!Abstract!Next
      <4>1. Owner(held) = NoThread
        BY SMTT(90), <3>3
      <4>2. Owner(held') = t
        <5>1. held'[t] > 0 /\ \A u, v \in Thread : held'[u] > 0 /\ held'[v] > 0 => u = v
          BY SMTT(90), <3>3
        <5> QED BY Zenon, <5>1, MOneOwner
      <4> QED BY Zenon, <1>o, <4>1, <4>2 DEF M!Abstract!Next, M!Abstract!Acquire
    <3> QED
      BY Zenon, <1>0, <3>1, <3>2, <3>4, <3>5, <3>6 DEF M!DamageReported, M!StaysDead
  <2> QED BY Zenon, <2>1, <2>2
<1>5. CASE M!Mark(t)
  <2>1. M!Marked(lock).own = lock.own /\ M!Marked(lock).died = lock.died /\ M!Marked(lock) # M!Free
    BY SMTT(90), <1>w DEF M!Marked
  <2> QED BY Zenon, <1>1, <1>5, <2>1 DEF M!Mark
<1>6. CASE M!Unlock(t)
  <2>1. UNCHANGED <<lock, damaged>>
    BY Zenon, <1>6 DEF M!Unlock
  <2>2. \/ UNCHANGED <<held, count>>
        \/ /\ lock.own = t /\ type.kind = "recursive" /\ count > 0
           /\ count' = count - 1 /\ held' = [held EXCEPT ![t] = @ - 1]
    BY Zenon, <1>6 DEF M!Unlock
  <2> QED BY Zenon, <1>1, <1>2, <2>1, <2>2
<1>7. ASSUME \* the holder gives the mutex up
             held[t] > 0, held' = [held EXCEPT ![t] = 0], count' = count,
             lock'.own \in {NoThread, Dead}, M!Normal => lock' = M!Free /\ ~damaged',
             lock' = M!Free => count = 0,
             lock'.died /\ ~type.robust => lock'.own = NoThread
      PROVE  /\ M!HoldersExact' /\ M!StaysDead
             /\ M!Abstract!Next \/ UNCHANGED M!owner
  <2>1. \A u \in Thread : held'[u] = 0 /\ (u # t => held[u] = 0)
    BY SMTT(90), <1>7, <1>h
  <2>2. M!HoldersExact'
    BY SMTT(90), <1>0, <1>7, <1>n, <1>w, <2>1 DEF M!HoldersExact, M!OwnerExact
  <2>3. lock.own # Dead
    BY Zenon, <1>0, <1>7, <1>h
  <2>4. M!Abstract!Next
    <3>1. Owner(held) = t
      BY Zenon, <1>7, <1>h, MOneOwner
    <3>2. Owner(held') = NoThread
      BY SMTT(90), <2>1
    <3> QED BY Zenon, <1>o, <3>1, <3>2 DEF M!Abstract!Next, M!Abstract!Release
  <2> QED
    BY Zenon, <2>2, <2>3, <2>4 DEF M!StaysDead
<1>8. CASE M!Swap(t)
  <2>1. /\ held[t] > 0 /\ count = 0 /\ UNCHANGED <<count, damaged>>
        /\ held' = [held EXCEPT ![t] = 0]
        /\ lock' = IF type.robust /\ lock.died THEN M!NotRecoverable ELSE M!Free
    BY Zenon, <1>0, <1>8 DEF M!Swap, M!Goto, M!Return, M!Following
  <2>2. M!Normal => ~damaged
    BY Zenon, <1>0 DEF M!HoldersExact
  <2>3. damaged => lock'.died
    BY Zenon, <1>0, <1>h, <1>w, <2>1, <2>2 DEF M!DamageReported, M!HoldersExact
  <2> QED
    BY Zenon, <1>7, <1>k, <1>w, <2>1, <2>2, <2>3 DEF M!DamageReported
<1>9. CASE M!Consistent(t)
  <2>1. /\ UNCHANGED <<held, count>> /\ lock'.own = lock.own /\ lock.own = t /\ ~lock'.died
        /\ ~damaged'
    BY Zenon, <1>9 DEF M!Consistent
  <2> QED
    BY Zenon, <1>0, <1>n, <1>o, <1>w, <2>1
    DEF M!HoldersExact, M!OwnerExact, M!DamageReported, M!StaysDead
<1>10. CASE M!Bury(t)
  <2>1. /\ held[t] > 0 /\ ~M!Normal /\ UNCHANGED count
        /\ held' = [held EXCEPT ![t] = 0] /\ lock' = M!OwnerDied
    BY Zenon, <1>0, <1>10 DEF M!Bury, M!Goto, M!Following
  <2> QED
    BY Zenon, <1>7, <1>w, <2>1 DEF M!DamageReported
<1>11. CASE UNCHANGED <<lock, held, count, damaged>>
  BY Zenon, <1>1, <1>11
<1> QED
  BY Zenon, <1>3, <1>4, <1>5, <1>6, <1>8, <1>9, <1>10, <1>11
  DEF M!Call, M!LockStep, M!Peek, M!Look, M!Count, M!Wait, M!Uncount, M!WaitEnds, M!UnlockStep,
      M!Wake, M!WakeOne, M!Exit, M!ExitStep, M!ExitWake

\* Sleepers: a thread that unlocks or exits sees them, and none is left behind.
LEMMA MSleepers ==
    ASSUME LockConstants, M!IInv, M!Next
    PROVE  M!UnlockersSee' /\ M!NoLostWakeup'
<1> SUFFICES ASSUME NEW t \in Thread,
                    \/ \E o \in M!Op : M!Call(t, o)
                    \/ M!LockStep(t) \/ M!WaitEnds(t)
                    \/ M!Unlock(t) \/ M!UnlockStep(t) \/ M!Consistent(t)
                    \/ M!Exit(t) \/ M!ExitStep(t)
             PROVE  M!UnlockersSee' /\ M!NoLostWakeup'
  BY Zenon DEF M!Next
<1>0. M!TypeOK /\ M!Following /\ M!UnlockersSee /\ M!NoLostWakeup
  BY Zenon DEF M!IInv
<1>h. /\ \A u \in Thread : held[u] > 0 => ~M!Available
      /\ \A u, v \in Thread : held[u] > 0 /\ held[v] > 0 => u = v
      /\ lock.own = NoThread => \A u \in Thread : held[u] = 0
      /\ \A u \in Thread : lock.own = u => held[u] > 0
      /\ NoThread # Busy /\ NoThread # Dead /\ NoThread \notin Thread
  <2>1. count \in Nat
    BY SMTT(90), <1>0 DEF M!TypeOK
  <2> QED BY SMTT(90), <2>1, MOwners DEF LockConstants
<1>w. M!Free.own = NoThread /\ M!Free.died = FALSE /\ M!Free.cont = FALSE
  BY Zenon DEF M!Free
<1>n. M!Normal' = M!Normal /\ type' = type
  BY Zenon
  DEF M!Call, M!LockStep, M!TryRead, M!Peek, M!TryCas, M!Look, M!Count, M!Mark, M!Wait, M!Uncount,
         M!WaitEnds, M!Unlock, M!UnlockStep, M!Swap, M!Wake, M!WakeOne, M!Consistent, M!Exit,
         M!ExitStep, M!Bury, M!ExitWake, M!Normal
<1>a. waiters = 0 => M!Asleep = {}
  BY Zenon, NoneCounted, MCount DEF LockConstants, M!IInv, M!WaitersExact, M!Counted, M!Asleep
<1> USE DEF M!UnlockersSee, M!NoLostWakeup, M!OnDuty, M!Asleep, M!Goto, M!TypeOK
<1> DEFINE Frame == \A u \in Thread : u # t =>
                      pc'[u] = pc[u] /\ op'[u] = op[u] /\ old'[u] = old[u] /\ saw'[u] = saw[u]
<1>r. ASSUME NEW from, M!Return(t, from)
      PROVE  Frame /\ pc[t] = from /\ pc'[t] = "idle"
  BY Zenon, <1>0, <1>r DEF M!Return
<1>b. ASSUME NEW from, M!IsBusy(t, from)
      PROVE  /\ Frame /\ pc[t] = from
             /\ IF op[t] = "trylock" THEN pc'[t] = "idle" ELSE pc'[t] = "look" /\ op'[t] # "trylock"
  BY Zenon, <1>0, <1>b, <1>r DEF M!IsBusy
<1>1. CASE \E o \in M!Op : M!Call(t, o)
  <2>1. UNCHANGED <<lock, saw>> /\ M!Available' = M!Available
    BY Zenon, <1>1, <1>n DEF M!Call, M!Available
  <2> QED BY SMTT(90), <1>0, <1>1, <2>1 DEF M!Call
<1>2. CASE M!TryRead(t)
  <2>1. UNCHANGED lock /\ M!Available' = M!Available
    BY Zenon, <1>2, <1>n DEF M!TryRead, M!Available
  <2>2. Frame /\ pc[t] = "read"
    BY Zenon, <1>0, <1>2, <1>b, <1>r DEF M!TryRead
  <2>3. pc'[t] \in {"idle", "look", "peek", "cas"}
    BY Zenon, <1>0, <1>2, <1>b, <1>r DEF M!TryRead
  <2>4. M!UnlockersSee'
    BY ZenonT(90), <1>0, <2>1, <2>2, <2>3
  <2>5. M!Available => pc'[t] \in {"peek", "cas"} /\ op' = op
    <3>1. M!Available => lock.own = NoThread
      BY Zenon DEF M!Available
    <3> QED BY Zenon, <1>0, <1>2, <1>h, <3>1 DEF M!TryRead
  <2>6. M!NoLostWakeup'
    BY SMTT(90), <1>0, <2>1, <2>2, <2>3, <2>5
  <2> QED BY Zenon, <2>4, <2>6
<1>3. CASE M!Peek(t)
  <2>1. UNCHANGED lock /\ M!Available' = M!Available
    BY Zenon, <1>3, <1>n DEF M!Peek, M!Available
  <2> QED BY Zenon, <1>0, <1>3, <2>1 DEF M!Peek
<1>4. CASE M!TryCas(t)
  <2>0. Frame /\ pc[t] = "cas" /\ pc'[t] \in {"idle", "look"}
    BY Zenon, <1>0, <1>4, <1>b, <1>r DEF M!TryCas
  <2>1. CASE lock # old[t]
    <3>1. UNCHANGED lock /\ M!Available' = M!Available /\ M!IsBusy(t, "cas")
      BY Zenon, <1>4, <1>n, <2>1 DEF M!TryCas, M!Available
    <3>2. IF op[t] = "trylock" THEN pc'[t] = "idle" ELSE pc'[t] = "look" /\ op'[t] # "trylock"
      BY Zenon, <1>b, <3>1
    <3>3. M!UnlockersSee'
      BY SMTT(90), <1>0, <2>0, <3>1
    <3>4. M!NoLostWakeup'
      BY SMTT(90), <1>0, <2>0, <3>1, <3>2
    <3> QED BY Zenon, <3>3, <3>4
  <2>2. CASE lock = old[t]
    <3>1. lock'.own \in {Busy, t}
      BY SMTT(90), <1>4, <2>2 DEF M!TryCas, M!Taken
    <3>2. ~M!Available'
      BY Zenon, <1>h, <3>1 DEF M!Available
    <3>3. lock.own = NoThread
      BY Zenon, <1>0, <1>w, <2>0, <2>2 DEF M!Following
    <3>4. \A u \in Thread : pc[u] \notin {"swap", "bury"}
      BY SMTT(90), <1>0, <1>h, <3>3 DEF M!Following
    <3> QED
      BY Zenon, <2>0, <3>2, <3>4
  <2> QED BY Zenon, <2>1, <2>2
<1>5. CASE M!Look(t)
  <2>1. UNCHANGED lock /\ M!Available' = M!Available
    BY Zenon, <1>5, <1>n DEF M!Look, M!Available
  <2>2. Frame /\ pc[t] = "look" /\ pc'[t] \in {"idle", "cas", "read", "count"}
    BY Zenon, <1>0, <1>5, <1>r DEF M!Look, M!locals, M!Retry
  <2>3. M!Available => pc'[t] \in {"cas", "read"} /\ op' = op
    <3>1. M!Available => lock.own = NoThread
      BY Zenon DEF M!Available
    <3> QED BY Zenon, <1>0, <1>5, <1>h, <3>1 DEF M!Look, M!locals, M!Retry
  <2>4. M!UnlockersSee'
    BY SMTT(90), <1>0, <2>1, <2>2
  <2>5. M!NoLostWakeup'
    BY SMTT(90), <1>0, <2>1, <2>2, <2>3
  <2> QED BY Zenon, <2>4, <2>5
<1>6. CASE M!Count(t)
  <2>1. UNCHANGED lock /\ M!Available' = M!Available
    BY Zenon, <1>6, <1>n DEF M!Count, M!Available
  <2> QED BY Zenon, <1>0, <1>6, <2>1 DEF M!Count
<1>7. CASE M!Mark(t)
  <2>0. M!Marked(lock).own = lock.own /\ M!Marked(lock).cont = TRUE /\ M!Marked(lock) # M!Free
    BY SMTT(90), <1>w DEF M!Marked
  <2>1. /\ lock' = lock \/ lock'.cont
        /\ M!Available' => M!Available
    BY Zenon, <1>7, <1>n, <2>0 DEF M!Mark, M!Available
  <2>2. /\ \A u \in Thread : u # t => pc'[u] = pc[u] /\ op'[u] = op[u] /\ saw'[u] = saw[u]
        /\ pc[t] = "mark" /\ pc'[t] = "wait"
    BY Zenon, <1>0, <1>7 DEF M!Mark
  <2>3. M!UnlockersSee'
    BY ZenonT(90), <1>0, <2>1, <2>2
  <2>4. M!NoLostWakeup'
    BY ZenonT(90), <1>0, <2>1, <2>2
  <2> QED BY Zenon, <2>3, <2>4
<1>8. CASE M!Wait(t)
  <2>1. UNCHANGED <<lock, op, saw>> /\ M!Available' = M!Available
    BY Zenon, <1>8, <1>n DEF M!Wait, M!Available
  <2>2. /\ \A u \in Thread : u # t => pc'[u] = pc[u]
        /\ pc[t] = "wait" /\ pc'[t] \in {"asleep", "uncount", "timeout"}
        /\ pc'[t] = "asleep" => lock = old[t]
    BY Zenon, <1>0, <1>8 DEF M!Wait
  <2>3. pc'[t] = "asleep" => lock.cont /\ ~M!Available
    BY Zenon, <1>0, <2>2 DEF M!Following, M!Available
  <2>4. M!UnlockersSee'
    BY Zenon, <1>0, <2>1, <2>2, <2>3
  <2>5. M!NoLostWakeup'
    BY ZenonT(90), <1>0, <2>1, <2>2, <2>3
  <2> QED BY Zenon, <2>4, <2>5
<1>9. CASE M!WaitEnds(t)
  <2>1. UNCHANGED <<lock, op, saw>> /\ M!Available' = M!Available
    BY Zenon, <1>9, <1>n DEF M!WaitEnds, M!Available
  <2> QED BY ZenonT(90), <1>0, <1>9, <2>1 DEF M!WaitEnds
<1>10. CASE M!Uncount(t)
  <2>1. UNCHANGED lock /\ M!Available' = M!Available
    BY Zenon, <1>10, <1>n DEF M!Uncount, M!Available
  <2>2. Frame /\ pc[t] \in {"uncount", "timeout"} /\ pc'[t] \in {"idle", "cas", "read"}
    BY Zenon, <1>0, <1>10, <1>r DEF M!Uncount, M!Retry
  <2>3. pc[t] = "uncount" => pc'[t] \in {"cas", "read"} /\ op'[t] # "trylock"
    BY Zenon, <1>0, <1>10 DEF M!Uncount, M!Retry, M!Following, M!Counted, M!Return
  <2>4. M!UnlockersSee'
    BY SMTT(90), <1>0, <2>1, <2>2
  <2>5. M!NoLostWakeup'
    BY SMTT(90), <1>0, <2>1, <2>2, <2>3
  <2> QED BY Zenon, <2>4, <2>5
<1>11. CASE M!Unlock(t)
  <2>1. UNCHANGED lock /\ M!Available' = M!Available
    BY Zenon, <1>11, <1>n DEF M!Unlock, M!Available
  <2>2. Frame /\ pc[t] = "idle" /\ pc'[t] \in {"idle", "swap"}
    BY SMTT(90), <1>0, <1>11, <1>r DEF M!Unlock
  <2>3. pc'[t] = "swap" /\ ~saw'[t] => M!Asleep = {}
    BY Zenon, <1>0, <1>11, <1>a DEF M!Unlock, M!Return
  <2>4. M!UnlockersSee'
    BY ZenonT(90), <1>0, <2>1, <2>2, <2>3
  <2>5. M!NoLostWakeup'
    BY ZenonT(90), <1>0, <2>1, <2>2
  <2> QED BY Zenon, <2>4, <2>5
<1>12. CASE M!Swap(t)
  <2>1. Frame /\ pc[t] = "swap" /\ pc'[t] \in {"idle", "wake"}
    BY Zenon, <1>0, <1>12, <1>r DEF M!Swap, M!locals
  <2>2. \A u \in Thread : u # t => pc[u] \notin {"swap", "bury"}
    BY Zenon, <1>0, <1>h, <2>1 DEF M!Following
  <2>3. pc'[t] = "wake" \/ M!Asleep = {}
    BY Zenon, <1>0, <1>12 DEF M!Swap, M!Return
  <2>4. M!UnlockersSee'
    BY Zenon, <2>1, <2>2
  <2>5. M!NoLostWakeup'
    BY ZenonT(90), <2>1, <2>3
  <2> QED BY Zenon, <2>4, <2>5
<1>13. CASE M!Consistent(t)
  <2>1. UNCHANGED <<pc, op, saw>> /\ lock'.own = lock.own /\ lock.own = t /\ lock'.cont = lock.cont
    BY Zenon, <1>13 DEF M!Consistent
  <2>2. ~M!Available'
    BY Zenon, <1>h, <2>1 DEF M!Available
  <2> QED BY Zenon, <1>0, <2>1, <2>2
<1>14. CASE M!Exit(t)
  <2>1. UNCHANGED lock /\ M!Available' = M!Available
    BY Zenon, <1>14, <1>n DEF M!Exit, M!Available
  <2>2. /\ \A u \in Thread : u # t => pc'[u] = pc[u] /\ op'[u] = op[u] /\ saw'[u] = saw[u]
        /\ pc[t] = "idle" /\ pc'[t] \in {"bury", "gone"}
        /\ pc'[t] = "bury" /\ ~saw'[t] => M!Asleep = {}
    BY Zenon, <1>0, <1>14, <1>a DEF M!Exit
  <2>3. M!UnlockersSee'
    BY ZenonT(90), <1>0, <2>1, <2>2
  <2>4. M!NoLostWakeup'
    BY ZenonT(90), <1>0, <2>1, <2>2
  <2> QED BY Zenon, <2>3, <2>4
<1>15. CASE M!Bury(t)
  <2>1. /\ \A u \in Thread : u # t => pc'[u] = pc[u]
        /\ pc[t] = "bury" /\ pc'[t] \in {"gone", "exitwake"}
        /\ pc'[t] = "exitwake" \/ (~saw[t] /\ ~lock.cont)
    BY Zenon, <1>0, <1>15 DEF M!Bury
  <2>2. \A u \in Thread : u # t => pc[u] \notin {"swap", "bury"}
    BY Zenon, <1>0, <1>h, <2>1 DEF M!Following
  <2>3. pc'[t] = "exitwake" \/ M!Asleep = {}
    BY Zenon, <1>0, <2>1
  <2>4. M!UnlockersSee'
    BY Zenon, <2>1, <2>2
  <2>5. M!NoLostWakeup'
    BY Zenon, <2>1, <2>3
  <2> QED BY Zenon, <2>4, <2>5
<1>16. ASSUME NEW from, NEW to, M!WakeOne(t, from, to), from \in {"wake", "exitwake"},
              to \in {"idle", "gone"}
       PROVE  M!UnlockersSee' /\ M!NoLostWakeup'
  <2>1. UNCHANGED lock /\ M!Available' = M!Available
    BY Zenon, <1>16, <1>n DEF M!WakeOne, M!Available
  <2>2. CASE M!Asleep = {} /\ pc' = [pc EXCEPT ![t] = to]
    BY Zenon, <1>0, <1>16, <2>2 DEF M!WakeOne
  <2>3. CASE \E u \in M!Asleep : pc' = [pc EXCEPT ![t] = to, ![u] = "uncount"]
    <3>1. PICK u \in M!Asleep : pc' = [pc EXCEPT ![t] = to, ![u] = "uncount"]
      BY Zenon, <2>3
    <3>2. u \in Thread /\ u # t /\ pc'[u] = "uncount" /\ pc'[t] = to
      BY Zenon, <1>0, <1>16, <3>1 DEF M!WakeOne
    <3>3. \A v \in Thread : v \notin {t, u} => pc'[v] = pc[v] /\ saw'[v] = saw[v]
      BY Zenon, <1>0, <1>16, <3>1 DEF M!WakeOne
    <3>4. M!UnlockersSee'
      BY Zenon, <1>0, <1>16, <2>1, <3>2, <3>3
    <3> QED BY Zenon, <3>2, <3>4
  <2> QED BY Zenon, <1>16, <2>2, <2>3 DEF M!WakeOne
<1> QED
  BY Zenon, <1>1, <1>2, <1>3, <1>4, <1>5, <1>6, <1>7, <1>8, <1>9, <1>10, <1>11, <1>12, <1>13,
     <1>14, <1>15,
     <1>16
  DEF M!LockStep, M!UnlockStep, M!ExitStep, M!Wake, M!ExitWake

LEMMA MStep ==
    ASSUME LockConstants, M!IInv, M!Next
    PROVE  M!IInv' /\ M!StaysDead /\ (M!Abstract!Next \/ UNCHANGED M!owner)
BY Zenon, MTypes, MWaiters, MFollows, MOwnersStep, MSleepers DEF M!IInv

LEMMA MSafe ==
    ASSUME M!IInv
    PROVE  M!TypeOK /\ M!OwnerExact /\ M!DamageReported /\ M!NoLostWakeup
BY Zenon DEF M!IInv, M!HoldersExact

\* The invariant is about the variables of the component alone.
LEMMA MSame ==
    ASSUME M!IInv, UNCHANGED M!vars
    PROVE  M!IInv'
<1> USE DEF M!IInv, M!vars
<1>1. M!TypeOK'
  BY Zenon DEF M!TypeOK
<1>2. M!WaitersExact'
  BY Zenon DEF M!WaitersExact, M!Counted
<1>3. M!HoldersExact'
  BY Zenon DEF M!HoldersExact, M!OwnerExact, M!Normal
<1>4. M!Following'
  BY ZenonT(90) DEF M!Following, M!Normal, M!Counted
<1>5. M!UnlockersSee'
  BY Zenon DEF M!UnlockersSee, M!Asleep
<1>6. M!NoLostWakeup'
  BY Zenon DEF M!NoLostWakeup, M!Asleep, M!OnDuty, M!Available
<1>7. M!DamageReported'
  BY Zenon DEF M!DamageReported
<1> QED BY Zenon, <1>1, <1>2, <1>3, <1>4, <1>5, <1>6, <1>7

-----------------------------------------------------------------------------
(***************************************************************************)
(* Read-write locks.                                                       *)
(***************************************************************************)
RW == INSTANCE RWLock

\* The component counts with an instance of its own of the standard module.
LEMMA RWCount ==
    ASSUME NEW X
    PROVE  RW!Cardinality(X) = Cardinality(X)
BY Zenon DEF RW!Cardinality, Cardinality, RW!IsFiniteSet, IsFiniteSet

LEMMA RWInit ==
    ASSUME LockConstants, RW!Init
    PROVE  RW!IInv /\ RW!AbstractInit
<1>1. RW!TypeOK /\ RW!AbstractInit
  BY SMTT(90)
  DEF LockConstants, RW!Init, RW!TypeOK, RW!AbstractInit, RW!Word, RW!PC, RW!Op, RW!Read,
         RW!Write, RW!Free, RW!Exclusive
<1>2. RW!Counted = {} /\ RW!Asleep = {} /\ RW!Following /\ RW!UnlockersSee
  BY Zenon DEF RW!Init, RW!Counted, RW!Asleep, RW!Following, RW!UnlockersSee
<1>3. RW!WaitersExact
  BY Zenon, <1>2, NoCount, RWCount DEF RW!Init, RW!WaitersExact
<1>4. RW!OwnersExact
  BY SMTT(90), NoCount, RWCount DEF LockConstants, RW!Init, RW!OwnersExact, RW!WordExact, RW!Free
<1> QED
  BY Zenon, <1>1, <1>2, <1>3, <1>4 DEF RW!IInv, RW!NoLostWakeup, RW!Idle, RW!ReadersNotStranded

LEMMA RWWords ==
    ASSUME LockConstants, RW!TypeOK
    PROVE  /\ RW!Free \in RW!Word /\ RW!Exclusive \in Nat /\ RW!Exclusive > MaxReaders
           /\ lock.cnt \in 0..RW!Exclusive /\ lock.cont \in BOOLEAN
           /\ \A t \in Thread : old[t].cnt \in 0..RW!Exclusive /\ old[t].cont \in BOOLEAN
           /\ \A n \in 0..RW!Exclusive, b \in BOOLEAN : [cnt |-> n, cont |-> b] \in RW!Word
           /\ [cnt |-> RW!Exclusive, cont |-> FALSE] \in RW!Word
           /\ RW!Free.cnt = 0 /\ RW!Free.cont = FALSE
<1>1. lock \in RW!Word /\ \A t \in Thread : old[t] \in RW!Word
  BY Zenon DEF RW!TypeOK
<1>2. RW!Exclusive \in Nat /\ RW!Exclusive > MaxReaders
  BY SMTT(90) DEF LockConstants, RW!Exclusive
<1> QED
  BY SMTT(90), <1>1, <1>2 DEF RW!Free, RW!Word

\* What is known of the owners and of the word in every state of the invariant.
LEMMA RWOwners ==
    ASSUME LockConstants, RW!IInv
    PROVE  /\ Cardinality(readers) \in Nat /\ Cardinality(readers) <= MaxReaders
           /\ Cardinality(readers) = 0 <=> readers = {}
           /\ lock.cnt = RW!Exclusive <=> writer # NoThread
           /\ writer = NoThread => lock.cnt = Cardinality(readers)
           /\ lock.cnt = 0 <=> lock = RW!Free
           /\ lock = RW!Free <=> writer = NoThread /\ readers = {}
           /\ \A t \in readers : lock.cnt = 1 => readers = {t}
<1>1. /\ Cardinality(readers) \in Nat /\ readers \in SUBSET Thread
      /\ Cardinality(readers) = 0 <=> readers = {}
  BY Zenon, NoneCounted DEF LockConstants, RW!IInv, RW!TypeOK
<1>2. /\ RW!Exclusive \in Nat /\ RW!Exclusive > MaxReaders /\ RW!Free.cnt = 0
  BY Zenon, RWWords DEF RW!IInv
<1>3. /\ Cardinality(readers) <= MaxReaders
      /\ lock.cnt = IF writer # NoThread THEN RW!Exclusive ELSE Cardinality(readers)
      /\ writer # NoThread => readers = {}
      /\ lock.cnt = 0 => lock = RW!Free
  BY Zenon, RWCount DEF RW!IInv, RW!OwnersExact, RW!WordExact
<1>4. MaxReaders \in Nat /\ MaxReaders # 0
  BY Zenon DEF LockConstants
<1>5. ASSUME NEW t \in readers, lock.cnt = 1
      PROVE  readers = {t}
  <2>1. writer = NoThread /\ Cardinality(readers) = 1
    BY Zenon, <1>3, <1>5
  <2>2. /\ readers \ {t} \in SUBSET Thread /\ t \in Thread
        /\ \A u \in Thread : u # t => (u \in readers <=> u \in readers \ {t})
    BY Zenon, <1>1
  <2>3. Cardinality(readers \ {t}) = 0
    BY SMTT(90), <1>1, <2>1, <2>2, OneMoves DEF LockConstants
  <2> QED
    BY Zenon, <2>2, <2>3, NoneCounted DEF LockConstants
<1> QED
  BY SMTT(90), <1>1, <1>2, <1>3, <1>4, <1>5

\* The types and the locals of a thread.
LEMMA RWFollows ==
    ASSUME LockConstants, RW!IInv, RW!Next
    PROVE  RW!TypeOK' /\ RW!Following'
<1> SUFFICES ASSUME NEW t \in Thread,
                    \/ \E o \in RW!Op : RW!Call(t, o)
                    \/ RW!LockStep(t) \/ RW!WaitEnds(t) \/ RW!Unlock(t) \/ RW!UnlockStep(t)
             PROVE  RW!TypeOK' /\ RW!Following'
  BY Zenon DEF RW!Next
<1> USE DEF RW!TypeOK, RW!Following, RW!Counted, RW!PC, RW!Goto, RW!Return
<1>0. RW!TypeOK /\ RW!Following
  BY Zenon DEF RW!IInv
<1>w. /\ RW!Free \in RW!Word /\ RW!Exclusive \in Nat /\ RW!Exclusive > MaxReaders
      /\ lock.cnt \in 0..RW!Exclusive /\ lock.cont \in BOOLEAN
      /\ \A u \in Thread : old[u].cnt \in 0..RW!Exclusive /\ old[u].cont \in BOOLEAN
      /\ \A n \in 0..RW!Exclusive, b \in BOOLEAN : [cnt |-> n, cont |-> b] \in RW!Word
      /\ [cnt |-> RW!Exclusive, cont |-> FALSE] \in RW!Word
      /\ RW!Free.cnt = 0 /\ RW!Free.cont = FALSE
  BY Zenon, <1>0, RWWords
<1>o. /\ Cardinality(readers) \in Nat /\ Cardinality(readers) <= MaxReaders
      /\ lock.cnt = RW!Exclusive <=> writer # NoThread
      /\ writer = NoThread => lock.cnt = Cardinality(readers)
      /\ lock = RW!Free <=> lock.cnt = 0
  BY Zenon, RWOwners
<1>n. NoThread \notin Thread /\ "rdlock" \in RW!Op
  BY Zenon DEF LockConstants, RW!Read, RW!Op
<1>r. ASSUME NEW from, RW!Return(t, from)
      PROVE  /\ pc' \in [Thread -> RW!PC] /\ op' \in [Thread -> RW!Op]
             /\ old' \in [Thread -> RW!Word] /\ saw' \in [Thread -> BOOLEAN]
  BY Zenon, <1>0, <1>n, <1>w, <1>r
<1>1. CASE \E o \in RW!Op : RW!Call(t, o)
  BY SMTT(90), <1>0, <1>1 DEF RW!Call
<1>2. CASE pc[t] = "try" /\ RW!TryRdLock(t)
  <2>1. lock' \in RW!Word
    BY SMTT(90), <1>0, <1>2, <1>w, <1>o DEF RW!TryRdLock, RW!IsBusy, RW!Full, LockConstants
  <2>2. RW!TypeOK'
    <3> HIDE DEF RW!Return
    <3> QED BY ZenonT(90), <1>0, <1>2, <1>r, <2>1 DEF RW!TryRdLock, RW!IsBusy, RW!locals
  <2>3. RW!Following'
    BY SMTT(90), <1>0, <1>2 DEF RW!TryRdLock, RW!IsBusy, RW!locals
  <2> QED BY ZenonT(90), <2>2, <2>3
<1>3. CASE pc[t] = "try" /\ RW!TryWrLock(t)
  <2>1. lock' \in RW!Word
    BY Zenon, <1>0, <1>3, <1>w DEF RW!TryWrLock, RW!IsBusy, RW!locals
  <2>2. RW!TypeOK'
    <3> HIDE DEF RW!Return
    <3> QED BY ZenonT(90), <1>0, <1>3, <1>r, <2>1 DEF RW!TryWrLock, RW!IsBusy, RW!locals
  <2>3. RW!Following'
    <3>1. lock = RW!Free => \A u \in Thread : pc[u] \notin {"unlock", "peek", "cas"}
      BY Zenon, <1>0, <1>n, RWOwners
    <3> QED
      BY SMTT(90), <1>0, <1>3, <3>1 DEF RW!TryWrLock, RW!IsBusy, RW!locals
  <2> QED BY ZenonT(90), <2>2, <2>3
<1>4. CASE RW!Look(t)
  <2>1. RW!Blocked(t) => lock.cnt > 0 /\ (op[t] \in RW!Read => lock.cnt = RW!Exclusive)
    BY SMTT(90), <1>w, <1>o DEF RW!Blocked, LockConstants
  <2> QED
    BY SMTT(90), <1>0, <1>4, <2>1 DEF RW!Look, RW!locals
<1>5. CASE RW!Count(t)
  BY SMTT(90), <1>0, <1>5 DEF RW!Count
<1>6. CASE RW!Mark(t)
  <2>1. RW!Marked(lock) \in RW!Word /\ RW!Marked(old[t]) \in RW!Word
    BY Zenon, <1>w DEF RW!Marked
  <2>2. RW!Marked(old[t]).cnt = old[t].cnt /\ RW!Marked(old[t]).cont = TRUE
    BY Zenon DEF RW!Marked
  <2> QED
    BY ZenonT(90), <1>0, <1>6, <2>1, <2>2 DEF RW!Mark
<1>7. CASE RW!Wait(t)
  BY ZenonT(90), <1>0, <1>7 DEF RW!Wait
<1>8. CASE RW!Uncount(t)
  <2>0. t \in RW!Counted /\ RW!Counted \in SUBSET Thread
    BY Zenon, <1>8 DEF RW!Uncount
  <2>1. waiters - 1 \in Nat
    <3> HIDE DEF RW!Counted
    <3> QED BY SMTT(90), <2>0, NoneCounted, RWCount DEF RW!IInv, RW!WaitersExact, LockConstants
  <2> QED
    BY SMTT(90), <1>0, <1>8, <1>r, <1>w, <2>1 DEF RW!Uncount
<1>9. CASE RW!WaitEnds(t)
  BY ZenonT(90), <1>0, <1>9 DEF RW!WaitEnds
<1>10. CASE RW!Unlock(t)
  BY Zenon, <1>0, <1>10 DEF RW!Unlock
<1>11. CASE RW!ReadLock(t) \/ RW!ReadWaiters(t)
  <2>1. CASE RW!ReadLock(t)
    BY Zenon, <1>0, <2>1 DEF RW!ReadLock
  <2>2. CASE RW!ReadWaiters(t)
    BY Zenon, <1>0, <2>2 DEF RW!ReadWaiters
  <2> QED BY Zenon, <1>11, <2>1, <2>2
<1>12. CASE RW!Release(t)
  <2>0. t \in readers \/ writer = t
    BY ZenonT(90), <1>0, <1>12 DEF RW!Release
  <2>1. RW!Released(lock) \in RW!Word
    <3>1. lock.cnt > 0
      BY SMTT(90), <1>n, <1>w, <2>0, RWOwners DEF LockConstants
    <3> QED
      BY SMTT(90), <1>w, <3>1 DEF RW!Released
  <2>2. RW!TypeOK'
    <3> HIDE DEF RW!Return
    <3> QED BY Zenon, <1>0, <1>12, <1>r, <2>1 DEF RW!Release, RW!locals
  <2>3. readers' \subseteq readers /\ writer' \in {writer, NoThread}
    BY Zenon, <1>12 DEF RW!Release
  <2>4. \A u \in Thread : u # t =>
          /\ pc'[u] = pc[u] /\ op'[u] = op[u] /\ old'[u] = old[u]
          /\ u \in readers' <=> u \in readers
          /\ writer' = u <=> writer = u
    BY ZenonT(90), <1>0, <1>12, <1>n DEF RW!Release, RW!locals
  <2>5. pc'[t] \in {"wake", "idle"} \/ (pc'[t] = "unlock" /\ readers' = readers /\ writer' = writer)
    BY Zenon, <1>0, <1>12 DEF RW!Release
  <2>6. RW!Following'
    BY SMTT(90), <1>0, <2>0, <2>4, <2>5
  <2> QED BY ZenonT(90), <2>2, <2>6
<1>13. CASE RW!Wake(t)
  BY SMTT(90), <1>0, <1>13, <1>w DEF RW!Wake, RW!Asleep
<1> QED
  BY Zenon, <1>1, <1>2, <1>3, <1>4, <1>5, <1>6, <1>7, <1>8, <1>9, <1>10, <1>11, <1>12, <1>13
  DEF RW!LockStep, RW!UnlockStep

\* _rw_waiters counts the waiters.
LEMMA RWWaiters ==
    ASSUME LockConstants, RW!IInv, RW!Next
    PROVE  RW!WaitersExact'
<1> SUFFICES ASSUME NEW t \in Thread,
                    \/ \E o \in RW!Op : RW!Call(t, o)
                    \/ RW!LockStep(t) \/ RW!WaitEnds(t) \/ RW!Unlock(t) \/ RW!UnlockStep(t)
             PROVE  RW!WaitersExact'
  BY Zenon DEF RW!Next
<1>1. /\ RW!TypeOK /\ waiters = Cardinality(RW!Counted)
      /\ RW!Counted \in SUBSET Thread /\ RW!Counted' \in SUBSET Thread
  BY Zenon, RWCount DEF RW!IInv, RW!WaitersExact, RW!Counted
<1>2. CASE RW!Count(t) \/ RW!Uncount(t)
  <2>1. \A u \in Thread : u # t => (u \in RW!Counted <=> u \in RW!Counted')
    BY Zenon, <1>1, <1>2 DEF RW!Count, RW!Uncount, RW!Goto, RW!Return, RW!TypeOK, RW!Counted
  <2>2. \/ waiters' = waiters + 1 /\ t \notin RW!Counted /\ t \in RW!Counted'
        \/ waiters' = waiters - 1 /\ t \in RW!Counted /\ t \notin RW!Counted'
    BY Zenon, <1>1, <1>2 DEF RW!Count, RW!Uncount, RW!Goto, RW!Return, RW!TypeOK, RW!Counted
  <2>3. waiters' = Cardinality(RW!Counted')
    BY SMTT(90), <1>1, <2>1, <2>2, OneMoves DEF LockConstants
  <2> QED
    BY Zenon, <2>3, RWCount DEF RW!WaitersExact
<1>3. CASE ~(RW!Count(t) \/ RW!Uncount(t))
  <2>1. waiters' = waiters
    BY Zenon, <1>3 DEF RW!Call, RW!LockStep, RW!TryRdLock, RW!TryWrLock, RW!Look, RW!Mark, RW!Wait,
                RW!WaitEnds, RW!Unlock, RW!UnlockStep, RW!ReadLock, RW!ReadWaiters, RW!Release,
                RW!Wake
  <2>2. RW!Counted' = RW!Counted
    <3>1. CASE RW!Wake(t)
      BY Zenon, <1>1, <3>1 DEF RW!Wake, RW!Asleep, RW!Counted, RW!TypeOK
    <3>2. CASE pc[t] = "try" /\ (RW!TryRdLock(t) \/ RW!TryWrLock(t))
      BY ZenonT(90), <1>1, <3>2
      DEF RW!TryRdLock, RW!TryWrLock, RW!IsBusy, RW!Goto, RW!Return, RW!Counted, RW!TypeOK
    <3>3. CASE RW!UnlockStep(t) /\ ~RW!Wake(t)
      BY Zenon, <1>1, <3>3
      DEF RW!UnlockStep, RW!ReadLock, RW!ReadWaiters, RW!Release, RW!Goto, RW!Return, RW!Counted,
          RW!TypeOK
    <3>4. CASE (\E o \in RW!Op : RW!Call(t, o)) \/ RW!WaitEnds(t) \/ RW!Unlock(t) \/ RW!Look(t)
               \/ RW!Mark(t) \/ RW!Wait(t)
      BY Zenon, <1>1, <3>4
      DEF RW!Call, RW!WaitEnds, RW!Unlock, RW!Look, RW!Mark, RW!Wait, RW!Goto, RW!Counted,
          RW!TypeOK
    <3> QED BY Zenon, <1>3, <3>1, <3>2, <3>3, <3>4 DEF RW!LockStep
  <2> QED
    BY Zenon, <1>1, <2>1, <2>2, RWCount DEF RW!WaitersExact
<1> QED BY Zenon, <1>2, <1>3

\* The steps that change the word, apart from its mark: who holds the lock after them.
LEMMA RWOwnersStep ==
    ASSUME LockConstants, RW!IInv, RW!Next
    PROVE  RW!OwnersExact' /\ (RW!AbstractNext \/ UNCHANGED RW!owners)
<1> SUFFICES ASSUME NEW t \in Thread,
                    \/ \E o \in RW!Op : RW!Call(t, o)
                    \/ RW!LockStep(t) \/ RW!WaitEnds(t) \/ RW!Unlock(t) \/ RW!UnlockStep(t)
             PROVE  RW!OwnersExact' /\ (RW!AbstractNext \/ UNCHANGED RW!owners)
  BY Zenon DEF RW!Next
<1>0. /\ RW!TypeOK /\ RW!Following /\ RW!OwnersExact /\ readers \in SUBSET Thread
      /\ NoThread \notin Thread /\ MaxReaders \in Nat /\ MaxReaders # 0
  BY Zenon DEF RW!IInv, RW!TypeOK, LockConstants
<1>w. /\ RW!Exclusive \in Nat /\ RW!Exclusive > MaxReaders
      /\ lock.cnt \in 0..RW!Exclusive
      /\ RW!Free.cnt = 0 /\ RW!Free.cont = FALSE
  BY Zenon, <1>0, RWWords
<1>o. /\ Cardinality(readers) \in Nat /\ Cardinality(readers) <= MaxReaders
      /\ Cardinality(readers) = 0 <=> readers = {}
      /\ lock.cnt = RW!Exclusive <=> writer # NoThread
      /\ writer = NoThread => lock.cnt = Cardinality(readers)
      /\ lock = RW!Free <=> writer = NoThread /\ readers = {}
      /\ \A u \in readers : lock.cnt = 1 => readers = {u}
      /\ writer # NoThread => readers = {}
  BY Zenon, <1>0, RWOwners DEF RW!OwnersExact
<1>1. CASE /\ UNCHANGED <<readers, writer>> /\ lock'.cnt = lock.cnt
           /\ lock' = lock \/ lock.cnt > 0
  BY SMTT(90), <1>0, <1>1 DEF RW!OwnersExact, RW!WordExact, RW!owners
<1>2. ASSUME writer = NoThread, t \notin readers, readers' = readers \cup {t}, writer' = writer,
             lock'.cnt = lock.cnt + 1, lock.cnt # MaxReaders
      PROVE  RW!OwnersExact' /\ RW!AbstractNext
  <2>1. \A u \in Thread : u # t => (u \in readers <=> u \in readers')
    BY Zenon, <1>2
  <2>2. Cardinality(readers') = Cardinality(readers) + 1 /\ readers' \in SUBSET Thread
    BY SMTT(90), <1>0, <1>2, <2>1, OneMoves DEF LockConstants
  <2>3. RW!Share(t)
    BY Zenon, <1>2 DEF RW!Share, RW!owners
  <2> QED
    BY SMTT(90), <1>0, <1>2, <1>o, <2>2, <2>3, RWCount
    DEF RW!OwnersExact, RW!WordExact, RW!AbstractNext
<1>3. ASSUME lock = RW!Free, writer' = t, readers' = readers, lock'.cnt = RW!Exclusive
      PROVE  RW!OwnersExact' /\ RW!AbstractNext
  <2>1. RW!Own(t)
    BY Zenon, <1>3, <1>o DEF RW!Own, RW!owners
  <2> QED
    BY Zenon, <1>0, <1>3, <1>o, <1>w, <2>1, RWCount
    DEF RW!OwnersExact, RW!WordExact, RW!AbstractNext
<1>4. CASE pc[t] = "try" /\ RW!TryRdLock(t)
  <2>1. t \notin readers /\ writer # t
    BY Zenon, <1>0, <1>4 DEF RW!Following
  <2>2. CASE lock.cnt # RW!Exclusive /\ ~RW!Full
    BY SMTT(90), <1>2, <1>4, <1>o, <2>1, <2>2 DEF RW!TryRdLock, RW!Full
  <2>3. CASE lock.cnt = RW!Exclusive \/ RW!Full
    BY Zenon, <1>1, <1>4, <2>3 DEF RW!TryRdLock
  <2> QED BY Zenon, <2>2, <2>3
<1>5. CASE pc[t] = "try" /\ RW!TryWrLock(t)
  <2>1. CASE lock = RW!Free
    BY SMTT(90), <1>3, <1>5, <2>1 DEF RW!TryWrLock
  <2>2. CASE lock # RW!Free
    BY Zenon, <1>1, <1>5, <2>2 DEF RW!TryWrLock
  <2> QED BY ZenonT(90), <2>1, <2>2
<1>6. CASE RW!Mark(t)
  <2>1. old[t].cnt > 0
    BY Zenon, <1>0, <1>6 DEF RW!Mark, RW!Goto, RW!Following
  <2> QED
    BY Zenon, <1>1, <1>6, <2>1 DEF RW!Mark, RW!Marked
<1>7. CASE RW!Release(t)
  <2>1. CASE lock # old[t]
    BY Zenon, <1>1, <1>7, <2>1 DEF RW!Release
  <2>2. CASE lock = old[t]
    <3>1. t \in readers \/ writer = t
      BY Zenon, <1>0, <1>7 DEF RW!Release, RW!Goto, RW!Return, RW!Following
    <3>2. /\ lock' = RW!Released(lock) /\ readers' = readers \ {t}
          /\ writer' = IF writer = t THEN NoThread ELSE writer
      BY Zenon, <1>7, <2>2 DEF RW!Release
    <3>3. CASE writer = t
      <4>1. lock' = RW!Free /\ readers' = readers /\ readers = {} /\ writer' = NoThread
        BY Zenon, <1>0, <1>o, <3>2, <3>3 DEF RW!Released
      <4>2. RW!Leave(t)
        BY Zenon, <3>3, <4>1 DEF RW!Leave, RW!owners
      <4> QED
        BY Zenon, <1>0, <1>o, <1>w, <4>1, <4>2, RWCount
        DEF RW!OwnersExact, RW!WordExact, RW!AbstractNext
    <3>4. CASE writer # t
      <4>1. t \in readers /\ writer = NoThread /\ writer' = writer
        BY Zenon, <1>o, <3>1, <3>2, <3>4
      <4>2. \A u \in Thread : u # t => (u \in readers <=> u \in readers')
        BY Zenon, <3>2
      <4>3. Cardinality(readers') = Cardinality(readers) - 1 /\ readers' \in SUBSET Thread
        BY ZenonT(90), <1>0, <3>2, <4>1, <4>2, OneMoves DEF LockConstants
      <4>4. /\ lock'.cnt = lock.cnt - 1
            /\ lock'.cnt = 0 => lock' = RW!Free
        BY SMTT(90), <1>o, <1>w, <3>2, <4>1 DEF RW!Released
      <4>5. RW!Leave(t)
        BY Zenon, <3>2, <4>1 DEF RW!Leave, RW!owners
      <4> QED
        BY SMTT(90), <1>0, <1>o, <1>w, <4>1, <4>3, <4>4, <4>5, RWCount
        DEF RW!OwnersExact, RW!WordExact, RW!AbstractNext
    <3> QED BY Zenon, <3>3, <3>4
  <2> QED BY Zenon, <2>1, <2>2
<1>8. CASE UNCHANGED <<lock, readers, writer>>
  BY Zenon, <1>1, <1>8
<1> QED
  BY Zenon, <1>4, <1>5, <1>6, <1>7, <1>8
  DEF RW!Call, RW!LockStep, RW!Look, RW!Count, RW!Wait, RW!Uncount, RW!WaitEnds, RW!Unlock,
      RW!UnlockStep, RW!ReadLock, RW!ReadWaiters, RW!Wake

\* A thread that neither sleeps nor unlocks does not hide the sleepers.
LEMMA RWSeen ==
    ASSUME NEW t \in Thread, RW!UnlockersSee, lock'.cont = lock.cont,
           \A u \in Thread : u # t => pc'[u] = pc[u] /\ saw'[u] = saw[u],
           pc'[t] \notin {"cas", "asleep"}
    PROVE  RW!UnlockersSee'
<1>1. \A u \in Thread : pc'[u] \in {"cas", "asleep"} => pc'[u] = pc[u] /\ saw'[u] = saw[u]
  BY Zenon
<1>2. RW!Asleep = {} => RW!Asleep' = {}
  BY Zenon, <1>1 DEF RW!Asleep
<1> QED BY Zenon, <1>1, <1>2 DEF RW!UnlockersSee

\* Sleepers: a thread that unlocks sees them, and none is left behind.
LEMMA RWSleepers ==
    ASSUME LockConstants, RW!IInv, RW!Next
    PROVE  RW!UnlockersSee' /\ RW!NoLostWakeup' /\ RW!ReadersNotStranded'
<1> SUFFICES ASSUME NEW t \in Thread,
                    \/ \E o \in RW!Op : RW!Call(t, o)
                    \/ RW!LockStep(t) \/ RW!WaitEnds(t) \/ RW!Unlock(t) \/ RW!UnlockStep(t)
             PROVE  RW!UnlockersSee' /\ RW!NoLostWakeup' /\ RW!ReadersNotStranded'
  BY Zenon DEF RW!Next
<1>0. /\ RW!TypeOK /\ RW!Following
      /\ RW!UnlockersSee /\ RW!NoLostWakeup /\ RW!ReadersNotStranded
      /\ NoThread \notin Thread /\ MaxReaders # 0
  BY Zenon DEF RW!IInv, LockConstants
<1>w. /\ RW!Exclusive \in Nat /\ RW!Exclusive # 0 /\ lock.cnt \in Nat
      /\ RW!Free.cnt = 0 /\ RW!Free.cont = FALSE
  <2>1. MaxReaders \in Nat
    BY Zenon DEF LockConstants
  <2>2. /\ RW!Exclusive \in Nat /\ RW!Exclusive > MaxReaders /\ lock.cnt \in 0..RW!Exclusive
        /\ RW!Free.cnt = 0 /\ RW!Free.cont = FALSE
    BY Zenon, <1>0, RWWords
  <2> QED BY SMTT(90), <2>1, <2>2
<1>o. /\ lock.cnt = RW!Exclusive <=> writer # NoThread
      /\ lock = RW!Free <=> lock.cnt = 0
      /\ lock = RW!Free <=> writer = NoThread /\ readers = {}
      /\ \A u \in readers : lock.cnt = 1 => readers = {u}
      /\ writer # NoThread => readers = {}
  BY Zenon, RWOwners DEF RW!IInv, RW!OwnersExact
<1> USE DEF RW!UnlockersSee, RW!NoLostWakeup, RW!ReadersNotStranded, RW!Idle, RW!OnDuty,
            RW!Asleep, RW!Goto, RW!Return, RW!TypeOK
<1>1. CASE \E o \in RW!Op : RW!Call(t, o)
  BY SMTT(90), <1>0, <1>1 DEF RW!Call
<1>2. CASE pc[t] = "try" /\ RW!TryRdLock(t)
  <2>1. lock'.cont = lock.cont
    BY SMTT(90), <1>2 DEF RW!TryRdLock
  <2>2. UNCHANGED writer /\ lock' # RW!Free
    BY SMTT(90), <1>0, <1>2, <1>w, <1>o DEF RW!TryRdLock, RW!Full
  <2>3. \A u \in Thread : u # t => pc'[u] = pc[u] /\ op'[u] = op[u] /\ old'[u] = old[u] /\ saw'[u] = saw[u]
    BY ZenonT(90), <1>0, <1>2 DEF RW!TryRdLock, RW!IsBusy, RW!locals
  <2>4. pc'[t] \in {"idle", "look"}
    BY Zenon, <1>0, <1>2 DEF RW!TryRdLock, RW!IsBusy
  <2>5. RW!UnlockersSee'
    BY Zenon, <1>0, <2>1, <2>3, <2>4, RWSeen
  <2>6. RW!NoLostWakeup'
    BY Zenon, <2>2
  <2>7. RW!ReadersNotStranded'
    BY ZenonT(90), <1>0, <1>2, <2>2, <2>3, <2>4
  <2> QED BY Zenon, <2>5, <2>6, <2>7
<1>3. CASE pc[t] = "try" /\ RW!TryWrLock(t)
  <2>1. \A u \in Thread : u # t =>
          pc'[u] = pc[u] /\ op'[u] = op[u] /\ old'[u] = old[u] /\ saw'[u] = saw[u]
    BY ZenonT(90), <1>0, <1>3 DEF RW!TryWrLock, RW!IsBusy, RW!locals
  <2>2. pc'[t] \in {"idle", "look"}
    BY ZenonT(90), <1>0, <1>3 DEF RW!TryWrLock, RW!IsBusy
  <2>3. CASE lock = RW!Free
    <3>1. lock'.cnt = RW!Exclusive /\ writer' # NoThread
      BY SMTT(90), <1>0, <1>3, <2>3 DEF RW!TryWrLock
    <3>2. \A u \in Thread : pc[u] # "cas"
      BY Zenon, <1>0, <1>o, <2>3 DEF RW!Following
    <3>3. RW!UnlockersSee'
      BY Zenon, <2>1, <2>2, <3>2
    <3> QED
      BY Zenon, <1>w, <3>1, <3>3
  <2>4. CASE lock # RW!Free
    <3>1. UNCHANGED <<lock, writer>>
      BY Zenon, <1>3, <2>4 DEF RW!TryWrLock
    <3>2. RW!UnlockersSee'
      BY Zenon, <1>0, <2>1, <2>2, <3>1, RWSeen
    <3>3. RW!ReadersNotStranded'
      BY ZenonT(90), <1>0, <1>3, <2>1, <2>2, <3>1
    <3> QED
      BY Zenon, <2>4, <3>1, <3>2, <3>3
  <2> QED BY Zenon, <2>3, <2>4
<1>4. CASE RW!Look(t)
  BY SMTT(90), <1>0, <1>4, <1>o, <1>w DEF RW!Look, RW!Blocked, RW!locals
<1>5. CASE RW!Count(t)
  BY Zenon, <1>0, <1>5 DEF RW!Count
<1>6. CASE RW!Mark(t)
  <2>1. lock' = lock \/ (lock'.cont /\ lock' # RW!Free)
    BY SMTT(90), <1>6, <1>w DEF RW!Mark, RW!Marked
  <2> QED
    BY Zenon, <1>0, <1>6, <2>1 DEF RW!Mark
<1>7. CASE RW!Wait(t)
  BY SMTT(90), <1>0, <1>7, <1>w, <1>o DEF RW!Wait, RW!Following
<1>8. CASE RW!Uncount(t)
  BY SMTT(90), <1>0, <1>8 DEF RW!Uncount, RW!Following, RW!Counted
<1>9. CASE RW!WaitEnds(t)
  BY Zenon, <1>0, <1>9 DEF RW!WaitEnds
<1>10. CASE RW!Unlock(t) \/ RW!ReadLock(t)
  BY SMTT(90), <1>0, <1>10 DEF RW!Unlock, RW!ReadLock
<1>11. CASE RW!ReadWaiters(t)
  <2>1. waiters = 0 => RW!Asleep = {}
    BY Zenon, NoneCounted, RWCount DEF LockConstants, RW!IInv, RW!WaitersExact, RW!Counted
  <2> QED
    BY Zenon, <1>0, <1>11, <2>1 DEF RW!ReadWaiters
<1>12. CASE RW!Release(t)
  <2>1. /\ \A u \in Thread : u # t =>
             pc'[u] = pc[u] /\ op'[u] = op[u] /\ old'[u] = old[u] /\ saw'[u] = saw[u]
        /\ pc[t] = "cas" /\ pc'[t] \in {"idle", "wake", "unlock"}
    BY ZenonT(90), <1>0, <1>12 DEF RW!Release, RW!locals
  <2>2. t \in readers \/ writer = t
    BY Zenon, <1>0, <2>1 DEF RW!Following
  <2>3. CASE lock # old[t]
    <3>1. UNCHANGED <<lock, writer>> /\ pc'[t] = "unlock"
      BY Zenon, <1>0, <1>12, <2>3 DEF RW!Release
    <3>2. RW!UnlockersSee'
      <4>1. lock'.cont = lock.cont
        BY Zenon, <3>1
      <4> QED BY Zenon, <1>0, <2>1, <3>1, <4>1, RWSeen
    <3>3. lock # RW!Free
      BY Zenon, <1>0, <1>o, <2>2
    <3>4. RW!NoLostWakeup'
      BY Zenon, <3>1, <3>3
    <3>5. RW!ReadersNotStranded'
      BY ZenonT(90), <1>0, <2>1, <3>1
    <3> QED BY Zenon, <3>2, <3>4, <3>5
  <2>4. CASE lock = old[t] /\ RW!Released(lock) # RW!Free
    <3>0. /\ lock.cnt # RW!Exclusive
          /\ RW!Released(lock) = [cnt |-> lock.cnt - 1, cont |-> lock.cont]
      BY Zenon, <2>4 DEF RW!Released
    <3>1. lock.cnt # RW!Exclusive /\ lock' # RW!Free /\ lock'.cont = lock.cont /\ writer' = writer
      <4>1. lock' = RW!Released(lock) /\ writer' = IF writer = t THEN NoThread ELSE writer
        BY Zenon, <1>12, <2>4 DEF RW!Release
      <4>2. writer = NoThread
        BY Zenon, <1>o, <3>0
      <4>3. RW!Released(lock).cont = lock.cont
        BY SMTT(90), <3>0
      <4> QED
        BY Zenon, <2>4, <3>0, <4>1, <4>2, <4>3
    <3>2. pc'[t] = "idle"
      BY ZenonT(90), <1>0, <1>12, <2>4 DEF RW!Release, RW!MustWake
    <3>3. RW!UnlockersSee'
      BY Zenon, <1>0, <2>1, <3>1, <3>2, RWSeen
    <3>4. RW!ReadersNotStranded'
      BY ZenonT(90), <1>0, <2>1, <3>1, <3>2
    <3> QED
      BY Zenon, <3>1, <3>3, <3>4
  <2>5. CASE lock = old[t] /\ RW!Released(lock) = RW!Free
    <3>1. writer = t \/ readers = {t}
      BY SMTT(90), <1>o, <1>w, <2>2, <2>5 DEF RW!Released
    <3>2. \A u \in Thread : u # t => pc[u] # "cas"
      BY Zenon, <1>0, <1>o, <3>1 DEF RW!Following
    <3>3. RW!UnlockersSee'
      BY Zenon, <2>1, <3>2
    <3>4. CASE RW!MustWake(t)
      <4>1. pc'[t] = "wake" /\ old' = old
        BY Zenon, <1>0, <1>12, <2>5, <3>4 DEF RW!Release, RW!locals
      <4>2. writer # NoThread => old'[t].cnt = RW!Exclusive
        BY Zenon, <1>o, <2>5, <4>1
      <4>3. RW!ReadersNotStranded'
        BY ZenonT(90), <1>0, <2>1, <4>1, <4>2
      <4> QED
        BY Zenon, <3>3, <4>1, <4>3
    <3>5. CASE ~RW!MustWake(t)
      <4>1. ~saw[t] /\ ~lock.cont
        BY Zenon, <2>5, <3>5 DEF RW!MustWake
      <4>2. RW!Asleep = {}
        BY Zenon, <1>0, <2>1, <4>1
      <4> QED
        BY ZenonT(90), <2>1, <3>3, <4>2
    <3> QED BY Zenon, <3>4, <3>5
  <2> QED BY Zenon, <2>3, <2>4, <2>5
<1>13. CASE RW!Wake(t)
  <2>1. pc[t] = "wake" /\ UNCHANGED <<lock, writer, op>>
    BY Zenon, <1>13 DEF RW!Wake
  <2>2. CASE old[t].cnt = RW!Exclusive \/ RW!Asleep = {}
    <3>1. pc' = [u \in Thread |-> IF u = t THEN "idle" ELSE
                                  IF u \in RW!Asleep THEN "uncount" ELSE pc[u]]
      BY Zenon, <1>13, <2>2 DEF RW!Wake
    <3>2. RW!Asleep' = {}
      BY Zenon, <3>1
    <3> QED
      BY Zenon, <3>2
  <2>3. CASE ~(old[t].cnt = RW!Exclusive \/ RW!Asleep = {})
    <3>1. PICK u \in RW!Asleep : pc' = [pc EXCEPT ![t] = "idle", ![u] = "uncount"]
      BY Zenon, <1>13, <2>3 DEF RW!Wake
    <3>2. \A s \in Thread : s # t => old'[s] = old[s] /\ saw'[s] = saw[s]
      BY Zenon, <1>0, <1>13 DEF RW!Wake
    <3>3. RW!UnlockersSee'
      BY Zenon, <1>0, <2>1, <3>1, <3>2
    <3>4. RW!ReadersNotStranded'
      <4>1. \A s \in RW!Asleep' : s \in RW!Asleep
        BY Zenon, <1>0, <2>1, <3>1
      <4>2. \A s \in Thread : pc[s] = "wake" /\ old[s].cnt = RW!Exclusive =>
              pc'[s] = "wake" /\ old'[s].cnt = RW!Exclusive
        BY Zenon, <1>0, <2>3, <3>1, <3>2
      <4> QED
        BY Zenon, <1>0, <2>1, <4>1, <4>2
    <3>5. u \in RW!OnDuty'
      BY Zenon, <1>0, <2>1, <3>1
    <3> QED
      BY Zenon, <3>3, <3>4, <3>5
  <2> QED BY Zenon, <2>2, <2>3
<1> QED
  BY Zenon, <1>1, <1>2, <1>3, <1>4, <1>5, <1>6, <1>7, <1>8, <1>9, <1>10, <1>11, <1>12, <1>13
  DEF RW!LockStep, RW!UnlockStep

LEMMA RWStep ==
    ASSUME LockConstants, RW!IInv, RW!Next
    PROVE  RW!IInv' /\ (RW!AbstractNext \/ UNCHANGED RW!owners)
BY Zenon, RWFollows, RWWaiters, RWOwnersStep, RWSleepers DEF RW!IInv

LEMMA RWSafe ==
    ASSUME RW!IInv
    PROVE  RW!TypeOK /\ RW!WordExact /\ RW!NoLostWakeup /\ RW!ReadersNotStranded
BY Zenon DEF RW!IInv, RW!OwnersExact

\* The invariant is about the variables of the component alone.
LEMMA RWSame ==
    ASSUME RW!IInv, UNCHANGED RW!vars
    PROVE  RW!IInv'
<1> USE DEF RW!IInv, RW!vars
<1>1. RW!TypeOK'
  BY Zenon DEF RW!TypeOK
<1>2. RW!WaitersExact'
  BY Zenon DEF RW!WaitersExact, RW!Counted
<1>3. RW!OwnersExact'
  BY Zenon DEF RW!OwnersExact, RW!WordExact
<1>4. RW!Following'
  BY Zenon DEF RW!Following, RW!Counted
<1>5. RW!UnlockersSee'
  BY Zenon DEF RW!UnlockersSee, RW!Asleep
<1>6. RW!NoLostWakeup'
  BY Zenon DEF RW!NoLostWakeup, RW!Idle, RW!Asleep, RW!OnDuty
<1>7. RW!ReadersNotStranded'
  BY Zenon DEF RW!ReadersNotStranded, RW!Asleep
<1> QED BY Zenon, <1>1, <1>2, <1>3, <1>4, <1>5, <1>6, <1>7

=============================================================================
