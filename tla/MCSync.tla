------------------------------- MODULE MCSync -------------------------------
(***************************************************************************)
(* The synchronisation primitives for TLC.  They share no state, so a      *)
(* behaviour is one of a single primitive: part says which, and x1, x2 ... *)
(* are its variables, in the order of the substitutions below.             *)
(***************************************************************************)
EXTENDS Integers, FiniteSets, FiniteSetTheorems, TLC, TLAPS

CONSTANTS
    t1, t2, t3,
    NoThread, Busy, Dead, Nil,
    Thread, Peer, Sharer, Waiter, Signaler, Types,
    MaxCount, MaxReaders, ValueMax, Initial, MaxUndo, MaxCalls,
    Limits, Sizes, Shared

ASSUME SyncAssumption ==
    /\ IsFiniteSet(Thread) /\ IsFiniteSet(Peer) /\ IsFiniteSet(Sharer)
    /\ {NoThread, Busy, Dead} \cap (Thread \cup Peer) = {}
    /\ NoThread # Busy /\ NoThread # Dead /\ Busy # Dead
    /\ Waiter \cap Signaler = {} /\ Nil \notin Waiter \cup Signaler
    /\ Types \subseteq [kind : {"normal", "recursive", "errorcheck"},
                        robust : BOOLEAN, shared : BOOLEAN]
    /\ {MaxCount, MaxUndo, MaxCalls} \subseteq Nat
    /\ {MaxReaders, ValueMax} \cup Limits \subseteq Nat \ {0} /\ Sizes \subseteq Nat \ {0, 1}
    /\ Initial \in 0..ValueMax /\ Shared \subseteq BOOLEAN

Type(k, r, s) == [kind |-> k, robust |-> r, shared |-> s]
AllTypes == {Type("normal", FALSE, FALSE), Type("normal", TRUE, FALSE),
             Type("recursive", FALSE, FALSE), Type("recursive", TRUE, TRUE),
             Type("errorcheck", FALSE, TRUE), Type("errorcheck", TRUE, FALSE)}
TwoTypes == {Type("normal", FALSE, FALSE), Type("recursive", TRUE, TRUE)}

Symmetry == Permutations({t1, t2, t3})

VARIABLES part, pc,
    x1, x2, x3, x4, x5, x6, x7, x8, x9, x10, x11, x12, x13

vars == <<part, pc,
    x1, x2, x3, x4, x5, x6, x7, x8, x9, x10, x11, x12, x13>>

\* What the proofs of the components use of the sizes of finite sets.
LEMMA FiniteCounts ==
    ASSUME NEW T, IsFiniteSet(T)
    PROVE  /\ \A X \in SUBSET T : Cardinality(X) \in Nat /\ (Cardinality(X) = 0 <=> X = {})
           /\ \A X, Y \in SUBSET T : X \subseteq Y => Cardinality(X) <= Cardinality(Y)
           /\ \A X, Y \in SUBSET T, t \in T : (\A u \in T : u # t => (u \in X <=> u \in Y)) =>
                /\ (t \in X <=> t \in Y) => Cardinality(Y) = Cardinality(X)
                /\ t \notin X /\ t \in Y => Cardinality(Y) = Cardinality(X) + 1
                /\ t \in X /\ t \notin Y => Cardinality(Y) = Cardinality(X) - 1
<1>1. ASSUME NEW X \in SUBSET T
      PROVE  IsFiniteSet(X) /\ Cardinality(X) \in Nat /\ (Cardinality(X) = 0 <=> X = {})
  BY Zenon, FS_Subset, FS_EmptySet, FS_CardinalityType
<1>2. ASSUME NEW X \in SUBSET T, NEW Y \in SUBSET T, X \subseteq Y
      PROVE  Cardinality(X) <= Cardinality(Y)
  BY Zenon, <1>1, <1>2, FS_Subset
<1>3. ASSUME NEW X \in SUBSET T, NEW Y \in SUBSET T, NEW t \in T,
             \A u \in T : u # t => (u \in X <=> u \in Y)
      PROVE  /\ (t \in X <=> t \in Y) => Cardinality(Y) = Cardinality(X)
             /\ t \notin X /\ t \in Y => Cardinality(Y) = Cardinality(X) + 1
             /\ t \in X /\ t \notin Y => Cardinality(Y) = Cardinality(X) - 1
  <2>1. (t \in X <=> t \in Y) => X = Y
    BY SMTT(90), <1>3
  <2>2. t \notin X /\ t \in Y => Y = X \cup {t}
    BY Zenon, <1>3
  <2>3. t \in X /\ t \notin Y => Y = X \ {t}
    BY Zenon, <1>3
  <2>4. t \notin X => Cardinality(X \cup {t}) = Cardinality(X) + 1
    BY Zenon, <1>1, FS_AddElement
  <2>5. t \in X => Cardinality(X \ {t}) = Cardinality(X) - 1
    BY ZenonT(90), <1>1, FS_RemoveElement
  <2> QED BY Zenon, <2>1, <2>2, <2>3, <2>4, <2>5
<1> QED BY Zenon, <1>1, <1>2, <1>3

\* M and RW: Mutex and RWLock, and what is proved about their steps.
INSTANCE LockProofs WITH
    lock <- x1, waiters <- x2, op <- x3, old <- x4, saw <- x5,
    readers <- x6, writer <- x7,
    type <- x6, count <- x7, held <- x8, damaged <- x9

\* S, O and B: Semaphore, Once and Barrier.
INSTANCE BarrierProofs WITH
    Thread <- Peer, Caller <- Thread,
    control <- x1, done <- x2, undone <- x3,
    limit <- x1, lock <- x2, waiters <- x3,
    binst <- x4, inst <- x5, my <- x6, members <- x7,
    op <- x1, old <- x4, saw <- x5

\* BS: BarrierShared.
INSTANCE SharedProofs WITH
    Thread <- Sharer, Limits <- Sizes,
    limit <- x1, lock <- x2, waiters <- x3, count <- x4, waiters2 <- x5, vmlock <- x6, vmwaiters <- x7, on <- x8, v <- x9,
    saw <- x10, inround <- x11, gone <- x12

C == INSTANCE CondVar WITH
    shared <- x1, head <- x2, tail <- x3, node <- x4, live <- x5, mutex <- x6,
    mwaiters <- x7, fut <- x8, saw <- x9, err <- x10, first <- x11, ref <- x12,
    calls <- x13

Init ==
    \/ part = "mutex" /\ M!Init /\ x10 = 0 /\ x11 = 0 /\ x12 = 0 /\ x13 = 0
    \/ part = "rwlock" /\ RW!Init /\ x8 = 0 /\ x9 = 0 /\ x10 = 0 /\ x11 = 0 /\ x12 = 0
       /\ x13 = 0
    \/ part = "semaphore" /\ S!Init /\ x6 = 0 /\ x7 = 0 /\ x8 = 0 /\ x9 = 0 /\ x10 = 0
       /\ x11 = 0 /\ x12 = 0 /\ x13 = 0
    \/ part = "once" /\ O!Init /\ x4 = 0 /\ x5 = 0 /\ x6 = 0 /\ x7 = 0 /\ x8 = 0 /\ x9 = 0
       /\ x10 = 0 /\ x11 = 0 /\ x12 = 0 /\ x13 = 0
    \/ part = "barrier" /\ B!Init /\ x8 = 0 /\ x9 = 0 /\ x10 = 0 /\ x11 = 0 /\ x12 = 0
       /\ x13 = 0
    \/ part = "shared" /\ BS!Init /\ x13 = 0
    \/ part = "cond" /\ C!Init

\* The variables that a component leaves alone.
MRest == <<part, x10, x11, x12, x13>>
RWRest == <<part, x8, x9, x10, x11, x12, x13>>
SRest == <<part, x6, x7, x8, x9, x10, x11, x12, x13>>
ORest == <<part, x4, x5, x6, x7, x8, x9, x10, x11, x12, x13>>
BRest == <<part, x8, x9, x10, x11, x12, x13>>
BSRest == <<part, x13>>
CRest == <<part>>

Next ==
    \/ part = "mutex" /\ M!Next /\ UNCHANGED MRest
    \/ part = "rwlock" /\ RW!Next /\ UNCHANGED RWRest
    \/ part = "semaphore" /\ S!Next /\ UNCHANGED SRest
    \/ part = "once" /\ O!Next /\ UNCHANGED ORest
    \/ part = "barrier" /\ B!Next /\ UNCHANGED BRest
    \/ part = "shared" /\ BS!Next /\ UNCHANGED BSRest
    \/ part = "cond" /\ C!Next /\ UNCHANGED CRest
    \/ part \in {"mutex", "shared"} /\ UNCHANGED vars   \* these may stop

Spec == Init /\ [][Next]_vars

\* A step of the library's code in thread t, or the end of an initialiser.
Run(t) ==
    \/ /\ part = "mutex" /\ t \in Thread /\ UNCHANGED MRest
       /\ M!LockStep(t) \/ M!UnlockStep(t) \/ M!ExitStep(t)
    \/ /\ part = "rwlock" /\ t \in Thread /\ UNCHANGED RWRest
       /\ RW!LockStep(t) \/ RW!UnlockStep(t)
    \/ /\ part = "semaphore" /\ t \in Thread /\ UNCHANGED SRest
       /\ S!WaitStep(t) \/ S!PostStep(t)
    \/ /\ part = "once" /\ t \in Peer /\ UNCHANGED ORest
       /\ O!Step(t) \/ O!InitEnds(t)
    \/ part = "barrier" /\ t \in Peer /\ B!Step(t) /\ UNCHANGED BRest
    \/ part = "shared" /\ t \in Sharer /\ BS!Step(t) /\ UNCHANGED BSRest
    \/ /\ part = "cond" /\ UNCHANGED CRest
       /\ \/ t \in Waiter /\ (C!MutexStep(t) \/ C!WaiterStep(t))
          \/ t \in Signaler /\ C!SignalerStep(t)

\* Threads inside the library are scheduled, and the initialiser of pthread_once ends.
\* Nothing is assumed of the program, and no timeout need happen.
Fairness == \A t \in Thread \cup Peer \cup Sharer \cup Waiter \cup Signaler : WF_vars(Run(t))

FairSpec == Spec /\ Fairness

-----------------------------------------------------------------------------
\* The word and the counters of a primitive tell exactly who holds it: the owner of a mutex
\* and how often it locked, the readers or the writer of a read-write lock, the nodes of a
\* condition variable that can be signaled.  What a dead owner left behind is reported until
\* pthread_mutex_consistent is called.
StateExact ==
    /\ part = "mutex" => M!TypeOK /\ M!OwnerExact /\ M!DamageReported
    /\ part = "rwlock" => RW!TypeOK /\ RW!WordExact
    /\ part = "semaphore" => S!TypeOK
    /\ part = "cond" => C!TypeOK /\ C!ListSound

\* No primitive loses a wakeup between its word, its count of waiters and the futex: a
\* sleeper for whom there is something to take is owed a wake or has an awake competitor,
\* and a reader sleeps only while a writer holds the lock or is about to wake everybody.
NoLostWakeup ==
    /\ part = "mutex" => M!NoLostWakeup
    /\ part = "rwlock" => RW!NoLostWakeup /\ RW!ReadersNotStranded
    /\ part = "semaphore" => S!NoLostWakeup
    /\ part = "once" => O!NoLostWakeup
    /\ part = "barrier" => B!NoLostWakeup
    /\ part = "cond" => C!NoLostWakeup

\* Nobody gets past a meeting point early: the initialiser of pthread_once runs in one
\* thread at a time and completes once, before anybody returns; nobody leaves a barrier
\* before the round is complete, nor enters a shared one before all have left the last.
NobodyEarly ==
    /\ part = "once" => O!TypeOK /\ O!OneInit /\ O!ReturnsAfterInit
    /\ part = "barrier" => B!TypeOK /\ B!RoundComplete
    /\ part = "shared" => BS!TypeOK /\ BS!RoundsSeparate

\* Nothing is used after it is gone: the instance of a barrier on the first thread's stack,
\* a shared barrier after pthread_barrier_destroy, the node of a thread that has returned
\* from its wait.
NoDangling ==
    /\ part = "barrier" => B!NoDanglingInstance
    /\ part = "shared" => BS!NoAccessAfterDestroy
    /\ part = "cond" => C!NoDanglingNode

\* Every step of a mutex, a read-write lock or a semaphore is one that the abstract object
\* may take; a mutex given up as not recoverable is never locked again; a signal chooses
\* one of the blocked threads, a broadcast all of them.
KeepsPromise ==
    /\ part = "mutex" => M!Abstract!Init
    /\ part = "rwlock" => RW!AbstractInit
    /\ part = "semaphore" => S!AbstractInit
    /\ [][/\ part = "mutex" => (M!Abstract!Next \/ UNCHANGED M!owner) /\ M!StaysDead
          /\ part = "rwlock" => RW!AbstractNext \/ UNCHANGED RW!owners
          /\ part = "semaphore" => S!AbstractNext \/ UNCHANGED S!value
          /\ part = "cond" => C!ReachesWaiters]_vars

\* What a thread waits for comes.  A mutex, a read-write lock or the value of a semaphore
\* does not stay untaken while threads sleep for it; a call of pthread_once returns or
\* abandons its thread; everybody gets out of a complete round of a barrier and a
\* pthread_barrier_destroy that has begun returns; a waiter that was chosen by a signal
\* returns with the mutex, and a call of signal or broadcast returns.
WaitsEnd ==
    LET idle == \/ part = "mutex" /\ M!Available /\ M!Asleep # {}
                \/ part = "rwlock" /\ RW!Idle
                \/ part = "semaphore" /\ S!Unused
        begun(t) ==
            \/ part = "once" /\ t \in Peer /\ pc[t] = "cas"
            \/ part = "barrier" /\ t \in Peer /\ B!Complete(t)
            \/ part = "shared" /\ t \in Sharer /\ BS!Out(t)
            \/ part = "cond" /\ t \in Waiter /\ C!Chosen(t)
            \/ part = "cond" /\ t \in Signaler /\ pc[t] # "idle"
        ended(t) ==
            \/ part = "once" /\ t \in Peer /\ pc[t] \in {"returned", "gone"}
            \/ part = "barrier" /\ t \in Peer /\ pc[t] = "idle"
            \/ part = "shared" /\ t \in Sharer /\ pc[t] = "idle"
            \/ part = "cond" /\ t \in Waiter /\ C!Returned(t)
            \/ part = "cond" /\ t \in Signaler /\ pc[t] = "idle"
    IN  /\ idle ~> ~idle
        /\ \A t \in Thread \cup Peer \cup Sharer \cup Waiter \cup Signaler : begun(t) ~> ended(t)

-----------------------------------------------------------------------------
(***************************************************************************)
(* The properties hold for any finite sets of threads and any values of    *)
(* the other constants, except for what they say of condition variables.   *)
(***************************************************************************)
IInv ==
    /\ part = "mutex" => M!IInv
    /\ part = "rwlock" => RW!IInv
    /\ part = "semaphore" => S!IInv
    /\ part = "once" => O!IInv
    /\ part = "barrier" => B!IInv
    /\ part = "shared" => BS!IInv

LEMMA Constants == LockConstants /\ BarrierConstants /\ SharedConstants
<1>1. CountsOf(Thread)
  BY ZenonT(90), FiniteCounts, SyncAssumption DEF CountsOf
<1>2. SizesOf(Peer) /\ SizesOf(Thread)
  BY ZenonT(90), FiniteCounts, SyncAssumption DEF SizesOf
<1>3. NumbersOf(Sharer)
  BY ZenonT(90), FiniteCounts, SyncAssumption DEF NumbersOf
<1> QED BY ZenonT(90), <1>1, <1>2, <1>3, SyncAssumption
        DEF LockConstants, BarrierConstants, SharedConstants

LEMMA Starts == Init => IInv
BY ZenonT(90), Constants, MInit, RWInit, SemInit, OnceInit, BarInit, ShInit DEF Init, IInv

LEMMA Steps == IInv /\ [Next]_vars => IInv'
<1>1. IInv /\ UNCHANGED vars => IInv'
  BY ZenonT(90), MSame, RWSame, SemSame, OnceSame, BarSame, ShSame
  DEF IInv, vars, M!vars, RW!vars, S!vars, O!vars, B!vars, BS!vars, BS!barrier, BS!vm
<1>2. Next => part' = part
  BY Zenon DEF Next, vars, MRest, RWRest, SRest, ORest, BRest, BSRest, CRest
<1>3. IInv /\ Next => IInv'
  BY ZenonT(90), Constants, <1>1, <1>2, MStep, RWStep, SemStep, OnceStep, BarStep, ShStep
  DEF IInv, Next
<1> QED BY ZenonT(90), <1>1, <1>3

LEMMA Always == Spec => []IInv
BY Starts, Steps, PTL DEF Spec

\* The words and counters of mutexes, read-write locks and semaphores tell who holds them
\* (pthread_mutex_trylock.c, pthread_rwlock_tryrdlock.c, sem_post.c).
THEOREM StateIsExact == Spec => [](part # "cond" => StateExact)
<1>1. IInv => (part # "cond" => StateExact)
  BY ZenonT(90), Constants, MSafe, RWSafe, SemSafe DEF IInv, StateExact
<1> QED BY <1>1, Always, PTL

\* Their sleepers, and those of pthread_once and of barriers, are not forgotten
\* (pthread_mutex_unlock.c, pthread_rwlock_unlock.c, sem_post.c, pthread_once.c,
\* pthread_barrier_wait.c).
THEOREM NoWakeupIsLost == Spec => [](part # "cond" => NoLostWakeup)
<1>1. IInv => (part # "cond" => NoLostWakeup)
  BY ZenonT(90), Constants, MSafe, RWSafe, SemSafe, OnceSafe, BarSafe DEF IInv, NoLostWakeup
<1> QED BY <1>1, Always, PTL

\* Nobody returns from pthread_once before the initialiser has completed, nor leaves a
\* barrier before its round is complete (pthread_once.c, pthread_barrier_wait.c).
THEOREM NobodyIsEarly == Spec => []NobodyEarly
<1>1. IInv => NobodyEarly
  BY ZenonT(90), Constants, OnceSafe, BarSafe, ShSafe DEF IInv, NobodyEarly
<1> QED BY <1>1, Always, PTL

\* The instance of a barrier on a stack outlives its users, and a destroyed shared barrier
\* has none (pthread_barrier_wait.c:80-107, pthread_barrier_destroy.c).
THEOREM NothingDangles == Spec => [](part # "cond" => NoDangling)
<1>1. IInv => (part # "cond" => NoDangling)
  BY ZenonT(90), Constants, BarSafe, ShSafe DEF IInv, NoDangling
<1> QED BY <1>1, Always, PTL

\* Mutexes, read-write locks and semaphores implement the abstract objects, and a mutex
\* that is not recoverable stays so.
THEOREM PromisesAreKept == Spec /\ part # "cond" => KeepsPromise
<1>1. Init => /\ part = "mutex" => M!Abstract!Init
              /\ part = "rwlock" => RW!AbstractInit
              /\ part = "semaphore" => S!AbstractInit
  BY ZenonT(90), Constants, MInit, RWInit, SemInit DEF Init
<1>2. part # "cond" /\ [Next]_vars => (part # "cond")'
  BY ZenonT(90) DEF Next, vars, MRest, RWRest, SRest, ORest, BRest, BSRest, CRest
<1>3. IInv /\ part # "cond" /\ [Next]_vars =>
        [/\ part = "mutex" => (M!Abstract!Next \/ UNCHANGED M!owner) /\ M!StaysDead
         /\ part = "rwlock" => RW!AbstractNext \/ UNCHANGED RW!owners
         /\ part = "semaphore" => S!AbstractNext \/ UNCHANGED S!value
         /\ part = "cond" => C!ReachesWaiters]_vars
  BY ZenonT(90), Constants, MStep, RWStep, SemStep DEF IInv, Next
<1> QED BY <1>1, <1>2, <1>3, Always, PTL DEF Spec, KeepsPromise
=============================================================================
