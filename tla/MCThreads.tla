------------------------------ MODULE MCThreads ------------------------------
(***************************************************************************)
(* What belongs to threads, for TLC: their creation and end, cancellation,  *)
(* __synccall, thread-specific data, dynamic TLS and timers.  A behaviour   *)
(* is one of a single component: part says which, and x1, x2 ... are its    *)
(* variables, in the order of the substitutions below.                      *)
(***************************************************************************)
EXTENDS Integers, FiniteSets, TLC

CONSTANTS
    t1, t2, t3, Main, None, NoThread, Nobody, Thread,
    MaxCalls, MaxSignals, InlineKeys, Iterations, MaxCapacity, MaxCreates, MaxTls, MaxExpiry

Four == {Main, t1, t2, t3}

ASSUME ThreadsAssumption ==
    /\ Main \in Thread /\ Thread \subseteq Four /\ {None, NoThread, Nobody} \cap Four = {}
    /\ {MaxCalls, MaxSignals, InlineKeys, MaxCapacity, MaxCreates, MaxTls, MaxExpiry} \subseteq Nat
    /\ Iterations \in Nat \ {0}

Symmetry == Permutations({t1, t2})

VARIABLES part, pc,
    x1, x2, x3, x4, x5, x6, x7, x8, x9, x10, x11, x12, x13, x14, x15

vars == <<part, pc,
    x1, x2, x3, x4, x5, x6, x7, x8, x9, x10, x11, x12, x13, x14, x15>>

L == INSTANCE ThreadLife WITH
    tl <- x1, tlwaiters <- x2, list <- x3, minus1 <- x4, detach <- x5, tid <- x6,
    killlock <- x7, control <- x8, mapped <- x9, alive <- x10, arg <- x11, val <- x12,
    then <- x13, claimed <- x14, calls <- x15

C == INSTANCE Cancel WITH
    frames <- x1, cancel <- x2, pending <- x3, disable <- x4, async <- x5, signals <- x6,
    sent <- x7, outcome <- x8

SC == INSTANCE SyncCall WITH
    Thread <- Four, tl <- x1, target <- x2, targetSem <- x3, callerSem <- x4, exitSem <- x5,
    func <- x6, action <- x7, pending <- x8, left <- x9, count <- x10, i <- x11, hd <- x12,
    done <- x13, calls <- x14

K == INSTANCE TSD WITH
    Thread <- {t1, t2}, keys <- x1, absent <- x2, next <- x3, tsd <- x4, ext <- x5,
    used <- x6, alive <- x7, j <- x8, i <- x9, creates <- x10, gaveup <- x11, crashed <- x12

D == INSTANCE DynTls WITH
    Thread <- Four, list <- x1, count <- x2, tlLock <- x3, creators <- x4, inhibited <- x5,
    modules <- x6, libcCnt <- x7, origCnt <- x8, room <- x9, dtv <- x10, new <- x11

T == INSTANCE Timer WITH
    create <- x1, thread <- x2, args <- x3, ktimer <- x4, td <- x5, pending <- x6,
    delete <- x7, expiries <- x8

Init ==
    \/ part = "life" /\ L!Init
    \/ part = "cancel" /\ C!Init /\ pc = 0 /\ x9 = 0 /\ x10 = 0 /\ x11 = 0 /\ x12 = 0
       /\ x13 = 0 /\ x14 = 0 /\ x15 = 0
    \/ part = "synccall" /\ SC!Init /\ x15 = 0
    \/ part = "tsd" /\ K!Init /\ x13 = 0 /\ x14 = 0 /\ x15 = 0
    \/ part = "tls" /\ D!Init /\ x12 = 0 /\ x13 = 0 /\ x14 = 0 /\ x15 = 0
    \/ part = "timer" /\ T!Init /\ pc = 0 /\ x9 = 0 /\ x10 = 0 /\ x11 = 0 /\ x12 = 0
       /\ x13 = 0 /\ x14 = 0 /\ x15 = 0

\* The variables that a component leaves alone.
LRest == <<part>>
CRest == <<part, pc, x9, x10, x11, x12, x13, x14, x15>>
SCRest == <<part, x15>>
KRest == <<part, x13, x14, x15>>
DRest == <<part, x12, x13, x14, x15>>
TRest == <<part, pc, x9, x10, x11, x12, x13, x14, x15>>

Next ==
    \/ part = "life" /\ L!Next /\ UNCHANGED LRest
    \/ part = "cancel" /\ C!Next /\ UNCHANGED CRest
    \/ part = "synccall" /\ SC!Next /\ UNCHANGED SCRest
    \/ part = "tsd" /\ K!Next /\ UNCHANGED KRest
    \/ part = "tls" /\ D!Next /\ UNCHANGED DRest
    \/ part = "timer" /\ T!Next /\ UNCHANGED TRest
    \/ part # "tls" /\ UNCHANGED vars   \* the others may stop

Spec == Init /\ [][Next]_vars

\* A step of the library's code in thread t.  For cancellation Main stands for the thread
\* that is cancelled, t1 for the canceler and t2 for the kernel, and for a timer for its
\* maker, its thread and a caller of timer_delete.
Run(t) ==
    \/ part = "life" /\ t \in Thread /\ L!Step(t) /\ UNCHANGED LRest
    \/ part = "synccall" /\ SC!Step(t) /\ UNCHANGED SCRest
    \/ part = "tsd" /\ t \in {t1, t2} /\ K!Library(t) /\ UNCHANGED KRest
    \/ /\ part = "cancel" /\ UNCHANGED CRest
       /\ \/ t = Main /\ (C!Check \/ C!Return \/ C!SignalReturns)
          \/ t = t1 /\ C!Send
          \/ t = t2 /\ C!Handler
    \/ /\ part = "timer" /\ UNCHANGED TRest
       /\ \/ t = Main /\ T!CallerStep
          \/ t = t1 /\ T!ThreadStep
          \/ t = t2 /\ T!Kill

\* The library goes on in every thread, handlers of the program return, and signals that
\* are not blocked are delivered.  A system call may block for ever, and no timeout need
\* happen.
Fairness == \A t \in Four : WF_vars(Run(t))

FairSpec == Spec /\ Fairness

-----------------------------------------------------------------------------
\* The stack and the descriptor of a thread outlive every use of them, pthread_kill never
\* signals a kernel id that is free again, and whoever finds the list lock free finds
\* exactly the running threads in the list.  The kernel's timer exists exactly as long as
\* the thread that takes its signals, nobody uses the creator's arguments after it
\* returned, and a call that failed notifies nobody.  One use is excepted: timer_delete reads
\* td->tid of a thread that it has marked and that may have ended since (timer_delete.c:10);
\* of this it is said only that it needs an expiry of the timer, and that the mark itself
\* finds the descriptor.
NoDangling ==
    /\ part = "life" => L!TypeOK /\ L!StackOutlives /\ L!KillHitsTarget /\ L!ListExact
    /\ part = "timer" => T!TypeOK /\ T!TimerHasThread /\ T!ArgsInScope /\ T!FailureIsSilent
                       /\ T!DescriptorInScope

\* Nobody is forgotten: no wakeup of the lock of the thread list is lost; a cancelled
\* thread that blocks in a cancellation point still has the signal coming; between the
\* first and the last callback of __synccall no thread runs the program, all have run it
\* or none, and each call leaves the semaphores at zero.
NobodyForgotten ==
    /\ part = "life" => L!NoLostWakeup
    /\ part = "cancel" => C!TypeOK /\ C!CancelNotForgotten
    /\ part = "synccall" => SC!TypeOK /\ SC!AllStopped /\ SC!AllOrNone /\ SC!CleanEnd

\* What a thread finds is its own and current: pthread_getspecific returns what was stored
\* since the key was created, there is one entry for a thread and a key, and a pass of the
\* destructors that ends with tsd_used clear has left nothing behind it.  This is
\* said of a process that lives: if the first allocation of the table of keys fails, the next
\* use of a key crashes it (pthread_key_create.c:165-169).  When dlopen hands the new TLS
\* vectors out there is one for every thread, and every thread has all modules.
DataCurrent ==
    /\ part = "tsd" =>
        K!TypeOK /\ K!ValuesCurrent /\ K!ListExact /\ K!TableSound /\ K!PassClears
    /\ part = "tls" => D!TypeOK /\ D!RoomForAll /\ D!CopyFits /\ D!DtvComplete

\* Deferred cancellation throws no result of a completed system call away, and a thread is
\* cancelled only if asked to and as its cancellation state says.
CancelObeys == [][part = "cancel" => C!EffectKept /\ C!StateObeyed]_vars

\* What a thread waits for comes: a join returns once its target has exited, pthread_create
\* returns and pthread_exit ends, __synccall returns, and the destructors of
\* thread-specific data come to an end, though they store values again (or the process
\* ends, if the table of keys could not be allocated).  A thread does not
\* stay blocked in a cancellation point after it was cancelled, even if the system call
\* never returns.  After timer_delete the thread ends and the kernel's timer is deleted,
\* whatever signals are pending; timer_create returns.
WaitsEnd ==
    LET begun(t) == \/ part = "life" /\ t \in Thread /\ (L!JoinDue(t) \/ L!Begun(t))
                    \/ part = "synccall" /\ pc[t] = "want"
                    \/ part = "tsd" /\ t \in {t1, t2} /\ pc[t] = "pass"
        ended(t) == \/ part = "life" /\ t \in Thread /\ L!Ended(t)
                    \/ part = "synccall" /\ pc[t] = "idle"
                    \/ part = "tsd" /\ t \in {t1, t2} /\ K!Exited(t)
    IN  /\ \A t \in Four : begun(t) ~> ended(t)
        /\ (part = "cancel" /\ C!Called) ~> (part = "cancel" /\ C!Acted)
        /\ (part = "timer" /\ T!Deleting) ~> (part = "timer" /\ T!Deleted)
        /\ (part = "timer" /\ T!Creating) ~> (part = "timer" /\ T!Created)
=============================================================================
