------------------------------ MODULE MCProcess ------------------------------
(***************************************************************************)
(* What a process has once, for TLC: exit and its handlers, fork and its    *)
(* handlers, the lock of a stream, the list of streams, the table of named  *)
(* semaphores, constructors, and the client of the domain name system.  A   *)
(* behaviour is one of a single component: part says which, and x1, x2 ...  *)
(* are its variables, in the order of the substitutions below.              *)
(***************************************************************************)
EXTENDS Integers, Sequences, FiniteSets, TLC

CONSTANTS
    t1, t2, t3, u1, u2, NoThread, Nobody, Anon, Reserved, None, Gone,
    Thread, File, Inode, Address,
    COUNT, MaxRegister, MaxQuick, Copies, MaxForks, MaxHandlers, MaxCount, MaxCap,
    Nested, MayFork, MayPipe, Plans

ASSUME ProcessAssumption ==
    /\ {NoThread, Nobody, Anon, Gone} \cap Thread = {} /\ Nobody # Anon /\ Nobody # Gone
    /\ {Reserved, None} \cap (Address \cup Inode) = {} /\ None # Reserved
    /\ {MaxRegister, MaxQuick, Copies, MaxForks, MaxHandlers, MaxCount} \subseteq Nat
    /\ {COUNT, MaxCap} \subseteq Nat \ {0} /\ {MayFork, MayPipe} \subseteq BOOLEAN

\* a needs b, b and c need each other; the constructor of b may open d, which needs c.
Libs == {"a", "b", "c", "d"}
Needed == [a |-> <<"b">>, b |-> <<"c">>, c |-> <<"b">>, d |-> <<"c">>]
SomeNested == [a |-> {}, b |-> {"d"}, c |-> {}, d |-> {}]
NoNested == [l \in Libs |-> {}]

\* Look-ups: nqueries, servers by family, names, attempts (one unit of time each), bounded
\* traffic, cancellation, and what the servers answer.
Plan(nq, v4, v6, names, attempts, traffic, cancel, rcodes) ==
    [nq |-> nq, v4 |-> v4, v6 |-> v6, names |-> names, timeout |-> attempts,
     attempts |-> attempts, traffic |-> traffic, cancel |-> cancel, rcodes |-> rcodes]
Answered == {"ok", "empty", "nx"}
Lookups ==
    {Plan(2, {1}, {}, 1, 1, 2, FALSE, Answered),
     Plan(1, {1}, {}, 2, 1, 2, FALSE, Answered \cup {"servfail", "refused"}),
     Plan(1, {1}, {2}, 1, 2, 2, TRUE, {"ok", "servfail"})}
FewLookups == {Plan(2, {1}, {}, 1, 1, 1, TRUE, Answered), Plan(1, {1}, {}, 2, 2, 1, FALSE, {"ok", "servfail", "nx"})}

Pair == {u1, u2}

Symmetry == Permutations(Thread)

VARIABLES part, pc,
    x1, x2, x3, x4, x5, x6, x7, x8, x9, x10, x11, x12, x13, x14, x15, x16, x17

vars == <<part, pc,
    x1, x2, x3, x4, x5, x6, x7, x8, x9, x10, x11, x12, x13, x14, x15, x16, x17>>

\* The variables that few components have.
most == <<x13, x14, x15, x16, x17>>
more == <<x12, most>>

E == INSTANCE AtExit WITH
    Thread <- Pair, blocks <- x1, slot <- x2, finished <- x3, quick <- x4,
    quickLocked <- x5, exitLock <- x6, registered <- x7, quickRegistered <- x8,
    called <- x9, quickCalled <- x10, ended <- x11

F == INSTANCE Fork WITH
    MaxForks <- Copies, op <- x1, n <- x2, forks <- x3, child <- x4, childAt <- x5

A == INSTANCE AtFork WITH
    next <- x1, funcs <- x2, lock <- x3, p <- x4, prepared <- x5, resumed <- x6,
    raced <- x7, forks <- x8, prev <- x9, made <- x10

FL == INSTANCE FileLock WITH
    lock <- x1, lockcount <- x2, listed <- x3, op <- x4, need <- x5, old <- x6

FS == INSTANCE FileList WITH
    ofl <- x1, oflLock <- x2, state <- x3, unsaved <- x4, lock <- x5, file <- x6,
    todo <- x7, cloexec <- x8, pipe <- x9, child <- x10, exiting <- x11, held <- x12

SO == INSTANCE SemOpen WITH
    file <- x1, maps <- x2, tab <- x3, flags <- x4, slot <- x5, addr <- x6, ino <- x7,
    made <- x8

C == INSTANCE Ctors WITH
    visitor <- x1, constructed <- x2, finiNext <- x3, shuttingDown <- x4, stack <- x5,
    sleeping <- x6, exiting <- x7, finis <- x8, starts <- x9

R == INSTANCE Resolver WITH
    Server <- {1, 2}, Stranger <- 0,
    plan <- x1, rpc <- pc, name <- x2, reach <- x3, alens <- x4, answers <- x5, next <- x6,
    conn <- x7, revents <- x8, now <- x9, t1 <- x10, servfail_retry <- x11, asked <- x12,
    sock <- x13, traffic <- x14, fds <- x15, broken <- x16, verdicts <- x17

Init ==
    \/ part = "dns" /\ R!RInit
    \/ part = "files" /\ FS!Init /\ x13 = 0 /\ x14 = 0 /\ x15 = 0 /\ x16 = 0 /\ x17 = 0
    \/ /\ x12 = 0 /\ x13 = 0 /\ x14 = 0 /\ x15 = 0 /\ x16 = 0 /\ x17 = 0
       /\ \/ part = "exit" /\ E!Init
          \/ part = "fork" /\ F!Init /\ pc = 0
             /\ x6 = 0 /\ x7 = 0 /\ x8 = 0 /\ x9 = 0 /\ x10 = 0 /\ x11 = 0
          \/ part = "atfork" /\ A!Init /\ x11 = 0
          \/ part = "filelock" /\ FL!Init
             /\ x7 = 0 /\ x8 = 0 /\ x9 = 0 /\ x10 = 0 /\ x11 = 0
          \/ part = "semopen" /\ SO!Init /\ x9 = 0 /\ x10 = 0 /\ x11 = 0
          \/ part = "ctors" /\ C!Init /\ x10 = 0 /\ x11 = 0

\* The variables that a component leaves alone.
ERest == <<part, more>>
FRest == <<part, pc, x6, x7, x8, x9, x10, x11, more>>
ARest == <<part, x11, more>>
FLRest == <<part, x7, x8, x9, x10, x11, more>>
FSRest == <<part, most>>
SORest == <<part, x9, x10, x11, more>>
CRest == <<part, x10, x11, more>>
RRest == <<part>>

Next ==
    \/ part = "exit" /\ E!Next /\ UNCHANGED ERest
    \/ part = "fork" /\ F!Next /\ UNCHANGED FRest
    \/ part = "atfork" /\ A!Next /\ UNCHANGED ARest
    \/ part = "filelock" /\ FL!Next /\ UNCHANGED FLRest
    \/ part = "files" /\ FS!Next /\ UNCHANGED FSRest
    \/ part = "semopen" /\ SO!Next /\ UNCHANGED SORest
    \/ part = "ctors" /\ C!Next /\ UNCHANGED CRest
    \/ part = "dns" /\ R!RNext /\ UNCHANGED RRest
    \/ part \notin {"fork", "semopen"} /\ UNCHANGED vars   \* the others may stop

Spec == Init /\ [][Next]_vars

\* Steps of the library's code in thread t that nothing can disable.  The child of a fork
\* stands in for one of the threads.
Run(t) ==
    \/ part = "exit" /\ t \in Pair /\ E!Library(t) /\ UNCHANGED ERest
    \/ part = "filelock" /\ t \in Thread /\ FL!Step(t) /\ UNCHANGED FLRest
    \/ part = "ctors" /\ t \in Thread /\ C!Step(t) /\ UNCHANGED CRest
    \/ part = "fork" /\ t = t1 /\ F!Child /\ UNCHANGED FRest
    \/ part = "dns" /\ t = t1 /\ R!Client /\ UNCHANGED RRest

\* Steps that take a lock, and the program's calls of funlockfile.
Get(t) ==
    \/ part = "fork" /\ F!Step(t) /\ UNCHANGED FRest
    \/ part = "atfork" /\ A!Step(t) /\ UNCHANGED ARest
    \/ part = "files" /\ FS!Step(t) /\ UNCHANGED FSRest
    \/ part = "filelock" /\ FL!HeldTwice /\ FL!funlockfile(t) /\ UNCHANGED FLRest

LastUnlock(t) ==
    \/ part = "filelock" /\ ~FL!HeldTwice /\ FL!funlockfile(t) /\ UNCHANGED FLRest
    \/ part = "files" /\ FS!funlockfile(t) /\ UNCHANGED FSRest

Clock == part = "dns" /\ R!Tick /\ UNCHANGED RRest

\* Threads are scheduled, functions of the program return, a lock is given to a thread
\* that keeps asking, a thread that called flockfile does not keep the stream for ever,
\* and time passes in poll.
Fairness ==
    /\ SF_vars(Clock)
    /\ \A t \in Thread \cup Pair : WF_vars(Run(t))
    /\ \A t \in Thread : SF_vars(Get(t)) /\ SF_vars(LastUnlock(t))

FairSpec == Spec /\ Fairness

-----------------------------------------------------------------------------
\* Every function that was registered has its turn, once.  When exit ends the process all
\* of atexit have been called by the one thread that got past the lock of exit, and one of
\* at_quick_exit at most once.  After a fork the handlers that ran before it run in the
\* opposite order, all that were registered before it, and none is lost, whatever other
\* threads register or fork, unless some fork found no handler before the copy and one after
\* it (pthread_atfork.c:23); even then no function of a handler runs twice in a fork.  No
\* constructor runs twice, and destructors run in reverse order, once each.
NoneMissed ==
    /\ part = "exit" => E!TypeOK /\ E!NoneMissed /\ E!OneExit /\ E!QuickOnce
    /\ part = "atfork" => A!TypeOK /\ A!HandlersPaired /\ A!AllPrepared /\ A!ListWhole
                         /\ A!RunOnce
    /\ part = "ctors" => C!TypeOK /\ C!ConstructedOnce /\ C!FiniReverse /\ C!SleepReason

\* The order in which fork takes the locks agrees with how they nest everywhere else; at
\* the moment of the system call no other thread is changing anything; when fork returns
\* in the child every lock of the library is free.
ForkConsistent ==
    part = "fork" => F!TypeOK /\ F!NoCircularWait /\ F!ChildConsistent /\ F!ChildUnlocked

\* Operations of two threads on a stream do not overlap and no wakeup is lost; no stream is
\* freed while it is in the list, in use or locked; a child of popen has none of the pipes
\* of other streams; when exit has walked over the list nothing is left in a buffer.
StreamsSound ==
    /\ part = "filelock" =>
        FL!TypeOK /\ FL!Exclusive /\ FL!CountOfOwner /\ FL!NoLostWakeup
    /\ part = "files" => FS!TypeOK /\ FS!NoUseAfterFree /\ FS!PipesPrivate /\ FS!ExitSaves

\* As long as it is open a named semaphore has one address in the process, the table counts
\* its users, no mapping is leaked, and an exclusive sem_open made what it returns.
OneSemaphore ==
    part = "semopen" =>
        SO!TypeOK /\ SO!OneAddress /\ SO!TableExact /\ SO!MappingsUsed /\ SO!ExclusiveMade

\* Whatever order datagrams come in, a query that counts as answered has an answer to it in
\* its buffer; no descriptor stays open; the caller is told that a name does not exist only
\* if a server said so, and to try again only for a reason.
AnswersRight == part = "dns" => R!AnswersSound

\* The blocks of atexit behave as one stack, when a constructor starts, what its library
\* needs is constructed, and an answer to a query that was accepted is not overwritten.
InOrder ==
    /\ part = "exit" => E!StackInit
    /\ [][/\ part = "exit" => E!StackNext \/ UNCHANGED E!stackVars
          /\ part = "ctors" => C!StartsInOrder
          /\ part = "dns" => R!AnswerKept]_vars

\* dlopen returns a library that is constructed with all it needs, if no constructor
\* calls dlopen.
ReturnsReady == [][part = "ctors" => C!OpensReady]_vars

\* What was begun ends: fork returns in the parent, with and without handlers, and its
\* child gets to where all its locks are free; a thread that sleeps for a stream is woken;
\* exit, fflush(0) and fclose get over the list of streams, unless a thread that has a
\* stream by flockfile waits for the list while the list waits for this stream
\* (fflush.c:14-15); dlopen returns, if no constructor calls dlopen; after a call of exit the
\* process ends; a look-up of a name ends whatever the servers do.
CallsEnd ==
    LET begun(t) == \/ part = "fork" /\ F!Forking(t)
                    \/ part = "atfork" /\ pc[t] \in {"fork", "copy"}
                    \/ part = "filelock" /\ FL!Sleeps(t)
                    \/ part = "files" /\ FS!Called(t)
                    \/ part = "ctors" /\ C!Opening(t)
        ended(t) == \/ part = "fork" /\ F!Outside(t)
                    \/ part = "atfork" /\ pc[t] = "idle"
                    \/ part = "filelock" /\ FL!Woken(t)
                    \/ part = "files" /\ (FS!Ended(t) \/ FS!Embraced)
                    \/ part = "ctors" /\ C!Opened(t)
        ending == \/ part = "exit" /\ E!Exiting
                  \/ part = "ctors" /\ C!Exiting
                  \/ part = "fork" /\ F!ChildBegun
                  \/ part = "dns"
        over == \/ part = "exit" /\ E!Ended
                \/ part = "ctors" /\ C!Ended
                \/ part = "fork" /\ F!ChildReady
                \/ part = "dns" /\ R!Over
    IN  /\ \A t \in Thread : begun(t) ~> ended(t)
        /\ ending ~> over

\* Calls end, and dlopen does so when the library is ready, but for what CallsEnd and
\* ReturnsReady except: a circle of waits through flockfile, and constructors that call dlopen.
WaitsEnd == CallsEnd /\ ReturnsReady
=============================================================================
