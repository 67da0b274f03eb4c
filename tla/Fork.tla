--------------------------------- MODULE Fork ---------------------------------
(***************************************************************************)
(* fork and the locks of the library (src/process/fork.c, _Fork.c).         *)
(*                                                                         *)
(* fork takes all locks of the library in a fixed order, so that the child, *)
(* in which the other threads do not exist, finds nothing half done.  The   *)
(* other threads run sections of the library: a section is the sequence of  *)
(* locks it takes, each for reading ("r") or for writing ("w"), and keeps   *)
(* until its end.  Which thread holds which lock follows from how far each   *)
(* has got.                                                                *)
(***************************************************************************)
EXTENDS Integers, Sequences, FiniteSets

CONSTANTS
    Thread,
    MaxForks     \* bound on the calls of fork

VARIABLES
    op,       \* the section each thread is in
    n,        \* how many of its locks it holds
    forks,    \* calls so far
    child,    \* the lock words that are set in the latest child
    childAt   \* how far the child has got

vars == <<op, n, forks, child, childAt>>

-----------------------------------------------------------------------------
(***************************************************************************)
(* The locks.                                                              *)
(***************************************************************************)

w(lock) == <<lock, "w">>
r(lock) == <<lock, "r">>

\* atfork_locks
Words == <<w("at_quick_exit"), w("atexit"), w("gettext"), w("locale"), w("random"),
           w("sem_open"), w("ofl"), w("syslog"), w("timezone"), w("bump")>>

\* Mutant: the lock of malloc is taken first.
ForkSectionMallocFirst ==
    <<w("malloc"), w("ldso"), w("init_fini"), r("key"), r("aio"), w("ptc")>> \o Words
        \o <<w("tl"), w("abort")>>

\* fork, and _Fork for the last one.
ForkSection ==
    <<w("ldso"), w("init_fini"), r("key"), r("aio"), w("ptc")>> \o Words
        \o <<w("malloc"), w("tl"), w("abort")>>

\* Which locks nest in which: every lock that some code takes while it holds others.
Section == {
    <<w("ldso"), w("ptc"), w("malloc")>>, <<w("ldso"), w("ptc"), w("init_fini")>>,
    <<w("ldso"), w("ptc"), w("tl")>>,               \* dlopen
    <<w("ldso"), w("init_fini")>>,                  \* __libc_exit_fini begins
    <<r("ldso")>>, <<w("init_fini")>>,              \* dlsym, constructors
    <<w("key"), w("malloc")>>, <<w("key"), w("tl")>>, <<r("key")>>,
    <<w("aio"), w("malloc")>>, <<r("aio")>>,
    <<r("ptc"), w("tl")>>, <<w("ptc")>>,            \* pthread_create, its defaults
    <<w("atexit"), w("malloc")>>, <<w("at_quick_exit")>>,
    <<w("gettext"), w("malloc")>>, <<w("locale"), w("malloc")>>, <<w("random")>>,
    <<w("sem_open"), w("malloc")>>,
    <<w("ofl"), w("malloc")>>, <<w("ofl"), w("abort")>>,   \* popen
    <<w("syslog"), w("timezone"), w("malloc")>>, <<w("timezone"), w("malloc")>>,
    <<w("bump")>>, <<w("malloc")>>, <<w("tl")>>, <<w("abort")>>}

NoOp == <<>>

\* The locks of a thread, with their modes.
Held(t) == {op[t][k] : k \in 1..n[t]}

\* The lock that the thread asks for is held by the other in a way that excludes it.
Blocks(u, t) ==
    /\ n[t] < Len(op[t])
    /\ \E h \in Held(u) : /\ h[1] = op[t][n[t] + 1][1]
                          /\ "w" \in {h[2], op[t][n[t] + 1][2]}

TypeOK ==
    /\ op \in [Thread -> Section \cup {ForkSection, NoOp}]
    /\ n \in [Thread -> 0..Len(ForkSection)] /\ \A t \in Thread : n[t] <= Len(op[t])
    /\ forks \in 0..MaxForks
    /\ child \subseteq {ForkSection[k][1] : k \in 1..Len(ForkSection)}
    /\ childAt \in 0..7

Init ==
    /\ op = [t \in Thread |-> NoOp] /\ n = [t \in Thread |-> 0]
    /\ forks = 0 /\ child = {} /\ childAt = 0

-----------------------------------------------------------------------------
(***************************************************************************)
(* Threads of the parent.                                                  *)
(***************************************************************************)

Enter(t, s) ==
    /\ op[t] = NoOp /\ op' = [op EXCEPT ![t] = s]
    /\ UNCHANGED <<n, forks, child, childAt>>

CallFork(t) ==
    /\ op[t] = NoOp /\ forks < MaxForks
    /\ forks' = forks + 1 /\ op' = [op EXCEPT ![t] = ForkSection]
    /\ UNCHANGED <<n, child, childAt>>

Acquire(t) ==
    /\ n[t] < Len(op[t])
    /\ \A u \in Thread \ {t} : ~Blocks(u, t)
    /\ n' = [n EXCEPT ![t] = @ + 1]
    /\ UNCHANGED <<op, forks, child, childAt>>

Leave(t) ==
    /\ op[t] \in Section /\ n[t] = Len(op[t])
    /\ op' = [op EXCEPT ![t] = NoOp] /\ n' = [n EXCEPT ![t] = 0]
    /\ UNCHANGED <<forks, child, childAt>>

\* The system call copies the lock words; the parent then releases its own.
Split(t) ==
    /\ op[t] = ForkSection /\ n[t] = Len(ForkSection)
    /\ child' = {h[1] : h \in UNION {Held(u) : u \in Thread}}
    /\ childAt' = 1
    /\ op' = [op EXCEPT ![t] = NoOp] /\ n' = [n EXCEPT ![t] = 0]
    /\ UNCHANGED forks

-----------------------------------------------------------------------------
(***************************************************************************)
(* The child, step by step.  A lock it needs must be free.                 *)
(***************************************************************************)

ChildStep(at, needs, frees) ==
    /\ childAt = at /\ childAt' = at + 1
    /\ needs \cap child = {}
    /\ child' = child \ frees
    /\ UNCHANGED <<op, n, forks>>

\* __post_Fork: thread list, __abort_lock, and the queues of asynchronous I/O.
PostFork == ChildStep(1, {}, {"tl", "abort", "aio"})
\* __malloc_atfork(1)
ResetMalloc == ChildStep(2, {}, {"malloc"})
\* The words of atfork_locks are set to zero.
ResetWords == ChildStep(3, {}, {Words[k][1] : k \in 1..Len(Words)})
\* __release_ptc
ReleasePtc == ChildStep(4, {}, {"ptc"})
\* __pthread_key_atfork(1) frees entries, which takes the lock of malloc.
ResetKeys == ChildStep(5, {"malloc"}, {"key"})
\* __ldso_atfork(1)
ReleaseLdso == ChildStep(6, {}, {"init_fini", "ldso"})

Child == PostFork \/ ResetMalloc \/ ResetWords \/ ReleasePtc \/ ResetKeys \/ ReleaseLdso

-----------------------------------------------------------------------------
Step(t) == Acquire(t) \/ Leave(t) \/ Split(t)

Next == \/ \E t \in Thread : Step(t) \/ CallFork(t) \/ \E s \in Section : Enter(t, s)
        \/ Child

Spec == Init /\ [][Next]_vars

-----------------------------------------------------------------------------
(***************************************************************************)
(* Properties.                                                             *)
(***************************************************************************)

\* No threads wait for each other in a circle: the order in which fork takes the locks
\* agrees with how they nest everywhere else, dlopen and pthread_key_delete included.
NoCircularWait ==
    \A T \in SUBSET Thread :
        T # {} => \E t \in T : \A u \in T \ {t} : ~Blocks(u, t)

\* At the moment of the system call no other thread is in the middle of changing
\* anything: none holds a lock for writing, and none has more than a lock for
\* reading that the child makes anew.
ChildConsistent ==
    \A t, u \in Thread : t # u /\ op[t] = ForkSection /\ n[t] = Len(ForkSection) =>
        \A h \in Held(u) : h \in {r("key"), r("aio")}

\* When fork returns in the child every lock of the library is free, those included
\* that were held for reading by threads that do not exist there.
ChildUnlocked == childAt = 7 => child = {}

Forking(t) == op[t] = ForkSection
Outside(t) == op[t] = NoOp

ChildBegun == childAt = 1
ChildReady == childAt = 7
=============================================================================
