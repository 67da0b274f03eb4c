--------------------------------- MODULE Ctors ---------------------------------
(***************************************************************************)
(* Constructors and destructors of libraries in a process with threads     *)
(* (ldso/dynlink.c): do_init_fini at the end of dlopen, __libc_exit_fini,   *)
(* and fork.  What dlopen does under its write lock is one step here (the   *)
(* module Dlopen has its parts), and so is what happens between locking and *)
(* unlocking init_fini_lock; constructors run outside of both.              *)
(*                                                                         *)
(* A constructor may call dlopen itself, so a thread has a stack of calls.  *)
(***************************************************************************)
EXTENDS DsoGraph

CONSTANTS
    Thread, Libs, Nobody,
    Gone,       \* the ctor_visitor of a thread that fork has left behind
    Needed,     \* of a library: the sequence of the libraries that it needs
    Nested,     \* of a library: those that its constructor may open
    MayFork     \* whether the process may fork

VARIABLES
    visitor, constructed,   \* of a library
    finiNext,       \* the list from fini_head
    shuttingDown,
    stack,          \* of a thread: its calls of dlopen, the innermost first
    pc,             \* of a thread
    sleeping,       \* threads in pthread_cond_wait(&ctor_cond)
    exiting,        \* the thread in __libc_exit_fini
    finis,          \* the destructors that have run
    starts          \* history: the constructors in the order in which they were started

vars == <<visitor, constructed, finiNext, shuttingDown, stack, pc, sleeping, exiting, finis, starts>>

\* dlopen's list of dependencies, and the constructors that it queues.
Deps(l) == extend_bfs_deps(Needed, Needed[l], Len(Needed[l]), {}, 0).deps
CtorQueue(l) == Queue(queue_ctors(Needed, Deps(l), l, {}))

Init ==
    /\ visitor = [l \in Libs |-> Nobody] /\ constructed = {} /\ finiNext = <<>>
    /\ shuttingDown = FALSE /\ stack = [t \in Thread |-> <<>>]
    /\ pc = [t \in Thread |-> "run"] /\ sleeping = {} /\ exiting = Nobody
    /\ finis = <<>> /\ starts = <<>>

Goto(t, from, to) == pc[t] = from /\ pc' = [pc EXCEPT ![t] = to]
Top(t) == Head(stack[t])

\* The libraries whose constructors a thread is in.
Inside(t) == {stack[t][i].lib : i \in 1 .. Len(stack[t])}

-----------------------------------------------------------------------------
(***************************************************************************)
(* dlopen: pc "run" is the program or a constructor, "init" the loop of     *)
(* do_init_fini.                                                            *)
(***************************************************************************)

\* What a thread may open where it is: the program anything, a constructor what it likes.
MayOpen(t) == IF stack[t] = <<>> THEN Libs ELSE Nested[Top(t).lib]

\* The part under the write lock: it fails while the program exits, or if a queued library
\* is visited by a thread that is gone.
dlopen(t, l) ==
    /\ pc[t] = "run" /\ l \in MayOpen(t) /\ ~shuttingDown
    /\ LET q == IF l \in constructed THEN <<>> ELSE CtorQueue(l)
       IN /\ \A p \in ToSet(q) : visitor[p] # Gone
          /\ stack' = [stack EXCEPT ![t] = <<[open |-> l, queue |-> q, lib |-> Nobody]>> \o @]
    /\ Goto(t, "run", "init")
    /\ UNCHANGED <<visitor, constructed, finiNext, shuttingDown, sleeping, exiting, finis, starts>>

\* Mutant: libraries that others construct are not waited for.
MustWaitNot(t, p) == shuttingDown

\* Others visit the library, or the program exits: the thread waits.
MustWait(t, p) == (visitor[p] # Nobody /\ visitor[p] # t) \/ shuttingDown

\* exit holds init_fini_lock but when it waits.
LockFree(t) == exiting \in {Nobody, t} \/ exiting \in sleeping

Wait(t) ==
    /\ pc[t] = "init" /\ t \notin sleeping /\ LockFree(t)
    /\ Top(t).queue # <<>> /\ MustWait(t, Head(Top(t).queue))
    /\ sleeping' = sleeping \cup {t}
    /\ UNCHANGED <<visitor, constructed, finiNext, shuttingDown, stack, pc, exiting, finis, starts>>

\* The library is constructed, or this thread is in its constructor.
Skip(t) ==
    /\ pc[t] = "init" /\ t \notin sleeping /\ LockFree(t) /\ Top(t).queue # <<>>
    /\ LET p == Head(Top(t).queue)
       IN ~MustWait(t, p) /\ (visitor[p] # Nobody \/ p \in constructed)
    /\ stack' = [stack EXCEPT ![t][1].queue = Tail(@)]
    /\ UNCHANGED <<visitor, constructed, finiNext, shuttingDown, pc, sleeping, exiting, finis, starts>>

\* The constructor is started.
Start(t) ==
    /\ pc[t] = "init" /\ t \notin sleeping /\ LockFree(t) /\ Top(t).queue # <<>>
    /\ LET p == Head(Top(t).queue)
       IN /\ ~MustWait(t, p) /\ visitor[p] = Nobody /\ p \notin constructed
          /\ visitor' = [visitor EXCEPT ![p] = t]
          /\ finiNext' = <<p>> \o finiNext
          /\ stack' = [stack EXCEPT ![t][1].lib = p]
          /\ starts' = Append(starts, p)
    /\ Goto(t, "init", "run")
    /\ UNCHANGED <<constructed, shuttingDown, sleeping, exiting, finis>>

\* It has returned.
Constructed(t) ==
    /\ pc[t] = "run" /\ stack[t] # <<>> /\ LockFree(t)
    /\ LET p == Top(t).lib
       IN /\ visitor' = [visitor EXCEPT ![p] = Nobody]
          /\ constructed' = constructed \cup {p}
    /\ stack' = [stack EXCEPT ![t][1].queue = Tail(@), ![t][1].lib = Nobody]
    /\ sleeping' = {}
    /\ Goto(t, "run", "init")
    /\ UNCHANGED <<finiNext, shuttingDown, exiting, finis, starts>>

\* dlopen returns.
Return(t) ==
    /\ pc[t] = "init" /\ LockFree(t) /\ Top(t).queue = <<>>
    /\ stack' = [stack EXCEPT ![t] = Tail(@)]
    /\ Goto(t, "init", "run")
    /\ UNCHANGED <<visitor, constructed, finiNext, shuttingDown, sleeping, exiting, finis, starts>>

-----------------------------------------------------------------------------
(***************************************************************************)
(* exit, which one thread at most calls, and fork.                          *)
(***************************************************************************)

__libc_exit_fini(t) ==
    /\ exiting = Nobody /\ Goto(t, "run", "fini")
    /\ exiting' = t /\ shuttingDown' = TRUE
    /\ UNCHANGED <<visitor, constructed, finiNext, stack, sleeping, finis, starts>>

\* The next library of the list, and whether its constructor must be waited for.
Fini(t) ==
    /\ pc[t] = "fini" /\ t \notin sleeping /\ finiNext # <<>>
    /\ LET p == Head(finiNext)
       IN IF visitor[p] \notin {Nobody, t}
          THEN sleeping' = sleeping \cup {t} /\ UNCHANGED <<finiNext, finis>>
          ELSE /\ finiNext' = Tail(finiNext) /\ UNCHANGED sleeping
               /\ finis' = IF p \in constructed THEN Append(finis, p) ELSE finis
    /\ UNCHANGED <<visitor, constructed, shuttingDown, stack, pc, exiting, starts>>

\* The process ends.
Exited(t) ==
    /\ finiNext = <<>> /\ Goto(t, "fini", "exited")
    /\ UNCHANGED <<visitor, constructed, finiNext, shuttingDown, stack, sleeping, exiting, finis, starts>>

\* The child of a fork (__ldso_atfork takes both locks): only the calling thread lives on.
Fork(t) ==
    /\ MayFork /\ pc[t] = "run" /\ exiting = Nobody
    /\ \E u \in Thread \ {t} : pc[u] # "gone"
    /\ pc' = [u \in Thread |-> IF u = t THEN "run" ELSE "gone"]
    /\ visitor' = [l \in Libs |-> IF visitor[l] \in {Nobody, t} THEN visitor[l] ELSE Gone]
    /\ stack' = [u \in Thread |-> IF u = t THEN stack[t] ELSE <<>>]
    /\ sleeping' = {}
    /\ UNCHANGED <<constructed, finiNext, shuttingDown, exiting, finis, starts>>

Ended == \E t \in Thread : pc[t] = "exited"
Next ==
    /\ ~Ended
    /\ \E t \in Thread :
        \/ \E l \in Libs : dlopen(t, l)
        \/ Wait(t) \/ Skip(t) \/ Start(t) \/ Constructed(t) \/ Return(t)
        \/ __libc_exit_fini(t) \/ Fini(t) \/ Exited(t) \/ Fork(t)

Spec == Init /\ [][Next]_vars
-----------------------------------------------------------------------------
Needs(l) == Reach(Needed, ToSet(Needed[l]))

\* The types of the variables; ctor_visitor is the thread that is in the constructor.
TypeOK ==
    /\ visitor \in [Libs -> Thread \cup {Nobody, Gone}] /\ constructed \subseteq Libs
    /\ finiNext \in Seq(Libs) /\ shuttingDown \in BOOLEAN
    /\ pc \in [Thread -> {"run", "init", "fini", "exited", "gone"}]
    /\ sleeping \subseteq Thread /\ exiting \in Thread \cup {Nobody}
    /\ finis \in Seq(Libs) /\ starts \in Seq(Libs)
    /\ \A t \in Thread : {l \in Libs : visitor[l] = t} = Inside(t) \ {Nobody}

\* No constructor runs twice, not even by two threads that open the same library.
ConstructedOnce == IsInjective(starts)

\* When a constructor starts, what its library needs is constructed; the exceptions are
\* libraries that need each other, and libraries in whose constructor the thread is.
StartsInOrder ==
    \A p \in Libs : Len(starts') > Len(starts) /\ p = starts'[Len(starts')] =>
        \A d \in ToSet(Needed[p]) \ {p} :
            d \in constructed \/ p \in Needs(d) \/ visitor[d] = visitor'[p]

\* dlopen returns a library that is constructed with all it needs, but for libraries that
\* need each other.  (If a constructor opens a library that needs the constructor's own, other
\* threads get that library before the constructor has ended.)
OpensReady ==
    \A t \in Thread : Len(stack'[t]) < Len(stack[t]) /\ pc'[t] = "run" =>
        \A d \in {Top(t).open} \cup Needs(Top(t).open) : 
            \/ d \in constructed \/ visitor[d] = t \/ Top(t).open \in Needs(d)

\* exit runs the destructors of all constructed libraries in reverse order of the
\* constructors' start, each once.
FiniReverse ==
    /\ \A i, j \in 1 .. Len(finis) :
        i < j => \E a, b \in 1 .. Len(starts) : a < b /\ starts[a] = finis[j] /\ starts[b] = finis[i]
    /\ Ended => ToSet(finis) = constructed

\* A sleeping thread has a reason to: someone else is in the constructor, or the program exits.
SleepReason ==
    \A t \in sleeping :
        \/ shuttingDown /\ t # exiting
        \/ \E l \in Libs : visitor[l] \notin {Nobody, t}

\* The library's steps of a thread; constructors return.
Step(t) ==
    Skip(t) \/ Start(t) \/ Constructed(t) \/ Wait(t) \/ Return(t) \/ Fini(t) \/ Exited(t)

Opening(t) == stack[t] # <<>>
Opened(t) == stack[t] = <<>> \/ shuttingDown
Exiting == exiting # Nobody
=============================================================================
