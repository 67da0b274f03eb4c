------------------------------- MODULE SyncCall -------------------------------
(***************************************************************************)
(* __synccall (src/thread/synccall.c): one thread stops all the others in   *)
(* a signal handler, has each of them run a callback, runs it itself and    *)
(* lets them go.  setuid and its relatives change the credentials of all    *)
(* threads with it.                                                        *)
(*                                                                         *)
(* The thread list lock keeps calls apart and the set of threads fixed.    *)
(* Semaphores are the abstract counting ones of Semaphore.                 *)
(***************************************************************************)
EXTENDS Integers, FiniteSets

CONSTANTS
    Thread,     \* the threads on the list
    NoThread,   \* no owner of the list lock, and target_tid = 0
    MaxCalls    \* bound on the calls of __synccall

VARIABLES
    tl,          \* owner of the thread list lock
    target,      \* target_tid
    targetSem, callerSem, exitSem,
    func,        \* the callback is the function or the dummy
    action,      \* of SIGSYNCCALL: "handler" or "ignore"
    pending,     \* threads with SIGSYNCCALL pending
    left,        \* threads the caller's list walk has yet to visit
    count, i,    \* locals of the caller
    pc,          \* place of each thread outside of the handler
    hd,          \* and in it
    done,        \* threads that have run func in this call
    calls

sems == <<targetSem, callerSem, exitSem>>
vars == <<tl, target, sems, func, action, pending, left, count, i, pc, hd, done, calls>>

HandlerPlace == {"out", "post", "wait", "call", "ran", "exit", "leave"}
CallerPlace == {"signal", "caught", "run", "ran", "own", "release", "collect"}

TypeOK ==
    /\ tl \in Thread \cup {NoThread} /\ target \in Thread \cup {NoThread}
    /\ targetSem \in 0..(Cardinality(Thread) - 1)
    /\ callerSem \in 0..(Cardinality(Thread) - 1)
    /\ exitSem \in 0..(Cardinality(Thread) - 1)
    /\ func \in {"func", "dummy"} /\ action \in {"handler", "ignore"}
    /\ pending \subseteq Thread /\ left \subseteq Thread
    /\ count \in 0..(Cardinality(Thread) - 1) /\ i \in 0..count
    /\ pc \in [Thread -> {"idle", "want"} \cup CallerPlace]
    /\ hd \in [Thread -> HandlerPlace]
    /\ done \subseteq Thread /\ calls \in 0..MaxCalls

Init ==
    /\ tl = NoThread /\ target = NoThread
    /\ targetSem = 0 /\ callerSem = 0 /\ exitSem = 0
    /\ func = "func" /\ action = "ignore" /\ pending = {}
    /\ left = {} /\ count = 0 /\ i = 0
    /\ pc = [t \in Thread |-> "idle"] /\ hd = [t \in Thread |-> "out"]
    /\ done = {} /\ calls = 0

Goto(t, from, to) == pc[t] = from /\ hd[t] = "out" /\ pc' = [pc EXCEPT ![t] = to]

-----------------------------------------------------------------------------
(***************************************************************************)
(* The caller.                                                             *)
(***************************************************************************)

\* SIGSYNCCALL is not blocked while the caller waits for the list lock.
Call(t) ==
    /\ calls < MaxCalls /\ calls' = calls + 1
    /\ Goto(t, "idle", "want")
    /\ UNCHANGED <<tl, target, sems, func, action, pending, left, count, i, done, hd>>

\* With the list lock and all signals blocked the semaphores are initialised.
Begin(t) ==
    /\ Goto(t, "want", "signal")
    /\ tl = NoThread /\ tl' = t
    /\ targetSem' = 0 /\ callerSem' = 0 /\ exitSem' = 0
    /\ func' = "func" /\ action' = "handler"
    /\ left' = Thread \ {t} /\ count' = 0 /\ i' = 0 /\ done' = {}
    /\ UNCHANGED <<target, pending, calls, hd>>

\* The order of the list is arbitrary; EAGAIN is retried and changes nothing.
Signal(t) ==
    /\ Goto(t, "signal", "caught")
    /\ \E u \in left : /\ target' = u /\ left' = left \ {u}
                       /\ pending' = pending \cup {u}
    /\ UNCHANGED <<tl, sems, func, action, count, i, done, calls, hd>>

\* Mutant: the threads that were caught run the function all the same.
SignalFailsKeepsFunc(t) ==
    /\ Goto(t, "signal", "run") /\ left # {}
    /\ target' = NoThread
    /\ UNCHANGED <<tl, sems, func, action, pending, left, count, i, done, calls, hd>>

\* tkill fails otherwise: nobody runs the function.
SignalFails(t) ==
    /\ Goto(t, "signal", "run") /\ left # {}
    /\ func' = "dummy" /\ target' = NoThread
    /\ UNCHANGED <<tl, sems, action, pending, left, count, i, done, calls, hd>>

\* The target answers through the semaphore.
Caught(t) ==
    /\ Goto(t, "caught", "signal")
    /\ callerSem > 0 /\ callerSem' = callerSem - 1
    /\ count' = count + 1
    /\ UNCHANGED <<tl, target, targetSem, exitSem, func, action, pending, left, i, done, calls, hd>>

AllCaught(t) ==
    /\ Goto(t, "signal", "run") /\ left = {}
    /\ target' = NoThread
    /\ UNCHANGED <<tl, sems, func, action, pending, left, count, i, done, calls, hd>>

\* One thread at a time runs the callback.
Run(t) ==
    /\ Goto(t, "run", "ran") /\ i < count
    /\ targetSem' = targetSem + 1
    /\ UNCHANGED <<tl, target, callerSem, exitSem, func, action, pending, left, count, i,
                   done, calls, hd>>

Ran(t) ==
    /\ Goto(t, "ran", "run")
    /\ callerSem > 0 /\ callerSem' = callerSem - 1
    /\ i' = i + 1
    /\ UNCHANGED <<tl, target, targetSem, exitSem, func, action, pending, left, count, done,
                   calls, hd>>

AllRan(t) ==
    /\ Goto(t, "run", "own") /\ i = count
    /\ action' = "ignore" /\ pending' = {}
    /\ UNCHANGED <<tl, target, sems, func, left, count, i, done, calls, hd>>

Own(t) ==
    /\ Goto(t, "own", "release")
    /\ done' = IF func = "func" THEN done \cup {t} ELSE done
    /\ i' = 0
    /\ UNCHANGED <<tl, target, sems, func, action, pending, left, count, calls, hd>>

\* exit_sem is posted once for each thread that was stopped.
Release(t) ==
    /\ pc[t] = "release"
    /\ IF i < count
       THEN exitSem' = exitSem + 1 /\ i' = i + 1 /\ UNCHANGED pc
       ELSE Goto(t, "release", "collect") /\ i' = 0 /\ UNCHANGED exitSem
    /\ UNCHANGED <<tl, target, targetSem, callerSem, func, action, pending, left, count, done,
                   calls, hd>>

Collect(t) ==
    /\ pc[t] = "collect"
    /\ IF i < count
       THEN /\ callerSem > 0 /\ callerSem' = callerSem - 1 /\ i' = i + 1
            /\ UNCHANGED <<pc, tl>>
       ELSE Goto(t, "collect", "idle") /\ tl' = NoThread /\ UNCHANGED <<callerSem, i>>
    /\ UNCHANGED <<target, targetSem, exitSem, func, action, pending, left, count, done,
                   calls, hd>>

-----------------------------------------------------------------------------
(***************************************************************************)
(* The handler of SIGSYNCCALL in the other threads.                        *)
(***************************************************************************)

\* Signals are blocked in the caller and in the handler.  Only the target stops.
Handler(t) ==
    /\ t \in pending /\ pc[t] \in {"idle", "want"} /\ hd[t] = "out"
    /\ pending' = pending \ {t}
    /\ hd' = IF action = "handler" /\ target = t THEN [hd EXCEPT ![t] = "post"] ELSE hd
    /\ UNCHANGED <<tl, target, sems, func, action, left, count, i, pc, done, calls>>

\* The thread posts caller_sem when it is caught, has run the callback, and leaves.
Post(t) ==
    /\ \E p \in {<<"post", "wait">>, <<"ran", "exit">>, <<"leave", "out">>} :
           hd[t] = p[1] /\ hd' = [hd EXCEPT ![t] = p[2]]
    /\ callerSem' = callerSem + 1
    /\ UNCHANGED <<tl, target, targetSem, exitSem, func, action, pending, left, count, i, pc,
                   done, calls>>

AwaitTurn(t) ==
    /\ hd[t] = "wait" /\ hd' = [hd EXCEPT ![t] = "call"]
    /\ targetSem > 0 /\ targetSem' = targetSem - 1
    /\ UNCHANGED <<tl, target, callerSem, exitSem, func, action, pending, left, count, i, pc,
                   done, calls>>

Callback(t) ==
    /\ hd[t] = "call" /\ hd' = [hd EXCEPT ![t] = "ran"]
    /\ done' = IF func = "func" THEN done \cup {t} ELSE done
    /\ UNCHANGED <<tl, target, sems, func, action, pending, left, count, i, pc, calls>>

AwaitExit(t) ==
    /\ hd[t] = "exit" /\ hd' = [hd EXCEPT ![t] = "leave"]
    /\ exitSem > 0 /\ exitSem' = exitSem - 1
    /\ UNCHANGED <<tl, target, targetSem, callerSem, func, action, pending, left, count, i, pc,
                   done, calls>>

-----------------------------------------------------------------------------
Step(t) ==
    \/ Begin(t) \/ Signal(t) \/ SignalFails(t) \/ Caught(t) \/ AllCaught(t)
    \/ Run(t) \/ Ran(t) \/ AllRan(t) \/ Own(t) \/ Release(t) \/ Collect(t)
    \/ Handler(t) \/ Post(t) \/ AwaitTurn(t) \/ Callback(t) \/ AwaitExit(t)

Next == \E t \in Thread : Call(t) \/ Step(t)

Spec == Init /\ [][Next]_vars

-----------------------------------------------------------------------------
(***************************************************************************)
(* Properties.                                                             *)
(***************************************************************************)

\* No thread executes code of the program between the first thread that runs the
\* function and the last one: from the first callback to the last every other thread is
\* in the handler, so that the program never runs with two sets of credentials.
AllStopped ==
    done # {} /\ done # Thread => \A t \in Thread : t = tl \/ hd[t] # "out"

\* The threads agree when a thread leaves the handler, and when the list lock is free:
\* all of them have run the function, or, if tkill failed, none of them.
AllOrNone ==
    (\E t \in Thread : hd[t] = "leave") \/ tl = NoThread => done \in {{}, Thread}

\* Each call leaves the three semaphores at zero and nobody in the handler, so that
\* the next call may initialise them again; sem_destroy meets no user.
CleanEnd ==
    tl = NoThread => /\ callerSem = 0 /\ targetSem = 0 /\ exitSem = 0
                     /\ \A t \in Thread : hd[t] = "out"
=============================================================================
