-------------------------------- MODULE AtFork --------------------------------
(***************************************************************************)
(* The handlers of pthread_atfork (src/thread/pthread_atfork.c), as called   *)
(* by fork before and after the process is copied.                          *)
(*                                                                         *)
(* The list links the newest handler to the oldest.  While handlers run,    *)
(* funcs is moved to the one that runs: after the prepare handlers it is at  *)
(* the oldest, after the others at the newest again.                        *)
(***************************************************************************)
EXTENDS Integers, Sequences, FiniteSets

CONSTANTS
    Thread, NoThread,
    MaxHandlers,   \* bound on the registrations
    MaxForks       \* bound on the calls of fork

VARIABLES
    next, prev,  \* links to the older and to the newer handler, 0 for NULL
    made,        \* handlers that are registered; a handler is its number
    funcs,       \* the handler funcs points to, 0 for NULL
    lock,        \* holder of the lock
    pc, p,       \* place of each thread, and the handler it is at
    prepared,    \* handlers whose prepare function the current fork of a thread has run
    resumed,     \* and whose parent or child function it has run since, both in order
    raced,       \* a fork that had found no handler found one after the copy
    forks

vars == <<next, prev, made, funcs, lock, pc, p, prepared, resumed, raced, forks>>
links == <<next, prev, made>>

Handler == 1..MaxHandlers

TypeOK ==
    /\ next \in [Handler -> 0..made] /\ prev \in [Handler -> 0..made]
    /\ made \in 0..MaxHandlers /\ funcs \in 0..made
    /\ lock \in Thread \cup {NoThread}
    /\ pc \in [Thread -> {"idle", "add", "fork", "prepare", "copy", "after"}]
    /\ p \in [Thread -> 0..made]
    /\ prepared \in [Thread -> Seq(Handler)] /\ resumed \in [Thread -> Seq(Handler)]
    /\ raced \in BOOLEAN /\ forks \in 0..MaxForks

Init ==
    /\ next = [h \in Handler |-> 0] /\ prev = next /\ made = 0 /\ funcs = 0 /\ lock = NoThread
    /\ pc = [t \in Thread |-> "idle"] /\ p = [t \in Thread |-> 0]
    /\ prepared = [t \in Thread |-> <<>>] /\ resumed = [t \in Thread |-> <<>>]
    /\ raced = FALSE /\ forks = 0

Goto(t, from, to) == pc[t] = from /\ pc' = [pc EXCEPT ![t] = to]

-----------------------------------------------------------------------------
(***************************************************************************)
(* pthread_atfork: under the lock funcs is the newest handler.              *)
(***************************************************************************)

LockToAdd(t) ==
    /\ made + Cardinality({u \in Thread : pc[u] = "add"}) < MaxHandlers
    /\ Goto(t, "idle", "add") /\ lock = NoThread /\ lock' = t
    /\ p' = [p EXCEPT ![t] = funcs]
    /\ UNCHANGED <<links, funcs, prepared, resumed, raced, forks>>

\* The new handler is linked before funcs: whatever was newer would be lost.  The code may
\* read funcs once or again; that differs only if a fork without the lock changes it.
Add(t) ==
    LET new == made + 1 IN
    /\ Goto(t, "add", "idle") /\ made' = new /\ next' = [next EXCEPT ![new] = p[t]]
    /\ \E f \in {p[t], funcs} : prev' = IF f = 0 THEN prev ELSE [prev EXCEPT ![f] = new]
    /\ funcs' = new /\ lock' = NoThread /\ p' = [p EXCEPT ![t] = 0]
    /\ UNCHANGED <<prepared, resumed, raced, forks>>

-----------------------------------------------------------------------------
(***************************************************************************)
(* fork.                                                                   *)
(***************************************************************************)

\* __fork_handler(-1) returns at once when there is no handler.
CallFork(t) ==
    /\ forks < MaxForks /\ forks' = forks + 1
    /\ Goto(t, "idle", IF funcs = 0 THEN "copy" ELSE "fork")
    /\ prepared' = [prepared EXCEPT ![t] = <<>>] /\ resumed' = [resumed EXCEPT ![t] = <<>>]
    /\ UNCHANGED <<links, funcs, lock, p, raced>>

LockToFork(t) ==
    /\ Goto(t, "fork", "prepare")
    /\ lock = NoThread /\ lock' = t
    /\ p' = [p EXCEPT ![t] = funcs]
    /\ UNCHANGED <<links, funcs, prepared, resumed, raced, forks>>

\* From the newest to the oldest.
Prepare(t) ==
    /\ pc[t] = "prepare"
    /\ IF p[t] = 0
       THEN Goto(t, "prepare", "copy") /\ UNCHANGED <<funcs, p, prepared>>
       ELSE /\ prepared' = [prepared EXCEPT ![t] = Append(@, p[t])]
            /\ funcs' = p[t] /\ p' = [p EXCEPT ![t] = next[@]]
            /\ UNCHANGED pc
    /\ UNCHANGED <<links, lock, resumed, raced, forks>>

\* The process is copied, or the system call fails; __fork_handler is called again in
\* the parent and in the child, where the other threads are gone.
Copy(t) ==
    /\ Goto(t, "copy", IF funcs = 0 THEN "idle" ELSE "after")
    /\ p' = [p EXCEPT ![t] = funcs]
    /\ raced' = (raced \/ (funcs # 0 /\ prepared[t] = <<>>))
    /\ UNCHANGED <<links, funcs, lock, prepared, resumed, forks>>

\* From the oldest to the newest, then the lock is released, whoever holds it.
After(t) ==
    /\ pc[t] = "after"
    /\ IF p[t] = 0
       THEN /\ Goto(t, "after", "idle") /\ lock' = NoThread
            /\ UNCHANGED <<funcs, p, resumed>>
       ELSE /\ resumed' = [resumed EXCEPT ![t] = Append(@, p[t])]
            /\ funcs' = p[t] /\ p' = [p EXCEPT ![t] = prev[@]]
            /\ UNCHANGED <<pc, lock>>
    /\ UNCHANGED <<links, prepared, raced, forks>>

-----------------------------------------------------------------------------
Step(t) == Add(t) \/ LockToFork(t) \/ Prepare(t) \/ Copy(t) \/ After(t)

Next == \E t \in Thread : LockToAdd(t) \/ CallFork(t) \/ Step(t)

Spec == Init /\ [][Next]_vars

-----------------------------------------------------------------------------
(***************************************************************************)
(* Properties.                                                             *)
(***************************************************************************)

ReverseOf(s) == [k \in 1..Len(s) |-> s[Len(s) + 1 - k]]

\* As long as no fork has raced with the first registration (see raced): when fork returns,
\* the handlers that ran after the copy are those that ran before it, in the opposite order,
\* also when other threads register handlers or fork meanwhile; it is the lock kept from the
\* first handler to the last that does it.
HandlersPaired ==
    ~raced => \A t \in Thread :
        /\ pc[t] = "idle" => resumed[t] = ReverseOf(prepared[t])
        /\ pc[t] \in {"prepare", "after"} => lock = t

\* As long as no fork has raced, all handlers registered before fork takes the lock are
\* prepared, the newest first: the list is whole again after each fork.
AllPrepared ==
    ~raced => \A t \in Thread : pc[t] = "after" => prepared[t] = [k \in 1..made |-> made + 1 - k]

\* As long as no fork has raced, no registration is lost, and whenever the lock is free
\* funcs is at the newest one.
ListWhole ==
    ~raced =>
        /\ \A h \in 1..made : next[h] = h - 1 /\ prev[h] = IF h = made THEN 0 ELSE h + 1
        /\ lock = NoThread => funcs = made

\* Even when forks have raced and walk without the lock, a fork calls no function of a
\* handler twice.
RunOnce ==
    \A t \in Thread : \A s \in {prepared[t], resumed[t]} :
        \A j, k \in 1..Len(s) : s[j] = s[k] => j = k
=============================================================================
