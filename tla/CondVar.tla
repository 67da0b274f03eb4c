------------------------------- MODULE CondVar -------------------------------
(***************************************************************************)
(* Condition variables that are not process-shared, together with the      *)
(* mutex of their waiters: pthread_cond_timedwait, signal and broadcast    *)
(* (src/thread/pthread_cond_timedwait.c).                                  *)
(*                                                                         *)
(* Every waiter has a node on its stack.  The nodes form a list from the   *)
(* newest (head) to the oldest (tail); prev leads to a newer node, next to *)
(* an older one.  A signaler marks nodes from the tail on and opens the    *)
(* barrier of the oldest; each signaled waiter, once it has the mutex      *)
(* again, hands the next one over to the futex of the mutex.               *)
(*                                                                         *)
(* A node is named by its thread.  What the code does between lock and     *)
(* unlock of _c_lock is one step: only the state fields are touched        *)
(* without that lock, and each of them by one compare-and-swap.  The mutex *)
(* is a normal one (module Mutex has the others).                          *)
(***************************************************************************)
EXTENDS Integers, FiniteSets, Sequences

CONSTANTS
    Waiter,      \* threads that wait
    Signaler,    \* threads that signal
    Nil,         \* a null pointer
    MaxCalls,    \* bound on the waits and the signals together
    Shared       \* whether the mutex may be process-shared: a set of Booleans

Party == Waiter \cup Signaler
Pointer == Waiter \cup {Nil}

VARIABLES
    shared,          \* the mutex is process-shared
    head, tail,      \* _c_head, _c_tail
    node,            \* the node on each waiter's stack
    live,            \* the waiters whose node exists
    mutex, mwaiters, \* _m_lock and _m_waiters
    pc,
    fut,             \* the futex on which a thread sleeps
    saw,             \* the mutex word, or whether there were waiters, as last read
    err,             \* the wait gave up: e is ETIMEDOUT or ECANCELED
    first, ref,      \* locals of __private_cond_signal
    calls            \* calls made so far

list == <<head, tail, node, live>>
lock == <<mutex, mwaiters>>
locals == <<saw, err, first, ref>>
vars == <<shared, list, lock, pc, fut, locals, calls>>

Node == [prev : Pointer, next : Pointer, state : {"WAITING", "SIGNALED", "LEAVING"},
         barrier : 0..2, notify : Signaler \cup {Nil}]
NoNode == [prev |-> Nil, next |-> Nil, state |-> "WAITING", barrier |-> 0, notify |-> Nil]

\* The futex words: the mutex, the barriers of the nodes, the signalers' ref.
MutexWord == <<"mutex", Nil>>
Barrier(t) == <<"barrier", t>>
Ref(t) == <<"ref", t>>
Futex == {MutexWord} \cup {Barrier(t) : t \in Waiter} \cup {Ref(t) : t \in Signaler}

Asleep == {"asleep in lock", "asleep in wait", "asleep in barrier", "asleep in await"}
PC == Asleep \cup
      {"idle", "lock", "count", "mark", "wait", "uncount", "unlock", "swap", "wake",
       "enqueue", "futex", "leave", "remove", "notify", "notified", "barrier",
       "chain", "pass", "open", "hand over", "last", "return", "canceled",
       "await", "first", "wake first"}

TypeOK ==
    /\ shared \in Shared
    /\ head \in Pointer /\ tail \in Pointer /\ node \in [Waiter -> Node]
    /\ live \subseteq Waiter
    /\ mutex \in {"free", "held", "contended"} /\ mwaiters \in Nat
    /\ pc \in [Party -> PC] /\ fut \in [Party -> Futex]
    /\ saw \in [Party -> BOOLEAN]
    /\ err \in [Party -> BOOLEAN]
    /\ first \in [Party -> Pointer] /\ ref \in [Party -> Nat]
    /\ calls \in 0..MaxCalls

Init ==
    /\ shared \in Shared
    /\ head = Nil /\ tail = Nil /\ node = [t \in Waiter |-> NoNode] /\ live = {}
    /\ mutex = "free" /\ mwaiters = 0
    /\ pc = [t \in Party |-> "idle"] /\ fut = [t \in Party |-> MutexWord]
    /\ saw = [t \in Party |-> FALSE] /\ err = [t \in Party |-> FALSE]
    /\ first = [t \in Party |-> Nil] /\ ref = [t \in Party |-> 0]
    /\ calls = 0

Goto(t, from, to) == pc[t] = from /\ pc' = [pc EXCEPT ![t] = to]

\* A futex wait, and where its caller goes on once woken.
Sleep(t, from, f, asleep) ==
    /\ Goto(t, from, asleep)
    /\ fut' = [fut EXCEPT ![t] = f]
Sleepers(f) == {t \in Party : pc[t] \in Asleep /\ fut[t] = f}
Resume(t) == CASE pc[t] = "asleep in lock" -> "uncount"
               [] pc[t] = "asleep in wait" -> "futex"
               [] pc[t] = "asleep in barrier" -> "barrier"
               [] pc[t] = "asleep in await" -> "await"
WakeOne(t, from, to, f) ==
    /\ pc[t] = from
    /\ \/ Sleepers(f) = {} /\ pc' = [pc EXCEPT ![t] = to] /\ UNCHANGED fut
       \/ \E u \in Sleepers(f) : /\ pc' = [pc EXCEPT ![t] = to, ![u] = Resume(u)]
                                 /\ fut' = [fut EXCEPT ![u] = MutexWord]

\* A futex wait is interrupted, and its caller looks again.
Interrupt(t) ==
    /\ pc[t] \in Asleep
    /\ pc' = [pc EXCEPT ![t] = Resume(t)]
    /\ fut' = [fut EXCEPT ![t] = MutexWord]
    /\ UNCHANGED <<shared, list, lock, locals, calls>>

-----------------------------------------------------------------------------
(***************************************************************************)
(* pthread_mutex_lock and pthread_mutex_unlock of a normal mutex.          *)
(***************************************************************************)

Lock(t) ==
    /\ mutex = "free"
    /\ Goto(t, "lock", CASE t \notin live -> "enqueue"
                         [] node[t].state = "SIGNALED" -> "chain"
                         [] OTHER -> "return")
    /\ mutex' = "held"
    /\ UNCHANGED <<shared, list, mwaiters, fut, locals, calls>>

Look(t) ==
    /\ mutex # "free"
    /\ Goto(t, "lock", "count")
    /\ saw' = [saw EXCEPT ![t] = mutex = "contended"]
    /\ UNCHANGED <<shared, list, lock, fut, err, first, ref, calls>>

Count(t) ==
    /\ Goto(t, "count", "mark")
    /\ mwaiters' = mwaiters + 1
    /\ UNCHANGED <<shared, list, mutex, fut, locals, calls>>

Mark(t) ==
    /\ Goto(t, "mark", "wait")
    /\ mutex' = IF mutex = "held" /\ ~saw[t] THEN "contended" ELSE mutex
    /\ saw' = [saw EXCEPT ![t] = FALSE]
    /\ UNCHANGED <<shared, list, mwaiters, fut, err, first, ref, calls>>

Wait(t) ==
    /\ \/ mutex = "contended" /\ Sleep(t, "wait", MutexWord, "asleep in lock")
       \/ mutex # "contended" /\ Goto(t, "wait", "uncount") /\ UNCHANGED fut
    /\ UNCHANGED <<shared, list, lock, locals, calls>>

Uncount(t) ==
    /\ Goto(t, "uncount", "lock")
    /\ mwaiters' = mwaiters - 1
    /\ UNCHANGED <<shared, list, mutex, fut, locals, calls>>

Unlock(t) ==
    /\ Goto(t, "unlock", "swap")
    /\ saw' = [saw EXCEPT ![t] = mwaiters # 0]
    /\ UNCHANGED <<shared, list, lock, fut, err, first, ref, calls>>

\* With the mutex released a waiter goes to sleep, or has finished its call.
Unlocked(t) == IF t \in live THEN "futex" ELSE "idle"

Swap(t) ==
    /\ Goto(t, "swap", IF saw[t] \/ mutex = "contended" THEN "wake" ELSE Unlocked(t))
    /\ mutex' = "free"
    /\ saw' = [saw EXCEPT ![t] = FALSE]
    /\ UNCHANGED <<shared, list, mwaiters, fut, err, first, ref, calls>>

Wake(t) ==
    /\ WakeOne(t, "wake", Unlocked(t), MutexWord)
    /\ UNCHANGED <<shared, list, lock, locals, calls>>

-----------------------------------------------------------------------------
(***************************************************************************)
(* pthread_cond_timedwait.                                                 *)
(***************************************************************************)

\* A thread locks the mutex in order to wait.
Call(t) ==
    /\ calls < MaxCalls /\ calls' = calls + 1
    /\ Goto(t, "idle", "lock")
    /\ UNCHANGED <<shared, list, lock, fut, locals>>

\* node becomes the new head.
Enqueue(t) ==
    /\ Goto(t, "enqueue", "unlock")
    /\ live' = live \cup {t}
    /\ node' = [u \in Waiter |->
                  IF u = t THEN [NoNode EXCEPT !.next = head, !.barrier = 2]
                  ELSE IF u = head /\ tail # Nil THEN [node[u] EXCEPT !.prev = t]
                  ELSE node[u]]
    /\ head' = t
    /\ tail' = IF tail = Nil THEN t ELSE tail
    /\ UNCHANGED <<shared, lock, fut, locals, calls>>

\* The futex wait on node.barrier.
FutexWait(t) ==
    /\ \/ node[t].barrier = 2 /\ Sleep(t, "futex", Barrier(t), "asleep in wait")
       \/ node[t].barrier # 2 /\ Goto(t, "futex", "leave") /\ UNCHANGED fut
    /\ UNCHANGED <<shared, list, lock, locals, calls>>

\* It ends with a timeout or because the thread is canceled.
GiveUp(t) ==
    /\ \/ Goto(t, "futex", "leave")
       \/ Goto(t, "asleep in wait", "leave")
    /\ err' = [err EXCEPT ![t] = TRUE]
    /\ fut' = [fut EXCEPT ![t] = MutexWord]
    /\ UNCHANGED <<shared, list, lock, saw, first, ref, calls>>

\* a_cas(&node.state, WAITING, LEAVING)
Leave(t) ==
    /\ \/ /\ node[t].state = "WAITING" /\ Goto(t, "leave", "remove")
          /\ node' = [node EXCEPT ![t].state = "LEAVING"]
       \/ /\ node[t].state # "WAITING" /\ Goto(t, "leave", "barrier")
          /\ UNCHANGED node
    /\ UNCHANGED <<shared, head, tail, live, lock, fut, locals, calls>>

\* A leaving node is unlinked from the list, or from the part of it that a
\* signaler has detached.
Unlinked(t) ==
    LET me == node[t] IN
    [u \in Waiter |->
        IF u = me.prev /\ head # t THEN [node[u] EXCEPT !.next = me.next]
        ELSE IF u = me.next /\ tail # t THEN [node[u] EXCEPT !.prev = me.prev]
        ELSE node[u]]

Unlink(t) ==
    /\ Goto(t, "remove", IF node[t].notify = Nil THEN "lock" ELSE "notify")
    /\ head' = IF head = t THEN node[t].next ELSE head
    /\ tail' = IF tail = t THEN node[t].prev ELSE tail
    /\ node' = Unlinked(t)
    /\ UNCHANGED <<shared, live, lock, fut, locals, calls>>

\* The signaler that found the node leaving waits for it.
Notify(t) ==
    LET s == node[t].notify IN
    /\ Goto(t, "notify", IF ref[s] = 1 THEN "notified" ELSE "lock")
    /\ ref' = [ref EXCEPT ![s] = @ - 1]
    /\ UNCHANGED <<shared, list, lock, fut, saw, err, first, calls>>

WakeSignaler(t) ==
    /\ pc[t] = "notified"
    /\ WakeOne(t, "notified", "lock", Ref(node[t].notify))
    /\ UNCHANGED <<shared, list, lock, locals, calls>>

\* lock(&node.barrier) of a signaled waiter: nobody else takes this lock.
BarrierWait(t) ==
    /\ \/ /\ node[t].barrier = 2 /\ Sleep(t, "barrier", Barrier(t), "asleep in barrier")
          /\ UNCHANGED node
       \/ /\ node[t].barrier = 0 /\ Goto(t, "barrier", "lock")
          /\ node' = [node EXCEPT ![t].barrier = 1] /\ UNCHANGED fut
    /\ UNCHANGED <<shared, head, tail, live, lock, locals, calls>>

\* The oldest of the signaled waiters counts one waiter of the mutex for all
\* that are handed over.
Chain(t) ==
    /\ Goto(t, "chain", IF node[t].prev = Nil THEN "last" ELSE "pass")
    /\ mwaiters' = IF node[t].next = Nil THEN mwaiters + 1 ELSE mwaiters
    /\ UNCHANGED <<shared, list, mutex, fut, locals, calls>>

\* The mutex is marked as contended before a waiter is moved to its futex.
Pass(t) ==
    /\ Goto(t, "pass", "open")
    /\ mutex' = "contended"
    /\ UNCHANGED <<shared, list, mwaiters, fut, locals, calls>>

Open(t) ==
    /\ Goto(t, "open", "hand over")
    /\ node' = [node EXCEPT ![node[t].prev].barrier = 0]
    /\ UNCHANGED <<shared, head, tail, live, lock, fut, locals, calls>>

\* The next waiter is moved to the futex of the mutex; if that is
\* process-shared it is woken.
HandOver(t) ==
    LET f == Barrier(node[t].prev) IN
    /\ \/ /\ shared /\ WakeOne(t, "hand over", "return", f)
       \/ /\ ~shared /\ Goto(t, "hand over", "return")
          /\ IF Sleepers(f) = {} THEN UNCHANGED fut
             ELSE \E u \in Sleepers(f) : fut' = [fut EXCEPT ![u] = MutexWord]
    /\ UNCHANGED <<shared, list, lock, locals, calls>>

LastOut(t) ==
    /\ Goto(t, "last", "return")
    /\ mwaiters' = mwaiters - 1
    /\ UNCHANGED <<shared, list, mutex, fut, locals, calls>>

\* A wait that gave up returns ETIMEDOUT or ECANCELED, and the latter makes the
\* thread act on the cancellation, unless the waiter was signaled.
Canceled(t) == err[t] /\ node[t].state # "SIGNALED"

\* The mutex is held on return; the program, or its cleanup handler, unlocks it.
Return(t) ==
    /\ \/ Goto(t, "return", "unlock")
       \/ Canceled(t) /\ Goto(t, "return", "canceled")
    /\ live' = live \ {t}
    /\ node' = [node EXCEPT ![t] = NoNode]
    /\ err' = [err EXCEPT ![t] = FALSE]
    /\ UNCHANGED <<shared, head, tail, lock, fut, saw, first, ref, calls>>

Cleanup(t) ==
    /\ Goto(t, "canceled", "unlock")
    /\ UNCHANGED <<shared, list, lock, fut, locals, calls>>

-----------------------------------------------------------------------------
(***************************************************************************)
(* __private_cond_signal(c, n): signal is n = 1, broadcast n = -1.         *)
(***************************************************************************)

\* The list from a node on, towards the head.
Newer[t \in Pointer] == IF t = Nil THEN <<>> ELSE <<t>> \o Newer[node[t].prev]

Members(l) == {l[i] : i \in DOMAIN l}

\* Mutant: a leaving waiter is taken for the one to signal.
VisitedLeaving(all) ==
    LET l == Newer[tail] IN IF all \/ l = <<>> THEN l ELSE <<Head(l)>>

\* The nodes that the loop visits: up to the n-th that still waits.
Visited(all) ==
    LET l == Newer[tail]
        waiting == {i \in DOMAIN l : node[l[i]].state = "WAITING"}
    IN  IF all \/ waiting = {} THEN l
        ELSE SubSeq(l, 1, CHOOSE i \in waiting : \A j \in waiting : i <= j)

\* first: the oldest of the nodes that the loop has signaled.
Oldest(visited) ==
    LET chosen == SelectSeq(visited, LAMBDA u : node[u].state = "WAITING")
    IN  IF chosen = <<>> THEN Nil ELSE Head(chosen)

\* The list is cut between the last node visited and p, the next.
Cut(t, visited, p) ==
    [u \in Waiter |->
        [node[u] EXCEPT
            !.state = IF u \in Members(visited) /\ @ = "WAITING" THEN "SIGNALED" ELSE @,
            !.notify = IF u \in Members(visited) /\ node[u].state # "WAITING" THEN t ELSE @,
            !.prev = IF p # Nil /\ u = node[p].next THEN Nil ELSE @,
            !.next = IF u = p THEN Nil ELSE @]]

Signal(t, all) ==
    LET visited == Visited(all)
        p == IF visited = <<>> THEN tail ELSE node[visited[Len(visited)]].prev
    IN  /\ calls < MaxCalls /\ calls' = calls + 1
        /\ Goto(t, "idle", "await")
        /\ node' = Cut(t, visited, p)
        /\ ref' = [ref EXCEPT ![t] =
                      Cardinality({u \in Members(visited) : node[u].state # "WAITING"})]
        /\ first' = [first EXCEPT ![t] = Oldest(visited)]
        /\ head' = IF p = Nil THEN Nil ELSE head
        /\ tail' = p
        /\ UNCHANGED <<shared, live, lock, fut, saw, err>>

\* Mutant: the signaled waiters go on while leaving nodes are still linked.
AwaitNothing(t) ==
    /\ Goto(t, "await", IF first[t] = Nil THEN "idle" ELSE "first")
    /\ UNCHANGED <<shared, list, lock, fut, locals, calls>>

\* Leaving nodes that were visited must be unlinked before the rest goes on.
Await(t) ==
    /\ \/ ref[t] # 0 /\ Sleep(t, "await", Ref(t), "asleep in await")
       \/ ref[t] = 0 /\ Goto(t, "await", IF first[t] = Nil THEN "idle" ELSE "first")
          /\ UNCHANGED fut
    /\ UNCHANGED <<shared, list, lock, locals, calls>>

\* Mutant: the first waiter is not woken.
OpenFirstSilently(t) ==
    /\ Goto(t, "first", "idle")
    /\ node' = [node EXCEPT ![first[t]].barrier = 0]
    /\ UNCHANGED <<shared, head, tail, live, lock, fut, locals, calls>>

\* unlock(&first->barrier)
OpenFirst(t) ==
    /\ Goto(t, "first", IF node[first[t]].barrier = 2 THEN "wake first" ELSE "idle")
    /\ node' = [node EXCEPT ![first[t]].barrier = 0]
    /\ UNCHANGED <<shared, head, tail, live, lock, fut, locals, calls>>

WakeFirst(t) ==
    /\ pc[t] = "wake first"
    /\ WakeOne(t, "wake first", "idle", Barrier(first[t]))
    /\ first' = [first EXCEPT ![t] = Nil]
    /\ UNCHANGED <<shared, list, lock, saw, err, ref, calls>>

-----------------------------------------------------------------------------
MutexStep(t) ==
    \/ Lock(t) \/ Look(t) \/ Count(t) \/ Mark(t) \/ Wait(t) \/ Uncount(t)
    \/ Unlock(t) \/ Swap(t) \/ Wake(t)

WaiterStep(t) ==
    \/ Enqueue(t) \/ FutexWait(t) \/ Leave(t) \/ Unlink(t) \/ Notify(t) \/ WakeSignaler(t)
    \/ BarrierWait(t) \/ Chain(t) \/ Pass(t) \/ Open(t) \/ HandOver(t) \/ LastOut(t)
    \/ Return(t) \/ Cleanup(t)

SignalerStep(t) == Await(t) \/ OpenFirst(t) \/ WakeFirst(t)

\* Every call has returned.  Waiters that no signal has chosen may sleep on.
Quiet ==
    /\ \A t \in Party : pc[t] \in {"idle", "asleep in wait"}
    /\ calls = MaxCalls
    /\ UNCHANGED vars

Next ==
    \/ \E t \in Waiter : Call(t) \/ MutexStep(t) \/ WaiterStep(t) \/ GiveUp(t)
    \/ \E t \in Signaler : (\E all \in BOOLEAN : Signal(t, all)) \/ SignalerStep(t)
    \/ \E t \in Party : Interrupt(t)
    \/ Quiet

Spec == Init /\ [][Next]_vars

-----------------------------------------------------------------------------
(***************************************************************************)
(* Properties.                                                             *)
(***************************************************************************)

\* The list of a condition variable is well linked in both directions and holds
\* every waiter that nobody has signaled yet, so that a signal can reach it, and
\* no waiter that has been signaled or has returned.
ListSound ==
    LET l == Newer[tail] IN
    /\ head = IF l = <<>> THEN Nil ELSE l[Len(l)]
    /\ \A i \in DOMAIN l : node[l[i]].next = IF i = 1 THEN Nil ELSE l[i - 1]
    /\ {t \in live : node[t].state = "WAITING"} \subseteq Members(l)
    /\ \A t \in Members(l) : t \in live /\ node[t].state # "SIGNALED"

\* No thread touches a node whose owner has returned from its wait, nor the
\* counter of a signaler that has returned: not when it unlinks its own node, not
\* when it opens the barrier of the next waiter or of the first one.
NoDanglingNode ==
    /\ \A t \in Waiter :
        /\ pc[t] = "remove" => /\ head = t \/ node[t].prev \in live \cup {Nil}
                               /\ tail = t \/ node[t].next \in live \cup {Nil}
        /\ pc[t] = "notify" => pc[node[t].notify] \in {"await", "asleep in await"}
        /\ pc[t] = "open" => node[t].prev \in live /\ node[node[t].prev].state = "SIGNALED"
    /\ \A t \in Signaler : pc[t] = "first" => first[t] \in live

\* A thread asleep on the mutex, be it that it waits for it or that it was moved
\* there from its barrier, is not forgotten: the word or the counter tells the
\* holder to wake it, and if there is no holder somebody is awake and on the way
\* to the mutex.  A thread asleep on an open barrier is about to be woken or moved.
NoLostWakeup ==
    /\ Sleepers(MutexWord) # {} =>
        /\ \/ mutex = "contended" \/ mwaiters > 0
           \/ \E t \in Party : pc[t] = "wake"
        /\ \A t \in Party : pc[t] = "swap" => saw[t] \/ mutex = "contended"
        /\ mutex = "free" => \E t \in Waiter :
            \/ pc[t] \in {"wake", "lock", "count", "mark", "wait", "uncount"}
            \/ pc[t] \in {"futex", "leave", "barrier"} /\ node[t].barrier = 0
    /\ \A t \in live : node[t].barrier = 0 /\ t \in Sleepers(Barrier(t)) =>
        \/ \E s \in Signaler : pc[s] = "wake first" /\ first[s] = t
        \/ \E u \in live : pc[u] = "hand over" /\ node[u].prev = t

Waiting == {t \in live : node[t].state = "WAITING"}

\* A call of signal chooses one of the threads blocked on the condition variable,
\* a broadcast all of them, and neither is used up by a thread that is already
\* leaving its wait because of a timeout or cancellation.
ReachesWaiters ==
    \A t \in Signaler :
        LET chosen == Waiting \ Waiting' IN
        /\ Signal(t, TRUE) => chosen = Waiting
        /\ Signal(t, FALSE) => Cardinality(chosen) = IF Waiting = {} THEN 0 ELSE 1

Chosen(t) == t \in live /\ node[t].state = "SIGNALED"

Returned(t) == t \notin live /\ pc[t] = "unlock"
=============================================================================
