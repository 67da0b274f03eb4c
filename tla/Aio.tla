---------------------------------- MODULE Aio ----------------------------------
(***************************************************************************)
(* Asynchronous input and output on one file descriptor (src/aio/aio.c,     *)
(* aio_suspend.c).                                                         *)
(*                                                                         *)
(* Each request has a caller, which submits it, and a thread that does the  *)
(* operation.  The threads of a descriptor are linked in a queue, which     *)
(* exists as long as one of them refers to it.  Other callers cancel        *)
(* requests or wait for them.  The map of queues is protected by maplock,   *)
(* the queue by its own lock, a mutex; its condition variable is that of    *)
(* CondVar.                                                                *)
(***************************************************************************)
EXTENDS Integers, Sequences, FiniteSets

CONSTANTS
    Request, Canceller, Waiter,
    Setups,     \* what the program does: the operation of each request, which of them may
                \* never end, which are submitted after which others, whether the descriptor
                \* is for appending, who cancels, and the lists that each waiter may wait for
    Queue,      \* queues that can be allocated
    None

ASSUME AioAssumption ==
    /\ \A u \in Setups :
          /\ u.op \in [Request -> {"read", "write", "sync", "none"}]
          /\ u.slow \subseteq Request /\ u.after \in [Request -> SUBSET Request]
          /\ u.append \in BOOLEAN /\ u.cancel \subseteq Canceller
          /\ u.wait \in [Waiter -> SUBSET SUBSET Request]
    /\ None \notin Queue /\ None \notin Request /\ None \notin Waiter
    /\ IsFiniteSet(Request)

Submitter == {<<"submit", r>> : r \in Request}
Worker == {<<"io", r>> : r \in Request}
Cancel == {<<"cancel", c>> : c \in Canceller}
Actor == Submitter \cup Worker \cup Cancel
Nobody == <<"nobody", None>>

VARIABLES
    setup,     \* the member of Setups, which does not change
    pc,        \* where each actor is
    qp,        \* the queue it works with
    map,       \* the queue of the descriptor, or None
    readers,   \* holders of maplock for reading
    writer,    \* its holder for writing
    qs,        \* the queues: lock, ref, list of requests, newest first; None if not allocated
    running,   \* at->running of each request
    result,    \* at->err: "none", "ok" or "canceled"
    err,       \* cb->__err: "unused", "busy", "watched" (busy, with a waiter) or a result
    told,      \* pthread_cancel was called for the thread
    posted,    \* args.sem
    todo,      \* the requests that an aio_cancel in progress still has to look at
    target,    \* the request it shall cancel, or None for all
    answer,    \* its result
    fut,       \* __aio_fut
    wpc, watch, expect, \* the callers of aio_suspend
    late,      \* history: since a caller looked, the common word was cleared and taken again
    before     \* history: the requests submitted before a request or a cancellation

vars == <<pc, qp, map, readers, writer, qs, running, result, err, told, posted, todo, target,
          answer, fut, wpc, watch, expect, late, before>>

mapVars == <<map, readers, writer>>
cbVars == <<running, result, err, told, posted>>
cancelVars == <<todo, target, answer>>
waitVars == <<fut, wpc, watch, expect, late>>

Free == [lock |-> Nobody, ref |-> 0, list |-> <<>>]

\* A null pointer is not a queue.
ASSUME NullAssumption == None \notin [lock : Actor \cup {Nobody}, ref : Nat, list : Seq(Request)]

PC == {"idle", "get", "make", "lockq", "have", "relock", "unref", "unref2", "wait", "begin",
       "cwait", "io", "running", "err", "fut", "unlink", "scan", "await", "done", "failed",
       "stuck"}

TypeOK ==
    /\ setup \in Setups
    /\ pc \in [Actor -> PC]
    /\ qp \in [Actor -> Queue \cup {None}] /\ map \in Queue \cup {None}
    /\ readers \subseteq Actor /\ writer \in Actor \cup {Nobody}
    /\ qs \in [Queue -> {None} \cup [lock : Actor \cup {Nobody}, ref : Nat, list : Seq(Request)]]
    /\ running \in [Request -> {0, 1, -1}] /\ result \in [Request -> {"none", "ok", "canceled"}]
    /\ err \in [Request -> {"unused", "busy", "watched", "ok", "canceled", "again"}]
    /\ told \in [Request -> BOOLEAN] /\ posted \in [Request -> BOOLEAN]
    /\ todo \in [Canceller -> Seq(Request)] /\ target \in [Canceller -> Request \cup {None}]
    /\ answer \in [Canceller -> {"none", "alldone", "canceled"}]
    /\ fut \in Waiter \cup {None} /\ wpc \in [Waiter -> {"idle", "check", "arm", "recheck", "wait",
                                                         "asleep", "done"}]
    /\ watch \in [Waiter -> SUBSET Request] /\ expect \in [Waiter -> Waiter \cup {None}]
    /\ late \in [Waiter -> BOOLEAN]
    /\ before \in [Submitter \cup Cancel -> SUBSET Request]

Init ==
    /\ setup \in Setups
    /\ pc = [a \in Actor |-> "idle"] /\ qp = [a \in Actor |-> None]
    /\ map = None /\ readers = {} /\ writer = Nobody /\ qs = [q \in Queue |-> None]
    /\ running = [r \in Request |-> 0] /\ result = [r \in Request |-> "none"]
    /\ err = [r \in Request |-> "unused"] /\ told = [r \in Request |-> FALSE]
    /\ posted = [r \in Request |-> FALSE]
    /\ todo = [c \in Canceller |-> <<>>] /\ target = [c \in Canceller |-> None]
    /\ answer = [c \in Canceller |-> "none"]
    /\ fut = None /\ wpc = [s \in Waiter |-> "idle"] /\ watch = [s \in Waiter |-> {}]
    /\ expect = [s \in Waiter |-> None] /\ late = [s \in Waiter |-> FALSE] /\ before = [a \in Submitter \cup Cancel |-> {}]

\* Each request does one operation; q->append says that writes must be done in order.
Op == setup.op
Appending == setup.append

Goto(a, from, to) == pc[a] = from /\ pc' = [pc EXCEPT ![a] = to]

Busy(r) == err[r] \in {"busy", "watched"}

-----------------------------------------------------------------------------
(***************************************************************************)
(* __aio_get_queue and __aio_unref_queue.                                  *)
(***************************************************************************)

\* The lock of the queue is free, and taken or released.
CanLock(q) == qs[q].lock = Nobody
LockBy(q, a) == [qs EXCEPT ![q].lock = a]

\* With maplock for reading: the queue is there, or has to be made, or there is none.
Find(a) ==
    /\ pc[a] = "get" /\ writer = Nobody
    /\ IF map # None
       THEN /\ readers' = readers \cup {a} /\ qp' = [qp EXCEPT ![a] = map]
            /\ pc' = [pc EXCEPT ![a] = "lockq"] /\ UNCHANGED answer
       ELSE /\ pc' = [pc EXCEPT ![a] = IF a \in Cancel THEN "done" ELSE "make"]
            /\ answer' = IF a \in Cancel THEN [answer EXCEPT ![a[2]] = "alldone"] ELSE answer
            /\ UNCHANGED <<readers, qp>>
    /\ UNCHANGED <<map, writer, qs, cbVars, todo, target, waitVars, before>>

\* With maplock for writing: somebody else may have made it meanwhile.
Make(a) ==
    /\ pc[a] = "make" /\ writer = Nobody /\ readers = {}
    /\ IF map # None
       THEN /\ writer' = a /\ qp' = [qp EXCEPT ![a] = map]
            /\ pc' = [pc EXCEPT ![a] = "lockq"] /\ UNCHANGED <<map, qs>>
       ELSE \E q \in {p \in Queue : qs[p] = None} :
            /\ qs' = [qs EXCEPT ![q] = [Free EXCEPT !.lock = a]]
            /\ map' = q /\ qp' = [qp EXCEPT ![a] = q]
            /\ pc' = [pc EXCEPT ![a] = "have"] /\ UNCHANGED writer
    /\ UNCHANGED <<readers, cbVars, cancelVars, waitVars, before>>

\* The lock of the queue is taken before maplock is released.
LockQueue(a) ==
    /\ Goto(a, "lockq", "have") /\ CanLock(qp[a])
    /\ qs' = LockBy(qp[a], a)
    /\ readers' = readers \ {a} /\ writer' = IF writer = a THEN Nobody ELSE writer
    /\ UNCHANGED <<qp, map, cbVars, cancelVars, waitVars, before>>

\* The caller holds the lock of its queue and gives up its reference; the last one lets go
\* of the lock, to take maplock first.
Last(q) == qs[q].ref <= 1
Unref(q, list) ==
    [qs EXCEPT ![q] = [lock |-> Nobody, ref |-> IF Last(q) THEN @.ref ELSE @.ref - 1,
                       list |-> list]]

UnrefMap(a) ==
    /\ Goto(a, "unref", "unref2") /\ writer = Nobody /\ readers = {}
    /\ writer' = a
    /\ UNCHANGED <<qp, map, readers, qs, cbVars, cancelVars, waitVars, before>>

\* Mutant: the reference count is not looked at again.
UnrefQueueBlind(a) ==
    LET q == qp[a] IN
    /\ pc[a] = "unref2" /\ CanLock(q)
    /\ pc' = [pc EXCEPT ![a] = IF a \in Submitter THEN "failed" ELSE "done"]
    /\ writer' = Nobody
    /\ IF TRUE THEN qs' = [qs EXCEPT ![q] = None] /\ map' = None
       ELSE qs' = [qs EXCEPT ![q].ref = @ - 1] /\ UNCHANGED map
    /\ UNCHANGED <<qp, readers, cbVars, cancelVars, waitVars, before>>

\* Meanwhile an other request may have been submitted.
UnrefQueue(a) ==
    LET q == qp[a] IN
    /\ pc[a] = "unref2" /\ CanLock(q)
    /\ pc' = [pc EXCEPT ![a] = IF a \in Submitter THEN "failed" ELSE "done"]
    /\ writer' = Nobody
    /\ IF qs[q].ref = 1 THEN qs' = [qs EXCEPT ![q] = None] /\ map' = None
       ELSE qs' = [qs EXCEPT ![q].ref = @ - 1] /\ UNCHANGED map
    /\ UNCHANGED <<qp, readers, cbVars, cancelVars, waitVars, before>>

-----------------------------------------------------------------------------
(***************************************************************************)
(* submit.                                                                 *)
(***************************************************************************)

AlreadySubmitted == {r \in Request : pc[<<"submit", r>>] = "done"}

CallSubmit(r) ==
    /\ Goto(<<"submit", r>>, "idle", "get") /\ Op[r] # "none"
    /\ setup.after[r] \subseteq AlreadySubmitted
    /\ before' = [before EXCEPT ![<<"submit", r>>] = AlreadySubmitted]
    /\ UNCHANGED <<qp, mapVars, qs, cbVars, cancelVars, waitVars>>

\* The descriptor is not open, or there is no memory for a queue.
NoQueue(r) ==
    /\ Goto(<<"submit", r>>, "make", "failed")
    /\ err' = [err EXCEPT ![r] = "again"]
    /\ UNCHANGED <<qp, mapVars, qs, running, result, told, posted, cancelVars, waitVars, before>>

\* The request gets its reference, and the thread is made.
Start(r) ==
    LET a == <<"submit", r>>
        i == <<"io", r>>
    IN /\ pc[a] = "have"
       /\ qs' = [qs EXCEPT ![qp[a]] = [lock |-> Nobody, ref |-> @.ref + 1, list |-> @.list]]
       /\ err' = [err EXCEPT ![r] = "busy"]
       /\ \/ /\ pc' = [pc EXCEPT ![a] = "wait", ![i] = "begin"]
             /\ qp' = [qp EXCEPT ![i] = qp[a], ![a] = None]
          \/ /\ pc' = [pc EXCEPT ![a] = "relock"] /\ UNCHANGED qp
       /\ UNCHANGED <<mapVars, running, result, told, posted, cancelVars, waitVars, before>>

\* pthread_create failed.
StartFailed(r) ==
    LET a == <<"submit", r>> IN
    /\ pc[a] = "relock" /\ CanLock(qp[a])
    /\ qs' = Unref(qp[a], qs[qp[a]].list)
    /\ pc' = [pc EXCEPT ![a] = IF Last(qp[a]) THEN "unref" ELSE "failed"]
    /\ err' = [err EXCEPT ![r] = "again"]
    /\ UNCHANGED <<qp, mapVars, running, result, told, posted, cancelVars, waitVars, before>>

\* The caller returns when the thread is in the queue.
Submitted(r) ==
    /\ Goto(<<"submit", r>>, "wait", "done") /\ posted[r]
    /\ UNCHANGED <<qp, mapVars, qs, cbVars, cancelVars, waitVars, before>>

-----------------------------------------------------------------------------
(***************************************************************************)
(* The thread of a request: io_thread_func and cleanup.                    *)
(***************************************************************************)

Ordered(r) == Op[r] = "sync" \/ (Op[r] = "write" /\ Appending)

\* Older requests are further down the list.
Older(list, r) == {list[j] : j \in {k \in DOMAIN list : \E i \in 1..(k - 1) : list[i] = r}}
MustWait(list, r) == Ordered(r) /\ \E p \in Older(list, r) : Op[p] = "write"

Begin(r) ==
    LET i == <<"io", r>>
        list == <<r>> \o qs[qp[i]].list
    IN /\ pc[i] = "begin" /\ CanLock(qp[i])
       /\ qs' = [qs EXCEPT ![qp[i]].list = list]
       /\ posted' = [posted EXCEPT ![r] = TRUE] /\ running' = [running EXCEPT ![r] = 1]
       /\ result' = [result EXCEPT ![r] = "canceled"]
       /\ pc' = [pc EXCEPT ![i] = IF MustWait(list, r) THEN "cwait" ELSE "io"]
       /\ UNCHANGED <<qp, mapVars, err, told, cancelVars, waitVars, before>>

\* After a broadcast the thread has the lock again and looks again.
Recheck(r) ==
    LET i == <<"io", r>> IN
    /\ pc[i] = "relock" /\ CanLock(qp[i])
    /\ pc' = [pc EXCEPT ![i] = IF MustWait(qs[qp[i]].list, r) THEN "cwait" ELSE "io"]
    /\ UNCHANGED <<qp, mapVars, qs, cbVars, cancelVars, waitVars, before>>

\* A cancelled pthread_cond_wait takes the lock before it acts on the cancellation.  The
\* caller of aio_cancel holds the lock until the thread has acted: neither goes on.
CancelWait(r) ==
    /\ Goto(<<"io", r>>, "cwait", "stuck") /\ told[r]
    /\ UNCHANGED <<qp, mapVars, qs, cbVars, cancelVars, waitVars, before>>

\* The system call ends, or is cancelled.
Operate(r) ==
    /\ Goto(<<"io", r>>, "io", "running")
    /\ \/ result' = [result EXCEPT ![r] = "ok"]
       \/ told[r] /\ UNCHANGED result
    /\ UNCHANGED <<qp, mapVars, qs, running, err, told, posted, cancelVars, waitVars, before>>

\* at->running = 0
StopRunning(r) ==
    /\ Goto(<<"io", r>>, "running", "err")
    /\ running' = [running EXCEPT ![r] = 0]
    /\ UNCHANGED <<qp, mapVars, qs, result, err, told, posted, cancelVars, waitVars, before>>

WakeAll(S) == wpc' = [s \in Waiter |-> IF s \in S /\ wpc[s] = "asleep" THEN "check" ELSE wpc[s]]
OneWatched(s) == \E r \in Request : watch[s] = {r}

\* cb->__err gets the result; whoever waits for this request alone is woken.
Publish(r) ==
    /\ Goto(<<"io", r>>, "err", "fut")
    /\ err' = [err EXCEPT ![r] = result[r]]
    /\ IF err[r] # "busy" THEN WakeAll({s \in Waiter : watch[s] = {r}}) ELSE UNCHANGED wpc
    /\ UNCHANGED <<qp, mapVars, qs, running, result, told, posted, cancelVars, fut, watch, expect,
                   late, before>>

\* Whoever waits for several is woken.
WakeLists(r) ==
    /\ Goto(<<"io", r>>, "fut", "unlink")
    /\ fut' = None
    /\ IF fut # None THEN WakeAll({s \in Waiter : ~OneWatched(s)}) ELSE UNCHANGED wpc
    /\ UNCHANGED <<qp, mapVars, qs, cbVars, cancelVars, watch, expect, late, before>>

\* at->next->prev = at->prev and at->prev->next = at->next, or q->head = at->next
Without(list, r) ==
    LET k == CHOOSE j \in DOMAIN list : list[j] = r
    IN [j \in 1..(Len(list) - 1) |-> IF j < k THEN list[j] ELSE list[j + 1]]

\* Mutant: the threads that wait in the queue are not woken.
UnlinkSilent(r) ==
    LET i == <<"io", r>>
        q == qp[i]
        woken == {u \in Worker : FALSE}
        p1 == [u \in Actor |-> IF u \in woken THEN "relock" ELSE pc[u]]
    IN /\ pc[i] = "unlink" /\ CanLock(q)
       /\ qs' = Unref(q, Without(qs[q].list, r))
       /\ pc' = [p1 EXCEPT ![i] = IF Last(q) THEN "unref" ELSE "done"]
       /\ UNCHANGED <<qp, mapVars, cbVars, cancelVars, waitVars, before>>

\* The thread leaves the queue, wakes the ones that wait in it, and gives up its reference.
Unlink(r) ==
    LET i == <<"io", r>>
        q == qp[i]
        woken == {u \in Worker : pc[u] = "cwait" /\ qp[u] = q}
        p1 == [u \in Actor |-> IF u \in woken THEN "relock" ELSE pc[u]]
    IN /\ pc[i] = "unlink" /\ CanLock(q)
       /\ qs' = Unref(q, Without(qs[q].list, r))
       /\ pc' = [p1 EXCEPT ![i] = IF Last(q) THEN "unref" ELSE "done"]
       /\ UNCHANGED <<qp, mapVars, cbVars, cancelVars, waitVars, before>>

-----------------------------------------------------------------------------
(***************************************************************************)
(* aio_cancel, also called by close.                                       *)
(***************************************************************************)

CallCancel(c, r) ==
    /\ Goto(<<"cancel", c>>, "idle", "get") /\ c \in setup.cancel
    /\ target' = [target EXCEPT ![c] = r]
    /\ before' = [before EXCEPT ![<<"cancel", c>>] = AlreadySubmitted]
    /\ UNCHANGED <<qp, mapVars, qs, cbVars, todo, answer, waitVars>>

\* The requests of a list that a call for cb goes through, all of them if cb is null; a
\* request is in the list once.
Matching(list, cb) ==
    IF cb = None THEN list ELSE IF \E j \in DOMAIN list : list[j] = cb THEN <<cb>> ELSE <<>>

ScanFrom(c) ==
    LET a == <<"cancel", c>> IN
    /\ Goto(a, "have", "scan")
    /\ todo' = [todo EXCEPT ![c] = Matching(qs[qp[a]].list, target[c])]
    /\ answer' = [answer EXCEPT ![c] = "alldone"]
    /\ UNCHANGED <<qp, mapVars, qs, cbVars, target, waitVars, before>>

\* Mutant: aio_cancel does not wait for the thread.
ScanNoWait(c) ==
    LET a == <<"cancel", c>>
        r == Head(todo[c])
    IN /\ pc[a] = "scan" /\ todo[c] # <<>>
       /\ IF running[r] # 0
          THEN /\ running' = [running EXCEPT ![r] = -1] /\ told' = [told EXCEPT ![r] = TRUE]
               /\ pc' = pc /\ todo' = [todo EXCEPT ![c] = Tail(@)]
          ELSE todo' = [todo EXCEPT ![c] = Tail(@)] /\ UNCHANGED <<running, told, pc>>
       /\ UNCHANGED <<qp, mapVars, qs, result, err, posted, target, answer, waitVars, before>>

\* A request that still runs is cancelled; the others are passed over.
Scan(c) ==
    LET a == <<"cancel", c>>
        r == Head(todo[c])
    IN /\ pc[a] = "scan" /\ todo[c] # <<>>
       /\ IF running[r] # 0
          THEN /\ running' = [running EXCEPT ![r] = -1] /\ told' = [told EXCEPT ![r] = TRUE]
               /\ pc' = [pc EXCEPT ![a] = "await"] /\ UNCHANGED todo
          ELSE todo' = [todo EXCEPT ![c] = Tail(@)] /\ UNCHANGED <<running, told, pc>>
       /\ UNCHANGED <<qp, mapVars, qs, result, err, posted, target, answer, waitVars, before>>

\* __wait(&p->running, 0, -1, 1)
Await(c) ==
    LET r == Head(todo[c]) IN
    /\ Goto(<<"cancel", c>>, "await", "scan") /\ running[r] # -1
    /\ todo' = [todo EXCEPT ![c] = Tail(@)]
    /\ answer' = IF result[r] = "canceled" THEN [answer EXCEPT ![c] = "canceled"] ELSE answer
    /\ UNCHANGED <<qp, mapVars, qs, cbVars, target, waitVars, before>>

ScanEnd(c) ==
    LET a == <<"cancel", c>> IN
    /\ Goto(a, "scan", "done") /\ todo[c] = <<>>
    /\ qs' = LockBy(qp[a], Nobody) /\ qp' = [qp EXCEPT ![a] = None]
    /\ UNCHANGED <<mapVars, cbVars, cancelVars, waitVars, before>>

-----------------------------------------------------------------------------
(***************************************************************************)
(* aio_suspend.                                                            *)
(***************************************************************************)

CallSuspend(s, R) ==
    /\ wpc[s] = "idle" /\ wpc' = [wpc EXCEPT ![s] = "check"]
    /\ R \in setup.wait[s] /\ R \subseteq AlreadySubmitted
    /\ watch' = [watch EXCEPT ![s] = R]
    /\ UNCHANGED <<pc, qp, mapVars, qs, cbVars, cancelVars, fut, expect, late, before>>

\* One request: its own word says that somebody waits.  Several: the common word does, and
\* they are checked once more.
Check(s) ==
    /\ wpc[s] = "check"
    /\ IF \E r \in watch[s] : ~Busy(r)
       THEN wpc' = [wpc EXCEPT ![s] = "done"] /\ UNCHANGED err
       ELSE /\ wpc' = [wpc EXCEPT ![s] = IF OneWatched(s) THEN "wait" ELSE "arm"]
            /\ err' = IF OneWatched(s)
                      THEN [r \in Request |-> IF r \in watch[s] THEN "watched" ELSE err[r]]
                      ELSE err
    /\ UNCHANGED <<pc, qp, mapVars, qs, running, result, told, posted, cancelVars, fut, watch,
                   expect, late, before>>

\* expect = a_cas(pfut, 0, tid)
Arm(s) ==
    /\ wpc[s] = "arm" /\ wpc' = [wpc EXCEPT ![s] = "recheck"]
    /\ fut' = IF fut = None THEN s ELSE fut
    /\ expect' = [expect EXCEPT ![s] = fut']
    /\ late' = [t \in Waiter |-> t # s /\ (late[t] \/ (fut = None /\ expect[t] = s))]
    /\ UNCHANGED <<pc, qp, mapVars, qs, cbVars, cancelVars, watch, before>>

CheckAgain(s) ==
    /\ wpc[s] = "recheck"
    /\ wpc' = [wpc EXCEPT ![s] = IF \E r \in watch[s] : ~Busy(r) THEN "done" ELSE "wait"]
    /\ UNCHANGED <<pc, qp, mapVars, qs, cbVars, cancelVars, fut, watch, expect, late, before>>

\* The futex wait; it returns at once if the word has changed.
Sleep(s) ==
    /\ wpc[s] = "wait"
    /\ wpc' = [wpc EXCEPT ![s] =
           IF (IF OneWatched(s) THEN \A r \in watch[s] : err[r] = "watched" ELSE fut = expect[s])
           THEN "asleep" ELSE "check"]
    /\ UNCHANGED <<pc, qp, mapVars, qs, cbVars, cancelVars, fut, watch, expect, late, before>>

-----------------------------------------------------------------------------

QueueStep(a) == Find(a) \/ Make(a) \/ LockQueue(a) \/ UnrefMap(a) \/ UnrefQueue(a)
WorkerStep(r) ==
    \/ Begin(r) \/ Recheck(r) \/ CancelWait(r) \/ Operate(r) \/ StopRunning(r)
    \/ Publish(r) \/ WakeLists(r) \/ Unlink(r) \/ QueueStep(<<"io", r>>)
SubmitStep(r) ==
    NoQueue(r) \/ Start(r) \/ StartFailed(r) \/ Submitted(r) \/ QueueStep(<<"submit", r>>)
CancelStep(c) == ScanFrom(c) \/ Scan(c) \/ Await(c) \/ ScanEnd(c) \/ QueueStep(<<"cancel", c>>)
WaitStep(s) == Check(s) \/ Arm(s) \/ CheckAgain(s) \/ Sleep(s)

Calls ==
    \/ \E r \in Request : CallSubmit(r)
    \/ \E c \in Canceller, r \in Request \cup {None} : CallCancel(c, r)
    \/ \E s \in Waiter, R \in (SUBSET Request) \ {{}} : CallSuspend(s, R)

Next ==
    \/ Calls
    \/ \E r \in Request : SubmitStep(r) \/ WorkerStep(r)
    \/ \E c \in Canceller : CancelStep(c)
    \/ \E s \in Waiter : WaitStep(s)

Spec == Init /\ [][Next /\ UNCHANGED setup]_<<vars, setup>>

\* The system call of a request goes on for ever, unless it is cancelled.
Held(r) == pc[<<"io", r>>] = "io" /\ r \in setup.slow /\ ~told[r]

\* Every thread goes on; a system call ends when it is cancelled and, if it is not slow, by
\* itself.
Fairness ==
    /\ \A r \in Request : WF_vars(SubmitStep(r)) /\ WF_vars(~Held(r) /\ WorkerStep(r))
    /\ \A c \in Canceller : WF_vars(CancelStep(c))
    /\ \A s \in Waiter : WF_vars(WaitStep(s))
FairSpec == Spec /\ Fairness

-----------------------------------------------------------------------------
(***************************************************************************)
(* Properties.                                                             *)
(***************************************************************************)

Working(a) == pc[a] \notin {"idle", "get", "make", "wait", "done", "failed"}

\* Whoever uses a queue uses the one in the map, and it is not freed: the last reference
\* is not given up while a thread holds or waits for the lock of the queue.
QueueAlive ==
    /\ \A a \in Actor : Working(a) => qp[a] = map /\ qs[qp[a]] # None
    /\ map # None => qs[map] # None
    /\ \A q \in Queue : qs[q] # None => map = q

\* The reference count is the number of requests whose threads, or whose callers after
\* pthread_create has failed, have not given up their reference.
HasRef(r) ==
    Working(<<"io", r>>) \/ pc[<<"submit", r>>] \in {"relock", "unref", "unref2"}

Refs == {r \in Request : HasRef(r)}

RefExact == \A q \in Queue : qs[q] # None => qs[q].ref = Cardinality(Refs)

\* A sync, or a write that appends, begins only when all writes that were submitted before
\* it have ended.
WritesInOrder ==
    \A r \in Request : Ordered(r) /\ pc[<<"io", r>>] = "io" =>
        \A w \in before[<<"submit", r>>] : Op[w] = "write" =>
            pc[<<"io", w>>] \in {"unref", "unref2", "done"}

\* When aio_cancel has returned, none of the requests that it was asked to cancel is still at
\* work: close may then close the descriptor, and the program may free the buffers.
CancelQuiesces ==
    \A c \in Canceller : pc[<<"cancel", c>>] = "done" =>
        \A r \in before[<<"cancel", c>>] : target[c] \in {None, r} =>
            pc[<<"io", r>>] \notin {"begin", "cwait", "relock", "io"}

\* It says that a request was cancelled only if the request ends so.
CancelHonest ==
    \A c \in Canceller : answer[c] = "canceled" /\ target[c] # None =>
        result[target[c]] = "canceled" /\ err[target[c]] \in {"busy", "watched", "canceled"}

\* A caller of aio_suspend that waits for one request sleeps only while it is in progress.
\* One that waits for several sleeps only while they all are, or the thread of one is about to
\* wake the callers, or it has missed its wakeup (late): it had found the common word taken by
\* an other caller, and before it slept a request ended, which cleared the word, and the other,
\* whose requests go on, took it again.  The kernel compares only the values.
SleepersWoken ==
    \A s \in Waiter : wpc[s] = "asleep" =>
        /\ OneWatched(s) => \A r \in watch[s] : Busy(r)
        /\ ~OneWatched(s) =>
            /\ fut = expect[s] /\ fut # None
            /\ \/ \A r \in watch[s] : Busy(r)
               \/ \E r \in watch[s] : pc[<<"io", r>>] = "fut"
               \/ late[s] /\ expect[s] # s

\* aio_cancel keeps the lock of the queue until the request has ended that it cancels; the
\* request waits in the queue and needs the lock to go on.
Embraced(c, r) ==
    /\ pc[<<"cancel", c>>] = "await" /\ Head(todo[c]) = r /\ qs[map].lock = <<"cancel", c>>
    /\ pc[<<"io", r>>] \in {"cwait", "relock", "stuck"}

\* The system call of the request, or of a write that it has to wait for, goes on for ever.
HeldBack(r) ==
    \/ Held(r)
    \/ pc[<<"io", r>>] = "cwait" /\ \E w \in Request : Op[w] = "write" /\ Held(w)

\* Nobody is inside a call, and no request is in progress, if it does not go on for ever;
\* callers of aio_suspend sleep while all their requests do, or have missed their wakeup.
Quiet ==
    /\ \A a \in Submitter \cup Cancel : pc[a] \in {"idle", "done", "failed"}
    /\ \A r \in Request : Busy(r) => HeldBack(r)
    /\ \A s \in Waiter : \/ wpc[s] \in {"idle", "done"}
                         \/ wpc[s] = "asleep" /\ (late[s] \/ \A r \in watch[s] : Busy(r))

\* The calls of submit and aio_cancel return, the requests whose operations end do, and
\* aio_suspend returns when one of its requests has ended.  The code has two exceptions, and
\* there are no others: aio_cancel and a request that waits in the queue wait for each other
\* for ever (Embraced), and a caller of aio_suspend that has missed its wakeup (late) sleeps
\* until a further request ends, for ever if there is none.  (Each call is made once, so that
\* it is enough that the calls do not go on for ever.)
CallsEnd == []<>(Quiet \/ \E c \in Canceller, r \in Request : Embraced(c, r))

-----------------------------------------------------------------------------
(***************************************************************************)
(* The inductive invariant.                                                *)
(***************************************************************************)

\* Where the code of submit, of io_thread_func and of aio_cancel can be.
SubmitPC == {"idle", "get", "make", "lockq", "have", "relock", "unref", "unref2", "wait", "done",
             "failed"}
WorkPC == {"idle", "begin", "cwait", "relock", "io", "running", "err", "fut", "unlink", "stuck",
           "unref", "unref2", "done"}
CancelPC == {"idle", "get", "lockq", "have", "scan", "await", "done"}

\* A request has a thread once its caller waits for the thread or has returned.
Roles ==
    /\ \A r \in Request : pc[<<"submit", r>>] \in SubmitPC /\ pc[<<"io", r>>] \in WorkPC
    /\ \A c \in Canceller : pc[<<"cancel", c>>] \in CancelPC
    /\ \A r \in Request :
          pc[<<"submit", r>>] \in {"wait", "done"} <=> pc[<<"io", r>>] # "idle"

\* maplock is held by those who look for the lock of a queue or give up the last reference.
MapLocked ==
    /\ readers # {} => writer = Nobody
    /\ \A a \in readers : pc[a] = "lockq"
    /\ \A a \in Actor : pc[a] = "lockq" => a \in readers \/ writer = a
    /\ \A a \in Actor : writer = a => pc[a] \in {"lockq", "unref2"}
    /\ \A a \in Actor : pc[a] = "unref2" => writer = a

\* Who has the lock of the queue.
QueueLocked ==
    \A a \in Actor : pc[a] \in {"have", "scan", "await"} <=> map # None /\ qs[map].lock = a

\* There is a queue while somebody uses it.
InUse == \A a \in Actor : Working(a) => map # None /\ qp[a] = map

QueueInv == Roles /\ MapLocked /\ QueueLocked /\ InUse /\ QueueAlive /\ RefExact

\* The threads in the list of a queue.
Listed == {"cwait", "relock", "io", "running", "err", "fut", "unlink", "stuck"}

\* The list holds every thread between io_thread_func's entry and its cleanup once.
ListExact ==
    \A q \in Queue : qs[q] # None =>
        LET list == qs[q].list IN
        /\ \A j \in DOMAIN list : pc[<<"io", list[j]>>] \in Listed
        /\ \A r \in Request : pc[<<"io", r>>] \in Listed => \E j \in DOMAIN list : list[j] = r
        /\ \A j, k \in DOMAIN list : list[j] = list[k] => j = k

\* A caller returns, and counts as before others, when its thread is in the list.
PostedExact ==
    /\ \A r \in Request : posted[r] <=> pc[<<"io", r>>] \notin {"idle", "begin"}
    /\ \A r \in Request : pc[<<"submit", r>>] = "done" => posted[r]
    /\ \A a \in Submitter \cup Cancel : \A w \in before[a] : posted[w]

\* What was submitted before a request is further down the list, if it is still there.
InOrder ==
    \A q \in Queue : qs[q] # None =>
        \A j, k \in DOMAIN qs[q].list :
            qs[q].list[k] \in before[<<"submit", qs[q].list[j]>>] => j < k

\* A thread that does its operation need not wait any more.
MayOperate ==
    map # None => \A r \in Request : pc[<<"io", r>>] = "io" => ~MustWait(qs[map].list, r)

ListInv == ListExact /\ PostedExact /\ InOrder /\ MayOperate

\* at->running, at->err and cb->__err follow the thread.
Follows(r) ==
    /\ running[r] # 0 <=> pc[<<"io", r>>] \in {"cwait", "relock", "io", "running", "stuck"}
    /\ posted[r] => result[r] # "none"
    /\ pc[<<"io", r>>] \in {"begin", "cwait", "relock", "io", "running", "stuck", "err"} =>
          Busy(r)
    /\ pc[<<"io", r>>] \in {"fut", "unlink", "unref", "unref2", "done"} => err[r] = result[r]
StateFollows == \A r \in Request : Follows(r)

\* A thread that was told to stop has somebody who waits for it, with the lock held.
ToldByOne ==
    \A r \in Request : running[r] = -1 =>
        \E c \in Canceller :
            pc[<<"cancel", c>>] = "await" /\ todo[c] # <<>> /\ Head(todo[c]) = r

\* aio_cancel waits for the thread at the head of what it still has to look at.
CancelWaits(c) ==
    pc[<<"cancel", c>>] = "await" => todo[c] # <<>> /\ running[Head(todo[c])] # 1

\* What it has to look at are requests that it was asked to cancel and that were submitted;
\* the ones that it has not to look at any more are not at work.
AtWork(r) == pc[<<"io", r>>] \in {"begin", "cwait", "relock", "io"}
CancelScans(c) ==
    /\ \A j \in DOMAIN todo[c] : posted[todo[c][j]] /\ target[c] \in {None, todo[c][j]}
    /\ pc[<<"cancel", c>>] \in {"scan", "await"} =>
          \A r \in before[<<"cancel", c>>] : target[c] \in {None, r} /\ AtWork(r) =>
              \E j \in DOMAIN todo[c] : todo[c][j] = r
    /\ pc[<<"cancel", c>>] = "idle" => todo[c] = <<>> /\ answer[c] # "canceled"

\* A request that it reports as cancelled has ended.
CancelSure(c) ==
    answer[c] = "canceled" /\ target[c] # None =>
        posted[target[c]] /\ running[target[c]] = 0 /\ result[target[c]] = "canceled"

\* When it has returned, none of the requests is at work.
CancelEnds(c) ==
    pc[<<"cancel", c>>] = "done" =>
        \A r \in before[<<"cancel", c>>] : target[c] \in {None, r} => ~AtWork(r)

CancelOwn(c) == CancelWaits(c) /\ CancelScans(c) /\ CancelSure(c) /\ CancelEnds(c)

CancelInv == StateFollows /\ ToldByOne /\ \A c \in Canceller : CancelOwn(c)

\* Callers of aio_suspend wait for requests that were submitted.
Watches ==
    \A s \in Waiter : \A r \in watch[s] : pc[<<"submit", r>>] = "done"

\* What is true of a caller that is about to sleep, or sleeps.
Sleeper(s) ==
    /\ wpc[s] = "asleep" /\ OneWatched(s) => \A r \in watch[s] : err[r] = "watched"
    /\ wpc[s] \in {"recheck", "wait", "asleep"} /\ ~OneWatched(s) => expect[s] # None
    /\ wpc[s] = "asleep" /\ ~OneWatched(s) => fut = expect[s]
    /\ late[s] => expect[s] # s
    /\ wpc[s] \in {"wait", "asleep"} /\ ~OneWatched(s) /\ fut = expect[s] /\ ~late[s] =>
          \/ \A r \in watch[s] : Busy(r)
          \/ \E r \in watch[s] : pc[<<"io", r>>] = "fut"
Sleepers == \A s \in Waiter : Sleeper(s)

\* The inductive invariant.
IInv == TypeOK /\ QueueInv /\ ListInv /\ CancelInv /\ Watches /\ Sleepers

-----------------------------------------------------------------------------
(***************************************************************************)
(* Instance of Aio for TLC: a write that may never end and a sync that      *)
(* waits for it, with a caller that cancels; two appending writes and a     *)
(* sync; a write and a read, with two callers that wait for them; two reads *)
(* that may never end and one that does, submitted in this order, with a    *)
(* caller that waits for the first two and one for the last two.           *)
(***************************************************************************)

Setup(o1, o2, o3, slow, after, append, cancel, wait) ==
    [op |-> [r \in Request |-> CASE r = 1 -> o1 [] r = 2 -> o2 [] OTHER -> o3],
     slow |-> slow, after |-> after, append |-> append, cancel |-> cancel, wait |-> wait]

AnyOrder == [r \in Request |-> {}]
OneByOne == [r \in Request |-> {p \in Request : p < r}]
NoLists == [s \in Waiter |-> {}]
AnyLists == [s \in Waiter |-> (SUBSET Request) \ {{}}]
TwoLists == CHOOSE f \in [Waiter -> {{{1, 2}}, {{2, 3}}}] : \A s, t \in Waiter : f[s] = f[t] => s = t

MCSetups ==
    {Setup("write", "sync", "none", {1}, AnyOrder, FALSE, Canceller, NoLists),
     Setup("write", "write", "sync", {}, AnyOrder, TRUE, {}, NoLists),
     Setup("write", "read", "none", {}, AnyOrder, FALSE, {}, AnyLists),
     Setup("read", "read", "read", {1, 2}, OneByOne, FALSE, {}, TwoLists)}

\* Whoever uses a queue uses the one in the map, and it is not freed while a thread holds or
\* waits for its lock: its count is the number of requests that have not given up their
\* reference.
QueueSound == TypeOK /\ QueueAlive /\ RefExact

\* A sync, or a write that appends, begins only when all earlier writes have ended; when
\* aio_cancel has returned none of the requests it was asked to cancel is at work, and what
\* it says of them is so; a caller of aio_suspend sleeps only while its requests go on, or
\* its wakeup is on its way, or it has missed the wakeup because an other caller took the
\* common word twice (late).
RequestsOrdered == WritesInOrder /\ CancelQuiesces /\ CancelHonest /\ SleepersWoken
=============================================================================
