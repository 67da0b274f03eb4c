--------------------------- MODULE AioListProofs ----------------------------
(***************************************************************************)
(* Who acts in asynchronous input and output, the types of the variables,  *)
(* the callers of aio_suspend, the list of a queue (the order of its       *)
(* requests), the states of a request and aio_cancel.                      *)
(***************************************************************************)
EXTENDS Aio, TLAPS

\* Who acts: the callers of submit and aio_cancel and the threads are different actors.
LEMMA Actors ==
    /\ \A r \in Request : <<"submit", r>> \in Actor /\ <<"io", r>> \in Actor
    /\ \A c \in Canceller : <<"cancel", c>> \in Actor
    /\ \A a \in Actor : \/ \E r \in Request : a = <<"submit", r>>
                        \/ \E r \in Request : a = <<"io", r>>
                        \/ \E c \in Canceller : a = <<"cancel", c>>
    /\ \A r \in Request : <<"submit", r>> \in Submitter /\ <<"submit", r>> \notin Cancel
    /\ \A r \in Request : <<"io", r>> \notin Submitter /\ <<"io", r>> \notin Cancel
    /\ \A c \in Canceller : <<"cancel", c>> \notin Submitter /\ <<"cancel", c>> \in Cancel
    /\ \A r, p \in Request : <<"submit", r>> # <<"io", p>>
    /\ \A r \in Request, c \in Canceller : <<"submit", r>> # <<"cancel", c>>
    /\ \A r \in Request, c \in Canceller : <<"io", r>> # <<"cancel", c>>
    /\ Nobody \notin Actor
BY Zenon DEF Actor, Submitter, Worker, Cancel, Nobody

\* The types of what the queue layer reads.
LEMMA QueueTypes ==
    ASSUME TypeOK
    PROVE  /\ pc \in [Actor -> PC] /\ qp \in [Actor -> Queue \cup {None}]
           /\ map \in Queue \cup {None} /\ readers \subseteq Actor /\ None \notin Queue
           /\ writer \in Actor \cup {Nobody} /\ Nobody \notin Actor /\ DOMAIN qs = Queue
           /\ \A q \in Queue : qs[q] # None =>
                qs[q] \in [lock : Actor \cup {Nobody}, ref : Nat,
                           list : Seq(Request)]
BY Zenon, AioAssumption, Actors DEF TypeOK

\* Steps of aio_suspend change neither queues nor lists.
LEMMA WaitersApart ==
    ASSUME NEW s \in Waiter, WaitStep(s) \/ \E R \in SUBSET Request : CallSuspend(s, R)
    PROVE  UNCHANGED <<pc, qp, map, readers, writer, qs, running, result, told, posted, todo,
                       target, answer, before>>
BY Zenon DEF WaitStep, CallSuspend, Check, Arm, CheckAgain, Sleep, mapVars, cbVars, cancelVars

\* Whoever looks for the queue, or gives it up, moves itself only.
LEMMA QueueStepMoves ==
    ASSUME NEW a \in Actor, QueueStep(a), pc \in [Actor -> PC]
    PROVE  UNCHANGED cbVars /\ \A u \in Actor : u # a => pc'[u] = pc[u]
BY Zenon DEF QueueStep, Find, Make, LockQueue, UnrefMap, UnrefQueue, Goto

\* The types of the queues, without the bound of the reference count, and of the other
\* variables.
QueuesType ==
    qs \in [Queue -> {None} \cup [lock : Actor \cup {Nobody}, ref : Int, list : Seq(Request)]]
OwnTypes ==
    /\ setup \in Setups
    /\ pc \in [Actor -> PC] /\ qp \in [Actor -> Queue \cup {None}] /\ map \in Queue \cup {None}
    /\ readers \subseteq Actor /\ writer \in Actor \cup {Nobody}
    /\ running \in [Request -> {0, 1, -1}] /\ result \in [Request -> {"none", "ok", "canceled"}]
    /\ err \in [Request -> {"unused", "busy", "watched", "ok", "canceled", "again"}]
    /\ told \in [Request -> BOOLEAN] /\ posted \in [Request -> BOOLEAN]
SharedTypes ==
    /\ todo \in [Canceller -> Seq(Request)] /\ target \in [Canceller -> Request \cup {None}]
    /\ answer \in [Canceller -> {"none", "alldone", "canceled"}]
    /\ fut \in Waiter \cup {None}
    /\ wpc \in [Waiter -> {"idle", "check", "arm", "recheck", "wait", "asleep", "done"}]
    /\ watch \in [Waiter -> SUBSET Request] /\ expect \in [Waiter -> Waiter \cup {None}]
    /\ late \in [Waiter -> BOOLEAN]
    /\ before \in [Submitter \cup Cancel -> SUBSET Request]

\* The parts of the type invariant.
LEMMA TypesApart ==
    ASSUME TypeOK
    PROVE  QueuesType /\ OwnTypes /\ SharedTypes
<1>1. QueuesType
  BY SMTT(90) DEF TypeOK, QueuesType
<1> QED BY Zenon, <1>1 DEF TypeOK, OwnTypes, SharedTypes

\* Every step keeps the types of what the actors and the requests own.
LEMMA TypeOfOwn ==
    ASSUME TypeOK, QueueInv, ListInv, StateFollows, UNCHANGED setup, Next
    PROVE  OwnTypes'
<1> USE TypesApart, Actors DEF OwnTypes
<1>1. ASSUME NEW a \in Actor, QueueStep(a) PROVE OwnTypes'
  <2>1. CASE Find(a)
    BY SMTT(90), <2>1 DEF Find, cbVars, PC
  <2>2. CASE Make(a)
    BY SMTT(90), <2>2 DEF Make, cbVars, PC
  <2>3. CASE LockQueue(a) \/ UnrefMap(a)
    BY ZenonT(90), <2>3 DEF LockQueue, UnrefMap, Goto, cbVars, PC
  <2>4. CASE UnrefQueue(a)
    BY Zenon, <2>4 DEF UnrefQueue, cbVars, PC
  <2> QED BY Zenon, <1>1, <2>1, <2>2, <2>3, <2>4 DEF QueueStep
<1>2. ASSUME NEW r \in Request, CallSubmit(r) \/ SubmitStep(r) PROVE OwnTypes'
  <2>1. CASE CallSubmit(r) \/ Submitted(r)
    BY ZenonT(90), <2>1 DEF CallSubmit, Submitted, Goto, mapVars, cbVars, PC
  <2>2. CASE Start(r)
    <3>1. \/ /\ pc' = [pc EXCEPT ![<<"submit", r>>] = "wait", ![<<"io", r>>] = "begin"]
             /\ qp' = [qp EXCEPT ![<<"io", r>>] = qp[<<"submit", r>>], ![<<"submit", r>>] = None]
          \/ pc' = [pc EXCEPT ![<<"submit", r>>] = "relock"] /\ qp' = qp
      BY Zenon, <2>2 DEF Start
    <3>2. pc' \in [Actor -> PC]
      BY ZenonT(90), <3>1 DEF PC
    <3>3. qp' \in [Actor -> Queue \cup {None}]
      <4>1. qp[<<"submit", r>>] \in Queue \cup {None}
        BY Zenon
      <4>2. CASE qp' = qp
        BY Zenon, <4>2
      <4>3. CASE qp' = [qp EXCEPT ![<<"io", r>>] = qp[<<"submit", r>>],
                                  ![<<"submit", r>>] = None]
        BY ZenonT(90), <4>1, <4>3
      <4> QED BY Zenon, <3>1, <4>2, <4>3
    <3> QED BY Zenon, <2>2, <3>2, <3>3 DEF Start, mapVars
  <2>3. CASE StartFailed(r)
    BY <2>3, Zenon DEF StartFailed, mapVars, PC
  <2>4. CASE NoQueue(r)
    BY Zenon, <2>4 DEF NoQueue, Goto, mapVars, PC
  <2> QED BY <1>1, <1>2, <2>1, <2>2, <2>3, <2>4, Zenon DEF SubmitStep
<1>3. ASSUME NEW r \in Request, WorkerStep(r) PROVE OwnTypes'
  <2>1. CASE Begin(r)
    BY <2>1, Zenon DEF Begin, mapVars, PC
  <2>2. CASE Unlink(r)
    BY <2>2, Zenon DEF Unlink, mapVars, cbVars, PC
  <2>3. CASE Recheck(r) \/ CancelWait(r) \/ WakeLists(r)
    BY ZenonT(90), <2>3 DEF Recheck, CancelWait, WakeLists, Goto, mapVars, cbVars, PC
  <2>4. CASE Operate(r) \/ StopRunning(r)
    <3>0. \E p \in {"running", "err"} : pc' = [pc EXCEPT ![<<"io", r>>] = p]
      BY ZenonT(90), <2>4 DEF Operate, StopRunning, Goto
    <3>1. pc' \in [Actor -> PC]
      BY ZenonT(90), <3>0 DEF PC
    <3>2. result' \in [Request -> {"none", "ok", "canceled"}]
      BY ZenonT(90), <2>4 DEF Operate, StopRunning
    <3>3. running' \in [Request -> {0, 1, -1}]
      BY ZenonT(90), <2>4 DEF Operate, StopRunning
    <3> QED BY ZenonT(90), <2>4, <3>1, <3>2, <3>3 DEF Operate, StopRunning, mapVars
  <2>5. CASE Publish(r)
    <3>1. posted[r]
      BY Zenon, <2>5 DEF Publish, Goto, ListInv, PostedExact
    <3>2. result[r] \in {"ok", "canceled"}
      BY <3>1, ZenonT(90) DEF StateFollows, Follows
    <3> QED BY <2>5, <3>2, Zenon DEF Publish, Goto, mapVars, PC
  <2> QED BY <1>1, <1>3, <2>1, <2>2, <2>3, <2>4, <2>5, Zenon DEF WorkerStep
<1>4. ASSUME NEW c \in Canceller,
             (\E r \in Request \cup {None} : CallCancel(c, r)) \/ CancelStep(c)
      PROVE  OwnTypes'
  <2>1. CASE Scan(c)
    BY <2>1, ZenonT(90) DEF Scan, mapVars, PC
  <2>2. CASE \/ \E r \in Request \cup {None} : CallCancel(c, r)
             \/ ScanFrom(c) \/ Await(c) \/ ScanEnd(c)
    <3>1. pc' \in [Actor -> PC]
      BY ZenonT(90), <2>2 DEF CallCancel, ScanFrom, Await, ScanEnd, Goto, PC
    <3>2. qp' \in [Actor -> Queue \cup {None}]
      BY ZenonT(90), <2>2 DEF CallCancel, ScanFrom, Await, ScanEnd
    <3> QED BY ZenonT(90), <2>2, <3>1, <3>2
            DEF CallCancel, ScanFrom, Await, ScanEnd, mapVars, cbVars
  <2> QED BY Zenon, <1>1, <1>4, <2>1, <2>2 DEF CancelStep
<1>5. ASSUME NEW s \in Waiter, WaitStep(s) \/ \E R \in SUBSET Request : CallSuspend(s, R)
      PROVE  OwnTypes'
  <2>1. err' \in [Request -> {"unused", "busy", "watched", "ok", "canceled", "again"}]
    BY SMTT(90), <1>5 DEF WaitStep, CallSuspend, Check, Arm, CheckAgain, Sleep, cbVars
  <2> QED BY ZenonT(90), <1>5, <2>1, WaitersApart
<1> QED BY Zenon, <1>2, <1>3, <1>4, <1>5 DEF Next, Calls

\* What aio_cancel goes through is a sequence of requests.
LEMMA MatchingSeq ==
    ASSUME NEW list \in Seq(Request), NEW cb \in Request \cup {None}
    PROVE  Matching(list, cb) \in Seq(Request)
BY SMTT(90) DEF Matching

\* Every step keeps the types of what aio_cancel and aio_suspend own.
LEMMA TypeOfShared ==
    ASSUME TypeOK, QueueInv, \A c \in Canceller : CancelWaits(c), Next
    PROVE  SharedTypes'
<1> USE TypesApart, Actors DEF SharedTypes
<1>1. ASSUME NEW a \in Actor, QueueStep(a) PROVE SharedTypes'
  <2>1. CASE Find(a)
    BY <2>1, ZenonT(90) DEF Find, waitVars
  <2>2. CASE ~Find(a)
    BY ZenonT(90), <1>1, <2>2
    DEF QueueStep, Make, LockQueue, UnrefMap, UnrefQueue, cancelVars, waitVars
  <2> QED BY Zenon, <2>1, <2>2
<1>2. ASSUME NEW r \in Request, CallSubmit(r) \/ SubmitStep(r) PROVE SharedTypes'
  <2>1. CASE CallSubmit(r)
    BY Zenon, <2>1 DEF CallSubmit, cancelVars, waitVars, AlreadySubmitted
  <2>2. CASE NoQueue(r) \/ Start(r) \/ StartFailed(r) \/ Submitted(r)
    BY ZenonT(90), <2>2 DEF NoQueue, Start, StartFailed, Submitted, cancelVars, waitVars
  <2> QED BY <1>1, <1>2, <2>1, <2>2, Zenon DEF SubmitStep
<1>3. ASSUME NEW r \in Request, WorkerStep(r) PROVE SharedTypes'
  <2>1. CASE Publish(r)
    BY ZenonT(90), <2>1 DEF Publish, WakeAll, cancelVars
  <2>2. CASE WakeLists(r)
    BY ZenonT(90), <2>2 DEF WakeLists, WakeAll, cancelVars
  <2>3. CASE \/ Begin(r) \/ Recheck(r) \/ CancelWait(r) \/ Operate(r) \/ StopRunning(r)
             \/ Unlink(r)
    BY ZenonT(90), <2>3
    DEF Begin, Recheck, CancelWait, Operate, StopRunning, Unlink, cancelVars, waitVars
  <2> QED BY <1>1, <1>3, <2>1, <2>2, <2>3, Zenon DEF WorkerStep
<1>4. ASSUME NEW c \in Canceller,
             (\E r \in Request \cup {None} : CallCancel(c, r)) \/ CancelStep(c)
      PROVE  SharedTypes'
  <2>1. CASE \E r \in Request \cup {None} : CallCancel(c, r)
    BY SMTT(90), <2>1 DEF CallCancel, AlreadySubmitted, waitVars
  <2>2. CASE ScanFrom(c)
    <3>1. qs[qp[<<"cancel", c>>]].list \in Seq(Request)
      BY <2>2, QueueTypes, Zenon DEF ScanFrom, Goto, QueueInv, InUse, QueueAlive, Working
    <3>2. Matching(qs[qp[<<"cancel", c>>]].list, target[c]) \in Seq(Request)
      BY ZenonT(90), <3>1, MatchingSeq
    <3> QED BY Zenon, <2>2, <3>2 DEF ScanFrom, waitVars
  <2>3. CASE Scan(c) \/ Await(c)
    <3>1. todo[c] # <<>> => Tail(todo[c]) \in Seq(Request)
      BY SMTT(90) DEF SharedTypes
    <3>2. \/ todo' = todo
          \/ todo[c] # <<>> /\ todo' = [todo EXCEPT ![c] = Tail(todo[c])]
      BY Zenon, <2>3 DEF Scan, Await, Goto, CancelWaits
    <3>3. todo' \in [Canceller -> Seq(Request)]
      BY <3>1, <3>2, ZenonT(90)
    <3>4. answer' \in [Canceller -> {"none", "alldone", "canceled"}]
      BY ZenonT(90), <2>3 DEF Scan, Await
    <3> QED BY ZenonT(90), <2>3, <3>3, <3>4 DEF Scan, Await, waitVars
  <2>4. CASE ScanEnd(c)
    BY Zenon, <2>4 DEF ScanEnd, cancelVars, waitVars
  <2> QED BY <1>1, <1>4, <2>1, <2>2, <2>3, <2>4, Zenon DEF CancelStep
<1>5. ASSUME NEW s \in Waiter, WaitStep(s) \/ \E R \in SUBSET Request : CallSuspend(s, R)
      PROVE  SharedTypes'
  <2>1. UNCHANGED <<todo, target, answer, before>>
    BY Zenon, <1>5, WaitersApart
  <2>2. CASE \E R \in SUBSET Request : CallSuspend(s, R)
    BY SMTT(90), <2>1, <2>2 DEF CallSuspend
  <2>3. CASE Check(s)
    BY <2>1, <2>3, ZenonT(90) DEF Check
  <2>4. CASE Arm(s)
    <3>1. fut' \in Waiter \cup {None}
      BY Zenon, <2>4 DEF Arm
    <3>2. late' \in [Waiter -> BOOLEAN]
      BY Zenon, <2>4 DEF Arm
    <3> QED BY Zenon, <2>1, <2>4, <3>1, <3>2 DEF Arm
  <2>5. CASE CheckAgain(s)
    BY Zenon, <2>1, <2>5 DEF CheckAgain
  <2>6. CASE Sleep(s)
    <3>1. wpc' = [wpc EXCEPT ![s] = "asleep"] \/ wpc' = [wpc EXCEPT ![s] = "check"]
      BY <2>6, Zenon DEF Sleep
    <3> QED BY Zenon, <2>1, <2>6, <3>1 DEF Sleep
  <2> QED BY Zenon, <1>5, <2>2, <2>3, <2>4, <2>5, <2>6 DEF WaitStep
<1> QED BY <1>2, <1>3, <1>4, <1>5, Zenon DEF Next, Calls

\* What the callers of aio_suspend read and write.
LEMMA WaiterTypes ==
    ASSUME TypeOK
    PROVE  /\ wpc \in [Waiter -> {"idle", "check", "arm", "recheck", "wait", "asleep", "done"}]
           /\ DOMAIN watch = Waiter /\ \A s \in Waiter : watch[s] \subseteq Request
           /\ expect \in [Waiter -> Waiter \cup {None}] /\ DOMAIN err = Request
           /\ pc \in [Actor -> PC] /\ None \notin Waiter
BY Zenon, AioAssumption DEF TypeOK

\* A request that was submitted stays so.
LEMMA WatchesStep ==
    ASSUME TypeOK, QueueInv, Watches, Next
    PROVE  Watches'
<1> USE WaiterTypes, Actors
<1>1. ASSUME NEW r \in Request, pc[<<"submit", r>>] = "done" PROVE pc'[<<"submit", r>>] = "done"
  <2>1. ASSUME NEW a \in Actor, QueueStep(a) PROVE pc'[<<"submit", r>>] = "done"
    <3>1. pc[a] # "done"
      BY Zenon, <2>1 DEF QueueStep, Find, Make, LockQueue, UnrefMap, UnrefQueue, Goto
    <3> QED BY <1>1, <2>1, <3>1, QueueStepMoves, Zenon
  <2>2. ASSUME NEW p \in Request, CallSubmit(p) \/ SubmitStep(p)
        PROVE  pc'[<<"submit", r>>] = "done"
    <3>1. CASE Start(p)
      BY <1>1, <3>1, ZenonT(90) DEF Start
    <3>2. CASE CallSubmit(p) \/ NoQueue(p) \/ StartFailed(p) \/ Submitted(p)
      BY <1>1, <3>2, ZenonT(90) DEF CallSubmit, NoQueue, StartFailed, Submitted, Goto
    <3> QED BY <2>1, <2>2, <3>1, <3>2, Zenon DEF SubmitStep
  <2>3. ASSUME NEW p \in Request, WorkerStep(p) PROVE pc'[<<"submit", r>>] = "done"
    <3>1. CASE Unlink(p)
      BY <1>1, <3>1, Zenon DEF Unlink, Worker
    <3>2. CASE \/ Begin(p) \/ Recheck(p) \/ CancelWait(p) \/ Operate(p) \/ StopRunning(p)
               \/ Publish(p) \/ WakeLists(p)
      BY <1>1, <3>2, ZenonT(90)
      DEF Begin, Recheck, CancelWait, Operate, StopRunning, Publish, WakeLists, Goto
    <3> QED BY <2>1, <2>3, <3>1, <3>2, Zenon DEF WorkerStep
  <2>4. ASSUME NEW c \in Canceller,
               CancelStep(c) \/ \E p \in Request \cup {None} : CallCancel(c, p)
        PROVE  pc'[<<"submit", r>>] = "done"
    <3>1. CASE ~QueueStep(<<"cancel", c>>)
      BY <1>1, <2>4, <3>1, ZenonT(90)
      DEF CancelStep, CallCancel, ScanFrom, Scan, Await, ScanEnd, Goto
    <3> QED BY <2>1, <3>1, Zenon
  <2>5. ASSUME NEW s \in Waiter, WaitStep(s) \/ \E R \in SUBSET Request : CallSuspend(s, R)
        PROVE  pc'[<<"submit", r>>] = "done"
    BY Zenon, <1>1, <2>5, WaitersApart
  <2> QED BY <2>2, <2>3, <2>4, <2>5, Zenon DEF Next, Calls
<1>2. ASSUME NEW s \in Waiter, NEW r \in watch'[s]
      PROVE  r \in watch[s] \/ r \in AlreadySubmitted
  <2>1. CASE watch' = watch
    BY Zenon, <1>2, <2>1
  <2>2. CASE \E u \in Waiter : \E R \in SUBSET Request : CallSuspend(u, R)
    BY ZenonT(90), <1>2, <2>2 DEF CallSuspend
  <2>3. ASSUME NEW a \in Actor, QueueStep(a) PROVE watch' = watch
    BY Zenon, <2>3 DEF QueueStep, Find, Make, LockQueue, UnrefMap, UnrefQueue, waitVars
  <2>4. ASSUME NEW p \in Request, CallSubmit(p) \/ SubmitStep(p) \/ WorkerStep(p)
        PROVE  watch' = watch
    BY Zenon, <2>3, <2>4
    DEF CallSubmit, SubmitStep, NoQueue, Start, StartFailed, Submitted, WorkerStep, Begin,
        Recheck, CancelWait, Operate, StopRunning, Publish, WakeLists, Unlink, waitVars
  <2>5. ASSUME NEW c \in Canceller,
               CancelStep(c) \/ \E p \in Request \cup {None} : CallCancel(c, p)
        PROVE  watch' = watch
    BY Zenon, <2>3, <2>5 DEF CancelStep, CallCancel, ScanFrom, Scan, Await, ScanEnd, waitVars
  <2>6. ASSUME NEW u \in Waiter, WaitStep(u) PROVE watch' = watch
    BY <2>6, Zenon DEF WaitStep, Check, Arm, CheckAgain, Sleep
  <2> QED BY Zenon, <2>1, <2>2, <2>4, <2>5, <2>6 DEF Next, Calls
<1> QED BY Zenon, <1>1, <1>2 DEF Watches, AlreadySubmitted

\* A caller of aio_suspend that nothing happens to, or that is woken.
LEMMA SleepsOn ==
    ASSUME NEW s \in Waiter, Sleeper(s), wpc'[s] \in {wpc[s], "check"},
           watch'[s] = watch[s], expect'[s] = expect[s], late'[s] = late[s], fut' = fut,
           \A r \in watch[s] : \/ err'[r] = err[r]
                               \/ Busy(r) /\ err'[r] = "watched"
                               \/ wpc'[s] = "check" /\ OneWatched(s),
           \A r \in watch[s] : pc[<<"io", r>>] = "fut" => pc'[<<"io", r>>] = "fut"
    PROVE  Sleeper(s)'
<1>1. OneWatched(s)' <=> OneWatched(s)
  BY Zenon DEF OneWatched
<1>2. CASE wpc'[s] = wpc[s]
  <2>1. ~OneWatched(s) \/ wpc[s] # "check" => \A r \in watch[s] : Busy(r) => Busy(r)'
    BY Zenon, <1>2 DEF Busy
  <2>2. \A r \in watch[s] : err[r] = "watched" /\ wpc[s] = "asleep" => err'[r] = "watched"
    BY Zenon, <1>2
  <2> QED BY Zenon, <1>1, <1>2, <2>1, <2>2 DEF Sleeper
<1>3. CASE wpc'[s] = "check"
  BY Zenon, <1>3 DEF Sleeper
<1> QED BY Zenon, <1>2, <1>3

\* Steps of others than the callers of aio_suspend and the threads that wake them.
LEMMA NothingHappens ==
    ASSUME TypeOK, QueueInv, Watches, Sleepers, Next,
           \A r \in Request : ~Publish(r) /\ ~WakeLists(r),
           \A s \in Waiter : ~WaitStep(s) /\ \A R \in SUBSET Request : ~CallSuspend(s, R)
    PROVE  Sleepers'
<1> USE WaiterTypes, Actors
<1> DEFINE Calm == /\ UNCHANGED waitVars
                   /\ \A s \in Waiter : \A r \in watch[s] : err'[r] = err[r]
                   /\ \A r \in Request : pc[<<"io", r>>] = "fut" => pc'[<<"io", r>>] = "fut"
<1>1. ASSUME NEW a \in Actor, QueueStep(a) PROVE Calm
  <2>1. pc[a] # "fut"
    BY Zenon, <1>1 DEF QueueStep, Find, Make, LockQueue, UnrefMap, UnrefQueue, Goto
  <2>2. UNCHANGED waitVars
    BY Zenon, <1>1 DEF QueueStep, Find, Make, LockQueue, UnrefMap, UnrefQueue
  <2> QED BY <1>1, <2>1, <2>2, QueueStepMoves, Zenon DEF cbVars
<1>2. ASSUME NEW r \in Request, CallSubmit(r) \/ SubmitStep(r) PROVE Calm
  <2>1. CASE CallSubmit(r) \/ Submitted(r)
    BY <2>1, ZenonT(90) DEF CallSubmit, Submitted, Goto, cbVars
  <2>2. CASE Start(r)
    <3>1. pc[<<"submit", r>>] = "have" /\ pc[<<"io", r>>] = "idle"
      BY <2>2, Zenon DEF Start, QueueInv, Roles
    <3>2. \A s \in Waiter : \A p \in watch[s] : p \in Request /\ p # r
      BY Zenon, <3>1 DEF Watches
    <3>3. /\ UNCHANGED waitVars
          /\ \A p \in Request : p # r => err'[p] = err[p] /\ pc'[<<"io", p>>] = pc[<<"io", p>>]
      BY <2>2, ZenonT(90) DEF Start
    <3>4. \A s \in Waiter : \A p \in watch[s] : err'[p] = err[p]
      BY <3>2, <3>3, Zenon
    <3>5. \A p \in Request : pc[<<"io", p>>] = "fut" => pc'[<<"io", p>>] = "fut"
      BY Zenon, <3>1, <3>3
    <3> QED BY Zenon, <3>3, <3>4, <3>5
  <2>3. CASE StartFailed(r)
    <3>1. pc[<<"submit", r>>] = "relock"
      BY Zenon, <2>3 DEF StartFailed
    <3>2. \A s \in Waiter : \A p \in watch[s] : p \in Request /\ p # r
      BY Zenon, <3>1 DEF Watches
    <3> QED BY Zenon, <2>3, <3>2 DEF StartFailed
  <2>4. CASE NoQueue(r)
    <3>1. pc[<<"submit", r>>] = "make"
      BY Zenon, <2>4 DEF NoQueue, Goto
    <3>2. \A s \in Waiter : \A p \in watch[s] : p \in Request /\ p # r
      BY Zenon, <3>1 DEF Watches
    <3> QED BY Zenon, <2>4, <3>2 DEF NoQueue, Goto
  <2> QED BY <1>1, <1>2, <2>1, <2>2, <2>3, <2>4, Zenon DEF SubmitStep
<1>3. ASSUME NEW r \in Request, WorkerStep(r) PROVE Calm
  <2>1. CASE Unlink(r)
    BY <2>1, Zenon DEF Unlink, cbVars
  <2>2. CASE Begin(r) \/ Recheck(r)
    BY <2>2, Zenon DEF Begin, Recheck, cbVars
  <2>3. CASE CancelWait(r) \/ Operate(r) \/ StopRunning(r)
    BY <2>3, ZenonT(90) DEF CancelWait, Operate, StopRunning, Goto, cbVars
  <2> QED BY <1>1, <1>3, <2>1, <2>2, <2>3, Zenon DEF WorkerStep
<1>4. ASSUME NEW c \in Canceller,
             CancelStep(c) \/ \E r \in Request \cup {None} : CallCancel(c, r)
      PROVE  Calm
  <2>1. CASE ~QueueStep(<<"cancel", c>>)
    BY <1>4, <2>1, ZenonT(90)
    DEF CancelStep, CallCancel, ScanFrom, Scan, Await, ScanEnd, Goto, cbVars
  <2> QED BY Zenon, <1>1, <2>1
<1>5. Calm
  BY Zenon, <1>2, <1>3, <1>4 DEF Next, Calls
<1> HIDE DEF Calm
<1>6. ASSUME NEW s \in Waiter PROVE Sleeper(s)'
  <2>1. \A r \in watch[s] : r \in Request
    BY Zenon
  <2> QED BY Zenon, <1>5, <2>1, SleepsOn DEF Calm, waitVars, Sleepers
<1> QED BY Zenon, <1>6 DEF Sleepers

\* The thread that sets cb->__err wakes who waits for this request alone.
LEMMA SleepersOfPublish ==
    ASSUME NEW r \in Request, TypeOK, Sleepers, Publish(r)
    PROVE  Sleepers'
<1> USE WaiterTypes, Actors
<1> SUFFICES ASSUME NEW s \in Waiter PROVE Sleeper(s)'
  BY Zenon DEF Sleepers
<1>1. /\ pc'[<<"io", r>>] = "fut" /\ \A p \in Request : p # r => err'[p] = err[p]
      /\ \A p \in Request : p # r => pc'[<<"io", p>>] = pc[<<"io", p>>]
      /\ UNCHANGED <<fut, watch, expect, late>>
  BY Zenon DEF Publish, Goto
<1>2. wpc'[s] \in {wpc[s], "check"}
  BY SMTT(90) DEF Publish, WakeAll
<1>3. Sleeper(s)
  BY Zenon DEF Sleepers
<1>4. CASE r \notin watch[s]
  <2>1. \A p \in watch[s] : p \in Request /\ p # r
    BY Zenon, <1>4
  <2> QED BY <1>1, <1>2, <1>3, <2>1, SleepsOn, Zenon
<1>5. CASE r \in watch[s] /\ OneWatched(s)
  <2>1. watch[s] = {r}
    BY ZenonT(90), <1>5 DEF OneWatched
  <2>2. wpc'[s] # "asleep"
    BY SMTT(90), <1>3, <2>1, <1>5 DEF Publish, WakeAll, Sleeper
  <2>3. OneWatched(s)'
    BY Zenon, <1>1, <1>5 DEF OneWatched
  <2>4. late'[s] => expect'[s] # s
    BY Zenon, <1>1, <1>3 DEF Sleeper
  <2> QED BY Zenon, <2>2, <2>3, <2>4 DEF Sleeper
<1>6. CASE r \in watch[s] /\ ~OneWatched(s)
  <2>1. ~OneWatched(s)'
    BY Zenon, <1>1, <1>6 DEF OneWatched
  <2> QED BY <1>1, <1>2, <1>3, <1>6, <2>1, Zenon DEF Sleeper
<1> QED BY Zenon, <1>4, <1>5, <1>6

\* The thread that clears __aio_fut wakes all who wait for several requests.
LEMMA SleepersOfWakeLists ==
    ASSUME NEW r \in Request, TypeOK, Sleepers, WakeLists(r)
    PROVE  Sleepers'
<1> USE WaiterTypes
<1> SUFFICES ASSUME NEW s \in Waiter PROVE Sleeper(s)'
  BY Zenon DEF Sleepers
<1>1. UNCHANGED <<err, watch, expect, late>> /\ fut' = None /\ wpc'[s] \in {wpc[s], "check"}
  BY Zenon DEF WakeLists, WakeAll, cbVars
<1>2. wpc[s] = "asleep" /\ ~OneWatched(s) => wpc'[s] = "check"
  <2>1. wpc[s] = "asleep" /\ ~OneWatched(s) => fut = expect[s] /\ fut # None
    BY Zenon DEF Sleepers, Sleeper
  <2> QED BY ZenonT(90), <2>1 DEF WakeLists, WakeAll
<1>3. OneWatched(s)' <=> OneWatched(s)
  BY Zenon, <1>1 DEF OneWatched
<1>4. Sleeper(s)
  BY Zenon DEF Sleepers
<1>5. wpc'[s] \in {"recheck", "wait", "asleep"} /\ ~OneWatched(s) =>
         wpc'[s] \in {"recheck", "wait"} /\ wpc'[s] = wpc[s] /\ expect'[s] # None
  <2>1. CASE wpc'[s] = "check"
    BY Zenon, <2>1
  <2>2. CASE wpc'[s] = wpc[s]
    BY Zenon, <1>1, <1>2, <1>4, <2>2 DEF Sleeper
  <2> QED BY Zenon, <1>1, <2>1, <2>2
<1>6. wpc'[s] = "asleep" => wpc[s] = "asleep"
  BY Zenon, <1>1
<1>7. late'[s] => expect'[s] # s
  BY Zenon, <1>1, <1>4 DEF Sleeper
<1>8. wpc'[s] = "asleep" /\ OneWatched(s) => \A p \in watch'[s] : err'[p] = "watched"
  BY Zenon, <1>1, <1>4, <1>6 DEF Sleeper
<1> QED BY Zenon, <1>1, <1>3, <1>5, <1>7, <1>8 DEF Sleeper

\* A caller sleeps only after it has looked at its requests once more.
LEMMA SleepersOfWaiter ==
    ASSUME NEW s \in Waiter, TypeOK, Sleepers,
           WaitStep(s) \/ \E R \in SUBSET Request : CallSuspend(s, R)
    PROVE  Sleepers'
<1> USE WaiterTypes
<1>1. pc' = pc
  BY Zenon, WaitersApart
<1>2. ASSUME NEW t \in Waiter, t # s PROVE Sleeper(t)'
  <2>1. /\ wpc'[t] = wpc[t] /\ watch'[t] = watch[t] /\ expect'[t] = expect[t]
        /\ \A r \in Request : err'[r] = err[r] \/ (Busy(r) /\ err'[r] = "watched")
        /\ \/ fut' = fut /\ late'[t] = late[t]
           \/ fut = None /\ fut' = s /\ late'[t] = (late[t] \/ expect[t] = s)
    <3>1. CASE Arm(s)
      <4>1. late'[t] = (late[t] \/ (fut = None /\ expect[t] = s)) /\ late[t] \in BOOLEAN
        BY Zenon, <1>2, <3>1 DEF Arm, TypeOK
      <4>2. wpc'[t] = wpc[t] /\ watch' = watch /\ expect'[t] = expect[t] /\ err' = err
        BY Zenon, <1>2, <3>1 DEF Arm, cbVars
      <4>3. CASE fut = None
        BY Zenon, <3>1, <4>1, <4>2, <4>3 DEF Arm
      <4>4. CASE fut # None
        BY Zenon, <3>1, <4>1, <4>2, <4>4 DEF Arm
      <4> QED BY Zenon, <4>3, <4>4
    <3>2. CASE ~Arm(s)
      BY ZenonT(90), <1>2, <3>2 DEF WaitStep, CallSuspend, Check, CheckAgain, Sleep, cbVars
    <3> QED BY Zenon, <3>1, <3>2
  <2>2. Sleeper(t) /\ watch[t] \subseteq Request
    BY Zenon DEF Sleepers
  <2>3. CASE fut' = fut /\ late'[t] = late[t]
    BY Zenon, <1>1, <2>1, <2>2, <2>3, SleepsOn
  <2>4. CASE fut = None /\ fut' = s /\ late'[t] = (late[t] \/ expect[t] = s)
    <3>1. OneWatched(t)' <=> OneWatched(t)
      BY Zenon, <2>1 DEF OneWatched
    <3>2. \A r \in watch[t] : err[r] = "watched" => err'[r] = "watched"
      BY Zenon, <2>1, <2>2
    <3> QED BY Zenon, <1>2, <2>1, <2>2, <2>4, <3>1, <3>2 DEF Sleeper
  <2> QED BY Zenon, <2>1, <2>3, <2>4
<1>3. Sleeper(s)'
  <2>1. Sleeper(s)
    BY Zenon DEF Sleepers
  <2>2. CASE \E R \in SUBSET Request : CallSuspend(s, R)
    BY Zenon, <2>1, <2>2 DEF CallSuspend, Sleeper
  <2>3. CASE Check(s)
    <3>1. /\ wpc'[s] \in {"done", "arm", "wait"} /\ watch' = watch /\ UNCHANGED <<expect, late>>
          /\ wpc'[s] = "wait" => OneWatched(s)
      BY Zenon, <2>3 DEF Check
    <3>2. wpc'[s] = "wait" => OneWatched(s)'
      BY Zenon, <3>1 DEF OneWatched
    <3> QED BY Zenon, <2>1, <3>1, <3>2 DEF Sleeper
  <2>4. CASE Arm(s)
    BY Zenon, <2>4 DEF Arm, Sleeper
  <2>5. CASE CheckAgain(s)
    <3>1. /\ wpc[s] = "recheck" /\ UNCHANGED <<fut, watch, expect, late, err>>
          /\ wpc'[s] \in {"done", "wait"}
          /\ wpc'[s] = "wait" => \A r \in watch[s] : Busy(r)
      BY Zenon, <2>5 DEF CheckAgain, cbVars
    <3>2. OneWatched(s)' <=> OneWatched(s)
      BY Zenon, <3>1 DEF OneWatched
    <3>3. wpc'[s] = "wait" => \A r \in watch[s] : Busy(r)'
      BY Zenon, <3>1 DEF Busy
    <3> QED BY Zenon, <2>1, <3>1, <3>2, <3>3 DEF Sleeper
  <2>6. CASE Sleep(s)
    <3>1. /\ wpc[s] = "wait" /\ UNCHANGED <<fut, watch, expect, late, err>>
          /\ wpc'[s] \in {"asleep", "check"}
          /\ wpc'[s] = "asleep" /\ OneWatched(s) => \A r \in watch[s] : err[r] = "watched"
          /\ wpc'[s] = "asleep" /\ ~OneWatched(s) => fut = expect[s]
      BY Zenon, <2>6 DEF Sleep, cbVars
    <3>2. OneWatched(s)' <=> OneWatched(s)
      BY Zenon, <3>1 DEF OneWatched
    <3>3. (\A r \in watch[s] : Busy(r)') <=> \A r \in watch[s] : Busy(r)
      BY Zenon, <3>1 DEF Busy
    <3> QED BY <1>1, <2>1, <3>1, <3>2, <3>3, Zenon DEF Sleeper
  <2> QED BY Zenon, <2>2, <2>3, <2>4, <2>5, <2>6 DEF WaitStep
<1> QED BY Zenon, <1>2, <1>3 DEF Sleepers

-----------------------------------------------------------------------------
\* A request must wait if a write is further down the list than it.
LEMMA MustWaitMeans ==
    ASSUME NEW list \in Seq(Request), NEW r \in Request
    PROVE  MustWait(list, r) <=>
             /\ Ordered(r)
             /\ \E j, k \in DOMAIN list : j < k /\ list[j] = r /\ Op[list[k]] = "write"
<1>1. \A k \in DOMAIN list : \A j : j \in 1..(k - 1) <=> j \in DOMAIN list /\ j < k
  BY SMTT(90)
<1> QED BY Zenon, <1>1 DEF MustWait, Older

\* A list without a request that is in it once: the others, in the same order.
LEMMA WithoutMeans ==
    ASSUME NEW list \in Seq(Request), NEW k \in DOMAIN list,
           \A j, m \in DOMAIN list : list[j] = list[m] => j = m
    PROVE  LET rest == Without(list, list[k]) IN
           /\ rest \in Seq(Request)
           /\ \A j \in DOMAIN rest :
                 /\ j < k => j \in DOMAIN list /\ rest[j] = list[j]
                 /\ j >= k => j + 1 \in DOMAIN list /\ rest[j] = list[j + 1]
           /\ \A j \in DOMAIN list :
                 /\ j < k => j \in DOMAIN rest /\ rest[j] = list[j]
                 /\ j > k => j - 1 \in DOMAIN rest /\ rest[j - 1] = list[j]
<1>1. (CHOOSE j \in DOMAIN list : list[j] = list[k]) = k
  BY Zenon
<1>2. Without(list, list[k]) =
        [j \in 1..(Len(list) - 1) |-> IF j < k THEN list[j] ELSE list[j + 1]]
  BY Zenon, <1>1 DEF Without
<1>3. DOMAIN list = 1..Len(list) /\ Len(list) \in Nat /\ k \in 1..Len(list)
  BY SMTT(90)
<1>4. Len(list) - 1 \in Nat
  BY SMTT(90), <1>3
<1>5. Without(list, list[k]) \in [1..(Len(list) - 1) -> Request]
  BY SMTT(90), <1>2, <1>3
<1>6. Without(list, list[k]) \in Seq(Request)
  BY SMTT(90), <1>4, <1>5
<1> QED BY SMTT(90), <1>2, <1>3, <1>6

\* Steps that leave the lists alone.
LEMMA ListQuiet ==
    ASSUME TypeOK, QueueInv, ListInv, UNCHANGED <<setup, posted>>,
           \A q \in Queue : qs'[q] # None => qs[q] # None /\ qs'[q].list = qs[q].list,
           map' # None => map' = map, QueueAlive',
           \A r \in Request :
              \/ pc'[<<"io", r>>] = pc[<<"io", r>>]
              \/ /\ pc[<<"io", r>>] \in Listed /\ pc'[<<"io", r>>] \in Listed
                 /\ pc'[<<"io", r>>] = "io" => ~MustWait(qs[map].list, r)
              \/ pc[<<"io", r>>] \in {"idle", "begin"} /\ pc'[<<"io", r>>] \in {"idle", "begin"}
              \/ /\ pc[<<"io", r>>] \in {"unref", "unref2", "done"}
                 /\ pc'[<<"io", r>>] \in {"unref", "unref2", "done"},
           \A r \in Request : pc'[<<"submit", r>>] = "done" => posted[r],
           \A a \in Submitter \cup Cancel :
              \/ before'[a] = before[a]
              \/ /\ \A w \in before'[a] : posted[w]
                 /\ \A r \in Request : a = <<"submit", r>> => pc'[<<"io", r>>] \notin Listed
    PROVE  ListInv'
<1> USE DEF ListInv
<1>0. \A r \in Request : pc'[<<"io", r>>] \in Listed <=> pc[<<"io", r>>] \in Listed
  BY ZenonT(90) DEF Listed
<1>1. ListExact'
  <2> SUFFICES ASSUME NEW q \in Queue, qs'[q] # None
               PROVE  LET list == qs'[q].list IN
                      /\ \A j \in DOMAIN list : pc'[<<"io", list[j]>>] \in Listed
                      /\ \A r \in Request : pc'[<<"io", r>>] \in Listed =>
                            \E j \in DOMAIN list : list[j] = r
                      /\ \A j, k \in DOMAIN list : list[j] = list[k] => j = k
    BY Zenon DEF ListExact
  <2>1. qs[q] # None /\ qs'[q].list = qs[q].list /\ qs[q].list \in Seq(Request)
    BY Zenon, QueueTypes
  <2>2. \A j \in DOMAIN qs[q].list : qs[q].list[j] \in Request
    BY SMTT(90), <2>1
  <2>3. /\ \A j \in DOMAIN qs[q].list : pc[<<"io", qs[q].list[j]>>] \in Listed
        /\ \A r \in Request : pc[<<"io", r>>] \in Listed =>
              \E j \in DOMAIN qs[q].list : qs[q].list[j] = r
        /\ \A j, k \in DOMAIN qs[q].list : qs[q].list[j] = qs[q].list[k] => j = k
    BY Zenon, <2>1 DEF ListExact
  <2> QED BY ZenonT(90), <1>0, <2>1, <2>2, <2>3
<1>2. PostedExact'
  BY Zenon DEF PostedExact, Listed
<1>3. InOrder'
  <2> SUFFICES ASSUME NEW q \in Queue, qs'[q] # None,
                      NEW j \in DOMAIN qs[q].list, NEW k \in DOMAIN qs[q].list,
                      qs[q].list[k] \in before'[<<"submit", qs[q].list[j]>>]
               PROVE  j < k
    BY Zenon DEF InOrder
  <2>1. qs[q].list[j] \in Request
    BY SMTT(90), QueueTypes
  <2>3. pc'[<<"io", qs[q].list[j]>>] \in Listed
    BY Zenon, <1>1 DEF ListExact
  <2>2. before'[<<"submit", qs[q].list[j]>>] = before[<<"submit", qs[q].list[j]>>]
    BY Zenon, <2>1, <2>3, Actors
  <2> QED BY Zenon, <2>2 DEF InOrder
<1>4. MayOperate'
  <2> SUFFICES ASSUME map' # None, NEW r \in Request, pc'[<<"io", r>>] = "io"
               PROVE  ~MustWait(qs[map].list, r)'
    BY Zenon DEF MayOperate
  <2>1. map' = map /\ map \in Queue /\ qs'[map] # None /\ qs'[map].list = qs[map].list
    BY Zenon, QueueTypes DEF QueueAlive
  <2>2. ~MustWait(qs[map].list, r)
    BY Zenon, <2>1 DEF MayOperate, Listed
  <2> QED BY SMTT(90), <2>1, <2>2 DEF MustWait, Ordered, Op, Appending, Older
<1> QED BY ZenonT(90), <1>1, <1>2, <1>3, <1>4

\* A thread that enters the queue goes to the head of the list.
LEMMA BeginList ==
    ASSUME NEW r \in Request, TypeOK, QueueInv, ListInv, Begin(r), UNCHANGED setup
    PROVE  ListInv'
<1> USE DEF ListInv
<1> DEFINE i == <<"io", r>>
           list == qs[map].list
           new == <<r>> \o list
<1>1. /\ i \in Actor /\ pc[i] = "begin" /\ qp[i] = map /\ map \in Queue /\ qs[map] # None
      /\ list \in Seq(Request)
  BY Actors, QueueTypes, ZenonT(90) DEF Begin, QueueInv, InUse, QueueAlive, Working
<1>2. /\ qs' = [qs EXCEPT ![map].list = new] /\ posted' = [posted EXCEPT ![r] = TRUE]
      /\ pc' = [pc EXCEPT ![i] = IF MustWait(new, r) THEN "cwait" ELSE "io"]
      /\ UNCHANGED <<map, before>>
  BY Zenon, <1>1 DEF Begin, mapVars
<1>3. /\ new \in Seq(Request) /\ new[1] = r /\ 1 \in DOMAIN new
      /\ \A j \in DOMAIN new : j \in Nat \ {0}
      /\ \A j \in DOMAIN list : j + 1 \in DOMAIN new /\ new[j + 1] = list[j]
      /\ \A j \in DOMAIN new : j # 1 => j - 1 \in DOMAIN list /\ new[j] = list[j - 1]
  BY SMTT(90), <1>1
<1> HIDE DEF new
<1>4. /\ \A q \in Queue : qs'[q] # None => q = map
      /\ qs'[map].list = new
  BY ZenonT(90), <1>1, <1>2, QueueTypes DEF QueueInv, QueueAlive
<1>5. /\ pc'[i] \in {"cwait", "io"}
      /\ pc'[i] = "io" => ~MustWait(new, r)
      /\ \A u \in Actor : u # i => pc'[u] = pc[u]
  BY Zenon, <1>1, <1>2, QueueTypes
<1>6. ~posted[r] /\ \A j \in DOMAIN list : list[j] # r
  BY ZenonT(90), <1>1 DEF PostedExact, ListExact, Listed
<1>7. \A p \in Request : p # r => pc'[<<"io", p>>] = pc[<<"io", p>>]
  BY <1>5, Actors, Zenon
<1>8. \A p \in Request : pc'[<<"submit", p>>] = pc[<<"submit", p>>]
  BY Zenon, <1>5, Actors
<1> HIDE DEF i
<1>9. ListExact'
  <2>1. ASSUME NEW j \in DOMAIN new PROVE pc'[<<"io", new[j]>>] \in Listed
    <3>1. CASE j = 1
      <4>1. new[j] = r /\ pc'[i] \in Listed
        BY Zenon, <1>3, <1>5, <3>1 DEF Listed
      <4> QED BY Zenon, <4>1 DEF i
    <3>2. CASE j # 1
      <4>1. j - 1 \in DOMAIN list /\ new[j] = list[j - 1] /\ new[j] \in Request
        BY SMTT(90), <1>3, <3>2
      <4>2. pc[<<"io", new[j]>>] \in Listed /\ new[j] # r
        BY Zenon, <1>1, <1>6, <4>1 DEF ListExact
      <4> QED BY Zenon, <1>7, <4>1, <4>2
    <3> QED BY Zenon, <3>1, <3>2
  <2>2. \A p \in Request : pc'[<<"io", p>>] \in Listed => \E j \in DOMAIN new : new[j] = p
    BY SMTT(90), <1>1, <1>3, <1>7 DEF ListExact
  <2>3. \A j, k \in DOMAIN new : new[j] = new[k] => j = k
    BY SMTT(90), <1>1, <1>3, <1>6 DEF ListExact
  <2> QED BY SMTT(90), <1>4, <2>1, <2>2, <2>3 DEF ListExact
<1>10. PostedExact'
  <2>1. \A p \in Request : posted'[p] <=> posted[p] \/ p = r
    BY Zenon, <1>2 DEF TypeOK
  <2>2. pc[<<"io", r>>] = "begin" /\ pc'[<<"io", r>>] \notin {"idle", "begin"}
    BY Zenon, <1>1, <1>5 DEF i
  <2>3. \A p \in Request : posted'[p] <=> pc'[<<"io", p>>] \notin {"idle", "begin"}
    BY Zenon, <1>7, <2>1, <2>2 DEF PostedExact
  <2>4. \A a \in Submitter \cup Cancel : before[a] \subseteq Request
    BY Zenon DEF TypeOK
  <2> QED BY Zenon, <1>2, <1>8, <2>1, <2>3, <2>4 DEF PostedExact
<1>11. InOrder'
  <2> SUFFICES ASSUME NEW j \in DOMAIN new, NEW k \in DOMAIN new,
                      new[k] \in before[<<"submit", new[j]>>]
               PROVE  j < k
    BY Zenon, <1>2, <1>4 DEF InOrder
  <2>1. new[j] \in Request
    BY SMTT(90), <1>3
  <2>2. k # 1
    BY Zenon, <1>3, <1>6, <2>1, Actors DEF PostedExact
  <2>3. j # 1 => j - 1 < k - 1
    BY <1>1, <1>3, <2>2, ZenonT(90) DEF InOrder
  <2> QED BY SMTT(90), <1>3, <2>2, <2>3
<1>12. MayOperate'
  <2> SUFFICES ASSUME NEW p \in Request, pc'[<<"io", p>>] = "io"
               PROVE  ~MustWait(new, p)
    BY Zenon, <1>2, <1>4 DEF MayOperate, MustWait, Ordered, Op, Appending
  <2>1. CASE p = r
    BY Zenon, <1>5, <2>1 DEF i
  <2>2. CASE p # r
    <3>1. ~MustWait(list, p)
      BY Zenon, <1>1, <1>7, <2>2, AioAssumption DEF MayOperate
    <3>2. ASSUME NEW j \in DOMAIN new, NEW k \in DOMAIN new, j < k, new[j] = p
          PROVE  j - 1 \in DOMAIN list /\ k - 1 \in DOMAIN list /\ j - 1 < k - 1
                 /\ list[j - 1] = p /\ list[k - 1] = new[k]
      BY SMTT(90), <1>3, <2>2, <3>2
    <3>3. ASSUME MustWait(new, p) PROVE MustWait(list, p)
      <4>1. PICK j, k \in DOMAIN new : j < k /\ new[j] = p /\ Op[new[k]] = "write"
        BY ZenonT(90), <1>3, <3>3, MustWaitMeans
      <4>2. Ordered(p)
        BY Zenon, <1>3, <3>3, MustWaitMeans
      <4> QED BY SMTT(90), <1>1, <3>2, <4>1, <4>2, MustWaitMeans
    <3> QED BY Zenon, <3>1, <3>3
  <2> QED BY Zenon, <2>1, <2>2
<1> QED BY Zenon, <1>9, <1>10, <1>11, <1>12

\* A thread that leaves the queue leaves the order of the others as it was.
LEMMA UnlinkList ==
    ASSUME NEW r \in Request, TypeOK, QueueInv, ListInv, Unlink(r), UNCHANGED setup
    PROVE  ListInv' /\ Without(qs[qp[<<"io", r>>]].list, r) \in Seq(Request)
<1> USE DEF ListInv
<1> DEFINE i == <<"io", r>>
           list == qs[map].list
           new == Without(list, r)
           woken == {u \in Worker : pc[u] = "cwait" /\ qp[u] = map}
<1>1. /\ i \in Actor /\ pc[i] = "unlink" /\ qp[i] = map /\ map \in Queue /\ qs[map] # None
      /\ list \in Seq(Request)
  BY Actors, QueueTypes, Zenon DEF Unlink, QueueInv, InUse, QueueAlive, Working
<1>2. /\ qs' = Unref(map, new) /\ UNCHANGED <<map, posted, before>>
      /\ pc' = [[u \in Actor |-> IF u \in woken THEN "relock" ELSE pc[u]]
                EXCEPT ![i] = IF Last(map) THEN "unref" ELSE "done"]
  BY Zenon, <1>1 DEF Unlink, mapVars, cbVars
<1>3. /\ pc'[i] \in {"unref", "done"}
      /\ \A u \in Actor : u # i =>
            pc'[u] = pc[u] \/ (u \in Worker /\ pc[u] = "cwait" /\ pc'[u] = "relock")
  BY Zenon, <1>1, <1>2
<1> HIDE DEF woken
<1>4. /\ \A q \in Queue : qs'[q] # None => q = map
      /\ qs'[map].list = new
  BY Zenon, <1>1, <1>2, QueueTypes DEF QueueInv, QueueAlive, Unref
<1>5. PICK n \in DOMAIN list : list[n] = r
  BY ZenonT(90), <1>1 DEF ListExact, Listed
<1>6. \A j, k \in DOMAIN list : list[j] = list[k] => j = k
  BY Zenon, <1>1 DEF ListExact
<1>7. /\ new \in Seq(Request)
      /\ \A j \in DOMAIN new :
            /\ j < n => j \in DOMAIN list /\ new[j] = list[j]
            /\ j >= n => j + 1 \in DOMAIN list /\ new[j] = list[j + 1]
      /\ \A j \in DOMAIN list :
            /\ j < n => j \in DOMAIN new /\ new[j] = list[j]
            /\ j > n => j - 1 \in DOMAIN new /\ new[j - 1] = list[j]
  <2>1. new = Without(list, list[n])
    BY Zenon, <1>5
  <2> HIDE DEF list, new
  <2> QED BY SMTT(90), <1>1, <1>6, <2>1, WithoutMeans
<1>8. n \in Nat /\ \A j \in DOMAIN list \cup DOMAIN new : j \in Nat
  BY SMTT(90), <1>1, <1>7
<1> DEFINE old(j) == IF j < n THEN j ELSE j + 1
<1>9. /\ \A j \in DOMAIN new :
            old(j) \in DOMAIN list /\ old(j) # n /\ new[j] = list[old(j)]
      /\ \A j, k \in DOMAIN new : old(j) < old(k) <=> j < k
      /\ \A j, k \in DOMAIN new : old(j) = old(k) => j = k
      /\ \A m \in DOMAIN list : m # n => \E j \in DOMAIN new : old(j) = m
  <2>1. ASSUME NEW m \in DOMAIN list, m # n PROVE \E j \in DOMAIN new : old(j) = m
    <3>1. CASE m < n
      BY Zenon, <1>7, <3>1
    <3>2. CASE m > n
      <4>1. m - 1 \in DOMAIN new /\ old(m - 1) = m
        BY SMTT(90), <1>7, <1>8, <3>2
      <4> QED BY Zenon, <4>1
    <3> QED BY SMTT(90), <1>8, <2>1, <3>1, <3>2
  <2> QED BY SMTT(90), <1>7, <1>8, <2>1
<1> HIDE DEF new, old
<1>10. \A p \in Request : p # r =>
         \/ pc'[<<"io", p>>] = pc[<<"io", p>>]
         \/ pc[<<"io", p>>] = "cwait" /\ pc'[<<"io", p>>] = "relock"
  BY <1>3, Actors, Zenon
<1>11. \A p \in Request : pc'[<<"submit", p>>] = pc[<<"submit", p>>]
  <2>1. \A p \in Request : <<"submit", p>> \notin Worker
    BY Zenon DEF Worker
  <2> QED BY <1>3, <2>1, Actors, Zenon
<1> HIDE DEF i
<1>12. ListExact'
  <2>1. \A j \in DOMAIN new : pc'[<<"io", new[j]>>] \in Listed
    BY SMTT(90), <1>1, <1>5, <1>6, <1>7, <1>9, <1>10, QueueTypes DEF ListExact, Listed
  <2>2. \A p \in Request : pc'[<<"io", p>>] \in Listed => \E j \in DOMAIN new : new[j] = p
    <3> SUFFICES ASSUME NEW p \in Request, pc'[<<"io", p>>] \in Listed
                 PROVE  \E j \in DOMAIN new : new[j] = p
      BY Zenon
    <3>1. p # r /\ pc[<<"io", p>>] \in Listed
      BY Zenon, <1>3, <1>10 DEF Listed, i
    <3>2. PICK m \in DOMAIN list : list[m] = p
      BY ZenonT(90), <1>1, <3>1 DEF ListExact
    <3> QED BY Zenon, <1>5, <1>9, <3>1, <3>2
  <2>3. \A j, k \in DOMAIN new : new[j] = new[k] => j = k
    BY Zenon, <1>6, <1>9
  <2> QED BY SMTT(90), <1>4, <2>1, <2>2, <2>3 DEF ListExact
<1>13. PostedExact'
  BY <1>1, <1>2, <1>3, <1>10, <1>11, ZenonT(90) DEF PostedExact, i
<1>14. InOrder'
  <2> SUFFICES ASSUME NEW j \in DOMAIN new, NEW k \in DOMAIN new,
                      new[k] \in before[<<"submit", new[j]>>]
               PROVE  j < k
    BY Zenon, <1>2, <1>4 DEF InOrder
  <2>1. list[old(k)] \in before[<<"submit", list[old(j)]>>]
    BY Zenon, <1>9
  <2>2. old(j) < old(k)
    BY <1>1, <1>9, <2>1, Zenon DEF InOrder
  <2> QED BY Zenon, <1>9, <2>2
<1>15. MayOperate'
  <2> SUFFICES ASSUME NEW p \in Request, pc'[<<"io", p>>] = "io"
               PROVE  ~MustWait(new, p)
    BY Zenon, <1>2, <1>4 DEF MayOperate, MustWait, Ordered, Op, Appending
  <2>1. p # r /\ pc[<<"io", p>>] = "io"
    BY Zenon, <1>3, <1>10 DEF i
  <2>2. ~MustWait(list, p)
    BY Zenon, <1>1, <2>1, AioAssumption DEF MayOperate
  <2>3. ASSUME MustWait(new, p) PROVE MustWait(list, p)
    <3>1. PICK j, k \in DOMAIN new : j < k /\ new[j] = p /\ Op[new[k]] = "write"
      BY ZenonT(90), <1>7, <2>3, MustWaitMeans
    <3>2. Ordered(p)
      BY Zenon, <1>7, <2>3, MustWaitMeans
    <3>3. /\ old(j) \in DOMAIN list /\ old(k) \in DOMAIN list /\ old(j) < old(k)
          /\ list[old(j)] = p /\ Op[list[old(k)]] = "write"
      BY Zenon, <1>9, <3>1
    <3> QED BY SMTT(90), <1>1, <3>2, <3>3, MustWaitMeans
  <2> QED BY Zenon, <2>2, <2>3
<1> QED BY Zenon, <1>1, <1>7, <1>12, <1>13, <1>14, <1>15 DEF i, new

\* An actor goes to p.
Moves(a, p) == pc' = [pc EXCEPT ![a] = p]

\* The steps of one actor that leave the lists alone.
LEMMA ListMove ==
    ASSUME TypeOK, QueueInv, QueueAlive', ListInv, UNCHANGED <<setup, posted>>,
           \A q \in Queue : qs'[q] # None => qs[q] # None /\ qs'[q].list = qs[q].list,
           map' # None => map' = map,
           NEW a \in Actor, NEW p \in PC, Moves(a, p),
           \A r \in Request : a = <<"io", r>> =>
              \/ /\ pc[a] \in Listed /\ p \in Listed
                 /\ p = "io" => ~MustWait(qs[map].list, r)
              \/ pc[a] \in {"unref", "unref2"} /\ p \in {"unref2", "done"},
           \A r \in Request : a = <<"submit", r>> /\ p = "done" => posted[r],
           \A b \in Submitter \cup Cancel :
              before'[b] = before[b] \/ (b = a /\ pc[a] = "idle" /\ before'[b] = AlreadySubmitted)
    PROVE  ListInv'
<1> USE QueueTypes DEF ListInv
<1>1. pc'[a] = p /\ \A u \in Actor : u # a => pc'[u] = pc[u]
  BY Zenon DEF Moves
<1>2. \A r \in Request : pc'[<<"submit", r>>] = "done" => posted[r]
  BY <1>1, Actors, ZenonT(90) DEF PostedExact
<1>3. \A r \in Request : r \in AlreadySubmitted => posted[r]
  BY Zenon DEF PostedExact, AlreadySubmitted
<1>4. ASSUME NEW b \in Submitter \cup Cancel, before'[b] # before[b]
      PROVE  /\ \A w \in before'[b] : posted[w]
             /\ \A r \in Request : b = <<"submit", r>> => pc'[<<"io", r>>] \notin Listed
  <2>1. b = a /\ pc[a] = "idle" /\ before'[b] = AlreadySubmitted
    BY Zenon, <1>4
  <2>2. ASSUME NEW r \in Request, b = <<"submit", r>> PROVE pc'[<<"io", r>>] = "idle"
    BY SMTT(90), <1>1, <2>1, <2>2, Actors DEF QueueInv, Roles
  <2> QED BY Zenon, <1>3, <2>1, <2>2 DEF AlreadySubmitted, Listed
<1>5. ASSUME NEW r \in Request
      PROVE  \/ pc'[<<"io", r>>] = pc[<<"io", r>>]
             \/ /\ pc[<<"io", r>>] \in Listed /\ pc'[<<"io", r>>] \in Listed
                /\ pc'[<<"io", r>>] = "io" => ~MustWait(qs[map].list, r)
             \/ pc[<<"io", r>>] \in {"idle", "begin"} /\ pc'[<<"io", r>>] \in {"idle", "begin"}
             \/ /\ pc[<<"io", r>>] \in {"unref", "unref2", "done"}
                /\ pc'[<<"io", r>>] \in {"unref", "unref2", "done"}
  BY <1>1, Actors, Zenon
<1> QED BY Zenon, <1>2, <1>4, <1>5, ListQuiet

\* A new queue has an empty list, when no thread is at work; the rest keeps the lists.
LEMMA ListOfQueueStep ==
    ASSUME NEW a \in Actor, TypeOK, QueueInv, QueueAlive', ListInv, UNCHANGED setup, QueueStep(a)
    PROVE  ListInv'
<1> USE QueueTypes
<1>1. ASSUME NEW r \in Request, a = <<"io", r>> PROVE pc[a] \in WorkPC
  BY <1>1, Zenon DEF QueueInv, Roles
<1>2. CASE Make(a) /\ map = None
  <2>1. PICK q \in Queue : /\ qs[q] = None /\ qs' = [qs EXCEPT ![q] = [Free EXCEPT !.lock = a]]
                           /\ pc[a] = "make" /\ pc' = [pc EXCEPT ![a] = "have"] /\ map' = q
                           /\ UNCHANGED <<posted, before>>
    BY Zenon, <1>2 DEF Make, cbVars
  <2>2. /\ \A p \in Queue : qs'[p] # None => p = q
        /\ qs'[q].list = <<>>
    BY Zenon, <1>2, <2>1 DEF QueueInv, QueueAlive, Free
  <2>3. /\ \A r \in Request : pc'[<<"io", r>>] = pc[<<"io", r>>]
        /\ \A r \in Request : pc'[<<"submit", r>>] = "done" => pc[<<"submit", r>>] = "done"
        /\ \A r \in Request : pc[<<"io", r>>] \notin Listed
    BY <1>1, <1>2, <2>1, Actors, Zenon DEF QueueInv, InUse, Working, Listed, WorkPC
  <2>4. ListExact'
    BY SMTT(90), <2>2, <2>3 DEF ListExact
  <2>5. PostedExact'
    BY Zenon, <2>1, <2>3 DEF PostedExact, ListInv
  <2>6. InOrder'
    BY SMTT(90), <2>2 DEF InOrder
  <2>7. MayOperate'
    BY Zenon, <2>3 DEF MayOperate, Listed
  <2> QED BY Zenon, <2>4, <2>5, <2>6, <2>7 DEF ListInv
<1>3. CASE ~(Make(a) /\ map = None)
  <2>1. UNCHANGED <<posted, before>>
    BY Zenon DEF QueueStep, Find, Make, LockQueue, UnrefMap, UnrefQueue, cbVars
  <2>2. PICK p \in PC :
            /\ pc' = [pc EXCEPT ![a] = p]
            /\ \/ pc[a] \in {"get", "make", "lockq"} /\ (a \in Submitter => p # "done")
               \/ pc[a] = "unref" /\ p = "unref2"
               \/ pc[a] = "unref2" /\ p = IF a \in Submitter THEN "failed" ELSE "done"
    BY SMTT(90), <1>3, Actors
    DEF PC, QueueStep, Find, Make, LockQueue, UnrefMap, UnrefQueue, Goto, Submitter, Cancel
  <2>3. map' # None => map' = map
    BY Zenon, <1>3 DEF QueueStep, Find, Make, LockQueue, UnrefMap, UnrefQueue
  <2>4. \A q \in Queue : qs'[q] # None => qs[q] # None /\ qs'[q].list = qs[q].list
    <3>1. CASE qs' = qs
      BY Zenon, <3>1
    <3>2. CASE \E l : qp[a] \in Queue /\ qs[qp[a]] # None /\ qs' = [qs EXCEPT ![qp[a]].lock = l]
      BY SMTT(90), <3>2
    <3>3. CASE \E n : qp[a] \in Queue /\ qs[qp[a]] # None /\ qs' = [qs EXCEPT ![qp[a]].ref = n]
      BY SMTT(90), <3>3
    <3>4. CASE qs' = [qs EXCEPT ![qp[a]] = None]
      BY Zenon, <3>4
    <3>5. pc[a] \in {"lockq", "unref2"} => qp[a] \in Queue /\ qs[qp[a]] # None
      BY Zenon DEF QueueInv, InUse, QueueAlive, Working
    <3> QED
      BY <1>3, <3>1, <3>2, <3>3, <3>4, <3>5, Zenon
      DEF QueueStep, Find, Make, LockQueue, UnrefMap, UnrefQueue, Goto, LockBy
  <2>5. \A r \in Request : a = <<"io", r>> =>
          pc[a] \in {"unref", "unref2"} /\ p \in {"unref2", "done"}
    BY ZenonT(90), <1>1, <2>2, Actors DEF WorkPC
  <2>6. \A r \in Request : a = <<"submit", r>> => p # "done"
    BY Zenon, <2>2, Actors
  <2>7. \A b \in Submitter \cup Cancel : before'[b] = before[b]
    BY Zenon, <2>1
  <2>8. Moves(a, p) /\ UNCHANGED posted
    BY Zenon, <2>1, <2>2 DEF Moves
  <2> QED BY SMTT(90), <2>3, <2>4, <2>5, <2>6, <2>7, <2>8, ListMove
<1> QED BY Zenon, <1>2, <1>3

\* submit changes no list; it returns when the thread is in it.
LEMMA ListOfSubmit ==
    ASSUME NEW r \in Request, TypeOK, QueueInv, QueueAlive', ListInv, UNCHANGED setup,
           CallSubmit(r) \/ NoQueue(r) \/ Start(r) \/ StartFailed(r) \/ Submitted(r)
    PROVE  ListInv'
<1> USE QueueTypes
<1> DEFINE a == <<"submit", r>>
<1>1. a \in Actor /\ a \in Submitter \cup Cancel /\ \A p \in Request : a # <<"io", p>>
  BY Actors, Zenon
<1>2. map' = map /\ posted' = posted
  BY Zenon DEF CallSubmit, NoQueue, Start, StartFailed, Submitted, mapVars, cbVars
<1>3. CASE CallSubmit(r)
  <2>1. Moves(a, "get") /\ pc[a] = "idle" /\ qs' = qs /\ "get" \in PC
    BY Zenon, <1>3 DEF CallSubmit, Goto, Moves, PC
  <2>2. \A b \in Submitter \cup Cancel : before'[b] = before[b] \/
          (b = a /\ pc[a] = "idle" /\ before'[b] = AlreadySubmitted)
    BY Zenon, <1>1, <1>3, <2>1 DEF CallSubmit, TypeOK
  <2> HIDE DEF a
  <2> QED BY SMTT(90), <1>1, <1>2, <2>1, <2>2, ListMove
<1>4. CASE Submitted(r)
  <2>1. Moves(a, "done") /\ posted[r] /\ qs' = qs /\ before' = before /\ "done" \in PC
    BY Zenon, <1>4 DEF Submitted, Goto, Moves, PC
  <2>2. \A p \in Request : a = <<"submit", p>> => posted[p]
    BY Zenon, <2>1
  <2> HIDE DEF a
  <2> QED BY ZenonT(90), <1>1, <1>2, <2>1, <2>2, ListMove
<1>7. CASE NoQueue(r)
  <2>1. Moves(a, "failed") /\ qs' = qs /\ before' = before /\ "failed" \in PC
    BY Zenon, <1>7 DEF NoQueue, Goto, Moves, PC
  <2> HIDE DEF a
  <2>2. ASSUME NEW p \in {"failed"}
        PROVE  ListInv'
    <3>1. p \in PC /\ p # "done" /\ Moves(a, p)
      BY Zenon, <2>1
    <3>2. \A b \in Submitter \cup Cancel : before'[b] = before[b]
      BY Zenon, <2>1
    <3>3. \A q \in Queue : qs'[q] # None => qs[q] # None /\ qs'[q].list = qs[q].list
      BY Zenon, <2>1
    <3> QED BY ZenonT(90), <1>1, <1>2, <3>1, <3>2, <3>3, ListMove
  <2> QED BY Zenon, <2>2
<1>5. CASE StartFailed(r)
  <2>1. /\ pc[a] = "relock" /\ qs' = Unref(qp[a], qs[qp[a]].list) /\ before' = before
        /\ \/ Moves(a, "unref")
           \/ Moves(a, "failed")
    BY <1>5, Zenon DEF StartFailed, Moves
  <2>2. qp[a] \in Queue /\ qs[qp[a]] # None
    BY Zenon, <1>1, <2>1 DEF QueueInv, InUse, QueueAlive, Working
  <2>3. \A q \in Queue : qs'[q] # None => qs[q] # None /\ qs'[q].list = qs[q].list
    BY Zenon, <2>1, <2>2 DEF Unref
  <2>4. "unref" \in PC /\ "failed" \in PC
    BY Zenon DEF PC
  <2> HIDE DEF a
  <2>5. ASSUME NEW p \in {"unref", "failed"}, Moves(a, p)
        PROVE  ListInv'
    <3>1. p \in PC /\ p # "done"
      BY Zenon, <2>4
    <3>2. \A b \in Submitter \cup Cancel : before'[b] = before[b]
      BY Zenon, <2>1
    <3> QED BY ZenonT(90), <1>1, <1>2, <2>3, <2>5, <3>1, <3>2, ListMove
  <2> QED BY Zenon, <2>1, <2>5
<1>6. CASE Start(r)
  <2> DEFINE i == <<"io", r>>
  <2>1. /\ pc[a] = "have" /\ before' = before
        /\ qs' = [qs EXCEPT ![qp[a]] = [lock |-> Nobody, ref |-> @.ref + 1, list |-> @.list]]
        /\ pc' = [pc EXCEPT ![a] = "wait", ![i] = "begin"] \/ pc' = [pc EXCEPT ![a] = "relock"]
    BY Zenon, <1>6 DEF Start
  <2>2. qp[a] \in Queue /\ qs[qp[a]] # None
    BY <1>1, <2>1, Zenon DEF QueueInv, InUse, QueueAlive, Working
  <2>3. \A q \in Queue : qs'[q] # None => qs[q] # None /\ qs'[q].list = qs[q].list
    BY Zenon, <2>1, <2>2
  <2>4. pc[i] = "idle" /\ i \in Actor /\ i # a
    BY Zenon, <2>1, Actors DEF QueueInv, Roles
  <2>5. /\ pc'[a] # "done" /\ pc'[i] \in {"idle", "begin"}
        /\ \A u \in Actor : u # a /\ u # i => pc'[u] = pc[u]
    BY ZenonT(90), <1>1, <2>1, <2>4
  <2>6. /\ \A p \in Request : p # r => pc'[<<"io", p>>] = pc[<<"io", p>>]
        /\ \A p \in Request : p # r => pc'[<<"submit", p>>] = pc[<<"submit", p>>]
    BY <2>5, Actors, Zenon
  <2>7. \A p \in Request : pc'[<<"submit", p>>] = "done" => posted[p]
    BY ZenonT(90), <2>5, <2>6 DEF ListInv, PostedExact
  <2>8. ASSUME NEW p \in Request
        PROVE  \/ pc'[<<"io", p>>] = pc[<<"io", p>>]
               \/ pc[<<"io", p>>] \in {"idle", "begin"} /\ pc'[<<"io", p>>] \in {"idle", "begin"}
    BY Zenon, <2>4, <2>5, <2>6
  <2> HIDE DEF a, i
  <2> QED BY Zenon, <1>2, <2>1, <2>3, <2>7, <2>8, ListQuiet
<1> QED BY Zenon, <1>3, <1>4, <1>5, <1>6, <1>7

\* A thread that waits goes on only when no write is older.
LEMMA ListOfWorker ==
    ASSUME NEW r \in Request, TypeOK, QueueInv, QueueAlive', ListInv, UNCHANGED setup,
           \/ Recheck(r) \/ CancelWait(r) \/ Operate(r) \/ StopRunning(r) \/ Publish(r)
           \/ WakeLists(r)
    PROVE  ListInv'
<1> USE QueueTypes
<1> DEFINE i == <<"io", r>>
<1>1. i \in Actor /\ \A p \in Request : i # <<"submit", p>>
  BY Actors, Zenon
<1>2. UNCHANGED <<map, qs, posted, before>>
  BY Zenon DEF Recheck, CancelWait, Operate, StopRunning, Publish, WakeLists, mapVars, cbVars
<1>3. PICK p \in PC : /\ Moves(i, p) /\ pc[i] \in Listed /\ p \in Listed
                      /\ p = "io" => ~MustWait(qs[map].list, r)
  <2>1. CASE Recheck(r)
    <3>1. pc[i] = "relock" /\ qp[i] = map
      BY Zenon, <1>1, <2>1 DEF Recheck, QueueInv, InUse, Working
    <3>2. Moves(i, "cwait") \/ (Moves(i, "io") /\ ~MustWait(qs[map].list, r))
      BY <2>1, <3>1, Zenon DEF Recheck, Moves
    <3> QED BY Zenon, <3>1, <3>2 DEF PC, Listed
  <2>2. CASE ~Recheck(r)
    BY ZenonT(90), <2>2
    DEF CancelWait, Operate, StopRunning, Publish, WakeLists, Goto, Moves, PC, Listed
  <2> QED BY Zenon, <2>1, <2>2
<1>4. \A p1 \in Request : i = <<"io", p1>> => p1 = r
  BY Zenon
<1> HIDE DEF i
<1> QED BY SMTT(90), <1>1, <1>2, <1>3, <1>4, ListMove

\* aio_cancel changes no list.
LEMMA ListOfCancel ==
    ASSUME NEW c \in Canceller, TypeOK, QueueInv, QueueAlive', ListInv, UNCHANGED setup,
           \/ \E r \in Request \cup {None} : CallCancel(c, r)
           \/ ScanFrom(c) \/ Scan(c) \/ Await(c) \/ ScanEnd(c)
    PROVE  ListInv'
<1> USE QueueTypes
<1> DEFINE a == <<"cancel", c>>
<1>1. /\ a \in Actor /\ a \in Submitter \cup Cancel
      /\ \A p \in Request : a # <<"io", p>> /\ a # <<"submit", p>>
  BY Zenon, Actors
<1>2. map' = map /\ posted' = posted
  BY Zenon DEF CallCancel, ScanFrom, Scan, Await, ScanEnd, mapVars, cbVars
<1>3. PICK p \in PC : Moves(a, p)
  <2>1. CASE Scan(c)
    <3>1. Moves(a, "await") \/ Moves(a, "scan")
      BY Zenon, <1>1, <2>1 DEF Scan, Moves
    <3> QED BY Zenon, <3>1 DEF PC
  <2>2. CASE ~Scan(c)
    BY Zenon, <2>2 DEF CallCancel, ScanFrom, Await, ScanEnd, Goto, PC, Moves
  <2> QED BY Zenon, <2>1, <2>2
<1>4. \A b \in Submitter \cup Cancel : before'[b] = before[b] \/
        (b = a /\ pc[a] = "idle" /\ before'[b] = AlreadySubmitted)
  BY <1>1, Zenon DEF CallCancel, ScanFrom, Scan, Await, ScanEnd, TypeOK, Goto
<1>5. \A q \in Queue : qs'[q] # None => qs[q] # None /\ qs'[q].list = qs[q].list
  <2>1. CASE ScanEnd(c)
    <3>1. pc[a] = "scan" /\ qs' = [qs EXCEPT ![qp[a]].lock = Nobody]
      BY Zenon, <2>1 DEF ScanEnd, Goto, LockBy
    <3>2. qp[a] \in Queue /\ qs[qp[a]] # None
      BY <1>1, <3>1, Zenon DEF QueueInv, InUse, QueueAlive, Working
    <3> QED BY <3>1, <3>2, Zenon
  <2>2. CASE ~ScanEnd(c)
    BY Zenon, <2>2 DEF CallCancel, ScanFrom, Scan, Await
  <2> QED BY Zenon, <2>1, <2>2
<1> HIDE DEF a
<1> QED BY SMTT(90), <1>1, <1>2, <1>3, <1>4, <1>5, ListMove

\* Every step keeps the type of the queues.
LEMMA TypeOfQueues ==
    ASSUME TypeOK, QueueInv, ListInv, UNCHANGED setup, Next
    PROVE  QueuesType'
<1> DEFINE Lock == Actor \cup {Nobody}
           Record == [lock : Lock, ref : Int, list : Seq(Request)]
<1>1. ASSUME NEW q \in Queue, NEW new \in Record, qs' = [qs EXCEPT ![q] = new]
      PROVE  QueuesType'
  BY Zenon, <1>1, TypesApart DEF QueuesType
<1>2. ASSUME NEW a \in Actor, Working(a) PROVE qp[a] \in Queue /\ qs[qp[a]] \in Record
  <2>1. qp[a] \in Queue /\ qs[qp[a]] # None
    BY Zenon, <1>2, QueueTypes DEF QueueInv, InUse, QueueAlive
  <2> QED BY Zenon, <2>1, TypesApart DEF QueuesType
<1>3. CASE qs' = qs
  BY Zenon, <1>3, TypesApart DEF QueuesType
<1>4. ASSUME NEW rec \in Record
      PROVE  /\ rec.ref \in Int /\ rec.list \in Seq(Request)
             /\ \A l \in Lock : [rec EXCEPT !.lock = l] \in Record
             /\ \A n \in Int : [rec EXCEPT !.ref = n] \in Record
             /\ \A list \in Seq(Request) : [rec EXCEPT !.list = list] \in Record
  BY Zenon
<1>5. ASSUME NEW l \in Lock, NEW n \in Int, NEW list \in Seq(Request)
      PROVE  [lock |-> l, ref |-> n, list |-> list] \in Record
  BY Zenon
<1>6. Nobody \in Lock /\ \A a \in Actor : a \in Lock
  BY Zenon
<1> HIDE DEF Record, Lock
<1>7. ASSUME NEW a \in Actor, QueueStep(a) PROVE QueuesType'
  <2>1. CASE Find(a) \/ UnrefMap(a)
    BY Zenon, <1>3, <2>1 DEF Find, UnrefMap
  <2>2. CASE Make(a)
    <3>1. CASE map # None
      BY Zenon, <1>3, <2>2, <3>1 DEF Make
    <3>2. CASE map = None
      <4> DEFINE new == [lock |-> a, ref |-> 0, list |-> <<>>]
      <4>1. PICK q \in Queue : qs' = [qs EXCEPT ![q] = new]
        BY SMTT(90), <2>2, <3>2 DEF Make, Free
      <4>2. <<>> \in Seq(Request) /\ 0 \in Int
        BY SMTT(90)
      <4>3. new \in Record
        BY <1>5, <1>6, <4>2, Zenon
      <4> HIDE DEF new
      <4> QED BY <1>1, <4>1, <4>3, Zenon
    <3> QED BY Zenon, <3>1, <3>2
  <2>3. CASE LockQueue(a)
    <3>1. Working(a) /\ qs' = [qs EXCEPT ![qp[a]] = [qs[qp[a]] EXCEPT !.lock = a]]
      BY Zenon, <2>3 DEF LockQueue, Goto, LockBy, Working
    <3> QED BY <1>1, <1>2, <1>4, <1>6, <3>1, Zenon
  <2>4. CASE UnrefQueue(a)
    <3>1. Working(a)
      BY Zenon, <2>4 DEF UnrefQueue, Working
    <3>2. CASE qs' = [qs EXCEPT ![qp[a]] = None]
      BY <3>2, TypesApart, Zenon DEF QueuesType
    <3>3. CASE qs' = [qs EXCEPT ![qp[a]] = [qs[qp[a]] EXCEPT !.ref = qs[qp[a]].ref - 1]]
      <4>1. qs[qp[a]].ref \in Int
        BY <1>2, <1>4, <3>1, Zenon
      <4>2. qs[qp[a]].ref - 1 \in Int
        BY SMTT(90), <4>1
      <4> QED BY <1>1, <1>2, <1>4, <3>1, <3>3, <4>2, Zenon
    <3> QED BY Zenon, <2>4, <3>2, <3>3 DEF UnrefQueue
  <2> QED BY Zenon, <1>7, <2>1, <2>2, <2>3, <2>4 DEF QueueStep
<1>8. ASSUME NEW a \in Actor, Working(a), NEW list \in Seq(Request), qs' = Unref(qp[a], list)
      PROVE  QueuesType'
  <2>1. qp[a] \in Queue /\ qs[qp[a]].ref \in Int
    BY <1>2, <1>4, <1>8, Zenon
  <2> DEFINE n == IF Last(qp[a]) THEN qs[qp[a]].ref ELSE qs[qp[a]].ref - 1
  <2>2. n \in Int
    BY SMTT(90), <2>1
  <2>3. qs' = [qs EXCEPT ![qp[a]] = [lock |-> Nobody, ref |-> n, list |-> list]]
    BY Zenon, <1>8 DEF Unref
  <2> HIDE DEF n
  <2> QED BY <1>1, <1>5, <1>6, <2>1, <2>2, <2>3, Zenon
<1>9. ASSUME NEW r \in Request, CallSubmit(r) \/ SubmitStep(r) PROVE QueuesType'
  <2> DEFINE a == <<"submit", r>>
  <2>1. a \in Actor
    BY Actors, Zenon
  <2>2. CASE CallSubmit(r) \/ NoQueue(r) \/ Submitted(r)
    BY Zenon, <1>3, <2>2 DEF CallSubmit, NoQueue, Submitted
  <2>3. CASE Start(r)
    <3>1. /\ Working(a)
          /\ qs' = [qs EXCEPT ![qp[a]] = [lock |-> Nobody, ref |-> qs[qp[a]].ref + 1,
                                          list |-> qs[qp[a]].list]]
      BY Zenon, <2>3 DEF Start, Working
    <3> HIDE DEF a
    <3>2. qp[a] \in Queue /\ qs[qp[a]].ref \in Int /\ qs[qp[a]].list \in Seq(Request)
      BY <1>2, <1>4, <2>1, <3>1, Zenon
    <3>3. qs[qp[a]].ref + 1 \in Int
      BY SMTT(90), <3>2
    <3> QED BY <1>1, <1>5, <1>6, <3>1, <3>2, <3>3, Zenon
  <2>4. CASE StartFailed(r)
    <3>1. Working(a) /\ qs' = Unref(qp[a], qs[qp[a]].list)
      BY Zenon, <2>4 DEF StartFailed, Working
    <3> HIDE DEF a
    <3> QED BY <1>2, <1>4, <1>8, <2>1, <3>1, Zenon
  <2> QED BY <1>7, <1>9, <2>1, <2>2, <2>3, <2>4, Zenon DEF SubmitStep
<1>10. ASSUME NEW r \in Request, WorkerStep(r) PROVE QueuesType'
  <2> DEFINE a == <<"io", r>>
  <2>1. a \in Actor
    BY Actors, Zenon
  <2>2. CASE Begin(r)
    <3>1. /\ Working(a)
          /\ qs' = [qs EXCEPT ![qp[a]] = [qs[qp[a]] EXCEPT !.list = <<r>> \o qs[qp[a]].list]]
      BY Zenon, <2>2 DEF Begin, Working
    <3> HIDE DEF a
    <3>2. qs[qp[a]].list \in Seq(Request)
      BY <1>2, <1>4, <2>1, <3>1, Zenon
    <3>3. <<r>> \o qs[qp[a]].list \in Seq(Request)
      BY SMTT(90), <3>2
    <3> QED BY <1>1, <1>2, <1>4, <2>1, <3>1, <3>3, Zenon
  <2>3. CASE Unlink(r)
    <3>1. Working(a) /\ qs' = Unref(qp[a], Without(qs[qp[a]].list, r))
      BY Zenon, <2>3 DEF Unlink, Working
    <3>2. Without(qs[qp[a]].list, r) \in Seq(Request)
      BY Zenon, <2>3, UnlinkList
    <3> HIDE DEF a
    <3> QED BY <1>8, <2>1, <3>1, <3>2, Zenon
  <2>4. CASE \/ Recheck(r) \/ CancelWait(r) \/ Operate(r) \/ StopRunning(r) \/ Publish(r)
             \/ WakeLists(r)
    BY Zenon, <1>3, <2>4 DEF Recheck, CancelWait, Operate, StopRunning, Publish, WakeLists
  <2> QED BY <1>7, <1>10, <2>1, <2>2, <2>3, <2>4, Zenon DEF WorkerStep
<1>11. ASSUME NEW c \in Canceller,
              (\E r \in Request \cup {None} : CallCancel(c, r)) \/ CancelStep(c)
       PROVE  QueuesType'
  <2> DEFINE a == <<"cancel", c>>
  <2>1. a \in Actor
    BY Zenon, Actors
  <2>2. CASE ScanEnd(c)
    <3>1. Working(a) /\ qs' = [qs EXCEPT ![qp[a]] = [qs[qp[a]] EXCEPT !.lock = Nobody]]
      BY Zenon, <2>2 DEF ScanEnd, Goto, LockBy, Working
    <3> HIDE DEF a
    <3> QED BY <1>1, <1>2, <1>4, <1>6, <2>1, <3>1, Zenon
  <2>3. CASE \/ \E r \in Request \cup {None} : CallCancel(c, r)
             \/ ScanFrom(c) \/ Scan(c) \/ Await(c)
    BY Zenon, <1>3, <2>3 DEF CallCancel, ScanFrom, Scan, Await
  <2> QED BY <1>7, <1>11, <2>1, <2>2, <2>3, Zenon DEF CancelStep
<1>12. ASSUME NEW s \in Waiter, WaitStep(s) \/ \E R \in SUBSET Request : CallSuspend(s, R)
       PROVE  QueuesType'
  BY Zenon, <1>3, <1>12, WaitersApart
<1> QED BY <1>9, <1>10, <1>11, <1>12, Zenon DEF Next, Calls

\* A request further down the list is older, and one that is not in the list has ended.
LEMMA EarlierWritesEnded ==
    ASSUME IInv
    PROVE  WritesInOrder
<1> SUFFICES ASSUME NEW r \in Request, Ordered(r), pc[<<"io", r>>] = "io",
                    NEW w \in before[<<"submit", r>>], Op[w] = "write"
             PROVE  pc[<<"io", w>>] \in {"unref", "unref2", "done"}
  BY Zenon DEF WritesInOrder
<1> USE DEF IInv
<1>1. w \in Request /\ posted[w] /\ pc[<<"io", w>>] \in WorkPC
  BY Actors, Zenon DEF TypeOK, ListInv, PostedExact, QueueInv, Roles
<1>2. /\ map \in Queue /\ qs[map] # None /\ map # None
      /\ qs[map].list \in Seq(Request)
  BY Zenon, Actors, QueueTypes DEF QueueInv, InUse, QueueAlive, Working
<1>3. pc[<<"io", w>>] \notin Listed
  <2> SUFFICES ASSUME pc[<<"io", w>>] \in Listed PROVE FALSE
    BY Zenon
  <2>1. PICK j \in DOMAIN qs[map].list : qs[map].list[j] = r
    BY ZenonT(90), <1>2 DEF ListInv, ListExact, Listed
  <2>2. PICK k \in DOMAIN qs[map].list : qs[map].list[k] = w
    BY Zenon, <1>1, <1>2 DEF ListInv, ListExact
  <2>3. j < k
    BY <1>2, <2>1, <2>2, Zenon DEF ListInv, InOrder
  <2>4. MustWait(qs[map].list, r)
    BY ZenonT(90), <1>2, <2>1, <2>2, <2>3, MustWaitMeans
  <2> QED BY Zenon, <1>2, <2>4 DEF ListInv, MayOperate
<1>4. pc[<<"io", w>>] \notin {"idle", "begin"}
  BY Zenon, <1>1 DEF ListInv, PostedExact
<1> QED BY Zenon, <1>1, <1>3, <1>4 DEF Listed, WorkPC

-----------------------------------------------------------------------------
(***************************************************************************)
(* The states of a request, and aio_cancel.                                *)
(***************************************************************************)

\* The types of what a request holds.
LEMMA RequestTypes ==
    ASSUME TypeOK
    PROVE  /\ pc \in [Actor -> PC] /\ DOMAIN err = Request
           /\ running \in [Request -> {0, 1, -1}]
           /\ result \in [Request -> {"none", "ok", "canceled"}]
           /\ posted \in [Request -> BOOLEAN]
BY Zenon DEF TypeOK

\* The types of what the callers of aio_cancel hold.
LEMMA CancelTypes ==
    ASSUME TypeOK
    PROVE  /\ pc \in [Actor -> PC] /\ todo \in [Canceller -> Seq(Request)]
           /\ target \in [Canceller -> Request \cup {None}]
           /\ answer \in [Canceller -> {"none", "alldone", "canceled"}]
           /\ before \in [Submitter \cup Cancel -> SUBSET Request]
           /\ running \in [Request -> {0, 1, -1}]
BY Zenon DEF TypeOK

\* A request that a step does not touch, or whose thread goes to a place like the one where
\* it was.
Untouched(r) ==
    /\ running'[r] = running[r] /\ posted'[r] = posted[r] /\ result'[r] = result[r]
    /\ err'[r] = err[r]
    /\ \/ pc'[<<"io", r>>] = pc[<<"io", r>>]
       \/ \E S \in {{"cwait", "relock", "io", "running", "stuck"}, {"unlink", "fut"},
                    {"unlink", "unref", "unref2", "done"}} :
             pc[<<"io", r>>] \in S /\ pc'[<<"io", r>>] \in S

\* The state of such a request still follows its thread.
LEMMA UntouchedFollows ==
    ASSUME NEW r \in Request, Follows(r), Untouched(r)
    PROVE  Follows(r)'
<1>1. CASE pc'[<<"io", r>>] = pc[<<"io", r>>]
  BY Zenon, <1>1 DEF Follows, Untouched, Busy
<1>2. CASE \E S \in {{"cwait", "relock", "io", "running", "stuck"}, {"unlink", "fut"},
                     {"unlink", "unref", "unref2", "done"}} :
             pc[<<"io", r>>] \in S /\ pc'[<<"io", r>>] \in S
  BY Zenon, <1>2 DEF Follows, Untouched, Busy
<1> QED BY Zenon, <1>1, <1>2 DEF Untouched

\* A thread changes the state of its own request as it goes on.
LEMMA FollowsOfWorker ==
    ASSUME NEW r \in Request, TypeOK, QueueInv, ListInv, StateFollows, WorkerStep(r)
    PROVE  StateFollows'
<1> USE RequestTypes, Actors
<1> DEFINE i == <<"io", r>>
<1>1. i \in Actor /\ Follows(r) /\ ~(pc[i] \in {"get", "make", "lockq"})
  BY Zenon DEF StateFollows, QueueInv, Roles, WorkPC
<1>2. SUFFICES /\ Follows(r)' \/ Untouched(r)
               /\ \A p \in Request : p # r => Untouched(p)
  BY Zenon, UntouchedFollows DEF StateFollows
<1>3. CASE Begin(r)
  <2>1. /\ pc[i] = "begin" /\ pc'[i] \in {"cwait", "io"} /\ running'[r] = 1
        /\ result'[r] = "canceled" /\ err' = err
    BY Zenon, <1>1, <1>3 DEF Begin
  <2>2. Follows(r)'
    BY SMTT(90), <1>1, <2>1 DEF Follows, Busy
  <2>3. \A p \in Request : p # r => Untouched(p)
    BY Zenon, <1>1, <1>3 DEF Begin, Untouched
  <2> QED BY Zenon, <2>2, <2>3
<1>4. CASE Recheck(r) \/ CancelWait(r)
  BY <1>1, <1>4, ZenonT(90) DEF Recheck, CancelWait, Goto, Untouched, cbVars
<1>5. CASE Operate(r)
  <2>1. /\ pc[i] = "io" /\ pc'[i] = "running" /\ UNCHANGED <<running, err, posted>>
        /\ result'[r] \in {"ok", result[r]}
    BY Zenon, <1>1, <1>5 DEF Operate, Goto
  <2>2. Follows(r)'
    BY Zenon, <1>1, <2>1 DEF Follows, Busy
  <2>3. \A p \in Request : p # r => Untouched(p)
    BY Zenon, <1>1, <1>5 DEF Operate, Goto, Untouched
  <2> QED BY Zenon, <2>2, <2>3
<1>6. CASE StopRunning(r)
  <2>1. /\ pc[i] = "running" /\ pc'[i] = "err" /\ UNCHANGED <<result, err, posted>>
        /\ running'[r] = 0
    BY Zenon, <1>1, <1>6 DEF StopRunning, Goto
  <2>2. Follows(r)'
    BY Zenon, <1>1, <2>1 DEF Follows, Busy
  <2>3. \A p \in Request : p # r => Untouched(p)
    BY Zenon, <1>1, <1>6 DEF StopRunning, Goto, Untouched
  <2> QED BY Zenon, <2>2, <2>3
<1>7. CASE Publish(r)
  <2>1. /\ pc[i] = "err" /\ pc'[i] = "fut" /\ UNCHANGED <<result, running, posted>>
        /\ err'[r] = result[r]
    BY Zenon, <1>1, <1>7 DEF Publish, Goto
  <2>2. Follows(r)'
    BY Zenon, <1>1, <2>1 DEF Follows, Busy
  <2>3. \A p \in Request : p # r => Untouched(p)
    BY Zenon, <1>1, <1>7 DEF Publish, Goto, Untouched
  <2> QED BY Zenon, <2>2, <2>3
<1>8. CASE WakeLists(r)
  BY Zenon, <1>1, <1>8 DEF WakeLists, Goto, Untouched, cbVars
<1>9. CASE Unlink(r)
  <2>1. /\ UNCHANGED cbVars /\ pc[i] = "unlink" /\ pc'[i] \in {"unref", "done"}
        /\ \A p \in Request : p # r =>
              \/ pc'[<<"io", p>>] = pc[<<"io", p>>]
              \/ pc[<<"io", p>>] = "cwait" /\ pc'[<<"io", p>>] = "relock"
    BY <1>1, <1>9, Zenon DEF Unlink
  <2> QED BY Zenon, <2>1 DEF Untouched, cbVars
<1>10. CASE QueueStep(i)
  <2>1. UnrefMap(i) \/ UnrefQueue(i)
    BY Zenon, <1>1, <1>10 DEF QueueStep, Find, Make, LockQueue, Goto
  <2> QED BY <1>1, <2>1, ZenonT(90) DEF UnrefMap, UnrefQueue, Goto, Untouched, cbVars
<1> QED BY Zenon, <1>3, <1>4, <1>5, <1>6, <1>7, <1>8, <1>9, <1>10 DEF WorkerStep

\* Others change the state of a request before it has a thread, or mark it.
LEMMA FollowsOfOthers ==
    ASSUME TypeOK, QueueInv, ListInv, StateFollows, Next, \A r \in Request : ~WorkerStep(r)
    PROVE  StateFollows'
<1> USE RequestTypes, Actors
<1>1. ASSUME NEW a \in Actor, QueueStep(a), \A r \in Request : a # <<"io", r>>
      PROVE  StateFollows'
  <2>1. \A r \in Request : Untouched(r)
    BY Zenon, <1>1, QueueStepMoves DEF Untouched, cbVars
  <2> QED BY Zenon, <2>1, UntouchedFollows DEF StateFollows
<1>2. ASSUME NEW r \in Request, CallSubmit(r) \/ SubmitStep(r) PROVE StateFollows'
  <2>1. CASE CallSubmit(r) \/ Submitted(r)
    <3>1. \A p \in Request : Untouched(p)
      BY ZenonT(90), <2>1 DEF CallSubmit, Submitted, Goto, Untouched, cbVars
    <3> QED BY Zenon, <3>1, UntouchedFollows DEF StateFollows
  <2>2. CASE Start(r)
    <3>1. pc[<<"io", r>>] = "idle"
      BY Zenon, <2>2 DEF Start, QueueInv, Roles
    <3>2. /\ pc'[<<"io", r>>] \in {"idle", "begin"} /\ err'[r] = "busy"
          /\ UNCHANGED <<running, result, posted>>
      <4>1. \/ pc' = [pc EXCEPT ![<<"submit", r>>] = "wait", ![<<"io", r>>] = "begin"]
            \/ pc' = [pc EXCEPT ![<<"submit", r>>] = "relock"]
        BY Zenon, <2>2 DEF Start
      <4> QED BY Zenon, <2>2, <3>1, <4>1 DEF Start
    <3>3. Follows(r)'
      BY Zenon, <3>1, <3>2 DEF Follows, StateFollows, Busy
    <3>4. \A p \in Request : p # r => Untouched(p)
      <4>1. \A p \in Request : p # r => pc'[<<"io", p>>] = pc[<<"io", p>>] /\ err'[p] = err[p]
        BY <2>2, ZenonT(90) DEF Start
      <4> QED BY Zenon, <3>2, <4>1 DEF Untouched
    <3> QED BY Zenon, <3>3, <3>4, UntouchedFollows DEF StateFollows
  <2>3. CASE StartFailed(r)
    <3>1. /\ pc[<<"io", r>>] = "idle" /\ pc'[<<"io", r>>] = "idle"
          /\ UNCHANGED <<running, result, posted>>
      BY Zenon, <2>3 DEF StartFailed, QueueInv, Roles
    <3>2. Follows(r)'
      BY Zenon, <3>1 DEF Follows, StateFollows
    <3>3. \A p \in Request : p # r => Untouched(p)
      BY Zenon, <2>3 DEF StartFailed, Untouched
    <3> QED BY Zenon, <3>2, <3>3, UntouchedFollows DEF StateFollows
  <2>4. CASE NoQueue(r)
    <3>1. /\ pc[<<"io", r>>] = "idle" /\ pc'[<<"io", r>>] = "idle"
          /\ UNCHANGED <<running, result, posted>>
      BY Zenon, <2>4 DEF NoQueue, Goto, QueueInv, Roles
    <3>2. Follows(r)'
      BY Zenon, <3>1 DEF Follows, StateFollows
    <3>3. \A p \in Request : p # r => Untouched(p)
      BY Zenon, <2>4 DEF NoQueue, Goto, Untouched
    <3> QED BY Zenon, <3>2, <3>3, UntouchedFollows DEF StateFollows
  <2> QED BY <1>1, <1>2, <2>1, <2>2, <2>3, <2>4, Zenon DEF SubmitStep
<1>3. ASSUME NEW c \in Canceller,
             (\E r \in Request \cup {None} : CallCancel(c, r)) \/ CancelStep(c)
      PROVE  StateFollows'
  <2>1. CASE Scan(c)
    <3>1. \/ running' = running
          \/ /\ running[Head(todo[c])] # 0
             /\ running' = [running EXCEPT ![Head(todo[c])] = -1]
      BY Zenon, <2>1 DEF Scan
    <3>2. \A r \in Request : running'[r] # 0 <=> running[r] # 0
      BY SMTT(90), <3>1
    <3>3. /\ \A r \in Request : pc'[<<"io", r>>] = pc[<<"io", r>>]
          /\ UNCHANGED <<result, err, posted>>
      BY <2>1, Zenon DEF Scan
    <3> QED BY Zenon, <3>2, <3>3 DEF StateFollows, Follows, Busy
  <2>2. CASE \/ \E r \in Request \cup {None} : CallCancel(c, r)
             \/ ScanFrom(c) \/ Await(c) \/ ScanEnd(c)
    <3>1. \A r \in Request : Untouched(r)
      BY ZenonT(90), <2>2 DEF CallCancel, ScanFrom, Await, ScanEnd, Goto, Untouched, cbVars
    <3> QED BY Zenon, <3>1, UntouchedFollows DEF StateFollows
  <2> QED BY Zenon, <1>1, <1>3, <2>1, <2>2 DEF CancelStep
<1>4. ASSUME NEW s \in Waiter, WaitStep(s) \/ \E R \in SUBSET Request : CallSuspend(s, R)
      PROVE  StateFollows'
  <2>1. UNCHANGED <<pc, running, result, posted>>
    BY Zenon, <1>4, WaitersApart
  <2>2. \A r \in Request : err'[r] = err[r] \/ (Busy(r) /\ err'[r] = "watched")
    BY SMTT(90), <1>4 DEF WaitStep, CallSuspend, Check, Arm, CheckAgain, Sleep, cbVars
  <2>3. \A r \in Request : result[r] \in {"none", "ok", "canceled"}
    BY Zenon
  <2> QED BY ZenonT(90), <2>1, <2>2, <2>3 DEF StateFollows, Follows, Busy
<1> QED BY Zenon, <1>2, <1>3, <1>4 DEF Next, Calls

\* What a step may do to a request.
Onward(r) ==
    /\ posted[r] => posted'[r]
    /\ posted[r] /\ running'[r] = 1 => running[r] = 1
    /\ posted[r] /\ pc'[<<"io", r>>] \in {"begin", "cwait", "relock", "io"} =>
          pc[<<"io", r>>] \in {"cwait", "relock", "io"}
    /\ posted[r] /\ running[r] = 0 => running'[r] = 0 /\ result'[r] = result[r]

\* Every step is of this kind: in particular, a request that has ended stays so.
LEMMA StepOnward ==
    ASSUME TypeOK, QueueInv, ListInv, StateFollows, Next
    PROVE  \A r \in Request : Onward(r)
<1> USE RequestTypes, Actors
<1>1. \A r \in Request : /\ posted[r] <=> pc[<<"io", r>>] \notin {"idle", "begin"}
                         /\ posted[r] \in BOOLEAN /\ running[r] \in {0, 1, -1}
  BY Zenon DEF ListInv, PostedExact
<1>2. ASSUME NEW a \in Actor, QueueStep(a) PROVE \A r \in Request : Onward(r)
  <2>1. UNCHANGED <<running, result, posted>>
    BY Zenon, <1>2, QueueStepMoves DEF cbVars
  <2>2. ASSUME NEW r \in Request, pc'[<<"io", r>>] # pc[<<"io", r>>]
        PROVE  pc'[<<"io", r>>] \in {"unref2", "done"}
    <3>1. a = <<"io", r>> /\ pc[a] \notin {"get", "make", "lockq"}
      BY <1>2, <2>2, QueueStepMoves, Zenon DEF QueueInv, Roles, WorkPC
    <3> QED BY Zenon, <1>2, <3>1 DEF QueueStep, Find, Make, LockQueue, UnrefMap, UnrefQueue, Goto
  <2> QED BY Zenon, <1>1, <2>1, <2>2 DEF Onward
<1>3. ASSUME NEW r \in Request, CallSubmit(r) \/ SubmitStep(r) PROVE \A p \in Request : Onward(p)
  <2>1. CASE CallSubmit(r) \/ NoQueue(r) \/ Submitted(r) \/ StartFailed(r)
    <3>1. UNCHANGED <<running, result, posted>>
      BY Zenon, <2>1 DEF CallSubmit, NoQueue, Submitted, StartFailed, cbVars
    <3>2. \A p \in Request : pc'[<<"io", p>>] = pc[<<"io", p>>]
      BY ZenonT(90), <2>1 DEF CallSubmit, NoQueue, Submitted, StartFailed, Goto
    <3> QED BY Zenon, <1>1, <3>1, <3>2 DEF Onward
  <2>2. CASE Start(r)
    <3>1. UNCHANGED <<running, result, posted>> /\ pc[<<"io", r>>] = "idle"
      BY Zenon, <2>2 DEF Start, QueueInv, Roles
    <3>2. \A p \in Request : p # r => pc'[<<"io", p>>] = pc[<<"io", p>>]
      BY <2>2, ZenonT(90) DEF Start
    <3> QED BY <1>1, <3>1, <3>2, Zenon DEF Onward
  <2> QED BY <1>2, <1>3, <2>1, <2>2, Zenon DEF SubmitStep
<1>4. ASSUME NEW r \in Request, WorkerStep(r) PROVE \A p \in Request : Onward(p)
  <2> DEFINE i == <<"io", r>>
  <2>1. CASE Begin(r)
    <3>1. /\ pc[i] = "begin" /\ posted'[r] /\ running'[r] = 1
          /\ \A p \in Request : p # r => pc'[<<"io", p>>] = pc[<<"io", p>>] /\
                running'[p] = running[p] /\ posted'[p] = posted[p] /\ result'[p] = result[p]
      BY Zenon, <2>1 DEF Begin
    <3>2. ~posted[r]
      BY Zenon, <1>1, <3>1
    <3>3. Onward(r)
      BY Zenon, <3>1, <3>2 DEF Onward
    <3>4. ASSUME NEW p \in Request, p # r PROVE Onward(p)
      BY ZenonT(90), <1>1, <3>1, <3>4 DEF Onward
    <3> QED BY Zenon, <3>3, <3>4
  <2>2. CASE Operate(r)
    <3>1. /\ pc[i] = "io" /\ pc'[i] = "running" /\ UNCHANGED <<running, posted>>
          /\ \A p \in Request : p # r =>
                pc'[<<"io", p>>] = pc[<<"io", p>>] /\ result'[p] = result[p]
      BY <2>2, Zenon DEF Operate, Goto
    <3>2. running[r] # 0
      BY Zenon, <3>1 DEF StateFollows, Follows
    <3>3. \A p \in Request : running'[p] = running[p] /\ posted'[p] = posted[p]
      BY Zenon, <3>1
    <3>4. Onward(r)
      BY Zenon, <1>1, <3>1, <3>2, <3>3 DEF Onward
    <3>5. \A p \in Request : p # r => Onward(p)
      BY SMTT(90), <1>1, <3>1, <3>3 DEF Onward
    <3> QED BY Zenon, <3>4, <3>5
  <2>3. CASE StopRunning(r)
    <3>1. /\ pc'[i] = "err" /\ UNCHANGED <<result, posted>> /\ running'[r] = 0
          /\ \A p \in Request : p # r =>
                pc'[<<"io", p>>] = pc[<<"io", p>>] /\ running'[p] = running[p]
      BY <2>3, Zenon DEF StopRunning, Goto
    <3>2. Onward(r)
      BY SMTT(90), <3>1 DEF Onward
    <3>3. \A p \in Request : p # r => Onward(p)
      BY Zenon, <1>1, <3>1 DEF Onward
    <3> QED BY Zenon, <3>2, <3>3
  <2>4. CASE Recheck(r) \/ CancelWait(r) \/ Publish(r) \/ WakeLists(r)
    <3>1. /\ UNCHANGED <<running, result, posted>>
          /\ \A p \in Request : p # r => pc'[<<"io", p>>] = pc[<<"io", p>>]
          /\ pc[i] = "relock" \/ pc'[i] \in {"stuck", "fut", "unlink"}
      BY <2>4, ZenonT(90) DEF Recheck, CancelWait, Publish, WakeLists, Goto, cbVars
    <3> QED BY Zenon, <1>1, <3>1 DEF Onward
  <2>5. CASE Unlink(r)
    <3>1. /\ UNCHANGED <<running, result, posted>> /\ pc'[i] \in {"unref", "done"}
          /\ \A p \in Request : p # r =>
                \/ pc'[<<"io", p>>] = pc[<<"io", p>>]
                \/ pc[<<"io", p>>] = "cwait" /\ pc'[<<"io", p>>] = "relock"
      BY <2>5, Zenon DEF Unlink, cbVars
    <3> QED BY ZenonT(90), <1>1, <3>1 DEF Onward
  <2> QED BY <1>2, <1>4, <2>1, <2>2, <2>3, <2>4, <2>5, Zenon DEF WorkerStep
<1>5. ASSUME NEW c \in Canceller,
             (\E r \in Request \cup {None} : CallCancel(c, r)) \/ CancelStep(c)
      PROVE  \A p \in Request : Onward(p)
  <2>1. CASE Scan(c)
    <3>1. /\ \A p \in Request : pc'[<<"io", p>>] = pc[<<"io", p>>]
          /\ \A p \in Request : running'[p] = running[p] \/ (running'[p] = -1 /\ running[p] # 0)
          /\ UNCHANGED <<result, posted>>
      BY <2>1, ZenonT(90) DEF Scan
    <3> QED BY Zenon, <1>1, <3>1 DEF Onward
  <2>2. CASE \/ \E r \in Request \cup {None} : CallCancel(c, r)
             \/ ScanFrom(c) \/ Await(c) \/ ScanEnd(c)
    <3>1. /\ \A p \in Request : pc'[<<"io", p>>] = pc[<<"io", p>>]
          /\ UNCHANGED <<running, result, posted>>
      BY <2>2, ZenonT(90) DEF CallCancel, ScanFrom, Await, ScanEnd, Goto, cbVars
    <3> QED BY Zenon, <1>1, <3>1 DEF Onward
  <2> QED BY Zenon, <1>2, <1>5, <2>1, <2>2 DEF CancelStep
<1>6. ASSUME NEW s \in Waiter, WaitStep(s) \/ \E R \in SUBSET Request : CallSuspend(s, R)
      PROVE  \A p \in Request : Onward(p)
  <2>1. UNCHANGED <<pc, running, result, posted>>
    BY Zenon, <1>6, WaitersApart
  <2> QED BY Zenon, <1>1, <2>1 DEF Onward
<1> QED BY Zenon, <1>3, <1>4, <1>5, <1>6 DEF Next, Calls

\* What an aio_cancel in progress relies on is not disturbed by others.
LEMMA Undisturbed ==
    ASSUME NEW c \in Canceller, TypeOK, ListInv, CancelOwn(c), \A r \in Request : Onward(r),
           pc'[<<"cancel", c>>] = pc[<<"cancel", c>>], todo'[c] = todo[c],
           target'[c] = target[c], answer'[c] = answer[c],
           before'[<<"cancel", c>>] = before[<<"cancel", c>>]
    PROVE  CancelOwn(c)'
<1> USE TypesApart DEF OwnTypes, SharedTypes, CancelOwn
<1>1. \A j \in DOMAIN todo[c] : todo[c][j] \in Request /\ posted[todo[c][j]]
  BY SMTT(90) DEF CancelScans
<1>2. \A r \in before[<<"cancel", c>>] : r \in Request /\ posted[r]
  BY Zenon, Actors DEF ListInv, PostedExact
<1>3. CancelWaits(c)'
  <2>1. todo[c] # <<>> => Head(todo[c]) \in Request /\ posted[Head(todo[c])]
    BY SMTT(90), <1>1
  <2>2. \A r \in Request : posted[r] /\ running[r] # 1 => running'[r] # 1
    BY Zenon DEF Onward
  <2> QED BY Zenon, <2>1, <2>2 DEF CancelWaits
<1>4. \A r \in before[<<"cancel", c>>] : AtWork(r)' => AtWork(r)
  BY <1>2, Zenon DEF AtWork, Onward
<1>5. CancelScans(c)'
  <2>1. \A j \in DOMAIN todo[c] : posted'[todo[c][j]]
    BY <1>1, Zenon DEF Onward
  <2>2. ASSUME pc[<<"cancel", c>>] \in {"scan", "await"}, NEW r \in before[<<"cancel", c>>],
               target[c] \in {None, r}, AtWork(r)'
        PROVE  \E j \in DOMAIN todo[c] : todo[c][j] = r
    BY <1>4, <2>2, Zenon DEF CancelScans
  <2>3. /\ \A j \in DOMAIN todo[c] : target[c] \in {None, todo[c][j]}
        /\ pc[<<"cancel", c>>] = "idle" => todo[c] = <<>> /\ answer[c] # "canceled"
    BY Zenon DEF CancelScans
  <2>4. (\A j \in DOMAIN todo[c] : posted[todo[c][j]] /\ target[c] \in {None, todo[c][j]})'
    BY Zenon, <2>1, <2>3
  <2>5. (pc[<<"cancel", c>>] \in {"scan", "await"} =>
          \A r \in before[<<"cancel", c>>] : target[c] \in {None, r} /\ AtWork(r) =>
              \E j \in DOMAIN todo[c] : todo[c][j] = r)'
    BY <2>2, Zenon
  <2>6. (pc[<<"cancel", c>>] = "idle" => todo[c] = <<>> /\ answer[c] # "canceled")'
    BY Zenon, <2>3
  <2> QED BY <2>4, <2>5, <2>6, Zenon DEF CancelScans
<1>6. CancelSure(c)'
  <2>1. \A r \in Request : posted[r] /\ running[r] = 0 =>
          posted'[r] /\ running'[r] = 0 /\ result'[r] = result[r]
    BY Zenon DEF Onward
  <2>2. target[c] # None => target[c] \in Request
    BY Zenon
  <2> QED BY ZenonT(90), <2>1, <2>2 DEF CancelSure
<1>7. CancelEnds(c)'
  BY <1>4, Zenon DEF CancelEnds
<1> QED BY Zenon, <1>3, <1>5, <1>6, <1>7

\* aio_cancel begins with nothing to look at.
LEMMA CancelOfCall ==
    ASSUME NEW c \in Canceller, NEW r \in Request \cup {None}, TypeOK, CancelOwn(c),
           CallCancel(c, r)
    PROVE  CancelOwn(c)'
<1> USE CancelTypes, Actors DEF CancelOwn
<1>1. /\ pc[<<"cancel", c>>] = "idle" /\ pc'[<<"cancel", c>>] = "get" /\ todo' = todo
      /\ answer' = answer
  BY Zenon DEF CallCancel, Goto
<1>2. todo[c] = <<>> /\ answer[c] # "canceled"
  BY Zenon, <1>1 DEF CancelScans
<1> QED BY SMTT(90), <1>1, <1>2 DEF CancelWaits, CancelScans, CancelSure, CancelEnds

\* If there is no queue, no thread is at work, and aio_cancel may return at once.
LEMMA CancelOfQueueStep ==
    ASSUME NEW c \in Canceller, TypeOK, QueueInv, ListInv, CancelOwn(c), QueueStep(<<"cancel", c>>)
    PROVE  CancelOwn(c)'
<1> USE CancelTypes, Actors DEF CancelOwn
<1> DEFINE a == <<"cancel", c>>
<1>1. a \in Actor /\ pc[a] \in CancelPC
  BY Zenon DEF QueueInv, Roles
<1>2. Find(a) \/ LockQueue(a)
  BY Zenon, <1>1 DEF QueueStep, Make, UnrefMap, UnrefQueue, Goto, CancelPC
<1>3. /\ UNCHANGED <<todo, target, before, posted, running, result>>
      /\ pc[a] \in {"get", "lockq"}
      /\ pc'[a] \in {"lockq", "have", "done"}
      /\ pc'[a] = "done" => map = None
      /\ answer'[c] \in {answer[c], "alldone"}
      /\ \A r \in Request : pc'[<<"io", r>>] = pc[<<"io", r>>]
  BY <1>1, <1>2, ZenonT(90) DEF Find, LockQueue, Goto, cbVars, cancelVars
<1>4. CancelWaits(c)' /\ CancelScans(c)'
  BY <1>3, Zenon DEF CancelWaits, CancelScans
<1>5. CancelSure(c)'
  BY Zenon, <1>3 DEF CancelSure
<1>6. CancelEnds(c)'
  <2>1. \A r \in before[a] : r \in Request /\ posted[r]
    BY Zenon DEF ListInv, PostedExact
  <2>2. map = None => \A r \in before[a] : ~AtWork(r)
    BY Zenon, <2>1 DEF AtWork, QueueInv, InUse, Working
  <2>3. \A r \in before[a] : AtWork(r)' => AtWork(r)
    BY Zenon, <1>3, <2>1 DEF AtWork
  <2> QED BY <1>3, <2>2, <2>3, Zenon DEF CancelEnds
<1> QED BY Zenon, <1>4, <1>5, <1>6

\* aio_cancel begins with all threads that it shall cancel and that are in the list.
LEMMA CancelOfScanFrom ==
    ASSUME NEW c \in Canceller, TypeOK, QueueInv, ListInv, ScanFrom(c)
    PROVE  CancelOwn(c)'
<1> USE CancelTypes, Actors
<1> DEFINE a == <<"cancel", c>>
           list == qs[map].list
<1>1. /\ a \in Actor /\ pc[a] = "have" /\ map \in Queue /\ qs[map] # None /\ qp[a] = map
      /\ list \in Seq(Request)
  BY QueueTypes, Zenon DEF ScanFrom, Goto, QueueInv, InUse, QueueAlive, Working
<1>2. /\ pc'[a] = "scan" /\ todo'[c] = Matching(list, target[c]) /\ answer'[c] = "alldone"
      /\ UNCHANGED <<target, before, posted>>
      /\ \A r \in Request : pc'[<<"io", r>>] = pc[<<"io", r>>]
  BY Zenon, <1>1 DEF ScanFrom, Goto, cbVars
<1>3. \A r \in Request : (\E j \in DOMAIN list : list[j] = r) <=> pc[<<"io", r>>] \in Listed
  BY ZenonT(90), <1>1 DEF ListInv, ListExact
<1>4. /\ \A j \in DOMAIN Matching(list, target[c]) :
            LET r == Matching(list, target[c])[j]
            IN r \in Request /\ pc[<<"io", r>>] \in Listed /\ target[c] \in {None, r}
      /\ \A r \in Request : target[c] \in {None, r} /\ pc[<<"io", r>>] \in Listed =>
            \E j \in DOMAIN Matching(list, target[c]) : Matching(list, target[c])[j] = r
  <2>1. CASE target[c] = None
    BY SMTT(90), <1>1, <1>3, <2>1 DEF Matching
  <2>2. CASE target[c] # None /\ \E j \in DOMAIN list : list[j] = target[c]
    <3>1. Matching(list, target[c]) = <<target[c]>> /\ target[c] \in Request
      BY ZenonT(90), <2>2 DEF Matching
    <3>2. /\ DOMAIN Matching(list, target[c]) = {1}
          /\ Matching(list, target[c])[1] = target[c]
      BY SMTT(90), <3>1
    <3> QED BY Zenon, <1>3, <2>2, <3>1, <3>2
  <2>3. CASE target[c] # None /\ ~\E j \in DOMAIN list : list[j] = target[c]
    <3>1. Matching(list, target[c]) = <<>> /\ target[c] \in Request
      BY ZenonT(90), <2>3 DEF Matching
    <3>2. DOMAIN Matching(list, target[c]) = {}
      BY SMTT(90), <3>1
    <3> QED BY Zenon, <1>3, <2>3, <3>1, <3>2
  <2> QED BY Zenon, <2>1, <2>2, <2>3
<1>5. \A r \in Request : pc[<<"io", r>>] \in Listed => posted[r]
  BY Zenon DEF ListInv, PostedExact, Listed
<1>6. \A r \in before[a] : r \in Request /\ (AtWork(r)' => pc[<<"io", r>>] \in Listed)
  BY ZenonT(90), <1>2 DEF ListInv, PostedExact, AtWork, Listed
<1> HIDE DEF list, a
<1>7. CancelScans(c)'
  <2>1. (\A j \in DOMAIN todo[c] : posted[todo[c][j]] /\ target[c] \in {None, todo[c][j]})'
    BY <1>2, <1>4, <1>5, Zenon
  <2>2. (pc[<<"cancel", c>>] \in {"scan", "await"} =>
          \A r \in before[<<"cancel", c>>] : target[c] \in {None, r} /\ AtWork(r) =>
              \E j \in DOMAIN todo[c] : todo[c][j] = r)'
    BY <1>2, <1>4, <1>6, ZenonT(90) DEF a
  <2>3. (pc[<<"cancel", c>>] = "idle" => todo[c] = <<>> /\ answer[c] # "canceled")'
    BY Zenon, <1>2 DEF a
  <2> QED BY <2>1, <2>2, <2>3, Zenon DEF CancelScans
<1> QED BY Zenon, <1>2, <1>7 DEF CancelOwn, CancelWaits, CancelSure, CancelEnds, a

\* aio_cancel leaves a thread behind only when it does not run any more.
LEMMA CancelOfScan ==
    ASSUME NEW c \in Canceller, TypeOK, QueueInv, ListInv, StateFollows, CancelOwn(c),
           Scan(c) \/ Await(c)
    PROVE  CancelOwn(c)'
<1> USE CancelTypes, Actors
<1> DEFINE a == <<"cancel", c>>
           r == Head(todo[c])
<1>1. a \in Actor /\ todo[c] # <<>> /\ todo[c] \in Seq(Request)
  BY Zenon DEF Scan, Await, Goto, CancelOwn, CancelWaits
<1>2. /\ r \in Request /\ posted[r] /\ target[c] \in {None, r} /\ r = todo[c][1]
      /\ DOMAIN todo[c] = 1..Len(todo[c]) /\ Len(todo[c]) \in Nat \ {0}
      /\ Tail(todo[c]) \in Seq(Request)
      /\ \A j \in DOMAIN Tail(todo[c]) :
            j + 1 \in DOMAIN todo[c] /\ Tail(todo[c])[j] = todo[c][j + 1]
      /\ \A j \in DOMAIN todo[c] : j # 1 =>
            j - 1 \in DOMAIN Tail(todo[c]) /\ Tail(todo[c])[j - 1] = todo[c][j]
  <2>1. 1 \in DOMAIN todo[c] /\ r = todo[c][1]
    BY SMTT(90), <1>1
  <2> QED BY SMTT(90), <1>1, <2>1 DEF CancelOwn, CancelScans
<1>3. \A p \in before[a] : p \in Request /\ posted[p]
  BY Zenon DEF ListInv, PostedExact
<1>4. /\ pc[a] \in {"scan", "await"} /\ pc'[a] \in {"scan", "await"}
      /\ UNCHANGED <<target, before, posted, result>>
      /\ \A p \in Request : pc'[<<"io", p>>] = pc[<<"io", p>>]
  BY <1>1, ZenonT(90) DEF Scan, Await, Goto, cbVars
<1>5. CASE Scan(c) /\ running[r] # 0
  <2>1. /\ running'[r] = -1 /\ answer' = answer /\ todo' = todo /\ pc[a] = "scan"
        /\ running[r] # 0
        /\ \A p \in Request : p # r => running'[p] = running[p]
    <3>1. /\ running' = [running EXCEPT ![r] = -1] /\ answer' = answer /\ todo' = todo
          /\ pc[a] = "scan" /\ running[r] # 0
      BY ZenonT(90), <1>5 DEF Scan
    <3> QED BY Zenon, <1>2, <3>1
  <2>2. CancelWaits(c)'
    BY SMTT(90), <1>1, <2>1 DEF CancelWaits
  <2>3. CancelScans(c)'
    <3>1. \A p \in before[a] : AtWork(p)' => AtWork(p)
      BY Zenon, <1>3, <1>4 DEF AtWork
    <3>2. (\A j \in DOMAIN todo[c] : posted[todo[c][j]] /\ target[c] \in {None, todo[c][j]})'
      BY Zenon, <1>4, <2>1 DEF CancelOwn, CancelScans
    <3>3. (pc[<<"cancel", c>>] \in {"scan", "await"} =>
            \A p \in before[<<"cancel", c>>] : target[c] \in {None, p} /\ AtWork(p) =>
                \E j \in DOMAIN todo[c] : todo[c][j] = p)'
      BY <1>4, <2>1, <3>1, Zenon DEF CancelOwn, CancelScans
    <3> QED BY <1>4, <3>2, <3>3, Zenon DEF CancelScans
  <2>4. CancelSure(c)'
    BY Zenon, <1>4, <2>1 DEF CancelOwn, CancelSure
  <2> QED BY <1>4, <2>2, <2>3, <2>4, Zenon DEF CancelOwn, CancelEnds
<1>6. CASE ~(Scan(c) /\ running[r] # 0)
  <2>1. /\ running[r] = 0 /\ pc'[a] = "scan" /\ todo' = [todo EXCEPT ![c] = Tail(todo[c])]
        /\ running' = running /\ answer'[c] \in {answer[c], "canceled"}
        /\ answer'[c] # answer[c] => result[r] = "canceled"
    <3>1. CASE Scan(c)
      BY ZenonT(90), <1>1, <1>6, <3>1 DEF Scan
    <3>2. CASE Await(c)
      <4>1. running[r] # 1 /\ running[r] # -1
        BY Zenon, <3>2 DEF Await, Goto, CancelOwn, CancelWaits
      <4> QED BY SMTT(90), <1>1, <1>2, <3>2, <4>1 DEF Await, Goto, cbVars
    <3> QED BY Zenon, <3>1, <3>2
  <2>2. todo'[c] = Tail(todo[c])
    BY Zenon, <2>1
  <2>3. ~AtWork(r)
    BY ZenonT(90), <1>2, <2>1 DEF AtWork, StateFollows, Follows, ListInv, PostedExact
  <2>4. CancelScans(c)'
    <3>1. (\A j \in DOMAIN todo[c] : posted[todo[c][j]] /\ target[c] \in {None, todo[c][j]})'
      BY SMTT(90), <1>2, <1>4, <2>2 DEF CancelOwn, CancelScans
    <3>2. ASSUME NEW p \in before[a], target[c] \in {None, p}, AtWork(p)'
          PROVE  \E j \in DOMAIN Tail(todo[c]) : Tail(todo[c])[j] = p
      <4>1. p \in Request /\ AtWork(p)
        BY Zenon, <1>3, <1>4, <3>2 DEF AtWork
      <4>2. PICK j \in DOMAIN todo[c] : todo[c][j] = p
        BY <1>4, <3>2, <4>1, Zenon DEF CancelOwn, CancelScans
      <4>3. j # 1
        BY ZenonT(90), <1>2, <2>3, <4>1, <4>2
      <4> QED BY <1>2, <4>2, <4>3, Zenon
    <3>3. (pc[<<"cancel", c>>] \in {"scan", "await"} =>
            \A p \in before[<<"cancel", c>>] : target[c] \in {None, p} /\ AtWork(p) =>
                \E j \in DOMAIN todo[c] : todo[c][j] = p)'
      BY <1>4, <2>2, <3>2, ZenonT(90)
    <3> QED BY <2>1, <3>1, <3>3, Zenon DEF CancelScans
  <2>5. CancelSure(c)'
    BY ZenonT(90), <1>2, <1>4, <2>1 DEF CancelOwn, CancelSure
  <2> QED BY Zenon, <2>1, <2>4, <2>5 DEF CancelOwn, CancelWaits, CancelEnds
<1> QED BY Zenon, <1>5, <1>6

\* aio_cancel returns when it has looked at all of them.
LEMMA CancelOfScanEnd ==
    ASSUME NEW c \in Canceller, TypeOK, ListInv, CancelOwn(c), ScanEnd(c)
    PROVE  CancelOwn(c)'
<1> USE CancelTypes, Actors
<1>1. /\ pc[<<"cancel", c>>] = "scan" /\ pc'[<<"cancel", c>>] = "done" /\ todo[c] = <<>>
      /\ UNCHANGED <<todo, target, answer, before, posted, running, result>>
      /\ \A r \in Request : pc'[<<"io", r>>] = pc[<<"io", r>>]
  BY Zenon DEF ScanEnd, Goto, cbVars, cancelVars
<1>2. \A r \in before[<<"cancel", c>>] : AtWork(r)' => AtWork(r)
  BY Zenon, <1>1 DEF AtWork
<1>3. CancelEnds(c)'
  <2>1. DOMAIN todo[c] = {}
    BY SMTT(90), <1>1
  <2>2. \A r \in before[<<"cancel", c>>] : target[c] \in {None, r} => ~AtWork(r)
    BY Zenon, <1>1, <2>1 DEF CancelOwn, CancelScans
  <2> QED BY <1>1, <1>2, <2>2, Zenon DEF CancelEnds
<1>4. CancelScans(c)'
  <2>1. todo'[c] = <<>> /\ DOMAIN todo'[c] = {}
    BY SMTT(90), <1>1
  <2> QED BY Zenon, <1>1, <2>1 DEF CancelScans
<1>5. CancelWaits(c)' /\ CancelSure(c)'
  BY Zenon, <1>1 DEF CancelOwn, CancelWaits, CancelSure
<1> QED BY Zenon, <1>3, <1>4, <1>5 DEF CancelOwn

\* A thread is told to stop only by who then waits for it, and until it has stopped.
LEMMA ToldStep ==
    ASSUME TypeOK, QueueInv, ListInv, CancelInv, Next
    PROVE  ToldByOne'
<1> USE CancelTypes, Actors
<1>1. ASSUME \A r \in Request : running'[r] = -1 => running[r] = -1, todo' = todo,
             \A c \in Canceller : pc[<<"cancel", c>>] = "await" => pc'[<<"cancel", c>>] = "await"
      PROVE  ToldByOne'
  BY <1>1, Zenon DEF CancelInv, ToldByOne
<1>2. ASSUME NEW a \in Actor, QueueStep(a) PROVE ToldByOne'
  <2>1. running' = running /\ todo' = todo
    BY Zenon, <1>2, QueueStepMoves
    DEF cbVars, cancelVars, QueueStep, Find, Make, LockQueue, UnrefMap, UnrefQueue
  <2>2. pc[a] # "await" /\ \A u \in Actor : u # a => pc'[u] = pc[u]
    BY Zenon, <1>2, QueueStepMoves DEF QueueStep, Find, Make, LockQueue, UnrefMap, UnrefQueue, Goto
  <2> QED BY Zenon, <1>1, <2>1, <2>2
<1>3. ASSUME NEW r \in Request, CallSubmit(r) \/ SubmitStep(r) PROVE ToldByOne'
  <2>1. CASE CallSubmit(r) \/ NoQueue(r) \/ Submitted(r) \/ StartFailed(r) \/ Start(r)
    <3>1. running' = running /\ todo' = todo
      BY Zenon, <2>1 DEF CallSubmit, NoQueue, Submitted, StartFailed, Start, cbVars, cancelVars
    <3>2. \A c \in Canceller : pc'[<<"cancel", c>>] = pc[<<"cancel", c>>]
      BY ZenonT(90), <2>1 DEF CallSubmit, NoQueue, Submitted, StartFailed, Start, Goto
    <3> QED BY Zenon, <1>1, <3>1, <3>2
  <2> QED BY <1>2, <1>3, <2>1, Zenon DEF SubmitStep
<1>4. ASSUME NEW r \in Request, WorkerStep(r) PROVE ToldByOne'
  <2>1. CASE ~QueueStep(<<"io", r>>)
    <3>1. \/ running' = running
          \/ running' = [running EXCEPT ![r] = 1]
          \/ running' = [running EXCEPT ![r] = 0]
      BY Zenon, <1>4, <2>1
      DEF WorkerStep, Begin, Recheck, CancelWait, Operate, StopRunning, Publish,
                        WakeLists, Unlink, cbVars
    <3>2. todo' = todo
      BY Zenon, <1>4, <2>1
      DEF WorkerStep, Begin, Recheck, CancelWait, Operate, StopRunning, Publish,
                        WakeLists, Unlink, cancelVars
    <3>3. \A c \in Canceller : pc'[<<"cancel", c>>] = pc[<<"cancel", c>>]
      <4>1. CASE Unlink(r)
        <5>1. \A c \in Canceller : <<"cancel", c>> \notin Worker
          BY Zenon DEF Worker
        <5> QED BY <4>1, <5>1, Zenon DEF Unlink
      <4>2. CASE ~Unlink(r)
        BY ZenonT(90), <1>4, <2>1, <4>2
        DEF WorkerStep, Begin, Recheck, CancelWait, Operate, StopRunning,
                                Publish, WakeLists, Goto
      <4> QED BY Zenon, <4>1, <4>2
    <3> QED BY SMTT(90), <1>1, <3>1, <3>2, <3>3
  <2> QED BY <1>2, <2>1, Zenon
<1>5. ASSUME NEW c \in Canceller,
             (\E r \in Request \cup {None} : CallCancel(c, r)) \/ CancelStep(c)
      PROVE  ToldByOne'
  <2> DEFINE a == <<"cancel", c>>
             h == Head(todo[c])
  <2>1. ASSUME NEW r \in Request, running[r] = -1, pc[a] # "await" \/ r # h
        PROVE  \E d \in Canceller : /\ d # c /\ pc[<<"cancel", d>>] = "await"
                                    /\ todo[d] # <<>> /\ Head(todo[d]) = r
    BY <2>1, Zenon DEF CancelInv, ToldByOne
  <2>2. CASE \/ \E r \in Request \cup {None} : CallCancel(c, r)
             \/ ScanFrom(c) \/ Await(c) \/ ScanEnd(c)
    <3>1. /\ running' = running
          /\ \A d \in Canceller : d # c =>
                pc'[<<"cancel", d>>] = pc[<<"cancel", d>>] /\ todo'[d] = todo[d]
      BY ZenonT(90), <2>2 DEF CallCancel, ScanFrom, Await, ScanEnd, Goto, cbVars, cancelVars
    <3>2. pc[a] # "await" \/ running[h] # -1
      BY <2>2, Zenon DEF CallCancel, ScanFrom, Await, ScanEnd, Goto
    <3> QED BY <2>1, <3>1, <3>2, ZenonT(90) DEF ToldByOne
  <2>3. CASE Scan(c) /\ running[h] # 0
    <3>1. /\ pc[a] = "scan" /\ pc'[a] = "await" /\ todo' = todo /\ todo[c] # <<>>
          /\ running' = [running EXCEPT ![h] = -1]
          /\ \A d \in Canceller : d # c => pc'[<<"cancel", d>>] = pc[<<"cancel", d>>]
      BY ZenonT(90), <2>3 DEF Scan
    <3>2. ASSUME NEW r \in Request, running'[r] = -1, r # h PROVE running[r] = -1
      BY Zenon, <3>1, <3>2
    <3> HIDE DEF h
    <3> QED BY <2>1, <3>1, <3>2, Zenon DEF ToldByOne, h
  <2>4. CASE Scan(c) /\ running[h] = 0
    <3>1. /\ pc[a] = "scan" /\ running' = running /\ pc' = pc
          /\ \A d \in Canceller : d # c => todo'[d] = todo[d]
      BY Zenon, <2>4 DEF Scan
    <3> QED BY <2>1, <3>1, Zenon DEF ToldByOne
  <2> QED BY Zenon, <1>2, <1>5, <2>2, <2>3, <2>4 DEF CancelStep
<1>6. ASSUME NEW s \in Waiter, WaitStep(s) \/ \E R \in SUBSET Request : CallSuspend(s, R)
      PROVE  ToldByOne'
  BY Zenon, <1>1, <1>6, WaitersApart
<1> QED BY Zenon, <1>3, <1>4, <1>5, <1>6 DEF Next, Calls

\* A step keeps what aio_cancel relies on.
LEMMA CancelInvStep ==
    ASSUME TypeOK, QueueInv, ListInv, CancelInv, Next
    PROVE  CancelInv'
<1> USE CancelTypes, Actors
<1>1. StateFollows'
  BY Zenon, FollowsOfWorker, FollowsOfOthers DEF CancelInv
<1>2. ToldByOne'
  BY Zenon, ToldStep
<1>3. \A r \in Request : Onward(r)
  BY Zenon, StepOnward DEF CancelInv
<1>4. ASSUME NEW c \in Canceller,
             \/ QueueStep(<<"cancel", c>>) \/ ScanFrom(c) \/ Scan(c) \/ Await(c) \/ ScanEnd(c)
             \/ \E r \in Request \cup {None} : CallCancel(c, r)
      PROVE  /\ CancelOwn(c)'
             /\ \A d \in Canceller : d # c => /\ pc'[<<"cancel", d>>] = pc[<<"cancel", d>>]
                                             /\ todo'[d] = todo[d] /\ target'[d] = target[d]
                                             /\ answer'[d] = answer[d]
                                             /\ before'[<<"cancel", d>>] = before[<<"cancel", d>>]
  <2>1. CancelOwn(c)'
    BY Zenon, <1>4, CancelOfQueueStep, CancelOfScanFrom, CancelOfScan, CancelOfScanEnd, CancelOfCall
    DEF CancelInv
  <2>2. CASE QueueStep(<<"cancel", c>>)
    <3>1. \A d \in Canceller : d # c => pc'[<<"cancel", d>>] = pc[<<"cancel", d>>]
      <4>1. <<"cancel", c>> \in Actor /\ pc \in [Actor -> PC]
        BY Zenon
      <4>2. \A u \in Actor : u # <<"cancel", c>> => pc'[u] = pc[u]
        BY <2>2, <4>1, QueueStepMoves, Zenon
      <4> QED BY Zenon, <4>2
    <3>2. UNCHANGED <<todo, target, before>> /\ \A d \in Canceller : d # c => answer'[d] = answer[d]
      <4>1. CASE Find(<<"cancel", c>>)
        BY ZenonT(90), <4>1 DEF Find
      <4>2. CASE ~Find(<<"cancel", c>>)
        BY Zenon, <2>2, <4>2 DEF QueueStep, Make, LockQueue, UnrefMap, UnrefQueue, cancelVars
      <4> QED BY Zenon, <4>1, <4>2
    <3> QED BY Zenon, <2>1, <3>1, <3>2
  <2>3. CASE ~QueueStep(<<"cancel", c>>)
    BY ZenonT(90), <1>4, <2>1, <2>3 DEF CallCancel, ScanFrom, Scan, Await, ScanEnd, Goto, cancelVars
  <2> QED BY Zenon, <2>2, <2>3
<1>5. ASSUME NEW r \in Request, CallSubmit(r) \/ SubmitStep(r) \/ WorkerStep(r)
      PROVE  \A d \in Canceller : /\ pc'[<<"cancel", d>>] = pc[<<"cancel", d>>]
                                  /\ todo'[d] = todo[d] /\ target'[d] = target[d]
                                  /\ answer'[d] = answer[d]
                                  /\ before'[<<"cancel", d>>] = before[<<"cancel", d>>]
  <2>1. ASSUME NEW a \in Actor, QueueStep(a), a \in {<<"submit", r>>, <<"io", r>>}
        PROVE  /\ UNCHANGED <<todo, target, answer, before>>
               /\ \A d \in Canceller : pc'[<<"cancel", d>>] = pc[<<"cancel", d>>]
    <3>1. UNCHANGED <<todo, target, answer, before>>
      BY ZenonT(90), <2>1 DEF QueueStep, Find, Make, LockQueue, UnrefMap, UnrefQueue, cancelVars
    <3>2. \A d \in Canceller : <<"cancel", d>> # a
      BY Zenon, <2>1
    <3> QED BY <2>1, <3>1, <3>2, QueueStepMoves, Zenon
  <2>2. CASE QueueStep(<<"submit", r>>) \/ QueueStep(<<"io", r>>)
    BY <2>1, <2>2, Zenon
  <2>3. CASE CallSubmit(r)
    BY Zenon, <2>3 DEF CallSubmit, Goto, cancelVars
  <2>4. CASE NoQueue(r) \/ Start(r) \/ StartFailed(r) \/ Submitted(r)
    BY ZenonT(90), <2>4 DEF NoQueue, Start, StartFailed, Submitted, Goto, cancelVars
  <2>5. CASE Unlink(r)
    <3>1. \A d \in Canceller : pc'[<<"cancel", d>>] = pc[<<"cancel", d>>]
      <4>1. \A d \in Canceller : <<"cancel", d>> \notin Worker
        BY Zenon DEF Worker
      <4> QED BY <2>5, <4>1, Zenon DEF Unlink
    <3> QED BY Zenon, <2>5, <3>1 DEF Unlink, cancelVars
  <2>6. CASE \/ Begin(r) \/ Recheck(r) \/ CancelWait(r) \/ Operate(r) \/ StopRunning(r)
             \/ Publish(r) \/ WakeLists(r)
    <3>1. \A d \in Canceller : pc'[<<"cancel", d>>] = pc[<<"cancel", d>>]
      BY <2>6, ZenonT(90)
      DEF Begin, Recheck, CancelWait, Operate, StopRunning, Publish, WakeLists, Goto
    <3>2. UNCHANGED <<todo, target, answer, before>>
      BY Zenon, <2>6
      DEF Begin, Recheck, CancelWait, Operate, StopRunning, Publish, WakeLists, cancelVars
    <3> QED BY Zenon, <3>1, <3>2
  <2> QED BY Zenon, <1>5, <2>2, <2>3, <2>4, <2>5, <2>6 DEF SubmitStep, WorkerStep
<1>6. ASSUME NEW s \in Waiter, WaitStep(s) \/ \E R \in SUBSET Request : CallSuspend(s, R)
      PROVE  UNCHANGED <<pc, todo, target, answer, before>>
  BY Zenon, <1>6, WaitersApart
<1>7. \A c \in Canceller : CancelOwn(c)'
  <2>1. ASSUME NEW c \in Canceller, pc'[<<"cancel", c>>] = pc[<<"cancel", c>>],
               todo'[c] = todo[c], target'[c] = target[c], answer'[c] = answer[c],
               before'[<<"cancel", c>>] = before[<<"cancel", c>>]
        PROVE  CancelOwn(c)'
    BY Zenon, <1>3, <2>1, Undisturbed DEF CancelInv
  <2>2. CASE \E c \in Canceller : CancelStep(c) \/ \E r \in Request \cup {None} : CallCancel(c, r)
    BY <1>4, <2>1, <2>2, Zenon DEF CancelStep
  <2>3. CASE \E r \in Request : CallSubmit(r) \/ SubmitStep(r) \/ WorkerStep(r)
    BY <1>5, <2>1, <2>3, Zenon
  <2>4. CASE \E s \in Waiter : WaitStep(s) \/ \E R \in SUBSET Request : CallSuspend(s, R)
    BY <1>6, <2>1, <2>4, Zenon
  <2> QED BY Zenon, <2>2, <2>3, <2>4 DEF Next, Calls
<1> QED BY Zenon, <1>1, <1>2, <1>7 DEF CancelInv
=============================================================================
