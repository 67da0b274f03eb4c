----------------------------- MODULE AioProofs ------------------------------
(***************************************************************************)
(* The locks and the references of a queue, and the invariant as a whole.  *)
(***************************************************************************)
EXTENDS AioListProofs, FiniteSetTheorems

\* Two places between which an actor may go without a change to the locks or the references.
Outside == {"idle", "get", "make", "wait", "done", "failed"}
Alike(p, q) ==
    /\ p \notin {"lockq", "unref2"} /\ q \notin {"lockq", "unref2"}
    /\ p \in {"have", "scan", "await"} <=> q \in {"have", "scan", "await"}
    /\ p \in Outside <=> q \in Outside

\* The queues are the same but for their lists.
SameQueues ==
    \A q \in Queue :
        /\ qs'[q] = None <=> qs[q] = None
        /\ qs[q] # None => qs'[q].lock = qs[q].lock /\ qs'[q].ref = qs[q].ref

\* Steps that take no lock and no reference and give none up.
LEMMA QuietStep ==
    ASSUME TypeOK, QueueInv, Roles', Refs' = Refs, SameQueues,
           UNCHANGED <<qp, map, readers, writer>>, pc' \in [Actor -> PC],
           \A u \in Actor : pc'[u] = pc[u] \/ Alike(pc[u], pc'[u])
    PROVE  QueueInv'
<1> USE QueueTypes DEF QueueInv
<1>1. MapLocked'
  BY Zenon DEF MapLocked, Alike
<1>2. QueueLocked'
  BY Zenon DEF QueueLocked, Alike, SameQueues, QueueAlive
<1>3. InUse' /\ QueueAlive'
  BY ZenonT(90) DEF InUse, QueueAlive, Working, Alike, Outside, SameQueues
<1>4. RefExact'
  BY Zenon DEF RefExact, SameQueues
<1> QED BY Zenon, <1>1, <1>2, <1>3, <1>4

\* The queue is looked up with maplock held for reading (aio.c:63-64).
LEMMA FindStep ==
    ASSUME NEW a \in Actor, TypeOK, QueueInv, Find(a)
    PROVE  QueueInv'
<1> USE QueueTypes DEF QueueInv
<1>1. CASE map # None
  <2>1. /\ pc[a] = "get" /\ writer = Nobody /\ readers' = readers \cup {a}
        /\ pc' = [pc EXCEPT ![a] = "lockq"] /\ qp' = [qp EXCEPT ![a] = map]
        /\ UNCHANGED <<map, writer, qs>>
    BY Zenon, <1>1 DEF Find
  <2>2. Roles'
    BY Zenon, <2>1, Actors DEF Roles, SubmitPC, WorkPC, CancelPC
  <2>3. MapLocked'
    BY Zenon, <2>1 DEF MapLocked
  <2>4. QueueLocked'
    BY Zenon, <2>1 DEF QueueLocked
  <2>5. InUse'
    BY Zenon, <1>1, <2>1 DEF InUse, Working
  <2>6. QueueAlive'
    BY Zenon, <1>1, <2>1, <2>5 DEF QueueAlive, InUse
  <2>7. Refs' = Refs
    BY Zenon, <2>1, Actors DEF Refs, HasRef, Working, Roles, WorkPC
  <2>8. RefExact'
    BY Zenon, <2>1, <2>7 DEF RefExact
  <2> QED BY Zenon, <2>2, <2>3, <2>4, <2>5, <2>6, <2>8
<1>2. CASE map = None
  <2>1. /\ pc[a] = "get" /\ pc' = [pc EXCEPT ![a] = IF a \in Cancel THEN "done" ELSE "make"]
        /\ UNCHANGED <<qp, map, readers, writer, qs>>
    BY Zenon, <1>2 DEF Find
  <2>2. Roles'
    BY ZenonT(90), <2>1, Actors DEF Roles, SubmitPC, WorkPC, CancelPC
  <2>3. Refs' = Refs
    BY Zenon, <2>1, Actors DEF Refs, HasRef, Working, Roles, WorkPC
  <2>4. /\ pc' \in [Actor -> PC] /\ SameQueues
        /\ \A u \in Actor : pc'[u] = pc[u] \/ Alike(pc[u], pc'[u])
    BY Zenon, <2>1 DEF PC, SameQueues, Alike, Outside
  <2> QED BY Zenon, <2>1, <2>2, <2>3, <2>4, QuietStep
<1> QED BY Zenon, <1>1, <1>2

\* The queue is made with maplock held for writing, or was made meanwhile (aio.c:65-91).
LEMMA MakeStep ==
    ASSUME NEW a \in Actor, TypeOK, QueueInv, Make(a)
    PROVE  QueueInv'
<1> USE QueueTypes DEF QueueInv
<1>1. CASE map # None
  <2>1. /\ pc[a] = "make" /\ writer = Nobody /\ readers = {} /\ writer' = a
        /\ pc' = [pc EXCEPT ![a] = "lockq"] /\ qp' = [qp EXCEPT ![a] = map]
        /\ UNCHANGED <<map, readers, qs>>
    BY Zenon, <1>1 DEF Make
  <2>2. Roles'
    BY Zenon, <2>1, Actors DEF Roles, SubmitPC, WorkPC, CancelPC
  <2>3. MapLocked'
    BY ZenonT(90), <2>1 DEF MapLocked
  <2>4. QueueLocked'
    BY Zenon, <2>1 DEF QueueLocked
  <2>5. InUse'
    BY Zenon, <1>1, <2>1 DEF InUse, Working
  <2>6. QueueAlive'
    BY Zenon, <1>1, <2>1, <2>5 DEF QueueAlive, InUse
  <2>7. Refs' = Refs
    BY Zenon, <2>1, Actors DEF Refs, HasRef, Working, Roles, WorkPC
  <2>8. RefExact'
    BY Zenon, <2>1, <2>7 DEF RefExact
  <2> QED BY Zenon, <2>2, <2>3, <2>4, <2>5, <2>6, <2>8
<1>2. CASE map = None
  <2>1. PICK q \in Queue :
          /\ pc[a] = "make" /\ writer = Nobody /\ readers = {} /\ qs[q] = None
          /\ qs' = [qs EXCEPT ![q] = [lock |-> a, ref |-> 0, list |-> <<>>]]
          /\ map' = q /\ qp' = [qp EXCEPT ![a] = q]
          /\ pc' = [pc EXCEPT ![a] = "have"] /\ UNCHANGED <<writer, readers>>
    BY SMTT(90), <1>2 DEF Make, Free
  <2>2. \A u \in Actor : ~Working(u)
    BY Zenon, <1>2 DEF InUse
  <2>3. Roles'
    BY Zenon, <2>1, Actors DEF Roles, SubmitPC, WorkPC, CancelPC
  <2>4. MapLocked'
    BY ZenonT(90), <2>1 DEF MapLocked
  <2>5. QueueLocked'
    BY Zenon, <2>1, <2>2 DEF QueueLocked, Working
  <2>6. InUse' /\ QueueAlive'
    <3>0. <<>> \in Seq(Request) /\ 0 \in Nat /\ a \in Actor \cup {Nobody}
      BY SMTT(90)
    <3> DEFINE new == [lock |-> a, ref |-> 0, list |-> <<>>]
    <3>2. new \in [lock : Actor \cup {Nobody}, ref : Nat, list : Seq(Request)]
      BY Zenon, <3>0
    <3>1. new # None
      BY <3>2, NullAssumption, Zenon
    <3> QED BY Zenon, <1>2, <2>1, <2>2, <3>1 DEF InUse, QueueAlive, Working
  <2>7. Refs = {} /\ Refs' = {}
    <3>1. \A r \in Request : ~HasRef(r)
      BY Zenon, <2>2, Actors DEF HasRef, Working
    <3>2. ASSUME NEW r \in Request PROVE ~HasRef(r)'
      <4>1. pc'[<<"io", r>>] = pc[<<"io", r>>]
        BY <2>1, Actors, Zenon DEF Roles, WorkPC
      <4>2. pc'[<<"submit", r>>] \in {pc[<<"submit", r>>], "have"}
        BY Zenon, <2>1, Actors
      <4> QED BY Zenon, <3>1, <4>1, <4>2 DEF HasRef, Working
    <3> QED BY Zenon, <3>1, <3>2 DEF Refs
  <2>8. RefExact'
    <3>1. \A p \in Queue : qs'[p] # None => p = q /\ qs'[p].ref = 0
      BY Zenon, <1>2, <2>1 DEF QueueAlive
    <3> QED BY Zenon, <3>1, <2>7, FS_EmptySet DEF RefExact
  <2> QED BY Zenon, <2>3, <2>4, <2>5, <2>6, <2>8
<1> QED BY Zenon, <1>1, <1>2

\* maplock is released after the lock of the queue is taken.
LEMMA LockStep ==
    ASSUME NEW a \in Actor, TypeOK, QueueInv, LockQueue(a)
    PROVE  QueueInv'
<1> USE QueueTypes DEF QueueInv
<1>1. /\ pc[a] = "lockq" /\ pc' = [pc EXCEPT ![a] = "have"] /\ qp[a] = map /\ map \in Queue
      /\ qs[map] # None /\ qs[map].lock = Nobody
      /\ qs' = [qs EXCEPT ![map].lock = a]
      /\ readers' = readers \ {a} /\ writer' = IF writer = a THEN Nobody ELSE writer
      /\ UNCHANGED <<qp, map>>
  BY Zenon DEF LockQueue, Goto, CanLock, LockBy, InUse, QueueAlive, Working
<1>2. Roles'
  BY <1>1, Actors, Zenon DEF Roles, SubmitPC, WorkPC, CancelPC
<1>3. MapLocked'
  BY ZenonT(90), <1>1 DEF MapLocked
<1>4. /\ \A q \in Queue : q # map => qs'[q] = qs[q]
      /\ qs'[map].lock = a /\ qs'[map].ref = qs[map].ref /\ qs'[map] # None
  BY <1>1, NullAssumption, ZenonT(90)
<1>5. QueueLocked'
  BY ZenonT(90), <1>1, <1>4 DEF QueueLocked
<1>6. InUse' /\ QueueAlive'
  BY ZenonT(90), <1>1, <1>4 DEF InUse, QueueAlive, Working
<1>7. Refs' = Refs
  BY <1>1, Actors, Zenon DEF Refs, HasRef, Working, Roles, WorkPC
<1>8. RefExact'
  BY Zenon, <1>1, <1>4, <1>7 DEF RefExact
<1> QED BY Zenon, <1>2, <1>3, <1>5, <1>6, <1>8

\* The last holder of a reference takes maplock for writing, with no lock held.
LEMMA UnrefMapStep ==
    ASSUME NEW a \in Actor, TypeOK, QueueInv, UnrefMap(a)
    PROVE  QueueInv'
<1> USE QueueTypes DEF QueueInv
<1>1. /\ pc[a] = "unref" /\ pc' = [pc EXCEPT ![a] = "unref2"] /\ writer = Nobody /\ readers = {}
      /\ writer' = a /\ UNCHANGED <<qp, map, readers, qs>>
  BY Zenon DEF UnrefMap, Goto
<1>2. Roles'
  BY Zenon, <1>1, Actors DEF Roles, SubmitPC, WorkPC, CancelPC
<1>3. MapLocked' /\ QueueLocked'
  BY ZenonT(90), <1>1 DEF MapLocked, QueueLocked
<1>4. InUse' /\ QueueAlive'
  BY Zenon, <1>1 DEF InUse, QueueAlive, Working
<1>5. Refs' = Refs
  BY Zenon, <1>1, Actors DEF Refs, HasRef, Working, Roles, WorkPC
<1>6. RefExact'
  BY Zenon, <1>1, <1>5 DEF RefExact
<1> QED BY Zenon, <1>2, <1>3, <1>4, <1>6

\* The requests with a reference are finitely many.
LEMMA RefsFinite ==
    /\ IsFiniteSet(Refs) /\ Cardinality(Refs) \in Nat
    /\ Cardinality(Refs) = 0 <=> Refs = {}
    /\ \A r \in Refs : Cardinality(Refs \ {r}) = Cardinality(Refs) - 1
    /\ \A r \in Request \ Refs : Cardinality(Refs \cup {r}) = Cardinality(Refs) + 1
<1>1. IsFiniteSet(Refs)
  <2>1. Refs \subseteq Request
    BY Zenon DEF Refs
  <2> QED BY Zenon, <2>1, AioAssumption, FS_Subset
<1>2. Cardinality(Refs) \in Nat
  BY Zenon, <1>1, FS_CardinalityType
<1>3. Cardinality(Refs) = 0 <=> Refs = {}
  BY Zenon, <1>1, FS_EmptySet
<1>4. \A r \in Refs : Cardinality(Refs \ {r}) = Cardinality(Refs) - 1
  BY Zenon, <1>1, FS_RemoveElement
<1>5. \A r \in Request \ Refs : Cardinality(Refs \cup {r}) = Cardinality(Refs) + 1
  BY Zenon, <1>1, FS_AddElement
<1> QED BY Zenon, <1>1, <1>2, <1>3, <1>4, <1>5

\* Who gives up a reference is the caller or the thread of a request that has one, and
\* the request has no other.
LEMMA RefOwner ==
    ASSUME QueueInv, NEW a \in Actor, pc[a] \in {"relock", "unref", "unref2", "unlink"}
    PROVE  \E r \in Refs : /\ a \in {<<"submit", r>>, <<"io", r>>}
                           /\ \A u \in {<<"submit", r>>, <<"io", r>>} : u # a =>
                                pc[u] \in {"idle", "wait", "done"}
<1>1. CASE \E r \in Request : a = <<"submit", r>>
  BY Zenon, <1>1, Actors DEF QueueInv, Roles, SubmitPC, Refs, HasRef
<1>2. CASE \E r \in Request : a = <<"io", r>>
  BY Zenon, <1>2, Actors DEF QueueInv, Roles, WorkPC, Refs, HasRef, Working
<1>3. CASE \E c \in Canceller : a = <<"cancel", c>>
  BY Zenon, <1>3 DEF QueueInv, Roles, CancelPC
<1> QED BY <1>1, <1>2, <1>3, Actors, Zenon

\* The queue is freed only if the reference is still the last one.
LEMMA UnrefQueueStep ==
    ASSUME NEW a \in Actor, TypeOK, QueueInv, UnrefQueue(a)
    PROVE  QueueInv'
<1> USE QueueTypes DEF QueueInv
<1>1. /\ pc[a] = "unref2" /\ qp[a] = map /\ map \in Queue /\ qs[map] # None /\ writer = a
      /\ readers = {} /\ qs[map].lock = Nobody /\ qs[map].ref = Cardinality(Refs)
      /\ pc' = [pc EXCEPT ![a] = IF a \in Submitter THEN "failed" ELSE "done"]
      /\ writer' = Nobody /\ UNCHANGED <<qp, readers>>
  BY Actors, ZenonT(90) DEF UnrefQueue, CanLock, InUse, QueueAlive, Working, MapLocked, RefExact
<1>2. PICK r \in Refs : /\ a \in {<<"submit", r>>, <<"io", r>>}
                         /\ \A u \in {<<"submit", r>>, <<"io", r>>} : u # a =>
                                pc[u] \in {"idle", "wait", "done"}
  BY Zenon, <1>1, RefOwner
<1>3. Roles'
  BY SMTT(90), <1>1, <1>2, Actors DEF Roles, SubmitPC, WorkPC, CancelPC
<1>4. MapLocked'
  BY ZenonT(90), <1>1, Actors DEF MapLocked
<1>5. Refs' = Refs \ {r}
  BY SMTT(90), <1>1, <1>2, Actors DEF Refs, HasRef, Working, Roles, WorkPC
<1>6. CASE qs[map].ref = 1
  <2>1. Refs = {r}
    <3>1. Cardinality(Refs \ {r}) = 0 /\ IsFiniteSet(Refs \ {r})
      BY SMTT(90), <1>1, <1>6, RefsFinite, FS_RemoveElement
    <3> QED BY <3>1, FS_EmptySet, Zenon
  <2>2. ASSUME NEW u \in Actor, u # a PROVE ~Working(u)
    <3>1. pc[u] \notin {"lockq", "unref2", "have", "scan", "await"}
      BY Zenon, <1>1, <2>2, Actors DEF MapLocked, QueueLocked
    <3>2. ASSUME NEW p \in Request, u \in {<<"submit", p>>, <<"io", p>>}, Working(u) PROVE FALSE
      <4>1. p = r
        BY <2>1, <3>1, <3>2, Actors, ZenonT(90) DEF Refs, HasRef, Roles, SubmitPC, Working
      <4> QED BY Zenon, <1>2, <2>2, <3>2, <4>1 DEF Working
    <3>3. ASSUME NEW c \in Canceller, u = <<"cancel", c>>, Working(u) PROVE FALSE
      BY Zenon, <3>1, <3>3 DEF Roles, CancelPC, Working
    <3> QED BY Zenon, <3>2, <3>3, Actors
  <2>3. qs' = [qs EXCEPT ![map] = None] /\ map' = None
    BY Zenon, <1>1, <1>6 DEF UnrefQueue
  <2>4. \A u \in Actor : ~Working(u)'
    BY Zenon, <1>1, <2>2 DEF Working
  <2>5. \A q \in Queue : qs'[q] = None
    BY Zenon, <2>3 DEF QueueAlive
  <2>6. InUse' /\ QueueAlive' /\ RefExact'
    BY Zenon, <2>3, <2>4, <2>5 DEF InUse, QueueAlive, RefExact
  <2>7. QueueLocked'
    BY Zenon, <2>3, <2>4 DEF QueueLocked, Working
  <2> QED BY Zenon, <1>3, <1>4, <2>6, <2>7
<1>7. CASE qs[map].ref # 1
  <2>1. qs' = [qs EXCEPT ![map].ref = @ - 1] /\ map' = map
    BY Zenon, <1>1, <1>7 DEF UnrefQueue
  <2>2. /\ \A q \in Queue : q # map => qs'[q] = qs[q]
        /\ qs'[map].lock = qs[map].lock /\ qs'[map].ref = qs[map].ref - 1
    BY Zenon, <1>1, <2>1
  <2>3. qs'[map] # None
    <3>1. qs[map].ref - 1 \in Nat
      BY SMTT(90), <1>1, <1>2, RefsFinite
    <3> QED BY ZenonT(90), <1>1, <2>1, <3>1, NullAssumption
  <2>4. InUse' /\ QueueAlive'
    BY ZenonT(90), <1>1, <2>1, <2>2, <2>3 DEF InUse, QueueAlive, Working
  <2>5. QueueLocked'
    BY ZenonT(90), <1>1, <2>1, <2>2 DEF QueueLocked
  <2>6. RefExact'
    BY ZenonT(90), <1>1, <1>2, <1>5, <2>1, <2>2, RefsFinite DEF RefExact, QueueAlive
  <2> QED BY Zenon, <1>3, <1>4, <2>4, <2>5, <2>6
<1> QED BY Zenon, <1>6, <1>7

\* submit counts the request before it makes the thread.
LEMMA StartStep ==
    ASSUME NEW r \in Request, TypeOK, QueueInv, Start(r)
    PROVE  QueueInv'
<1> USE QueueTypes DEF QueueInv
<1> DEFINE a == <<"submit", r>>
           i == <<"io", r>>
<1>1. a \in Actor /\ i \in Actor /\ a # i
  BY Zenon, Actors
<1>2. /\ pc[a] = "have" /\ pc[i] = "idle" /\ qp[a] = map
      /\ UNCHANGED <<map, readers, writer>>
      /\ \/ /\ pc' = [pc EXCEPT ![a] = "wait", ![i] = "begin"]
            /\ qp' = [qp EXCEPT ![i] = map, ![a] = None]
         \/ pc' = [pc EXCEPT ![a] = "relock"] /\ UNCHANGED qp
  BY Zenon, <1>1 DEF Start, mapVars, InUse, Working, Roles
<1>3. /\ map \in Queue /\ qs[map] # None /\ qs[map].lock = a /\ qs[map].ref = Cardinality(Refs)
      /\ qs' = [qs EXCEPT ![map] = [lock |-> Nobody, ref |-> @.ref + 1, list |-> @.list]]
  BY Zenon, <1>1, <1>2 DEF Start, InUse, QueueAlive, Working, QueueLocked, RefExact
<1> HIDE DEF a, i
<1>4. Roles'
  <2>1. /\ pc'[a] \in {"wait", "relock"} /\ pc'[i] \in {"idle", "begin"}
        /\ pc'[a] = "wait" <=> pc'[i] = "begin"
        /\ \A u \in Actor : u # a /\ u # i => pc'[u] = pc[u]
    BY ZenonT(90), <1>1, <1>2
  <2>2. \A p \in Request : p # r =>
          <<"submit", p>> \notin {a, i} /\ <<"io", p>> \notin {a, i}
    BY Zenon, Actors DEF a, i
  <2>3. \A c \in Canceller : <<"cancel", c>> \notin {a, i}
    BY Zenon, Actors DEF a, i
  <2> QED BY SMTT(90), <2>1, <2>2, <2>3, Actors DEF Roles, SubmitPC, WorkPC, CancelPC, a, i
<1>5. MapLocked'
  BY ZenonT(90), <1>1, <1>2 DEF MapLocked
<1>6. r \notin Refs /\ Refs' = Refs \cup {r}
  BY SMTT(90), <1>1, <1>2, Actors DEF Refs, HasRef, Working, a, i
<1>7. /\ \A q \in Queue : q # map => qs'[q] = qs[q]
      /\ qs'[map] = [lock |-> Nobody, ref |-> qs[map].ref + 1, list |-> qs[map].list]
  BY Zenon, <1>3
<1>8. qs'[map].lock = Nobody /\ qs'[map].ref = qs[map].ref + 1 /\ qs'[map] # None
  <2>1. qs[map].ref + 1 \in Nat /\ qs[map].list \in Seq(Request)
    BY SMTT(90), <1>3, RefsFinite
  <2>2. qs'[map] \in [lock : Actor \cup {Nobody}, ref : Nat, list : Seq(Request)]
    BY SMTT(90), <1>7, <2>1
  <2> QED BY SMTT(90), <1>7, <2>2, NullAssumption
<1>9. QueueLocked'
  BY SMTT(90), <1>1, <1>2, <1>3, <1>8 DEF QueueLocked
<1>10. InUse' /\ QueueAlive'
  BY SMTT(90), <1>1, <1>2, <1>3, <1>7, <1>8 DEF InUse, QueueAlive, Working
<1>11. RefExact'
  BY ZenonT(90), <1>2, <1>3, <1>6, <1>7, <1>8, RefsFinite DEF RefExact, QueueAlive
<1> QED BY Zenon, <1>4, <1>5, <1>9, <1>10, <1>11

\* __aio_unref_queue up to the point where the lock is given up.
LEMMA GiveUp ==
    ASSUME TypeOK, QueueInv, NEW a \in Actor, pc[a] \in {"relock", "unlink"},
           NEW list \in Seq(Request), NEW out \in {"done", "failed"},
           qs[qp[a]].lock = Nobody, qs' = Unref(qp[a], list), Roles',
           pc' \in [Actor -> PC], pc'[a] = IF Last(qp[a]) THEN "unref" ELSE out,
           \A u \in Actor : u # a =>
              \/ pc'[u] = pc[u]
              \/ u \in Worker /\ pc[u] = "cwait" /\ pc'[u] = "relock",
           UNCHANGED <<qp, map, readers, writer>>
    PROVE  QueueInv'
<1> USE QueueTypes DEF QueueInv
<1>1. /\ qp[a] = map /\ map \in Queue /\ qs[map] # None
      /\ qs[map].lock = Nobody /\ qs[map].ref = Cardinality(Refs)
      /\ \A u \in Actor : pc'[u] = "cwait" => pc[u] = "cwait"
  BY Zenon DEF InUse, QueueAlive, Working, RefExact
<1>2. PICK r \in Refs : /\ a \in {<<"submit", r>>, <<"io", r>>}
                         /\ \A u \in {<<"submit", r>>, <<"io", r>>} : u # a =>
                                pc[u] \in {"idle", "wait", "done"}
  BY Zenon, RefOwner
<1>3. MapLocked'
  BY SMTT(90) DEF MapLocked
<1>4. /\ \A q \in Queue : q # map => qs'[q] = qs[q]
      /\ qs'[map] = [lock |-> Nobody, ref |-> IF Last(map) THEN qs[map].ref ELSE qs[map].ref - 1,
                     list |-> list]
  BY Zenon, <1>1 DEF Unref
<1>5. qs'[map].lock = Nobody /\ qs'[map] # None
  <2>1. qs[map].ref \in Nat /\ qs[map].ref - 1 \in Nat
    BY SMTT(90), <1>1, <1>2, RefsFinite
  <2>2. qs'[map] \in [lock : Actor \cup {Nobody}, ref : Nat, list : Seq(Request)]
    BY SMTT(90), <1>4, <2>1
  <2> QED BY SMTT(90), <1>4, <2>2, NullAssumption
<1>6. QueueLocked'
  BY ZenonT(90), <1>1, <1>5 DEF QueueLocked
<1>7. InUse' /\ QueueAlive'
  BY <1>1, <1>4, <1>5, ZenonT(90) DEF InUse, QueueAlive, Working
<1>8. Refs' = IF Last(map) THEN Refs ELSE Refs \ {r}
  <2>1. ASSUME NEW p \in Request, p # r PROVE p \in Refs' <=> p \in Refs
    <3>1. <<"submit", p>> # a /\ <<"io", p>> # a /\ <<"submit", p>> \notin Worker
      BY SMTT(90), <1>2, <2>1 DEF Worker
    <3>2. pc'[<<"submit", p>>] = pc[<<"submit", p>>]
      BY <3>1, Actors, Zenon
    <3>3. \/ pc'[<<"io", p>>] = pc[<<"io", p>>]
          \/ pc[<<"io", p>>] = "cwait" /\ pc'[<<"io", p>>] = "relock"
      BY <3>1, Actors, Zenon
    <3> QED BY Zenon, <3>2, <3>3 DEF Refs, HasRef, Working
  <2>2. r \in Refs' <=> Last(map)
    <3>1. r \in Request /\ pc'[a] = IF Last(map) THEN "unref" ELSE out
      BY Zenon, <1>1 DEF Refs
    <3>2. CASE a = <<"submit", r>>
      <4>1. pc'[<<"io", r>>] = pc[<<"io", r>>] /\ pc[<<"io", r>>] \in {"idle", "wait", "done"}
        BY Zenon, <1>2, <3>1, <3>2, Actors
      <4> QED BY Zenon, <3>1, <3>2, <4>1 DEF Refs, HasRef, Working
    <3>3. CASE a = <<"io", r>>
      <4>1. /\ pc'[<<"submit", r>>] = pc[<<"submit", r>>]
            /\ pc[<<"submit", r>>] \in {"idle", "wait", "done"}
        BY Zenon, <1>2, <3>1, <3>3, Actors
      <4> QED BY Zenon, <3>1, <3>3, <4>1 DEF Refs, HasRef, Working
    <3> QED BY Zenon, <1>2, <3>2, <3>3
  <2> QED BY Zenon, <2>1, <2>2 DEF Refs
<1>9. RefExact'
  <2>1. \A q \in Queue : qs'[q] # None => q = map
    BY Zenon, <1>4 DEF QueueAlive
  <2>2. qs'[map].ref = Cardinality(Refs')
    <3>1. CASE Last(map)
      BY SMTT(90), <1>1, <1>4, <1>8, <3>1
    <3>2. CASE ~Last(map)
      <4>1. Cardinality(Refs \ {r}) = Cardinality(Refs) - 1
        BY Zenon, RefsFinite
      <4> QED BY SMTT(90), <1>1, <1>4, <1>8, <3>2, <4>1
    <3> QED BY ZenonT(90), <3>1, <3>2
  <2> QED BY Zenon, <2>1, <2>2 DEF RefExact
<1> QED BY Zenon, <1>3, <1>6, <1>7, <1>9

\* submit gives the reference back when there is no thread.
LEMMA StartFailedStep ==
    ASSUME NEW r \in Request, TypeOK, QueueInv, StartFailed(r)
    PROVE  QueueInv'
<1> USE QueueTypes DEF QueueInv
<1> DEFINE a == <<"submit", r>>
<1>1. a \in Actor
  BY Actors, Zenon
<1>2. /\ pc[a] = "relock" /\ qs[qp[a]].lock = Nobody /\ qs' = Unref(qp[a], qs[qp[a]].list)
      /\ pc' = [pc EXCEPT ![a] = IF Last(qp[a]) THEN "unref" ELSE "failed"]
      /\ UNCHANGED <<qp, map, readers, writer>>
  BY Zenon DEF StartFailed, CanLock, mapVars
<1>3. qs[qp[a]].list \in Seq(Request)
  BY ZenonT(90), <1>1, <1>2 DEF InUse, QueueAlive, Working
<1>4. pc' \in [Actor -> PC]
  BY <1>2, Zenon DEF PC
<1>5. Roles'
  BY ZenonT(90), <1>1, <1>2, Actors DEF Roles, SubmitPC, WorkPC, CancelPC
<1> HIDE DEF a
<1> QED BY Zenon, <1>1, <1>2, <1>3, <1>4, <1>5, GiveUp

\* cleanup leaves the queue and gives up the reference of the request.
LEMMA UnlinkStep ==
    ASSUME NEW r \in Request, TypeOK, QueueInv, Unlink(r),
           Without(qs[qp[<<"io", r>>]].list, r) \in Seq(Request)
    PROVE  QueueInv'
<1> USE QueueTypes DEF QueueInv
<1> DEFINE i == <<"io", r>>
           woken == {u \in Worker : pc[u] = "cwait" /\ qp[u] = qp[i]}
<1>1. i \in Actor
  BY Actors, Zenon
<1>2. /\ pc[i] = "unlink" /\ qs[qp[i]].lock = Nobody
      /\ qs' = Unref(qp[i], Without(qs[qp[i]].list, r))
      /\ pc' = [[u \in Actor |-> IF u \in woken THEN "relock" ELSE pc[u]]
                EXCEPT ![i] = IF Last(qp[i]) THEN "unref" ELSE "done"]
      /\ UNCHANGED <<qp, map, readers, writer>>
  BY ZenonT(90) DEF Unlink, CanLock, mapVars
<1>3. /\ pc' \in [Actor -> PC] /\ pc'[i] = IF Last(qp[i]) THEN "unref" ELSE "done"
      /\ \A u \in Actor : u # i =>
            \/ pc'[u] = pc[u]
            \/ u \in Worker /\ pc[u] = "cwait" /\ pc'[u] = "relock"
  BY ZenonT(90), <1>1, <1>2 DEF PC
<1> HIDE DEF woken
<1>4. Roles'
  BY ZenonT(90), <1>1, <1>2, <1>3, Actors DEF Roles, SubmitPC, WorkPC, CancelPC, Worker
<1> HIDE DEF i
<1> QED BY <1>1, <1>2, <1>3, <1>4, GiveUp, Zenon DEF i

\* aio_cancel gives up the lock of the queue; it has no reference.
LEMMA ScanEndStep ==
    ASSUME NEW c \in Canceller, TypeOK, QueueInv, ScanEnd(c)
    PROVE  QueueInv'
<1> USE QueueTypes DEF QueueInv
<1> DEFINE a == <<"cancel", c>>
<1>1. a \in Actor
  BY Zenon, Actors
<1>2. /\ pc[a] = "scan" /\ pc' = [pc EXCEPT ![a] = "done"] /\ map \in Queue /\ qs[map] # None
      /\ qs[map].lock = a /\ qs' = [qs EXCEPT ![map].lock = Nobody]
      /\ qp' = [qp EXCEPT ![a] = None] /\ UNCHANGED <<map, readers, writer>>
  BY <1>1, Zenon DEF ScanEnd, Goto, LockBy, mapVars, InUse, QueueAlive, Working, QueueLocked
<1> HIDE DEF a
<1>3. Roles'
  BY Zenon, <1>1, <1>2, Actors DEF Roles, SubmitPC, WorkPC, CancelPC, a
<1>4. MapLocked'
  BY Zenon, <1>1, <1>2 DEF MapLocked
<1>5. /\ \A q \in Queue : q # map => qs'[q] = qs[q]
      /\ qs'[map].lock = Nobody /\ qs'[map].ref = qs[map].ref /\ qs'[map] # None
  BY Zenon, <1>2, NullAssumption
<1>6. QueueLocked'
  BY ZenonT(90), <1>1, <1>2, <1>5 DEF QueueLocked
<1>7. InUse' /\ QueueAlive'
  BY Zenon, <1>1, <1>2, <1>5 DEF InUse, QueueAlive, Working
<1>8. Refs' = Refs
  BY Zenon, <1>1, <1>2, Actors DEF Refs, HasRef, Working, a
<1>9. RefExact'
  BY Zenon, <1>2, <1>5, <1>8 DEF RefExact
<1> QED BY Zenon, <1>3, <1>4, <1>6, <1>7, <1>9

\* io_thread_func enters the queue, with the reference that submit counted.
LEMMA BeginStep ==
    ASSUME NEW r \in Request, TypeOK, QueueInv, Begin(r)
    PROVE  QueueInv'
<1> USE QueueTypes DEF QueueInv
<1> DEFINE i == <<"io", r>>
           list == <<r>> \o qs[qp[i]].list
<1>1. i \in Actor
  BY Actors, Zenon
<1>2. /\ pc[i] = "begin" /\ map \in Queue /\ qs[map] # None
      /\ qs' = [qs EXCEPT ![map].list = list]
      /\ pc' = [pc EXCEPT ![i] = IF MustWait(list, r) THEN "cwait" ELSE "io"]
      /\ UNCHANGED <<qp, map, readers, writer>>
  BY <1>1, Zenon DEF Begin, mapVars, InUse, QueueAlive, Working
<1>3. list \in Seq(Request)
  <2>1. qs[qp[i]].list \in Seq(Request)
    BY <1>1, <1>2, Zenon DEF InUse, QueueAlive, Working
  <2> QED BY SMTT(90), <2>1
<1> HIDE DEF list, i
<1>4. Roles'
  BY ZenonT(90), <1>1, <1>2, Actors DEF Roles, SubmitPC, WorkPC, CancelPC, i
<1>5. Refs' = Refs
  BY <1>1, <1>2, Actors, Zenon DEF Refs, HasRef, Working, i
<1>6. SameQueues
  <2>1. qs[map].ref \in Nat
    BY Zenon, <1>2, RefsFinite
  <2>2. qs'[map] \in [lock : Actor \cup {Nobody}, ref : Nat, list : Seq(Request)]
    BY Zenon, <1>2, <1>3, <2>1
  <2> QED BY Zenon, <1>2, <2>2, NullAssumption DEF SameQueues
<1>7. pc' \in [Actor -> PC] /\ \A u \in Actor : pc'[u] = pc[u] \/ Alike(pc[u], pc'[u])
  BY Zenon, <1>1, <1>2 DEF PC, Alike, Outside
<1> QED BY Zenon, <1>2, <1>4, <1>5, <1>6, <1>7, QuietStep

\* The steps of one actor that touch neither the locks nor the references.
LEMMA QuietMove ==
    ASSUME TypeOK, QueueInv, NEW a \in Actor, NEW p \in PC, pc' = [pc EXCEPT ![a] = p],
           Roles', Alike(pc[a], p), UNCHANGED <<qp, map, readers, writer, qs>>,
           pc[a] \in {"relock", "unref"} \/ p \in {"relock", "unref"} => a \notin Submitter
    PROVE  QueueInv'
<1> USE QueueTypes
<1>1. SameQueues /\ pc' \in [Actor -> PC]
      /\ \A u \in Actor : pc'[u] = pc[u] \/ Alike(pc[u], pc'[u])
  BY Zenon DEF SameQueues
<1>2. Refs' = Refs
  BY ZenonT(90), Actors DEF Refs, HasRef, Working, Alike, Outside
<1> QED BY Zenon, <1>1, <1>2, QuietStep

\* submit is called, and returns.
LEMMA SubmitQuiet ==
    ASSUME NEW r \in Request, TypeOK, QueueInv, CallSubmit(r) \/ NoQueue(r) \/ Submitted(r)
    PROVE  QueueInv'
<1> DEFINE a == <<"submit", r>>
<1>1. a \in Actor
  BY Actors, Zenon
<1>2. PICK p \in PC : /\ pc' = [pc EXCEPT ![a] = p]
                      /\ \/ pc[a] = "idle" /\ p = "get"
                         \/ pc[a] = "make" /\ p = "failed"
                         \/ pc[a] = "wait" /\ p = "done"
                      /\ UNCHANGED <<qp, map, readers, writer, qs>>
  BY Zenon DEF CallSubmit, NoQueue, Submitted, Goto, mapVars, PC
<1>3. Roles'
  BY ZenonT(90), <1>1, <1>2, Actors, QueueTypes DEF QueueInv, Roles, SubmitPC, WorkPC, CancelPC
<1>4. Alike(pc[a], p) /\ pc[a] \notin {"relock", "unref"} /\ p \notin {"relock", "unref"}
  BY Zenon, <1>2 DEF Alike, Outside
<1> HIDE DEF a
<1> QED BY <1>1, <1>2, <1>3, <1>4, QuietMove, Zenon

\* The thread of a request between its entry into the queue and its exit.
LEMMA WorkerQuiet ==
    ASSUME NEW r \in Request, TypeOK, QueueInv,
           \/ Recheck(r) \/ CancelWait(r) \/ Operate(r) \/ StopRunning(r) \/ Publish(r)
           \/ WakeLists(r)
    PROVE  QueueInv'
<1> DEFINE i == <<"io", r>>
           Inside == {"cwait", "relock", "io", "running", "err", "fut", "unlink", "stuck"}
<1>1. i \in Actor /\ i \notin Submitter
  BY Actors, Zenon
<1>2. PICK p \in PC : /\ pc' = [pc EXCEPT ![i] = p] /\ pc[i] \in Inside /\ p \in Inside
                      /\ UNCHANGED <<qp, map, readers, writer, qs>>
  <2>1. CASE Recheck(r)
    BY <2>1, ZenonT(90) DEF Recheck, mapVars, PC
  <2>2. CASE CancelWait(r) \/ Operate(r) \/ StopRunning(r) \/ Publish(r) \/ WakeLists(r)
    BY Zenon, <2>2 DEF CancelWait, Operate, StopRunning, Publish, WakeLists, Goto, mapVars, PC
  <2> QED BY Zenon, <2>1, <2>2
<1>3. Roles'
  BY ZenonT(90), <1>1, <1>2, Actors, QueueTypes DEF QueueInv, Roles, SubmitPC, WorkPC, CancelPC
<1>4. Alike(pc[i], p)
  BY Zenon, <1>2 DEF Alike, Outside
<1> HIDE DEF i
<1> QED BY <1>1, <1>2, <1>3, <1>4, QuietMove, Zenon

\* aio_cancel is called, and goes through the list with the lock held.
LEMMA CancelQuiet ==
    ASSUME NEW c \in Canceller, TypeOK, QueueInv,
           \/ \E r \in Request \cup {None} : CallCancel(c, r)
           \/ ScanFrom(c) \/ Scan(c) \/ Await(c)
    PROVE  QueueInv'
<1> DEFINE a == <<"cancel", c>>
           Inside == {"have", "scan", "await"}
<1>1. a \in Actor /\ a \notin Submitter
  BY Zenon, Actors
<1>2. PICK p \in PC : /\ pc' = [pc EXCEPT ![a] = p]
                      /\ \/ pc[a] \in Inside /\ p \in {"scan", "await"}
                         \/ pc[a] = "idle" /\ p = "get"
                      /\ UNCHANGED <<qp, map, readers, writer, qs>>
  <2>1. CASE Scan(c)
    <3>1. pc' = [pc EXCEPT ![a] = "await"] \/ pc' = [pc EXCEPT ![a] = "scan"]
      BY ZenonT(90), <1>1, <2>1, QueueTypes DEF Scan
    <3> QED BY ZenonT(90), <2>1, <3>1 DEF Scan, mapVars, PC
  <2>2. CASE ~Scan(c)
    BY ZenonT(90), <2>2 DEF CallCancel, ScanFrom, Await, Goto, mapVars, PC
  <2> QED BY ZenonT(90), <2>1, <2>2
<1>3. Roles'
  BY ZenonT(90), <1>1, <1>2, Actors, QueueTypes DEF QueueInv, Roles, SubmitPC, WorkPC, CancelPC
<1>4. Alike(pc[a], p)
  BY Zenon, <1>2 DEF Alike, Outside
<1> HIDE DEF a
<1> QED BY <1>1, <1>2, <1>3, <1>4, QuietMove, Zenon

\* __aio_get_queue and __aio_unref_queue, whoever calls them.
LEMMA QueueSteps ==
    ASSUME NEW a \in Actor, TypeOK, QueueInv, QueueStep(a)
    PROVE  QueueInv'
BY ZenonT(90), FindStep, MakeStep, LockStep, UnrefMapStep, UnrefQueueStep DEF QueueStep

\* A step that changes nothing of the queue.
LEMMA SameState ==
    ASSUME TypeOK, QueueInv, UNCHANGED <<pc, qp, map, readers, writer, qs>>
    PROVE  QueueInv'
<1>1. Refs' = Refs
  BY Zenon DEF Refs, HasRef, Working
<1> QED
  BY ZenonT(90), <1>1
  DEF QueueInv, Roles, MapLocked, QueueLocked, InUse, QueueAlive, RefExact, Working

\* The reference count of a queue is a natural number because it counts requests.
LEMMA TypesTogether ==
    ASSUME QueuesType, OwnTypes, SharedTypes, RefExact
    PROVE  TypeOK
<1>1. ASSUME NEW q \in Queue, qs[q] # None
      PROVE  qs[q] \in [lock : Actor \cup {Nobody}, ref : Nat, list : Seq(Request)]
  <2>1. qs[q].ref \in Nat
    BY Zenon, <1>1, RefsFinite DEF RefExact
  <2> QED BY Zenon, <1>1, <2>1 DEF QueuesType
<1>2. qs \in [Queue -> {None} \cup [lock : Actor \cup {Nobody}, ref : Nat, list : Seq(Request)]]
  BY Zenon, <1>1 DEF QueuesType
<1> QED BY Zenon, <1>2 DEF TypeOK, OwnTypes, SharedTypes

-----------------------------------------------------------------------------

\* A step keeps the invariants of the queue and of its list.
LEMMA QueueAndList ==
    ASSUME TypeOK, QueueInv, ListInv, Next, UNCHANGED setup
    PROVE  QueueInv' /\ ListInv'
<1> USE Actors
<1>1. ASSUME NEW a \in Actor, QueueStep(a) PROVE QueueInv' /\ ListInv'
  <2>1. QueueInv'
    BY Zenon, <1>1, QueueSteps
  <2> QED BY Zenon, <1>1, <2>1, ListOfQueueStep DEF QueueInv
<1>2. ASSUME NEW r \in Request, CallSubmit(r) \/ SubmitStep(r) PROVE QueueInv' /\ ListInv'
  <2>1. CASE CallSubmit(r) \/ NoQueue(r) \/ Start(r) \/ StartFailed(r) \/ Submitted(r)
    <3>1. QueueInv'
      BY Zenon, <2>1, SubmitQuiet, StartStep, StartFailedStep
    <3> QED BY Zenon, <2>1, <3>1, ListOfSubmit DEF QueueInv
  <2> QED BY <1>1, <1>2, <2>1, Zenon DEF SubmitStep
<1>3. ASSUME NEW r \in Request, WorkerStep(r) PROVE QueueInv' /\ ListInv'
  <2>1. CASE Begin(r)
    BY Zenon, <2>1, BeginStep, BeginList
  <2>2. CASE Unlink(r)
    BY <2>2, UnlinkStep, UnlinkList, Zenon
  <2>3. CASE \/ Recheck(r) \/ CancelWait(r) \/ Operate(r) \/ StopRunning(r) \/ Publish(r)
             \/ WakeLists(r)
    <3>1. QueueInv'
      BY Zenon, <2>3, WorkerQuiet
    <3> QED BY Zenon, <2>3, <3>1, ListOfWorker DEF QueueInv
  <2> QED BY <1>1, <1>3, <2>1, <2>2, <2>3, Zenon DEF WorkerStep
<1>4. ASSUME NEW c \in Canceller,
             (\E r \in Request \cup {None} : CallCancel(c, r)) \/ CancelStep(c)
      PROVE  QueueInv' /\ ListInv'
  <2>1. CASE \/ \E r \in Request \cup {None} : CallCancel(c, r)
             \/ ScanFrom(c) \/ Scan(c) \/ Await(c) \/ ScanEnd(c)
    <3>1. QueueInv'
      BY ZenonT(90), <2>1, CancelQuiet, ScanEndStep
    <3> QED BY Zenon, <2>1, <3>1, ListOfCancel DEF QueueInv
  <2> QED BY Zenon, <1>1, <1>4, <2>1 DEF CancelStep
<1>5. ASSUME NEW s \in Waiter, WaitStep(s) \/ \E R \in SUBSET Request : CallSuspend(s, R)
      PROVE  QueueInv' /\ ListInv'
  <2>1. UNCHANGED <<pc, qp, map, readers, writer, qs, posted, before>>
    BY Zenon, <1>5, WaitersApart
  <2>2. QueueInv'
    BY Zenon, <2>1, SameState
  <2> QED BY Zenon, <2>1, <2>2, ListQuiet DEF QueueInv, ListInv, PostedExact
<1> QED BY Zenon, <1>2, <1>3, <1>4, <1>5 DEF Next, Calls

\* Initially nobody has called anything.
LEMMA InitIInv ==
    ASSUME Init
    PROVE  IInv
<1> USE DEF Init
<1>1. \A a \in Actor : pc[a] = "idle" /\ ~Working(a)
  BY Zenon DEF Working
<1>2. Refs = {}
  BY Zenon, <1>1, Actors DEF Refs, HasRef
<1>3. RefExact
  BY Zenon DEF RefExact
<1>4. QueuesType /\ OwnTypes
  BY Zenon DEF QueuesType, OwnTypes, PC
<1>5. SharedTypes
  BY SMTT(90) DEF SharedTypes
<1>6. TypeOK
  BY ZenonT(90), <1>3, <1>4, <1>5, TypesTogether
<1>7. QueueInv
  BY ZenonT(90), <1>1, <1>3, Actors
  DEF QueueInv, Roles, SubmitPC, WorkPC, CancelPC, MapLocked, QueueLocked,
                            InUse, QueueAlive
<1>8. ListInv
  BY <1>1, Actors, Zenon DEF ListInv, ListExact, PostedExact, InOrder, MayOperate
<1>9. CancelInv
  <2>1. StateFollows
    BY Zenon, <1>1, Actors DEF StateFollows, Follows
  <2>2. ToldByOne
    BY SMTT(90) DEF ToldByOne
  <2>3. ASSUME NEW c \in Canceller PROVE CancelOwn(c)
    <3>1. /\ pc[<<"cancel", c>>] = "idle" /\ todo[c] = <<>> /\ DOMAIN todo[c] = {}
          /\ answer[c] = "none"
      BY SMTT(90), <1>1, Actors
    <3> QED BY Zenon, <3>1 DEF CancelOwn, CancelWaits, CancelScans, CancelSure, CancelEnds
  <2> QED BY Zenon, <2>1, <2>2, <2>3 DEF CancelInv
<1>10. Watches /\ Sleepers
  BY Zenon DEF Watches, Sleepers, Sleeper
<1> QED BY Zenon, <1>6, <1>7, <1>8, <1>9, <1>10 DEF IInv

\* Every step keeps the invariant.
LEMMA StepIInv ==
    ASSUME IInv, [Next /\ UNCHANGED setup]_<<vars, setup>>
    PROVE  IInv'
<1> USE DEF IInv
<1>1. CASE Next /\ UNCHANGED setup
  <2> USE <1>1
  <2>1. QueueInv' /\ ListInv'
    BY Zenon, QueueAndList
  <2>2. CancelInv'
    BY Zenon, CancelInvStep
  <2>3. QueuesType' /\ OwnTypes' /\ SharedTypes'
    BY Zenon, TypeOfQueues, TypeOfOwn, TypeOfShared DEF CancelInv, CancelOwn
  <2>4. TypeOK'
    BY <2>1, <2>3, TypesTogether, PTL DEF QueueInv
  <2>5. Watches'
    BY Zenon, WatchesStep
  <2>6. Sleepers'
    BY Zenon, NothingHappens, SleepersOfPublish, SleepersOfWakeLists, SleepersOfWaiter
  <2> QED BY Zenon, <2>1, <2>2, <2>4, <2>5, <2>6
<1>2. CASE UNCHANGED <<vars, setup>>
  <2>1. UNCHANGED <<pc, qp, map, readers, writer, qs, running, result, err, told, posted, todo,
                    target, answer, fut, wpc, watch, expect, late, before, setup>>
    BY ZenonT(90), <1>2 DEF vars
  <2>2. TypeOK'
    BY Zenon, <2>1 DEF TypeOK
  <2>3. QueueInv'
    BY Zenon, <2>1, SameState
  <2>4. ListInv'
    <3>1. ListExact'
      BY <2>1, ZenonT(90) DEF ListInv, ListExact
    <3>2. PostedExact'
      BY <2>1, Zenon DEF ListInv, PostedExact
    <3>3. InOrder'
      BY <2>1, Zenon DEF ListInv, InOrder
    <3>4. MayOperate'
      BY SMTT(90), <2>1 DEF ListInv, MayOperate, MustWait, Ordered, Op, Appending, Older
    <3> QED BY Zenon, <3>1, <3>2, <3>3, <3>4 DEF ListInv
  <2>5. StateFollows' /\ ToldByOne'
    BY <2>1, Zenon DEF CancelInv, StateFollows, Follows, Busy, ToldByOne
  <2>6. ASSUME NEW c \in Canceller PROVE CancelOwn(c)'
    <3>1. \A r \in Request : Onward(r)
      BY ZenonT(90), <2>1 DEF Onward, ListInv, PostedExact
    <3> QED BY Zenon, <2>1, <3>1, Undisturbed DEF CancelInv
  <2>7. Watches' /\ Sleepers'
    BY ZenonT(90), <2>1 DEF Watches, Sleepers, Sleeper, OneWatched, Busy
  <2> QED BY ZenonT(90), <2>2, <2>3, <2>4, <2>5, <2>6, <2>7 DEF CancelInv
<1> QED BY Zenon, <1>1, <1>2

\* The invariant holds in every reachable state.
THEOREM Invariance == Spec => []IInv
<1>1. Init => IInv
  BY Zenon, InitIInv
<1>2. IInv /\ [Next /\ UNCHANGED setup]_<<vars, setup>> => IInv'
  BY Zenon, StepIInv
<1> QED BY <1>1, <1>2, PTL DEF Spec

\* A queue is there as long as somebody uses it: it is not freed while a thread holds its
\* lock, waits for it or is in its list, and its reference count (aio.c:57-126) is the
\* number of requests that have not given up their reference.
THEOREM QueueIsSound == Spec => []QueueSound
<1>1. IInv => QueueSound
  BY Zenon DEF IInv, QueueInv, QueueSound
<1> QED BY <1>1, Invariance, PTL

\* Writes of an appending descriptor and syncs begin in order (aio.c:210-216); when
\* aio_cancel has returned, none of the requests it was asked to cancel is at work, and what it
\* says of a request is so (343-353); a caller of aio_suspend sleeps only while its requests
\* are in progress or about to wake it, or it has missed its wakeup in the one way there is:
\* an other caller took the common word, which a request cleared, once more before the first
\* slept (aio_suspend.c:53-64, late).
THEOREM RequestsAreOrdered == Spec => []RequestsOrdered
<1>1. ASSUME IInv PROVE RequestsOrdered
  <2>1. WritesInOrder
    BY Zenon, <1>1, EarlierWritesEnded
  <2>2. CancelQuiesces
    BY Zenon, <1>1 DEF IInv, CancelInv, CancelOwn, CancelEnds, CancelQuiesces, AtWork
  <2>3. CancelHonest
    <3> SUFFICES ASSUME NEW c \in Canceller, answer[c] = "canceled", target[c] # None
                 PROVE  /\ result[target[c]] = "canceled"
                        /\ err[target[c]] \in {"busy", "watched", "canceled"}
      BY Zenon DEF CancelHonest
    <3>1. /\ target[c] \in Request /\ posted[target[c]] /\ running[target[c]] = 0
          /\ result[target[c]] = "canceled"
      BY Zenon, <1>1 DEF IInv, TypeOK, CancelInv, CancelOwn, CancelSure
    <3>2. pc[<<"io", target[c]>>] \in {"err", "fut", "unlink", "unref", "unref2", "done"}
      BY <1>1, <3>1, Zenon
      DEF IInv, ListInv, PostedExact, CancelInv, StateFollows, Follows, QueueInv, Roles, WorkPC
    <3> QED BY Zenon, <1>1, <3>1, <3>2 DEF IInv, CancelInv, StateFollows, Follows, Busy
  <2>4. SleepersWoken
    BY Zenon, <1>1 DEF IInv, Sleepers, Sleeper, SleepersWoken, Busy
  <2> QED BY Zenon, <2>1, <2>2, <2>3, <2>4 DEF RequestsOrdered
<1>2. IInv => RequestsOrdered
  BY Zenon, <1>1
<1> QED BY <1>2, Invariance, PTL
=============================================================================
