---------------------------- MODULE AbstractLock ----------------------------
(***************************************************************************)
(* What every lock of the library promises its callers: the lock has at    *)
(* most one owner, only a free lock is acquired and only the owner         *)
(* releases it.  The detailed lock modules are shown to implement this     *)
(* specification.                                                          *)
(***************************************************************************)
CONSTANTS Thread, NoThread

VARIABLE owner

TypeOK == owner \in Thread \cup {NoThread}

Init == owner = NoThread

Acquire(t) == owner = NoThread /\ owner' = t

Release(t) == owner = t /\ owner' = NoThread

Next == \E t \in Thread : Acquire(t) \/ Release(t)

Spec == Init /\ [][Next]_owner
=============================================================================
