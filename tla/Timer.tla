--------------------------------- MODULE Timer ---------------------------------
(***************************************************************************)
(* A SIGEV_THREAD timer (src/time/timer_create.c, timer_delete.c): the call *)
(* that creates it, its thread, the timer of the kernel and timer_delete.   *)
(*                                                                         *)
(* The thread takes its arguments from the stack of the caller, waits for   *)
(* signals in sigwaitinfo and calls the function of the application.  Only  *)
(* the thread deletes the kernel's timer: timer_delete sets the sign bit of *)
(* the timer's number and sends the signal.                                *)
(***************************************************************************)
EXTENDS Naturals

CONSTANT MaxExpiry   \* bound on the expiries of the timer

VARIABLES
    create,    \* the call of timer_create
    thread,    \* the thread of the timer
    args,      \* struct start_args
    ktimer,    \* the kernel's timer: "none", "armed" or "deleted"
    td,        \* the thread descriptor: the cancel flag and the sign of timer_id
    pending,   \* SIGTIMER pending for the thread: its si_codes
    delete,    \* the call of timer_delete
    expiries

vars == <<create, thread, args, ktimer, td, pending, delete, expiries>>

TypeOK ==
    /\ create \in {"idle", "start", "timer", "publish", "wait", "ok", "failed"}
    /\ thread \in {"none", "args", "complete", "begin", "wait", "notify", "check", "end", "gone"}
    /\ args \in [ready : BOOLEAN, complete : BOOLEAN]
    /\ ktimer \in {"none", "armed", "deleted"}
    /\ td \in [cancel : BOOLEAN, negative : BOOLEAN]
    /\ pending \subseteq {"SI_TIMER", "SI_TKILL"}
    /\ delete \in {"idle", "kill", "done", "fault"} /\ expiries \in 0..MaxExpiry

Init ==
    /\ create = "idle" /\ thread = "none" /\ ktimer = "none"
    /\ args = [ready |-> FALSE, complete |-> FALSE]
    /\ td = [cancel |-> FALSE, negative |-> FALSE]
    /\ pending = {} /\ delete = "idle" /\ expiries = 0

-----------------------------------------------------------------------------
(***************************************************************************)
(* timer_create.                                                           *)
(***************************************************************************)

\* pthread_create of a detached thread that has SIGTIMER blocked.
CreateThread ==
    /\ create = "idle"
    /\ \/ create' = "timer" /\ thread' = "args"
       \/ create' = "failed" /\ UNCHANGED thread
    /\ UNCHANGED <<args, ktimer, td, pending, delete, expiries>>

\* The kernel's timer, directed to the thread; if there is none the thread is told to end.
CreateTimer ==
    /\ create = "timer" /\ create' = "publish"
    /\ \/ ktimer' = "armed" /\ UNCHANGED td
       \/ td' = [cancel |-> TRUE, negative |-> TRUE] /\ UNCHANGED ktimer
    /\ UNCHANGED <<thread, args, pending, delete, expiries>>

Publish ==
    /\ create = "publish" /\ create' = "wait" /\ args' = [args EXCEPT !.ready = TRUE]
    /\ UNCHANGED <<thread, ktimer, td, pending, delete, expiries>>

Return ==
    /\ create = "wait" /\ args.complete
    /\ create' = IF ktimer = "none" THEN "failed" ELSE "ok"
    /\ UNCHANGED <<thread, args, ktimer, td, pending, delete, expiries>>

-----------------------------------------------------------------------------
(***************************************************************************)
(* start, the thread.                                                      *)
(***************************************************************************)

ReadArgs ==
    /\ thread = "args" /\ args.ready /\ thread' = "complete"
    /\ UNCHANGED <<create, args, ktimer, td, pending, delete, expiries>>

Complete ==
    /\ thread = "complete" /\ thread' = "begin" /\ args' = [args EXCEPT !.complete = TRUE]
    /\ UNCHANGED <<create, ktimer, td, pending, delete, expiries>>

Begin ==
    /\ thread = "begin" /\ thread' = IF td.cancel THEN "gone" ELSE "wait"
    /\ UNCHANGED <<create, args, ktimer, td, pending, delete, expiries>>

\* sigwaitinfo; only an expiry is a notification.
TakeSignal ==
    /\ thread = "wait"
    /\ \E s \in pending : pending' = pending \ {s} /\ thread' = IF s = "SI_TIMER" THEN "notify" ELSE "check"
    /\ UNCHANGED <<create, args, ktimer, td, delete, expiries>>

\* The function returns, or ends by pthread_exit: cleanup_fromsig goes back to the loop.
Notified ==
    /\ thread = "notify" /\ thread' = "check"
    /\ UNCHANGED <<create, args, ktimer, td, pending, delete, expiries>>

CheckDeleted ==
    /\ thread = "check" /\ thread' = IF td.negative THEN "end" ELSE "wait"
    /\ UNCHANGED <<create, args, ktimer, td, pending, delete, expiries>>

DeleteTimer ==
    /\ thread = "end" /\ thread' = "gone" /\ ktimer' = "deleted"
    /\ UNCHANGED <<create, args, td, pending, delete, expiries>>

-----------------------------------------------------------------------------
(***************************************************************************)
(* timer_delete and the kernel.                                            *)
(***************************************************************************)

Mark ==
    /\ create = "ok" /\ delete = "idle" /\ delete' = "kill" /\ td' = [td EXCEPT !.negative = TRUE]
    /\ UNCHANGED <<create, thread, args, ktimer, pending, expiries>>

\* tkill(td->tid).  A thread that took an expiry after the mark may be gone, and td with it:
\* the read faults, or finds what another mapping has there, a number that is not this thread's.
Kill ==
    /\ delete = "kill"
    /\ IF thread = "gone" THEN delete' \in {"done", "fault"} /\ UNCHANGED pending
       ELSE delete' = "done" /\ pending' = pending \cup {"SI_TKILL"}
    /\ UNCHANGED <<create, thread, args, ktimer, td, expiries>>

Expire ==
    /\ ktimer = "armed" /\ expiries < MaxExpiry /\ expiries' = expiries + 1
    /\ pending' = pending \cup {"SI_TIMER"}
    /\ UNCHANGED <<create, thread, args, ktimer, td, delete>>

-----------------------------------------------------------------------------

CallerStep == CreateThread \/ CreateTimer \/ Publish \/ Return

ThreadStep ==
    ReadArgs \/ Complete \/ Begin \/ TakeSignal \/ Notified \/ CheckDeleted \/ DeleteTimer

Next == CallerStep \/ ThreadStep \/ Mark \/ Kill \/ Expire

Spec == Init /\ [][Next]_vars

-----------------------------------------------------------------------------
(***************************************************************************)
(* Properties.                                                             *)
(***************************************************************************)

\* The arguments, which are on the stack of the caller, are not used after it has returned.
ArgsInScope == create \in {"ok", "failed"} => thread \notin {"args", "complete"}

\* The descriptor is there when timer_delete marks it: before, no signal ends the thread.  It is
\* gone when timer_delete reads td->tid only if the timer expired meanwhile; that read is not
\* guarded by the code (timer_delete.c:9-10).
DescriptorInScope ==
    /\ create = "ok" /\ delete = "idle" => thread # "gone"
    /\ delete = "fault" => expiries > 0

\* The timer of the kernel exists exactly as long as the thread that takes its signals:
\* no timer is left without a thread, and no thread ends without deleting it.
TimerHasThread ==
    /\ thread = "gone" => ktimer # "armed"
    /\ ktimer = "armed" => thread # "none"

\* A call that failed notifies nobody, and the thread it made ends.
FailureIsSilent == create = "failed" => thread \in {"none", "begin", "gone"} /\ ktimer = "none"

\* timer_delete has marked the thread, and its effect.
Deleting == td.negative /\ create = "ok"
Deleted == ktimer = "deleted" /\ thread = "gone"

\* timer_create has to return, and if it failed its thread ends.
Creating == create = "timer"
Created == create = "ok" \/ (create = "failed" /\ thread = "gone")
=============================================================================
