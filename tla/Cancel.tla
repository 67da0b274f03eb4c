-------------------------------- MODULE Cancel --------------------------------
(***************************************************************************)
(* Cancellation of a thread (src/thread/pthread_cancel.c, the assembly of  *)
(* __syscall_cp_asm, pthread_setcancelstate.c, pthread_setcanceltype.c).   *)
(*                                                                         *)
(* The thread is a stack of frames: its own code and the signal handlers   *)
(* of the program that interrupt it.  A frame is at ordinary code, or in   *)
(* a system call that is a cancellation point: before its check of the     *)
(* flag, at the system call instruction, or just behind it with a result.  *)
(* Each frame has its own signal mask.                                     *)
(***************************************************************************)
EXTENDS Integers, Sequences

CONSTANTS MaxSignals   \* bound on the signals of the program that arrive

VARIABLES
    frames,    \* the innermost frame is the last
    cancel,    \* self->cancel
    pending,   \* SIGCANCEL is pending
    disable,   \* self->canceldisable: ENABLE, DISABLE or MASKED
    async,     \* self->cancelasync
    signals,   \* how many signals of the program have arrived
    sent,      \* the canceler is between storing the flag and sending the signal
    outcome    \* "runs", "canceled": ECANCELED was returned, "exited": pthread_exit

vars == <<frames, cancel, pending, disable, async, signals, sent, outcome>>

\* close is a cancellation point that reports no EINTR.
Frame == [at : {"code", "check", "syscall", "behind", "plain"},
          nr : {"close", "other"}, masked : BOOLEAN]
Code == [at |-> "code", nr |-> "other", masked |-> FALSE]

TypeOK ==
    /\ frames \in Seq(Frame) /\ Len(frames) \in 1..(signals + 1)
    /\ cancel \in BOOLEAN /\ pending \in BOOLEAN
    /\ disable \in {"ENABLE", "DISABLE", "MASKED"} /\ async \in BOOLEAN
    /\ signals \in 0..MaxSignals
    /\ sent \in {"no", "stored", "sent"}
    /\ outcome \in {"runs", "canceled", "exited"}

Init ==
    /\ frames = <<Code>>
    /\ cancel = FALSE /\ pending = FALSE
    /\ disable = "ENABLE" /\ async = FALSE
    /\ signals = 0 /\ sent = "no" /\ outcome = "runs"

Top == frames[Len(frames)]
Nested == Len(frames) > 1

\* The innermost frame is at one place and goes on at another.
Goto(from, to) ==
    /\ outcome # "exited"
    /\ Top.at = from
    /\ frames' = [frames EXCEPT ![Len(frames)].at = to]

-----------------------------------------------------------------------------
(***************************************************************************)
(* The thread.                                                             *)
(***************************************************************************)

\* __cancel: the thread exits, or the call returns ECANCELED and cancellation is
\* disabled.  The mask is the one the frame goes on with.
Cancelled(mask) ==
    IF disable = "ENABLE" \/ async
    THEN outcome' = "exited" /\ UNCHANGED <<frames, disable>>
    ELSE /\ outcome' = "canceled" /\ disable' = "DISABLE"
         /\ frames' = [frames EXCEPT ![Len(frames)].at = "code",
                                    ![Len(frames)].masked = mask]

\* __syscall_cp_c: with cancellation disabled it is a plain system call.
Enter(nr) ==
    /\ outcome # "exited" /\ Top.at = "code"
    /\ frames' = [frames EXCEPT ![Len(frames)].at =
                    IF disable = "DISABLE" \/ (disable = "MASKED" /\ nr = "close")
                    THEN "plain" ELSE "check",
                  ![Len(frames)].nr = nr]
    /\ UNCHANGED <<cancel, pending, disable, async, signals, sent, outcome>>

\* Mutant: the flag is not tested at the beginning.
CheckNothing ==
    /\ Goto("check", "syscall")
    /\ UNCHANGED <<cancel, pending, disable, async, signals, sent, outcome>>

\* __cp_begin: the flag is tested.
Check ==
    /\ \/ ~cancel /\ Goto("check", "syscall") /\ UNCHANGED <<disable, outcome>>
       \/ cancel /\ outcome # "exited" /\ Top.at = "check" /\ Cancelled(Top.masked)
    /\ UNCHANGED <<cancel, pending, async, signals, sent>>

\* The call may block; when it has completed its effect has happened.
Complete ==
    /\ Goto("syscall", "behind") \/ Goto("plain", "behind")
    /\ UNCHANGED <<cancel, pending, disable, async, signals, sent, outcome>>

\* It returns EINTR, without effect, after a signal handler of the program.
Interrupted ==
    /\ outcome # "exited" /\ Top.at = "syscall"
    /\ \/ /\ cancel /\ Top.nr # "close" /\ disable # "DISABLE"
          /\ Cancelled(Top.masked)
       \/ /\ ~(cancel /\ Top.nr # "close" /\ disable # "DISABLE")
          /\ Goto("syscall", "code") /\ UNCHANGED <<disable, outcome>>
    /\ UNCHANGED <<cancel, pending, async, signals, sent>>

Return ==
    /\ Goto("behind", "code")
    /\ UNCHANGED <<cancel, pending, disable, async, signals, sent, outcome>>

\* pthread_setcancelstate is not called in signal handlers: it is not safe there.
SetState(new) ==
    /\ ~Nested /\ Goto("code", "code")
    /\ disable' = new
    /\ UNCHANGED <<cancel, pending, async, signals, sent, outcome>>

\* pthread_setcanceltype; changing to asynchronous tests for cancellation.
SetType(new) ==
    /\ ~Nested /\ outcome # "exited" /\ Top.at = "code"
    /\ async' = new
    /\ outcome' = IF new /\ cancel /\ disable = "ENABLE" THEN "exited" ELSE outcome
    /\ UNCHANGED <<frames, cancel, pending, disable, signals, sent>>

TestCancel ==
    /\ outcome # "exited" /\ Top.at = "code"
    /\ cancel /\ disable = "ENABLE"
    /\ outcome' = "exited"
    /\ UNCHANGED <<frames, cancel, pending, disable, async, signals, sent>>

\* A signal handler of the program, which may use cancellation points itself.
Signal ==
    /\ outcome # "exited" /\ signals < MaxSignals
    /\ signals' = signals + 1
    /\ frames' = Append(frames, [Code EXCEPT !.masked = Top.masked])
    /\ UNCHANGED <<cancel, pending, disable, async, sent, outcome>>

SignalReturns ==
    /\ outcome # "exited" /\ Nested /\ Top.at = "code"
    /\ frames' = SubSeq(frames, 1, Len(frames) - 1)
    /\ UNCHANGED <<cancel, pending, disable, async, signals, sent, outcome>>

-----------------------------------------------------------------------------
(***************************************************************************)
(* pthread_cancel by another thread, and the handler of SIGCANCEL.         *)
(***************************************************************************)

Store ==
    /\ sent # "stored" /\ sent' = "stored" /\ cancel' = TRUE
    /\ UNCHANGED <<frames, pending, disable, async, signals, outcome>>

Send ==
    /\ sent = "stored" /\ sent' = "sent" /\ pending' = TRUE
    /\ UNCHANGED <<frames, cancel, disable, async, signals, outcome>>

\* A thread cancels itself without a signal.  pthread_cancel is not called in
\* signal handlers either.
CancelSelf ==
    /\ ~Nested /\ Goto("code", "code")
    /\ cancel' = TRUE
    /\ outcome' = IF disable = "ENABLE" /\ async THEN "exited" ELSE outcome
    /\ UNCHANGED <<pending, disable, async, signals, sent>>

\* Mutant: the comparison with __cp_end is <=.
InRangeInclusive(at) == at \in {"check", "syscall", "behind"}

\* The interrupted instruction is between __cp_begin and __cp_end.
InRange(at) == at \in {"check", "syscall"}

\* The handler returns to __cp_cancel, or sends the signal once more; it stays
\* blocked in the frame it interrupted.
Handler ==
    /\ outcome # "exited" /\ pending /\ ~Top.masked
    /\ IF ~cancel \/ disable = "DISABLE"
       THEN pending' = FALSE /\ UNCHANGED <<frames, disable, outcome>>
       ELSE IF async \/ InRange(Top.at)
       THEN pending' = FALSE /\ Cancelled(TRUE)
       ELSE /\ frames' = [frames EXCEPT ![Len(frames)].masked = TRUE]
            /\ UNCHANGED <<pending, disable, outcome>>
    /\ UNCHANGED <<cancel, async, signals, sent>>

-----------------------------------------------------------------------------
Run == \/ \E nr \in {"close", "other"} : Enter(nr)
       \/ Complete \/ Interrupted
       \/ \E s \in {"ENABLE", "DISABLE", "MASKED"} : SetState(s)
       \/ \E b \in BOOLEAN : SetType(b)
       \/ TestCancel \/ CancelSelf \/ Signal

Next == Run \/ Check \/ Return \/ SignalReturns \/ Store \/ Send \/ Handler

Spec == Init /\ [][Next]_vars

-----------------------------------------------------------------------------
(***************************************************************************)
(* Properties.                                                             *)
(***************************************************************************)

\* Wherever in its stack the thread is blocked in a cancellation point, once the
\* canceler has called pthread_kill the signal is still to come, and that frame
\* does not block it: sending it again from the handler of pthread_cancel.c keeps it
\* pending while inner frames run with it blocked, and no frame gets to its system
\* call with the signal used up, because the flag is tested first.
CancelNotForgotten ==
    cancel /\ sent = "sent" /\ disable # "DISABLE" =>
        \A i \in 1..Len(frames) :
            frames[i].at = "syscall" /\ outcome # "exited" => pending /\ ~frames[i].masked

\* No result of a completed system call is thrown away by deferred cancellation: the
\* handler and the return path divert the thread only while the call has had no
\* effect yet, that is before __cp_end or with EINTR.
EffectKept ==
    outcome' # outcome /\ ~async /\ ~async' => Top.at # "behind"

\* A thread is cancelled only after somebody has called pthread_cancel, never with
\* cancellation disabled, and with PTHREAD_CANCEL_MASKED it goes on with ECANCELED
\* instead of exiting, unless cancellation is asynchronous.
StateObeyed ==
    outcome' # outcome =>
        /\ cancel' /\ disable # "DISABLE"
        /\ outcome' = "exited" => disable = "ENABLE" \/ async

\* The thread is cancelled in a cancellation point, and what must come of it: it exits, gets
\* out of the system call, or a handler that interrupts the call was given the ECANCELED.
Called == cancel /\ Top.at = "syscall"
Acted == outcome = "exited" \/ Top.at # "syscall" \/ disable = "DISABLE"
=============================================================================
