-------------------------------- MODULE FileList --------------------------------
(***************************************************************************)
(* The list of open streams (src/stdio/ofl.c, ofl_add.c, fclose.c,          *)
(* fflush.c, __stdio_exit.c, popen.c, pclose.c): fopen and popen enter a    *)
(* stream, fclose takes it out and frees it, and fflush(0) and exit walk    *)
(* over the list while other threads use their streams.                    *)
(*                                                                         *)
(* The list has a lock, and so has every stream.  As the C standard demands *)
(* no thread uses a stream that is being closed; the library itself does.   *)
(* A thread may have one stream by flockfile while it makes other calls.    *)
(***************************************************************************)
EXTENDS Naturals, FiniteSets

CONSTANTS
    Thread, File, Nobody,
    MayPipe   \* whether the program calls popen

VARIABLES
    ofl,       \* the streams in the list
    oflLock,   \* the owner of its lock
    state,     \* of a stream: "none", "open", "closed" (fclose is past its flush) or "freed"
    unsaved,   \* streams whose buffer holds something to be written
    lock,      \* the owner of the lock of a stream
    pc,
    file,      \* the stream that a thread uses
    todo,      \* what is left of a walk over the list
    cloexec,   \* streams whose descriptor is closed by exec
    pipe,      \* streams with a pipe_pid
    child,     \* descriptors that are open in the child of a stream
    exiting,   \* the thread that has called exit
    held       \* the stream that a thread has by flockfile

vars == <<ofl, oflLock, state, unsaved, lock, pc, file, todo, cloexec, pipe, child, exiting, held>>

TypeOK ==
    /\ ofl \subseteq File /\ unsaved \subseteq File
    /\ cloexec \subseteq File /\ pipe \subseteq File
    /\ oflLock \in Thread \cup {Nobody} /\ exiting \in Thread \cup {Nobody}
    /\ state \in [File -> {"none", "open", "closed", "freed"}]
    /\ lock \in [File -> Thread \cup {Nobody}] /\ file \in [Thread -> File \cup {Nobody}]
    /\ pc \in [Thread -> {"idle", "add", "list", "spawn", "write", "writing", "close", "closing",
                          "unlink", "flushall", "walk", "flush", "exitall", "exit", "ended"}]
    /\ todo \in [Thread -> SUBSET File] /\ child \in [File -> SUBSET File]
    /\ held \in [Thread -> File \cup {Nobody}]

Init ==
    /\ ofl = {} /\ oflLock = Nobody /\ state = [f \in File |-> "none"] /\ unsaved = {}
    /\ lock = [f \in File |-> Nobody] /\ pc = [t \in Thread |-> "idle"]
    /\ file = [t \in Thread |-> Nobody] /\ todo = [t \in Thread |-> {}]
    /\ cloexec = {} /\ pipe = {} /\ child = [f \in File |-> {}] /\ exiting = Nobody
    /\ held = [t \in Thread |-> Nobody]

Goto(t, from, to) == pc[t] = from /\ pc' = [pc EXCEPT ![t] = to]

\* The thread no longer uses a stream.
Done(t) == file' = [file EXCEPT ![t] = Nobody]

\* FLOCK and FUNLOCK: whoever has the stream by flockfile keeps it.
FLOCK(t, f) == lock[f] \in {Nobody, t} /\ lock' = [lock EXCEPT ![f] = t]
FUNLOCK(t, f) == lock' = IF held[t] = f THEN lock ELSE [lock EXCEPT ![f] = Nobody]

-----------------------------------------------------------------------------
(***************************************************************************)
(* fopen and popen.                                                        *)
(***************************************************************************)

\* A new stream.
__fdopen(t, f, to) ==
    /\ Goto(t, "idle", to) /\ state[f] = "none"
    /\ state' = [state EXCEPT ![f] = "open"] /\ file' = [file EXCEPT ![t] = f]

fopen(t, f) ==
    /\ __fdopen(t, f, "add")
    /\ UNCHANGED <<ofl, oflLock, unsaved, lock, todo, cloexec, pipe, child, exiting, held>>

\* The descriptor of popen is close-on-exec at first.
popen(t, f) ==
    /\ MayPipe /\ __fdopen(t, f, "list") /\ cloexec' = cloexec \cup {f}
    /\ UNCHANGED <<ofl, oflLock, unsaved, lock, todo, pipe, child, exiting, held>>

\* __ofl_add
Add(t) ==
    /\ oflLock = Nobody /\ ofl' = ofl \cup {file[t]}
    /\ \/ Goto(t, "add", "idle") /\ Done(t)
       \/ Goto(t, "list", "spawn") /\ UNCHANGED file
    /\ UNCHANGED <<oflLock, state, unsaved, lock, todo, cloexec, pipe, child, exiting, held>>

\* The child gets the descriptors that are neither close-on-exec nor of an other popen; all
\* this, and the end of close-on-exec, is under the lock of the list.
Spawn(t) ==
    LET f == file[t]
    IN /\ Goto(t, "spawn", "idle") /\ Done(t) /\ oflLock = Nobody
       /\ child' = [child EXCEPT ![f] = {g \in File : state[g] = "open"} \ (cloexec \cup pipe)]
       /\ pipe' = pipe \cup {f} /\ cloexec' = cloexec \ {f}
       /\ UNCHANGED <<ofl, oflLock, state, unsaved, lock, todo, exiting, held>>

-----------------------------------------------------------------------------
(***************************************************************************)
(* The application: an operation that leaves something in the buffer, and   *)
(* fclose.                                                                 *)
(***************************************************************************)

\* A stream that the application may use: no thread opens or closes it.
Usable(t, f) ==
    /\ state[f] = "open" /\ f \in ofl
    /\ \A u \in Thread : file[u] = f => pc[u] \notin {"add", "list", "spawn", "close", "closing", "unlink"}

\* A thread that has a stream asks for no other one: that order is the application's.
Use(t, f) ==
    /\ Goto(t, "idle", "write") /\ Usable(t, f) /\ held[t] \in {f, Nobody} /\ file' = [file EXCEPT ![t] = f]
    /\ UNCHANGED <<ofl, oflLock, state, unsaved, lock, todo, cloexec, pipe, child, exiting, held>>

Write(t) ==
    /\ Goto(t, "write", "writing") /\ FLOCK(t, file[t])
    /\ unsaved' = unsaved \cup {file[t]}
    /\ UNCHANGED <<ofl, oflLock, state, file, todo, cloexec, pipe, child, exiting, held>>

Wrote(t) ==
    /\ Goto(t, "writing", "idle") /\ FUNLOCK(t, file[t]) /\ Done(t)
    /\ UNCHANGED <<ofl, oflLock, state, unsaved, todo, cloexec, pipe, child, exiting, held>>

flockfile(t, f) ==
    /\ pc[t] = "idle" /\ Usable(t, f) /\ held[t] = Nobody
    /\ FLOCK(t, f) /\ held' = [held EXCEPT ![t] = f]
    /\ UNCHANGED <<ofl, oflLock, state, unsaved, pc, file, todo, cloexec, pipe, child, exiting>>

funlockfile(t) ==
    /\ pc[t] = "idle" /\ held[t] # Nobody
    /\ lock' = [lock EXCEPT ![held[t]] = Nobody] /\ held' = [held EXCEPT ![t] = Nobody]
    /\ UNCHANGED <<ofl, oflLock, state, unsaved, pc, file, todo, cloexec, pipe, child, exiting>>

fclose(t, f) ==
    /\ Goto(t, "idle", "close") /\ Usable(t, f)
    /\ \A u \in Thread : file[u] = f => pc[u] \notin {"write", "writing"}
    /\ \A u \in Thread \ {t} : held[u] # f
    /\ file' = [file EXCEPT ![t] = f]
    /\ UNCHANGED <<ofl, oflLock, state, unsaved, lock, todo, cloexec, pipe, child, exiting, held>>

\* fflush and close, with the lock of the stream.
CloseFlush(t) ==
    /\ Goto(t, "close", "closing") /\ FLOCK(t, file[t])
    /\ unsaved' = unsaved \ {file[t]}
    /\ state' = [state EXCEPT ![file[t]] = "closed"]
    /\ UNCHANGED <<ofl, oflLock, file, todo, cloexec, pipe, child, exiting, held>>

CloseUnlock(t) ==
    /\ Goto(t, "closing", "unlink") /\ FUNLOCK(t, file[t])
    /\ UNCHANGED <<ofl, oflLock, state, unsaved, file, todo, cloexec, pipe, child, exiting, held>>

\* __unlist_locked_file: what the thread has by flockfile may be the stream that it closes.
Unlist(t) ==
    IF held[t] = file[t]
    THEN held' = [held EXCEPT ![t] = Nobody] /\ lock' = [lock EXCEPT ![file[t]] = Nobody]
    ELSE UNCHANGED <<held, lock>>

\* Mutant: without the lock of the list.
CloseUnlinkUnlocked(t) ==
    /\ Goto(t, "unlink", "idle")
    /\ ofl' = ofl \ {file[t]} /\ state' = [state EXCEPT ![file[t]] = "freed"]
    /\ pipe' = pipe \ {file[t]} /\ Done(t) /\ Unlist(t)
    /\ UNCHANGED <<oflLock, unsaved, todo, cloexec, child, exiting>>

\* Out of the list, under its lock, and freed.
CloseUnlink(t) ==
    /\ Goto(t, "unlink", "idle") /\ oflLock = Nobody
    /\ ofl' = ofl \ {file[t]} /\ state' = [state EXCEPT ![file[t]] = "freed"]
    /\ pipe' = pipe \ {file[t]} /\ Done(t) /\ Unlist(t)
    /\ UNCHANGED <<oflLock, unsaved, todo, cloexec, child, exiting>>

-----------------------------------------------------------------------------
(***************************************************************************)
(* fflush(0) and exit.                                                     *)
(***************************************************************************)

\* __ofl_lock
Walk(t, from, to) ==
    /\ Goto(t, from, to) /\ oflLock = Nobody
    /\ oflLock' = t /\ todo' = [todo EXCEPT ![t] = ofl]
    /\ UNCHANGED <<ofl, state, unsaved, lock, file, cloexec, pipe, child, exiting, held>>

FlushAll(t) ==
    /\ Goto(t, "idle", "flushall")
    /\ UNCHANGED <<ofl, oflLock, state, unsaved, lock, file, todo, cloexec, pipe, child, exiting, held>>

\* The next stream, locked.
FlushNext(t) ==
    /\ Goto(t, "walk", "flush")
    /\ \E f \in todo[t] :
          /\ FLOCK(t, f)
          /\ file' = [file EXCEPT ![t] = f] /\ todo' = [todo EXCEPT ![t] = @ \ {f}]
    /\ UNCHANGED <<ofl, oflLock, state, unsaved, cloexec, pipe, child, exiting, held>>

FlushOne(t) ==
    /\ Goto(t, "flush", "walk") /\ unsaved' = unsaved \ {file[t]}
    /\ FUNLOCK(t, file[t]) /\ Done(t)
    /\ UNCHANGED <<ofl, oflLock, state, todo, cloexec, pipe, child, exiting, held>>

FlushDone(t) ==
    /\ Goto(t, "walk", "idle") /\ todo[t] = {} /\ oflLock' = Nobody
    /\ UNCHANGED <<ofl, state, unsaved, lock, file, todo, cloexec, pipe, child, exiting, held>>

\* __stdio_exit keeps the lock of the list and the lock of every stream.
CallExit(t) ==
    /\ Goto(t, "idle", "exitall") /\ exiting = Nobody /\ exiting' = t
    /\ UNCHANGED <<ofl, oflLock, state, unsaved, lock, file, todo, cloexec, pipe, child, held>>

CloseFile(t) ==
    /\ Goto(t, "exit", "exit")
    /\ \E f \in todo[t] :
          /\ FLOCK(t, f)
          /\ unsaved' = unsaved \ {f} /\ todo' = [todo EXCEPT ![t] = @ \ {f}]
    /\ UNCHANGED <<ofl, oflLock, state, file, cloexec, pipe, child, exiting, held>>

Exited(t) ==
    /\ Goto(t, "exit", "ended") /\ todo[t] = {}
    /\ UNCHANGED <<ofl, oflLock, state, unsaved, lock, file, todo, cloexec, pipe, child, exiting, held>>

-----------------------------------------------------------------------------

Step(t) ==
    \/ Add(t) \/ Spawn(t) \/ Write(t) \/ Wrote(t) \/ CloseFlush(t) \/ CloseUnlock(t)
    \/ CloseUnlink(t) \/ Walk(t, "flushall", "walk") \/ Walk(t, "exitall", "exit") \/ FlushNext(t) \/ FlushOne(t) \/ FlushDone(t) \/ CloseFile(t) \/ Exited(t)

Call(t) ==
    \/ FlushAll(t) \/ CallExit(t) \/ funlockfile(t)
    \/ \E f \in File : fopen(t, f) \/ popen(t, f) \/ Use(t, f) \/ fclose(t, f) \/ flockfile(t, f)

Next == \E t \in Thread : Step(t) \/ Call(t)

Spec == Init /\ [][Next]_vars

-----------------------------------------------------------------------------
(***************************************************************************)
(* Properties.                                                             *)
(***************************************************************************)

\* No stream is freed while it is in the list, while a thread uses or walks over it, or
\* while its lock is taken.
NoUseAfterFree ==
    \A f \in File : state[f] = "freed" =>
        /\ f \notin ofl /\ lock[f] = Nobody
        /\ \A t \in Thread : file[t] # f /\ f \notin todo[t]

\* A child of popen has none of the pipes of other streams of popen.
PipesPrivate == \A f \in pipe : child[f] \cap (pipe \ {f}) = {}

\* When exit has walked over the list nothing that was written is left in a buffer, and
\* nothing gets there any more.
ExitSaves ==
    \A t \in Thread : pc[t] = "ended" => unsaved \cap ofl = {}

\* A call of exit, of fflush(0) or of fclose, and its end; exit may come before the others'.
Called(t) == pc[t] \in {"exitall", "exit", "flushall", "walk", "close"}
Ended(t) == pc[t] \in {"ended", "idle"} \/ exiting \notin {Nobody, t}

\* A thread that has a stream by flockfile waits for the list, or for a stream that exit keeps,
\* and the thread that walks over the list waits for its stream (fflush.c:14-15,
\* __stdio_exit.c:11): neither goes on.
Embraced ==
    \E t, u \in Thread :
        /\ t # u /\ oflLock = t /\ held[u] \in todo[t]
        /\ \/ pc[u] \in {"add", "list", "spawn", "unlink", "flushall", "exitall"}
           \/ pc[u] = "close" /\ pc[t] = "exit" /\ lock[file[u]] = t
=============================================================================
