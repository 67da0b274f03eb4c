-------------------------------- MODULE AtExit --------------------------------
(***************************************************************************)
(* Ending the process (src/exit/exit.c, atexit.c, quick_exit.c and          *)
(* at_quick_exit.c).                                                       *)
(*                                                                         *)
(* The functions of atexit are kept in blocks of COUNT, linked from the     *)
(* newest to the oldest.  The lists are used under a lock, which is         *)
(* released while a function runs: an action is one section of that lock.   *)
(* A function is the number of its registration.                            *)
(***************************************************************************)
EXTENDS Integers, Sequences, SequencesExt

CONSTANTS
    Thread, NoThread,
    COUNT,        \* functions in a block
    MaxRegister,  \* bound on the registrations with atexit
    MaxQuick      \* and with at_quick_exit

VARIABLES
    blocks,      \* the list of blocks, from head; the builtin block is the last
    slot, finished,
    quick,       \* the list of at_quick_exit, from the newest
    quickLocked, \* its lock is kept by a thread that found it empty
    exitLock,    \* exit_lock
    pc,
    registered, quickRegistered,
    called, quickCalled,   \* the functions called so far, in order
    ended        \* "no", or what has ended the process

lists == <<blocks, slot, finished>>
quicks == <<quick, quickLocked, quickRegistered, quickCalled>>
vars == <<lists, quicks, exitLock, pc, registered, called, ended>>

Function == 1..MaxRegister
Block == [0..(COUNT - 1) -> Function \cup {0}]
Place == {"run", "loop", "call", "fini", "stdio", "paused", "quick loop", "quick call", "_Exit"}

TypeOK ==
    /\ blocks \in Seq(Block) /\ slot \in 0..COUNT /\ finished \in BOOLEAN
    /\ quick \in Seq(1..MaxQuick) /\ quickLocked \in BOOLEAN
    /\ exitLock \in Thread \cup {NoThread}
    /\ pc \in [Thread -> Place]
    /\ registered \in 0..MaxRegister /\ quickRegistered \in 0..MaxQuick
    /\ called \in Seq(Function) /\ quickCalled \in Seq(1..MaxQuick)
    /\ ended \in {"no", "exit", "quick_exit", "crash"}

Init ==
    /\ blocks = <<>> /\ slot = 0 /\ finished = FALSE
    /\ quick = <<>> /\ quickLocked = FALSE
    /\ exitLock = NoThread
    /\ pc = [t \in Thread |-> "run"]
    /\ registered = 0 /\ quickRegistered = 0
    /\ called = <<>> /\ quickCalled = <<>> /\ ended = "no"

Goto(t, from, to) == ended = "no" /\ pc[t] = from /\ pc' = [pc EXCEPT ![t] = to]

\* Code of the program runs in the thread, perhaps in one of the functions, in a
\* destructor, or in the write function of a stream.
Program(t) == ended = "no" /\ pc[t] \in {"run", "call", "fini", "stdio", "quick call"}

-----------------------------------------------------------------------------
(***************************************************************************)
(* __cxa_atexit and __funcs_on_exit.                                       *)
(***************************************************************************)

Empty == [n \in 0..(COUNT - 1) |-> 0]

\* The block and the slot that the next function goes to.
Room == IF blocks = <<>> THEN <<Empty>>
        ELSE IF slot = COUNT THEN <<Empty>> \o blocks ELSE blocks
RoomSlot == IF blocks # <<>> /\ slot = COUNT THEN 0 ELSE slot

\* Registering may also fail, when the list is closed or there is no memory.
Register(t) ==
    /\ Program(t) /\ registered < MaxRegister
    /\ ~finished
    /\ registered' = registered + 1
    /\ blocks' = [Room EXCEPT ![1][RoomSlot] = registered + 1]
    /\ slot' = RoomSlot + 1
    /\ UNCHANGED <<finished, quicks, exitLock, pc, called, ended>>

\* The newest function is taken; an exhausted block is followed by a full one.
Take(t) ==
    /\ Goto(t, "loop", "call")
    /\ \/ slot > 0 /\ slot' = slot - 1 /\ UNCHANGED blocks
       \/ slot = 0 /\ Len(blocks) > 1 /\ slot' = COUNT - 1 /\ blocks' = Tail(blocks)
    /\ called' = Append(called, blocks'[1][slot'])
    /\ UNCHANGED <<finished, quicks, exitLock, registered, ended>>

FuncReturns(t) ==
    /\ Goto(t, "call", "loop")
    /\ UNCHANGED <<lists, quicks, exitLock, registered, called, ended>>

\* Mutant: the list is not closed.
FinishOpen(t) ==
    /\ Goto(t, "loop", "fini")
    /\ slot = 0 /\ Len(blocks) <= 1
    /\ blocks' = <<>> /\ slot' = 0
    /\ UNCHANGED <<finished, quicks, exitLock, registered, called, ended>>

Finish(t) ==
    /\ Goto(t, "loop", "fini")
    /\ slot = 0 /\ Len(blocks) <= 1
    /\ slot' = IF blocks = <<>> THEN slot ELSE COUNT
    /\ blocks' = <<>> /\ finished' = TRUE
    /\ UNCHANGED <<quicks, exitLock, registered, called, ended>>

-----------------------------------------------------------------------------
(***************************************************************************)
(* exit: the first caller goes on, others wait for ever, and the first one  *)
(* itself may not call it again.                                           *)
(***************************************************************************)

Exit(t) ==
    /\ Program(t)
    /\ IF exitLock = NoThread
       THEN /\ exitLock' = t /\ pc' = [pc EXCEPT ![t] = "loop"]
            /\ UNCHANGED ended
       ELSE /\ IF exitLock = t THEN ended' = "crash" /\ UNCHANGED pc
               ELSE pc' = [pc EXCEPT ![t] = "paused"] /\ UNCHANGED ended
            /\ UNCHANGED exitLock
    /\ UNCHANGED <<lists, quicks, registered, called>>

\* __libc_exit_fini, then __stdio_exit, then _Exit.
Fini(t) ==
    /\ Goto(t, "fini", "stdio")
    /\ UNCHANGED <<lists, quicks, exitLock, registered, called, ended>>

StdioExit(t) ==
    /\ ended = "no" /\ pc[t] = "stdio"
    /\ ended' = "exit"
    /\ UNCHANGED <<lists, quicks, exitLock, pc, registered, called>>

-----------------------------------------------------------------------------
(***************************************************************************)
(* at_quick_exit and quick_exit.                                           *)
(***************************************************************************)

AtQuickExit(t) ==
    /\ Program(t) /\ ~quickLocked /\ quickRegistered < MaxQuick
    /\ quickRegistered' = quickRegistered + 1
    /\ quick' = <<quickRegistered + 1>> \o quick
    /\ UNCHANGED <<lists, quickLocked, quickCalled, exitLock, pc, registered, called, ended>>

QuickExit(t) ==
    /\ Program(t)
    /\ pc' = [pc EXCEPT ![t] = "quick loop"]
    /\ UNCHANGED <<lists, quicks, exitLock, registered, called, ended>>

QuickTake(t) ==
    /\ Goto(t, "quick loop", "quick call")
    /\ ~quickLocked /\ quick # <<>>
    /\ quick' = Tail(quick) /\ quickCalled' = Append(quickCalled, Head(quick))
    /\ UNCHANGED <<lists, quickLocked, quickRegistered, exitLock, registered, called, ended>>

QuickReturns(t) ==
    /\ Goto(t, "quick call", "quick loop")
    /\ UNCHANGED <<lists, quicks, exitLock, registered, called, ended>>

\* The lock is not released when the list is empty.
QuickFinish(t) ==
    /\ Goto(t, "quick loop", "_Exit")
    /\ ~quickLocked /\ quick = <<>>
    /\ quickLocked' = TRUE
    /\ UNCHANGED <<lists, quick, quickRegistered, quickCalled, exitLock, registered, called, ended>>

QuickEnd(t) ==
    /\ ended = "no" /\ pc[t] = "_Exit"
    /\ ended' = "quick_exit"
    /\ UNCHANGED <<lists, quicks, exitLock, pc, registered, called>>

-----------------------------------------------------------------------------
Library(t) == \/ Take(t) \/ FuncReturns(t) \/ Finish(t) \/ Fini(t) \/ StdioExit(t)
              \/ QuickTake(t) \/ QuickReturns(t) \/ QuickFinish(t) \/ QuickEnd(t)

Next == \E t \in Thread :
    \/ Register(t) \/ AtQuickExit(t) \/ Exit(t) \/ QuickExit(t) \/ Library(t)

Spec == Init /\ [][Next]_vars

-----------------------------------------------------------------------------
(***************************************************************************)
(* Properties.                                                             *)
(***************************************************************************)

\* The functions still to be called, oldest first.
Entries(block, n) == [k \in 1..n |-> block[k - 1]]
Flat == IF blocks = <<>> THEN <<>>
        ELSE FlattenSeq([k \in 1..(Len(blocks) - 1) |-> Entries(blocks[Len(blocks) + 1 - k], COUNT)])
             \o Entries(blocks[1], slot)

\* What atexit and exit promise, the abstract specification: functions are kept in one
\* stack; at exit they are taken from it one by one, those registered meanwhile included,
\* and when it is found empty it is closed for ever.  The blocks behave so also when
\* functions register functions and other threads register some between two calls:
\* only the newest block is partly filled.
stackVars == <<Flat, finished>>

StackInit == stackVars = <<<<>>, FALSE>>

Push(f) == /\ ~finished /\ Flat' = Append(Flat, f)
           /\ UNCHANGED finished

Pop == /\ Flat # <<>> /\ Flat' = SubSeq(Flat, 1, Len(Flat) - 1)
       /\ UNCHANGED finished

Close == /\ Flat = <<>> /\ finished'
         /\ UNCHANGED Flat

StackNext == Pop \/ Close \/ \E f \in Function : Push(f)

\* When exit ends the process every function that was registered has been called,
\* once.  Nothing is registered between the last call and the end.
NoneMissed ==
    ended = "exit" => Len(called) = registered /\ ToSet(called) = 1..registered

\* A function of at_quick_exit is called once at most, though several threads may be
\* in quick_exit; when one of them reaches _Exit none is left, and none is added.
QuickOnce ==
    /\ \A m, n \in DOMAIN quickCalled : quickCalled[m] = quickCalled[n] => m = n
    /\ ended = "quick_exit" => ToSet(quickCalled) = 1..quickRegistered

\* At most one thread is past the lock of exit, and the process is ended by exit only
\* once the list is closed.
OneExit ==
    /\ \A t, u \in Thread : {pc[t], pc[u]} \subseteq {"loop", "call", "fini", "stdio"} => t = u
    /\ ended = "exit" => finished

Exiting == exitLock # NoThread
Ended == ended # "no"
=============================================================================
