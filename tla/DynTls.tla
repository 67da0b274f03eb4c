-------------------------------- MODULE DynTls --------------------------------
(***************************************************************************)
(* Thread-local storage of libraries that are loaded while threads come and *)
(* go (ldso/dynlink.c, src/thread/pthread_create.c, lock_ptc.c).            *)
(*                                                                         *)
(* dlopen counts the threads without their lock, allocates a vector (dtv)   *)
(* for each and later hands the vectors out.  pthread_create builds the     *)
(* vector of a new thread from the list of modules.  A thread is its name,  *)
(* used again after its end; a vector is the number of its modules.         *)
(***************************************************************************)
EXTENDS Naturals, FiniteSets

CONSTANTS
    Thread, Main, Nobody,
    MaxTls      \* bound: modules that are ever loaded

VARIABLES
    list,       \* the threads in the list of threads
    count,      \* libc.threads_minus_1 + 1
    tlLock,     \* the owner of the lock of that list
    creators,   \* readers of the lock of lock_ptc.c
    inhibited,  \* its writer, the thread that runs dlopen
    modules,    \* the length of the list from libc.tls_head, and tls_cnt
    libcCnt,    \* libc.tls_cnt and tls_size: what new threads reserve
    origCnt,    \* orig_tls_cnt
    room,       \* of each library that this dlopen has loaded: n_th, the vectors allocated
    dtv,        \* of a thread: dtv[0]
    new,        \* of a creator: the thread that it makes
    pc

vars == <<list, count, tlLock, creators, inhibited, modules, libcCnt, origCnt, room, dtv, new, pc>>

TypeOK ==
    /\ list \subseteq Thread /\ count \in 0 .. Cardinality(Thread) /\ tlLock \in Thread \cup {Nobody}
    /\ creators \subseteq Thread /\ inhibited \in Thread \cup {Nobody}
    /\ {modules, libcCnt, origCnt} \subseteq 0 .. MaxTls
    /\ room \in [1 .. MaxTls -> 0 .. Cardinality(Thread)]
    /\ dtv \in [Thread -> 0 .. MaxTls] /\ new \in [Thread -> Thread \cup {Nobody}]
    /\ pc \in [Thread -> {"none", "run", "create", "clone", "cloned", "exit", "open", "install", "end"}]
    /\ (creators = {} \/ inhibited = Nobody)

Init ==
    /\ list = {Main} /\ count = 1 /\ tlLock = Nobody /\ creators = {} /\ inhibited = Nobody
    /\ modules = 0 /\ libcCnt = 0 /\ origCnt = 0 /\ room = [i \in 1 .. MaxTls |-> 0]
    /\ dtv = [t \in Thread |-> 0] /\ new = [t \in Thread |-> Nobody]
    /\ pc = [t \in Thread |-> IF t = Main THEN "run" ELSE "none"]

Goto(t, from, to) == pc[t] = from /\ pc' = [pc EXCEPT ![t] = to]

-----------------------------------------------------------------------------
(***************************************************************************)
(* pthread_create and pthread_exit.                                        *)
(***************************************************************************)

__acquire_ptc(t) == inhibited = Nobody /\ creators' = creators \cup {t}

\* The size of the new thread's memory is computed and the memory mapped, or not.
pthread_create(t) ==
    /\ __acquire_ptc(t) /\ Goto(t, "run", "create")
    /\ UNCHANGED <<list, count, tlLock, inhibited, modules, libcCnt, origCnt, room, dtv, new>>

MapFails(t) ==
    /\ Goto(t, "create", "run") /\ creators' = creators \ {t}
    /\ UNCHANGED <<list, count, tlLock, inhibited, modules, libcCnt, origCnt, room, dtv, new>>

\* The new thread's vector: an entry for every module in the list.
__copy_tls(t, n) ==
    /\ Goto(t, "create", "clone") /\ pc[n] = "none" /\ n \notin {new[u] : u \in Thread}
    /\ new' = [new EXCEPT ![t] = n] /\ dtv' = [dtv EXCEPT ![n] = modules]
    /\ UNCHANGED <<list, count, tlLock, creators, inhibited, modules, libcCnt, origCnt, room>>

\* It is counted, and then made.
Count(t) ==
    /\ tlLock = Nobody /\ Goto(t, "clone", "cloned")
    /\ tlLock' = t /\ count' = count + 1
    /\ UNCHANGED <<list, creators, inhibited, modules, libcCnt, origCnt, room, dtv, new>>

__clone(t) ==
    /\ pc[t] = "cloned" /\ tlLock' = Nobody /\ creators' = creators \ {t}
    /\ \/ /\ list' = list \cup {new[t]} /\ UNCHANGED count
          /\ pc' = [pc EXCEPT ![t] = "run", ![new[t]] = "run"]
       \/ list' = list /\ count' = count - 1 /\ Goto(t, "cloned", "run")
    /\ new' = [new EXCEPT ![t] = Nobody]
    /\ UNCHANGED <<inhibited, modules, libcCnt, origCnt, room, dtv>>

\* A thread that ends is first not counted any more, then taken from the list.
pthread_exit(t) ==
    /\ tlLock = Nobody /\ list # {t} /\ Goto(t, "run", "exit")
    /\ tlLock' = t /\ count' = count - 1
    /\ UNCHANGED <<list, creators, inhibited, modules, libcCnt, origCnt, room, dtv, new>>

Unlink(t) ==
    /\ Goto(t, "exit", "none")
    /\ list' = list \ {t} /\ tlLock' = Nobody
    /\ UNCHANGED <<count, creators, inhibited, modules, libcCnt, origCnt, room, dtv, new>>

-----------------------------------------------------------------------------
(***************************************************************************)
(* dlopen.                                                                 *)
(***************************************************************************)

\* The lock of the linker and then, when no thread is being made, the lock of lock_ptc.c.
__inhibit_ptc(t) ==
    /\ inhibited = Nobody /\ creators = {} /\ Goto(t, "run", "open")
    /\ inhibited' = t /\ origCnt' = modules
    /\ UNCHANGED <<list, count, tlLock, creators, modules, libcCnt, room, dtv, new>>

\* A library with TLS: room for the vectors of the threads counted now.
load_library(t) ==
    /\ pc[t] = "open" /\ modules < MaxTls
    /\ modules' = modules + 1 /\ room' = [room EXCEPT ![modules + 1] = count]
    /\ UNCHANGED <<list, count, tlLock, creators, inhibited, libcCnt, origCnt, dtv, new, pc>>

\* The call fails.
Fail(t) ==
    /\ Goto(t, "open", "end") /\ modules' = origCnt
    /\ UNCHANGED <<list, count, tlLock, creators, inhibited, libcCnt, origCnt, room, dtv, new>>

update_tls_size(t) ==
    /\ Goto(t, "open", IF modules = origCnt THEN "end" ELSE "install") /\ libcCnt' = modules
    /\ UNCHANGED <<list, count, tlLock, creators, inhibited, modules, origCnt, room, dtv, new>>

\* The vectors are filled and handed out while the list of threads is locked.
install_new_tls(t) ==
    /\ tlLock = Nobody /\ Goto(t, "install", "end")
    /\ dtv' = [u \in Thread |-> IF u \in list THEN modules ELSE dtv[u]]
    /\ UNCHANGED <<list, count, tlLock, creators, inhibited, modules, libcCnt, origCnt, room, new>>

__release_ptc(t) ==
    /\ Goto(t, "end", "run") /\ inhibited' = Nobody
    /\ UNCHANGED <<list, count, tlLock, creators, modules, libcCnt, origCnt, room, dtv, new>>

Next ==
    \E t \in Thread :
        \/ pthread_create(t) \/ MapFails(t) \/ \E n \in Thread : __copy_tls(t, n)
        \/ Count(t) \/ __clone(t) \/ pthread_exit(t) \/ Unlink(t)
        \/ __inhibit_ptc(t) \/ load_library(t) \/ Fail(t) \/ update_tls_size(t)
        \/ install_new_tls(t) \/ __release_ptc(t)

Spec == Init /\ [][Next]_vars

-----------------------------------------------------------------------------
\* When the vectors are handed out there is one for every thread of the list, although the
\* threads were counted earlier, without the lock, perhaps in the middle of a pthread_exit.
RoomForAll ==
    \A t \in Thread : pc[t] = "install" /\ tlLock = Nobody =>
        \A i \in origCnt + 1 .. modules : Cardinality(list) <= room[i]

\* __copy_tls writes an entry for every module in the list; the memory is for libc.tls_cnt.
CopyFits == \A t \in Thread : pc[t] = "create" => modules = libcCnt

\* Unless a dlopen is about to hand vectors out, every thread has all modules.
DtvComplete ==
    (\A t \in Thread : pc[t] # "install") => \A u \in list : dtv[u] = libcCnt
=============================================================================
