-------------------------------- MODULE SemOpen --------------------------------
(***************************************************************************)
(* Named semaphores (src/thread/sem_open.c): threads that open, close and   *)
(* unlink one name.                                                        *)
(*                                                                         *)
(* A semaphore is a file, mapped once in the process however often it is    *)
(* opened; a table, indexed by inode number, counts the users of a mapping. *)
(* A call of sem_open reserves an entry, works on the file system without   *)
(* the lock, and then enters the mapping or finds an other one of the same  *)
(* file.  Numbers of inodes and addresses of mappings are reused.  The      *)
(* other users of the name are other processes or other threads.           *)
(***************************************************************************)
EXTENDS Integers, Sequences, FiniteSets

CONSTANTS
    Thread,
    Inode, Address,   \* numbers of inodes and addresses of mappings
    MaxCap,           \* bound on the size of the table
    Reserved,         \* (sem_t *)-1
    None

VARIABLES
    file,    \* the inode of the name, or None
    maps,    \* the inode that is mapped at an address, or None
    tab,     \* semtab
    pc,
    flags,   \* of the call: "open", "create" or "excl"
    slot,    \* the entry that a call has reserved
    addr,    \* the address of the mapping the call has made, or of the open semaphore
    ino,     \* the inode of the open semaphore
    made     \* history: the file was made by this call

vars == <<file, maps, tab, pc, flags, slot, addr, ino, made>>

Entry == [ino : Inode \cup {None}, sem : Address \cup {Reserved, None}, ref : 0..Cardinality(Thread)]
Empty == [ino |-> None, sem |-> None, ref |-> 0]

TypeOK ==
    /\ file \in Inode \cup {None} /\ maps \in [Address -> Inode \cup {None}]
    /\ tab \in Seq(Entry) /\ Len(tab) <= MaxCap
    /\ pc \in [Thread -> {"idle", "exists", "try", "make", "link", "enter", "fail", "open", "unmap"}]
    /\ flags \in [Thread -> {"open", "create", "excl"}]
    /\ slot \in [Thread -> 0..MaxCap] /\ addr \in [Thread -> Address \cup {None}]
    /\ ino \in [Thread -> Inode \cup {None}] /\ made \in [Thread -> BOOLEAN]

Init ==
    /\ file = None /\ maps = [a \in Address |-> None] /\ tab = <<>>
    /\ pc = [t \in Thread |-> "idle"] /\ flags = [t \in Thread |-> "open"]
    /\ slot = [t \in Thread |-> 0] /\ addr = [t \in Thread |-> None]
    /\ ino = [t \in Thread |-> None] /\ made = [t \in Thread |-> FALSE]

Goto(t, from, to) == pc[t] = from /\ pc' = [pc EXCEPT ![t] = to]

\* The file system keeps an inode while the name or a mapping refers to it.
FreeInodes == {i \in Inode : file # i /\ \A a \in Address : maps[a] # i}
FreeAddresses == {a \in Address : maps[a] = None}

\* The numbers are interchangeable: one that is free is as good as another.
OneOf(S) == IF S = {} THEN {} ELSE {CHOOSE x \in S : TRUE}

-----------------------------------------------------------------------------
(***************************************************************************)
(* sem_open.                                                               *)
(***************************************************************************)

\* The table doubles when it is full.
Grown == tab \o [k \in 1..(IF tab = <<>> THEN 1 ELSE Len(tab)) |-> Empty]

\* Under the lock: an empty entry is reserved.
Reserve(t, f) ==
    LET free == {k \in DOMAIN tab : tab[k].sem = None}
        tab1 == IF free = {} THEN Grown ELSE tab
        k == CHOOSE j \in DOMAIN tab1 :
                /\ tab1[j].sem = None /\ \A i \in 1..(j - 1) : tab1[i].sem # None
    IN /\ Goto(t, "idle", IF f = "excl" THEN "exists" ELSE "try")
       /\ Len(tab1) <= MaxCap
       /\ tab' = [tab1 EXCEPT ![k].sem = Reserved]
       /\ slot' = [slot EXCEPT ![t] = k] /\ flags' = [flags EXCEPT ![t] = f]
       /\ UNCHANGED <<file, maps, addr, ino, made>>

\* access(name, F_OK), for an exclusive creation.
Exists(t) ==
    /\ Goto(t, "exists", IF file = None THEN "make" ELSE "fail")
    /\ UNCHANGED <<file, maps, tab, flags, slot, addr, ino, made>>

\* open, fstat and mmap of the name.
TryOpen(t) ==
    /\ pc[t] = "try"
    /\ IF file # None
       THEN \E a \in OneOf(FreeAddresses) :
            /\ maps' = [maps EXCEPT ![a] = file] /\ addr' = [addr EXCEPT ![t] = a]
            /\ ino' = [ino EXCEPT ![t] = file] /\ pc' = [pc EXCEPT ![t] = "enter"]
       ELSE /\ pc' = [pc EXCEPT ![t] = IF flags[t] = "open" THEN "fail" ELSE "make"]
            /\ UNCHANGED <<maps, addr, ino>>
    /\ UNCHANGED <<file, tab, flags, slot, made>>

\* A temporary file with the initial value, mapped.
MakeFile(t) ==
    /\ Goto(t, "make", "link")
    /\ \E a \in OneOf(FreeAddresses), i \in OneOf(FreeInodes) :
          /\ maps' = [maps EXCEPT ![a] = i] /\ addr' = [addr EXCEPT ![t] = a]
          /\ ino' = [ino EXCEPT ![t] = i]
    /\ UNCHANGED <<file, tab, flags, slot, made>>

\* link makes it the semaphore, unless the name exists by now.
Link(t) ==
    /\ pc[t] = "link"
    /\ IF file = None
       THEN /\ file' = ino[t] /\ made' = [made EXCEPT ![t] = TRUE]
            /\ pc' = [pc EXCEPT ![t] = "enter"] /\ UNCHANGED <<maps, addr, ino>>
       ELSE /\ maps' = [maps EXCEPT ![addr[t]] = None]
            /\ addr' = [addr EXCEPT ![t] = None] /\ ino' = [ino EXCEPT ![t] = None]
            /\ pc' = [pc EXCEPT ![t] = IF flags[t] = "excl" THEN "fail" ELSE "try"]
            /\ UNCHANGED <<file, made>>
    /\ UNCHANGED <<tab, flags, slot>>

\* Under the lock: an other mapping of the file is taken if there is one.
Enter(t) ==
    LET same == {k \in DOMAIN tab : tab[k].ino = ino[t]}
        k == IF same = {} THEN slot[t] ELSE CHOOSE j \in same : \A i \in same : j <= i
        a == IF same = {} THEN addr[t] ELSE tab[k].sem
        tab1 == IF same = {} THEN tab ELSE [tab EXCEPT ![slot[t]].sem = None]
    IN /\ Goto(t, "enter", "open")
       /\ maps' = IF same = {} THEN maps ELSE [maps EXCEPT ![addr[t]] = None]
       /\ tab' = [tab1 EXCEPT ![k] = [ino |-> ino[t], sem |-> a, ref |-> @.ref + 1]]
       /\ addr' = [addr EXCEPT ![t] = a] /\ slot' = [slot EXCEPT ![t] = 0]
       /\ UNCHANGED <<file, flags, ino, made>>

\* A failed call gives its entry back.
Fail(t) ==
    /\ Goto(t, "fail", "idle")
    /\ tab' = [tab EXCEPT ![slot[t]].sem = None]
    /\ slot' = [slot EXCEPT ![t] = 0] /\ flags' = [flags EXCEPT ![t] = "open"]
    /\ UNCHANGED <<file, maps, addr, ino, made>>

\* open or mmap fails for an other reason.
NoFile(t) ==
    /\ pc[t] \in {"try", "make"} /\ pc' = [pc EXCEPT ![t] = "fail"]
    /\ UNCHANGED <<file, maps, tab, flags, slot, addr, ino, made>>

\* The name of the temporary file is taken: the call begins again.
TmpTaken(t) ==
    /\ flags[t] = "create" /\ Goto(t, "make", "try")
    /\ UNCHANGED <<file, maps, tab, flags, slot, addr, ino, made>>

\* link fails for an other reason.
LinkFails(t) ==
    /\ Goto(t, "link", "fail")
    /\ maps' = [maps EXCEPT ![addr[t]] = None]
    /\ addr' = [addr EXCEPT ![t] = None] /\ ino' = [ino EXCEPT ![t] = None]
    /\ UNCHANGED <<file, tab, flags, slot, made>>

-----------------------------------------------------------------------------
(***************************************************************************)
(* sem_close and sem_unlink.                                               *)
(***************************************************************************)

\* Mutant: reserved entries count as empty.
TrimmedReserved(table) == IF \A k \in DOMAIN table : table[k].sem \notin Address THEN <<>> ELSE table

\* An empty table is freed.
Trimmed(table) == IF \A k \in DOMAIN table : table[k].sem = None THEN <<>> ELSE table

\* Under the lock: the entry is found by the address; the last user unmaps afterwards.
Close(t) ==
    LET k == CHOOSE j \in DOMAIN tab : tab[j].sem = addr[t]
        last == tab[k].ref = 1
    IN /\ pc[t] = "open"
       /\ tab' = IF last THEN Trimmed([tab EXCEPT ![k] = Empty]) ELSE [tab EXCEPT ![k].ref = @ - 1]
       /\ pc' = [pc EXCEPT ![t] = IF last THEN "unmap" ELSE "idle"]
       /\ addr' = IF last THEN addr ELSE [addr EXCEPT ![t] = None]
       /\ ino' = [ino EXCEPT ![t] = None] /\ made' = [made EXCEPT ![t] = FALSE]
       /\ flags' = [flags EXCEPT ![t] = "open"]
       /\ UNCHANGED <<file, maps, slot>>

Unmap(t) ==
    /\ Goto(t, "unmap", "idle")
    /\ maps' = [maps EXCEPT ![addr[t]] = None] /\ addr' = [addr EXCEPT ![t] = None]
    /\ UNCHANGED <<file, tab, flags, slot, ino, made>>

Unlink ==
    /\ file # None /\ file' = None
    /\ UNCHANGED <<maps, tab, pc, flags, slot, addr, ino, made>>

-----------------------------------------------------------------------------

Step(t) ==
    \/ Exists(t) \/ TryOpen(t) \/ MakeFile(t) \/ Link(t) \/ Enter(t) \/ Fail(t) \/ NoFile(t)
    \/ TmpTaken(t) \/ LinkFails(t)
    \/ Close(t) \/ Unmap(t)

Next ==
    \/ \E t \in Thread : Step(t) \/ \E f \in {"open", "create", "excl"} : Reserve(t, f)
    \/ Unlink

Spec == Init /\ [][Next]_vars

-----------------------------------------------------------------------------
(***************************************************************************)
(* Properties.                                                             *)
(***************************************************************************)

Users == {t \in Thread : pc[t] = "open"}

\* As long as it is open a semaphore has one address in the process: two users have the
\* same address exactly if they have the same semaphore, and it stays mapped there.
OneAddress ==
    /\ \A t \in Users : maps[addr[t]] = ino[t]
    /\ \A t, u \in Users : (addr[t] = addr[u]) <=> (ino[t] = ino[u])

\* The table has one entry for every open semaphore, which counts its users, and one for
\* every call in progress; no two calls share an entry, and no entry is lost.
TableExact ==
    /\ \A k \in DOMAIN tab :
          IF tab[k].sem \in Address
          THEN tab[k].ref = Cardinality({t \in Users : addr[t] = tab[k].sem}) /\ tab[k].ref > 0
          ELSE /\ tab[k].ref = 0 /\ tab[k].ino = None
               /\ Cardinality({t \in Thread : slot[t] = k}) = IF tab[k].sem = Reserved THEN 1 ELSE 0
    /\ \A t \in Thread : slot[t] # 0 => slot[t] \in DOMAIN tab
    /\ \A t \in Users : \E k \in DOMAIN tab : tab[k].sem = addr[t]

\* No mapping is leaked: what is mapped is in use, or a call is about to enter or unmap it.
MappingsUsed ==
    \A a \in Address : maps[a] # None => \E t \in Thread : addr[t] = a

\* An exclusive call succeeds only if it made the semaphore, and of the users of one
\* semaphore at most one has made it.
ExclusiveMade ==
    /\ \A t \in Users : flags[t] = "excl" => made[t]
    /\ \A t, u \in Users : made[t] /\ made[u] /\ ino[t] = ino[u] => t = u
=============================================================================
