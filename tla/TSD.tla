--------------------------------- MODULE TSD ---------------------------------
(***************************************************************************)
(* Thread-specific data (src/thread/pthread_key_create.c).                  *)
(*                                                                         *)
(* The first InlineKeys keys have a slot in every thread, the others an     *)
(* entry in one list for all threads.  The table of keys grows by doubling  *)
(* and is released with the last key.  Everything happens under key_lock,   *)
(* so that an action is one section of that lock.                           *)
(*                                                                         *)
(* A value is the number of the pthread_key_create whose key it was stored  *)
(* under, so that a value that outlives its key is seen; 0 is NULL.         *)
(***************************************************************************)
EXTENDS Integers, Sequences, FiniteSets, SequencesExt

CONSTANTS
    Thread,       \* values of pthread_t: a new thread may have the one of a dead thread
    None,         \* an unused entry of the table
    InlineKeys,   \* PTHREAD_TSD_INLINE_KEYS
    Iterations,   \* PTHREAD_DESTRUCTOR_ITERATIONS
    MaxCapacity,  \* bound on the table, in the place of UINT32_MAX / 2
    MaxCreates    \* bound on the calls of pthread_key_create

VARIABLES
    keys,       \* the table, a sequence: key k is at position k + 1
    absent,     \* keys_capacity is one but the table could not be allocated
    next,       \* next_key
    tsd,        \* the inline slots of each thread
    ext,        \* extended_values, from the head
    used,       \* tsd_used
    alive,      \* the threads that exist
    pc,         \* "run", "pass", "call" or "dead"
    j, i,       \* locals of __pthread_tsd_run_dtors
    creates,    \* how many keys were created
    gaveup,     \* threads that died with tsd_used still set
    crashed     \* a null table was used

table == <<keys, absent, next>>
exit == <<pc, j, i>>
vars == <<table, tsd, ext, used, alive, exit, creates, gaveup, crashed>>

Capacity == IF absent THEN 1 ELSE Len(keys)
Key == 0..(MaxCapacity - 1)
Value == 0..MaxCreates

\* A key in use, with its destructor and the number of its creation.
Entry == [dtor : BOOLEAN, gen : 1..MaxCreates]
Valid(k) == k < Len(keys) /\ keys[k + 1] # None

TypeOK ==
    /\ keys \in Seq(Entry \cup {None}) /\ Len(keys) <= MaxCapacity
    /\ absent \in BOOLEAN /\ (absent => keys = <<>>)
    /\ next \in 0..(MaxCapacity - 1)
    /\ tsd \in [Thread -> [0..(InlineKeys - 1) -> Value]]
    /\ ext \in Seq([thread : Thread, key : Key, value : Value \ {0}])
    /\ used \in [Thread -> BOOLEAN]
    /\ alive \subseteq Thread /\ gaveup \subseteq Thread
    /\ pc \in [Thread -> {"run", "pass", "call", "dead"}]
    /\ j \in [Thread -> 0..Iterations] /\ i \in [Thread -> 0..MaxCapacity]
    /\ creates \in 0..MaxCreates /\ crashed \in BOOLEAN

Init ==
    /\ keys = <<>> /\ absent = FALSE /\ next = 0
    /\ tsd = [t \in Thread |-> [k \in 0..(InlineKeys - 1) |-> 0]]
    /\ ext = <<>>
    /\ used = [t \in Thread |-> FALSE]
    /\ \E main \in Thread :
           /\ alive = {main}
           /\ pc = [t \in Thread |-> IF t = main THEN "run" ELSE "dead"]
    /\ j = [t \in Thread |-> 0] /\ i = [t \in Thread |-> 0]
    /\ creates = 0 /\ gaveup = {} /\ crashed = FALSE

\* Code of the program: also a destructor may use keys.
Running(t) == pc[t] \in {"run", "call"} /\ ~crashed

-----------------------------------------------------------------------------
(***************************************************************************)
(* Reading and writing a value: find_extended, tsd_get_locked and           *)
(* tsd_set_locked.                                                         *)
(***************************************************************************)

Found(t, k) == {n \in DOMAIN ext : ext[n].thread = t /\ ext[n].key = k}
First(S) == CHOOSE n \in S : \A m \in S : n <= m

GetLocked(t, k) ==
    IF k < InlineKeys THEN tsd[t][k]
    ELSE IF Found(t, k) = {} THEN 0 ELSE ext[First(Found(t, k))].value

SetLocked(t, k, v) ==
    IF k < InlineKeys
    THEN tsd' = [tsd EXCEPT ![t][k] = v] /\ UNCHANGED ext
    ELSE /\ UNCHANGED tsd
         /\ ext' = IF Found(t, k) # {}
                   THEN LET n == First(Found(t, k)) IN
                        IF v # 0 THEN [ext EXCEPT ![n].value = v] ELSE RemoveAt(ext, n)
                   ELSE IF v # 0 THEN <<[thread |-> t, key |-> k, value |-> v]>> \o ext ELSE ext

\* pthread_setspecific with NULL, or with a value for the key's present meaning.
Set(t, k, null) ==
    /\ Running(t) /\ Valid(k)
    /\ LET v == IF null THEN 0 ELSE keys[k + 1].gen IN
           /\ SetLocked(t, k, v)
           /\ used' = [used EXCEPT ![t] = @ \/ v # 0]
    /\ UNCHANGED <<table, alive, exit, creates, gaveup, crashed>>

\* Any use of a key below keys_capacity of an absent table.
UseAbsent(t) ==
    /\ Running(t) /\ absent /\ crashed' = TRUE
    /\ UNCHANGED <<table, tsd, ext, used, alive, exit, creates, gaveup>>

-----------------------------------------------------------------------------
(***************************************************************************)
(* pthread_key_create and pthread_key_delete.                              *)
(***************************************************************************)

Start == IF next < Len(keys) THEN next ELSE 0
Free == {k \in 0..(Len(keys) - 1) : keys[k + 1] = None}
Behind == {k \in Free : k >= Start}

\* The search from the start to the end and then from the beginning.
Index == IF Behind # {} THEN First(Behind)
         ELSE IF Free # {} THEN First(Free) ELSE Len(keys)

Install(index, d, capacity) ==
    LET grown == [n \in 1..capacity |-> IF n <= Len(keys) THEN keys[n] ELSE None] IN
    /\ keys' = [grown EXCEPT ![index + 1] = [dtor |-> d, gen |-> creates + 1]]
    /\ next' = IF index + 1 < capacity THEN index + 1 ELSE 0
    /\ creates' = creates + 1

\* The table is allocated with one entry, or doubled when it is full.
Create(t, d) ==
    /\ Running(t) /\ ~absent /\ creates < MaxCreates
    /\ LET room == IF keys = <<>> THEN 1
                   ELSE IF Index = Len(keys) THEN 2 * Len(keys) ELSE Len(keys) IN
           /\ room <= MaxCapacity
           /\ Install(Index, d, room)
    /\ UNCHANGED <<absent, tsd, ext, used, alive, exit, gaveup, crashed>>

\* The first allocation fails, with keys_capacity already set.  When doubling the
\* table fails nothing changes.
CreateFails(t) ==
    /\ Running(t) /\ keys = <<>> /\ ~absent
    /\ absent' = TRUE
    /\ UNCHANGED <<keys, next, tsd, ext, used, alive, exit, creates, gaveup, crashed>>

\* The values of all threads go with the key, and the table with the last key.
Delete(t, k) ==
    /\ Running(t) /\ Valid(k)
    /\ IF k < InlineKeys
       THEN /\ tsd' = [u \in Thread |-> IF u \in alive THEN [tsd[u] EXCEPT ![k] = 0] ELSE tsd[u]]
            /\ UNCHANGED ext
       ELSE ext' = SelectSeq(ext, LAMBDA e : e.key # k) /\ UNCHANGED tsd
    /\ LET rest == [keys EXCEPT ![k + 1] = None] IN
       IF \A n \in DOMAIN rest : rest[n] = None
       THEN keys' = <<>> /\ next' = 0
       ELSE keys' = rest /\ UNCHANGED next
    /\ UNCHANGED <<absent, used, alive, exit, creates, gaveup, crashed>>

-----------------------------------------------------------------------------
(***************************************************************************)
(* Threads: creation, the destructors at exit, and fork.                   *)
(***************************************************************************)

\* pthread_create: the slots are in fresh memory.
Spawn(t) ==
    /\ pc[t] = "dead" /\ ~crashed
    /\ alive' = alive \cup {t} /\ pc' = [pc EXCEPT ![t] = "run"]
    /\ tsd' = [tsd EXCEPT ![t] = [k \in 0..(InlineKeys - 1) |-> 0]]
    /\ UNCHANGED <<table, ext, used, j, i, creates, gaveup, crashed>>

\* The head of the loop over the iterations.
NextPass(t, n) ==
    IF used[t] /\ n < Iterations
    THEN /\ used' = [used EXCEPT ![t] = FALSE]
         /\ pc' = [pc EXCEPT ![t] = "pass"]
         /\ j' = [j EXCEPT ![t] = n] /\ i' = [i EXCEPT ![t] = 0]
         /\ UNCHANGED <<alive, gaveup>>
    ELSE /\ pc' = [pc EXCEPT ![t] = "dead"] /\ alive' = alive \ {t}
         /\ gaveup' = IF used[t] THEN gaveup \cup {t} ELSE gaveup
         /\ j' = [j EXCEPT ![t] = 0] /\ i' = [i EXCEPT ![t] = 0]
         /\ used' = [used EXCEPT ![t] = FALSE]

Exit(t) ==
    /\ pc[t] = "run" /\ ~crashed /\ alive # {t}
    /\ NextPass(t, 0)
    /\ UNCHANGED <<table, tsd, ext, creates, crashed>>

\* Mutant: only values with a destructor are cleared.
VisitDestroyed(t) ==
    /\ pc[t] = "pass" /\ ~crashed /\ ~absent /\ i[t] < Capacity
    /\ IF Valid(i[t]) /\ GetLocked(t, i[t]) # 0 /\ keys[i[t] + 1].dtor
       THEN SetLocked(t, i[t], 0) /\ pc' = [pc EXCEPT ![t] = "call"] /\ UNCHANGED i
       ELSE i' = [i EXCEPT ![t] = @ + 1] /\ UNCHANGED <<pc, tsd, ext>>
    /\ UNCHANGED <<table, used, alive, j, creates, gaveup, crashed>>

\* One key: its value is read and cleared, then its destructor is called.
Visit(t) ==
    /\ pc[t] = "pass" /\ ~crashed /\ i[t] < Capacity
    /\ IF absent
       THEN crashed' = TRUE /\ UNCHANGED <<tsd, ext, pc, i>>
       ELSE /\ SetLocked(t, i[t], 0)
            /\ IF Valid(i[t]) /\ GetLocked(t, i[t]) # 0 /\ keys[i[t] + 1].dtor
               THEN pc' = [pc EXCEPT ![t] = "call"] /\ UNCHANGED i
               ELSE i' = [i EXCEPT ![t] = @ + 1] /\ UNCHANGED pc
            /\ UNCHANGED crashed
    /\ UNCHANGED <<table, used, alive, j, creates, gaveup>>

DtorReturns(t) ==
    /\ pc[t] = "call" /\ ~crashed
    /\ pc' = [pc EXCEPT ![t] = "pass"] /\ i' = [i EXCEPT ![t] = @ + 1]
    /\ UNCHANGED <<table, tsd, ext, used, alive, j, creates, gaveup, crashed>>

EndPass(t) ==
    /\ pc[t] = "pass" /\ ~crashed /\ i[t] >= Capacity
    /\ NextPass(t, j[t] + 1)
    /\ UNCHANGED <<table, tsd, ext, creates, crashed>>

\* The child of fork goes on with one thread; __pthread_key_atfork drops the list
\* entries of the others.
Fork(t) ==
    /\ Running(t) /\ alive # {t}
    /\ alive' = {t}
    /\ pc' = [u \in Thread |-> IF u = t THEN pc[t] ELSE "dead"]
    /\ j' = [u \in Thread |-> IF u = t THEN j[t] ELSE 0]
    /\ i' = [u \in Thread |-> IF u = t THEN i[t] ELSE 0]
    /\ ext' = SelectSeq(ext, LAMBDA e : e.thread = t)
    /\ used' = [u \in Thread |-> u = t /\ used[t]]
    /\ UNCHANGED <<table, tsd, creates, gaveup, crashed>>

-----------------------------------------------------------------------------
Library(t) == Visit(t) \/ DtorReturns(t) \/ EndPass(t)

Next == \E t \in Thread :
    \/ \E d \in BOOLEAN : Create(t, d)
    \/ CreateFails(t) \/ UseAbsent(t)
    \/ \E k \in Key : Delete(t, k) \/ \E null \in BOOLEAN : Set(t, k, null)
    \/ Spawn(t) \/ Exit(t) \/ Fork(t) \/ Library(t)

Spec == Init /\ [][Next]_vars

-----------------------------------------------------------------------------
(***************************************************************************)
(* Properties.                                                             *)
(***************************************************************************)

\* No value outlives its key: what pthread_getspecific would return in a thread for
\* a key was stored by pthread_setspecific since that key was created, though key
\* numbers, the table and the slots of dead threads are all reused.
ValuesCurrent ==
    \A t \in alive, k \in Key :
        GetLocked(t, k) # 0 => Valid(k) /\ GetLocked(t, k) = keys[k + 1].gen

\* The list holds at most one entry for a thread and a key, so that deleting one
\* entry makes the value NULL; and only entries of threads that exist, so that a
\* thread that is given the pthread_t of a dead one starts with NULL, except for
\* threads whose destructors still stored values in the last iteration.
ListExact ==
    /\ \A m, n \in DOMAIN ext : ext[m].thread = ext[n].thread /\ ext[m].key = ext[n].key => m = n
    /\ \A n \in DOMAIN ext : ext[n].thread \in alive \cup gaveup

\* The table is a power of two with at least one key in it, or there is none.  A key
\* whose number is past its end cannot be valid: keys_capacity shrinks only to zero.
TableSound ==
    keys # <<>> => /\ \E n \in 1..Len(keys) : keys[n] # None
                   /\ Len(keys) \in {2 ^ n : n \in 0..MaxCapacity} /\ next < Len(keys)

\* A pass over the keys that ends with tsd_used clear has left nothing: the keys
\* behind it have no value in this thread, whatever keys the other threads have
\* deleted and created meanwhile.
PassClears ==
    \A t \in alive : pc[t] \in {"pass", "call"} /\ ~used[t] =>
        \A k \in Key : k < i[t] => GetLocked(t, k) = 0

\* The thread has exited, or the process crashed.
Exited(t) == pc[t] = "dead" \/ crashed
=============================================================================
