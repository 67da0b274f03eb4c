------------------------------- MODULE Mallocng -------------------------------
(***************************************************************************)
(* The allocator (src/malloc/mallocng): groups of slots, and threads that  *)
(* call malloc and free.                                                   *)
(*                                                                         *)
(* A group has slots of one size class.  Each slot is in use, or marked in *)
(* the group's avail mask (malloc takes it next) or in its freed mask.     *)
(* malloc works under the allocator's lock; free usually marks the slot    *)
(* with a compare-and-swap and takes the lock only for the first slot of a *)
(* full group and for the last one in use.  The lock is that of FutexLock, *)
(* so a critical section begins and ends in one step each; what happens    *)
(* inside is interleaved with the compare-and-swaps of others.  The        *)
(* heuristics that size a group or keep an empty one are choices.          *)
(***************************************************************************)
EXTENDS Integers, Sequences, FiniteSets

CONSTANTS
    Thread, Meta,
    Class,        \* the size classes
    Host,         \* the class whose slots hold the groups of a class, or Mapped
    Counts,       \* the possible numbers of slots of a group
    FirstActive,  \* how many slots of a mapped group are used at first
    Donate,       \* classes that get a group from memory left over by the loader
    Large, Mapped, NoMeta, NoThread

VARIABLES
    group,    \* struct meta and its group, a record; NoMeta when not in use
    active,   \* ctx.active: the circular queue of groups of each class
    lock,     \* holder of __malloc_lock
    live,     \* the slots that the program has
    pc,       \* where each thread is
    stack,    \* calls of alloc_slot in progress, the innermost first
    got,      \* the slot in which a group is about to be placed
    blk,      \* the slot that a thread frees
    seen      \* the mask it has read

vars == <<group, active, lock, live, pc, stack, got, blk, seen>>

NoSlot == <<NoMeta, 0>>
Slot(g) == 0..(group[g].cnt - 1)
Groups == {g \in Meta : group[g] # NoMeta}
Frames == [sc : Class, m : Meta \cup {NoMeta}]
MaxCount == CHOOSE n \in UNION {Counts[c] : c \in Class} :
                \A k \in UNION {Counts[c] : c \in Class} : k <= n
Slots == (Meta \X (0..(MaxCount - 1))) \cup {NoSlot}

TypeOK ==
    /\ \A g \in Groups :
          /\ group[g].sc \in Class \cup {Large} /\ group[g].cnt \in 1..MaxCount
          /\ group[g].avail \subseteq Slot(g) /\ group[g].freed \subseteq Slot(g)
          /\ group[g].act \in 1..group[g].cnt
          /\ group[g].freeable \in BOOLEAN /\ group[g].home \in Slots \cup {Mapped}
    /\ active \in [Class -> Seq(Meta)]
    /\ lock \in Thread \cup {NoThread}
    /\ live \subseteq Slots
    /\ pc \in [Thread -> {"idle", "look", "choose", "activate", "group", "place",
                          "compare", "swap", "lock", "release"}]
    /\ stack \in [Thread -> Seq(Frames)]
    /\ got \in [Thread -> Slots] /\ blk \in [Thread -> Slots]
    /\ seen \in [Thread -> SUBSET (0..(MaxCount - 1))]

Init ==
    /\ group = [g \in Meta |-> NoMeta] /\ active = [c \in Class |-> <<>>]
    /\ lock = NoThread /\ live = {}
    /\ pc = [t \in Thread |-> "idle"] /\ stack = [t \in Thread |-> <<>>]
    /\ got = [t \in Thread |-> NoSlot] /\ blk = [t \in Thread |-> NoSlot]
    /\ seen = [t \in Thread |-> {}]

-----------------------------------------------------------------------------
(***************************************************************************)
(* Queues and masks.                                                       *)
(***************************************************************************)

\* The queue is circular: the new member is put before the head, at the end.
queue(q, g) == Append(q, g)

dequeue(q, g) == SelectSeq(q, LAMBDA h : h # g)

Next1(q) == Append(Tail(q), Head(q))

\* first = mask & -mask
First(mask) == CHOOSE i \in mask : \A j \in mask : i <= j

\* The slots up to active_idx.
Act(g) == 0..(group[g].act - 1)

\* activate_group: the freed slots in the active range become available.
activate_group(r) ==
    [r EXCEPT !.avail = r.freed \cap (0..(r.act - 1)),
              !.freed = r.freed \ (0..(r.act - 1))]

\* alloc_meta: a meta that is not in use (it does not matter which), or none.
FreeMetas ==
    LET free == {g \in Meta : /\ group[g] = NoMeta
                              /\ \A t \in Thread : \A k \in DOMAIN stack[t] : stack[t][k].m # g}
    IN {CHOOSE g \in free : TRUE : x \in {y \in {0} : free # {}}}

Top(t) == Head(stack[t])
Queue(t) == active[Top(t).sc]
HeadOf(t) == Head(Queue(t))

-----------------------------------------------------------------------------
(***************************************************************************)
(* malloc.                                                                 *)
(***************************************************************************)

\* alloc_slot has found a slot: for the program, or for a group to be placed in.
Give(t, b) ==
    /\ stack' = [stack EXCEPT ![t] = Tail(@)]
    /\ IF Len(stack[t]) = 1
       THEN /\ live' = live \cup {b} /\ lock' = NoThread
            /\ pc' = [pc EXCEPT ![t] = "idle"] /\ got' = [got EXCEPT ![t] = NoSlot]
       ELSE /\ got' = [got EXCEPT ![t] = b] /\ pc' = [pc EXCEPT ![t] = "place"]
            /\ UNCHANGED <<live, lock>>

\* No memory: every call of alloc_slot gives its meta back and malloc returns 0.
Fail(t) ==
    /\ stack' = [stack EXCEPT ![t] = <<>>] /\ lock' = NoThread
    /\ pc' = [pc EXCEPT ![t] = "idle"]
    /\ UNCHANGED <<group, active, live, got, blk, seen>>

\* The class c is the one of the size, or the next coarser one while that has no group.
Malloc(t, c) ==
    /\ pc[t] = "idle" /\ lock = NoThread
    /\ IF active[c] # <<>> /\ group[Head(active[c])].avail # {}
       THEN LET h == Head(active[c]) IN
            /\ group' = [group EXCEPT ![h].avail = @ \ {First(@)}]
            /\ live' = live \cup {<<h, First(group[h].avail)>>}
            /\ UNCHANGED <<lock, pc, stack>>
       ELSE /\ lock' = t /\ pc' = [pc EXCEPT ![t] = "look"]
            /\ stack' = [stack EXCEPT ![t] = <<[sc |-> c, m |-> NoMeta]>>]
            /\ UNCHANGED <<group, live>>
    /\ UNCHANGED <<active, got, blk, seen>>

\* A request above MMAP_THRESHOLD has a mapping and a meta of its own.
MallocLarge(t) ==
    /\ pc[t] = "idle" /\ lock = NoThread
    /\ \E g \in FreeMetas :
          /\ group' = [group EXCEPT ![g] =
                [sc |-> Large, cnt |-> 1, avail |-> {}, freed |-> {}, act |-> 1,
                 freeable |-> TRUE, home |-> Mapped]]
          /\ live' = live \cup {<<g, 0>>}
    /\ UNCHANGED <<active, lock, pc, stack, got, blk, seen>>

\* try_avail up to the choice of the group.
Look(t) ==
    /\ pc[t] = "look"
    /\ IF Queue(t) = <<>>
       THEN /\ pc' = [pc EXCEPT ![t] = "group"]
            /\ UNCHANGED <<group, active, lock, live, stack, got>>
       ELSE LET h == HeadOf(t)
                q == IF group[h].freed = {} THEN dequeue(Queue(t), h) ELSE Next1(Queue(t))
            IN IF group[h].avail # {}
               THEN /\ group' = [group EXCEPT ![h].avail = @ \ {First(@)}]
                    /\ Give(t, <<h, First(group[h].avail)>>)
                    /\ UNCHANGED active
               ELSE /\ active' = [active EXCEPT ![Top(t).sc] = q]
                    /\ pc' = [pc EXCEPT ![t] = IF q = <<>> THEN "group" ELSE "choose"]
                    /\ UNCHANGED <<group, lock, live, stack, got>>
    /\ UNCHANGED <<blk, seen>>

\* A group that is wholly free is passed over, so that it can be released; slots beyond
\* the active range are used only if there is no other group.
Choose(t) ==
    /\ pc[t] = "choose" /\ pc' = [pc EXCEPT ![t] = "activate"]
    /\ LET h == HeadOf(t)
           q == IF group[h].freed = Slot(h) /\ group[h].freeable
                THEN Next1(Queue(t)) ELSE Queue(t)
           g == Head(q)
           beyond == group[g].freed \cap Act(g) = {}
       IN /\ active' = [active EXCEPT ![Top(t).sc] = IF beyond THEN Next1(q) ELSE q]
          /\ IF beyond /\ Len(q) = 1
             THEN \E n \in (group[g].act + 1)..group[g].cnt :
                     group' = [group EXCEPT ![g].act = n]
             ELSE UNCHANGED group
    /\ UNCHANGED <<lock, live, stack, got, blk, seen>>

\* activate_group, and the first slot is taken.
Activate(t) ==
    /\ pc[t] = "activate"
    /\ LET h == HeadOf(t)
           r == activate_group(group[h])
       IN /\ r.avail # {}
          /\ group' = [group EXCEPT ![h] = [r EXCEPT !.avail = @ \ {First(@)}]]
          /\ Give(t, <<h, First(r.avail)>>)
    /\ UNCHANGED <<active, blk, seen>>

\* The end of alloc_group and of alloc_slot: the first slot of the new group is taken.
Build(t, m, cnt, act, home) ==
    LET c == Top(t).sc
        q == queue(active[c], m)
    IN /\ group' = [group EXCEPT ![m] =
              [sc |-> c, cnt |-> cnt, avail |-> (0..(act - 1)) \ {0}, freed |-> act..(cnt - 1),
               act |-> act, freeable |-> TRUE, home |-> home]]
       /\ active' = [active EXCEPT ![c] = q]
       /\ Give(t, <<Head(q), 0>>)

\* alloc_group: a mapping of its own, or a slot of the host class.
NewGroup(t) ==
    /\ pc[t] = "group"
    /\ \E m \in FreeMetas :
          IF Host[Top(t).sc] = Mapped
          THEN \E cnt \in Counts[Top(t).sc] :
                  LET act == IF FirstActive[Top(t).sc] < cnt THEN FirstActive[Top(t).sc] ELSE cnt
                  IN Build(t, m, cnt, act, Mapped)
          ELSE /\ stack' = [stack EXCEPT ![t] =
                     <<[sc |-> Host[Top(t).sc], m |-> NoMeta], [Top(t) EXCEPT !.m = m]>> \o Tail(@)]
               /\ pc' = [pc EXCEPT ![t] = "look"]
               /\ UNCHANGED <<group, active, lock, live, got>>
    /\ UNCHANGED <<blk, seen>>

Place(t) ==
    /\ pc[t] = "place"
    /\ \E cnt \in Counts[Top(t).sc] : Build(t, Top(t).m, cnt, cnt, got[t])
    /\ UNCHANGED <<blk, seen>>

\* No meta, or mmap fails.
NoMemory(t) == pc[t] = "group" /\ Fail(t)

-----------------------------------------------------------------------------
(***************************************************************************)
(* free.                                                                   *)
(***************************************************************************)

\* The call, and freed = g->freed_mask.
Free(t, b) ==
    /\ pc[t] = "idle" /\ b \in live
    /\ live' = live \ {b} /\ blk' = [blk EXCEPT ![t] = b]
    /\ seen' = [seen EXCEPT ![t] = group[b[1]].freed]
    /\ pc' = [pc EXCEPT ![t] = "compare"]
    /\ UNCHANGED <<group, active, lock, stack, got>>

\* Mutant: only the last used slot needs the lock.
NeedsLockLast(t, freed, avail) ==
    freed \cup avail \cup {blk[t][2]} = Slot(blk[t][1])

\* avail = g->avail_mask; neither the first free slot nor the last used one is marked here.
NeedsLock(t, freed, avail) ==
    freed = {} \/ freed \cup avail \cup {blk[t][2]} = Slot(blk[t][1])

ReadAvail(t) ==
    /\ pc[t] = "compare"
    /\ pc' = [pc EXCEPT ![t] =
                 IF NeedsLock(t, seen[t], group[blk[t][1]].avail) THEN "lock" ELSE "swap"]
    /\ seen' = [seen EXCEPT ![t] = IF pc'[t] = "lock" THEN {} ELSE @]
    /\ UNCHANGED <<group, active, lock, live, stack, got, blk>>

\* a_cas of the freed mask.
Swap(t) ==
    /\ pc[t] = "swap"
    /\ IF group[blk[t][1]].freed = seen[t]
       THEN /\ group' = [group EXCEPT ![blk[t][1]].freed = @ \cup {blk[t][2]}]
            /\ pc' = [pc EXCEPT ![t] = "idle"]
            /\ blk' = [blk EXCEPT ![t] = NoSlot] /\ seen' = [seen EXCEPT ![t] = {}]
       ELSE /\ pc' = [pc EXCEPT ![t] = "compare"]
            /\ seen' = [seen EXCEPT ![t] = group[blk[t][1]].freed]
            /\ UNCHANGED <<group, blk>>
    /\ UNCHANGED <<active, lock, live, stack, got>>

Mask(g) == group[g].freed \cup group[g].avail

\* wrlock, and nontrivial_free reads the masks.
LockToFree(t) ==
    /\ pc[t] = "lock" /\ lock = NoThread
    /\ lock' = t /\ pc' = [pc EXCEPT ![t] = "release"]
    /\ seen' = [seen EXCEPT ![t] = Mask(blk[t][1])]
    /\ UNCHANGED <<group, active, live, stack, got, blk>>

\* okay_to_free.  A class that bounces between no group and one may keep the last.
okay_to_free(g) ==
    IF ~group[g].freeable THEN {FALSE}
    ELSE IF group[g].sc # Large /\ group[g].home = Mapped /\ active[group[g].sc] = <<g>>
    THEN BOOLEAN ELSE {TRUE}

\* The group leaves its queue, whose new head is activated, and is released.
FreeGroup(t, g) ==
    LET c == group[g].sc
        q == dequeue(active[c], g)
        r == [group EXCEPT ![g] = NoMeta]
    IN /\ IF c = Large THEN active' = active /\ group' = r
          ELSE /\ active' = [active EXCEPT ![c] = q]
               /\ group' = IF g # Head(active[c]) \/ q = <<>> THEN r
                           ELSE [r EXCEPT ![Head(q)] = activate_group(@)]
       /\ IF group[g].home = Mapped
          THEN /\ lock' = NoThread /\ pc' = [pc EXCEPT ![t] = "idle"]
               /\ blk' = [blk EXCEPT ![t] = NoSlot] /\ seen' = [seen EXCEPT ![t] = {}]
          ELSE /\ blk' = [blk EXCEPT ![t] = group[g].home]
               /\ seen' = [seen EXCEPT ![t] = Mask(group[g].home[1])]
               /\ UNCHANGED <<lock, pc>>

\* The slot is marked; the first one brings the group back into its queue.
Mark(t, g, i) ==
    /\ group' = [group EXCEPT ![g].freed = @ \cup {i}]
    /\ active' = LET c == group[g].sc IN
                 IF seen[t] = {} /\ (active[c] = <<>> \/ Head(active[c]) # g)
                 THEN [active EXCEPT ![c] = queue(@, g)] ELSE active
    /\ lock' = NoThread /\ pc' = [pc EXCEPT ![t] = "idle"]
    /\ blk' = [blk EXCEPT ![t] = NoSlot] /\ seen' = [seen EXCEPT ![t] = {}]

nontrivial_free(t) ==
    LET g == blk[t][1]
        i == blk[t][2]
    IN /\ pc[t] = "release"
       /\ \E ok \in okay_to_free(g) :
             IF seen[t] \cup {i} = Slot(g) /\ ok THEN FreeGroup(t, g) ELSE Mark(t, g, i)
       /\ UNCHANGED <<live, stack, got>>

\* donate: a group of one slot that is never released.
donate(c) ==
    /\ \A t \in Thread : pc[t] = "idle"
    /\ \A g \in Groups : group[g].freeable \/ group[g].sc # c
    /\ \E g \in FreeMetas :
          /\ group' = [group EXCEPT ![g] =
                [sc |-> c, cnt |-> 1, avail |-> {}, freed |-> {0}, act |-> 1,
                 freeable |-> FALSE, home |-> Mapped]]
          /\ active' = [active EXCEPT ![c] = queue(@, g)]
    /\ UNCHANGED <<lock, live, pc, stack, got, blk, seen>>

-----------------------------------------------------------------------------

Step(t) ==
    \/ Look(t) \/ Choose(t) \/ Activate(t) \/ NewGroup(t) \/ Place(t) \/ NoMemory(t)
    \/ ReadAvail(t) \/ Swap(t) \/ LockToFree(t) \/ nontrivial_free(t)

Next ==
    \/ \E t \in Thread : \/ Step(t) \/ MallocLarge(t)
                        \/ \E c \in Class : Malloc(t, c)
                        \/ \E b \in live : Free(t, b)
    \/ \E c \in Donate : donate(c)

Spec == Init /\ [][Next]_vars

-----------------------------------------------------------------------------
(***************************************************************************)
(* Properties.                                                             *)
(***************************************************************************)

\* Everybody who relies on a slot: the program, a thread inside free or malloc, or the
\* group that has been placed in it.
Owners(b) ==
    {<<"program", x>> : x \in live \cap {b}}
    \cup {<<"free", t>> : t \in {u \in Thread : blk[u] = b}}
    \cup {<<"malloc", t>> : t \in {u \in Thread : pc[u] = "place" /\ got[u] = b}}
    \cup {<<"group", g>> : g \in {h \in Groups : group[h].home = b}}

\* A slot that neither mask marks has exactly one owner, and a marked one has none: malloc
\* gives out no memory that is in use, no slot is lost, and no group is released, nor is
\* the slot it lies in given to the program, while one of its slots is in use.
SlotsAccounted ==
    /\ \A g \in Groups : \A i \in Slot(g) :
          Cardinality(Owners(<<g, i>>)) =
              IF i \in group[g].avail \cup group[g].freed THEN 0 ELSE 1
    /\ \A g \in Groups : group[g].avail \cap group[g].freed = {}
    /\ \A b \in Slots \ {NoSlot} :
          Owners(b) # {} => b[1] \in Groups /\ b[2] \in Slot(b[1])

OnQueue(g) == \E k \in DOMAIN active[group[g].sc] : active[group[g].sc][k] = g

\* Whenever the lock is free, malloc can find every free slot: a group with one is in the
\* queue of its class, once, and behind the head are only groups whose free slots are all
\* in the freed mask, at least one each.
QueuesExact ==
    lock = NoThread =>
        /\ \A g \in Groups : Mask(g) # {} => OnQueue(g)
        /\ \A c \in Class : \A k \in DOMAIN active[c] :
              /\ active[c][k] \in Groups /\ group[active[c][k]].sc = c
              /\ \A j \in DOMAIN active[c] : active[c][j] = active[c][k] => j = k
              /\ k > 1 => group[active[c][k]].avail = {} /\ group[active[c][k]].freed # {}

\* The assertions of the code hold: activate_group finds nothing available and then
\* something to make available, a group that is queued is in no queue, and a group of a
\* large request is released.
AssertsHold ==
    \A t \in Thread :
        /\ pc[t] = "activate" =>
              /\ group[HeadOf(t)].avail = {}
              /\ group[HeadOf(t)].freed \cap Act(HeadOf(t)) # {}
        /\ pc[t] = "release" /\ seen[t] = {} =>
              LET g == blk[t][1] IN
              IF group[g].sc = Large THEN Slot(g) = {0}
              ELSE OnQueue(g) => Head(active[group[g].sc]) = g

\* Slots beyond the active range belong to at most one group of a class, the last one
\* that was made; this is why try_avail finds a slot after one move along the queue.
OnePartial ==
    \A g, h \in Groups :
        /\ group[g].sc = group[h].sc
        /\ group[g].act < group[g].cnt /\ group[h].act < group[h].cnt
        => g = h

=============================================================================
