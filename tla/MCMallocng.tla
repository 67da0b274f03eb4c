------------------------------ MODULE MCMallocng ------------------------------
(***************************************************************************)
(* The allocator for TLC: two instances of Mallocng, and SlotHeader.  In    *)
(* the part "nested" two threads use a class of mapped groups, of whose two *)
(* slots one is used at first, and a smaller class whose groups lie in      *)
(* slots of the first.  In the part "race" three threads use one class,    *)
(* with groups of three slots and one that was donated.  The part "header"  *)
(* has two slots of three units, not aligned to the alignment asked for;    *)
(* the sizes leave a rest of every kind: none, the most that three bits     *)
(* hold, the least that needs a word, and units.  In the part "sizes" the   *)
(* state is a call of the functions that compute classes and groups.        *)
(***************************************************************************)
EXTENDS Integers, Sequences, FiniteSets, TLC

CONSTANTS Two, Three, Groups3, Groups2, small, big, Large, Mapped, NoMeta, NoThread,
    Rests,        \* sizes asked for
    MaxUsage      \* bound on ctx.usage_by_class

VARIABLES part, group, active, lock, live, pc, stack, got, blk, seen

vars == <<part, group, active, lock, live, pc, stack, got, blk, seen>>

N == INSTANCE Mallocng WITH
    Thread <- Two, Meta <- Groups3, Class <- {small, big}, Donate <- {},
    Host <- [c \in {small, big} |-> IF c = small THEN big ELSE Mapped],
    Counts <- [c \in {small, big} |-> {2}], FirstActive <- [c \in {small, big} |-> 1]

R == INSTANCE Mallocng WITH
    Thread <- Three, Meta <- Groups2, Class <- {big}, Donate <- {big},
    Host <- [c \in {big} |-> Mapped],
    Counts <- [c \in {big} |-> {3}], FirstActive <- [c \in {big} |-> 1]

H == INSTANCE SlotHeader WITH
    NSlots <- 2, Units <- 3, Base <- 1, Sizes <- Rests, Aligns <- {32}, Counters <- {7},
    mem <- group, ptr <- active, asked <- live

HRest == <<lock, pc, stack, got, blk, seen>>

\* malloc looks for the class of every request below the limit, and makes a group of every
\* class at every usage that alloc_group tells apart, with small and large pages.
Idle == [op |-> "none"]
ChooseClass == \E n \in 0..(H!MMAP_THRESHOLD - 1) : group' = [op |-> "class", n |-> n]
ShapeGroup ==
    \E sc \in H!Class, usage \in 0..MaxUsage, more \in {0, 100}, nosmall \in BOOLEAN,
       page \in {4096, 65536} : \E req \in H!Served(sc) :
        group' = [op |-> "group", sc |-> sc, req |-> req, page |-> page,
                  shape |-> H!alloc_group(sc, usage, more, nosmall, req, page)]

Init ==
    \/ /\ part = "header" /\ H!Init
       /\ lock = 0 /\ pc = 0 /\ stack = 0 /\ got = 0 /\ blk = 0 /\ seen = 0
    \/ /\ part = "sizes" /\ group = Idle
       /\ active = 0 /\ lock = 0 /\ live = 0 /\ pc = 0 /\ stack = 0 /\ got = 0 /\ blk = 0 /\ seen = 0
    \/ part = "nested" /\ N!Init
    \/ part = "race" /\ R!Init

Next ==
    /\ \/ part = "nested" /\ N!Next
       \/ part = "race" /\ R!Next
       \/ part = "header" /\ H!Next /\ UNCHANGED HRest
       \/ /\ part = "sizes" /\ UNCHANGED <<active, live>> /\ UNCHANGED HRest
          /\ \/ group = Idle /\ (ChooseClass \/ ShapeGroup)
             \/ group.op # "none" /\ group' = Idle
    /\ UNCHANGED part

Spec == Init /\ [][Next]_vars

Symmetry == Permutations(Two) \cup Permutations(Three)

-----------------------------------------------------------------------------
\* A slot that neither mask marks has exactly one owner (the program, a thread inside free
\* or malloc, or a group that lies in it), and a marked one has none: malloc gives out no
\* memory that is in use, no slot is lost, and no group is released while one of its slots
\* is in use.  Whenever the lock is free, malloc can find every free slot: a group with one
\* is in the queue of its class, once, behind the head are only groups whose free slots are
\* all in the freed mask, and slots beyond the active range belong to one group at most.
\* The assertions of try_avail, activate_group, queue and free_group hold.
SlotsAccounted ==
    /\ part = "nested" => /\ N!TypeOK /\ N!SlotsAccounted /\ N!QueuesExact
                          /\ N!AssertsHold /\ N!OnePartial
    /\ part = "race" => /\ R!TypeOK /\ R!SlotsAccounted /\ R!QueuesExact
                        /\ R!AssertsHold /\ R!OnePartial

\* From the pointer alone free and realloc find the group, the slot and the size that was
\* asked for, whatever the program has written into its memory; the assertions of get_meta
\* and get_nominal_size hold and look at no byte of the program; enframe and set_size never
\* write into memory that the program has.
PointerDecodes ==
    part = "header" => H!TypeOK /\ H!AssertsHold /\ H!PointerDecodes /\ H!DataIntact

\* size_to_class finds, without a search, the smallest class whose slots hold the request.
\* All slots of a group that alloc_group makes lie in its memory, the request fits into one,
\* the masks have room for them, and every distance from the group fits into 16 bits.  A
\* group that it puts into a slot goes to a larger class, whose slots are whole.
SizesRight ==
    part = "sizes" =>
        /\ group.op = "class" => H!size_to_class(group.n) = H!LeastClass(group.n)
        /\ group.op = "group" => /\ H!SlotsFit(group.sc, group.req, group.shape)
                                 /\ H!HostIsWhole(group.sc, group.page, group.shape)
=============================================================================
