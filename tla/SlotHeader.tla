------------------------------ MODULE SlotHeader ------------------------------
(***************************************************************************)
(* The in-band headers of the allocator (src/malloc/mallocng), byte by byte. *)
(*                                                                         *)
(* A pointer p has four bytes before it: p[-4], the slot's number and the   *)
(* size of the unused rest in p[-3], and the distance from the group in     *)
(* p[-2] and p[-1].  Where p is in its slot changes from use to use, and    *)
(* the header at the start of the slot remembers it.  The bytes of a group  *)
(* are a function; what the program writes is the value User.              *)
(***************************************************************************)
EXTENDS Integers, Sequences, FiniteSets

CONSTANTS
    NSlots,    \* slots of the group
    Units,     \* size of a slot in units
    Base,      \* address of the group, in units
    Sizes,     \* requested sizes
    Aligns,    \* requested alignments, powers of two above UNIT
    Counters   \* possible values of ctx.mmap_counter

UNIT == 16
IB == 4
stride == Units * UNIT

User == -1
Slot == 0..(NSlots - 1)
Address == 0..(UNIT + NSlots * stride - 1)

VARIABLES
    mem,   \* the bytes of the group
    ptr,   \* the pointer that the program has for each slot, or 0
    asked   \* the size it has asked for

vars == <<mem, ptr, asked>>

\* g->mem->storage + stride*idx, and where the usable part ends.
start(i) == UNIT + stride * i
end(i) == start(i) + stride - IB

TypeOK ==
    /\ mem \in [Address -> 0..255 \cup {User}]
    /\ ptr \in [Slot -> Address]
    /\ asked \in [Slot -> 0..(stride - IB)]

\* Fresh memory is zero.
Init ==
    /\ mem = [a \in Address |-> 0]
    /\ ptr = [i \in Slot |-> 0] /\ asked = [i \in Slot |-> 0]

-----------------------------------------------------------------------------
(***************************************************************************)
(* Reading and writing.                                                    *)
(***************************************************************************)

read16(m, a) == m[a] + 256 * m[a + 1]
read32(m, a) == read16(m, a) + 65536 * read16(m, a + 2)

Write8(m, a, v) == [m EXCEPT ![a] = v]
Write16(m, a, v) == [m EXCEPT ![a] = v % 256, ![a + 1] = v \div 256]
Write32(m, a, v) == Write16(Write16(m, a, v % 65536), a + 2, v \div 65536)

\* The program fills its memory.
Fill(m, p, n) == [a \in Address |-> IF a \in p..(p + n - 1) THEN User ELSE m[a]]

\* set_size: the unused rest is recorded in three bits, or in a word at the end.
set_size(m, p, e, n) ==
    LET reserved == e - p - n
        m1 == IF reserved > 0 THEN Write8(m, e - reserved, 0) ELSE m
        m2 == IF reserved >= 5
              THEN Write8(Write32(m1, e - 4, reserved), e - 5, 0) ELSE m1
        r == IF reserved >= 5 THEN 5 ELSE reserved
    IN Write8(m2, p - 3, (m[p - 3] % 32) + 32 * r)

\* The slack with all bits below its highest one set.
Smear(slack) == CHOOSE m \in {0, 1, 3, 7, 15, 31, 63, 127, 255} :
                   m >= slack /\ \A k \in {0, 1, 3, 7, 15, 31, 63, 127, 255} : k >= slack => k >= m

\* Mutant: an offset above the slack is only masked.
OffsetUncut(m, i, n, ctr) ==
    LET p == start(i)
        slack == (stride - IB - n) \div UNIT
        off == (IF m[p - 3] # 0 THEN read16(m, p - 2) + 1 ELSE ctr) % 256
        low == off % (Smear(slack) + 1)
    IN IF off <= slack THEN off ELSE low

\* Where in the slot the pointer shall be, in units.
Offset(m, i, n, ctr) ==
    LET p == start(i)
        slack == (stride - IB - n) \div UNIT
        off == (IF m[p - 3] # 0 THEN read16(m, p - 2) + 1 ELSE ctr) % 256
        low == off % (Smear(slack) + 1)
    IN IF off <= slack THEN off ELSE IF low > slack THEN low - (slack + 1) ELSE low

\* enframe
enframe(m, i, n, ctr) ==
    LET s == start(i)
        off == Offset(m, i, n, ctr)
        p == s + UNIT * off
        m1 == IF off = 0 THEN m
              ELSE Write8(Write16(Write8(m, s - 3, 7 * 32), s - 2, off), p - 4, 0)
        m2 == Write8(Write16(m1, p - 2, (p - UNIT) \div UNIT), p - 3, i)
    IN [mem |-> set_size(m2, p, end(i), n), ptr |-> p]

\* get_slot_index, and the base of the group as get_meta finds it.
get_slot_index(m, p) == m[p - 3] % 32
get_offset(m, p) == IF m[p - 4] = 0 THEN read16(m, p - 2) ELSE read32(m, p - 8)
get_base(m, p) == p - UNIT * get_offset(m, p) - UNIT

\* get_nominal_size
reserved(m, p, e) == IF m[p - 3] \div 32 >= 5 THEN read32(m, e - 4) ELSE m[p - 3] \div 32
get_nominal_size(m, p, e) == e - reserved(m, p, e) - p

-----------------------------------------------------------------------------
(***************************************************************************)
(* Operations.                                                             *)
(***************************************************************************)

Malloc(i, n, ctr) ==
    /\ ptr[i] = 0 /\ n <= stride - IB
    /\ LET f == enframe(mem, i, n, ctr) IN
       /\ mem' = Fill(f.mem, f.ptr, n)
       /\ ptr' = [ptr EXCEPT ![i] = f.ptr] /\ asked' = [asked EXCEPT ![i] = n]

\* aligned_alloc: malloc of a larger size, and the pointer moves up to the alignment.
AlignedAlloc(i, align, len, ctr) ==
    /\ ptr[i] = 0 /\ len + align - UNIT <= stride - IB
    /\ LET f == enframe(mem, i, len + align - UNIT, ctr)
           adj == (align - ((Base * UNIT + f.ptr) % align)) % align
           p == f.ptr + adj
           m1 == Write8(Write16(f.mem, p - 2, (p - UNIT) \div UNIT), p - 4, 0)
           m2 == set_size(Write8(m1, p - 3, i), p, end(i), len)
           m3 == Write8(Write16(m2, start(i) - 2, (p - start(i)) \div UNIT),
                        start(i) - 3, 7 * 32)
           m == IF adj = 0 THEN set_size(f.mem, p, end(i), len) ELSE m3
       IN mem' = Fill(m, p, len) /\ ptr' = [ptr EXCEPT ![i] = p]
    /\ asked' = [asked EXCEPT ![i] = len]

\* realloc in place.
Realloc(i, n) ==
    /\ ptr[i] # 0 /\ n <= end(i) - ptr[i] /\ n # asked[i]
    /\ mem' = Fill(set_size(mem, ptr[i], end(i), n), ptr[i] + asked[i], n - asked[i])
    /\ asked' = [asked EXCEPT ![i] = n]
    /\ UNCHANGED ptr

\* free invalidates the header.
Free(i) ==
    /\ ptr[i] # 0
    /\ mem' = Write16(Write8(mem, ptr[i] - 3, 255), ptr[i] - 2, 0)
    /\ ptr' = [ptr EXCEPT ![i] = 0] /\ asked' = [asked EXCEPT ![i] = 0]

Next ==
    \E i \in Slot :
        \/ \E n \in Sizes :
              \/ \E ctr \in Counters : \/ Malloc(i, n, ctr)
                                       \/ \E a \in Aligns : AlignedAlloc(i, a, n, ctr)
              \/ Realloc(i, n)
        \/ Free(i)

Spec == Init /\ [][Next]_vars

-----------------------------------------------------------------------------
(***************************************************************************)
(* Properties.                                                             *)
(***************************************************************************)

Live == {i \in Slot : ptr[i] # 0}

\* From the pointer alone free and realloc find the group, the slot and the size that was
\* asked for, whatever the program has written into its memory.
PointerDecodes ==
    \A i \in Live :
        /\ get_slot_index(mem, ptr[i]) = i /\ get_base(mem, ptr[i]) = 0
        /\ get_nominal_size(mem, ptr[i], end(i)) = asked[i]

\* The assertions of get_meta, get_nominal_size and enframe hold, and none of them looks at
\* a byte that belongs to the program.
AssertsHold ==
    /\ \A i \in Live :
          LET p == ptr[i]
              o == get_offset(mem, p)
              r == reserved(mem, p, end(i))
          IN /\ o >= Units * i /\ o < Units * (i + 1)
             /\ r <= end(i) - p
             /\ mem[p - 3] \div 32 >= 5 =>
                   mem[p - 3] \div 32 = 5 /\ r >= 5 /\ mem[end(i) - 5] = 0
             /\ mem[end(i) - r] = 0
    /\ \A i \in Slot : mem[start(i) - 4] = 0 /\ mem[end(i)] = 0

\* The allocator never writes into memory that the program has: all of it still holds what
\* the program wrote, lies inside the slot, and is aligned to a unit.
DataIntact ==
    \A i \in Live :
        /\ \A a \in ptr[i]..(ptr[i] + asked[i] - 1) : mem[a] = User
        /\ ptr[i] >= start(i) /\ ptr[i] + asked[i] <= end(i) /\ ptr[i] % UNIT = 0

-----------------------------------------------------------------------------
(***************************************************************************)
(* The arithmetic of the allocator: which size class serves a request, and  *)
(* how alloc_group sizes a group and where it puts it.                      *)
(***************************************************************************)
MMAP_THRESHOLD == 131052
Class == 0..47

-----------------------------------------------------------------------------
(***************************************************************************)
(* Size classes.                                                           *)
(***************************************************************************)

ClassTable == <<
    1, 2, 3, 4, 5, 6, 7, 8, 9, 10, 12, 15, 18, 20, 25, 31, 36, 42, 50, 63,
    72, 84, 102, 127, 146, 170, 204, 255, 292, 340, 409, 511, 584, 682, 818, 1023,
    1169, 1364, 1637, 2047, 2340, 2730, 3276, 4095, 4680, 5460, 6552, 8191>>
size_classes == [sc \in Class |-> ClassTable[sc + 1]]

Log2(n) == CHOOSE k \in 0..30 : 2^k <= n /\ n < 2^(k + 1)
a_clz_32(n) == 31 - Log2(n)

\* Mutant: the last step of the search is left out.
ClassAboveUnrounded(n) ==
    LET i == (28 - a_clz_32(n)) * 4 + 8
        j == IF n > size_classes[i + 1] THEN i + 2 ELSE i
    IN j

\* The table is searched from the class that the highest bit selects.
ClassAbove(n) ==
    LET i == (28 - a_clz_32(n)) * 4 + 8
        j == IF n > size_classes[i + 1] THEN i + 2 ELSE i
    IN IF n > size_classes[j] THEN j + 1 ELSE j

size_to_class(n) ==
    LET u == (n + IB - 1) \div UNIT
    IN IF u < 10 THEN u ELSE ClassAbove(u + 1)

-----------------------------------------------------------------------------
(***************************************************************************)
(* alloc_group.                                                            *)
(***************************************************************************)

small_cnt_tab == <<
    <<30, 30, 30>>, <<31, 15, 15>>, <<20, 10, 10>>, <<31, 15, 7>>, <<25, 12, 6>>,
    <<21, 10, 5>>, <<18, 8, 4>>, <<31, 15, 7>>, <<28, 14, 6>>>>
med_cnt_tab == <<28, 24, 20, 32>>

RoundUp(n, page) == ((n + page - 1) \div page) * page

\* while (cnt > 2 && 4*cnt > usage) cnt = (cnt+1) >> 1
Shrink(count, usage) ==
    LET h[c \in 0..32] == IF c > 2 /\ 4 * c > usage THEN h[(c + 1) \div 2] ELSE c
    IN h[count]

\* while (size*cnt >= 65536*UNIT) cnt >>= 1
Cap(count, size) ==
    LET h[c \in 0..32] == IF size * c >= 65536 * UNIT THEN h[c \div 2] ELSE c
    IN h[count]

\* The number of slots by how many the class has in use.
FirstCount(sc, size, usage) ==
    IF sc < 9
    THEN LET t == small_cnt_tab[sc + 1]
             i == IF 4 * t[1] <= usage THEN 1 ELSE IF 4 * t[2] <= usage THEN 2 ELSE 3
         IN Shrink(t[i], usage)
    ELSE Cap(Shrink(med_cnt_tab[(sc % 4) + 1], usage), size)

\* Fewer slots for a class that is little used, if they would need many pages.
FewerSlots(sc, size, cnt, page) ==
    IF sc % 4 = 1 /\ size * cnt > 8 * page THEN 2
    ELSE IF sc % 4 = 2 /\ size * cnt > 4 * page THEN 3
    ELSE IF sc % 4 = 0 /\ size * cnt > 8 * page THEN 3
    ELSE IF sc % 4 = 0 /\ size * cnt > 2 * page THEN 5
    ELSE cnt

MappedShape(sc, size, count, usage, nosmall, req, page) ==
    LET cnt == IF 4 * count > usage /\ ~nosmall THEN FewerSlots(sc, size, count, page) ELSE count
        single == RoundUp(req + IB + UNIT, page)
        active(c) == LET a == (4096 - UNIT) \div size IN IF a > c THEN c ELSE IF a < 1 THEN 1 ELSE a
    IN IF /\ ~nosmall /\ cnt <= 7
          /\ single < size + UNIT \/ (single >= 4 * page /\ 2 * cnt > usage)
       THEN [cnt |-> 1, needed |-> single, active |-> active(1), host |-> -1]
       ELSE [cnt |-> cnt, needed |-> RoundUp(size * cnt + UNIT, page), active |-> active(cnt),
             host |-> -1]

\* The shape of a new group: slots, bytes mapped (0 for a group in a slot of the class
\* host), slots used at first.
alloc_group(sc, usage, more, nosmall, req, page) ==
    LET size == UNIT * size_classes[sc]
        first == FirstCount(sc, size, usage)
        cnt == IF first = 1 /\ size + UNIT <= page \div 2 THEN 2 ELSE first
    IN IF size * cnt + UNIT > page \div 2
       THEN MappedShape(sc, size, cnt, IF sc % 2 = 0 /\ sc < 32 THEN usage + more ELSE usage,
                        nosmall, req, page)
       ELSE [cnt |-> cnt, needed |-> 0, active |-> cnt,
             host |-> size_to_class(UNIT + cnt * size - IB)]

\* get_stride
get_stride(sc, shape) ==
    IF shape.cnt = 1 /\ shape.needed > 0 THEN shape.needed - UNIT ELSE UNIT * size_classes[sc]

-----------------------------------------------------------------------------
(***************************************************************************)
(* What the functions shall compute.                                       *)
(***************************************************************************)

\* The sizes that a class serves: its own and, as the coarser class of a pair, those of the
\* other; the two ends, and where the request fills a page.
Served(sc) ==
    LET lo == IF sc < 2 THEN 0 ELSE UNIT * size_classes[sc - 2] - IB + 1
        hi == UNIT * size_classes[sc] - IB
    IN {lo, hi} \cup {n \in {4096 * k - IB - UNIT + d : k \in 1..32, d \in {0, 1}} : lo <= n /\ n <= hi}

\* The smallest class whose slots hold the request.
LeastClass(n) ==
    LET fits == {sc \in Class : n <= UNIT * size_classes[sc] - IB}
    IN CHOOSE sc \in fits : \A k \in fits : sc <= k

\* All slots of a new group lie in its memory, the request fits into one, the masks of 32
\* bits have room for them, and every distance from the group fits into 16 bits.
SlotsFit(sc, req, s) ==
    LET room == IF s.host = -1 THEN s.needed ELSE UNIT * size_classes[s.host] - IB
        last == s.cnt * get_stride(sc, s)
    IN /\ s.cnt \in 1..32 /\ s.active \in 1..s.cnt
       /\ UNIT + last - IB <= room
       /\ req + IB <= get_stride(sc, s)
       /\ s.cnt > 1 => last \div UNIT <= 65536
       /\ s.needed % 4096 = 0

\* A group that is put into a slot goes to a larger class, one whose groups always have
\* slots of the full size: only a class with slots above a page gets a mapping that is
\* shorter than a slot.
HostIsWhole(sc, page, s) ==
    /\ s.host # -1 => s.host > sc /\ UNIT * size_classes[s.host] + UNIT <= page
    /\ get_stride(sc, s) < UNIT * size_classes[sc] => UNIT * size_classes[sc] + UNIT > page
=============================================================================
