------------------------------- MODULE DsoGraph -------------------------------
(***************************************************************************)
(* What the dynamic linker (ldso/dynlink.c) does with the graph of the     *)
(* libraries that need each other: it loads a library's dependencies,      *)
(* gathers all of them for dlsym, and orders the constructors.             *)
(*                                                                         *)
(* direct[l] is the sequence of l's direct dependencies (the first         *)
(* ndeps_direct elements of l->deps); the graph may have cycles.  Marks are *)
(* the flags dso->mark, which must be clear when these functions begin.     *)
(*                                                                         *)
(* Before that map_library maps the file to memory and reclaim_gaps gives   *)
(* to malloc what is left of its pages.                                    *)
(***************************************************************************)
EXTENDS Integers, Sequences, SequencesExt, FiniteSets, FiniteSetsExt

-----------------------------------------------------------------------------
(***************************************************************************)
(* load_deps: the list of loaded libraries grows while it is walked.       *)
(***************************************************************************)

RECURSIVE Append1st(_, _)
\* load_library for a sequence of names: what is not in the list is appended.
Append1st(list, names) ==
    IF names = <<>> THEN list
    ELSE Append1st(IF Contains(list, Head(names)) THEN list ELSE Append(list, Head(names)), Tail(names))

RECURSIVE LoadFrom(_, _, _)
\* load_direct_deps for the i-th element of the list and all that follow.
LoadFrom(needed, list, i) ==
    IF i > Len(list) THEN list ELSE LoadFrom(needed, Append1st(list, needed[list[i]]), i + 1)

-----------------------------------------------------------------------------
(***************************************************************************)
(* extend_bfs_deps.  A run may end early, because memory is exhausted at    *)
(* the i-th dependency: "stop" is that i, and 0 if there is none.           *)
(***************************************************************************)

\* The dependencies of dep that are new.
Fresh(direct, dep, mark) == SelectSeq(direct[dep], LAMBDA x : x \notin mark)

\* What the loop makes of a sequence without marks in it: the first of equals.
Once1st(s) == Append1st(<<>>, s)

RECURSIVE ExtendFrom(_, _, _, _, _, _)
\* deps is p->deps, n is ndeps_all; elements behind the n-th are overwritten.
ExtendFrom(direct, deps, n, mark, i, stop) ==
    IF i > Len(deps) THEN [deps |-> deps, mark |-> {}, built |-> TRUE]
    ELSE IF i = stop THEN [deps |-> deps, mark |-> mark, built |-> FALSE]
    ELSE LET new == Once1st(Fresh(direct, deps[i], mark))
             all == SubSeq(deps, 1, n) \o new
         IN ExtendFrom(direct, all, Len(all), mark \cup ToSet(new), i + 1, stop)

\* Mutant: the direct dependencies are not marked.
ExtendUnmarked(direct, deps, n, mark, stop) == ExtendFrom(direct, deps, n, mark, 1, stop)

extend_bfs_deps(direct, deps, n, mark, stop) == ExtendFrom(direct, deps, n, mark \cup ToSet(deps), 1, stop)

-----------------------------------------------------------------------------
(***************************************************************************)
(* queue_ctors: a search in depth whose stack and whose result share one   *)
(* array, the stack from its end and the result from its beginning.        *)
(***************************************************************************)

\* The array has room for cnt elements.
QueueStart(p, cnt, mark) ==
    [arr |-> [k \in 0 .. cnt - 1 |-> p], qpos |-> 0, spos |-> cnt, cnt |-> cnt, p |-> p,
     next |-> <<>>, mark |-> mark \cup {p}, fits |-> cnt > 0]

\* next_dep of a library, reset when the library is pushed.
NextDep(s, l) == IF l \in DOMAIN s.next THEN s.next[l] ELSE 0
SetNext(s, l, n) == [x \in DOMAIN s.next \cup {l} |-> IF x = l THEN n ELSE s.next[x]]

\* The stack keeps p and the search goes on with a dependency.
Push(s, dep) ==
    [s EXCEPT !.arr[s.spos - 1] = s.p, !.spos = s.spos - 1, !.p = dep,
              !.next = SetNext(s, dep, 0), !.mark = s.mark \cup {dep},
              !.fits = s.fits /\ s.spos - 1 >= s.qpos]

\* All of p's dependencies are queued or on the stack.
QueueIt(s) == [s EXCEPT !.arr[s.qpos] = s.p, !.qpos = s.qpos + 1, !.fits = s.fits /\ s.qpos < s.spos]

RECURSIVE Visit(_, _)
Visit(direct, s) ==
    IF ~s.fits THEN s
    ELSE IF NextDep(s, s.p) < Len(direct[s.p])
    THEN LET dep == direct[s.p][NextDep(s, s.p) + 1]
         IN Visit(direct, IF dep \in s.mark
                          THEN [s EXCEPT !.next = SetNext(s, s.p, NextDep(s, s.p) + 1)]
                          ELSE Push(s, dep))
    ELSE LET q == QueueIt(s)
         IN IF q.spos = q.cnt \/ ~q.fits THEN q
            ELSE Visit(direct, [q EXCEPT !.p = q.arr[q.spos], !.spos = q.spos + 1])

\* The length of the array: p and all of its dependencies, and the 0 at the end.
QueueLength(deps) == Len(deps) + 2

queue_ctors(direct, deps, p, mark) == Visit(direct, QueueStart(p, QueueLength(deps), mark \ ToSet(deps)))
Queue(s) == [k \in 1 .. s.qpos |-> s.arr[k - 1]]

-----------------------------------------------------------------------------
(***************************************************************************)
(* What the functions shall compute.                                       *)
(***************************************************************************)

RECURSIVE Reach(_, _)
\* A set of libraries and what they need, directly or not.
Reach(direct, S) ==
    LET T == S \cup UNION {ToSet(direct[l]) : l \in S} IN IF T = S THEN S ELSE Reach(direct, T)

RECURSIVE Level(_, _, _)
\* The length of a shortest way from a set of libraries to l.
Level(direct, S, l) ==
    IF l \in S THEN 0 ELSE 1 + Level(direct, UNION {ToSet(direct[x]) : x \in S}, l)

\* load_deps loads exactly what root needs, each library once.
LoadsAll(direct, root) ==
    LET list == LoadFrom(direct, <<root>>, 1)
    IN ToSet(list) = Reach(direct, {root}) /\ IsInjective(list)

AllDeps(direct, root) == extend_bfs_deps(direct, direct[root], Len(direct[root]), {}, 0).deps

\* Every dependency, near ones before far ones, none twice.
InBreadth(direct, root) ==
    LET deps == AllDeps(direct, root)
        L(k) == Level(direct, ToSet(direct[root]), deps[k])
    IN /\ ToSet(deps) = Reach(direct, ToSet(direct[root]))
       /\ IsInjective(deps)
       /\ \A i, j \in 1 .. Len(deps) : i < j => L(i) <= L(j)

\* Stack and queue never meet in the array that they share, and the 0 at its end has room.
Fits(direct, root) ==
    LET q == queue_ctors(direct, AllDeps(direct, root), root, {}) IN q.fits /\ q.qpos < q.cnt

\* Every library is queued once and after all that it needs, unless that needs it too.
DepsBefore(direct, root) ==
    LET q == Queue(queue_ctors(direct, AllDeps(direct, root), root, {}))
        At(l) == CHOOSE i \in 1 .. Len(q) : q[i] = l
    IN /\ ToSet(q) = Reach(direct, {root}) /\ IsInjective(q)
       /\ \A l \in ToSet(q) : \A d \in ToSet(direct[l]) :
              At(d) < At(l) \/ l \in Reach(direct, {d})

-----------------------------------------------------------------------------
(***************************************************************************)
(* map_library, for machines with an MMU, and reclaim_gaps.                *)
(*                                                                         *)
(* Memory is a function from addresses to contents: a byte of the file, by  *)
(* its offset, Zero, or Bus where a mapping reaches beyond the file's last   *)
(* page.  A segment [vaddr, offset, filesz, memsz, write] is a program header *)
(* PT_LOAD, and relro the range [start, end) of PT_GNU_RELRO.               *)
(***************************************************************************)

PageSize == 4      \* bounds: pages of four bytes, a file of ten
FileSize == 10
Zero == -1
Bus == -2
Free == -3

Down(a) == a - (a % PageSize)
Up(a) == Down(a + PageSize - 1)

\* mmap of a file: external, the kernel's.
FileByte(o) == IF o < FileSize THEN o ELSE IF o < Up(FileSize) THEN Zero ELSE Bus
Overlay(mem, from, to, content(_)) == [a \in DOMAIN mem \cup from .. to - 1 |-> IF a \in from .. to - 1 THEN content(a) ELSE mem[a]]

-----------------------------------------------------------------------------
\* The first segment in memory, and the range of addresses that the library takes.
First(segs) == CHOOSE i \in DOMAIN segs : \A j \in DOMAIN segs : segs[i].vaddr <= segs[j].vaddr
AddrMin(segs) == Down(segs[First(segs)].vaddr)
AddrMax(segs) == Up(Max({segs[i].vaddr + segs[i].memsz : i \in DOMAIN segs}))
MapLen(segs) == AddrMax(segs) - AddrMin(segs) + Down(segs[First(segs)].offset)

\* One mapping reserves all of it; addresses are relative to the base.
Reserve(segs) ==
    LET off == Down(segs[First(segs)].offset)
    IN Overlay([a \in {} |-> Free], AddrMin(segs), AddrMin(segs) + MapLen(segs),
               LAMBDA a : FileByte(a - AddrMin(segs) + off))

\* A segment that is not the first is mapped over it.
Fixed(mem, s, addrMin) ==
    IF Down(s.vaddr) = addrMin THEN mem
    ELSE Overlay(mem, Down(s.vaddr), Up(s.vaddr + s.memsz), LAMBDA a : FileByte(a - Down(s.vaddr) + Down(s.offset)))

\* Mutant: the rest of the last page is not cleared.
ClearPages(mem, s) ==
    IF s.memsz > s.filesz /\ s.write
    THEN LET brk == s.vaddr + s.filesz
         IN Overlay(mem, Up(brk), Max({brk + ((Up(brk) - brk) % PageSize), Up(s.vaddr + s.memsz)}), LAMBDA a : Zero)
    ELSE mem

\* The rest of the last page with file contents is cleared, the pages after it are new.
Clear(mem, s) ==
    IF s.memsz > s.filesz /\ s.write
    THEN LET brk == s.vaddr + s.filesz
         IN Overlay(mem, brk, Max({brk + ((Up(brk) - brk) % PageSize), Up(s.vaddr + s.memsz)}), LAMBDA a : Zero)
    ELSE mem

RECURSIVE MapFrom(_, _, _, _)
MapFrom(mem, segs, i, addrMin) ==
    IF i > Len(segs) THEN mem
    ELSE MapFrom(Clear(Fixed(mem, segs[i], addrMin), segs[i]), segs, i + 1, addrMin)

map_library(segs) == MapFrom(Reserve(segs), segs, 1, AddrMin(segs))

\* reclaim: a range without the pages that become read-only.
reclaim(relro, start, end) ==
    LET s == IF start >= relro[1] /\ start < relro[2] THEN relro[2] ELSE start
        e == IF end >= relro[1] /\ end < relro[2] THEN relro[1] ELSE end
    IN s .. e - 1

reclaim_gaps(segs, relro) ==
    UNION {reclaim(relro, Down(segs[i].vaddr), segs[i].vaddr) \cup
           reclaim(relro, segs[i].vaddr + segs[i].memsz, Up(segs[i].vaddr + segs[i].memsz))
               : i \in {j \in DOMAIN segs : segs[j].write /\ segs[j].memsz # 0}}

-----------------------------------------------------------------------------
(***************************************************************************)
(* What the functions shall compute.                                       *)
(***************************************************************************)

\* The addresses of a segment.
Bytes(s) == s.vaddr .. s.vaddr + s.memsz - 1

\* Every segment holds its part of the file and, if it is writable, zeros behind it.
HoldsImage(segs) ==
    LET mem == map_library(segs)
    IN \A i \in DOMAIN segs :
           LET s == segs[i]
           IN \A a \in Bytes(s) :
               IF a < s.vaddr + s.filesz THEN mem[a] = s.offset + (a - s.vaddr)
               ELSE s.write => mem[a] = Zero

\* Nothing was mapped or cleared beyond the reservation.
StaysInside(segs) ==
    DOMAIN map_library(segs) = AddrMin(segs) .. AddrMin(segs) + MapLen(segs) - 1

\* What malloc is given is mapped memory that no segment uses and that stays writable.
GivesUnused(segs, relro) ==
    LET mem == map_library(segs)
    IN \A a \in reclaim_gaps(segs, relro) :
           /\ a \in DOMAIN mem /\ mem[a] # Bus
           /\ \A i \in DOMAIN segs : a \notin Bytes(segs[i])
           /\ a \notin relro[1] .. relro[2] - 1
           /\ \E i \in DOMAIN segs :
                 segs[i].write /\ a \in Down(segs[i].vaddr) .. Up(segs[i].vaddr + segs[i].memsz) - 1
=============================================================================
