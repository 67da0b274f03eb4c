-------------------------------- MODULE Dlopen --------------------------------
(***************************************************************************)
(* The dynamic linker's lists (ldso/dynlink.c): the program start, __dls3,  *)
(* and dlopen with the way out, longjmp, that all of its failures take.     *)
(*                                                                         *)
(* dlopen runs under a write lock, so one call is one sequence of steps; it *)
(* may fail in each of them.  A library is its name; what it needs, exports *)
(* and refers to is given by constants.  Of the address space only the     *)
(* library that a reference is bound to is kept.                           *)
(***************************************************************************)
EXTENDS DsoGraph

CONSTANTS
    Libs, App, None,
    Needed,    \* of a library: the sequence of its DT_NEEDED entries
    Preload,   \* LD_PRELOAD
    Exports,   \* of a library: the symbols that it defines
    Refs,      \* of a library: its references [sym, type, weak], type "plt", "data" or "ie"
    TlsLibs,   \* libraries with a TLS segment
    BindNow    \* libraries that do not allow lazy binding

VARIABLES
    list,         \* head .. tail
    syms,         \* head .. syms_tail, linked by syms_next
    lazyHead, lazyNext,   \* lazy_head, dso->lazy_next
    prepared,     \* libraries with dso->lazy
    pending,      \* of a library: the references in dso->lazy
    relocated, bfsBuilt, constructed, mark,    \* the flags of the libraries
    deps,         \* dso->deps, None before load_direct_deps
    tls,          \* libraries in the order of their tls_id
    staticTls,    \* static_tls_cnt
    bound,        \* of a library: for a reference, the library that its symbol is taken from
    call,         \* the call in progress
    oom, twice    \* history: extend_bfs_deps ran out of memory; a library was prepared twice

vars == <<list, syms, lazyHead, lazyNext, prepared, pending, relocated, bfsBuilt, constructed, mark,
          deps, tls, staticTls, bound, call, oom, twice>>

Lists == <<list, syms, tls, deps>>
Flags == <<relocated, bfsBuilt, constructed, mark>>
Lazy == <<lazyHead, lazyNext, prepared, pending>>
History == <<oom, twice>>

Loaded == ToSet(list)
Direct == [l \in Libs |-> IF l = App THEN Preload \o Needed[l] ELSE Needed[l]]
NoneOf == [r \in {} |-> None]

Init ==
    /\ list = <<>> /\ syms = <<>> /\ tls = <<>> /\ staticTls = 0 /\ deps = [l \in Libs |-> None]
    /\ lazyHead = None /\ lazyNext = [l \in Libs |-> None]
    /\ prepared = {} /\ pending = [l \in Libs |-> {}]
    /\ relocated = {} /\ bfsBuilt = {} /\ constructed = {} /\ mark = {}
    /\ bound = [l \in Libs |-> NoneOf]
    /\ call = [stage |-> "boot"] /\ oom = FALSE /\ twice = FALSE

-----------------------------------------------------------------------------
(***************************************************************************)
(* Symbols.                                                                *)
(***************************************************************************)

\* The first library of a chain that defines the symbol.
find_sym(chain, s) ==
    LET found == SelectSeq(chain, LAMBDA l : s \in Exports[l]) IN IF found = <<>> THEN None ELSE Head(found)

\* References that are resolved, with the symbol's library or, if weak, without.
Resolved(refs, chain) == {r \in refs : find_sym(chain, r.sym) # None \/ r.weak}
Binding(refs, chain) == [r \in Resolved(refs, chain) |-> find_sym(chain, r.sym)]

\* References that stay for later, if the library may bind lazily.
Deferred(refs, chain, isLazy) == {r \in refs \ Resolved(refs, chain) : isLazy /\ r.type = "plt"}

\* initial-exec TLS in a library whose TLS came after the start.
DynamicIE(refs, chain, tlsList, n) ==
    \E r \in refs : r.type = "ie" /\ \E i \in n + 1 .. Len(tlsList) : tlsList[i] = find_sym(chain, r.sym)

\* do_relocs ends without an error.
RelocsOk(refs, chain, isLazy, tlsList, n) ==
    /\ refs = Resolved(refs, chain) \cup Deferred(refs, chain, isLazy)
    /\ ~DynamicIE(refs, chain, tlsList, n)

Merge(f, g) == [r \in DOMAIN f \cup DOMAIN g |-> IF r \in DOMAIN g THEN g[r] ELSE f[r]]

-----------------------------------------------------------------------------
(***************************************************************************)
(* __dls3: the program with all that it needs, as far as the files exist    *)
(* and the symbols are found; if not the process exits.                    *)
(***************************************************************************)
Boot ==
    /\ call.stage = "boot"
    /\ LET all == LoadFrom(Direct, <<App>> \o Preload, 1)
           t   == SelectSeq(all, LAMBDA l : l \in TlsLibs)
       IN /\ \A l \in ToSet(all) : RelocsOk(Refs[l], all, FALSE, t, Len(t))
          /\ list' = all /\ syms' = all /\ tls' = t /\ staticTls' = Len(t)
          /\ deps' = [l \in Libs |-> IF l \in ToSet(all) THEN Direct[l] ELSE None]
          /\ bound' = [l \in Libs |-> IF l \in ToSet(all) THEN Binding(Refs[l], all) ELSE NoneOf]
          /\ relocated' = ToSet(all) /\ constructed' = ToSet(Queue(queue_ctors(Direct, all, App, {})))
    /\ call' = [stage |-> "idle"]
    /\ UNCHANGED <<Lazy, bfsBuilt, mark, History>>

-----------------------------------------------------------------------------
(***************************************************************************)
(* dlopen.                                                                 *)
(***************************************************************************)

\* What the library calls read: the lists, the bindings and the flags of the libraries in the
\* list, and the libraries that dlsym searches for a handle.
Observed == [list |-> list, syms |-> syms, tls |-> tls, bound |-> bound, pending |-> pending,
             lazyHead |-> lazyHead, relocated |-> relocated, constructed |-> constructed,
             deps |-> deps, bfsBuilt |-> bfsBuilt, mark |-> mark]

\* The call begins; what the way out needs is saved.
dlopen(f, mode) ==
    /\ call.stage = "idle"
    /\ call' = [stage |-> "load", p |-> f, mode |-> mode, orig |-> Observed, at |-> 0, queue |-> <<>>]
    /\ UNCHANGED <<Lists, Flags, Lazy, staticTls, bound, History>>

Stage(from, to) == call.stage = from /\ call' = [call EXCEPT !.stage = to]

\* The list with further libraries, which get their tls_id.
Enlist(all) ==
    /\ list' = all
    /\ tls' = tls \o SelectSeq(SubSeq(all, Len(list) + 1, Len(all)), LAMBDA l : l \in TlsLibs)

\* The library is found in the list, mapped and put there, or neither.
load_library ==
    /\ call.stage = "load"
    /\ \/ /\ call.p \in Loaded /\ Stage("load", "deps") /\ UNCHANGED <<list, tls>>
       \/ /\ call.p \notin Loaded /\ "noload" \notin call.mode
          /\ Stage("load", "deps") /\ Enlist(Append(list, call.p))
       \/ call.p \notin Loaded /\ call' = [stage |-> "idle"] /\ UNCHANGED <<list, tls>>
    /\ UNCHANGED <<syms, deps, Flags, Lazy, staticTls, bound, History>>

Position(l) == CHOOSE i \in 1 .. Len(list) : list[i] = l

\* load_deps does nothing for a library that has them.
SkipDeps ==
    /\ call.stage = "deps" /\ call.at = 0 /\ deps[call.p] # None
    /\ call' = [call EXCEPT !.stage = "bfs"]
    /\ UNCHANGED <<Lists, Flags, Lazy, staticTls, bound, History>>

\* The libraries that one library of the list needs.
load_direct_deps ==
    /\ call.stage = "deps" /\ (call.at = 0 => deps[call.p] = None)
    /\ LET i == IF call.at = 0 THEN Position(call.p) ELSE call.at
       IN IF i > Len(list)
          THEN call' = [call EXCEPT !.stage = "bfs"] /\ UNCHANGED <<list, tls, deps>>
          ELSE \/ /\ Enlist(Append1st(list, Needed[list[i]]))
                  /\ deps' = [deps EXCEPT ![list[i]] = Needed[list[i]]]
                  /\ call' = [call EXCEPT !.at = i + 1]
               \/ \E k \in 0 .. Len(Needed[list[i]]) :      \* the next one is not found
                    /\ Enlist(Append1st(list, SubSeq(Needed[list[i]], 1, k)))
                    /\ deps' = [deps EXCEPT ![list[i]] = SubSeq(Needed[list[i]], 1, k)]
                    /\ call' = [call EXCEPT !.stage = "unwind"]
    /\ UNCHANGED <<syms, Flags, Lazy, staticTls, bound, History>>

\* extend_bfs_deps for the library of the call.
Extend ==
    /\ call.stage = "bfs"
    /\ IF call.p \in bfsBuilt THEN Stage("bfs", "queue") /\ UNCHANGED <<deps, bfsBuilt, mark, oom>>
       ELSE \E stop \in 0 .. Len(deps[call.p]) :
              LET e == extend_bfs_deps(Direct, deps[call.p], Len(Direct[call.p]), mark, stop)
              IN /\ deps' = [deps EXCEPT ![call.p] = e.deps] /\ mark' = e.mark
                 /\ bfsBuilt' = bfsBuilt \cup (IF e.built THEN {call.p} ELSE {})
                 /\ oom' = (oom \/ ~e.built)
                 /\ Stage("bfs", IF e.built THEN "queue" ELSE "unwind")
    /\ UNCHANGED <<list, syms, tls, relocated, constructed, Lazy, staticTls, bound, twice>>

\* The constructors to be run, in an array that must be allocated.
Queueing ==
    /\ \/ /\ Stage("queue", "unwind") /\ call.p \notin constructed /\ mark' = mark \ ToSet(deps[call.p])
       \/ /\ call.stage = "queue" /\ call.p \in constructed
          /\ call' = [call EXCEPT !.stage = "lazy"] /\ UNCHANGED mark
       \/ /\ call.stage = "queue" /\ call.p \notin constructed
          /\ LET q == queue_ctors(Direct, deps[call.p], call.p, mark)
             IN /\ call' = [call EXCEPT !.stage = "lazy", !.queue = Queue(q)]
                /\ mark' = mark \ (ToSet(deps[call.p]) \cup ToSet(Queue(q)))
    /\ UNCHANGED <<Lists, relocated, bfsBuilt, constructed, Lazy, staticTls, bound, History>>

\* The libraries that prepare_lazy is called for, in order.
ToPrepare ==
    IF "lazy" \in call.mode /\ call.p \notin relocated
    THEN SelectSeq(<<call.p>> \o deps[call.p], LAMBDA l : l \notin relocated \cup BindNow)
    ELSE <<>>

\* The links of the list after its head was put before each of a sequence of libraries.
RECURSIVE Linked(_, _, _)
Linked(s, head, next) ==
    IF s = <<>> THEN next ELSE Linked(Tail(s), Head(s), [next EXCEPT ![Head(s)] = head])

prepare_lazy ==
    /\ call.stage = "lazy"
    /\ \E k \in 0 .. Len(ToPrepare) :
         LET s == SubSeq(ToPrepare, 1, k)
         IN /\ lazyNext' = Linked(s, lazyHead, lazyNext)
            /\ lazyHead' = IF k = 0 THEN lazyHead ELSE s[k]
            /\ prepared' = prepared \cup ToSet(s)
            /\ twice' = (twice \/ ~IsInjective(s))
            /\ Stage("lazy", IF k = Len(ToPrepare) THEN "syms" ELSE "unwind")
    /\ UNCHANGED <<Lists, Flags, pending, staticTls, bound, oom>>

\* The symbols of the library and of what it needs become visible, for the time being at least.
add_syms ==
    /\ Stage("syms", IF call.p \in relocated THEN "end" ELSE "reloc")
    /\ syms' = IF call.p \notin relocated \/ "global" \in call.mode
               THEN Append1st(syms, <<call.p>> \o deps[call.p]) ELSE syms
    /\ UNCHANGED <<list, tls, deps, Flags, Lazy, staticTls, bound, History>>

\* The libraries of the list from the call's on that are not relocated yet.
Unrelocated == SelectSeq(SubSeq(list, Position(call.p), Len(list)), LAMBDA l : l \notin relocated)

\* reloc_all, one library: do_relocs, then the protection of its RELRO pages.
reloc_all ==
    /\ \/ /\ Stage("reloc", IF Len(Unrelocated) = 1 THEN "end" ELSE "reloc")
          /\ LET l == Head(Unrelocated)
             IN /\ RelocsOk(Refs[l], syms, l \in prepared, tls, staticTls)
                /\ relocated' = relocated \cup {l}
                /\ bound' = [bound EXCEPT ![l] = Binding(Refs[l], syms)]
                /\ pending' = [pending EXCEPT ![l] = Deferred(Refs[l], syms, l \in prepared)]
       \/ Stage("reloc", "unwind") /\ UNCHANGED <<relocated, bound, pending>>
    /\ UNCHANGED <<Lists, bfsBuilt, constructed, mark, lazyHead, lazyNext, prepared, staticTls, History>>

\* redo_lazy_relocs from library l on; s is what the loop has made so far.
RECURSIVE Redo(_, _, _)
Redo(l, s, chain) ==
    IF l = None THEN s
    ELSE LET left == Deferred(s.pending[l], chain, TRUE)
             new  == [s EXCEPT !.bound[l] = Merge(s.bound[l], Binding(s.pending[l], chain)),
                               !.pending[l] = left]
         IN Redo(s.next[l],
                 IF left # {} THEN [new EXCEPT !.next[l] = s.head, !.head = l]
                 ELSE [new EXCEPT !.next[l] = None, !.prepared = s.prepared \ {l}],
                 chain)

\* Mutant: the libraries with pending references are not linked again.
RedoUnlinks(chain) ==
    [Redo(lazyHead, [head |-> None, next |-> lazyNext, pending |-> pending, bound |-> bound,
                    prepared |-> prepared], chain) EXCEPT !.head = None]

redo_lazy_relocs(chain) ==
    Redo(lazyHead, [head |-> None, next |-> lazyNext, pending |-> pending, bound |-> bound,
                    prepared |-> prepared], chain)

\* revert_syms: the chain ends where it did.
revert_syms == SubSeq(syms, 1, Len(call.orig.syms))

\* The call succeeds, and its constructors run.
Finish ==
    /\ call.stage = "end"
    /\ syms' = IF "global" \in call.mode THEN syms ELSE revert_syms
    /\ LET r == redo_lazy_relocs(syms')
       IN /\ lazyHead' = r.head /\ lazyNext' = r.next /\ pending' = r.pending
          /\ bound' = r.bound /\ prepared' = r.prepared
    /\ constructed' = constructed \cup ToSet(call.queue)
    /\ call' = [stage |-> "idle"]
    /\ UNCHANGED <<list, tls, deps, relocated, bfsBuilt, mark, staticTls, History>>

\* Mutant: the symbols are not reverted.
UnwindSyms ==
    /\ call.stage = "unwind"
    /\ LET n   == Len(call.orig.list)
           new == ToSet(SubSeq(list, n + 1, Len(list)))
       IN /\ list' = SubSeq(list, 1, n)
          /\ deps' = [l \in Libs |-> IF l \in new THEN None ELSE deps[l]]
          /\ bound' = [l \in Libs |-> IF l \in new THEN NoneOf ELSE bound[l]]
          /\ pending' = [l \in Libs |-> IF l \in new THEN {} ELSE pending[l]]
          /\ lazyNext' = [l \in Libs |-> IF l \in new THEN None ELSE lazyNext[l]]
          /\ relocated' = relocated \ new /\ bfsBuilt' = bfsBuilt \ new /\ mark' = mark \ new
          /\ prepared' = prepared \ new
    /\ UNCHANGED syms
    /\ tls' = SubSeq(tls, 1, Len(call.orig.tls))
    /\ lazyHead' = call.orig.lazyHead
    /\ call' = [stage |-> "idle"]
    /\ UNCHANGED <<constructed, staticTls, History>>

\* longjmp(*rtld_fail): what the call has loaded is freed, and the lists are cut.
Unwind ==
    /\ call.stage = "unwind"
    /\ LET n   == Len(call.orig.list)
           new == ToSet(SubSeq(list, n + 1, Len(list)))
       IN /\ list' = SubSeq(list, 1, n)
          /\ deps' = [l \in Libs |-> IF l \in new THEN None ELSE deps[l]]
          /\ bound' = [l \in Libs |-> IF l \in new THEN NoneOf ELSE bound[l]]
          /\ pending' = [l \in Libs |-> IF l \in new THEN {} ELSE pending[l]]
          /\ lazyNext' = [l \in Libs |-> IF l \in new THEN None ELSE lazyNext[l]]
          /\ relocated' = relocated \ new /\ bfsBuilt' = bfsBuilt \ new /\ mark' = mark \ new
          /\ prepared' = prepared \ new
    /\ syms' = revert_syms
    /\ tls' = SubSeq(tls, 1, Len(call.orig.tls))
    /\ lazyHead' = call.orig.lazyHead
    /\ call' = [stage |-> "idle"]
    /\ UNCHANGED <<constructed, staticTls, History>>

Modes == SUBSET {"lazy", "global", "noload"}

Next ==
    \/ Boot \/ \E f \in Libs \ {App}, mode \in Modes : dlopen(f, mode)
    \/ load_library \/ SkipDeps \/ load_direct_deps \/ Extend \/ Queueing \/ prepare_lazy
    \/ add_syms \/ reloc_all \/ Finish \/ Unwind

Spec == Init /\ [][Next]_vars

-----------------------------------------------------------------------------
Needs(l) == Reach(Direct, ToSet(Direct[l]))
Group(l) == Reach(Direct, {l})

RECURSIVE Chain(_, _)
\* The libraries that a walk along the links from l visits.
Chain(l, seen) == IF l = None \/ l \in seen THEN seen ELSE Chain(lazyNext[l], seen \cup {l})

\* The types of the variables.
TypeOK ==
    /\ list \in Seq(Libs) /\ syms \in Seq(Libs) /\ tls \in Seq(TlsLibs) /\ staticTls \in 0 .. Len(tls)
    /\ lazyHead \in Libs \cup {None} /\ lazyNext \in [Libs -> Libs \cup {None}]
    /\ prepared \subseteq Libs /\ \A l \in Libs : pending[l] \subseteq Refs[l]
    /\ \A l \in Libs : DOMAIN bound[l] \subseteq Refs[l] /\ \A r \in DOMAIN bound[l] : bound[l][r] \in Libs \cup {None}
    /\ \A F \in {relocated, bfsBuilt, constructed, mark} : F \subseteq Libs
    /\ \A l \in Libs : deps[l] = None \/ deps[l] \in Seq(Libs)
    /\ oom \in BOOLEAN /\ twice \in BOOLEAN

\* Between calls nothing leads to a library that has been freed: no list, no binding,
\* no list of dependencies, no lazy list.
NoDangling ==
    call.stage = "idle" =>
        /\ ToSet(syms) \cup ToSet(tls) \cup Chain(lazyHead, {}) \cup prepared \subseteq Loaded
        /\ \A l \in Loaded : /\ ToSet(deps[l]) \subseteq Loaded
                            /\ \A r \in DOMAIN bound[l] : bound[l][r] \in Loaded \cup {None}
        /\ tls = SelectSeq(list, LAMBDA l : l \in TlsLibs)

\* What extend_bfs_deps writes before it fails, and the way out does not undo.
Unreverted == {"deps", "bfsBuilt", "mark"}

\* A dlopen that fails leaves no trace in what other calls read, unless memory has run out in
\* extend_bfs_deps, in this call or an earlier one (oom): the way out resets neither the marks
\* nor the list of a library that was there before.  Even then all else is as it was, dlsym
\* searches the same libraries for every handle that dlopen has given out, and no list holds
\* a library that is not needed.  (What the next dlopen makes of these lists: DepsComplete.)
FailureInvisible ==
    [][call.stage = "unwind" =>
         /\ \A x \in DOMAIN call.orig : x \notin Unreverted \/ ~oom => Observed'[x] = call.orig[x]
         /\ \A l \in call.orig.bfsBuilt : deps'[l] = call.orig.deps[l] /\ l \in bfsBuilt'
         /\ \A l \in Loaded' : ToSet(deps'[l]) \subseteq Needs(l)]_vars

\* Between calls every reference is bound, is weak, or waits in the lazy list.
NothingUnbound ==
    call.stage = "idle" => \A l \in Loaded : l \in relocated /\ Refs[l] = DOMAIN bound[l] \cup pending[l]

\* What waits is found again by the next dlopen, and waits only while no library whose symbols
\* are global defines it.  (But see prepare_lazy: a library that needs itself is linked twice.)
NoLostLazy ==
    call.stage = "idle" =>
        \A l \in Loaded : pending[l] # {} =>
            /\ l \in prepared /\ (~twice => l \in Chain(lazyHead, {}))
            /\ ~twice => \A r \in pending[l] : find_sym(syms, r.sym) = None

\* A library loaded without RTLD_GLOBAL gives its symbols only to those it was loaded with.
BoundInScope ==
    call.stage = "idle" =>
        \A l \in Loaded : \A r \in DOMAIN bound[l] :
            \/ bound[l][r] \in {None} \cup ToSet(syms)
            \/ \E root \in Libs : {l, bound[l][r]} \subseteq Group(root)

\* dlsym on a handle searches all that the library needs, unless memory has run out in
\* extend_bfs_deps, which leaves marks and a list that the next try cuts short.
DepsComplete ==
    call.stage = "idle" /\ ~oom => mark = {} /\ \A l \in bfsBuilt : ToSet(deps[l]) = Needs(l)

\* Every library that stays loaded is constructed.
AllConstructed == call.stage = "idle" /\ ~oom => constructed = Loaded

-----------------------------------------------------------------------------
(***************************************************************************)
(* Instance of Dlopen for TLC.  a needs b, b and c need each other; a waits *)
(* for x of d, b and d for y of a; d refers to the TLS of app, e to b's.  *)
(***************************************************************************)

Ref(s, type, weak) == [sym |-> s, type |-> type, weak |-> weak]

TheLibs == {"app", "a", "b", "c", "d", "e"}
TheNeeded == [app |-> <<>>, a |-> <<"b">>, b |-> <<"c">>, c |-> <<"b">>, d |-> <<>>, e |-> <<"b", "d">>]
ThePreload == <<>>
TheExports == [app |-> {"m", "t"}, a |-> {"y"}, b |-> {"u", "w"}, c |-> {"z"}, d |-> {"x", "w"}, e |-> {}]
TheRefs ==
    [app |-> {Ref("m", "plt", FALSE)},
     a |-> {Ref("x", "plt", FALSE), Ref("z", "data", FALSE)},
     b |-> {Ref("y", "plt", FALSE)},
     c |-> {Ref("w", "data", TRUE)},
     d |-> {Ref("t", "ie", FALSE), Ref("y", "plt", FALSE)},
     e |-> {Ref("u", "ie", FALSE)}]

\* Between calls of dlopen nothing leads to a library that has been freed, and every reference
\* is bound in scope, is weak, or waits.  What waits is in the lazy list, where the next call
\* finds it, unless a library was linked there twice (twice: prepare_lazy does not see that a
\* library which needs itself has its turn twice).  The list of dependencies of every library
\* is complete and every library is constructed, unless memory has once run out in
\* extend_bfs_deps (oom).
LibrariesSound ==
    /\ TypeOK /\ NoDangling /\ NothingUnbound /\ NoLostLazy /\ BoundInScope
    /\ DepsComplete /\ AllConstructed
=============================================================================
