------------------------------- MODULE Patterns -------------------------------
(* POSIX regular expressions (src/regex: regcomp, regexec).                   *)
(*                                                                            *)
(* regcomp parses a pattern into a tree, numbers the places where a group's   *)
(* bounds are recorded (tags), unrolls counted repetitions, and builds a      *)
(* position automaton whose transitions carry tags and assertions.  regexec   *)
(* runs it on all paths at once, or, when the pattern has back references, by *)
(* backtracking.  Characters are small codes (0 is the terminator, -1 an      *)
(* illegal byte sequence), a character-class name, a decimal number and a     *)
(* collating bracket are single tokens.  Allocation failure is left out: its  *)
(* paths only free what was built.  The parser never makes a non-greedy       *)
(* iteration, so the code for minimal tags never runs.                        *)
EXTENDS Integers, Sequences, SequencesExt

------------------------------------------------------------------------------
(* Characters and tokens                                                      *)
Codes == <<"nl", "-", ",", "0", "1", "2", "256", "A", "B", "^", "_", "a", "b", "]", "[",
           "(", ")", "{", "}", "|", "*", "+", "?", ".", "$", "\\", "x", "w", "W", "<">>
Code(c) == CHOOSE k \in 1..Len(Codes) : Codes[k] = c
TRE_CHAR_MAX == Len(Codes)
NL == 1
Digits == {"0", "1", "2", "256"}
Number(c) == CASE c = "0" -> 0 [] c = "1" -> 1 [] c = "2" -> 2 [] OTHER -> 256
RE_DUP_MAX == 255
Upper == {Code("A"), Code("B")}
Lower == {Code("a"), Code("b")}
ToLower(k) == IF k \in Upper THEN k + (Code("a") - Code("A")) ELSE k
ToUpper(k) == IF k \in Lower THEN k - (Code("a") - Code("A")) ELSE k
isctype(k, class) == CASE class = "[:upper:]" -> k \in Upper
                       [] class = "[:alnum:]" -> k \in Upper \union Lower \union {Code(d) : d \in Digits}
                       [] OTHER -> FALSE
Classes == {"[:upper:]", "[:alnum:]"}
IsWord(k) == k = Code("_") \/ isctype(k, "[:alnum:]")

------------------------------------------------------------------------------
(* The tree                                                                   *)
EMPTY == -1
ASSERTION == -2
TAG == -3
BACKREF == -4
\* What an assertion is, and -1 where a literal is no special one.
None == "none"
Nil == [type |-> None]
tre_ast_new_literal(min, max, pos) ==
    [type |-> "lit", min |-> min, max |-> max, pos |-> pos, class |-> None, neg |-> {}, what |-> None,
     sub |-> -1, nsub |-> 0, ntags |-> 0]
Empty == tre_ast_new_literal(EMPTY, -1, -1)
Assertion(w) == [Empty EXCEPT !.min = ASSERTION, !.what = w]
IsSpecial(n) == n.min < 0
IsBackref(n) == n.min = BACKREF
Consumes(n) == ~IsSpecial(n) \/ IsBackref(n)
tre_ast_new_iter(arg, min, max) ==
    [type |-> "iter", arg |-> arg, lo |-> min, hi |-> max, sub |-> -1, nsub |-> arg.nsub, ntags |-> 0]
Two(type, l, r) == [type |-> type, l |-> l, r |-> r, sub |-> -1, nsub |-> l.nsub + r.nsub, ntags |-> 0]
tre_ast_new_union(l, r) == IF l = Nil THEN r ELSE Two("union", l, r)
tre_ast_new_catenation(l, r) == IF l = Nil THEN r ELSE Two("cat", l, r)
\* The node becomes a catenation; what it was moves under it.
Moved(n) == [n EXCEPT !.sub = -1, !.nsub = 0, !.ntags = 0]
Keeping(n, l, r) == [type |-> "cat", l |-> l, r |-> r, sub |-> n.sub, nsub |-> n.nsub, ntags |-> n.ntags]
TagNode(tag) == tre_ast_new_literal(TAG, tag, -1)
tre_add_tag_left(n, tag) == Keeping(n, TagNode(tag), Moved(n))
tre_add_tag_right(n, tag) == Keeping(n, Moved(n), TagNode(tag))

------------------------------------------------------------------------------
(* Parsing.  re is the token sequence; a parser returns what it read (n), the *)
(* index of the next token (s) and err, "ok" if there is none.               *)
At(re, i) == IF i \in 1..Len(re) THEN re[i] ELSE ""
Fails(c, e) == [c EXCEPT !.err = e]

\* Cases of the literals of a bracket, as the ranges the other case makes.
RECURSIVE IcaseFrom(_, _)
IcaseFrom(k, max) ==
    IF k > max THEN <<>>
    ELSE LET swap(j) == IF k \in Lower THEN ToUpper(j) ELSE ToLower(j)
             run == {e \in k..max : \A j \in k..e : swap(j) = swap(k) + (j - k)}
             e == CHOOSE e \in run : e + 1 \notin run
         IN  IF k \notin Upper \union Lower THEN IcaseFrom(k + 1, max)
             ELSE <<[min |-> swap(k), max |-> swap(e), class |-> None]>> \o IcaseFrom(e + 1, max)
add_icase_literals(min, max) == IcaseFrom(min, max)

\* ls: the ranges read so far, neg: the negated classes.
RECURSIVE parse_bracket_terms(_, _, _, _, _, _)
parse_bracket_terms(re, fl, start, s, negate, b) ==
    LET c == At(re, s)
        next == At(re, s + 1)
        class == c \in Classes
        range == ~class /\ next = "-" /\ At(re, s + 2) # "]"
        min == IF class THEN 0 ELSE Code(c)
        max == IF class THEN TRE_CHAR_MAX ELSE IF range THEN Code(At(re, s + 2)) ELSE min
        after == IF range THEN s + 3 ELSE s + 1
        lit == [min |-> min, max |-> max, class |-> IF class THEN c ELSE None]
    IN  IF c = "" THEN Fails(b, "EBRACK")
        ELSE IF c = "]" /\ s # start THEN [b EXCEPT !.s = s + 1]
        ELSE IF c = "-" /\ s # start /\ next # "]" /\ (next # "-" \/ At(re, s + 2) = "]")
        THEN Fails(b, "ERANGE")
        ELSE IF c = "[." THEN Fails(b, "ECOLLATE")
        ELSE IF c = "[:" THEN Fails(b, "ECTYPE")
        ELSE IF range /\ (At(re, s + 2) = "" \/ min > max) THEN Fails(b, "ERANGE")
        ELSE IF class /\ negate
        THEN parse_bracket_terms(re, fl, start, after, negate, [b EXCEPT !.neg = @ \union {c}])
        ELSE parse_bracket_terms(re, fl, start, after, negate,
               [b EXCEPT !.ls = @ \o <<lit>> \o IF "icase" \in fl /\ ~class
                                                THEN add_icase_literals(min, max) ELSE <<>>])

\* The complement of sorted ranges: a gap before each that starts past negmin.
RECURSIVE Gaps(_, _)
Gaps(ls, negmin) ==
    IF ls = <<>> THEN <<>>
    ELSE LET l == Head(ls)
         IN  IF l.min <= negmin THEN Gaps(Tail(ls), IF l.max + 1 > negmin THEN l.max + 1 ELSE negmin)
             ELSE <<[l EXCEPT !.min = negmin, !.max = l.min - 1]>> \o Gaps(Tail(ls), l.max + 1)
parse_bracket(re, fl, s, pos) ==
    LET negate == At(re, s) = "^"
        s0 == IF negate THEN s + 1 ELSE s
        b == parse_bracket_terms(re, fl, s0, s0, negate, [ls |-> <<>>, neg |-> {}, s |-> s0, err |-> "ok"])
        one(k) == [min |-> k, max |-> k, class |-> None]
        all == IF "newline" \in fl THEN Append(b.ls, one(NL)) ELSE b.ls
        sorted == Append(SortSeq(all, LAMBDA p, q : p.min < q.min), one(TRE_CHAR_MAX + 1))
        ranges == IF negate THEN Gaps(sorted, 0) ELSE b.ls
        node(r) == [tre_ast_new_literal(r.min, r.max, pos) EXCEPT !.class = r.class, !.neg = b.neg]
    IN  [n |-> FoldLeft(LAMBDA acc, r : tre_ast_new_union(acc, node(r)), Nil, ranges),
         s |-> b.s, pos |-> pos + 1, ref |-> -1, err |-> b.err]

\* parse_dup: the bounds after a brace; s is 0 when they are malformed.
parse_dup_count(re, s) == IF At(re, s) \in Digits THEN <<s + 1, Number(At(re, s))>> ELSE <<s, -1>>
parse_dup(re, s, ere) ==
    LET lo == parse_dup_count(re, s)
        hi == IF At(re, lo[1]) = "," THEN parse_dup_count(re, lo[1] + 1) ELSE lo
        max == hi[2] min == lo[2]
        close == IF ere THEN hi[1] ELSE hi[1] + 1
    IN  IF \/ max < min /\ max >= 0
           \/ max > RE_DUP_MAX \/ min > RE_DUP_MAX \/ min < 0
           \/ ~ere /\ At(re, hi[1]) # "\\"
           \/ At(re, close) # "}"
        THEN [s |-> 0, min |-> 0, max |-> 0]
        ELSE [s |-> close + 1, min |-> min, max |-> max]

\* marksub: a node that is already a group's gets a parent of its own.
marksub(n, subid) ==
    LET m == IF n.sub >= 0 THEN [Two("cat", Empty, n) EXCEPT !.nsub = n.nsub] ELSE n
    IN  [m EXCEPT !.sub = subid, !.nsub = @ + 1]

tre_expand_macro(c) ==
    CASE c = "w" -> <<"[", "[:alnum:]", "_", "]">>
      [] c = "W" -> <<"[", "^", "[:alnum:]", "_", "]">>
      [] OTHER -> <<>>
ParseLiteral(re, fl, s, pos) ==
    LET k == Code(At(re, s))
        n == IF "icase" \in fl /\ k \in Upper \union Lower
             THEN tre_ast_new_union(tre_ast_new_literal(ToUpper(k), ToUpper(k), pos),
                                    tre_ast_new_literal(ToLower(k), ToLower(k), pos))
             ELSE tre_ast_new_literal(k, k, pos)
    IN  [n |-> n, s |-> s + 1, pos |-> pos + 1, ref |-> -1, err |-> "ok"]
\* start: where the branch began.  ref: the back reference read, or -1.
RECURSIVE parse_atom(_, _, _, _, _)
parse_atom(re, fl, s, start, pos) ==
    LET ere == "ext" \in fl
        c == At(re, s)
        e == At(re, s + 1)
        Got(n, next, p) == [n |-> n, s |-> next, pos |-> p, ref |-> -1, err |-> "ok"]
        Bad(err) == [Got(Nil, s, pos) EXCEPT !.err = err]
        macro == tre_expand_macro(e)
        hex == IF At(re, s + 2) = "{" THEN s + 3 ELSE s + 2
        hexEnd == IF At(re, hex) \in Digits THEN hex + 1 ELSE hex
        v == IF hexEnd = hex THEN 0 ELSE Number(At(re, hex))
        Escape ==
            CASE e = "" -> Bad("EESCAPE")
              [] e = "<" -> Got(Assertion("bow"), s + 2, pos)
              [] e = "x" /\ hex = s + 3 /\ At(re, hexEnd) # "}" -> Bad("EBRACE")
              [] e = "x" -> Got(tre_ast_new_literal(v, v, pos),
                                IF hex = s + 3 THEN hexEnd + 1 ELSE hexEnd, pos + 1)
              [] e \in {"{", "+", "?"} /\ ~ere -> Bad("BADRPT")
              [] e = "|" /\ ~ere -> Got(Empty, s, pos)
              [] ~ere /\ e \in {"1", "2"} ->
                   [Got([tre_ast_new_literal(BACKREF, Number(e), pos) EXCEPT !.what = "ref"], s + 2, pos + 1)
                      EXCEPT !.ref = Number(e)]
              [] OTHER -> ParseLiteral(re, fl, s + 1, pos)
    IN  CASE c = "[" -> parse_bracket(re, fl, s + 1, pos)
          [] c = "\\" -> IF macro # <<>>
                         THEN [parse_atom(macro, fl, 1, 1, pos) EXCEPT !.s = s + 2]
                         ELSE Escape
          [] c = "." -> IF "newline" \in fl
                        THEN Got(tre_ast_new_union(tre_ast_new_literal(0, NL - 1, pos),
                                                   tre_ast_new_literal(NL + 1, TRE_CHAR_MAX, pos + 1)),
                                 s + 1, pos + 2)
                        ELSE Got(tre_ast_new_literal(0, TRE_CHAR_MAX, pos), s + 1, pos + 1)
          [] c = "^" /\ (ere \/ s = start) -> Got(Assertion("bol"), s + 1, pos)
          [] c = "$" /\ (ere \/ e = "" \/ (e = "\\" /\ At(re, s + 2) \in {")", "|"})) ->
               Got(Assertion("eol"), s + 1, pos)
          [] c \in {"*", "{", "+", "?"} /\ ere -> Bad("BADRPT")
          [] c = "" \/ (c = "|" /\ ere) -> Got(Empty, s, pos)
          [] OTHER -> ParseLiteral(re, fl, s, pos)

\* The repetitions that follow an atom: from s, a result like parse_atom's.
RECURSIVE ParseIter(_, _, _, _)
ParseIter(re, fl, start, a) ==
    LET ere == "ext" \in fl
        c == At(re, a.s)
        esc == c = "\\"
        s == IF esc THEN a.s + 1 ELSE a.s
        op == At(re, s)
        dup == IF op = "{" THEN parse_dup(re, s + 1, ere)
               ELSE [s |-> s + 1, min |-> IF op = "+" THEN 1 ELSE 0, max |-> IF op = "?" THEN 1 ELSE -1]
    IN  IF \/ ~esc /\ c # "*" /\ (~ere \/ c \notin {"+", "?", "{"})
           \/ esc /\ (ere \/ op \notin {"+", "?", "{"})
        THEN a
        ELSE IF ~ere /\ s = start + 1 /\ At(re, s - 1) = "^" THEN [a EXCEPT !.s = s]
        ELSE IF dup.s = 0 THEN Fails(a, "BADBR")
        ELSE ParseIter(re, fl, start,
               [a EXCEPT !.s = dup.s,
                         !.n = IF dup.max = 0 THEN Empty ELSE tre_ast_new_iter(@, dup.min, dup.max)])

\* p: the parser's state; the stack holds <<union, branch, group>> per open group.
RECURSIVE ParseFrom(_, _, _)
RECURSIVE AfterAtom(_, _, _, _)
ParseFrom(re, fl, p) ==
    LET ere == "ext" \in fl
        c == At(re, p.s)
        n == At(re, p.s + 1)
        open == IF ere THEN c = "(" ELSE c = "\\" /\ n = "("
        close == IF ere THEN c = ")" /\ p.depth > 0 ELSE c = "\\" /\ n = ")"
        after == IF ere THEN p.s + 1 ELSE p.s + 2
    IN  IF open
        THEN ParseFrom(re, fl, [p EXCEPT !.stack = Append(@, [u |-> p.u, b |-> p.b, id |-> p.subid]),
                                         !.subid = @ + 1, !.s = after, !.start = after,
                                         !.depth = @ + 1, !.u = Nil, !.b = Nil])
        ELSE IF close
        THEN AfterAtom(re, fl, p, [n |-> Empty, s |-> p.s, pos |-> p.pos, ref |-> -1, err |-> "ok"])
        ELSE AfterAtom(re, fl, p, parse_atom(re, fl, p.s, p.start, p.pos))
AfterAtom(re, fl, p, atom) ==
    LET a == IF atom.err = "ok" THEN ParseIter(re, fl, p.start, atom) ELSE atom
        ere == "ext" \in fl
        c == At(re, a.s)
        n == At(re, a.s + 1)
        b == tre_ast_new_catenation(p.b, a.n)
        q == [p EXCEPT !.s = a.s, !.pos = a.pos, !.b = b, !.ref = IF a.ref > @ THEN a.ref ELSE @]
        bar == IF ere THEN c = "|" ELSE c = "\\" /\ n = "|"
        close == IF ere THEN c = ")" /\ p.depth > 0 ELSE c = "\\" /\ n = ")"
        next == IF c = "\\" THEN a.s + 2 ELSE a.s + 1
        u == tre_ast_new_union(p.u, b)
        top == Last(p.stack)
        group == marksub(u, top.id)
    IN  IF a.err # "ok" THEN [tree |-> Nil, subs |-> p.subid, pos |-> p.pos, ref |-> -1, err |-> a.err]
        ELSE IF bar THEN ParseFrom(re, fl, [q EXCEPT !.u = u, !.b = Nil, !.s = next, !.start = next])
        ELSE IF c # "" /\ ~close THEN ParseFrom(re, fl, q)
        ELSE IF (c = "\\" /\ p.depth = 0) \/ (c = "" /\ p.depth > 0)
        THEN [tree |-> Nil, subs |-> p.subid, pos |-> a.pos, ref |-> q.ref, err |-> "EPAREN"]
        ELSE IF c = "" THEN [tree |-> group, subs |-> p.subid, pos |-> a.pos, ref |-> q.ref, err |-> "ok"]
        ELSE AfterAtom(re, fl, [q EXCEPT !.stack = Front(@), !.depth = @ - 1, !.b = top.b, !.u = top.u],
                       [n |-> group, s |-> next, pos |-> a.pos, ref |-> -1, err |-> "ok"])
tre_parse(re, fl) ==
    ParseFrom(re, fl, [s |-> 1, start |-> 1, depth |-> 0, subid |-> 1, u |-> Nil, b |-> Nil, pos |-> 0,
                       ref |-> -1, stack |-> <<[u |-> Nil, b |-> Nil, id |-> 0]>>])

------------------------------------------------------------------------------
(* Tags.  A tag is a position recorded when a transition is taken; a group's   *)
(* bounds are read from the tags that regset held when the tag was placed.    *)
(* regset: the bounds (<<group, is start>>) that the next tag will record.    *)
NoTags == [regset |-> <<>>, parents |-> <<>>, tag |-> 0, next |-> 1, num |-> 0, dir |-> "min",
           so |-> <<>>, eo |-> <<>>, up |-> <<>>, dirs |-> <<>>]
Put(f, k, v) == [x \in DOMAIN f \union {k} |-> IF x = k THEN v ELSE f[x]]
Get(f, k, default) == IF k \in DOMAIN f THEN f[k] ELSE default
tre_purge_regset(t) ==
    LET starts == {r[1] : r \in {q \in ToSet(t.regset) : q[2]}}
        ends == {r[1] : r \in {q \in ToSet(t.regset) : ~q[2]}}
    IN  [t EXCEPT !.so = [g \in DOMAIN @ \union starts |-> IF g \in starts THEN t.tag ELSE @[g]],
                  !.eo = [g \in DOMAIN @ \union ends |-> IF g \in ends THEN t.tag ELSE @[g]],
                  !.regset = <<>>]
\* The bounds waiting are given the current tag, and the next one is current.
Place(t) == [tre_purge_regset(t) EXCEPT !.dirs = Put(@, t.tag, t.dir),
                                        !.tag = t.next, !.num = @ + 1, !.next = @ + 1]
\* One visit returns the node, with its tags in place, and the state.  In the
\* first pass the tree keeps its shape and only counts the tags of each node.
RECURSIVE AddTags(_, _, _)
Tagged(n, t, first) == IF ~first /\ t.regset # <<>> THEN tre_add_tag_left(n, t.tag) ELSE n
Placed(t) == IF t.regset # <<>> THEN Place(t) ELSE t
Waiting(t) == IF t.regset # <<>> THEN 1 ELSE 0
Counted(n, first, k) == IF first THEN [n EXCEPT !.ntags = k] ELSE n
AddLit(n, t, first) ==
    IF Consumes(n) /\ t.regset # <<>>
    THEN <<Counted(Tagged(n, t, first), first, 1), Place(t)>>
    ELSE <<n, t>>
AddCat(n, t, first) ==
    LET reserve == n.l.ntags > 0 /\ n.r.ntags > 0
        after == t.next + n.l.ntags
        l == AddTags(n.l, [t EXCEPT !.next = IF reserve THEN @ + 1 ELSE @], first)
        r == AddTags(n.r, [l[2] EXCEPT !.next = after, !.tag = IF reserve THEN t.next ELSE @], first)
    IN  <<Counted([n EXCEPT !.l = l[1], !.r = r[1]], first, l[1].ntags + r[1].ntags), r[2]>>
AddIter(n, t, first) ==
    LET a == AddTags(n.arg, [Placed(t) EXCEPT !.dir = "min"], first)
    IN  <<Counted(Tagged([n EXCEPT !.arg = a[1]], t, first), first, a[1].ntags + Waiting(t)),
          IF first THEN a[2] ELSE [a[2] EXCEPT !.dir = "max"]>>
\* Both branches start with nothing waiting; what either leaves waits after.
AddUnion(n, t, first) ==
    LET groups == n.nsub > 0
        ltag == IF t.regset # <<>> THEN t.next ELSE t.tag
        rtag == IF t.regset # <<>> THEN t.next + 1 ELSE t.next
        t1 == Placed(t)
        l == AddTags(n.l, IF groups THEN [t1 EXCEPT !.tag = t1.next + 1, !.next = @ + 2] ELSE t1, first)
        r == AddTags(n.r, [l[2] EXCEPT !.regset = <<>>], first)
        t2 == [r[2] EXCEPT !.regset = l[2].regset \o @, !.dir = "max",
                           !.num = IF groups THEN @ + 2 ELSE @,
                           !.dirs = IF groups THEN Put(Put(@, ltag, "max"), rtag, "max") ELSE @]
        end(m, k) == IF groups /\ ~first THEN tre_add_tag_right(m, k) ELSE m
    IN  <<Counted(Tagged([n EXCEPT !.l = end(l[1], ltag), !.r = end(r[1], rtag)], t, first), first,
                  l[1].ntags + r[1].ntags + Waiting(t) + IF groups THEN 2 ELSE 0), t2>>
AddTags(n, t, first) ==
    LET id == n.sub
        in == IF id < 0 THEN t
              ELSE [t EXCEPT !.regset = Append(@, <<id, TRUE>>), !.up = Put(@, id, ToSet(t.parents))]
        deeper == IF id < 0 THEN in ELSE [in EXCEPT !.parents = Append(@, id)]
        v == CASE n.type = "lit" -> AddLit(n, deeper, first)
               [] n.type = "cat" -> AddCat(n, deeper, first)
               [] n.type = "iter" -> AddIter(n, deeper, first)
               [] OTHER -> AddUnion(n, deeper, first)
    IN  IF id < 0 THEN v
        ELSE <<v[1], [v[2] EXCEPT !.regset = Append(@, <<id, FALSE>>), !.parents = t.parents]>>
\* The counting pass, then the placing one; what still waits is at end_tag.
tre_add_tags(tree) ==
    LET v == AddTags(AddTags(tree, NoTags, TRUE)[1], NoTags, FALSE)
    IN  [tree |-> v[1], tags |-> tre_purge_regset(v[2])]

------------------------------------------------------------------------------
(* Counted repetitions are unrolled.  Every literal keeps a position of its   *)
(* own: c.add is added to those of a copy, c.total to the rest of the tree.  *)
Maxi(a, b) == IF a >= b THEN a ELSE b
RECURSIVE CopyAst(_, _, _)
\* flags: "remove" the tags, "maximize" the first, or "".
CopyAst(n, flags, c) ==
    CASE n.type = "lit" ->
           LET tag == n.min = TAG
               pos == IF Consumes(n) THEN n.pos + c.add ELSE n.pos
           IN  IF tag /\ flags = "remove" THEN <<Empty, c>>
               ELSE <<[n EXCEPT !.pos = pos],
                      [c EXCEPT !.copied = IF Consumes(n) THEN @ + 1 ELSE @, !.max = Maxi(@, pos),
                                !.first = @ /\ ~(tag /\ flags = "maximize"),
                                !.dirs = IF tag /\ flags = "maximize" /\ c.first
                                         THEN Put(@, n.max, "max") ELSE @]>>
      [] n.type = "iter" -> LET a == CopyAst(n.arg, flags, c) IN <<[n EXCEPT !.arg = a[1]], a[2]>>
      [] OTHER -> LET l == CopyAst(n.l, flags, c)
                      r == CopyAst(n.r, flags, l[2])
                  IN  <<[n EXCEPT !.l = l[1], !.r = r[1]], r[2]>>
tre_copy_ast(n, flags, c) ==
    LET v == CopyAst(n, flags, [c EXCEPT !.copied = 0, !.first = TRUE])
    IN  <<v[1], [v[2] EXCEPT !.add = @ + v[2].copied]>>

RECURSIVE Required(_, _, _, _)
Required(arg, j, min, acc) ==          \* acc: <<nodes so far, counters, add before the last copy>>
    IF j = min THEN acc
    ELSE LET v == tre_copy_ast(arg, IF j + 1 < min THEN "remove" ELSE "maximize", acc[2])
         IN  Required(arg, j + 1, min, <<tre_ast_new_catenation(acc[1], v[1]), v[2], acc[2].add>>)
RECURSIVE Optional(_, _, _, _)
OptionalOneMore(arg, j, max, acc) ==
    IF j > max THEN acc
    ELSE LET v == tre_copy_ast(arg, "", acc[2])
             seq == IF acc[1] = Nil THEN v[1] ELSE tre_ast_new_catenation(v[1], acc[1])
         IN  Optional(arg, j + 1, max, <<tre_ast_new_union(Empty, seq), v[2], acc[2].add>>)
Optional(arg, j, max, acc) ==
    IF j >= max THEN acc
    ELSE LET v == tre_copy_ast(arg, "", acc[2])
             seq == IF acc[1] = Nil THEN v[1] ELSE tre_ast_new_catenation(v[1], acc[1])
         IN  Optional(arg, j + 1, max, <<tre_ast_new_union(Empty, seq), v[2], acc[2].add>>)
Unroll(n, arg, c) ==
    LET req == Required(arg, 0, n.lo, <<Nil, c, c.add>>)
        star == tre_copy_ast(arg, "", req[2])
        opt == IF n.hi = -1 THEN <<tre_ast_new_iter(star[1], 0, -1), star[2], req[2].add>>
               ELSE Optional(arg, n.lo, n.hi, <<Nil, req[2], req[3]>>)
        seq == IF req[1] = Nil THEN opt[1]
               ELSE IF opt[1] = Nil THEN req[1] ELSE tre_ast_new_catenation(req[1], opt[1])
    IN  <<seq, [opt[2] EXCEPT !.add = opt[3]]>>
RECURSIVE Expand(_, _)
Expand(n, c) ==
    CASE n.type = "lit" ->
           IF Consumes(n)
           THEN <<[n EXCEPT !.pos = @ + c.add], [c EXCEPT !.max = Maxi(@, n.pos + c.add)]>>
           ELSE <<n, c>>
      [] n.type = "iter" ->
           LET counted == n.lo > 1 \/ n.hi > 1
               a == Expand(n.arg, [c EXCEPT !.add = IF counted THEN 0 ELSE @, !.depth = @ + 1])
               back == [a[2] EXCEPT !.add = c.add]
               v == IF counted THEN Unroll(n, a[1], back) ELSE <<[n EXCEPT !.arg = a[1]], back>>
               total == v[2].total + (v[2].add - c.add)
               depth == v[2].depth - 1
           IN  <<v[1], [v[2] EXCEPT !.depth = depth, !.total = total,
                                    !.add = IF depth = 0 THEN total ELSE @]>>
      [] OTHER -> LET l == Expand(n.l, c) r == Expand(n.r, l[2])
                  IN  <<[n EXCEPT !.l = l[1], !.r = r[1]], r[2]>>
tre_expand_ast(tree, pos, dirs) ==
    LET v == Expand(tree, [add |-> 0, total |-> 0, max |-> 0, depth |-> 0, copied |-> 0, first |-> TRUE,
                           dirs |-> dirs])
    IN  [tree |-> v[1], pos |-> Maxi(pos + v[2].total, v[2].max), dirs |-> v[2].dirs]

------------------------------------------------------------------------------
(* The automaton: which positions a subtree may start and end with, whether   *)
(* it may be empty, and the tags and assertions of its empty match.           *)
One(n, min, max, class, neg, ref) ==
    <<[pos |-> n.pos, min |-> min, max |-> max, class |-> class, neg |-> neg, ref |-> ref,
       tags |-> {}, asserts |-> {}]>>
tre_set_union(s1, s2, tags, asserts) ==
    [i \in 1..Len(s1) |-> [s1[i] EXCEPT !.tags = @ \union tags, !.asserts = @ \union asserts]] \o s2
\* The tags and assertions of the empty match of a subtree that has one.
RECURSIVE tre_match_empty(_)
tre_match_empty(a) ==
    LET of(i) == tre_match_empty(a.kids[i])
    IN  CASE a.type = "lit" -> [tags |-> a.tags, asserts |-> a.asserts]
          [] a.type = "union" -> IF a.kids[1].nul THEN of(1) ELSE of(2)
          [] a.type = "cat" -> [tags |-> of(1).tags \union of(2).tags, asserts |-> of(1).asserts \union of(2).asserts]
          [] OTHER -> IF a.kids[1].nul THEN of(1) ELSE [tags |-> {}, asserts |-> {}]
NflLiteral(n) ==
    LET lit(nul, first, last, tags, asserts) ==
          [type |-> "lit", nul |-> nul, first |-> first, last |-> last, kids |-> <<>>, tags |-> tags, asserts |-> asserts]
    IN  IF IsBackref(n)
        THEN lit(FALSE, One(n, 0, TRE_CHAR_MAX, None, {}, -1), One(n, 0, TRE_CHAR_MAX, None, {}, n.max), {}, {})
        ELSE IF IsSpecial(n)
        THEN lit(TRUE, <<>>, <<>>, IF n.min = TAG THEN {n.max} ELSE {}, IF n.min = ASSERTION THEN {n.what} ELSE {})
        ELSE lit(FALSE, One(n, n.min, n.max, None, {}, -1), One(n, n.min, n.max, n.class, n.neg, -1), {}, {})
NflCatenation(l, r) ==
    LET joined(s1, s2, empty) == LET e == tre_match_empty(empty) IN tre_set_union(s1, s2, e.tags, e.asserts)
    IN  [type |-> "cat", nul |-> l.nul /\ r.nul, kids |-> <<l, r>>,
         first |-> IF l.nul THEN joined(r.first, l.first, l) ELSE l.first,
         last |-> IF r.nul THEN joined(l.last, r.last, r) ELSE r.last]
RECURSIVE tre_compute_nfl(_)
tre_compute_nfl(n) ==
    CASE n.type = "lit" -> NflLiteral(n)
      [] n.type = "union" ->
           LET l == tre_compute_nfl(n.l) r == tre_compute_nfl(n.r)
           IN  [type |-> "union", nul |-> l.nul \/ r.nul, kids |-> <<l, r>>,
                first |-> tre_set_union(l.first, r.first, {}, {}), last |-> tre_set_union(l.last, r.last, {}, {})]
      [] n.type = "iter" ->
           LET a == tre_compute_nfl(n.arg)
           IN  [type |-> IF n.hi = -1 THEN "loop" ELSE "iter", nul |-> n.lo = 0 \/ a.nul, kids |-> <<a>>,
                first |-> a.first, last |-> a.last]
      [] OTHER -> NflCatenation(tre_compute_nfl(n.l), tre_compute_nfl(n.r))

\* From every end p1 to every start p2; a start that repeats the one before it
\* (the two cases of a letter) is the same state.
tre_make_trans(last, first) ==
    LET starts == SelectSeq([i \in 1..Len(first) |-> <<i, first[i]>>],
                            LAMBDA e : e[1] = 1 \/ first[e[1] - 1].pos # e[2].pos)
        trans(p1, p2) == [from |-> p1.pos, min |-> p1.min, max |-> p1.max, to |-> p2.pos,
                          asserts |-> p1.asserts \union p2.asserts, class |-> p1.class, neg |-> p1.neg,
                          ref |-> p1.ref, tags |-> p1.tags \union p2.tags]
    IN  FlattenSeq([i \in 1..Len(last) |-> [j \in 1..Len(starts) |-> trans(last[i], starts[j][2])]])
RECURSIVE tre_ast_to_tnfa(_)
tre_ast_to_tnfa(a) ==
    CASE a.type = "lit" -> <<>>
      [] a.type = "cat" -> tre_make_trans(a.kids[1].last, a.kids[2].first)
                           \o tre_ast_to_tnfa(a.kids[1]) \o tre_ast_to_tnfa(a.kids[2])
      [] a.type = "union" -> tre_ast_to_tnfa(a.kids[1]) \o tre_ast_to_tnfa(a.kids[2])
      [] a.type = "loop" -> tre_make_trans(a.kids[1].last, a.kids[1].first) \o tre_ast_to_tnfa(a.kids[1])
      [] OTHER -> tre_ast_to_tnfa(a.kids[1])

regcomp(re, fl) ==
    LET p == tre_parse(re, fl)
        tagged == p.ref >= 0 \/ "nosub" \notin fl
        g == IF tagged THEN tre_add_tags(p.tree) ELSE [tree |-> p.tree, tags |-> NoTags]
        x == tre_expand_ast(g.tree, p.pos, g.tags.dirs)
        a == tre_compute_nfl(tre_ast_new_catenation(x.tree, tre_ast_new_literal(0, 0, x.pos)))
        trans == tre_ast_to_tnfa(a)
    IN  IF p.err # "ok" THEN [err |-> p.err]
        ELSE IF p.ref > p.subs - 1 THEN [err |-> "ESUBREG"]
        ELSE [err |-> "ok", states |-> x.pos + 1, final |-> x.pos, initial |-> a.first, edges |-> trans,
              trans |-> [s \in 0..x.pos |-> SelectSeq(trans, LAMBDA t : t.from = s)],
              ntags |-> g.tags.num, dirs |-> x.dirs, so |-> g.tags.so, eo |-> g.tags.eo,
              up |-> g.tags.up, subs |-> p.subs, refs |-> p.ref >= 0, fl |-> fl, root |-> a]

------------------------------------------------------------------------------
(* Matching.  str is a sequence of codes; Chr(str, pos) is the character      *)
(* after offset pos: 0 at the end.                                           *)
Chr(str, pos) == IF pos >= 0 /\ pos < Len(str) THEN str[pos + 1] ELSE 0
CHECK_ASSERTIONS(asserts, t, str, prev, pos, ef) ==
    LET next == Chr(str, pos)
        lines == "newline" \in t.fl
    IN  \/ "bol" \in asserts /\ (pos > 0 \/ "notbol" \in ef) /\ (prev # NL \/ ~lines)
        \/ "eol" \in asserts /\ (next # 0 \/ "noteol" \in ef) /\ (next # NL \/ ~lines)
        \/ "bow" \in asserts /\ (IsWord(prev) \/ ~IsWord(next))
tre_neg_char_classes_match(classes, k, icase) ==
    \E c \in classes : IF icase THEN isctype(ToUpper(k), c) \/ isctype(ToLower(k), c) ELSE isctype(k, c)
CHECK_CHAR_CLASSES(tr, t, k) ==
    LET icase == "icase" \in t.fl
    IN  \/ tr.class # None /\ ~icase /\ ~isctype(k, tr.class)
        \/ tr.class # None /\ icase /\ ~isctype(ToLower(k), tr.class) /\ ~isctype(ToUpper(k), tr.class)
        \/ tre_neg_char_classes_match(tr.neg, k, icase)
\* Whether transition tr is taken on character k, after which the offset is pos.
Takes(tr, t, str, k, pos, ef) ==
        /\ tr.min <= k /\ k <= tr.max
        /\ ~CHECK_ASSERTIONS(tr.asserts, t, str, k, pos, ef)
        /\ ~CHECK_CHAR_CLASSES(tr, t, k)
Marked(tags, set, pos) == [g \in DOMAIN tags |-> IF g \in set THEN pos ELSE tags[g]]
\* The first tag that differs decides, by its direction.
tre_tag_order(n, t, t1, t2) ==
    LET differ == {i \in 0..n - 1 : t1[i] # t2[i]}
        i == CHOOSE i \in differ : \A j \in differ : i <= j
    IN  differ # {} /\ IF i \in DOMAIN t.dirs /\ t.dirs[i] = "min" THEN t1[i] < t2[i] ELSE t1[i] > t2[i]

\* r: reach (the states reached at the last offset, in order, with their tags),
\* the match's end and its tags.
IndexOf(reach, s) == LET at == {i \in 1..Len(reach) : reach[i].s = s} IN IF at = {} THEN 0 ELSE CHOOSE i \in at : TRUE
Follow(t, str, pos, ef, n, r, from, tr) ==
    LET tags == Marked(from.tags, tr.tags, pos)
        k == IndexOf(r.reach, tr.to)
        new == k = 0
        better == ~new /\ tre_tag_order(n, t, tags, r.reach[k].tags)
        won == tr.to = t.final /\ (better \/ (new /\ (r.eo = -1 \/ (n > 0 /\ tags[0] <= r.mt[0]))))
    IN  IF ~Takes(tr, t, str, Chr(str, pos - 1), pos, ef) THEN r
        ELSE [reach |-> IF new THEN Append(r.reach, [s |-> tr.to, tags |-> tags])
                        ELSE IF better THEN [r.reach EXCEPT ![k].tags = tags] ELSE r.reach,
              eo |-> IF won THEN pos ELSE r.eo, mt |-> IF won THEN tags ELSE r.mt]
RECURSIVE ParallelFrom(_, _, _, _, _, _)
ParallelFrom(t, str, ef, n, pos, r0) ==
    LET r == IF r0.eo < 0
             THEN FoldLeft(LAMBDA acc, tr :
                    IF IndexOf(acc.reach, tr.pos) # 0 \/ CHECK_ASSERTIONS(tr.asserts, t, str, Chr(str, pos - 1), pos, ef)
                    THEN acc
                    ELSE LET tags == Marked([g \in 0..n - 1 |-> -1], tr.tags, pos)
                             won == tr.pos = t.final
                         IN  [reach |-> Append(acc.reach, [s |-> tr.pos, tags |-> tags]),
                              eo |-> IF won THEN pos ELSE acc.eo, mt |-> IF won THEN tags ELSE acc.mt],
                    r0, t.initial)
             ELSE r0
        edges == FlattenSeq([i \in 1..Len(r.reach) |->
                               [j \in 1..Len(t.trans[r.reach[i].s]) |-> <<r.reach[i], t.trans[r.reach[i].s][j]>>]])
        step == FoldLeft(LAMBDA acc, e : Follow(t, str, pos + 1, ef, n, acc, e[1], e[2]),
                         [r EXCEPT !.reach = <<>>], edges)
    IN  IF r0.eo >= 0 /\ (n = 0 \/ r0.reach = <<>>) THEN r
        ELSE IF Chr(str, pos) = 0 THEN r
        ELSE IF Chr(str, pos + 1) = -1 THEN [r EXCEPT !.eo = -1]
        ELSE ParallelFrom(t, str, ef, n, pos + 1, step)
tre_tnfa_run_parallel(t, str, ef, n) ==
    IF Chr(str, 0) = -1 THEN [reach |-> <<>>, eo |-> -1, mt |-> <<>>]
    ELSE ParallelFrom(t, str, ef, n, 0, [reach |-> <<>>, eo |-> -1, mt |-> [g \in 0..n - 1 |-> -1]])

\* The groups' bounds from the tags (0 for a group that {0} has dropped); one outside an enclosing group is unset.
tre_fill_pmatch(t, tags, eo) ==
    LET at(k) == IF k = t.ntags THEN eo ELSE tags[k]
        raw == [i \in 0..t.subs - 1 |->
                  LET so == at(Get(t.so, i, 0)) e == at(Get(t.eo, i, 0))
                  IN  IF so = -1 \/ e = -1 THEN <<-1, -1>> ELSE <<so, e>>]
        \* in order: a parent has a smaller number than its children
        fix[i \in 0..t.subs - 1] ==
            IF \E p \in Get(t.up, i, {}) : raw[i][1] < fix[p][1] \/ raw[i][2] > fix[p][2] THEN <<-1, -1>> ELSE raw[i]
    IN  fix

------------------------------------------------------------------------------
(* Backtracking.  b: the path (state -1: none, offset, tags), the paths still *)
(* to try, the best match, and the states seen since a back reference        *)
(* consumed something.                                                        *)
RECURSIVE BtLoop(_, _, _, _)
BtTry(t, str, ef, start) ==
    LET fresh == [g \in 0..t.ntags - 1 |-> -1]
        ok == SelectSeq(t.initial, LAMBDA tr : ~CHECK_ASSERTIONS(tr.asserts, t, str, Chr(str, start - 1), start, ef))
        item(tr) == [s |-> tr.pos, pos |-> start, tags |-> Marked(fresh, tr.tags, start)]
    IN  [start |-> start, eo |-> -1, mt |-> fresh, seen |-> {},
         cur |-> IF ok = <<>> THEN [s |-> -1, pos |-> start, tags |-> fresh] ELSE item(ok[1]),
         stack |-> IF ok = <<>> THEN <<>> ELSE [i \in 1..Len(ok) - 1 |-> item(ok[i + 1])]]
IsRef(t, s) == t.trans[s] # <<>> /\ t.trans[s][1].ref >= 0
\* tried: the last start that was tried.  The search gives up where its last path ended at
\* the end of the string, whatever later starts could match.
Backtrack(t, str, ef, b) ==
    IF b.stack # <<>>
    THEN LET top == Last(b.stack)
         IN  BtLoop(t, str, ef, [b EXCEPT !.cur = top, !.stack = Front(@),
                                          !.seen = IF IsRef(t, top.s) THEN @ \ {top.s} ELSE @])
    ELSE IF b.eo >= 0 THEN [eo |-> b.eo, mt |-> b.mt, tried |-> b.start]
    ELSE IF Chr(str, b.cur.pos) = 0 \/ Chr(str, b.start + 1) = -1
    THEN [eo |-> -1, mt |-> b.mt, tried |-> b.start]
    ELSE BtLoop(t, str, ef, BtTry(t, str, ef, b.start + 1))
BtLoop(t, str, ef, b) ==
    LET c == b.cur
        ref == t.trans[c.s][1].ref
        m == tre_fill_pmatch(t, c.tags, c.pos)[ref]
        len == m[2] - m[1]
        same == \A i \in 0..len - 1 : Chr(str, m[1] + i) = Chr(str, c.pos + i)
        to == t.trans[c.s][1].to
        pos == IF IsRef(t, c.s) THEN c.pos + len ELSE c.pos + 1
        \* Chr(str, c.pos) even where a back reference has passed several characters
        next == SelectSeq(t.trans[c.s], LAMBDA tr : Takes(tr, t, str, Chr(str, c.pos), pos, ef))
        item(tr) == [s |-> tr.to, pos |-> pos, tags |-> Marked(c.tags, tr.tags, pos)]
        there == [b EXCEPT !.cur = [c EXCEPT !.pos = pos],
                           !.seen = IF ~IsRef(t, c.s) THEN @ ELSE IF len = 0 THEN @ \union {to} ELSE @ \ {to}]
    IN  IF c.s = -1 THEN Backtrack(t, str, ef, b)
        ELSE IF c.s = t.final
        THEN Backtrack(t, str, ef,
               IF b.eo < c.pos \/ (b.eo = c.pos /\ tre_tag_order(t.ntags, t, c.tags, b.mt))
               THEN [b EXCEPT !.eo = c.pos, !.mt = c.tags] ELSE b)
        ELSE IF IF IsRef(t, c.s) THEN ~same \/ (len = 0 /\ to \in b.seen) ELSE Chr(str, c.pos) = 0
        THEN Backtrack(t, str, ef, b)
        ELSE IF Chr(str, pos) = -1 THEN [eo |-> -1, mt |-> b.mt, tried |-> b.start]
        ELSE IF next = <<>> THEN Backtrack(t, str, ef, there)
        ELSE BtLoop(t, str, ef, [there EXCEPT !.cur = item(next[1]),
                                              !.stack = @ \o [i \in 1..Len(next) - 1 |-> item(next[i + 1])]])
tre_tnfa_run_backtrack(t, str, ef) ==
    IF Chr(str, 0) = -1 THEN [eo |-> -1, mt |-> <<>>, tried |-> -1]
    ELSE BtLoop(t, str, ef, BtTry(t, str, ef, 0))

\* nmatch is 0 or at least the number of groups.
regexec(t, str, nmatch, ef) ==
    LET n == IF nmatch = 0 \/ "nosub" \in t.fl THEN 0 ELSE t.ntags
        r == IF t.refs THEN tre_tnfa_run_backtrack(t, str, ef) ELSE tre_tnfa_run_parallel(t, str, ef, n)
    IN  IF r.eo < 0 THEN [err |-> "NOMATCH", pm |-> <<>>]
        ELSE [err |-> "ok", pm |-> IF nmatch = 0 \/ "nosub" \in t.fl THEN <<>> ELSE tre_fill_pmatch(t, r.mt, r.eo)]

------------------------------------------------------------------------------
(* What a pattern means.  An expression is a term; Render writes it in either *)
(* syntax, and Ends gives every way it can match at an offset: the end, and   *)
(* the bounds of the groups.                                                  *)
Sym(c) == [k |-> "sym", c |-> c]
Dot == [k |-> "any"]
Brk(neg, items, set) == [k |-> "brk", neg |-> neg, items |-> items, set |-> set]
Bol == [k |-> "bol"]
Eol == [k |-> "eol"]
Bow == [k |-> "bow"]
Void == [k |-> "void"]
Ref(g) == [k |-> "ref", g |-> g]
Seq2(l, r) == [k |-> "cat", l |-> l, r |-> r]
Alt(l, r) == [k |-> "alt", l |-> l, r |-> r]
Rep(a, lo, hi) == [k |-> "rep", a |-> a, lo |-> lo, hi |-> hi]
Grp(a) == [k |-> "grp", a |-> a]
Esc(ere, c) == IF ere THEN <<c>> ELSE <<"\\", c>>
Num(n) == CASE n = 0 -> <<"0">> [] n = 1 -> <<"1">> [] OTHER -> <<"2">>
RECURSIVE Render(_, _)
Render(r, ere) ==
    CASE r.k = "sym" -> <<r.c>>
      [] r.k = "any" -> <<".">>
      [] r.k = "brk" -> (IF r.neg THEN <<"[", "^">> ELSE <<"[">>) \o r.items \o <<"]">>
      [] r.k = "bol" -> <<"^">>
      [] r.k = "eol" -> <<"$">>
      [] r.k = "bow" -> <<"\\", "<">>
      [] r.k = "void" -> <<>>
      [] r.k = "ref" -> <<"\\">> \o Num(r.g)
      [] r.k = "cat" -> Render(r.l, ere) \o Render(r.r, ere)
      [] r.k = "alt" -> Render(r.l, ere) \o Esc(ere, "|") \o Render(r.r, ere)
      [] r.k = "grp" -> Esc(ere, "(") \o Render(r.a, ere) \o Esc(ere, ")")
      [] r.lo = 0 /\ r.hi = -1 -> Render(r.a, ere) \o <<"*">>
      [] r.lo = 1 /\ r.hi = -1 -> Render(r.a, ere) \o Esc(ere, "+")
      [] r.lo = 0 /\ r.hi = 1 -> Render(r.a, ere) \o Esc(ere, "?")
      [] OTHER -> Render(r.a, ere) \o Esc(ere, "{") \o Num(r.lo)
                  \o (IF r.hi = r.lo THEN <<>> ELSE IF r.hi = -1 THEN <<",">> ELSE <<",">> \o Num(r.hi))
                  \o Esc(ere, "}")
RECURSIVE Groups(_)
Groups(r) == CASE r.k = "grp" -> 1 + Groups(r.a) [] r.k = "rep" -> Groups(r.a)
               [] r.k \in {"cat", "alt"} -> Groups(r.l) + Groups(r.r) [] OTHER -> 0
\* Whether symbol code k is matched by a one-character expression.
Fold(k, fl) == IF "icase" \in fl THEN {k, ToUpper(k), ToLower(k)} ELSE {k}
Accepts(r, k, fl) ==
    /\ k > 0
    /\ CASE r.k = "sym" -> Code(r.c) \in Fold(k, fl)
         [] r.k = "any" -> ~("newline" \in fl /\ k = NL)
         [] OTHER -> IF r.neg THEN Fold(k, fl) \intersect r.set = {} /\ ~("newline" \in fl /\ k = NL)
                     ELSE Fold(k, fl) \intersect r.set # {}
\* g: the number of the first group of r.  A repetition forgets, at every round,
\* what the groups inside it matched in the round before.
RECURSIVE Ends(_, _, _, _, _, _, _)
RECURSIVE Rounds(_, _, _, _, _, _, _, _)
Ends(r, g, str, i, env, fl, ef) ==
    CASE r.k = "void" -> {<<i, env>>}
      [] r.k = "bol" -> IF (i = 0 /\ "notbol" \notin ef) \/ ("newline" \in fl /\ Chr(str, i - 1) = NL)
                        THEN {<<i, env>>} ELSE {}
      [] r.k = "eol" -> IF (i = Len(str) /\ "noteol" \notin ef) \/ ("newline" \in fl /\ Chr(str, i) = NL)
                        THEN {<<i, env>>} ELSE {}
      [] r.k = "bow" -> IF ~IsWord(Chr(str, i - 1)) /\ IsWord(Chr(str, i)) THEN {<<i, env>>} ELSE {}
      [] r.k \in {"sym", "any", "brk"} -> IF Accepts(r, Chr(str, i), fl) THEN {<<i + 1, env>>} ELSE {}
      [] r.k = "ref" -> LET len == env[r.g][2] - env[r.g][1]
                        IN  IF i + len <= Len(str) /\ \A j \in 0..len - 1 : str[env[r.g][1] + j + 1] = str[i + j + 1]
                            THEN {<<i + len, env>>} ELSE {}
      [] r.k = "cat" -> UNION {Ends(r.r, g + Groups(r.l), str, m[1], m[2], fl, ef)
                                 : m \in Ends(r.l, g, str, i, env, fl, ef)}
      [] r.k = "alt" -> Ends(r.l, g, str, i, env, fl, ef) \union Ends(r.r, g + Groups(r.l), str, i, env, fl, ef)
      [] r.k = "grp" -> {<<m[1], [m[2] EXCEPT ![g] = <<i, m[1]>>]>>
                           : m \in Ends(r.a, g + 1, str, i, env, fl, ef)}
      [] OTHER -> Rounds(r, g, str, {<<i, env>>}, 0, {}, fl, ef)
\* from: the matches of n rounds; all: those of at least r.lo rounds so far.
Rounds(r, g, str, from, n, all, fl, ef) ==
    LET known == IF n >= r.lo THEN all \union from ELSE all
        inner == g..g + Groups(r.a) - 1
        clear(env) == [k \in DOMAIN env |-> IF k \in inner THEN <<-1, -1>> ELSE env[k]]
        next == UNION {Ends(r.a, g, str, m[1], clear(m[2]), fl, ef) : m \in from}
    IN  IF n = r.hi \/ next \subseteq (IF n >= r.lo THEN known ELSE {}) THEN known
        ELSE Rounds(r, g, str, next, n + 1, known, fl, ef)
NoEnv(r) == [k \in 0..Groups(r) |-> <<-1, -1>>]
Found(r, str, i, fl, ef) == Ends(r, 1, str, i, NoEnv(r), fl, ef)

\* POSIX: the leftmost match, and the longest of those that start there.
\* Every group is where some way of matching so puts it.
MatchesAsMeant(r, t, str, ef) ==
    LET x == regexec(t, str, 1, ef)
        starts == {i \in 0..Len(str) : Found(r, str, i, t.fl, ef) # {}}
        so == CHOOSE i \in starts : \A j \in starts : i <= j
        ways == Found(r, str, so, t.fl, ef)
        eo == CHOOSE e \in {m[1] : m \in ways} : \A m \in ways : m[1] <= e
    IN  IF starts = {} THEN x.err = "NOMATCH"
        ELSE /\ x.err = "ok"
             /\ x.pm[0] = <<so, eo>>
             /\ \E m \in ways : m[1] = eo /\ \A k \in 1..Groups(r) : x.pm[k] = m[2][k]
\* With back references: a match is found exactly if there is one at a start that the
\* search tries, which need not be all; it is the leftmost, and what is reported is such a
\* match and its groups.  It is the longest unless a group that is referred to may be empty:
\* a state is left out once an empty reference led to it.
EmptyRef(r, t, str) ==
    \E i \in 0..Len(str) : \E m \in Found(r, str, i, t.fl, {}) : m[2][1][1] = m[2][1][2]
RefsAsMeant(r, t, str) ==
    LET x == regexec(t, str, 1, {})
        starts == {i \in 0..tre_tnfa_run_backtrack(t, str, {}).tried : Found(r, str, i, t.fl, {}) # {}}
    IN  IF starts = {} THEN x.err = "NOMATCH"
        ELSE /\ x.err = "ok" /\ x.pm[0][1] \in starts /\ \A i \in starts : x.pm[0][1] <= i
             /\ \E m \in Found(r, str, x.pm[0][1], t.fl, {}) :
                    m[1] = x.pm[0][2] /\ \A k \in 1..Groups(r) : x.pm[k] = m[2][k]
             /\ EmptyRef(r, t, str) \/ MatchesAsMeant(r, t, str, {})
\* The automaton: state numbers within the arrays, the final state without
\* transitions, tags within the arrays sized by their count.
WellBuilt(t) ==
    /\ \A i \in 1..Len(t.edges) : LET e == t.edges[i]
         IN  e.from \in 0..t.states - 2 /\ e.to \in 0..t.states - 1 /\ e.tags \subseteq 0..t.ntags - 1
    /\ \A i \in 1..Len(t.initial) : t.initial[i].pos \in 0..t.states - 1 /\ t.initial[i].tags \subseteq 0..t.ntags - 1
    /\ \A g \in DOMAIN t.so : t.so[g] \in 0..t.ntags
    /\ \A g \in DOMAIN t.eo : t.eo[g] \in 0..t.ntags
    /\ t.root.last[1].pos = t.final


------------------------------------------------------------------------------
(* Shell patterns and pathname expansion (src/regex: fnmatch, glob).          *)
(*                                                                            *)
(* A pattern or a name is a sequence of one-character strings; a class name   *)
(* such as [:upper:] is one of them, and "bad" is an illegal byte sequence.   *)
(* fnmatch matches what is before the first star and after the last one, and  *)
(* then places the pieces between stars from the left; glob reads directories *)
(* only where a component has a wildcard.  The file system is a function FS   *)
(* from component sequences to types, external to the code.                   *)

------------------------------------------------------------------------------
(* fnmatch                                                                    *)
ToLowerCase == [A |-> "a", B |-> "b"]
ToUpperCase == [a |-> "A", b |-> "B"]
casefold(k) == IF k \in DOMAIN ToUpperCase THEN ToUpperCase[k] ELSE IF k \in DOMAIN ToLowerCase THEN ToLowerCase[k] ELSE k
Order == <<"!", "-", ".", "/", "A", "B", "a", "b", "c">>
Rank(k) == IF k \in ToSet(Order) THEN CHOOSE i \in 1..Len(Order) : Order[i] = k ELSE 0
CharAt(s, i) == IF i \in 1..Len(s) THEN s[i] ELSE ""
From(s, i) == SubSeq(s, i, Len(s))
\* What the pattern holds next: its kind (or the character) and its length.
pat_next(p, fl) ==
    LET start == IF CharAt(p, 2) \in {"^", "!"} THEN 3 ELSE 2
        body == IF CharAt(p, start) = "]" THEN start + 1 ELSE start
        ends == {k \in body..Len(p) : p[k] = "]"}
        char(k) == IF k = "bad" THEN "UNMATCHABLE" ELSE k
    IN  CASE p = <<>> -> <<"END", 0>>
          [] p[1] = "\\" /\ Len(p) > 1 /\ "noescape" \notin fl -> <<char(p[2]), 2>>
          [] p[1] = "[" -> IF ends = {} THEN <<"[", 1>>
                           ELSE <<"BRACKET", CHOOSE k \in ends : \A j \in ends : k <= j>>
          [] p[1] = "*" -> <<"STAR", 1>>
          [] p[1] = "?" -> <<"QUESTION", 1>>
          [] OTHER -> <<char(p[1]), 1>>
IsClass(k, class) == class = "[:upper:]" /\ k \in DOMAIN ToLowerCase
\* wc: the character a range would start with.
RECURSIVE BracketFrom(_, _, _, _, _, _)
BracketFrom(p, i, wc, k, kfold, inv) ==
    LET c == CharAt(p, i)
        within(x) == Rank(wc) <= Rank(x) /\ Rank(x) <= Rank(CharAt(p, i + 1))
    IN  IF c = "]" THEN inv
        ELSE IF c = "-" /\ CharAt(p, i + 1) # "]"
        THEN IF CharAt(p, i + 1) = "bad" THEN FALSE
             ELSE IF within(k) \/ within(kfold) THEN ~inv
             ELSE BracketFrom(p, i + 2, wc, k, kfold, inv)
        ELSE IF c = "[:upper:]"
        THEN IF IsClass(k, c) \/ IsClass(kfold, c) THEN ~inv ELSE BracketFrom(p, i + 1, wc, k, kfold, inv)
        ELSE IF c = "bad" THEN FALSE
        ELSE IF c = k \/ c = kfold THEN ~inv
        ELSE BracketFrom(p, i + 1, c, k, kfold, inv)
match_bracket(p, k, kfold) ==
    LET inv == CharAt(p, 2) \in {"^", "!"}
        i == IF inv THEN 3 ELSE 2
        lead == CharAt(p, i) \in {"]", "-"}
    IN  IF lead /\ k = CharAt(p, i) THEN ~inv
        ELSE BracketFrom(p, IF lead THEN i + 1 ELSE i, IF lead THEN CharAt(p, i) ELSE CharAt(p, i - 1), k, kfold, inv)
\* One character k of the name against what the pattern p holds next.
GlobAccepts(p, k, fl) ==
    LET c == pat_next(p, fl)[1]
        kfold == IF "casefold" \in fl THEN casefold(k) ELSE k
    IN  IF c = "BRACKET" THEN match_bracket(p, k, kfold) ELSE c = "QUESTION" \/ c \in {k, kfold}
\* Up to the first star: <<"star" or the result, rest of p, rest of s>>.
RECURSIVE BeforeStar(_, _, _)
BeforeStar(p, s, fl) ==
    LET c == pat_next(p, fl)
    IN  CASE c[1] = "UNMATCHABLE" -> <<"no", p, s>>
          [] c[1] = "STAR" -> <<"star", Tail(p), s>>
          [] s = <<>> \/ CharAt(s, 1) = "bad" -> <<IF c[1] = "END" THEN "yes" ELSE "no", p, s>>
          [] OTHER -> IF GlobAccepts(p, s[1], fl) THEN BeforeStar(From(p, c[2] + 1), Tail(s), fl) ELSE <<"no", p, s>>
\* After the last star: where it starts and how many characters it takes; -1
\* where the pattern cannot be matched.
RECURSIVE LastStar(_, _, _, _, _)
LastStar(p, i, tail, count, fl) ==
    LET c == pat_next(From(p, i), fl)
    IN  IF i > Len(p) THEN <<tail, count>>
        ELSE CASE c[1] = "UNMATCHABLE" -> <<tail, -1>>
               [] c[1] = "STAR" -> LastStar(p, i + 1, i + 1, 0, fl)
               [] OTHER -> LastStar(p, i + c[2], tail, count + 1, fl)
RECURSIVE TailMatches(_, _, _)
TailMatches(p, s, fl) ==
    LET c == pat_next(p, fl)
    IN  IF s = <<>> \/ CharAt(s, 1) = "bad" THEN c[1] = "END"
        ELSE GlobAccepts(p, s[1], fl) /\ TailMatches(From(p, c[2] + 1), Tail(s), fl)
\* Between stars: one piece at the leftmost place.  The result is <<"star",
\* rest of p, rest of s>>, <<"miss">> here, or <<"no">> as the name has ended.
RECURSIVE Piece(_, _, _)
Piece(p, s, fl) ==
    LET c == pat_next(p, fl)
    IN  IF c[1] = "STAR" THEN <<"star", Tail(p), s>>
        ELSE IF s = <<>> THEN <<"no">>
        ELSE IF GlobAccepts(p, s[1], fl) THEN Piece(From(p, c[2] + 1), Tail(s), fl) ELSE <<"miss">>
RECURSIVE Middle(_, _, _)
Middle(p, s, fl) ==
    IF p = <<>> THEN TRUE
    ELSE LET x == Piece(p, s, fl)
         IN  CASE x[1] = "star" -> Middle(x[2], x[3], fl)
               [] x[1] = "miss" -> Middle(p, Tail(s), fl)
               [] OTHER -> FALSE
fnmatch_internal(pat, str, fl) ==
    LET b == BeforeStar(pat, str, fl)
        t == LastStar(b[2], 1, 1, 0, fl)
        n == Len(b[3]) - t[2]
    IN  IF "period" \in fl /\ CharAt(str, 1) = "." /\ CharAt(pat, 1) # "." THEN FALSE
        ELSE IF b[1] # "star" THEN b[1] = "yes"
        ELSE /\ t[2] >= 0 /\ n >= 0
             /\ TailMatches(From(b[2], t[1]), From(b[3], n + 1), fl)
             /\ Middle(SubSeq(b[2], 1, t[1] - 1), SubSeq(b[3], 1, n), fl)
SlashIn(s) == LET at == {i \in 1..Len(s) : s[i] = "/"} IN IF at = {} THEN Len(s) + 1 ELSE CHOOSE i \in at : \A j \in at : i <= j
RECURSIVE PatSlash(_, _, _)
PatSlash(p, i, fl) == LET c == pat_next(From(p, i), fl)
                      IN  IF c[1] \in {"END", "/", "UNMATCHABLE"} THEN <<i, c>> ELSE PatSlash(p, i + c[2], fl)
RECURSIVE fnmatch(_, _, _)
fnmatch(pat, str, fl) ==
    LET s == SlashIn(str)
        p == PatSlash(pat, 1, fl)
        more == CharAt(str, s) = "/"
        differ == (p[2][1] = "/") # more
    IN  IF "pathname" \in fl
        THEN /\ p[2][1] # "UNMATCHABLE"
             /\ ~(differ /\ (~more \/ "leading_dir" \notin fl))
             /\ fnmatch_internal(SubSeq(pat, 1, p[1] - 1), SubSeq(str, 1, s - 1), fl)
             /\ p[2][1] = "END" \/ fnmatch(From(pat, p[1] + p[2][2]), From(str, s + 1), fl)
        ELSE \/ "leading_dir" \in fl /\ \E i \in 1..Len(str) :
                  str[i] = "/" /\ fnmatch_internal(pat, SubSeq(str, 1, i - 1), fl)
             \/ fnmatch_internal(pat, str, fl)

\* What a pattern means: each of its parts in turn takes a character, a star any number.
RECURSIVE Means(_, _, _)
Means(p, s, fl) ==
    LET c == pat_next(p, fl)
    IN  CASE c[1] = "END" -> s = <<>>
          [] c[1] = "UNMATCHABLE" -> FALSE
          [] c[1] = "STAR" -> \E i \in 1..Len(s) + 1 : Means(Tail(p), From(s, i), fl)
          [] OTHER -> s # <<>> /\ GlobAccepts(p, s[1], fl) /\ Means(From(p, c[2] + 1), Tail(s), fl)
HiddenBy(p, s, fl) == "period" \in fl /\ CharAt(s, 1) = "." /\ CharAt(p, 1) # "."
\* Components, as text between slashes.
RECURSIVE Split(_)
Split(s) == LET i == SlashIn(s) IN IF i > Len(s) THEN <<s>> ELSE <<SubSeq(s, 1, i - 1)>> \o Split(From(s, i + 1))
MeansPath(p, s, fl) ==
    LET P == Split(p) S == Split(s)
        one(i) == Means(P[i], S[i], fl) /\ ~HiddenBy(P[i], S[i], fl)
    IN  IF "pathname" \notin fl
        THEN \/ Means(p, s, fl) /\ ~HiddenBy(p, s, fl)
             \/ "leading_dir" \in fl /\ \E i \in 1..Len(s) :
                  s[i] = "/" /\ Means(p, SubSeq(s, 1, i - 1), fl) /\ ~HiddenBy(p, SubSeq(s, 1, i - 1), fl)
        ELSE /\ Len(P) = Len(S) \/ (Len(P) < Len(S) /\ "leading_dir" \in fl)
             /\ \A i \in 1..Len(P) : one(i)

------------------------------------------------------------------------------
(* glob.  FS maps the components of a path to what is there: "dir", "reg",    *)
(* "shut" (a directory that cannot be read), "ldir" or "lreg" (a symbolic   *)
(* link to a directory or a file), "odd" (a directory whose entry has no      *)
(* d_type).  The root is the working directory.                               *)
Dots == {<<".">>, <<".", ".">>}
Components(t) ==
    LET step(c, n) == CASE n \in {<<>>, <<".">>} -> c
                        [] n = <<".", ".">> -> IF c = <<>> THEN c ELSE Front(c)
                        [] OTHER -> Append(c, n)
    IN  FoldLeft(step, <<>>, Split(t))
IsDir(kind) == kind \in {"dir", "odd", "shut", "ldir"}
Kind(FS, t) == LET c == Components(t)
                   to(i) == Components(SubSeq(t, 1, i - 1))
               IN  IF \E i \in 1..Len(t) : t[i] = "/" /\ to(i) \in DOMAIN FS /\ ~IsDir(FS[to(i)]) THEN "ENOTDIR"
                   ELSE IF c \in DOMAIN FS THEN FS[c] ELSE "ENOENT"
readdir(FS, t) == FoldSet(LAMBDA n, ns : Append(ns, n), <<>>,
                          Dots \union {c[Len(c)] : c \in {d \in DOMAIN FS : d # <<>> /\ Front(d) = Components(t)}})
d_type(FS, t, name) == CASE name \in Dots -> "dir"
                         [] FS[Append(Components(t), name)] \in {"dir", "shut"} -> "dir"
                         [] FS[Append(Components(t), name)] = "odd" -> ""
                         [] FS[Append(Components(t), name)] \in {"ldir", "lreg"} -> "lnk"
                         [] OTHER -> "reg"
\* What precedes the first wildcard: [rest, buf], the rest from the start of its component.
\* comp: what of this component is copied; end: a backslash ends the pattern.
RECURSIVE Literal(_, _, _, _, _, _)
Literal(pat, i, buf, comp, inb, fl) ==
    LET c == CharAt(pat, i)
        esc == c = "\\" /\ "noescape" \notin fl
        k == IF esc THEN i + 1 ELSE i
    IN  CASE c \in {"*", "?"} \/ (inb /\ c = "]") -> [rest |-> pat, buf |-> buf, end |-> FALSE, moved |-> comp # <<>>]
          [] i > Len(pat) -> [rest |-> <<>>, buf |-> buf \o comp, end |-> FALSE, moved |-> comp # <<>>]
          [] esc /\ inb /\ CharAt(pat, i + 1) = "]" -> [rest |-> pat, buf |-> buf, end |-> FALSE, moved |-> comp # <<>>]
          [] esc /\ i = Len(pat) -> [rest |-> pat, buf |-> buf, end |-> TRUE, moved |-> TRUE]
          [] CharAt(pat, k) = "/" -> [Literal(From(pat, k + 1), 1, buf \o comp \o <<"/">>, <<>>, FALSE, fl) EXCEPT !.moved = TRUE]
          [] OTHER -> Literal(pat, k + 1, buf, Append(comp, pat[k]), inb \/ c = "[", fl)
\* Where the component ends: at a slash, or at the backslash before it.
Separator(pat, fl) ==
    LET s == SlashIn(pat)
        back == {n \in 0..s - 1 : \A i \in s - n..s - 1 : pat[i] = "\\"}
    IN  IF s > Len(pat) THEN 0
        ELSE IF "noescape" \notin fl /\ (CHOOSE n \in back : \A m \in back : m <= n) % 2 = 1 THEN s - 1 ELSE s
append(out, t, mark) == Append(out, IF mark /\ t # <<>> /\ Last(t) # "/" THEN Append(t, "/") ELSE t)
Done(out) == [r |-> "OK", out |-> out]
\* errfunc: whether the caller's function asks to stop.  oom: the allocation that fails.
Fail(out, fl, errfunc) == IF errfunc \/ "err" \in fl THEN [r |-> "ABORTED", out |-> out] ELSE Done(out)
RECURSIVE do_glob(_, _, _, _, _, _)
RECURSIVE Entries(_, _, _, _, _, _, _)
do_glob(env, buf0, type0, pat0, fl, out) ==
    LET type1 == IF type0 = "" /\ "mark" \notin fl THEN "reg" ELSE type0
        type2 == IF pat0 # <<>> /\ type1 # "dir" THEN "" ELSE type1
        slashes == Len(pat0) - Len(SelectSeq(pat0, LAMBDA c : c # "/"))
        lead == CHOOSE n \in 0..slashes : (\A i \in 1..n : pat0[i] = "/") /\ CharAt(pat0, n + 1) # "/"
        l == Literal(From(pat0, lead + 1), 1, buf0 \o SubSeq(pat0, 1, lead), <<>>, FALSE, fl)
        type3 == IF l.moved THEN "" ELSE type2
        kind == Kind(env.FS, l.buf)
        type == IF "mark" \in fl /\ type3 \in {"", "lnk"} /\ kind \notin {"ENOENT", "ENOTDIR"}
                THEN (IF IsDir(kind) THEN "dir" ELSE "reg") ELSE type3
    IN  CASE env.oom = "path" -> [r |-> "NOSPACE", out |-> out]
          [] l.end -> Done(out)
          [] l.rest = <<>> ->
               IF type = "" /\ kind = "ENOENT" THEN Done(out)
               ELSE IF type = "" /\ kind = "ENOTDIR" THEN Fail(out, fl, env.errfunc)
               ELSE IF env.oom = "match" THEN [r |-> "NOSPACE", out |-> out]
               ELSE Done(append(out, l.buf, "mark" \in fl /\ type = "dir"))
          [] OTHER -> IF kind \notin {"dir", "odd", "ldir"} THEN Fail(out, fl, env.errfunc)
                      ELSE Entries(env, l.buf, l.rest, Separator(l.rest, fl), readdir(env.FS, l.buf), fl, out)
\* The directory's entries in turn.
Entries(env, buf, pat, p2, names, fl, out) ==
    LET name == Head(names)
        type == d_type(env.FS, buf, name)
        comp == IF p2 = 0 THEN pat ELSE SubSeq(pat, 1, p2 - 1)
        f == (fl \intersect {"noescape"}) \union (IF "period" \in fl THEN {} ELSE {"period"})
        taken == /\ p2 = 0 \/ type \in {"", "dir", "lnk"}
                 /\ fnmatch(comp, name, f)
                 /\ ~(p2 # 0 /\ "period" \in fl /\ name \in Dots /\ ~fnmatch(comp, name, f \union {"period"}))
        x == IF taken THEN do_glob(env, buf \o name, type, IF p2 = 0 THEN <<>> ELSE From(pat, p2), fl, out) ELSE Done(out)
    IN  IF names = <<>>
        THEN IF env.ioerr THEN Fail(out, fl, env.errfunc) ELSE Done(out)
        ELSE IF x.r # "OK" THEN x ELSE Entries(env, buf, pat, p2, Tail(names), fl, x.out)
RECURSIVE StrLess(_, _)
StrLess(a, b) == b # <<>> /\ (a = <<>> \/ Rank(a[1]) < Rank(b[1]) \/ (a[1] = b[1] /\ StrLess(Tail(a), Tail(b))))
sort(ts) == SortSeq(ts, StrLess)
\* ~ or ~user: [err, pat, buf]; home(user) is what the environment or the user database has,
\* "" for nobody.
expand_tilde(pat, env) ==
    LET e == SlashIn(pat)
        user == SubSeq(pat, 2, e - 1)
        home == env.home[user]
        slash == IF e <= Len(pat) THEN <<"/">> ELSE <<>>
    IN  IF user \notin DOMAIN env.home THEN [err |-> "NOMATCH", pat |-> pat, buf |-> <<>>]
        ELSE IF env.oom \in {"path", "scratch"} THEN [err |-> "NOSPACE", pat |-> pat, buf |-> <<>>]
        ELSE [err |-> "OK", pat |-> From(pat, e + 1), buf |-> home \o slash]
\* g: offs, pathc and the vector, a sequence with "NULL" where the pointer is null.
glob(pat, fl, env, g0) ==
    LET offs == IF "dooffs" \in fl THEN g0.offs ELSE 0
        g == IF "append" \in fl THEN g0 ELSE [offs |-> offs, pathc |-> 0, pathv |-> <<>>]
        t == IF "tilde" \in fl /\ CharAt(pat, 1) = "~" THEN expand_tilde(pat, env) ELSE [err |-> "OK", pat |-> pat, buf |-> <<>>]
        d == IF pat = <<>> THEN Done(<<>>)
             ELSE IF t.err # "OK" THEN [r |-> t.err, out |-> <<>>] ELSE do_glob(env, t.buf, "", t.pat, fl, <<>>)
        found == IF d.out = <<>> /\ "nocheck" \in fl THEN <<pat>> ELSE d.out
        at == offs + g.pathc
        old == IF "append" \in fl THEN SubSeq(g.pathv, 1, at) ELSE [i \in 1..offs |-> "NULL"]
    IN  CASE env.oom = "buf" -> [r |-> "NOSPACE", g |-> g0]
          [] env.oom = "dup" /\ pat # <<>> -> [r |-> "NOSPACE", g |-> g]
          [] d.r = "NOSPACE" \/ (found # <<>> /\ env.oom \in {"match", "vector"}) -> [r |-> "NOSPACE", g |-> g]
          [] found = <<>> /\ d.r = "OK" -> [r |-> "NOMATCH", g |-> g]
          [] OTHER -> [r |-> d.r,
                       g |-> [g EXCEPT !.pathc = @ + Len(found),
                                       !.pathv = old \o (IF "nosort" \in fl THEN found ELSE sort(found)) \o <<"NULL">>]]
globfree(g) == [g EXCEPT !.pathc = 0, !.pathv = <<>>]

\* What a pattern expands to: a component with a wildcard stands for the entries that match.
RECURSIVE Parts(_, _)
Parts(p, fl) == IF p = <<>> THEN <<>> ELSE LET c == pat_next(p, fl) IN <<c[1]>> \o Parts(From(p, c[2] + 1), fl)
RECURSIVE Walk(_, _, _, _)
Walk(FS, buf, comps, fl) ==
    LET comp == Head(comps)
        more == Len(comps) > 1
        parts == Parts(comp, fl)
        f == IF "period" \in fl THEN {} ELSE {"period"}
        next(name) == IF more THEN Walk(FS, buf \o name \o <<"/">>, Tail(comps), fl) ELSE {buf \o name}
        names == {n \in ToSet(readdir(FS, buf)) :
                    /\ Means(comp, n, fl) /\ ~HiddenBy(comp, n, f)
                    /\ more => IsDir(Kind(FS, buf \o n)) /\ ~(n \in Dots /\ CharAt(comp, 1) # ".")}
    IN  IF {"STAR", "QUESTION", "BRACKET"} \intersect ToSet(parts) = {} THEN next(parts)
        ELSE IF Kind(FS, buf) \in {"dir", "odd", "ldir"} THEN UNION {next(n) : n \in names} ELSE {}
Expansion(FS, pat, fl) ==
    LET there == {t \in Walk(FS, <<>>, Split(pat), fl) : t # <<>> /\ Kind(FS, t) \notin {"ENOENT", "ENOTDIR"}}
    IN  {IF "mark" \in fl /\ IsDir(Kind(FS, t)) /\ Last(t) # "/" THEN Append(t, "/") ELSE t : t \in there}
GlobsAsMeant(pat, fl, env, g0) ==
    LET x == glob(pat, fl, env, g0)
        tilde == "tilde" \in fl /\ CharAt(pat, 1) = "~"
        user == SubSeq(pat, 2, SlashIn(pat) - 1)
        known == ~tilde \/ user \in DOMAIN env.home
        all == IF known THEN Expansion(env.FS, IF tilde THEN env.home[user] \o From(pat, SlashIn(pat)) ELSE pat, fl) ELSE {}
        from == IF "append" \in fl THEN g0.pathc ELSE 0
        at == (IF "dooffs" \in fl THEN g0.offs ELSE 0) + from
        new == SubSeq(x.g.pathv, at + 1, Len(x.g.pathv) - 1)
        whole == /\ x.g.pathc = from + Len(new) /\ Last(x.g.pathv) = "NULL"
                 /\ SubSeq(x.g.pathv, 1, at) = IF "append" \in fl THEN SubSeq(g0.pathv, 1, at) ELSE [i \in 1..at |-> "NULL"]
                 /\ \A i \in 1..Len(new) - 1 : "nosort" \in fl \/ StrLess(new[i], new[i + 1])
    IN  CASE x.r = "OK" -> whole /\ Len(new) > 0
                        /\ ToSet(new) = IF all = {} /\ "nocheck" \in fl THEN {pat} ELSE all
          [] x.r = "NOMATCH" -> all = {} /\ "nocheck" \notin fl /\ ("append" \in fl => x.g = g0)
          [] x.r = "ABORTED" -> ("err" \in fl \/ env.errfunc) /\ whole
                                /\ (ToSet(new) \subseteq all \/ (new = <<pat>> /\ "nocheck" \in fl))
          [] x.r = "NOSPACE" -> env.oom # "none" /\ (x.g.pathc = from \/ x.g = g0) /\ ("append" \in fl => x.g = g0)
==============================================================================
