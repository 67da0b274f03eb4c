------------------------------ MODULE MCFunctions ------------------------------
(***************************************************************************)
(* Functions without state, for TLC.  A behaviour is a sequence of calls    *)
(* with arbitrary arguments; a state is a call, and the properties compare, *)
(* whenever there is a new one, what it computes with what it shall compute. *)
(***************************************************************************)
EXTENDS Integers, Sequences, FiniteSets, FiniteSetsExt, SequencesExt, TLC

CONSTANT Libs     \* libraries that need each other

VARIABLE call

Dso == INSTANCE DsoGraph
Real == INSTANCE Math
Re == INSTANCE Patterns
Text == INSTANCE Formats
Cal == INSTANCE Calendar

\* Some mixing for the hash functions and ciphers.
Compress(h, block) == FoldLeft(LAMBDA x, b : (31 * x + b) % 65521, h, block)
Spread(h, n) == <<>> \o [i \in 1..n |-> (h * (i + 6) + i) % (IF i = 1 THEN 4 ELSE 256)]
KeySchedule(bytes) == [i \in 1..4 |-> <<>> \o [j \in 1..32 |-> ((bytes[((i + j) % 8) + 1] \div (2 ^ (j % 8))) + i * j) % 2]]
Half(r, k, salt) == [i \in 1..32 |-> (r[(i % 32) + 1] * k[i] + r[((i + 3) % 32) + 1] + salt[(i % 24) + 1] + k[33 - i]) % 2]
Turn(bits) == Tail(bits) \o <<bits[1]>>
TurnBack(bits) == <<Last(bits)>> \o Front(bits)
Scramble(ctx, L, R) == <<<<>> \o [i \in 1..4 |-> (L[i] + 3 * R[5 - i] + ctx.P[(i % 6) + 1][1]) % 256], <<>> \o [i \in 1..4 |-> (5 * R[i] + L[i] + ctx.S[i][2]) % 256]>>
Pw == INSTANCE Crypt WITH Bytes <- Spread, F <- Half, IP <- Turn, FP <- TurnBack, Mix <- Scramble

Families == {"ldso", "file", "real", "exact", "regex", "flags", "shell", "glob", "print", "printreal",
             "number", "real number", "scan", "time", "zone", "date", "crypt"}
Idle(x) == [op |-> "none", of |-> x]
Init == call = Idle("any")

-----------------------------------------------------------------------------
(***************************************************************************)
(* The calls.                                                              *)
(***************************************************************************)

\* dlopen of a library, over every graph with at most two dependencies each.
Lists == {<<>>} \cup {<<a>> : a \in Libs} \cup {s \in Libs \X Libs : s[1] # s[2]}
OpenLibrary ==
    \E needed \in [Libs -> Lists] : call' = [op |-> "graph", needed |-> needed, root |-> Min(Libs)]

\* dlopen of a file with a segment of code and a writable one, as linkers make them: offset
\* and address agree within a page, and two segments share no page.
Segment(w) ==
    {s \in [vaddr : 0 .. 14, offset : 0 .. 9, filesz : 0 .. 5, memsz : 1 .. 8, write : {w}] :
        /\ s.filesz <= s.memsz /\ s.offset % 4 = s.vaddr % 4
        /\ s.offset + s.filesz <= 10 /\ s.offset < 10
        /\ s.write \/ s.memsz = s.filesz}
Code == {s \in Segment(FALSE) : s.vaddr < 4 /\ s.offset < 5}
Pairs == {p \in Code \X Segment(TRUE) : Dso!Up(p[1].vaddr + p[1].memsz) <= Dso!Down(p[2].vaddr)}
MapFile ==
    \E segs \in Pairs \cup {<<p[2], p[1]>> : p \in {q \in Pairs : q[1].vaddr = 0}},
       relro \in {<<0, 0>>, <<4, 8>>, <<8, 16>>} :
        call' = [op |-> "map", segs |-> segs, relro |-> relro]

\* The functions of math.h and complex.h, at every word where one of them turns.
Evaluate == \E x \in Real!Arguments : call' = [op |-> "real", x |-> x]

\* The exact ones among them, on formats with M bits of fraction and eb of exponent.
Small == [M |-> 2, eb |-> 3]
Middle == [M |-> 2, eb |-> 4]
Wide == [M |-> 2, eb |-> 5]
Some(G, es) == {x \in Real!Numbers(G) : Real!Ex(x) \in es}
Positive(xs) == {x \in xs : ~x.s}
Exactly ==
    \/ \E x \in Real!Numbers([M |-> 3, eb |-> 4]) \cup Real!Numbers(Small), rm \in Real!Modes :
           call' = [op |-> "integer", x |-> x, rm |-> rm]
    \/ \E x \in Real!Numbers(Wide), rm \in Real!Modes : call' = [op |-> "scale", x |-> x, rm |-> rm]
    \/ \E x, y \in Real!Numbers(Small) : call' = [op |-> "pair", x |-> x, y |-> y]
    \/ \E x \in Positive(Some(Wide, {0, 1, 7, 12})), y \in Some(Wide, {0, 4, 12}), rm \in Real!Modes :
           call' = [op |-> "fma", x |-> x, y |-> y, rm |-> rm]
    \/ \E x, y \in Positive(Some(Middle, {0, 1, 2, 4, 5, 8})), rm \in Real!Modes :
           x.w <= y.w /\ call' = [op |-> "fmaf", x |-> x, y |-> y, rm |-> rm]

\* Regular expressions: repetitions next to each other, alternatives, groups that are
\* repeated; with flags, brackets, classes and anchors; with back references.
Counts == {<<0, -1>>, <<1, -1>>, <<0, 1>>, <<2, 2>>, <<1, 2>>, <<2, -1>>, <<0, 2>>}
Reps(xs) == {Re!Rep(x, m[1], m[2]) : x \in xs, m \in Counts}
Sa == Re!Sym("a")
Sb == Re!Sym("b")
Plain == {Sa, Sb, Re!Dot}
Units == Plain \cup Reps({Sa, Re!Dot})
Grouped ==
    {Re!Grp(Re!Seq2(x, y)) : x \in {Sa, Re!Rep(Sa, 0, -1)}, y \in {Sb, Re!Rep(Re!Dot, 0, 1)}}
    \cup {Re!Grp(Re!Alt(x, y)) : x \in {Sa, Re!Void, Re!Seq2(Sa, Sb), Re!Grp(Sa)},
                                 y \in {Sb, Re!Rep(Sa, 0, -1), Re!Grp(Sb)}}
Repeated == Grouped \cup Reps(Grouped)
Extended ==
    {Re!Seq2(x, y) : x \in Units, y \in Units} \cup {Re!Alt(x, y) : x \in Units \cup {Re!Void}, y \in Units}
    \cup Repeated \cup {Re!Seq2(x, y) : x \in Repeated, y \in {Sb, Re!Dot, Re!Eol}}
    \cup {Re!Seq2(x, y) : x \in {Sa, Re!Bol}, y \in Repeated}
Brackets ==
    UNION {{Re!Brk(n, <<"a", "-", "b">>, Re!Lower),
            Re!Brk(n, <<"[:upper:]", "b">>, Re!Upper \cup {Re!Code("b")}),
            Re!Brk(n, <<"A">>, {Re!Code("A")})} : n \in BOOLEAN}
Atoms == Brackets \cup {Sa, Re!Sym("A"), Re!Dot, Re!Bow}
Flagged ==
    {Re!Seq2(x, y) : x \in Atoms \cup {Re!Bol}, y \in Atoms \cup {Re!Eol}}
    \cup {Re!Seq2(Re!Rep(x, 1, -1), Re!Eol) : x \in Atoms \ {Re!Bow}}
    \cup {Re!Grp(Re!Alt(Re!Seq2(Re!Bol, x), Re!Seq2(y, Re!Eol))) : x, y \in Brackets \cup {Re!Dot}}
Starred == Plain \cup {Re!Rep(x, 0, -1) : x \in Plain}
Referring ==
    LET groups == {Re!Grp(x) : x \in Starred \cup {Re!Alt(Re!Void, Sa), Re!Alt(Sa, Re!Seq2(Sa, Sb))}}
        refs == {Re!Ref(1), Re!Rep(Re!Ref(1), 0, -1), Re!Rep(Re!Ref(1), 2, 2)}
        pairs == {Re!Seq2(x, y) : x \in groups, y \in refs}
                 \cup {Re!Seq2(x, Re!Seq2(y, z)) : x \in groups, y \in Starred, z \in refs}
    IN  pairs \cup {Re!Alt(x, y) : x \in {Sa, Sb}, y \in pairs}
        \cup {Re!Rep(Re!Grp(Re!Seq2(Re!Grp(x), Re!Ref(2))), 0, -1) : x \in Starred}
Compile ==
    \/ \E r \in Extended :
           call' = [op |-> "regex", r |-> r, flags |-> {"ext"}]
    \/ \E r \in Referring : call' = [op |-> "backref", r |-> r, flags |-> {}]
Flags ==
    \E r \in Flagged, fl \in SUBSET {"ext", "icase", "newline"}, ef \in {{}, {"notbol", "noteol"}} :
           call' = [op |-> "flags", r |-> r, flags |-> fl, ef |-> ef]
Strings(chars, n) == UNION {[1..k -> chars] : k \in 0..n}
Letters == {Re!Code("a"), Re!Code("b")}

\* fnmatch, and glob in a directory with one of each kind.
Shells ==
    Strings({"a", "b", "*", "?", "/", "."}, 4) \cup {<<"A", "*">>, <<"*", "\\", "*">>}
    \cup {x \o <<"[">> \o y \o <<"]">> \o z : x \in {<<>>, <<"*">>}, z \in {<<>>, <<"*">>, <<"b">>},
             y \in {<<"a">>, <<"!", "a">>, <<"a", "-", "b">>, <<"]", "a">>, <<"-">>, <<"^", "-", "b">>, <<"[:upper:]">>}}
Match == \E p \in Shells, fl \in {{"period"}, {"pathname"}, {"pathname", "period"}, {"leading_dir"},
                                  {"pathname", "leading_dir"}, {"casefold"}} :
             call' = [op |-> "fnmatch", p |-> p, fl |-> fl]
Tree ==
    (<<>> :> "dir" @@ <<<<"a">>>> :> "dir" @@ <<<<"b">>>> :> "shut" @@ <<<<"a", "b">>>> :> "odd"
     @@ <<<<".", "a">>>> :> "dir" @@ <<<<"B">>>> :> "ldir" @@ <<<<"A">>>> :> "lreg"
     @@ <<<<"a">>, <<"a">>>> :> "dir" @@ <<<<"a">>, <<"b">>>> :> "reg" @@ <<<<"b">>, <<"a">>>> :> "reg"
     @@ <<<<"a">>, <<"a">>, <<"b">>>> :> "reg" @@ <<<<"a", "b">>, <<"b">>>> :> "reg"
     @@ <<<<".", "a">>, <<"b">>>> :> "reg" @@ <<<<"B">>, <<"b">>>> :> "reg")
Globs == {p \in Shells : "]" \notin ToSet(p) /\ Len(p) < 4} \cup {<<"[", "a", "]", "/">> \o x : x \in Shells \cap Strings({"a", "*", "/"}, 2)}
         \cup {<<"*", "/", "*", "/">>, <<"~", "/", "*">>, <<"~", "a", "/", "*">>, <<"~", "b">>, <<"a", "\\">>}
Expand == \E p \in Globs, fl \in {{}, {"period"}, {"mark"}, {"nocheck", "err"}, {"append", "dooffs", "tilde"}, {"err", "nosort"}},
             oom \in {"none", "buf", "dup", "path", "match", "vector"}, ioerr \in BOOLEAN :
             call' = [op |-> "glob", p |-> p, fl |-> fl,
                      env |-> [FS |-> Tree, oom |-> oom, errfunc |-> FALSE, ioerr |-> ioerr,
                               home |-> (<<>> :> <<"a">> @@ <<"a">> :> <<"B">>)]]
List == [offs |-> 2, pathc |-> 1, pathv |-> <<"NULL", "NULL", <<"b">>, "NULL">>]

\* printf: integers with flags, width, precision and length; floating numbers in the four
\* rounding modes; and texts, counts, positions, on a stream that fails early or late.
None == [k |-> "none"]
Given(n) == [k |-> "num", n |-> n]
Star == [k |-> "star"]
Directive(pos, fl, w, p, pre, t) == [k |-> "conv", pos |-> pos, fl |-> fl, w |-> w, p |-> p, pre |-> pre, t |-> t]
Integers ==
    {Directive(0, fl, w, p, pre, t) :
        fl \in {{}, {"0", "#", "+"}, {"-", "0", " "}, {"#"}}, w \in {None, Given(4), Given(32), Star},
        p \in {None, Given(0), Given(3), Star}, pre \in {<<>>, <<"h", "h">>, <<"j">>}, t \in {"d", "o", "u", "X"}}
    \cup {Directive(0, fl, w, None, <<>>, "p") : fl \in {{}, {"-"}, {"0"}}, w \in {None, Given(4)}}
    \cup {Directive(0, {}, None, Given(32), pre, "d") : pre \in {<<>>, <<"l">>, <<"z">>}}
Reals ==
    [k : {"fin"}, s : {FALSE}, m : {2048, 2464, 3277, 4095}, e : {-15, -5, -1, 0, 3, 9}]
    \cup [k : {"fin"}, s : {TRUE}, m : {3277, 4094}, e : {-4, 0}] \cup [k : {"zero", "inf", "nan"}, s : BOOLEAN]
\* Texts and their arguments: a character may have two bytes (16 to 31) or none (32).
Narrow(x) == [null |-> FALSE, s |-> x]
Texts ==
    {<<Directive(0, fl, w, p, <<>>, "s"), Narrow(x)>> : fl \in {{}, {"-"}}, w \in {None, Given(5), Given(31)},
        p \in {None, Given(0), Given(2)}, x \in {<<>>, <<"A", "c3", "B">>, <<"A", "B", "A">>, <<"c3">>}}
    \cup {<<Directive(0, fl, w, p, <<"l">>, "s"), Narrow(x)>> : fl \in {{}, {"-"}}, w \in {None, Given(5)},
             p \in {None, Given(0), Given(1), Given(3)}, x \in {<<>>, <<1, 17, 2>>, <<17, 18>>, <<1, 32>>, <<32>>}}
    \cup {<<Directive(0, {}, w, None, pre, "c"), x>> : w \in {None, Given(3)}, pre \in {<<>>, <<"l">>}, x \in {1, 17, 33}}
    \cup {<<Directive(0, {}, None, Given(1), <<>>, "s"), [null |-> TRUE, s |-> <<>>]>>,
          <<Directive(0, {}, None, None, <<>>, "n"), 0>>, <<Directive(0, {}, None, None, <<"h">>, "n"), 0>>}
Plain1(x) == [k |-> "text", s |-> x]
Format ==
    \/ \E d \in Integers, wide \in BOOLEAN :
           (d.t # "p" \/ ~wide) /\ call' = [op |-> "printint", d |-> d, wide |-> wide]
    \/ \E x \in Texts, y \in {<<>>, <<Plain1(<<"A">>)>>, <<Directive(0, {}, None, None, <<>>, "d")>>}, wide \in BOOLEAN :
           call' = [op |-> "printtext", fmt |-> <<x[1]>> \o y \o <<Directive(0, {}, None, None, <<>>, "n")>>,
                    args |-> <<x[2], 9, 0>>, wide |-> wide]
    \/ \E n \in {1, 2}, m \in {1, 2}, w \in {None, [k |-> "nth", n |-> 1], [k |-> "nth", n |-> 3]}, wide \in BOOLEAN :
           call' = [op |-> "printtext", wide |-> wide, args |-> <<3, 12, 5>>,
                    fmt |-> <<Directive(n, {}, w, None, <<>>, "d"), Plain1(<<"B">>), Directive(m, {}, None, None, <<>>, "u"),
                              Directive(2, {}, None, None, <<>>, "d"), Directive(1, {}, None, None, <<>>, "d")>>]
PrintReal ==
    \E y \in Reals, t \in {"e", "f", "g", "a", "G"}, rm \in Text!Modes :
        \E p \in {Given(0), Given(1), Given(2)} \cup {x \in {None} : t = "a" \/ (y.k = "fin" => y.e \in -4..9)} :
            call' = [op |-> "printreal", y |-> y, t |-> t, p |-> p, rm |-> rm]

\* strtol with every base that behaves differently, strtod on decimal and hexadecimal
\* numbers, among them the points halfway between two numbers, and one digit beside them.
Figs(ds) == [i \in 1..Len(ds) |-> ToString(ds[i])]
Shown(ds) == Figs(SubSeq(ds, 1, Text!Places)) \o <<".">> \o Figs(SubSeq(ds, Text!Places + 1, 34))
Below(ds) ==
    LET k == Max({i \in 1..Text!Length : ds[i] # 0}) IN Shown([ds EXCEPT ![k] = @ - 1]) \o <<"9">>
Halfway(prec) ==
    LET g == Text!Formats[prec]
        e == {g.emin, -5, Text!Emax(g) - g.bits}
        m == {1, 2, 2^(g.bits - 1), 2^g.bits - 1}
    IN  {Text!ExactDecimal(2 * x + 1, y - 1) : x \in m, y \in e}
Numbers ==
    Strings({"0", "1", "x", "-", "7", " ", "g"}, 3)
    \cup {x \o y : x \in {<<>>, <<"-">>, <<" ", "0", "X">>, <<"-", "0">>},
                   y \in {<<"1", "2", "7">>, <<"1", "2", "8">>, <<"1", "2", "9">>, <<"2", "5", "5">>, <<"2", "5", "6">>,
                          <<"3", "1">>, <<"3", "2">>, <<"6", "4">>, <<"8", "0">>, <<"f", "f">>, <<"1", "0", "0">>, <<"1", "w">>}}
Decimals == Strings({"0", "9", ".", "e", "-"}, 4) \cup {<<"9", "e", "1", "2">>, <<"9", "e", "9", "9", "9", "9">>}
Hexadecimals ==
    {x \o <<"0", "x">> \o y \o z : x \in {<<>>, <<"-">>}, z \in {<<>>, <<"p", "-", "9">>, <<"p", "-">>, <<"p", "1", "2">>},
        y \in Strings({"8", "f", "."}, 3) \cup {<<"f", "f", "f", "8">>, <<"8", "1", "8", "0", "1">>, <<"f", "f", "f", "f", "8">>}}
Words == {<<"i", "n", "f">>, <<"-", "i", "n", "f", "i", "n", "I", "t", "x">>, <<"i", "n">>, <<"n", "a", "n", "(", "0", ")">>, <<"n", "a", "n", "(">>}
Read ==
    \/ \E s \in Numbers, base \in {0, 1, 2, 8, 10, 16, 17, 32, 37} : call' = [op |-> "integers", s |-> s, base |-> base]
    \/ \E s \in Decimals \cup Words, prec \in 1..3 : call' = [op |-> "floats", s |-> s, prec |-> prec, rm |-> {"near", "up"}]
ReadReal ==
    \/ \E s \in Hexadecimals, prec \in 1..3 : call' = [op |-> "floats", s |-> s, prec |-> prec, rm |-> Text!Modes]
    \/ \E prec \in 1..3, sign \in {<<>>, <<"-">>} : \E ds \in Halfway(prec) : \E s \in {Shown(ds), Shown(ds) \o <<"0", "1">>, Below(ds)} :
               call' = [op |-> "floats", s |-> sign \o s, prec |-> prec, rm |-> Text!Modes]

\* scanf, with an allocation that fails.
Takes(arg, w, m, size, t) == Text!Conv(arg, w, m, size, t, <<>>)
Conversions ==
    {Takes(a, w, FALSE, "", t) : a \in {0, -1}, w \in {0, 2}, t \in {"d", "i", "x", "f", "s", "c"}}
    \cup {Takes(-1, w, TRUE, size, t) : w \in {0, 2}, size \in {"", "l"}, t \in {"s", "c"}}
    \cup {Takes(-1, 0, FALSE, size, t) : size \in {"hh", "h", "ll"}, t \in {"i", "u", "o", "p"}}
    \cup {Text!Conv(-1, w, m, "", "[", set) : w \in {0, 2}, m \in BOOLEAN,
             set \in {<<"^", "1", "]">>, <<"-", "x", "]">>, <<"]", "1", "]">>, <<"0", "-", "2", "]">>, <<"^", "]", "]">>, <<"0", "-", "]">>}}
    \cup {Takes(-1, 0, FALSE, "", "S"), Takes(-1, 0, FALSE, "", "C"), Takes(2, 0, FALSE, "", "d")}
Scans ==
    {<<x>> : x \in Conversions}
    \cup {<<x, y, Takes(-1, 0, FALSE, "", "n")>> :
             x \in {Takes(-1, 0, FALSE, "", "i"), Takes(0, 2, FALSE, "", "x"), Takes(-1, 1, TRUE, "", "s"), Takes(-1, 0, FALSE, "l", "f"),
                    Text!White, Text!Match("1"), Text!Match("%")},
             y \in {Text!White, Text!Match("x"), Text!Match("%"), Takes(-1, 0, FALSE, "", "d"), Takes(-1, 0, TRUE, "", "s")}}
Typed ==
    Strings({"0", "1", "x", "-", " "}, 2) \cup Strings({"<", ">", "1"}, 2) \cup {<<"<", ">", ">">>, <<"w">>, <<"w", "1">>}
    \cup {<<"1", ".", "x", "1">>, <<"-", "0", "x", "1", "2">>, <<"1", "1", "1", "1", "1", "1", "1">>, <<"1", "1", "w", "1", "w", "1", "1">>,
          <<"i", "n", "f", "i">>, <<"1", "e", "-", "1">>, <<"n", "a", "n", "(", "1", "%">>, <<" ", "%", "1">>}
Scan ==
    \E fmt \in Scans, in \in Typed, wide \in BOOLEAN :
        /\ IF wide THEN {"<", ">"} \cap ToSet(in) = {} ELSE "w" \notin ToSet(in)
        /\ call' = [op |-> "scan", fmt |-> fmt, in |-> in, wide |-> wide]

\* Days at the ends of February and of December, in years around every kind of century.
TurningYears ==
    {-1000, -1, 1600, 1700, 1899, 1900, 1903, 1904, 1969, 1970, 1972, 1999, 2000, 2001, 2037, 2038, 2039, 2096, 2100, 2400}
TurningDays(Y) ==
    Cal!DayNumber(Y, 2, 27) .. Cal!DayNumber(Y, 3, 2) \cup Cal!DayNumber(Y, 12, 29) .. Cal!DayNumber(Y + 1, 1, 4)
TurningTimes(years) == {d * Cal!DAY + s : d \in UNION {TurningDays(Y) : Y \in years}, s \in {0, Cal!DAY - 1}}
FarTimes ==
    {Cal!DayNumber(Y, 1, 1) * Cal!DAY + k : Y \in {1900 + Cal!INT_MIN, 1901 + Cal!INT_MAX}, k \in {-Cal!DAY, -1, 0, 1}}
SplitTime == \E t \in TurningTimes(TurningYears) \cup FarTimes : call' = [op |-> "split", t |-> t]
\* Fields out of their ranges.
JoinTime ==
    \E y \in {-300, 0, 70, 100, 139, 200}, mon \in {-25, -12, -1, 0, 1, 2, 11, 12, 30}, mday \in {-400, 0, 1, 31, 60},
       hour \in {-30, 0, 25} :
        call' = [op |-> "join", tm |-> [year |-> y, mon |-> mon, mday |-> mday, hour |-> hour, min |-> 3, sec |-> -5]]

\* Zones, north and south, with every kind of rule, and times around their changes.
Rule(k, a, b, c, at) == [k |-> k, a |-> a, b |-> b, c |-> c, at |-> at]
Zone(std, off, dst, dstoff, r0, r1) == [std |-> std, off |-> off, dst |-> dst, dstoff |-> dstoff, r0 |-> r0, r1 |-> r1]
H == Cal!HOUR
Zones == {
    Zone(<<"A">>, 5 * H, <<"B">>, 4 * H, Rule("M", 3, 2, 0, 2 * H), Rule("M", 11, 1, 0, 2 * H)),
    Zone(<<"A">>, -H, <<"B">>, -2 * H, Rule("M", 3, 5, 0, 2 * H), Rule("M", 10, 5, 0, 3 * H)),
    Zone(<<"A">>, -10 * H, <<"B">>, -10 * H - 2, Rule("M", 10, 1, 0, 2 * H), Rule("M", 4, 1, 0, 2 * H)),
    Zone(<<"+", "1">>, -H - 2, <<"-", "2">>, -3 * H, Rule("J", 60, 0, 0, 0), Rule("n", 300, 0, 0, 5 * H + 2)),
    Zone(<<"A", "B", "C">>, 0, <<>>, 0, Cal!NoRule, Cal!NoRule),
    Zone(<<"A">>, 2 * H, <<"B">>, 3 * H, Rule("n", 59, 0, 0, 2 * H), Rule("J", 59, 0, 0, 2 * H)) }
Around(z) == IF z.dst = <<>> THEN {0, 1000 * Cal!DAY}
             ELSE {c[1] + k : c \in Cal!Changes(z, {1971, 1972, 2001}), k \in {-4, -1, 0, 1, 3, 4, 60 * Cal!DAY}}
UseZone == \E z \in Zones : \E t \in Around(z), isdst \in {-1, 0, 1} :
               call' = [op |-> "zone", z |-> z, t |-> t, isdst |-> isdst]

\* Files with up to three transitions between three types, and no, or one, footer.
Type(off, dst, abbr) == [off |-> off, dst |-> dst, abbr |-> abbr]
TypeLists == {<<Type(0, FALSE, <<"A">>), Type(H, TRUE, <<"B">>), Type(2 * H, FALSE, <<"C">>)>>,
              <<Type(2 * H, TRUE, <<"A">>), Type(H, FALSE, <<"B">>), Type(3 * H, FALSE, <<"C">>)>>}
Indices == {s \in SeqOf(0..2, 4) : \A i \in 2..Len(s) : s[i] # s[i - 1]}
FileOf(types, index, footer) ==
    [good |-> TRUE, types |-> types, index |-> index, trans |-> [i \in DOMAIN index |-> 100 * i], footer |-> footer]
UseFile == \E types \in TypeLists, index \in Indices, isdst \in {-1, 0, 1} :
           \E t \in {100 * i + k : i \in 1..(Len(index) - 1), k \in {-9, -5, -1, 0, 3, 7, 50}} :
               call' = [op |-> "zonefile", f |-> FileOf(types, index, <<<<"A", "B", "3">>>>), t |-> t, isdst |-> isdst]

\* Programs that change TZ, with memory failing now and then.
Values == {<<>>, <<"A", "3">>, <<"A", "-", "2", "B">>, <<"A", "B", "C", "A", "B", "C", "1">>, <<"U", "T", "C">>,
           <<"<", "-", "2", ">", "2">>, <<"M", "P">>, <<":", "M", "P">>, <<"/", "M">>,
           <<"A", "3", "B", "A", "B", "C", "A", "2", ",", "M", "3", ".", "1", ".", "0", ",", "J", "9">>, <<"S">>}
TzFiles == (<<"/", "u", "M", "P">> :> FileOf(<<Type(H, TRUE, <<"B">>), Type(2, FALSE, <<"A">>)>>, <<>>, <<>>))
           @@ (<<"/", "M">> :> FileOf(<<Type(2, FALSE, <<"A">>)>>, <<>>, <<<<"G", "4">>>>))
           @@ (<<"/", "s", "S">> :> [FileOf(<<>>, <<>>, <<>>) EXCEPT !.good = FALSE])
SetZone == \E a, b \in Values, c \in {<<>>, <<"A", "3">>, <<"M", "P">>}, oom \in {{}, {"old"}, {"std", "dst"}, {"path"}} :
               call' = [op |-> "tzset", es |-> <<[Cal!Env(a, TzFiles) EXCEPT !.oom = oom], Cal!Env(b, TzFiles),
                                                 [Cal!Env(c, TzFiles) EXCEPT !.oom = oom], Cal!Env(b, TzFiles)>>]

\* Dates written and read again.
Fields == {"a", "A", "b", "B", "c", "C", "d", "D", "e", "F", "g", "G", "H", "I", "j", "m", "M", "p", "r", "R", "s", "S", "T",
           "u", "U", "V", "w", "W", "x", "X", "y", "Y", "z", "Z", "%", "n", "q"}
Spelled == {<<f, f>> : f \in {<<"%", "c">>, <<"%", "F", "%", "n", "%", "T">>, <<"%", "D", " ", "%", "r">>,
                              <<"%", "B", " ", "%", "e", ",", "%", "A", "%", "Y", " ", "%", "X">>,
                              <<"%", "C", "%", "y", "-", "%", "m", "-", "%", "d", "%", "X">>,
                              <<"%", "F", " ", "%", "T", "%", "Z">>, <<"%", "Z", "~", "%", "F", " ", "%", "T">>}}
           \cup {<<<<"%", "+", "1", "2", "F", "%", "n", "%", "R", ":", "%", "S">>, <<"%", "F", " ", "%", "R", ":", "%", "S">>>>,
                 <<<<"%", "-", "d", "/", "%", "m", "/", "%", "0", "7", "Y", " ", "%", "I", "%", "p", "%", "M", ":", "%", "S">>,
                   <<"%", "d", "/", "%", "m", "/", "%", "7", "Y", " ", "%", "I", "%", "p", "%", "M", ":", "%", "S">>>>}
WriteDate == \E t \in TurningTimes({1600, 1969, 1972, 2000, 2001, 2038}), f \in Fields :
                 call' = [op |-> "date", t |-> t, f |-> f]
ReadDate == \E t \in TurningTimes({1969, 1972, 1999, 2000}), f \in Spelled, z \in {<<"U", "T", "C">>, <<"P">>, <<"G", "M">>} :
                call' = [op |-> "parse", t |-> t, f |-> f, z |-> z]
Masks == {<<"%", "d", "/", "%", "m">>, <<"%", "m", "/", "%", "d">>, <<"%", "H", ":", "%", "M">>, <<"%", "A">>}
GetDate == \E s \in {<<"3", "1", "/", "1">>, <<"1", "/", "3", "1">>, <<"2", "/", "2", "9", "x">>, <<"Sun", "day">>, <<"9", ":", "9">>,
                    <<"9", ":", "1">>},
              ls \in SeqOf(Masks, 2), k \in {"unset", "missing", "nomem", "bad", "ok"} :
                  call' = [op |-> "getdate", s |-> s, mask |-> [k |-> k, lines |-> ls]]

\* Messages in three pieces; passwords with settings of every kind, good and bad.
Password(n) == <<>> \o [i \in 1..n |-> 65 + ((7 * i) % 180)]
HashPieces == \E a \in {"512", "256", "5"}, p, q, r \in {0, 1, 5, 6, 11, 12, 16} :
    call' = [op |-> "pieces", a |-> a, n |-> <<p, q, r>>]
Alg(a) == CASE a = "512" -> Pw!SHA512 [] a = "256" -> Pw!SHA256 [] a = "5" -> Pw!MD5
Salts == {<<>>, <<97, 98>>, <<97, 98, 36, 99>>, [i \in 1..20 |-> 96 + i], <<97, 10>>, <<36>>}
RoundTexts == {<<>>} \cup {Pw!rounds_prefix \o t : t \in {<<49, 48, 36>>, <<53, 36>>, <<49, 49>>, <<57, 57, 57, 36>>, <<36>>}}
Tagged == {<<36, d, 36>> \o t : d \in {49, 53, 54}, t \in Salts \cup {r \o <<97, 98>> : r \in RoundTexts}}
Bcrypts == {<<36, 50, c, 36, 48, 52, 36>> \o s : c \in {97, 98, 99, 120, 121},
             s \in {[i \in 1..22 |-> 64 + i], [i \in 1..23 |-> 97 + i], [i \in 1..21 |-> 65]}}
Short == {<<>>, <<97>>, <<97, 98>>, <<36, 49>>, <<36, 50, 97, 98>>, <<42, 97>>, <<42, 10>>, <<200, 58>>, <<200, 57>>,
          <<36, 97, 98, 99>>, <<95, 49, 46, 46, 46, 47, 57, 90, 122>>, <<95, 46, 46, 46, 46, 47, 57, 90, 122>>,
          <<95, 49, 46, 46, 46, 47, 57, 90>>, <<95, 49, 46, 46, 46, 47, 57, 90, 33>>}
HashPassword == \E s \in Tagged \cup Bcrypts \cup Short, n \in {0, 3, 17} :
    call' = [op |-> "crypt", setting |-> s, key |-> Password(n), works |-> TRUE]
SelfTestFails == \E s \in Tagged \cup Short : call' = [op |-> "crypt", setting |-> s, key |-> <<>>, works |-> FALSE]
Cipher == \E b \in {<<0, 0>>, <<1, 5>>, <<3, 7>>}, k \in 1..4 :
    call' = [op |-> "cipher", b |-> [i \in 1..64 |-> ((i * b[2] + k) \div 3) * b[1] + 48], k |-> [i \in 1..64 |-> (i * k) \div 5]]

Choose == \E x \in Families : call' = Idle(x)
Return == call.op # "none" /\ call' = Idle("any")

Next ==
    \/ call = Idle("ldso") /\ OpenLibrary
    \/ call = Idle("file") /\ MapFile
    \/ call = Idle("real") /\ Evaluate
    \/ call = Idle("exact") /\ Exactly
    \/ call = Idle("regex") /\ Compile
    \/ call = Idle("flags") /\ Flags
    \/ call = Idle("shell") /\ Match
    \/ call = Idle("glob") /\ Expand
    \/ call = Idle("print") /\ Format
    \/ call = Idle("printreal") /\ PrintReal
    \/ call = Idle("number") /\ Read
    \/ call = Idle("real number") /\ ReadReal
    \/ call = Idle("scan") /\ Scan
    \/ call = Idle("time") /\ (SplitTime \/ JoinTime)
    \/ call = Idle("zone") /\ (UseZone \/ UseFile \/ SetZone)
    \/ call = Idle("date") /\ (WriteDate \/ ReadDate \/ GetDate)
    \/ call = Idle("crypt") /\ (HashPieces \/ HashPassword \/ SelfTestFails \/ Cipher)
    \/ call = Idle("any") /\ Choose
    \/ Return

Spec == Init /\ [][Next]_call

-----------------------------------------------------------------------------
(***************************************************************************)
(* Properties.                                                             *)
(***************************************************************************)

Graph(c) ==
    c.op = "graph" => /\ Dso!LoadsAll(c.needed, c.root)
                         /\ Dso!InBreadth(c.needed, c.root)
                         /\ Dso!Fits(c.needed, c.root)
                         /\ Dso!DepsBefore(c.needed, c.root)
\* load_deps loads exactly what the library needs, each library once.  The list that dlsym
\* searches has every dependency, near ones before far ones, as POSIX demands, and none
\* twice (for a file that names no library twice).  The stack and the queue of queue_ctors
\* never meet in the array that they share, and it puts every library once, and after all
\* that it needs, unless that needs it too.
GraphRight == [][\A c \in {call'} : Graph(c)]_call

Image(c) ==
    c.op = "map" => /\ Dso!HoldsImage(c.segs)
                       /\ Dso!StaysInside(c.segs)
                       /\ Dso!GivesUnused(c.segs, c.relro)
\* After map_library every segment holds its part of the file and, if it is writable, zeros
\* behind it; no mapping at a fixed address, and no clearing, goes beyond what the first
\* mapping reserved, where other memory may be; what reclaim_gaps gives to malloc is mapped
\* memory that no segment uses and that stays writable.
ImageRight == [][\A c \in {call'} : Image(c)]_call

Math(c) ==
    /\ c.op = "real" => Real!RealRight(c.x)
    /\ c.op = "integer" => Real!ToIntegerRight(c.x, c.rm) /\ Real!PartsRight(c.x)
    /\ c.op = "scale" => \A n \in -70..70 : Real!ScaleRight(c.x, n, c.rm)
    /\ c.op = "pair" => /\ Real!NeighbourRight(c.x, c.y) /\ Real!ExtremesRight(c.x, c.y)
                           /\ Real!RemainderRight(c.x, c.y)
    /\ c.op = "fma" => \A z \in Some(Wide, {0, 1, 2, 5, 7, 8, 11}) : Real!FmaRight(c.x, c.y, z, c.rm)
    /\ c.op = "fmaf" => \A z \in Some(Middle, 0..3) : Real!FmafRight(c.x, c.y, z, c.rm)
\* The functions of math.h (exp*, log*, pow, hypot, cbrt, sqrt, the trigonometric and
\* hyperbolic ones and their inverses, erf*, *gamma, j*, y*) and of complex.h (ccosh, csinh,
\* ctanh, cexp, csqrt, cproj; the others are not modelled) return what their definitions say
\* for zeros, infinities, NaNs, poles and out of range arguments, raise invalid and divbyzero
\* exactly there, keep symmetry, and take the quadrant of their kernels right.  Two of them
\* depart from this, exactly so: tgammal has the opposite sign where TgammalDeparts, and powl
\* reports 0^y as an overflow where PowlDeparts.  Rounding to integers, taking apart, scaling,
\* neighbours, remainders and fma are exact, or rounded once, in all rounding modes, also where
\* the numbers are subnormal; so is fmaf, but for subnormal results rounded to the nearest
\* that no double holds (FmafDeparts), which may be one unit off.
MathRight == [][\A c \in {call'} : Math(c)]_call

Compiled(r, flags, IsRight(_)) ==
    \E t \in {Re!regcomp(Re!Render(r, "ext" \in flags), flags)} : t.err = "ok" /\ Re!WellBuilt(t) /\ IsRight(t)
Patterns(c) ==
    /\ c.op = "regex" => Compiled(c.r, c.flags, LAMBDA t :
           \A s \in Strings(Letters, 3) : Re!MatchesAsMeant(c.r, t, s, {}))
    /\ c.op = "flags" => Compiled(c.r, c.flags, LAMBDA t :
           \A s \in Strings(Letters \cup {Re!Code("A"), Re!NL}, 2) : Re!MatchesAsMeant(c.r, t, s, c.ef))
    /\ c.op = "backref" => Compiled(c.r, c.flags, LAMBDA t :
           \A s \in Strings(Letters, 3) : Re!RefsAsMeant(c.r, t, s))
    /\ c.op = "fnmatch" => \A s \in Strings({"a", "b", "/", "."}, 3) :
                                  Re!fnmatch(c.p, s, c.fl) = Re!MeansPath(c.p, s, c.fl)
    /\ c.op = "glob" => Re!GlobsAsMeant(c.p, c.fl, c.env, List)
\* regexec finds the leftmost and of those the longest match, with groups where some such
\* match has them, whatever regcomp unrolled and wherever it put its tags; the automaton
\* stays within its arrays.  With a back reference it finds the leftmost match among the
\* starts that it tries, and the longest there unless the reference may be empty (EmptyRef);
\* it tries no more starts after one whose last path ended at the end of the string, and so
\* may miss the only match (regexec.c:808).  fnmatch, which tries both ends first, accepts what the pattern
\* means; glob lists all paths that match and no others, sorted and behind what was there.
PatternsRight == [][\A c \in {call'} : Patterns(c)]_call

Bound(d, v) == (IF d.w = Star THEN <<250>> ELSE <<>>) \o (IF d.p = Star THEN <<2>> ELSE <<>>) \o <<v>>
Formats(c) ==
    /\ c.op = "printint" => \A v \in {0, 7, 8, 40, 64, 128, 255} :
           /\ Text!PrintsRight(<<c.d>>, Bound(c.d, v), c.wide, "near", 1000, FALSE)
           /\ v = 40 => Text!StoresRight(<<c.d>>, Bound(c.d, v), c.wide, "near")
    /\ c.op = "printreal" => \A fl \in {{}, {"#"}, {"0", "+"}}, w \in {None, Given(9)} :
           Text!PrintsRight(<<Directive(0, fl, w, c.p, <<>>, c.t)>>, <<c.y>>, FALSE, c.rm, 1000, FALSE)
    /\ c.op = "printtext" => /\ Text!StoresRight(c.fmt, c.args, c.wide, "near")
                             /\ \A room \in {0, 3, 1000}, err \in BOOLEAN : Text!PrintsRight(c.fmt, c.args, c.wide, "near", room, err)
    /\ c.op = "integers" => \A lim \in {Text!LLONG_MIN, Text!ULLONG_MAX, 32, 63} :
           /\ "w" \notin ToSet(c.s) => Text!IntegersRight(c.s, c.base, Text!strtox(c.s, c.base, lim), lim)
           /\ Text!IntegersRight(c.s, c.base, Text!wcstox(c.s, c.base, lim), lim)
    /\ c.op = "floats" => \A rm \in c.rm : Text!FloatsRight(c.s, c.prec, rm)
    /\ c.op = "scan" => \A oom \in 0..2 : Text!ScansRight(c.in, c.fmt, c.wide, oom)
\* printf prints what a format means and returns its length, floating numbers are rounded
\* once, and a length over INT_MAX or a failed write is an error; strto* reads the longest
\* number at the start, and rounds it once, or, where the code rounds twice (Twice), is within
\* a unit or two of it; scanf reads and assigns what the standard says, for a floating number what
\* strtod gives, and what it allocated belongs to the caller or is free, and is large enough
\* for its text, but for wscanf's %mc of a width less than a character can have bytes (Cramped).
FormatsRight == [][\A c \in {call'} : Formats(c)]_call

Calendar(c) ==
    /\ c.op = "split" => Cal!SplitRight(c.t)
    /\ c.op = "join" => Cal!JoinRight(c.tm)
    /\ c.op = "zone" => Cal!ZoneRight(c.z, c.t, c.isdst)
    /\ c.op = "zonefile" => Cal!ZoneFileRight(c.f, c.t, c.isdst)
    /\ c.op = "tzset" => Cal!TzsetRight(c.es)
    /\ c.op = "date" => Cal!DateRight(c.t, c.f)
    /\ c.op = "parse" => Cal!ParseRight(c.t, c.f, c.z)
    /\ c.op = "getdate" => Cal!GetDateRight(c.s, c.mask)
\* Times are taken apart and put together as the calendar counts days; localtime and mktime
\* follow the rules of TZ in both directions, through gaps and overlaps, and those of its file
\* before the last transition, but that of a reading that comes twice mktime may take the wrong
\* offset for the second (WrongSide); tzset leaves nothing of an earlier zone behind; strftime
\* stays within its buffer, and strptime reads what it wrote and stays within it, but for %Z
\* with a name that is none of tzname (strptime.c:208).
CalendarRight == [][\A c \in {call'} : Calendar(c)]_call

Passwords(c) ==
    /\ c.op = "pieces" => Pw!PiecesRight(Alg(c.a), [i \in 1..3 |-> Password(c.n[i])])
    /\ c.op = "crypt" => /\ Pw!CryptRight(c.key, c.setting, c.works)
                         /\ \A a \in {Pw!SHA512, Pw!SHA256} :
                                c.works /\ IsPrefix(<<36, a.id>>, c.setting) => Pw!ShaRight(a, c.key, c.setting)
                         /\ c.works /\ IsPrefix(<<36, 49>>, c.setting) => Pw!Md5Right(c.key, c.setting)
    /\ c.op = "cipher" => /\ Pw!BcryptRight(SubSeq(c.k, 1, c.k[64]), [i \in 1..4 |-> Pw!Word(c.k[i])], 3)
                          /\ Pw!DesRight(c.b, c.k) /\ Pw!ElevenRight([i \in 1..64 |-> c.k[i] % 2])
\* However a message is cut, its digest is that of the whole, padded once.  The
\* MD5 and SHA settings of crypt hash what these algorithms specify and write every byte of it,
\* and bcrypt schedules a plain key as it specifies.  DES is compared with no specification:
\* its decryption undoes its encryption, and no bit of a block is lost in eleven characters.
\* For every setting the result is a setting that gives the same result, and what crypt
\* returns for a refused setting or a failed self test is never equal to the setting.
PasswordsRight == [][\A c \in {call'} : Passwords(c)]_call
=============================================================================
