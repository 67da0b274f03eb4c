------------------------------- MODULE Formats -------------------------------
(***************************************************************************)
(* printf: vfprintf.c, vfwprintf.c and what is made of them; scanf and      *)
(* strto*: intscan.c, floatscan.c, shgetc.c, vfscanf.c, vfwscanf.c and the   *)
(* functions made of them.  Their control is kept; widths are scaled so that *)
(* every limit is met: see INT_MAX, Bits, ULLONG_MAX and the limbs.          *)
(*                                                                         *)
(* A format of printf is a sequence of items: text [k |-> "text", s], or a   *)
(* directive [k |-> "conv", pos, fl, w, p, pre, t]: the argument's position  *)
(* (0: the next one), the flags, width and precision (a number, "*",         *)
(* <<"*", n>> for *n$, "none"; "." for a point alone), the letters of the    *)
(* length, and the conversion.  An argument is a bit pattern, a text, or a   *)
(* floating number.                                                         *)
(***************************************************************************)
EXTENDS Integers, Sequences, FiniteSets, FiniteSetsExt, SequencesExt, Bitwise, TLC

INT_MAX == 31
NL_ARGMAX == 9
\* The widths of char, short, int, long and long long.
Bits == [c |-> 4, s |-> 5, i |-> 6, l |-> 7, j |-> 8]
Range8 == 2^Bits.j

\* A type that pop_arg fetches: signed or not, and its width.
States ==
    [none |-> [d |-> "INT", u |-> "UINT", e |-> "DBL", c |-> "INT", C |-> "UINT", s |-> "PTR", S |-> "PTR",
               p |-> "UIPTR", n |-> "PTR", m |-> "NOARG", l |-> "l", h |-> "h", L |-> "L", z |-> "zt", j |-> "j"],
     l    |-> [d |-> "LONG", u |-> "ULONG", e |-> "DBL", c |-> "UINT", s |-> "PTR", n |-> "PTR", l |-> "ll"],
     ll   |-> [d |-> "LLONG", u |-> "ULLONG", n |-> "PTR"],
     h    |-> [d |-> "SHORT", u |-> "USHORT", n |-> "PTR", h |-> "hh"],
     hh   |-> [d |-> "CHAR", u |-> "UCHAR", n |-> "PTR"],
     L    |-> [e |-> "LDBL", n |-> "PTR"],
     zt   |-> [d |-> "PDIFF", u |-> "SIZET", n |-> "PTR"],
     j    |-> [d |-> "IMAX", u |-> "UMAX", n |-> "PTR"]]
\* Letters that have one column.
Column(t) == CASE t \in {"d", "i"} -> "d"
               [] t \in {"o", "u", "x", "X"} -> "u"
               [] t \in {"e", "f", "g", "a", "E", "F", "G", "A"} -> "e"
               [] t \in {"z", "t"} -> "z"
               [] OTHER -> t
\* The state after one more letter of a directive.
Letter(st, x) ==
    IF st \in DOMAIN States /\ Column(x) \in DOMAIN States[st] THEN States[st][Column(x)] ELSE "bad"
Final == {"PTR", "INT", "UINT", "ULLONG", "LONG", "ULONG", "SHORT", "USHORT", "CHAR", "UCHAR", "LLONG", "SIZET",
          "IMAX", "UMAX", "PDIFF", "UIPTR", "DBL", "LDBL", "NOARG"}
\* The prefix and the type of a directive.
Prefix(d) == FoldLeft(Letter, "none", d.pre)
Type(d) == Letter(Prefix(d), d.t)

SignExtend(v, w) == LET low == v % 2^w IN IF low >= 2^(w - 1) THEN low + Range8 - 2^w ELSE low
pop_arg(type, v) ==
    CASE type = "INT" -> SignExtend(v, Bits.i)
      [] type = "UINT" -> v % 2^Bits.i
      [] type \in {"LONG", "PDIFF"} -> SignExtend(v, Bits.l)
      [] type \in {"ULONG", "SIZET", "UIPTR"} -> v % 2^Bits.l
      [] type = "SHORT" -> SignExtend(v, Bits.s)
      [] type = "USHORT" -> v % 2^Bits.s
      [] type = "CHAR" -> SignExtend(v, Bits.c)
      [] type = "UCHAR" -> v % 2^Bits.c
      [] OTHER -> v
\* The int that the code reads from an argument.
AsInt(v) == IF v >= Range8 \div 2 THEN v - Range8 ELSE v

-----------------------------------------------------------------------------
(***************************************************************************)
(* The stream: what was written, and whether a write failed, as it does      *)
(* when more than room bytes come.                                          *)
(***************************************************************************)
out(f, s) ==
    IF f.err THEN f
    ELSE IF Len(f.out) + Len(s) > f.room THEN [f EXCEPT !.err = TRUE]
    ELSE [f EXCEPT !.out = @ \o s]
Times(n, c) == [i \in 1..n |-> c]
pad(f, c, w, l, fl) ==
    IF fl \cap {"-", "0"} # {} \/ l >= w THEN f ELSE out(f, Times(w - l, c))
Toggle(fl, x) == IF x \in fl THEN fl \ {x} ELSE fl \cup {x}

xdigits == <<"0", "1", "2", "3", "4", "5", "6", "7", "8", "9", "A", "B", "C", "D", "E", "F">>
Small == "A" :> "a" @@ "B" :> "b" @@ "C" :> "c" @@ "D" :> "d" @@ "E" :> "e" @@ "F" :> "f" @@ "X" :> "x" @@ "P" :> "p"
Lower(c) == IF c \in DOMAIN Small THEN Small[c] ELSE c
RECURSIVE Base(_, _)
Base(x, b) == IF x = 0 THEN <<>> ELSE Append(Base(x \div b, b), xdigits[(x % b) + 1])
fmt_x(x, lower) == IF lower THEN [i \in DOMAIN Base(x, 16) |-> Lower(Base(x, 16)[i])] ELSE Base(x, 16)
fmt_o(x) == Base(x, 8)
fmt_u(x) == Base(x, 10)

-----------------------------------------------------------------------------
(***************************************************************************)
(* fmt_fp.  A number is [k, s, m, e]: zero, finite, inf or nan; its sign; and  *)
(* m 2^(e + 1 - MANT), 2^(MANT - 1) <= m < 2^MANT.  The code's limbs have 9     *)
(* decimal digits; here they have 2, and the shifts by 28, 29 and 9 that go  *)
(* with 10^9 become 5, 6 and 2.  A decimal number is the array big with the    *)
(* positions a (first), r = 0 (the limb before the point) and z (the end).    *)
(***************************************************************************)
LDBL_MANT_DIG == 12
DIG == 2
LIMB == 10^DIG
Top == 5
Up == 6
DownBy == 2
Slots == -8..16

\* Taking y apart, limb by limb.
RECURSIVE Limbs(_, _, _, _)
Limbs(big, z, num, den) ==
    LET b == [big EXCEPT ![z] = num \div den]
        rest == (num % den) * LIMB
    IN  IF rest = 0 THEN [big |-> b, a |-> 0, z |-> z + 1] ELSE Limbs(b, z + 1, rest, den)
RECURSIVE DropZeros(_)
DropZeros(x) == IF x.z > x.a /\ x.big[x.z - 1] = 0 THEN DropZeros([x EXCEPT !.z = @ - 1]) ELSE x
\* One multiplication by 2^sh, from the last limb to the first.
RECURSIVE Shl(_, _, _, _)
Shl(x, d, carry, sh) ==
    IF d < x.a THEN IF carry # 0 THEN [x EXCEPT !.a = @ - 1, !.big[x.a - 1] = carry] ELSE x
    ELSE LET v == x.big[d] * 2^sh + carry IN Shl([x EXCEPT !.big[d] = v % LIMB], d - 1, v \div LIMB, sh)
RECURSIVE ScaleUp(_, _)
ScaleUp(x, e2) ==
    IF e2 <= 0 THEN x
    ELSE LET sh == Min({Up, e2}) IN ScaleUp(DropZeros(Shl(x, x.z - 1, 0, sh)), e2 - sh)
\* One division by 2^sh, from the first limb to the last.
RECURSIVE Shr(_, _, _, _)
Shr(x, d, carry, sh) ==
    IF d >= x.z
    THEN LET y == IF x.big[x.a] = 0 THEN [x EXCEPT !.a = @ + 1] ELSE x
         IN  IF carry # 0 THEN [y EXCEPT !.z = @ + 1, !.big[y.z] = carry] ELSE y
    ELSE Shr([x EXCEPT !.big[d] = (@ \div 2^sh) + carry], d + 1, (LIMB \div 2^sh) * (x.big[d] % 2^sh), sh)
RECURSIVE ScaleDown(_, _, _, _)
ScaleDown(x, e2, p, fixed) ==
    IF e2 >= 0 THEN x
    ELSE LET sh == Min({DownBy, -e2})
             need == 1 + ((p + (LDBL_MANT_DIG \div 3) + DIG - 1) \div DIG)
             y == Shr(x, x.a, 0, sh)
             b == IF fixed THEN 0 ELSE y.a
         IN  ScaleDown(IF y.z - b > need THEN [y EXCEPT !.z = b + need] ELSE y, e2 + sh, p, fixed)
Digits(n) == Max({1} \cup {k \in 1..DIG : n >= 10^(k - 1)})
\* The decimal exponent.
Exp10(x) == DIG * (0 - x.a) + Digits(x.big[x.a]) - 1

\* Adding i at limb d, with the carry.
RECURSIVE AddAt(_, _, _)
AddAt(x, d, i) ==
    LET y == [x EXCEPT !.big[d] = @ + i]
    IN  IF y.big[d] < LIMB THEN y
        ELSE LET c == [y EXCEPT !.big[d] = 0]
             IN  AddAt(IF d - 1 < c.a THEN [c EXCEPT !.a = @ - 1, !.big[c.a - 1] = 0] ELSE c, d - 1, 1)
\* round + small # round: what is cut off is less than a half, a half, or more.
RoundsAway(odd, small, neg, rm) ==
    CASE rm = "near" -> small = "more" \/ (small = "half" /\ odd)
      [] rm = "up" -> ~neg
      [] rm = "down" -> neg
      [] OTHER -> FALSE
\* Rounding to j digits behind the point.
RoundAt(x, e, j, neg, rm) ==
    IF j >= DIG * (x.z - 1) THEN [x |-> x, e |-> e]
    ELSE LET d == 1 + (j \div DIG)
             i == 10^(DIG - (j % DIG))
             cut == x.big[d] % i
             odd == (x.big[d] \div i) % 2 = 1 \/ (i = LIMB /\ d > x.a /\ x.big[d - 1] % 2 = 1)
             small == IF cut < i \div 2 THEN "less" ELSE IF cut = i \div 2 /\ d + 1 = x.z THEN "half" ELSE "more"
             down == [x EXCEPT !.big[d] = @ - cut]
             away == (cut # 0 \/ d + 1 # x.z) /\ RoundsAway(odd, small, neg, rm)
             y == IF away THEN AddAt(down, d, i) ELSE down
         IN  [x |-> IF y.z > d + 1 THEN [y EXCEPT !.z = d + 1] ELSE y,
              e |-> IF away THEN Exp10(y) ELSE e]

\* %g: which of the others, and with how many digits.
TrailingZeros(n) == Max({k \in 0..DIG - 1 : n % 10^k = 0})
General(x, e, p, fl) ==
    LET p1 == IF p = 0 THEN 1 ELSE p
        fixed == p1 > e /\ e >= -4
        p2 == IF fixed THEN p1 - (e + 1) ELSE p1 - 1
        j == IF x.z > x.a /\ x.big[x.z - 1] # 0 THEN TrailingZeros(x.big[x.z - 1]) ELSE DIG
        some == DIG * (x.z - 1) + (IF fixed THEN 0 ELSE e) - j
    IN  [t |-> IF fixed THEN "f" ELSE "e",
         p |-> IF "#" \in fl THEN p2 ELSE Min({p2, Max({0, some})})]

\* The limbs as digits, all but the first with leading zeros.
Full(n) == Times(DIG - Len(fmt_u(n)), "0") \o fmt_u(n)
Bare(n) == IF n = 0 THEN <<"0">> ELSE fmt_u(n)
Concat(ss) == FlattenSeq(ss)
Fixed(x, p, fl) ==
    LET a == Min({x.a, 0})
        whole == Bare(x.big[a]) \o Concat([i \in 1..(0 - a) |-> Full(x.big[a + i])])
        used == Max({0, Min({x.z - 1, (p + DIG - 1) \div DIG})})
        frac == Concat([i \in 1..used |-> Full(x.big[i])])
    IN  whole \o (IF p > 0 \/ "#" \in fl THEN <<".">> ELSE <<>>)
        \o SubSeq(frac, 1, Min({Len(frac), p})) \o Times(p - Len(frac), "0")
Scientific(x, p, fl, estr) ==
    LET z == IF x.z <= x.a THEN x.a + 1 ELSE x.z
        first == Bare(x.big[x.a])
        rest == Tail(first) \o Concat([i \in 1..(z - x.a - 1) |-> Full(x.big[x.a + i])])
    IN  <<first[1]>> \o (IF p > 0 \/ "#" \in fl THEN <<".">> ELSE <<>>)
        \o SubSeq(rest, 1, Min({Len(rest), p})) \o Times(p - Len(rest), "0") \o estr
Estr(e, t, min) ==
    LET ds == fmt_u(IF e < 0 THEN -e ELSE e)
    IN  <<t, IF e < 0 THEN "-" ELSE "+">> \o Times(min - Len(ds), "0") \o ds

\* The sign, padding, prefix and digits, as every conversion puts them out.
Field(f, w, l, fl, prefix, body) ==
    LET f1 == out(pad(f, " ", w, Len(prefix) + l, fl), prefix)
        f2 == out(pad(f1, "0", w, Len(prefix) + l, Toggle(fl, "0")), body)
    IN  pad(f2, " ", w, Len(prefix) + l, Toggle(fl, "-"))
Sign(neg, fl) == IF neg THEN <<"-">> ELSE IF "+" \in fl THEN <<"+">> ELSE IF " " \in fl THEN <<" ">> ELSE <<>>

\* y in [1, 2) as hexadecimal digits, rounded by the addition of a large number.
RoundHex(m, p, neg, rm) ==
    LET g == 2^(LDBL_MANT_DIG - 1 - 4 * p)
        low == m % g
        odd == (m \div g) % 2 = 1
        small == IF 2 * low < g THEN "less" ELSE IF 2 * low = g THEN "half" ELSE "more"
    IN  IF low = 0 THEN m ELSE IF RoundsAway(odd, small, neg, rm) THEN m - low + g ELSE m - low
RECURSIVE HexDigits(_)
HexDigits(rest) ==
    IF rest = 0 THEN <<>>
    ELSE <<xdigits[(rest \div 2^(LDBL_MANT_DIG - 1)) + 1]>> \o HexDigits((rest % 2^(LDBL_MANT_DIG - 1)) * 16)
HexFloat(f, y, w, p, fl, lower, prefix, rm) ==
    LET m == IF y.k = "zero" THEN 0 ELSE y.m
        r == IF p >= 0 /\ p < (LDBL_MANT_DIG + 2) \div 4 THEN RoundHex(m, p, y.s, rm) ELSE m
        e2 == IF y.k = "zero" THEN 0 ELSE y.e
        ds == IF r = 0 THEN <<"0">> ELSE HexDigits(r)
        estr == Estr(e2, "P", 1)
        point == Len(ds) > 1 \/ p > 0 \/ "#" \in fl
        buf == <<ds[1]>> \o (IF point THEN <<".">> ELSE <<>>) \o Tail(ds)
        l == (IF p > 0 /\ Len(buf) - 2 < p THEN p + 2 ELSE Len(buf)) + Len(estr)
        body == buf \o Times(l - Len(estr) - Len(buf), "0") \o estr
        pre == prefix \o <<"0", "X">>
        Case(s) == [i \in DOMAIN s |-> IF lower THEN Lower(s[i]) ELSE s[i]]
    IN  IF p > INT_MAX - 2 - Len(estr) - Len(pre) THEN [f |-> f, l |-> -1]
        ELSE [f |-> Field(f, w, l, fl, Case(pre), Case(body)), l |-> Max({w, Len(pre) + l})]

LowerTypes == {"e", "f", "g", "a"}
Kind(t) == CASE t \in {"e", "E"} -> "e" [] t \in {"f", "F"} -> "f" [] t \in {"g", "G"} -> "g" [] OTHER -> "a"
Infinite(f, y, w, fl, lower, prefix) ==
    LET s == IF y.k = "inf" THEN IF lower THEN <<"i", "n", "f">> ELSE <<"I", "N", "F">>
             ELSE IF lower THEN <<"n", "a", "n">> ELSE <<"N", "A", "N">>
        f1 == out(out(pad(f, " ", w, 3 + Len(prefix), fl \ {"0"}), prefix), s)
    IN  [f |-> pad(f1, " ", w, 3 + Len(prefix), Toggle(fl, "-")), l |-> Max({w, 3 + Len(prefix)})]
Decimal(y, p, kind) ==
    IF y.k = "zero" THEN Limbs([i \in Slots |-> 0], 0, 0, 1)
    ELSE LET x == Limbs([i \in Slots |-> 0], 0, y.m, 2^(LDBL_MANT_DIG - 1 - Top))
         IN  ScaleDown(ScaleUp(x, y.e - Top), y.e - Top, p, kind = "f")
fmt_fp(f, y, w, p0, fl, t, rm) ==
    LET lower == t \in LowerTypes
        prefix == Sign(y.s, fl)
        p == IF p0 < 0 THEN 6 ELSE p0
        kind == Kind(t)
        x == Decimal(y, p, kind)
        e0 == IF x.a < x.z THEN Exp10(x) ELSE 0
        j == p - (IF kind = "f" THEN 0 ELSE e0) - (IF kind = "g" /\ p > 0 THEN 1 ELSE 0)
        r == RoundAt(x, e0, j, y.s, rm)
        rounded == DropZeros(r.x)
        e == r.e
        g == IF kind = "g" THEN General(rounded, e, p, fl) ELSE [t |-> kind, p |-> p]
        point == IF g.p > 0 \/ "#" \in fl THEN 1 ELSE 0
        estr == Estr(e, IF lower THEN "e" ELSE "E", 2)
        l == 1 + g.p + point + (IF g.t = "f" THEN Max({e, 0}) ELSE Len(estr))
    IN  IF y.k \in {"inf", "nan"} THEN Infinite(f, y, w, fl, lower, prefix)
        ELSE IF kind = "a" THEN HexFloat(f, y, w, p0, fl, lower, prefix, rm)
        ELSE IF g.p > INT_MAX - 1 - point \/ l > INT_MAX - Len(prefix) THEN [f |-> f, l |-> -1]
        ELSE [f |-> Field(f, w, l, fl, prefix,
                          IF g.t = "f" THEN Fixed(rounded, g.p, fl) ELSE Scientific(rounded, g.p, fl, estr)),
              l |-> Max({w, Len(prefix) + l})]

-----------------------------------------------------------------------------
(***************************************************************************)
(* printf_core.  A state st holds the stream f, the list of arguments and     *)
(* how many were taken, the arguments by position (nl) and their types, and   *)
(* cnt, l, w, p, xp, fl of the code; ret is "run" until it returns.  A byte   *)
(* is a character; a wide character v is its bytes, and some have none.       *)
(***************************************************************************)
Byte(v) == xdigits[(v % 2^Bits.c) + 1]
wctomb(v) == CASE v < 16 -> <<Byte(v)>> [] v < 32 -> <<"c3", Byte(v)>> [] OTHER -> <<>>
mbtowc(s) == CASE s = <<>> -> 0
               [] s # <<>> /\ s[1] = "c3" -> IF Len(s) > 1 /\ s[2] # "c3" THEN 2 ELSE -1
               [] OTHER -> 1

Stop(st, why) == [st EXCEPT !.ret = why]
Then(st, Step(_)) == IF st.ret = "run" THEN Step(st) ELSE st
\* The head of the loop.
Account(st) == IF st.l > INT_MAX - st.cnt THEN Stop(st, "EOVERFLOW") ELSE [st EXCEPT !.cnt = @ + st.l, !.l = 0]

\* A width or precision among the arguments.  With no stream (first), only types are noted.
\* A position in a precision does not count as the use of positions.
Star(st, x, first, marks) ==
    CASE x.k = "nth" /\ first -> [st EXCEPT !.v = 0, !.types[x.n] = "INT", !.l10n = @ \/ marks]
      [] x.k = "nth" /\ ~first -> [st EXCEPT !.v = AsInt(st.nl[x.n]), !.l10n = @ \/ marks]
      [] x.k = "star" /\ st.l10n -> Stop(st, "EINVAL")
      [] x.k = "star" /\ first -> [st EXCEPT !.v = 0]
      [] OTHER -> [st EXCEPT !.v = AsInt(pop_arg("INT", st.args[st.ap])), !.ap = @ + 1]
getint(x) == IF x.n > INT_MAX THEN -1 ELSE x.n
Width(st, d, first) ==
    CASE d.w.k = "none" -> [st EXCEPT !.w = 0]
      [] d.w.k = "num" -> IF getint(d.w) < 0 THEN Stop(st, "EOVERFLOW") ELSE [st EXCEPT !.w = getint(d.w)]
      [] OTHER -> LET s == Star(st, d.w, first, TRUE)
                  IN  IF s.v < 0 THEN [s EXCEPT !.fl = @ \cup {"-"}, !.w = -s.v] ELSE [s EXCEPT !.w = s.v]
Precision(st, d, first) ==
    CASE d.p.k = "none" -> [st EXCEPT !.p = -1, !.xp = FALSE]
      [] d.p.k = "num" -> [st EXCEPT !.p = getint(d.p), !.xp = TRUE]
      [] OTHER -> LET s == Star(st, d.p, first, FALSE) IN [s EXCEPT !.p = s.v, !.xp = s.v >= 0]
Argument(st, d, first) ==
    CASE Type(d) \notin Final -> Stop(st, "EINVAL")
      [] Type(d) = "NOARG" -> IF d.pos > 0 THEN Stop(st, "EINVAL") ELSE st
      [] Type(d) # "NOARG" /\ d.pos > 0 /\ first -> [st EXCEPT !.types[d.pos] = Type(d)]
      [] Type(d) # "NOARG" /\ d.pos > 0 /\ ~first -> [st EXCEPT !.arg = <<st.nl[d.pos]>>]
      [] Type(d) # "NOARG" /\ d.pos = 0 /\ first -> Stop(st, "done")
      [] OTHER -> [st EXCEPT !.arg = <<pop_arg(Type(d), st.args[st.ap])>>, !.ap = @ + 1]
\* Reading a directive up to its argument.
Directive(st, d, first) ==
    LET s0 == [st EXCEPT !.l10n = @ \/ d.pos > 0, !.fl = d.fl]
        s1 == Width(s0, d, first)
        s2 == Then(s1, LAMBDA s : Precision(s, d, first))
    IN  Then(s2, LAMBDA s : Argument(s, d, first))

\* Conversions that end at the common tail: the digits or characters a, the prefix, and
\* the precision that they have by then.
Emit(st, a, prefix, p0) ==
    LET p == Max({p0, Len(a)})
        w == Max({st.w, Len(prefix) + p})
    IN  IF p > INT_MAX - Len(prefix) \/ w > INT_MAX - st.cnt THEN Stop(st, "EOVERFLOW")
        ELSE [st EXCEPT !.f = Field(@, w, p, st.fl, prefix, Times(p - Len(a), "0") \o a), !.l = w]
ifmt_tail(st, i, a, prefix, p) ==
    LET s == IF st.xp THEN [st EXCEPT !.fl = @ \ {"0"}] ELSE st
    IN  IF st.xp /\ p < 0 THEN Stop(st, "EOVERFLOW")
        ELSE IF i = 0 /\ p = 0 THEN Emit(s, <<>>, prefix, p)
        ELSE Emit(s, a, prefix, Max({p, Len(a) + (IF i = 0 THEN 1 ELSE 0)}))
Hex(st, i, p, lower, alt) ==
    ifmt_tail(st, i, fmt_x(i, lower),
              IF i # 0 /\ alt THEN <<"0", IF lower THEN "x" ELSE "X">> ELSE <<>>, p)
Integer(st, t, i) ==
    CASE t = "p" -> Hex(st, i, Max({st.p, 2}), TRUE, TRUE)
      [] t \in {"x", "X"} -> Hex(st, i, st.p, t = "x", "#" \in st.fl)
      [] t = "o" -> ifmt_tail(st, i, fmt_o(i), <<>>,
                              IF "#" \in st.fl THEN Max({st.p, Len(fmt_o(i)) + 1}) ELSE st.p)
      [] t = "u" -> ifmt_tail(st, i, fmt_u(i), <<>>, st.p)
      [] OTHER -> ifmt_tail(st, i, fmt_u(IF AsInt(i) < 0 THEN Range8 - i ELSE i), Sign(AsInt(i) < 0, st.fl), st.p)
Text(st, s) ==
    LET n == Min({Len(s), IF st.p < 0 THEN INT_MAX ELSE st.p})
    IN  IF st.p < 0 /\ Len(s) > n THEN Stop(st, "EOVERFLOW")
        ELSE Emit([st EXCEPT !.fl = @ \ {"0"}], SubSeq(s, 1, n), <<>>, n)
\* The bytes of the wide characters that fit into p bytes, if they all have some.
RECURSIVE Encoded(_, _)
Encoded(ws, p) ==
    IF ws = <<>> \/ p = 0 THEN [ok |-> TRUE, s |-> <<>>]
    ELSE LET c == wctomb(ws[1])
             rest == Encoded(Tail(ws), IF p < 0 THEN p ELSE p - Len(c))
         IN  IF c = <<>> THEN [ok |-> FALSE, s |-> <<>>]
             ELSE IF p > 0 /\ Len(c) > p THEN [ok |-> TRUE, s |-> <<>>]
             ELSE [ok |-> rest.ok, s |-> c \o rest.s]
WideText(st, ws, p) ==
    LET e == Encoded(ws, p)
        n == Len(e.s)
    IN  IF ~e.ok THEN Stop(st, "EILSEQ")
        ELSE IF n > INT_MAX THEN Stop(st, "EOVERFLOW")
        ELSE [st EXCEPT !.f = pad(out(pad(@, " ", st.w, n, st.fl), e.s), " ", st.w, n, Toggle(st.fl, "-")),
                        !.l = Max({st.w, n})]
Strerror == <<"E", "A">>
Null == <<"(", "n", "u", "l", "l", ")">>
\* %n: the count in the type that the prefix names; %Ln stores nothing.
Store(st, ps) ==
    IF ps = "L" THEN st
    ELSE [st EXCEPT !.stored = Append(@, st.cnt % 2^(CASE ps = "h" -> Bits.s [] ps = "hh" -> Bits.c [] OTHER -> Bits.j))]
\* %lc and %ls are %C and %S.
Conversion(d) == IF Prefix(d) # "none" THEN (CASE d.t = "c" -> "C" [] d.t = "s" -> "S" [] OTHER -> d.t) ELSE d.t
Convert(st0, d, rm) ==
    LET st == IF "-" \in st0.fl THEN [st0 EXCEPT !.fl = @ \ {"0"}] ELSE st0
        t == Conversion(d)
        arg == st.arg[1]
        narrow == Emit([st EXCEPT !.fl = @ \ {"0"}], <<Byte(arg)>>, <<>>, 1)
    IN  IF st.f.err THEN Stop(st, "EIO")
        ELSE CASE t = "n" -> Store(st, Prefix(d))
               [] t \in {"d", "i", "o", "u", "x", "X", "p"} -> Integer(st, t, arg)
               [] t = "c" \/ (t = "C" /\ arg = 0) -> narrow
               [] t = "C" /\ arg # 0 -> WideText(st, <<arg>>, -1)
               [] t = "m" -> Text(st, Strerror)
               [] t = "s" -> Text(st, IF arg.null THEN Null ELSE arg.s)
               [] t = "S" -> WideText(st, arg.s, st.p)
               [] OTHER -> IF st.xp /\ st.p < 0 THEN Stop(st, "EOVERFLOW")
                           ELSE LET r == fmt_fp(st.f, arg, st.w, st.p, st.fl, t, rm)
                                IN  IF r.l < 0 THEN Stop(st, "EOVERFLOW") ELSE [st EXCEPT !.f = r.f, !.l = r.l]

NoTypes == [i \in 1..NL_ARGMAX |-> "0"]
Begin(f, args, nl) ==
    [f |-> f, args |-> args, ap |-> 1, nl |-> nl, types |-> NoTypes, l10n |-> FALSE, v |-> 0, w |-> 0, p |-> 0,
     xp |-> FALSE, fl |-> {}, arg |-> <<>>, cnt |-> 0, l |-> 0, stored |-> <<>>, ret |-> "run"]
Item(st, x, first, Conv(_, _)) ==
    LET s == Account(st)
    IN  IF s.ret # "run" THEN s
        ELSE IF x.k = "text"
        THEN IF Len(x.s) > INT_MAX - s.cnt THEN Stop(s, "EOVERFLOW")
             ELSE [s EXCEPT !.l = Len(x.s), !.f = IF first THEN @ ELSE out(@, x.s)]
        ELSE LET t == Directive(s, x, first) IN IF first \/ t.ret # "run" THEN t ELSE Conv(t, x)
Run(fmt, st, first, Conv(_, _)) ==
    LET end == FoldLeft(LAMBDA s, x : IF s.ret = "run" THEN Item(s, x, first, Conv) ELSE s, st, fmt)
    IN  Then(end, Account)
\* The arguments by position, if the positions have no gap.
Positions(st) ==
    LET n == Max({0} \cup {k \in 1..NL_ARGMAX : \A i \in 1..k : st.types[i] # "0"})
    IN  IF \E i \in n + 1..NL_ARGMAX : st.types[i] # "0" THEN [ok |-> FALSE, nl |-> <<>>]
        ELSE [ok |-> TRUE, nl |-> [i \in 1..n |-> pop_arg(st.types[i], st.args[i])]]
printf_core(f, fmt, args, nl, rm) == Run(fmt, Begin(f, args, nl), FALSE, LAMBDA st, d : Convert(st, d, rm))
ArgumentTypes(fmt, args) == Run(fmt, Begin([out |-> <<>>, room |-> 0, err |-> FALSE], args, <<>>), TRUE, LAMBDA st, d : st)

Failed(f, why) == [f |-> f, ret |-> -1, errno |-> why, stored |-> <<>>]
vfprintf(f, fmt, args, rm) ==
    LET types == ArgumentTypes(fmt, args)
        pos == IF types.ret = "run" /\ types.l10n THEN Positions(types) ELSE [ok |-> TRUE, nl |-> <<>>]
        end == printf_core([f EXCEPT !.err = FALSE], fmt, args, pos.nl, rm)
        bad == end.ret # "run" \/ end.f.err
    IN  IF types.ret \notin {"run", "done"} THEN Failed(f, types.ret)
        ELSE IF ~pos.ok THEN Failed(f, "EINVAL")
        ELSE [f |-> [end.f EXCEPT !.err = @ \/ f.err], stored |-> end.stored,
              ret |-> IF bad THEN -1 ELSE end.cnt, errno |-> IF end.ret = "run" THEN "0" ELSE end.ret]

Stream == [out |-> <<>>, room |-> 1000, err |-> FALSE]
\* What comes into the array, and what the call returns.
vsnprintf(n, fmt, args, rm) ==
    LET r == vfprintf(Stream, fmt, args, rm)
    IN  [s |-> SubSeq(r.f.out, 1, Min({Len(r.f.out), Max({n - 1, 0})})), ret |-> r.ret]
vasprintf(fmt, args, rm, oom) ==
    LET l == vsnprintf(0, fmt, args, rm).ret
    IN  IF l < 0 \/ oom THEN [s |-> <<>>, ret |-> -1] ELSE vsnprintf(l + 1, fmt, args, rm)

-----------------------------------------------------------------------------
(***************************************************************************)
(* The wide functions.  Their stream takes wide characters and stores bytes;  *)
(* numbers are left to fprintf with a format made for them.                  *)
(***************************************************************************)
RECURSIVE Split(_)
Split(s) == IF s = <<>> THEN <<>>
            ELSE LET n == mbtowc(s) IN IF n < 0 THEN <<<<"bad">>>> ELSE <<SubSeq(s, 1, n)>> \o Split(SubSeq(s, n + 1, Len(s)))
wout(f, cs) == FoldLeft(LAMBDA g, c : IF c = <<>> THEN [g EXCEPT !.err = TRUE] ELSE out(g, c), f, cs)
wpad(f, n, fl) == IF "-" \in fl \/ n = 0 \/ f.err THEN f ELSE out(f, Times(n, " "))
\* n of the characters cs, in a field.
WideField(st, cs) ==
    LET n == Len(cs)
        w == Max({st.w, n})
    IN  [st EXCEPT !.f = wpad(wout(wpad(@, w - n, st.fl), cs), w - n, Toggle(st.fl, "-")), !.l = w]
WText(st, cs) ==
    LET n == IF st.p < 0 THEN INT_MAX ELSE st.p
        some == SubSeq(cs, 1, Min({Len(cs), n}))
    IN  IF \E i \in DOMAIN some : some[i] = <<"bad">> THEN Stop(st, "EILSEQ")
        ELSE IF st.p < 0 /\ Len(cs) > n THEN Stop(st, "EOVERFLOW")
        ELSE WideField(st, some)
\* "%" flags "*.*" and the largest type; what it returns is the length, also if it fails.
Delegate(st, t, arg, rm) ==
    LET d == [k |-> "conv", pos |-> 0, fl |-> st.fl \ {"'"}, t |-> t,
              w |-> [k |-> "star"], p |-> [k |-> "star"],
              pre |-> IF Column(t) = "e" THEN <<"L">> ELSE <<"j">>]
        neg(v) == IF v < 0 THEN v + Range8 ELSE v
        r == vfprintf(st.f, <<d>>, <<neg(st.w), neg(st.p), arg>>, rm)
    IN  [st EXCEPT !.f = r.f, !.l = r.ret]
WConvert(st, d, rm) ==
    LET t == Conversion(d)
        arg == st.arg[1]
        c == IF t = "C" THEN wctomb(arg) ELSE <<Byte(arg)>>
    IN  IF st.f.err THEN Stop(st, "EIO")
        ELSE CASE t = "n" -> Store(st, Prefix(d))
               [] t \in {"c", "C"} -> WideField(st, <<c>>)
               [] t = "S" -> IF st.p < 0 /\ Len(arg.s) > INT_MAX THEN Stop(st, "EOVERFLOW")
                             ELSE WideField(st, [i \in 1..Min({Len(arg.s), IF st.p < 0 THEN INT_MAX ELSE st.p}) |-> wctomb(arg.s[i])])
               [] t = "m" -> WText(st, Split(Strerror))
               [] t = "s" -> WText(st, Split(IF arg.null THEN Null ELSE arg.s))
               [] OTHER -> IF st.xp /\ st.p < 0 THEN Stop(st, "EOVERFLOW") ELSE Delegate(st, t, arg, rm)
wprintf_core(f, fmt, args, nl, rm) == Run(fmt, Begin(f, args, nl), FALSE, LAMBDA st, d : WConvert(st, d, rm))
vfwprintf(f, fmt, args, rm) ==
    LET types == ArgumentTypes(fmt, args)
        pos == IF types.ret = "run" /\ types.l10n THEN Positions(types) ELSE [ok |-> TRUE, nl |-> <<>>]
        end == wprintf_core([f EXCEPT !.err = FALSE], fmt, args, pos.nl, rm)
    IN  IF types.ret \notin {"run", "done"} \/ ~pos.ok THEN Failed(f, types.ret)
        ELSE [f |-> [end.f EXCEPT !.err = @ \/ f.err], stored |-> end.stored,
              ret |-> IF end.ret # "run" \/ end.f.err THEN -1 ELSE end.cnt,
              errno |-> IF end.ret = "run" THEN "0" ELSE end.ret]
\* The count is -1 if it is not below n; the array has what fits.
vswprintf(n, fmt, args, rm) ==
    LET r == vfwprintf(Stream, fmt, args, rm)
        cs == Split(r.f.out)
    IN  IF n = 0 THEN [s |-> <<>>, ret |-> -1]
        ELSE [s |-> SubSeq(cs, 1, Min({Len(cs), n - 1})), ret |-> IF r.ret >= n THEN -1 ELSE r.ret]

-----------------------------------------------------------------------------
(***************************************************************************)
(* What the C standard says of a directive, with the value and not with the   *)
(* digits as the start.                                                      *)
(***************************************************************************)
Justify(fl, w, zeros, prefix, body) ==
    LET n == Len(prefix) + Len(body)
    IN  IF n >= w THEN prefix \o body
        ELSE IF "-" \in fl THEN prefix \o body \o Times(w - n, " ")
        ELSE IF zeros THEN prefix \o Times(w - n, "0") \o body
        ELSE Times(w - n, " ") \o prefix \o body
Figures(n, b) == IF n = 0 THEN <<"0">> ELSE Base(n, b)
WidthOf(pre, t) == CASE t = "p" -> Bits.l [] pre = <<"h">> -> Bits.s [] pre = <<"h", "h">> -> Bits.c [] pre = <<>> -> Bits.i
                     [] pre \in {<<"l">>, <<"z">>, <<"t">>} -> Bits.l [] OTHER -> Bits.j
MeansInteger(t, pre, v, fl, w, p) ==
    LET low == v % 2^WidthOf(pre, t)
        signed == t \in {"d", "i"}
        neg == signed /\ low >= 2^(WidthOf(pre, t) - 1)
        n == IF neg THEN 2^WidthOf(pre, t) - low ELSE low
        b == CASE t = "o" -> 8 [] t \in {"x", "X", "p"} -> 16 [] OTHER -> 10
        ds == IF n = 0 /\ p = 0 THEN <<>> ELSE Figures(n, b)
        long == Times((IF t = "p" THEN Max({p, 2}) ELSE p) - Len(ds), "0") \o ds
        alt == "#" \in fl \/ t = "p"
        octal == IF t = "o" /\ alt /\ (long = <<>> \/ long[1] # "0") THEN <<"0">> \o long ELSE long
        body == IF t \in {"x", "p"} THEN [i \in DOMAIN octal |-> Lower(octal[i])] ELSE octal
        prefix == IF signed THEN Sign(neg, fl)
                  ELSE IF b = 16 /\ alt /\ n # 0 THEN <<"0", IF t = "X" THEN "X" ELSE "x">> ELSE <<>>
    IN  Justify(fl, w, "0" \in fl /\ p < 0, prefix, body)

\* num 2^-k 10^q, rounded to an integer.
Nearest(num, k, q, neg, rm) ==
    LET h == k - q
        n == num * (IF q > 0 THEN 5^q ELSE 1) * (IF h < 0 THEN 2^(-h) ELSE 1)
        den == (IF q < 0 THEN 5^(-q) ELSE 1) * (IF h > 0 THEN 2^h ELSE 1)
        low == n % den
        up == CASE rm = "near" -> 2 * low > den \/ (2 * low = den /\ (n \div den) % 2 = 1)
                [] rm = "up" -> ~neg /\ low > 0
                [] rm = "down" -> neg /\ low > 0
                [] OTHER -> FALSE
    IN  (n \div den) + (IF up THEN 1 ELSE 0)
Point(ds, p, fl) ==
    LET n == Len(ds) - p IN SubSeq(ds, 1, n) \o (IF p > 0 \/ "#" \in fl THEN <<".">> ELSE <<>>) \o SubSeq(ds, n + 1, Len(ds))
Wide0(n, p) == LET ds == Figures(n, 10) IN Times(p + 1 - Len(ds), "0") \o ds
InFixed(y, p, fl, rm) ==
    Point(Wide0(IF y.k = "zero" THEN 0 ELSE Nearest(y.m, LDBL_MANT_DIG - 1 - y.e, p, y.s, rm), p), p, fl)
\* The exponent X of the decimal form with p + 1 digits, and the digits as a number.
InDigits(y, p, rm) ==
    LET k == LDBL_MANT_DIG - 1 - y.e
        whole == IF k > 0 THEN y.m \div 2^k ELSE y.m * 2^(-k)
        x0 == Max({q \in 0..5 : whole >= 10^q} \cup {-q : q \in {i \in 1..6 : y.m * 5^i >= 2^Max({k - i, 0})}})
        n == Nearest(y.m, k, p - x0, y.s, rm)
    IN  IF y.k = "zero" THEN [x |-> 0, n |-> 0]
        ELSE IF n = 10^(p + 1) THEN [x |-> x0 + 1, n |-> 10^p] ELSE [x |-> x0, n |-> n]
InExponent(d, p, fl, e) == Point(Wide0(d.n, p), p, fl) \o Estr(d.x, e, 2)
\* Without trailing zeros behind the point, and without the point if nothing is left.
RECURSIVE Strip(_)
Strip(s) == IF "." \notin ToSet(s) THEN s
            ELSE IF Last(s) = "0" THEN Strip(Front(s)) ELSE IF Last(s) = "." THEN Front(s) ELSE s
InGeneral(y, p0, fl, e, rm) ==
    LET p == IF p0 = 0 THEN 1 ELSE p0
        d == InDigits(y, p - 1, rm)
        exp == Estr(d.x, e, 2)
    IN  IF p > d.x /\ d.x >= -4
        THEN IF "#" \in fl THEN InFixed(y, p - 1 - d.x, fl, rm) ELSE Strip(InFixed(y, p - 1 - d.x, fl, rm))
        ELSE (IF "#" \in fl THEN Point(Wide0(d.n, p - 1), p - 1, fl) ELSE Strip(Point(Wide0(d.n, p - 1), p - 1, fl))) \o exp
MeansDecimal(y, t, fl, w, p0, rm) ==
    LET p == IF p0 < 0 THEN 6 ELSE p0
        e == IF t \in LowerTypes THEN "e" ELSE "E"
        body == CASE Kind(t) = "f" -> InFixed(y, p, fl, rm)
                  [] Kind(t) = "e" -> InExponent(InDigits(y, p, rm), p, fl, e)
                  [] OTHER -> InGeneral(y, p, fl, e, rm)
        name == CASE y.k = "inf" -> IF t \in LowerTypes THEN <<"i", "n", "f">> ELSE <<"I", "N", "F">>
                  [] OTHER -> IF t \in LowerTypes THEN <<"n", "a", "n">> ELSE <<"N", "A", "N">>
    IN  IF y.k \in {"inf", "nan"} THEN Justify(fl, w, FALSE, Sign(y.s, fl), name)
        ELSE Justify(fl, w, "0" \in fl, Sign(y.s, fl), body)
Chars(ws) == [i \in DOMAIN ws |-> wctomb(ws[i])]
MeansHex(y, t, fl, w, p, rm) ==
    LET q == IF p \in 0..3 THEN p ELSE 3
        n == IF y.k = "zero" THEN 0 ELSE Nearest(y.m, LDBL_MANT_DIG - 1 - 4 * q, 0, y.s, rm)
        ds == LET h == Figures(n, 16) IN Times(q + 1 - Len(h), "0") \o h
        short == IF p >= 0 THEN Point(ds \o Times(p - q, "0"), Max({p, q}), fl)
                 ELSE LET x == Strip(Point(ds, q, {"#"})) IN IF "#" \in fl /\ "." \notin ToSet(x) THEN x \o <<".">> ELSE x
        body == short \o Estr(IF y.k = "zero" THEN 0 ELSE y.e, "P", 1)
        Case(x) == IF t = "a" THEN [i \in DOMAIN x |-> Lower(x[i])] ELSE x
    IN  Justify(fl, w, "0" \in fl, Sign(y.s, fl) \o Case(<<"0", "X">>), IF n = 0 /\ y.k = "zero" /\ p < 0 THEN Case((IF "#" \in fl THEN <<"0", ".">> ELSE <<"0">>) \o Estr(0, "P", 1)) ELSE Case(body))

\* The arguments of a directive: [w, p, fl, v, ap].
Resolve(d, ap, args) ==
    LET int(x, n) == AsInt(SignExtend(IF x.k = "nth" THEN args[x.n] ELSE args[n], Bits.i))
        a1 == IF d.w.k = "star" THEN ap + 1 ELSE ap
        a2 == IF d.p.k = "star" THEN a1 + 1 ELSE a1
        w == CASE d.w.k = "none" -> 0 [] d.w.k = "num" -> d.w.n [] OTHER -> int(d.w, ap)
        p == CASE d.p.k = "none" -> -1 [] d.p.k = "num" -> d.p.n [] OTHER -> int(d.p, a1)
    IN  [w |-> IF w < 0 THEN -w ELSE w, fl |-> IF w < 0 THEN d.fl \cup {"-"} ELSE d.fl, p |-> p,
         v |-> IF d.t \in {"m"} THEN <<>> ELSE <<IF d.pos > 0 THEN args[d.pos] ELSE args[a2]>>,
         ap |-> IF d.t = "m" \/ d.pos > 0 THEN a2 ELSE a2 + 1]
\* What it prints, as characters; "" stands for one that cannot be encoded.
Means(d, x, wide, rm) ==
    LET t == d.t
        v == x.v[1]
        long == d.pre = <<"l">>
        ones(s) == [i \in DOMAIN s |-> <<s[i]>>]
        fit(cs) == IF x.p < 0 THEN cs
                   ELSE IF wide THEN SubSeq(cs, 1, Min({x.p, Len(cs)}))
                   ELSE SubSeq(cs, 1, Max({0} \cup {k \in 1..Len(cs) : /\ Len(FlattenSeq(SubSeq(cs, 1, k))) <= x.p
                                                                         /\ Len(FlattenSeq(SubSeq(cs, 1, k - 1))) < x.p}))
        chars(s) == IF wide THEN Split(s) ELSE ones(s)
        place(cs) == LET n == IF wide THEN Len(cs) ELSE Len(FlattenSeq(cs))
                         gap == Times(x.w - n, <<" ">>)
                     IN  IF "-" \in x.fl THEN cs \o gap ELSE gap \o cs
    IN  CASE t \in {"d", "i", "o", "u", "x", "X", "p"} -> ones(MeansInteger(t, d.pre, v, x.fl, x.w, x.p))
          [] t \in {"a", "A"} /\ v.k \notin {"inf", "nan"} -> ones(MeansHex(v, t, x.fl, x.w, x.p, rm))
          [] t = "c" -> place(<<IF long THEN wctomb(v % 2^Bits.i) ELSE <<Byte(v)>>>>)
          [] t = "s" -> place(fit(IF v.null THEN ones(Null) ELSE IF long THEN Chars(v.s) ELSE chars(v.s)))
          [] t = "m" -> place(fit(ones(Strerror)))
          [] t = "n" -> <<>>
          [] OTHER -> ones(MeansDecimal(v, t, x.fl, x.w, x.p, rm))
Meaning(fmt, args, wide, rm) ==
    FoldLeft(LAMBDA m, d :
                 IF d.k = "text" THEN [m EXCEPT !.cs = @ \o [i \in DOMAIN d.s |-> <<d.s[i]>>]]
                 ELSE LET x == Resolve(d, m.ap, args)
                          n == IF wide THEN Len(m.cs) ELSE Len(FlattenSeq(m.cs))
                          numeric == d.t \notin {"c", "s", "m", "n"}
                      IN  IF (d.w.k = "num" /\ x.w > INT_MAX) \/ (d.p.k = "num" /\ x.p > INT_MAX /\ numeric) \/ m.over
                          THEN [m EXCEPT !.over = TRUE]
                          ELSE [m EXCEPT !.cs = @ \o Means(d, x, wide, rm), !.ap = x.ap,
                                         !.n = IF d.t = "n" THEN Append(@, n) ELSE @],
             [cs |-> <<>>, ap |-> 1, over |-> FALSE, n |-> <<>>], fmt)

\* printf prints what the format means, and returns how much that is; it fails with
\* EOVERFLOW if that is more than INT_MAX, with EILSEQ if a character has no bytes, and if a
\* write failed.  An error of the stream from before stays but does not count.
PrintsRight(fmt, args, wide, rm, room, err) ==
    LET f == [out |-> <<>>, room |-> room, err |-> err]
        r == IF wide THEN vfwprintf(f, fmt, args, rm) ELSE vfprintf(f, fmt, args, rm)
        m == Meaning(fmt, args, wide, rm)
        all == FlattenSeq(m.cs)
        n == IF wide THEN Len(m.cs) ELSE Len(all)
        bad == \E i \in DOMAIN m.cs : m.cs[i] \in {<<>>, <<"bad">>}
    IN  IF m.over THEN r.ret = -1 /\ r.errno = "EOVERFLOW"
        ELSE IF bad THEN r.ret = -1 /\ (r.errno = "EILSEQ" \/ r.f.err)
        ELSE IF Len(all) > room THEN r.ret = -1 /\ (r.f.err \/ r.errno = "EOVERFLOW")
        ELSE IF n > INT_MAX THEN r.ret = -1
        ELSE r.ret = n /\ r.f.out = all /\ r.f.err = err /\ r.stored = m.n
\* snprintf returns the same and stores a prefix, swprintf fails if it is not all; asprintf
\* has room for all of it.
StoresRight(fmt, args, wide, rm) ==
    LET r == IF wide THEN vfwprintf(Stream, fmt, args, rm) ELSE vfprintf(Stream, fmt, args, rm)
        n == r.ret
        cs == Split(r.f.out)
    IN  n >= 0 => IF wide THEN \A k \in {0, 1, n, n + 1} :
                                   vswprintf(k, fmt, args, rm) = [s |-> SubSeq(cs, 1, k - 1), ret |-> IF k <= n THEN -1 ELSE n]
                  ELSE /\ \A k \in {0, 1, n, n + 1} : vsnprintf(k, fmt, args, rm) = [s |-> SubSeq(r.f.out, 1, k - 1), ret |-> n]
                       /\ vasprintf(fmt, args, rm, FALSE) = [s |-> r.f.out, ret |-> n]

-----------------------------------------------------------------------------
(***************************************************************************)
(* scanf and strto*.  Characters are strings of length one.  Integers have 8 *)
(* bits where the code has 64 (unsigned int: 6); limbs are those of printf.   *)
(***************************************************************************)
ULLONG_MAX == 255
LLONG_MIN == 128
UINT_MAX == 63
Spaces == {" ", "\n"}
Alphabet == <<"0", "1", "2", "3", "4", "5", "6", "7", "8", "9", "a", "b", "c", "d", "e", "f", "g">>
Capital == "A" :> "a" @@ "E" :> "e" @@ "F" :> "f" @@ "X" :> "x" @@ "P" :> "p" @@ "I" :> "i" @@ "N" :> "n"
ToLower(c) == IF c \in DOMAIN Capital THEN Capital[c] ELSE c
\* The code's table: the value of a digit, or more than any base.
val(c) == IF ToLower(c) \in ToSet(Alphabet) THEN SelectInSeq(Alphabet, LAMBDA x : x = ToLower(c)) - 1 ELSE 255
IsDigit(c) == val(c) < 10

-----------------------------------------------------------------------------
(***************************************************************************)
(* Reading with a limit: a stream f has the characters in and a position;     *)
(* start is where the count begins, lim the limit (0: none; -1: reached, or    *)
(* at the end), c the character read last.                                   *)
(***************************************************************************)
Open(in) == [in |-> in, pos |-> 0, start |-> 0, lim |-> 0, c |-> "EOF"]
shcnt(f) == f.pos - f.start
shlim(f, lim) == [f EXCEPT !.start = f.pos, !.lim = lim]
shgetc(f) ==
    IF (f.lim # 0 /\ shcnt(f) >= f.lim) \/ f.pos = Len(f.in)
    THEN [f EXCEPT !.c = "EOF", !.lim = -1]
    ELSE [f EXCEPT !.c = f.in[f.pos + 1], !.pos = @ + 1]
shunget(f) == IF f.lim >= 0 THEN [f EXCEPT !.pos = @ - 1] ELSE f
RECURSIVE While(_, _)
\* Reading on while the character read is in the set.
While(f, set) == IF f.c \in set THEN While(shgetc(f), set) ELSE f
SkipSpaces(f) == While(shgetc(f), Spaces)

-----------------------------------------------------------------------------
(***************************************************************************)
(* __intscan.                                                               *)
(***************************************************************************)
\* A loop over digits while y is at most lim and, if asked, the next value fits the variable
\* of that width.
RECURSIVE Collect(_, _, _, _, _, _)
Collect(f, y, base, wrap, lim, exact) ==
    LET d == val(f.c)
    IN  IF d < base /\ y <= lim /\ (exact => base * y <= wrap - 1 - d)
        THEN Collect(shgetc(f), (y * base + d) % wrap, base, wrap, lim, exact)
        ELSE [f |-> f, y |-> y]
\* The logarithm of a power of two, from the table in the code.
Bs(base) == <<0, 1, 2, 4, 7, 3, 6, 5>>[(((23 * base) \div 32) % 8) + 1]
PowerOf2(base) == base \in {2, 4, 8, 16, 32}
\* In the word of the machine first, then in the long one.
Number(f, base) ==
    LET first == IF base = 10 THEN (UINT_MAX \div 10) - 1 ELSE IF PowerOf2(base) THEN UINT_MAX \div 32 ELSE (UINT_MAX \div 36) - 1
        factor == IF PowerOf2(base) THEN 2^Bs(base) ELSE base
        x == Collect(f, 0, factor, UINT_MAX + 1, first, FALSE)
    IN  Collect(x.f, x.y, factor, ULLONG_MAX + 1, ULLONG_MAX \div factor, ~PowerOf2(base))
Got(f, y, errno) == [f |-> f, y |-> y, errno |-> errno]
Negate(y, neg) == IF neg THEN (ULLONG_MAX + 1 - y) % (ULLONG_MAX + 1) ELSE y
Limited(f, y, neg, lim, errno) ==
    IF y >= lim /\ lim % 2 = 0 /\ ~neg THEN Got(f, lim - 1, "ERANGE")
    ELSE IF y > lim THEN Got(f, lim, "ERANGE")
    ELSE Got(f, Negate(y, neg), errno)
Finish(f, base, neg, lim) ==
    LET n == Number(f, base)
    IN  IF val(n.f.c) < base
        THEN Limited(shunget(While(n.f, {c \in ToSet(Alphabet) \cup DOMAIN Capital : val(c) < base})), lim,
                     neg /\ lim % 2 = 0, lim, "ERANGE")
        ELSE Limited(shunget(n.f), n.y, neg, lim, "0")
intscan(f0, base, pok, lim) ==
    LET f1 == SkipSpaces(f0)
        neg == f1.c = "-"
        f2 == IF f1.c \in {"+", "-"} THEN shgetc(f1) ELSE f1
        f3 == shgetc(f2)
        f4 == shgetc(f3)
        back == shunget(f4)
    IN  IF base > 36 \/ base = 1 THEN Got(f0, 0, "EINVAL")
        ELSE IF base \in {0, 16} /\ f2.c = "0"
        THEN IF ToLower(f3.c) = "x"
             THEN IF val(f4.c) >= 16 THEN Got(IF pok THEN shunget(back) ELSE shlim(back, 0), 0, "0")
                  ELSE Finish(f4, 16, neg, lim)
             ELSE Finish(f3, IF base = 0 THEN 8 ELSE base, neg, lim)
        ELSE LET b == IF base = 0 THEN 10 ELSE base
             IN  IF val(f2.c) >= b THEN Got(shlim(shunget(f2), 0), 0, "EINVAL") ELSE Finish(f2, b, neg, lim)

RangeOf(lim) == IF lim % 2 = 0 THEN 2 * lim ELSE lim + 1
\* strtol and the others: the value and how many characters belong to it.
strtox(s, base, lim) ==
    LET r == intscan(shlim(Open(s \o <<"NUL">>), 0), base, TRUE, lim) IN [y |-> r.y % RangeOf(lim), errno |-> r.errno, end |-> shcnt(r.f)]
\* For wide strings, characters outside ASCII and the end are read as a character that no
\* number has.
wcstox(ws, base, lim) ==
    LET n == Max({0} \cup {k \in 1..Len(ws) : \A i \in 1..k : ws[i] \in Spaces})
        in == [i \in 1..Len(ws) - n + 1 |-> IF i > Len(ws) - n \/ ws[n + i] = "w" THEN "@" ELSE ws[n + i]]
        r == intscan(shlim(Open(in), 0), base, TRUE, lim)
    IN  [y |-> r.y % RangeOf(lim), errno |-> r.errno, end |-> IF shcnt(r.f) = 0 THEN 0 ELSE n + shcnt(r.f)]
\* Without a check; a number that does not fit is undefined.
atoi(s) ==
    LET f1 == SkipSpaces(Open(s \o <<"NUL">>))
        f2 == IF f1.c \in {"+", "-"} THEN shgetc(f1) ELSE f1
        n == Collect(f2, 0, 10, 2^20, 2^20, FALSE).y
    IN  IF f1.c = "-" THEN -n ELSE n

-----------------------------------------------------------------------------
(***************************************************************************)
(* __floatscan.  A limb has DIG digits, where the code has 9, and a long      *)
(* double MANT bits; float, double and long double have the bits and least   *)
(* exponents below.  A number is m * 2^e with a sign.                         *)
(***************************************************************************)
MANT == 12
th == <<40, 95>>
B1B == 2
KMAX == 16
Formats == <<[bits |-> 5, emin |-> -9], [bits |-> 9, emin |-> -16], [bits |-> 12, emin |-> -21]>>
Emax(g) == 3 - g.emin - g.bits
Modes == {"near", "up", "down", "zero"}
Num(s, m, e) == [k |-> "num", s |-> s, m |-> m, e |-> e]
Inf(s) == [k |-> "inf", s |-> s, m |-> 0, e |-> 0]
NaN == [k |-> "nan", s |-> FALSE, m |-> 0, e |-> 0]
\* What multiplying the largest and the least numbers stands for.
Huge(s) == Num(s, 1, 99)
Tiny(s) == Num(s, 1, -99)
BitLen(n) == CHOOSE b \in 0..31 : n < 2^b /\ (b = 0 \/ n >= 2^(b - 1))
Away(rm, s, odd, twice, unit) ==
    CASE rm = "near" -> twice > unit \/ (twice = unit /\ odd)
      [] rm = "up" -> ~s /\ twice > 0
      [] rm = "down" -> s /\ twice > 0
      [] OTHER -> FALSE
\* The hardware: a sum, here of integers, rounded to a long double.
Fl(n, rm) ==
    LET a == IF n < 0 THEN -n ELSE n
        u == 2^Max({0, BitLen(a) - MANT})
        q == (a \div u) + (IF Away(rm, n < 0, (a \div u) % 2 = 1, 2 * (a % u), u) THEN 1 ELSE 0)
    IN  IF n < 0 THEN -q * u ELSE q * u
\* The conversion to the type of the result.
Cast(v, g, rm) ==
    LET ulp == Max({g.emin, BitLen(v.m) + v.e - g.bits})
        sh == ulp - v.e
        u == IF sh > 20 THEN 2^20 ELSE 2^sh
        q == IF sh <= 0 THEN v.m * 2^(-sh)
             ELSE (v.m \div u) + (IF Away(rm, v.s, (v.m \div u) % 2 = 1, 2 * (v.m % u), u) THEN 1 ELSE 0)
        r == IF q = 2^g.bits THEN Num(v.s, q \div 2, ulp + 1) ELSE Num(v.s, q, ulp)
    IN  IF v.k # "num" THEN v
        ELSE IF v.m = 0 THEN Num(v.s, 0, g.emin)
        ELSE IF v.e > 50 \/ BitLen(r.m) + r.e > Emax(g)
        THEN IF rm = "near" \/ (rm = "up" /\ ~v.s) \/ (rm = "down" /\ v.s) THEN Inf(v.s)
             ELSE Num(v.s, 2^g.bits - 1, Emax(g) - g.bits)
        ELSE r
Scanned(f, v, errno) == [f |-> f, v |-> v, errno |-> errno]

RECURSIVE Unget(_, _)
Unget(f, n) == IF n = 0 THEN f ELSE Unget(shunget(f), n - 1)
Digits10 == {"0", "1", "2", "3", "4", "5", "6", "7", "8", "9"}
\* An exponent; one that is much too large saturates.
scanexp(f0, pok) ==
    LET f1 == shgetc(f0)
        signed == f1.c \in {"+", "-"}
        f2 == IF signed THEN shgetc(f1) ELSE f1
        f3 == IF signed /\ ~IsDigit(f2.c) /\ pok THEN shunget(f2) ELSE f2
        n == Collect(f2, 0, 10, 2^20, 99, FALSE)
    IN  IF ~IsDigit(f2.c) THEN [f |-> shunget(f3), ok |-> FALSE, e |-> 0]
        ELSE [f |-> shunget(While(n.f, Digits10)), ok |-> TRUE, e |-> IF f1.c = "-" THEN -n.y ELSE n.y]

\* The leading zeros: how many behind the point, and whether there were any.
Zeros(f) ==
    LET f1 == While(f, {"0"})
        f2 == While(shgetc(f1), {"0"})
        rad == f1.c = "."
    IN  [f |-> IF rad THEN f2 ELSE f1, rad |-> rad,
         n |-> IF rad THEN f2.pos - f1.pos - (IF f2.c = "EOF" THEN 0 ELSE 1) ELSE 0,
         dig |-> f.c = "0" \/ (rad /\ shgetc(f1).c = "0")]
RECURSIVE Gather(_)
\* The digits, DIG to a limb; what no limb is left for is or-ed into the last one.
Gather(g) ==
    LET c == g.f.c
        on == [g EXCEPT !.f = shgetc(g.f)]
        d == val(c)
    IN  IF c = "." /\ ~g.rad THEN Gather([on EXCEPT !.rad = TRUE, !.lrp = g.dc])
        ELSE IF ~IsDigit(c) THEN g
        ELSE IF g.k < KMAX - 3
        THEN Gather([on EXCEPT !.dc = @ + 1, !.lnz = IF d # 0 THEN g.dc + 1 ELSE @,
                        !.x[g.k] = IF g.j # 0 THEN @ * 10 + d ELSE d,
                        !.k = IF g.j + 1 = DIG THEN @ + 1 ELSE @, !.j = (@ + 1) % DIG, !.dig = TRUE])
        ELSE Gather([on EXCEPT !.dc = @ + 1, !.lnz = IF d # 0 THEN (KMAX - 4) * DIG ELSE @,
                        !.x[KMAX - 4] = IF d # 0 /\ @ % 2 = 0 THEN @ + 1 ELSE @])

Wrap(i) == i % KMAX
\* The number in the ring: limbs a to z - 1, the point rp digits behind the start.
RECURSIVE Align(_, _, _, _)
Align(n, k, p10, carry) ==
    LET d == (n.x[k] \div p10) + carry
        drop == k = n.a /\ d = 0
    IN  IF k = n.z THEN IF carry # 0 THEN [n EXCEPT !.x[n.z] = carry, !.z = @ + 1] ELSE n
        ELSE Align([n EXCEPT !.x[k] = d, !.a = IF drop THEN Wrap(@ + 1) ELSE @, !.rp = IF drop THEN @ - DIG ELSE @],
                   k + 1, p10, (LIMB \div p10) * (n.x[k] % p10))
AlignPoint(n) ==
    LET r == n.rp % DIG
    IN  IF r = 0 THEN n ELSE [Align(n, n.a, 10^(DIG - r), 0) EXCEPT !.rp = @ + DIG - r]

\* Times 2^6 (2^29); a zero limb at the end goes, and a full ring loses its last limb, which
\* is or-ed into the one before it.
Prepend(n, carry) ==
    LET a == Wrap(n.a - 1)
        z == Wrap(n.z - 1)
    IN  IF a # n.z THEN [n EXCEPT !.rp = @ + DIG, !.a = a, !.x[a] = carry]
        ELSE [n EXCEPT !.rp = @ + DIG, !.a = a, !.z = z,
                       !.x = [@ EXCEPT ![Wrap(z - 1)] = @ | n.x[z], ![a] = carry]]
RECURSIVE MulStep(_, _, _)
MulStep(n, k, carry) ==
    LET tmp == n.x[k] * 2^6 + carry
        d == IF tmp > LIMB THEN tmp % LIMB ELSE tmp
        c == IF tmp > LIMB THEN tmp \div LIMB ELSE 0
        m == [n EXCEPT !.x[k] = d, !.z = IF k = Wrap(n.z - 1) /\ k # n.a /\ d = 0 THEN k ELSE @]
    IN  IF k # n.a THEN MulStep(m, Wrap(k - 1), c)
        ELSE IF c = 0 THEN m ELSE Prepend(m, c)
RECURSIVE MulTo(_)
MulTo(n) ==
    IF n.rp < DIG * B1B \/ (n.rp = DIG * B1B /\ n.x[n.a] < th[1])
    THEN MulTo([MulStep(n, Wrap(n.z - 1), 0) EXCEPT !.e2 = n.e2 - 6])
    ELSE n
\* Divided by 2^sh, until the first limbs are at most th.
RECURSIVE DivStep(_, _, _, _)
DivStep(n, k, sh, carry) ==
    LET d == (n.x[k] \div 2^sh) + carry
        drop == k = n.a /\ d = 0
    IN  IF k # n.z
        THEN DivStep([n EXCEPT !.x[k] = d, !.a = IF drop THEN Wrap(@ + 1) ELSE @, !.rp = IF drop THEN @ - DIG ELSE @],
                 Wrap(k + 1), sh, (LIMB \div 2^sh) * (n.x[k] % 2^sh))
        ELSE IF carry = 0 THEN n
        ELSE IF Wrap(n.z + 1) # n.a THEN [n EXCEPT !.x[n.z] = carry, !.z = Wrap(@ + 1)]
        ELSE [n EXCEPT !.x[Wrap(n.z - 1)] = @ | 1]
AtMost(n) ==
    LET less(i) == Wrap(n.a + i) = n.z \/ n.x[Wrap(n.a + i)] < th[i + 1]
        more(i) == ~less(i) /\ n.x[Wrap(n.a + i)] > th[i + 1]
    IN  \A i \in 0..B1B - 1 : more(i) => \E j \in 0..i - 1 : less(j)
RECURSIVE DivTo(_)
DivTo(n) ==
    LET sh == IF n.rp > DIG + DIG * B1B THEN 2 ELSE 1
    IN  IF AtMost(n) /\ n.rp = DIG * B1B THEN n
        ELSE DivTo([DivStep(n, n.a, sh, 0) EXCEPT !.e2 = n.e2 + sh])
\* The first limbs are the integer y; z moves if there are fewer.
RECURSIVE Assemble(_, _, _)
Assemble(n, i, y) ==
    LET m == IF Wrap(n.a + i) = n.z THEN [n EXCEPT !.z = Wrap(@ + 1), !.x[Wrap(n.z + 1) - 1] = 0] ELSE n
    IN  IF i = B1B THEN [n |-> n, y |-> y] ELSE Assemble(m, i + 1, y * LIMB + m.x[Wrap(m.a + i)])

\* A mutant: half a unit is half a unit whatever follows it.
QuartersOfLimb(n) ==
    LET t == n.x[Wrap(n.a + B1B)]
    IN  IF Wrap(n.a + B1B) = n.z \/ t = 0 THEN 0
        ELSE IF t < LIMB \div 2 THEN 1 ELSE IF t = LIMB \div 2 THEN 2 ELSE 3
\* What is left is a fraction, of which the code only needs the quarter; all in quarters.
Quarters(n) ==
    LET t == n.x[Wrap(n.a + B1B)]
        last == Wrap(n.a + B1B + 1) = n.z
    IN  IF Wrap(n.a + B1B) = n.z \/ (t = 0 /\ last) THEN 0
        ELSE IF t < LIMB \div 2 THEN 1
        ELSE IF t = LIMB \div 2 /\ last THEN 2 ELSE 3
\* The rounding to fewer bits by adding and taking away a bias, in the rounding mode.
RoundBits(n, y, g, sign, rm) ==
    LET bits == Max({0, Min({g.bits, MANT + n.e2 - g.emin})})
        unit == 2^(MANT - bits)
        bias == IF bits < MANT THEN sign * 4 * 2^(2 * MANT - bits - 1) ELSE 0
        frac == IF bits < MANT THEN sign * 4 * (y % unit) ELSE 0
        tail == Fl(frac + sign * Quarters(n), rm)
        full == IF Wrap(n.a + B1B) # n.z /\ MANT - bits >= 2 /\ tail % 4 = 0 THEN tail + 4 ELSE tail
    IN  [y |-> Fl(Fl(Fl(sign * 4 * y - frac + bias, rm) + full, rm) - bias, rm), frac |-> full # 0, bits |-> bits,
         denormal |-> g.bits > MANT + n.e2 - g.emin]
Abs(n) == IF n < 0 THEN -n ELSE n
Scale(f, n, g, s, rm) ==
    LET y == Assemble(n, 0, 0)
        r == RoundBits(y.n, y.y, g, IF s THEN -1 ELSE 1, rm)
        edge == n.e2 + MANT < 0 \/ n.e2 + MANT > Emax(g) - 5
        carry == edge /\ Abs(r.y) >= 4 * 2^MANT
        e2 == IF carry THEN n.e2 + 1 ELSE n.e2
        denormal == r.denormal /\ ~(carry /\ r.bits = MANT + n.e2 - g.emin)
    IN  Scanned(f, Num(r.y < 0 \/ (r.y = 0 /\ rm = "down"), Abs(r.y), n.e2 - 2),
                IF edge /\ (e2 + MANT > Emax(g) \/ (denormal /\ r.frac)) THEN "ERANGE" ELSE "0")

decfloat(f0, g, s, pok, rm) ==
    LET zs == Zeros(f0)
        d == Gather([f |-> zs.f, x |-> [i \in 0..KMAX - 1 |-> 0], k |-> 0, j |-> 0, dc |-> 0, lrp |-> -zs.n,
                     lnz |-> 0, dig |-> zs.dig, rad |-> zs.rad])
        e == d.dig /\ ToLower(d.f.c) = "e"
        ex == scanexp(d.f, pok)
        f == IF e THEN (IF ~ex.ok /\ pok THEN shunget(ex.f) ELSE ex.f) ELSE shunget(d.f)
        lrp == (IF d.rad THEN d.lrp ELSE d.dc) + (IF e THEN ex.e ELSE 0)
        k == IF d.j = 0 THEN d.k ELSE d.k + 1
        x == IF d.j = 0 THEN d.x ELSE [d.x EXCEPT ![d.k] = @ * 10^(DIG - d.j)]
        bitlim == g.bits - 3 * (lrp - DIG)
        z == Max({i \in 1..k : x[i - 1] # 0})
        n == [x |-> x, a |-> 0, z |-> z, rp |-> lrp, e2 |-> 0]
        zero == Num(FALSE, 0, 0)
    IN  IF e /\ ~ex.ok /\ ~pok THEN Scanned(shlim(f, 0), zero, "0")
        ELSE IF ~d.dig THEN Scanned(shlim(f, 0), zero, "EINVAL")
        ELSE IF d.x[0] = 0 THEN Scanned(f, Num(s, 0, 0), "0")
        ELSE IF lrp = d.dc /\ d.dc <= DIG /\ (g.bits > 7 \/ d.x[0] < 2^g.bits) THEN Scanned(f, Num(s, d.x[0], 0), "0")
        ELSE IF lrp > (-g.emin) \div 2 THEN Scanned(f, Huge(s), "ERANGE")
        ELSE IF lrp < g.emin - 2 * MANT THEN Scanned(f, Tiny(s), "ERANGE")
        ELSE IF d.lnz < DIG /\ d.lnz <= lrp /\ lrp <= DIG
        THEN Scanned(f, Num(s, x[0] \div 10^(DIG - lrp), 0), "0")
        ELSE IF d.lnz < DIG /\ d.lnz <= lrp /\ lrp < 2 * DIG /\ bitlim >= 0 /\ (bitlim > 7 \/ x[0] < 2^bitlim)
        THEN Scanned(f, Num(s, x[0] * 10^(lrp - DIG), 0), "0")
        ELSE Scale(f, DivTo(MulTo(AlignPoint(n))), g, s, rm)

\* The hexadecimal digits: two (8) into x, two more (9) into y, the rest into half a unit of
\* the last of those; y counts 2^-9.
RECURSIVE GatherHex(_)
GatherHex(g) ==
    LET c == g.f.c
        on == [g EXCEPT !.f = shgetc(g.f)]
        d == val(c)
    IN  IF c = "." /\ ~g.rad THEN GatherHex([on EXCEPT !.rad = TRUE, !.rp = g.dc])
        ELSE IF d >= 16 THEN g
        ELSE GatherHex([on EXCEPT !.dig = TRUE, !.dc = @ + 1, !.x = IF g.dc < 2 THEN @ * 16 + d ELSE @,
                           !.y = IF g.dc < 2 THEN @
                                 ELSE IF g.dc < (MANT \div 4) + 1 THEN @ + d * (512 \div 16^(g.dc - 1))
                                 ELSE IF d # 0 /\ ~g.tail THEN @ + 1 ELSE @,
                           !.tail = @ \/ (g.dc >= (MANT \div 4) + 1 /\ d # 0)])
RECURSIVE Normal(_)
Normal(n) ==
    IF n.x >= 128 THEN n
    ELSE Normal([n EXCEPT !.x = 2 * @ + (IF n.y >= 256 THEN 1 ELSE 0), !.y = (2 * @) % 512, !.e2 = @ - 1])
RoundHexIn(n, g, s, rm) ==
    LET bits == Max({0, Min({g.bits, 8 + n.e2 - g.emin})})
        sign == IF s THEN -1 ELSE 1
        bias == IF bits < MANT THEN sign * 512 * 2^(8 + MANT - bits - 1) ELSE 0
        stick == bits < 8 /\ n.y # 0 /\ n.x % 2 = 0
        x == IF stick THEN n.x + 1 ELSE n.x
        y == IF stick THEN 0 ELSE n.y
    IN  Fl(Fl(Fl(bias + sign * 512 * x, rm) + sign * y, rm) - bias, rm)
hexfloat(f0, g, s, pok, rm) ==
    LET zs == Zeros(shgetc(f0))
        h == GatherHex([f |-> zs.f, x |-> 0, y |-> 0, dc |-> 0, rp |-> -zs.n, dig |-> zs.dig, rad |-> zs.rad, tail |-> FALSE])
        back == shunget(h.f)
        ex == scanexp(h.f, pok)
        p == ToLower(h.f.c) = "p"
        f == IF p THEN (IF ~ex.ok /\ pok THEN shunget(ex.f) ELSE ex.f) ELSE back
        e2 == (IF p THEN ex.e ELSE 0) + 4 * (IF h.rad THEN h.rp ELSE h.dc) - 8
        n == Normal([x |-> h.x * 16^Max({0, 2 - h.dc}), y |-> h.y, e2 |-> e2])
        v == RoundHexIn(n, g, s, rm)
    IN  IF ~h.dig THEN Scanned(IF pok THEN Unget(back, IF h.rad THEN 2 ELSE 1) ELSE shlim(back, 0), Num(s, 0, 0), "0")
        ELSE IF p /\ ~ex.ok /\ ~pok THEN Scanned(shlim(f, 0), Num(FALSE, 0, 0), "0")
        ELSE IF h.x = 0 THEN Scanned(f, Num(s, 0, 0), "0")
        ELSE IF e2 > -g.emin THEN Scanned(f, Huge(s), "ERANGE")
        ELSE IF e2 < g.emin - 2 * MANT THEN Scanned(f, Tiny(s), "ERANGE")
        ELSE Scanned(f, Num(v < 0 \/ (v = 0 /\ rm = "down"), Abs(v), n.e2 - 9), IF v = 0 THEN "ERANGE" ELSE "0")

\* A word, letter by letter; the last one is not followed by a read.
RECURSIVE Spell(_, _, _)
Spell(f, word, i) ==
    IF i < Len(word) /\ ToLower(f.c) = word[i + 1] THEN Spell(IF i < Len(word) - 1 THEN shgetc(f) ELSE f, word, i + 1)
    ELSE [f |-> f, i |-> i]
Alnum == Digits10 \cup {"_"} \cup ToSet(Alphabet) \cup DOMAIN Capital
NotANumber(f0, pok) ==
    LET f1 == shgetc(f0)
        f2 == While(shgetc(f1), Alnum)
        i == f2.pos - f1.pos + (IF f2.c = "EOF" THEN 1 ELSE 0)
    IN  IF f1.c # "(" THEN Scanned(shunget(f1), NaN, "0")
        ELSE IF f2.c = ")" THEN Scanned(f2, NaN, "0")
        ELSE IF ~pok THEN Scanned(shlim(shunget(f2), 0), Num(FALSE, 0, 0), "EINVAL")
        ELSE Scanned(Unget(shunget(f2), i), NaN, "0")
floatscan(f0, g, pok, rm) ==
    LET f1 == SkipSpaces(f0)
        s == f1.c = "-"
        f2 == IF f1.c \in {"+", "-"} THEN shgetc(f1) ELSE f1
        inf == Spell(f2, <<"i", "n", "f", "i", "n", "i", "t", "y">>, 0)
        nan == Spell(f2, <<"n", "a", "n">>, 0)
        f3 == shgetc(f2)
    IN  IF inf.i \in {3, 8} \/ (inf.i > 3 /\ pok)
        THEN Scanned(IF inf.i = 8 THEN inf.f ELSE Unget(shunget(inf.f), IF pok THEN inf.i - 3 ELSE 0), Inf(s), "0")
        ELSE IF inf.i > 0 THEN Scanned(shlim(shunget(inf.f), 0), Num(FALSE, 0, 0), "EINVAL")
        ELSE IF nan.i = 3 THEN NotANumber(nan.f, pok)
        ELSE IF nan.i > 0 THEN Scanned(shlim(shunget(nan.f), 0), Num(FALSE, 0, 0), "EINVAL")
        ELSE IF f2.c = "0"
        THEN IF ToLower(f3.c) = "x" THEN hexfloat(f3, g, s, pok, rm)
             ELSE decfloat([shunget(f3) EXCEPT !.c = "0"], g, s, pok, rm)
        ELSE decfloat(f2, g, s, pok, rm)

\* strtof, strtod, strtold: the value, after the conversion to the type.
strtod(s, prec, rm) ==
    LET r == floatscan(shlim(Open(s \o <<"NUL">>), 0), Formats[prec], TRUE, rm)
    IN  [v |-> Cast(r.v, Formats[prec], rm), errno |-> r.errno, end |-> shcnt(r.f)]

\* wcstod differs in how it reads: see wcstox.
wcstod(ws, prec, rm) ==
    LET n == Max({0} \cup {k \in 1..Len(ws) : \A i \in 1..k : ws[i] \in Spaces})
        in == [i \in 1..Len(ws) - n + 1 |-> IF i > Len(ws) - n \/ ws[n + i] = "w" THEN "@" ELSE ws[n + i]]
        r == floatscan(shlim(Open(in), 0), Formats[prec], TRUE, rm)
    IN  [v |-> Cast(r.v, Formats[prec], rm), errno |-> r.errno, end |-> IF shcnt(r.f) = 0 THEN 0 ELSE n + shcnt(r.f)]

-----------------------------------------------------------------------------
(***************************************************************************)
(* scanf.  A format is a sequence of white space, characters to match and       *)
(* conversions; arg is 0 for a suppressed one, n for "n$", -1 for the next     *)
(* argument; set is the text behind "[".  The character w is encoded as the    *)
(* bytes < > >.  Allocation number oom fails.  A state has the stream, the      *)
(* count pos, the arguments taken and stored to, and the blocks allocated;     *)
(* end tells why it ended.                                                   *)
(***************************************************************************)
White == [k |-> "white"]
Match(c) == [k |-> "match", c |-> c]
Conv(arg, width, m, size, t, set) == [k |-> "conv", arg |-> arg, width |-> width, m |-> m, size |-> size, t |-> t, set |-> set]
Order == <<" ", "%", "(", ")", "+", "-", ".">> \o SubSeq(Alphabet, 1, 10) \o <<"<", ">", "E", "]", "^">> \o SubSeq(Alphabet, 11, 17) \o <<"w", "x">>
Ord(c) == SelectInSeq(Order, LAMBDA x : x = c)
SizeBits(size) == CASE size = "hh" -> 4 [] size = "h" -> 5 [] size = "" -> 6 [] OTHER -> 8
Encode(c) == IF c = "w" THEN <<"<", ">", ">">> ELSE <<c>>

Ended(st, end) == [st EXCEPT !.end = end]
Put(st, it, v) == IF it.arg = 0 THEN st ELSE [st EXCEPT !.out = Append(@, [arg |-> it.arg, v |-> v])]
store_int(st, it, y) == IF it.size = "L" THEN st ELSE Put(st, it, [k |-> "int", y |-> y % 2^SizeBits(it.size)])
\* Moving on to f, which has read one conversion.
Advance(st, f) == [st EXCEPT !.f = f, !.pos = @ + shcnt(f)]
Counted(st, it) == IF it.arg = 0 THEN st ELSE [st EXCEPT !.matches = @ + 1]
SkipWhite(st) == Advance(st, shunget(SkipSpaces(shlim(st.f, 0))))
MatchOne(st, c) ==
    LET f0 == shlim(st.f, 0)
        f == IF c = "%" THEN SkipSpaces(f0) ELSE shgetc(f0)
    IN  IF f.c = c THEN Advance(st, f)
        ELSE Ended([st EXCEPT !.f = shunget(f)], IF f.c = "EOF" THEN "input" ELSE "match")

\* The set of a conversion %[.
RECURSIVE SetFrom(_, _, _)
SetFrom(set, p, acc) ==
    IF p > Len(set) THEN [ok |-> FALSE, in |-> acc]
    ELSE IF set[p] = "]" THEN [ok |-> TRUE, in |-> acc]
    ELSE IF set[p] = "-" /\ p < Len(set) /\ set[p + 1] # "]"
    THEN SetFrom(set, p + 2, acc \cup {set[p + 1]} \cup {c \in ToSet(Order) : Ord(c) >= Ord(set[p - 1]) /\ Ord(c) < Ord(set[p + 1])})
    ELSE SetFrom(set, p + 1, acc \cup {set[p]})
in_set(set) ==
    IF set # <<>> /\ set[1] \in {"-", "]"} THEN SetFrom(set, 2, {set[1]}) ELSE SetFrom(set, 1, {})
Accepted(it) ==
    LET inverted == it.set # <<>> /\ it.set[1] = "^"
        s == in_set(IF inverted THEN Tail(it.set) ELSE it.set)
    IN  CASE it.t = "c" -> [ok |-> TRUE, in |-> ToSet(Order)]
          [] it.t = "s" -> [ok |-> TRUE, in |-> ToSet(Order) \ Spaces]
          [] OTHER -> [ok |-> s.ok, in |-> IF inverted THEN ToSet(Order) \ s.in ELSE s.in]

\* An allocation, of the size k; r.end is "alloc" if it fails.
Chunk == 5
Allocate(r, k) == IF r.n + 1 = r.oom THEN [r EXCEPT !.n = @ + 1, !.end = "alloc"] ELSE [r EXCEPT !.n = @ + 1, !.k = k]
\* mbrtowc, byte by byte: bytes missing in r.st.
Decode(r, c) ==
    IF r.st > 0 THEN IF c = ">" THEN [r EXCEPT !.st = @ - 1, !.s = IF r.st = 1 THEN Append(@, "w") ELSE @] ELSE [r EXCEPT !.end = "input"]
    ELSE IF c = "<" THEN [r EXCEPT !.st = 2]
    ELSE IF c = ">" THEN [r EXCEPT !.end = "input"] ELSE [r EXCEPT !.s = Append(@, c)]
RECURSIVE ReadSet(_, _, _, _)
ReadSet(r, set, wide, alloc) ==
    LET f == shgetc(r.f)
        r1 == IF wide THEN Decode([r EXCEPT !.f = f], f.c) ELSE [r EXCEPT !.f = f, !.s = Append(@, f.c)]
        r2 == IF alloc /\ Len(r1.s) = r1.k THEN Allocate(r1, r1.k + r1.k + 1) ELSE r1
    IN  IF f.c \notin set THEN [r EXCEPT !.f = f]
        ELSE IF r2.end # "go" THEN r2 ELSE ReadSet(r2, set, wide, alloc)
TextOf(st, it) ==
    LET wide == it.size = "l"
        alloc == st.alloc
        width == IF it.t = "c" THEN Max({1, it.width}) ELSE it.width
        r0 == [f |-> st.f, s |-> <<>>, st |-> 0, k |-> 0, n |-> st.n, oom |-> st.oom, end |-> "go"]
        r1 == IF alloc THEN Allocate(r0, IF it.t = "c" THEN width + 1 ELSE Chunk) ELSE r0
        r2 == IF r1.end = "go" THEN ReadSet(r1, Accepted(it).in, wide, alloc) ELSE r1
        f == shunget(r2.f)
        done == [st EXCEPT !.n = r2.n, !.f = r2.f, !.block = r1.k > 0, !.heap = IF r1.k > 0 THEN @ + 1 ELSE @, !.room = @ /\ (alloc /\ r2.end = "go" => Len(r2.s) < r2.k)]
    IN  IF ~Accepted(it).ok THEN Ended(st, "format")
        ELSE IF r2.end # "go" \/ r2.st > 0 THEN Ended(done, IF r2.end = "go" THEN "input" ELSE r2.end)
        ELSE IF shcnt(f) = 0 \/ (it.t = "c" /\ shcnt(f) # width) THEN Ended([done EXCEPT !.f = f], "match")
        ELSE Counted(Put(Advance(done, f), it, [k |-> "text", s |-> r2.s]), it)
ReadBase(t) == CASE t \in {"p", "x", "X"} -> 16 [] t = "o" -> 8 [] t \in {"d", "u"} -> 10 [] t = "i" -> 0
IntegerOf(st, it) ==
    LET r == intscan(st.f, ReadBase(it.t), FALSE, ULLONG_MAX)
        to == IF it.t = "p" THEN Put(st, it, [k |-> "int", y |-> r.y]) ELSE store_int(st, it, r.y)
    IN  IF shcnt(r.f) = 0 THEN Ended([st EXCEPT !.f = r.f], "match") ELSE Counted(Advance(to, r.f), it)
Prec(size) == CASE size = "" -> 1 [] size = "l" -> 2 [] size = "L" -> 3
FloatOf(st, it) ==
    LET g == Formats[Prec(it.size)]
        r == floatscan(st.f, g, FALSE, "near")
    IN  IF it.size \notin {"", "l", "L"} \/ shcnt(r.f) = 0
        THEN Ended([st EXCEPT !.f = IF it.size \in {"", "l", "L"} THEN r.f ELSE @], "match")
        ELSE Counted(Advance(Put(st, it, Cast(r.v, g, "near")), r.f), it)
\* %S and %C are other names.
Plain(it) ==
    IF it.t \in {"S", "C"} THEN [it EXCEPT !.size = "l", !.t = IF @ = "S" THEN "s" ELSE "c"] ELSE it
Types == {"d", "i", "o", "u", "x", "X", "a", "e", "f", "g", "s", "c", "[", "p", "n"}
ScanOne(st0, it0) ==
    LET it == [Plain(it0) EXCEPT !.arg = IF @ = -1 THEN st0.ap ELSE @]
        st == [st0 EXCEPT !.ap = IF it0.arg = -1 THEN @ + 1 ELSE @, !.alloc = it.m /\ it.arg # 0, !.block = @ /\ ~it.m]
        st1 == IF it.t \in {"c", "["} THEN st ELSE SkipWhite(st)
        f == shgetc(shlim(st1.f, IF it.t = "c" THEN Max({1, it.width}) ELSE it.width))
        st2 == [st1 EXCEPT !.f = shunget(f)]
    IN  IF it.t \notin Types THEN Ended(st, "format")
        ELSE IF it.t = "n" THEN store_int(st, it, st.pos)
        ELSE IF f.c = "EOF" THEN Ended([st1 EXCEPT !.f = f], "input")
        ELSE IF it.t \in {"s", "c", "["} THEN TextOf(st2, it)
        ELSE IF it.t \in {"a", "e", "f", "g"} THEN FloatOf(st2, it)
        ELSE IntegerOf(st2, it)
Start(f, oom) ==
    [f |-> f, pos |-> 0, matches |-> 0, ap |-> 1, out |-> <<>>, n |-> 0, oom |-> oom, heap |-> 0,
     alloc |-> FALSE, block |-> FALSE, room |-> TRUE, end |-> "go"]
RECURSIVE scan(_, _)
scan(fmt, st0) ==
    LET st == [st0 EXCEPT !.alloc = FALSE]
    IN  IF fmt = <<>> \/ st0.end # "go" THEN st0
        ELSE scan(Tail(fmt), CASE fmt[1].k = "white" -> SkipWhite(st)
                               [] fmt[1].k = "match" -> MatchOne(st, fmt[1].c)
                               [] OTHER -> ScanOne(st, fmt[1]))
\* Failures count as the end of the input if nothing was stored; what was allocated for the
\* conversion that failed is freed.
Result(st) ==
    [st EXCEPT !.matches = IF st.end \in {"input", "alloc", "format"} /\ @ = 0 THEN -1 ELSE @,
               !.heap = IF st.end # "go" /\ st.alloc /\ st.block THEN @ - 1 ELSE @]
vfscanf(f, fmt, oom) == Result(scan(fmt, Start(f, oom)))

-----------------------------------------------------------------------------
(***************************************************************************)
(* wscanf: it reads characters itself and leaves numbers to scanf.              *)
(***************************************************************************)
getwc(f) == shgetc(shlim(f, 0))
WSkip(st) == LET f == While(getwc(st.f), Spaces) IN [st EXCEPT !.f = shunget(f), !.pos = @ + shunget(f).pos - st.f.pos]
WMatch(st0, c) ==
    LET st == IF c = "%" THEN WSkip(st0) ELSE st0
        f == getwc(st.f)
    IN  IF f.c = c THEN [st EXCEPT !.f = f, !.pos = @ + 1]
        ELSE Ended([st EXCEPT !.f = shunget(f)], IF f.c = "EOF" THEN "input" ELSE "match")
\* A block of k bytes grows as soon as it could not hold an other character (4 bytes in the
\* code, 3 here), but a k below that makes the unsigned k - 4 huge: then it never does.
MostBytes == Len(Encode("w"))
RECURSIVE WReadSet(_, _, _, _, _)
WReadSet(r, set, wide, alloc, width) ==
    LET f == getwc(r.f)
        fits == ~alloc \/ wide \/ Len(r.s) + Len(Encode(f.c)) <= r.k
        r1 == [r EXCEPT !.f = f, !.s = @ \o (IF wide THEN <<f.c>> ELSE Encode(f.c)), !.room = @ /\ fits]
        grows == alloc /\ IF wide THEN Len(r1.s) = r1.k ELSE r1.k >= MostBytes /\ Len(r1.s) > r1.k - MostBytes
        r2 == IF grows THEN Allocate(r1, r1.k + r1.k + 1) ELSE r1
    IN  IF width = 0 THEN [r EXCEPT !.left = 0]
        ELSE IF f.c = "EOF" \/ f.c \notin set THEN [r EXCEPT !.f = f, !.left = width]
        ELSE IF r2.end # "go" THEN r2
        ELSE WReadSet([r2 EXCEPT !.got = TRUE], set, wide, alloc, IF width > 0 THEN width - 1 ELSE width)
\* Only %c writes no zero behind its text.
WTextOf(st, it) ==
    LET wide == it.size = "l"
        alloc == st.alloc
        width == IF it.t = "c" THEN Max({1, it.width}) ELSE IF it.width = 0 THEN -1 ELSE it.width
        r0 == [f |-> st.f, s |-> <<>>, k |-> 0, n |-> st.n, oom |-> st.oom, end |-> "go", room |-> TRUE, left |-> 0, got |-> FALSE]
        r1 == IF alloc THEN Allocate(r0, IF it.t = "c" THEN width + 1 ELSE Chunk) ELSE r0
        r2 == IF r1.end = "go" THEN WReadSet(r1, Accepted(it).in, wide, alloc, width) ELSE r1
        f == IF r2.left # 0 THEN shunget(r2.f) ELSE r2.f
        done == [st EXCEPT !.n = r2.n, !.f = f, !.pos = @ + f.pos - st.f.pos,
                           !.block = r1.k > 0, !.heap = IF r1.k > 0 THEN @ + 1 ELSE @,
                           !.room = @ /\ r2.room /\ (alloc /\ it.t # "c" /\ r2.end = "go" => Len(r2.s) < r2.k)]
    IN  IF ~Accepted(it).ok THEN Ended(st, "format")
        ELSE IF r2.end # "go" THEN Ended(done, r2.end)
        ELSE IF r2.left # 0 /\ (it.t = "c" \/ ~r2.got) THEN Ended(done, "match")
        ELSE Counted(Put(done, it, [k |-> "text", s |-> r2.s]), it)
\* A number is read by scanf, with a format made for it and a count behind it.
WNumberOf(st, it) ==
    LET r == vfscanf(st.f, <<Conv(IF it.arg = 0 THEN 0 ELSE 1, it.width, FALSE, it.size, it.t, <<>>), Conv(9, 0, FALSE, "ll", "n", <<>>)>>, 0)
        cnt == {r.out[i].v.y : i \in {j \in 1..Len(r.out) : r.out[j].arg = 9}}
        values == SelectSeq(r.out, LAMBDA o : o.arg # 9)
        st1 == [st EXCEPT !.f = r.f, !.out = @ \o [i \in 1..Len(values) |-> [arg |-> it.arg, v |-> values[i].v]]]
    IN  IF r.matches = -1 THEN Ended([st EXCEPT !.f = r.f], "input")
        ELSE IF cnt \in {{}, {0}} THEN Ended([st EXCEPT !.f = r.f], "match")
        ELSE Counted([st1 EXCEPT !.pos = @ + Max(cnt)], it)
WScanOne(st0, it0) ==
    LET it == [Plain(it0) EXCEPT !.arg = IF @ = -1 THEN st0.ap ELSE @]
        st == [st0 EXCEPT !.ap = IF it0.arg = -1 THEN @ + 1 ELSE @, !.alloc = it.m /\ it.arg # 0, !.block = @ /\ ~it.m]
        st1 == IF it.t \in {"c", "["} THEN st ELSE WSkip(st)
    IN  IF it.t \notin Types THEN Ended(st, "format")
        ELSE IF it.t = "n" THEN store_int(st, it, st.pos)
        ELSE IF getwc(st1.f).c = "EOF" THEN Ended([st1 EXCEPT !.f = getwc(st1.f)], "input")
        ELSE IF it.t \in {"s", "c", "["} THEN WTextOf(st1, it) ELSE WNumberOf(st1, it)
RECURSIVE wscan(_, _)
wscan(fmt, st0) ==
    LET st == [st0 EXCEPT !.alloc = FALSE]
    IN  IF fmt = <<>> \/ st0.end # "go" THEN st0
        ELSE wscan(Tail(fmt), CASE fmt[1].k = "white" -> WSkip(st)
                                [] fmt[1].k = "match" -> WMatch(st, fmt[1].c)
                                [] OTHER -> WScanOne(st, fmt[1]))
vfwscanf(f, fmt, oom) == Result(wscan(fmt, Start(f, oom)))

-----------------------------------------------------------------------------
(***************************************************************************)
(* What the functions shall do, from the grammar of the C standard: an        *)
(* automaton that reads a number; "dead" is the state for what is not the       *)
(* start of any.                                                            *)
(***************************************************************************)
FloatStep(q, c0) ==
    LET c == ToLower(c0)
        sign == c \in {"+", "-"}
        dig == val(c) < 10
        hex == val(c) < 16
        word == <<"i", "n", "f", "i", "n", "i", "t", "y">>
    IN  CASE q = "start" /\ sign -> "signed"
          [] q \in {"start", "signed"} /\ c = "0" -> "zero"
          [] q \in {"start", "signed", "zero", "int"} /\ dig -> "int"
          [] q \in {"start", "signed"} /\ c = "." -> "point"
          [] q \in {"zero", "int"} /\ c = "." -> "frac"
          [] q \in {"point", "frac"} /\ dig -> "frac"
          [] q \in {"zero", "int", "frac"} /\ c = "e" -> "e"
          [] q \in {"e", "p"} /\ sign -> "esign"
          [] q \in {"e", "p", "esign", "exp"} /\ dig -> "exp"
          [] q = "zero" /\ c = "x" -> "x"
          [] q \in {"x", "hex"} /\ hex -> "hex"
          [] q = "x" /\ c = "." -> "xpoint"
          [] q = "hex" /\ c = "." -> "xfrac"
          [] q \in {"xpoint", "xfrac"} /\ hex -> "xfrac"
          [] q \in {"hex", "xfrac"} /\ c = "p" -> "p"
          [] q \in {"start", "signed"} /\ c = "i" -> "inf1"
          [] \E i \in 2..8 : q = "inf" \o ToString(i - 1) /\ c = word[i] -> "inf" \o ToString(1 + CHOOSE i \in 1..7 : q = "inf" \o ToString(i))
          [] q \in {"start", "signed"} /\ c = "n" -> "n"
          [] q = "n" /\ c = "a" -> "na"
          [] q = "na" /\ c = "n" -> "nan"
          [] q = "nan" /\ c = "(" -> "nan("
          [] q = "nan(" /\ c0 \in Alnum -> "nan("
          [] q = "nan(" /\ c = ")" -> "nan()"
          [] OTHER -> "dead"
IsFloat(q) == q \in {"zero", "int", "frac", "exp", "hex", "xfrac", "inf3", "inf8", "nan", "nan()"}
IntStep(q, c, base) ==
    LET d == val(c)
        sub == q \in {"start", "signed"}
    IN  CASE q = "start" /\ c \in {"+", "-"} -> "signed"
          [] sub /\ base \in {0, 16} /\ c = "0" -> "zero"
          [] sub /\ d < (IF base = 0 THEN 10 ELSE base) -> "digits"
          [] q = "digits" /\ d < (IF base = 0 THEN 10 ELSE base) -> "digits"
          [] q = "zero" /\ ToLower(c) = "x" -> "x"
          [] q \in {"zero", "octal"} /\ base = 0 /\ d < 8 -> "octal"
          [] q = "zero" /\ base = 16 /\ d < 16 -> "digits"
          [] q \in {"x", "hex"} /\ d < 16 -> "hex"
          [] OTHER -> "dead"
IsInt(q) == q \in {"zero", "digits", "octal", "hex"}
Step(q, c, base) == IF base = -1 THEN FloatStep(q, c) ELSE IntStep(q, c, base)
IsNumber(q, base) == IF base = -1 THEN IsFloat(q) ELSE IsInt(q)
\* The states after 0, 1, .. characters of s.
RECURSIVE StatesOf(_, _, _)
StatesOf(s, base, qs) ==
    IF Len(qs) > Len(s) \/ Last(qs) = "dead" THEN qs ELSE StatesOf(s, base, Append(qs, Step(Last(qs), s[Len(qs)], base)))
Blanks(s) == Max({n \in 0..Len(s) : \A i \in 1..n : s[i] \in Spaces})
\* How much of s, behind blanks, is the longest number at its start; 0: none.
Longest(s, base) ==
    LET n == Blanks(s)
        qs == StatesOf(SubSeq(s, n + 1, Len(s)), base, <<"start">>)
        ends == {i \in 1..Len(qs) : IsNumber(qs[i], base)}
    IN  IF ends = {} THEN 0 ELSE n + Max(ends) - 1

\* The value of the digits of a number.
RECURSIVE Value(_, _, _)
Value(s, base, y) == IF s = <<>> THEN y ELSE Value(Tail(s), base, y * base + val(Head(s)))
Sat == 100000
RECURSIVE SatValue(_, _, _)
SatValue(s, base, y) == IF s = <<>> THEN y ELSE SatValue(Tail(s), base, Min({Sat, y * base + val(Head(s))}))
IntValue(item, base) ==
    LET t == SelectSeq(item, LAMBDA c : c \notin Spaces \cup {"+", "-"})
        hex == base \in {0, 16} /\ Len(t) > 1 /\ ToLower(t[2]) = "x"
        b == IF hex THEN 16 ELSE IF base # 0 THEN base ELSE IF t[1] = "0" THEN 8 ELSE 10
    IN  SatValue(IF hex THEN SubSeq(t, 3, Len(t)) ELSE t, b, 0)

\* strtol and strtoul, narrow or wide: where the number ends; its value, or the nearest limit
\* and ERANGE if it does not fit; a negative number wraps where the type is unsigned.
IntegersRight(s, base, r, lim) ==
    LET n == Longest(s, base)
        item == SubSeq(s, 1, n)
        neg == "-" \in ToSet(item)
        v == IntValue(item, base)
        signed == lim % 2 = 0
        most == IF signed /\ ~neg THEN lim - 1 ELSE lim
    IN  IF base = 1 \/ base > 36 THEN r.end = 0 /\ r.errno = "EINVAL"
        ELSE /\ r.end = n
             /\ n = 0 => r.y = 0 /\ r.errno = "EINVAL"
             /\ n > 0 => IF v > most THEN r.y = most /\ r.errno = "ERANGE"
                         ELSE r.y = (IF neg THEN RangeOf(lim) - v ELSE v) % RangeOf(lim) /\ r.errno = "0"

\* Decimal digits of m * 2^e, from 10^5 to 10^-34.
Places == 6
Length == 40
RECURSIVE Fraction(_, _, _)
Fraction(r, unit, k) == IF k = 0 THEN <<>> ELSE <<(r * 10) \div unit>> \o Fraction((r * 10) % unit, unit, k - 1)
ExactDecimal(m, e) ==
    LET unit == 2^Max({0, -e})
        int == IF e >= 0 THEN m * 2^e ELSE m \div unit
    IN  [i \in 1..Places |-> (int \div 10^(Places - i)) % 10] \o Fraction(IF e >= 0 THEN 0 ELSE m % unit, unit, Length - Places)
RECURSIVE Compare(_, _)
Compare(a, b) ==
    IF a = <<>> THEN 0 ELSE IF Head(a) # Head(b) THEN Head(a) - Head(b) ELSE Compare(Tail(a), Tail(b))
\* The digits of an item of the input, in the same places; empty if it is too large for them.
DigitsOf(item) ==
    LET e == SelectInSeq(item, LAMBDA c : ToLower(c) = "e")
        mant == IF e = 0 THEN item ELSE SubSeq(item, 1, e - 1)
        p == SelectInSeq(mant, LAMBDA c : c = ".")
        ds == SelectSeq(mant, IsDigit)
        before == IF p = 0 THEN Len(ds) ELSE Len(SelectSeq(SubSeq(mant, 1, p), IsDigit))
        ev == SatValue(SelectSeq(SubSeq(item, e + 1, Len(item)), IsDigit), 10, 0)
        point == before + (IF e = 0 THEN 0 ELSE IF "-" \in ToSet(SubSeq(item, e, Len(item))) THEN -ev ELSE ev)
        at(i) == IF point - Places + i \in 1..Len(ds) THEN val(ds[point - Places + i]) ELSE 0
    IN  [at |-> [i \in 1..Length |-> at(i)],
         over |-> \E i \in 1..Len(ds) : val(ds[i]) # 0 /\ i - point + Places < 1,
         rest |-> \E i \in 1..Len(ds) : val(ds[i]) # 0 /\ i - point + Places > Length]
\* Compares the magnitude of the item with m * 2^e.
Against(item, m, e) ==
    LET d == DigitsOf(item)
        c == Compare(d.at, ExactDecimal(m, e))
    IN  IF d.over THEN 1 ELSE IF c # 0 THEN c ELSE IF d.rest THEN 1 ELSE 0
\* The magnitude of a hexadecimal item, in the same way; at most eight digits.
AgainstHex(item, m, e) ==
    LET x == SelectInSeq(item, LAMBDA c : ToLower(c) = "x")
        p == SelectInSeq(item, LAMBDA c : ToLower(c) = "p")
        mant == SubSeq(item, x + 1, IF p = 0 THEN Len(item) ELSE p - 1)
        ds == SelectSeq(mant, LAMBDA c : c # ".")
        q == SelectInSeq(mant, LAMBDA c : c = ".")
        ev == IF p = 0 THEN 0 ELSE SatValue(SelectSeq(SubSeq(item, p + 1, Len(item)), IsDigit), 10, 0)
        ex == (IF p > 0 /\ "-" \in ToSet(SubSeq(item, p, Len(item))) THEN -ev ELSE ev) - (IF q = 0 THEN 0 ELSE 4 * (Len(mant) - q))
        v == Value(ds, 16, 0)
        big == BitLen(v) + ex - BitLen(m) - e
        least == Min({ex, e})
    IN  IF v = 0 \/ m = 0 THEN v - m
        ELSE IF big # 0 THEN big
        ELSE v * 2^(ex - least) - m * 2^(e - least)
\* r is item, rounded once to the format.
Rounded(item, r, g, rm, Cmp(_, _, _)) ==
    LET s == item[1] = "-"
        top == Emax(g) - g.bits
        low == r.m = 2^(g.bits - 1) /\ r.e > g.emin
        up == (rm = "up" /\ ~s) \/ (rm = "down" /\ s)
        even == r.m % 2 = 0
        above == Cmp(item, 2 * r.m + 1, r.e - 1)
        below == IF low THEN Cmp(item, 4 * r.m - 1, r.e - 2) ELSE Cmp(item, 2 * r.m - 1, r.e - 1)
        pred == IF low THEN Cmp(item, 2 * r.m - 1, r.e - 1) ELSE Cmp(item, r.m - 1, r.e)
    IN  IF r.k = "inf"
        THEN IF rm = "near" THEN Cmp(item, 2^(g.bits + 1) - 1, top - 1) >= 0 ELSE up /\ Cmp(item, 2^g.bits - 1, top) > 0
        ELSE IF rm = "near" THEN /\ above < 0 \/ (above = 0 /\ even)
                                 /\ r.m > 0 => below > 0 \/ (below = 0 /\ even)
        ELSE IF up THEN Cmp(item, r.m, r.e) <= 0 /\ (r.m > 0 => pred > 0)
        ELSE /\ Cmp(item, r.m, r.e) >= 0
             /\ Cmp(item, r.m + 1, r.e) < 0 \/ (r.m = 2^g.bits - 1 /\ r.e = top)
\* strtof, strtod and strtold: the number's end, and its value rounded once, in every
\* rounding mode; ERANGE for what is too large, and for what is rounded and too small.
\* The code rounds twice what is less than two units of the least number, if it is negative or
\* the rounding is directed, and hexadecimal numbers of which 7 (31) bits remain, or where the
\* rounding is directed away; of these the value is only within a unit of the number, or two of
\* the last kind.
Twice(item, hex, g, rm) ==
    IF hex THEN rm \notin {"near", "zero"} \/ (AgainstHex(item, 1, g.emin + 6) >= 0 /\ AgainstHex(item, 1, g.emin + 7) < 0)
    ELSE Against(item, 2, g.emin) < 0 /\ (item[1] = "-" \/ rm # "near")
Within(k, item, r, Cmp(_, _, _)) ==
    r.k = "num" /\ Cmp(item, r.m + k, r.e) <= 0 /\ (r.m > k => Cmp(item, r.m - k, r.e) >= 0)
FloatsRight(s, prec, rm) ==
    LET r == strtod(s, prec, rm)
        g == Formats[prec]
        n == Longest(s, -1)
        item == SubSeq(s, Blanks(s) + 1, n)
        hex == \E i \in 1..Len(item) : ToLower(item[i]) = "x"
        cmp == IF hex THEN AgainstHex(item, r.v.m, r.v.e) ELSE Against(item, r.v.m, r.v.e)
        subnormal == BitLen(r.v.m) < g.bits
        over == r.v.k = "inf" \/ (~hex /\ Against(item, 2^g.bits, Emax(g) - g.bits) >= 0)
    IN  /\ r.end = n
        /\ IF n = 0 THEN r.v.m = 0 /\ r.errno = "EINVAL"
           ELSE IF \E i \in 1..Len(item) : ToLower(item[i]) = "n"
           THEN r.v.k = (IF \E i \in 1..Len(item) : ToLower(item[i]) = "a" THEN "nan" ELSE "inf")
           ELSE /\ r.v.k = "num" /\ r.v.m > 0 => r.v.s = (item[1] = "-")
                /\ \/ IF hex THEN Rounded(item, r.v, g, rm, AgainstHex) ELSE Rounded(item, r.v, g, rm, Against)
                   \/ /\ Twice(item, hex, g, rm)
                      /\ IF hex THEN Within(IF rm \in {"near", "zero"} THEN 1 ELSE 2, item, r.v, AgainstHex)
                         ELSE Within(1, item, r.v, Against)
                /\ ~hex => /\ r.errno = "ERANGE" => over \/ (cmp # 0 /\ subnormal)
                           /\ over \/ (cmp # 0 /\ r.v.m = 0) => r.errno = "ERANGE"

\* scanf by the standard.  m is what has been done: the characters consumed, the values
\* assigned, and why it stopped.
TextIn(in, p, it) ==
    LET width == IF it.t = "c" THEN Max({1, it.width}) ELSE IF it.width = 0 THEN Len(in) ELSE it.width
        ends == {n \in 0..Min({width, Len(in) - p}) : \A i \in p + 1..p + n : in[i] \in Accepted(it).in}
    IN  Max(ends)
\* A number is the longest start of one, within the width, and fails if it is not a whole one.
NumberIn(in, p, it, base) ==
    LET rest == SubSeq(in, p + 1, IF it.width = 0 THEN Len(in) ELSE Min({Len(in), p + it.width}))
        qs == StatesOf(rest, base, <<"start">>)
        n == IF Last(qs) = "dead" THEN Len(qs) - 2 ELSE Len(qs) - 1
    IN  [n |-> n, ok |-> IsNumber(qs[n + 1], base)]
RECURSIVE Decoded(_)
Decoded(s) ==
    IF s = <<>> THEN <<>>
    ELSE IF Len(s) > 2 /\ SubSeq(s, 1, 3) = Encode("w") THEN <<"w">> \o Decoded(SubSeq(s, 4, Len(s)))
    ELSE IF Head(s) \in {"<", ">"} THEN <<"illegal">> ELSE <<Head(s)>> \o Decoded(Tail(s))
Assigned(m, it, n, v) ==
    IF it.arg = 0 THEN [m EXCEPT !.p = @ + n]
    ELSE [m EXCEPT !.p = @ + n, !.count = @ + 1, !.out = Append(@, [arg |-> it.arg, v |-> v])]
StopAt(m, n, end) == [m EXCEPT !.p = @ + n, !.end = end]
MeansConversion(m0, in, it, wide) ==
    LET m == IF it.t \in {"c", "["} THEN m0 ELSE [m0 EXCEPT !.p = @ + Blanks(SubSeq(in, @ + 1, Len(in)))]
        t == TextIn(in, m.p, it)
        raw == SubSeq(in, m.p + 1, m.p + t)
        text == IF wide THEN IF it.size = "l" THEN raw ELSE FlattenSeq([i \in 1..t |-> Encode(raw[i])])
                ELSE IF it.size = "l" THEN Decoded(raw) ELSE raw
        base == IF it.t \in {"a", "e", "f", "g"} THEN -1 ELSE ReadBase(it.t)
        n == NumberIn(in, m.p, it, base)
        item == SubSeq(in, m.p + 1, m.p + n.n)
        v == IntValue(item, base)
        y == IF v > ULLONG_MAX THEN ULLONG_MAX ELSE Negate(v, "-" \in ToSet(item))
    IN  IF it.t = "n" THEN [m0 EXCEPT !.out = IF it.arg = 0 THEN @ ELSE Append(@, [arg |-> it.arg, v |-> [k |-> "int", y |-> m0.p]])]
        ELSE IF m.p = Len(in) THEN StopAt(m, 0, "input")
        ELSE IF it.t \in {"s", "c", "["}
        THEN IF "illegal" \in ToSet(text) THEN StopAt(m, t, "illegal")
             ELSE IF t = 0 \/ (it.t = "c" /\ t # Max({1, it.width})) THEN StopAt(m, t, "match")
             ELSE Assigned(m, it, t, [k |-> "text", s |-> text])
        ELSE IF ~n.ok THEN StopAt(m, n.n, "match")
        ELSE IF base # -1 THEN Assigned(m, it, n.n, [k |-> "int", y |-> y % 2^(IF it.t = "p" THEN 8 ELSE SizeBits(it.size))])
        ELSE Assigned(m, it, n.n, strtod(item, Prec(it.size), "near").v)
RECURSIVE ScanMeans(_, _, _, _)
ScanMeans(fmt, in, wide, m) ==
    LET b == Blanks(SubSeq(in, m.p + 1, Len(in)))
        it == fmt[1]
        at == IF it.c = "%" THEN m.p + b ELSE m.p
        here == [Plain(it) EXCEPT !.arg = IF @ = -1 THEN m.ap ELSE @]
    IN  IF fmt = <<>> \/ m.end # "go" THEN m
        ELSE ScanMeans(Tail(fmt), in, wide,
                       IF it.k = "white" THEN [m EXCEPT !.p = @ + b]
                       ELSE IF it.k = "conv"
                       THEN MeansConversion([m EXCEPT !.ap = IF it.arg = -1 THEN @ + 1 ELSE @], in, here, wide)
                       ELSE IF at = Len(in) THEN StopAt([m EXCEPT !.p = at], 0, "input")
                       ELSE IF in[at + 1] = it.c THEN [m EXCEPT !.p = at + 1] ELSE StopAt([m EXCEPT !.p = at], 0, "match"))
ArgOf(fmt, j) == 1 + Cardinality({i \in 1..j - 1 : fmt[i].k = "conv" /\ fmt[i].arg = -1})
\* wscanf's %mc with so small a width that its block never grows.
Cramped(it, wide) ==
    wide /\ it.k = "conv" /\ it.m /\ it.t = "c" /\ it.size # "l" /\ Max({1, it.width}) + 1 < MostBytes
\* scanf and wscanf consume and assign what the standard says, count it, and report the end
\* of the input only if nothing was assigned; whatever fails, every block they allocated has
\* been handed over or is free again.  A floating number is what strtod makes of the same
\* characters.  No text is longer than its block, but in a conversion that is Cramped; what
\* follows a text that is, is undefined.
ScansRight(in, fmt, wide, oom) ==
    LET r == IF wide THEN vfwscanf(Open(in), fmt, oom) ELSE vfscanf(Open(in), fmt, oom)
        m == ScanMeans(fmt, in, wide, [p |-> 0, ap |-> 1, count |-> 0, out |-> <<>>, end |-> "go"])
        given == {i \in 1..Len(fmt) : fmt[i].k = "conv" /\ fmt[i].m}
    IN  IF ~r.room THEN \E i \in 1..Len(fmt) : Cramped(fmt[i], wide) ELSE
        /\ r.heap = Cardinality({i \in 1..Len(r.out) : \E j \in given : fmt[j].arg = -1 /\ ArgOf(fmt, j) = r.out[i].arg})
        /\ r.end # "alloc" =>
               /\ r.out = m.out
               /\ r.matches = (IF m.end \in {"input", "illegal"} /\ m.count = 0 THEN -1 ELSE m.count)
               /\ m.end # "illegal" => r.f.pos = m.p
               /\ r.end = "go" <=> m.end = "go"
=============================================================================
