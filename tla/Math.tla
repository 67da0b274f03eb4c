-------------------------------- MODULE Math --------------------------------
(* The control of the elementary functions of src/math: which words of the *)
(* argument lead to which early return, special value, floating-point      *)
(* exception or reduction.  The polynomials and tables behind a branch are *)
(* abstracted to the class and sign of their value; the thresholds, the    *)
(* order of the tests and the algebra of infinities, zeros and NaNs are    *)
(* kept.  A name without suffix is the double, f the float and l the       *)
(* 80-bit long double function.                                            *)
EXTENDS Integers, FiniteSetsExt

\* A format: the words of infinity, one and the least normal number, the
\* precision in bits, the step of the exponent field in the high word and the
\* number of mantissa bits below the high word.
F64 == [inf |-> \h7ff00000, one |-> \h3ff00000, min |-> \h00100000,
        p |-> 53, unit |-> \h100000, low |-> 32]
F32 == [inf |-> \h7f800000, one |-> \h3f800000, min |-> \h00800000,
        p |-> 24, unit |-> \h800000, low |-> 0]
F80 == [inf |-> \h7fff8000, one |-> \h3fff8000, min |-> \h00018000,
        p |-> 64, unit |-> \h10000, low |-> 48]

\* An argument [F, neg, ix, lo]: its format, sign, high word without the sign
\* (for long double se << 16 | m >> 48) and the bits below it.
E(x) == x.ix \div x.F.unit
Bias(x) == x.F.one \div x.F.unit
ExpOf(x) == E(x) - Bias(x)
IsNan(x) == x.ix > x.F.inf \/ (x.ix = x.F.inf /\ x.lo # 0)
IsInf(x) == x.ix = x.F.inf /\ x.lo = 0
IsZero(x) == x.ix = 0 /\ x.lo = 0
IsOne(x) == x.ix = x.F.one /\ x.lo = 0
Class(x) == IF IsNan(x) THEN "nan" ELSE IF IsInf(x) THEN "inf"
            ELSE IF IsZero(x) THEN "zero" ELSE "num"
\* |x| < |y| of two finite arguments of one format.
Below(x, y) == x.ix < y.ix \/ (x.ix = y.ix /\ x.lo < y.lo)
Abs(x) == [x EXCEPT !.neg = FALSE]
Flip(x) == [x EXCEPT !.neg = ~@]

\* A value: its class and sign, the exceptions raised on the way, and what is
\* known of its digits ("x": the argument itself, a constant's name, or "").
Val(c, neg) == [c |-> c, neg |-> neg, ex |-> {}, id |-> ""]
Num(neg) == Val("num", neg)
Zero(neg) == Val("zero", neg)
Inf(neg) == Val("inf", neg)
Nan == Val("nan", FALSE)
Const(id, neg) == [Num(neg) EXCEPT !.id = id]
Self(x) == [Val(Class(x), x.neg) EXCEPT !.id = "x"]
Raise(v, s) == [v EXCEPT !.ex = @ \union s]
\* A value whose sign the abstraction does not know.
Some == Const("any", FALSE)
\* A value that may overflow or underflow in the last multiplication.
Edge(neg) == Const("edge", neg)
Odd(x) == IF IsZero(x) THEN Zero(x.neg) ELSE Num(x.neg)

\* The IEEE algebra of classes.
Negate(v) == [v EXCEPT !.neg = ~@, !.id = IF @ = "x" THEN "-x" ELSE @]
Signed(neg, v) == IF neg THEN Negate(v) ELSE v
Invalid(a, b) == Raise(Nan, a.ex \union b.ex \union {"invalid"})
Quiet(a, b) == Raise(Nan, a.ex \union b.ex)
Mul(a, b) ==
    LET s == a.neg # b.neg
        v == IF "inf" \in {a.c, b.c} THEN Inf(s)
             ELSE IF "zero" \in {a.c, b.c} THEN Zero(s) ELSE Num(s)
    IN  IF "nan" \in {a.c, b.c} THEN Quiet(a, b)
        ELSE IF {a.c, b.c} = {"zero", "inf"} THEN Invalid(a, b)
        ELSE Raise(v, a.ex \union b.ex)
Div(a, b) ==
    LET s == a.neg # b.neg
        v == IF a.c = "inf" THEN Inf(s)
             ELSE IF b.c = "zero" THEN Raise(Inf(s), {"divbyzero"})
             ELSE IF a.c = "zero" \/ b.c = "inf" THEN Zero(s) ELSE Num(s)
    IN  IF "nan" \in {a.c, b.c} THEN Quiet(a, b)
        ELSE IF a.c = b.c /\ a.c \in {"zero", "inf"} THEN Invalid(a, b)
        ELSE Raise(v, a.ex \union b.ex)
\* a + b, where of two numbers of opposite sign a is the larger.
Add(a, b) ==
    LET v == IF a.c = "inf" THEN Inf(a.neg) ELSE IF b.c = "inf" THEN Inf(b.neg)
             ELSE IF a.c = "num" THEN Num(a.neg)
             ELSE IF b.c = "num" THEN Num(b.neg) ELSE Zero(a.neg /\ b.neg)
    IN  IF "nan" \in {a.c, b.c} THEN Quiet(a, b)
        ELSE IF a.c = "inf" /\ b.c = "inf" /\ a.neg # b.neg THEN Invalid(a, b)
        ELSE Raise(v, a.ex \union b.ex)
Sub(a, b) == Add(a, Negate(b))
One == Num(FALSE)
\* x - x.
Cancel(x) == IF IsNan(x) THEN Nan
             ELSE IF IsInf(x) THEN Raise(Nan, {"invalid"}) ELSE Zero(FALSE)
SqrtOf(v) == IF v.neg /\ v.c \in {"num", "inf"} THEN Invalid(v, v) ELSE v

math_divzero(neg) == Raise(Inf(neg), {"divbyzero"})
math_invalid(x) == Div(Cancel(x), Cancel(x))
math_oflow(neg) == Raise(Inf(neg), {"overflow"})
math_uflow(neg) == Raise(Zero(neg), {"underflow"})
\* x *= huge; return x.
Blow(x) == IF Class(x) = "num" THEN math_oflow(x.neg) ELSE Self(x)

\* What the functions return for a computed value of which only the class and
\* the sign are known.
LogOf(v) == IF v.c = "nan" THEN v
            ELSE IF v.c = "zero" THEN Raise(math_divzero(TRUE), v.ex)
            ELSE IF v.neg THEN Invalid(v, v)
            ELSE IF v.c = "inf" THEN v ELSE Raise(Some, v.ex)
Log1pOf(v) == IF v.c = "inf" /\ v.neg THEN Invalid(v, v) ELSE v
ExpOfV(v) == IF v.c = "nan" THEN v
             ELSE Raise(IF v.c # "inf" THEN Num(FALSE)
                        ELSE IF v.neg THEN Zero(FALSE) ELSE v, v.ex)

------------------------------------------------------------------------------
(* Exponentials and hyperbolic functions. *)
exp(x) ==
    IF E(x) < \h3c9 THEN Add(One, Self(x))
    ELSE IF E(x) < \h408 THEN Num(FALSE)
    ELSE IF E(x) < \h409 THEN Edge(FALSE)
    ELSE IF IsInf(x) /\ x.neg THEN Zero(FALSE)
    ELSE IF E(x) >= \h7ff THEN Add(One, Self(x))
    ELSE IF x.neg THEN math_uflow(FALSE) ELSE math_oflow(FALSE)
expf(x) ==
    IF x.ix \div 2^20 < \h42b THEN Num(FALSE)
    ELSE IF IsInf(x) /\ x.neg THEN Zero(FALSE)
    ELSE IF x.ix \div 2^20 >= \h7f8 THEN Add(Self(x), Self(x))
    ELSE IF ~x.neg /\ x.ix > \h42b17217 THEN math_oflow(FALSE)
    ELSE IF x.neg /\ x.ix > \h42cff1b4 THEN math_uflow(FALSE) ELSE Edge(FALSE)
expl(x) ==
    IF IsNan(x) THEN Self(x)
    ELSE IF ~x.neg /\ x.ix > \h400cb172 THEN Blow(x)
    ELSE IF x.neg /\ x.ix > \h400cb21d
         THEN IF IsInf(x) THEN Zero(FALSE) ELSE math_uflow(FALSE)
    ELSE Num(FALSE)
exp2(x) ==
    IF E(x) < \h3c9 THEN Add(One, Self(x))
    ELSE IF E(x) < \h409
         THEN IF Below([x EXCEPT !.ix = \h408d0000, !.lo = 0], x) THEN Edge(FALSE)
              ELSE Num(FALSE)
    ELSE IF IsInf(x) /\ x.neg THEN Zero(FALSE)
    ELSE IF E(x) >= \h7ff THEN Add(One, Self(x))
    ELSE IF ~x.neg THEN math_oflow(FALSE)
    ELSE IF x.ix >= \h4090cc00 THEN math_uflow(FALSE) ELSE Edge(FALSE)
exp2f(x) ==
    IF x.ix \div 2^20 < \h430 THEN Num(FALSE)
    ELSE IF IsInf(x) /\ x.neg THEN Zero(FALSE)
    ELSE IF x.ix \div 2^20 >= \h7f8 THEN Add(Self(x), Self(x))
    ELSE IF ~x.neg THEN math_oflow(FALSE)
    ELSE IF x.ix >= \h43160000 THEN math_uflow(FALSE) ELSE Edge(FALSE)
exp2l(x) ==
    IF E(x) < \h3fff - 64 THEN Add(One, Self(x))
    ELSE IF E(x) < \h3fff + 13 THEN Num(FALSE)
    ELSE IF E(x) >= \h3fff + 14 /\ ~x.neg THEN Blow(x)
    ELSE IF E(x) = \h7fff THEN Div(Num(TRUE), Self(x))
    ELSE IF x.neg /\ x.ix >= \h400d807c THEN math_uflow(FALSE) ELSE Edge(FALSE)

\* nan, below minus, above plus: the words of the two limits, tiny: x itself.
Expm1(x, minus, plus, tiny) ==
    IF IsNan(x) THEN Self(x)
    ELSE IF x.neg /\ x.ix >= minus THEN Const("-1", TRUE)
    ELSE IF ~x.neg /\ x.ix > plus THEN Blow(x)
    ELSE IF x.ix < tiny THEN Self(x) ELSE Odd(x)
expm1(x) == Expm1(x, \h4043687a, \h40862e42, \h3c900000)
expm1f(x) == Expm1(x, \h4195b844, \h42b17217, \h33000000)
expm1l(x) == Expm1(x, \h4004b438, \h400cb172, 0)

\* exp(x - k ln 2) scaled twice by 2^(k/2).
expo2(x, neg) == LET v == Sub(Self(Abs(x)), One)
                 IN  IF v.c = "num" THEN Edge(neg) ELSE Mul(Num(neg), ExpOfV(v))
Cosh(x, tiny, big) ==
    IF x.ix < tiny THEN Const("1", FALSE)
    ELSE IF x.ix < big THEN Num(FALSE) ELSE expo2(x, FALSE)
cosh(x) == Cosh(x, \h3ff00000 - 26 * 2^20, \h40862e42)
coshf(x) == Cosh(x, \h3f800000 - 12 * 2^23, \h42b17217)
coshl(x) == Cosh(x, (\h3fff - 32) * 2^16, \h400cb172)
Sinh(x, tiny, big) ==
    IF x.ix < tiny THEN Self(x)
    ELSE IF x.ix < big THEN Odd(x) ELSE expo2(x, x.neg)
sinh(x) == Sinh(x, \h3ff00000 - 26 * 2^20, \h40862e42)
sinhf(x) == Sinh(x, \h3f800000 - 12 * 2^23, \h42b17217)
sinhl(x) == Sinh(x, (\h3fff - 32) * 2^16, \h400cb172)
Tanh(x, tiny, big) ==
    IF x.ix < tiny THEN Self(x)
    ELSE IF x.ix <= big THEN Odd(x)
    ELSE Signed(x.neg, Sub(One, Div(Zero(FALSE), Self(Abs(x)))))
tanh(x) == Tanh(x, \h00100000, \h40340000)
tanhf(x) == Tanh(x, \h00800000, \h41200000)
tanhl(x) == Tanh(x, 0, (\h3fff + 5) * 2^16 - 1)

------------------------------------------------------------------------------
(* Logarithms and roots. *)
AboveOne(x) == x.ix > x.F.one \/ (x.ix = x.F.one /\ x.lo # 0)
Log(x) ==
    IF IsOne(x) /\ ~x.neg THEN Zero(FALSE)
    ELSE IF IsZero(x) THEN math_divzero(TRUE)
    ELSE IF IsInf(x) /\ ~x.neg THEN Self(x)
    ELSE IF x.neg \/ IsNan(x) THEN math_invalid(x) ELSE Num(~AboveOne(x))
log(x) == Log(x)
logf(x) == Log(x)
log2(x) == Log(x)
log2f(x) == Log(x)
\* The long double functions test for NaN first and then for x <= 0.
Logl(x) ==
    IF IsNan(x) \/ (IsInf(x) /\ ~x.neg) THEN Self(x)
    ELSE IF IsZero(x) THEN Div(Num(TRUE), Mul(Self(x), Self(x)))
    ELSE IF x.neg THEN Div(Zero(FALSE), Zero(FALSE))
    ELSE IF IsOne(x) THEN Zero(FALSE) ELSE Num(~AboveOne(x))
logl(x) == Logl(x)
log2l(x) == Logl(x)
log10l(x) == IF IsInf(x) /\ x.neg THEN Div(Cancel(x), Zero(FALSE)) ELSE Logl(x)
Log10(x) ==
    IF x.neg \/ x.ix < x.F.min
    THEN IF IsZero(x) THEN Div(Num(TRUE), Mul(Self(x), Self(x)))
         ELSE IF x.neg THEN Div(Cancel(x), Zero(FALSE)) ELSE Num(TRUE)
    ELSE IF x.ix >= x.F.inf THEN Self(x)
    ELSE IF IsOne(x) THEN Zero(FALSE) ELSE Num(~AboveOne(x))
log10(x) == Log10(x)
log10f(x) == Log10(x)
Log1p(x, tiny) ==
    IF x.neg /\ x.ix >= x.F.one
    THEN Div(IF IsOne(x) THEN Self(x) ELSE Cancel(x), Zero(FALSE))
    ELSE IF x.ix < tiny \/ x.ix >= x.F.inf THEN Self(x) ELSE Odd(x)
log1p(x) == Log1p(x, \h3ca00000)
log1pf(x) == Log1p(x, \h33800000)
log1pl(x) ==
    IF IsNan(x) \/ IsZero(x) \/ (IsInf(x) /\ ~x.neg) THEN Self(x)
    ELSE IF x.neg /\ IsOne(x) THEN Div(Num(TRUE), Zero(FALSE))
    ELSE IF x.neg /\ AboveOne(x) THEN Div(Zero(FALSE), Zero(FALSE)) ELSE Odd(x)

Sqrt(x) ==
    IF IsZero(x) \/ (IsInf(x) /\ ~x.neg) THEN Self(x)
    ELSE IF x.neg \/ IsNan(x) THEN math_invalid(x) ELSE Num(FALSE)
sqrt(x) == Sqrt(x)
sqrtf(x) == Sqrt(x)
sqrtl(x) == Sqrt(x)
Cbrt(x) == IF E(x) >= x.F.inf \div x.F.unit THEN Add(Self(x), Self(x)) ELSE Odd(x)
cbrt(x) == Cbrt(x)
cbrtf(x) == Cbrt(x)
cbrtl(x) == Cbrt(x)

Hypot(a, b, gap) ==
    LET x == Abs(IF Below(a, b) THEN b ELSE a)
        y == Abs(IF Below(a, b) THEN a ELSE b)
    IN  IF y.ix >= y.F.inf THEN Self(y)
        ELSE IF x.ix >= x.F.inf \/ IsZero(y) THEN Self(x)
        ELSE IF E(x) - E(y) > gap THEN Add(Self(x), Self(y))
        ELSE IF E(x) >= x.F.inf \div x.F.unit - 2 THEN Edge(FALSE) ELSE Num(FALSE)
hypot(x, y) == Hypot(x, y, 64)
hypotf(x, y) ==
    LET h == Hypot(x, y, 24)
    IN  IF IsInf(x) \/ IsInf(y) THEN Inf(FALSE) ELSE h
hypotl(a, b) ==
    LET swap == E(a) < E(b)
        x == Abs(IF swap THEN b ELSE a)
        y == Abs(IF swap THEN a ELSE b)
    IN  IF E(x) = \h7fff /\ IsInf(y) THEN Self(y)
        ELSE IF E(x) = \h7fff \/ IsZero(y) THEN Self(x)
        ELSE IF E(x) - E(y) > 64 THEN Add(Self(x), Self(y))
        ELSE IF E(x) >= \h7ffd THEN Edge(FALSE) ELSE Num(FALSE)

------------------------------------------------------------------------------
(* Inverse functions. *)
Acos(x, tiny) ==
    IF x.ix >= x.F.one
    THEN IF ~IsOne(x) THEN Div(Zero(FALSE), Cancel(x))
         ELSE IF x.neg THEN Const("pi", FALSE) ELSE Zero(FALSE)
    ELSE IF x.ix <= tiny THEN Const("pi/2", FALSE) ELSE Num(FALSE)
acos(x) == Acos(x, \h3c600000)
acosf(x) == Acos(x, \h32800000)
acosl(x) == Acos(x, (\h3fff - 65) * 2^16 - 1)
Asin(x, least, tiny) ==
    IF x.ix >= x.F.one
    THEN IF IsOne(x) THEN Const("pi/2", x.neg) ELSE Div(Zero(FALSE), Cancel(x))
    ELSE IF x.ix >= least /\ x.ix < tiny THEN Self(x) ELSE Odd(x)
asin(x) == Asin(x, \h00100000, \h3e500000)
asinf(x) == Asin(x, \h00800000, \h39800000)
asinl(x) == Asin(x, 0, (\h3fff - 32) * 2^16)
Atan(x, tiny, big) ==
    IF x.ix >= big
    THEN IF IsNan(x) THEN Self(x) ELSE Const("pi/2", x.neg)
    ELSE IF x.ix < tiny THEN Self(x) ELSE Odd(x)
atan(x) == Atan(x, \h3e400000, \h44100000)
atanf(x) == Atan(x, \h39800000, \h4c800000)
atanl(x) == Atan(x, (\h3fff - 32) * 2^16, (\h3fff + 65) * 2^16)

\* gap: how many exponent steps make |y/x| too large or too small to matter.
Atan2(y, x, gap, AtanF(_)) ==
    LET far == gap * x.F.unit
    IN  IF IsNan(x) \/ IsNan(y) THEN Add(Self(x), Self(y))
        ELSE IF IsOne(x) /\ ~x.neg THEN AtanF(y)
        ELSE IF IsZero(y) THEN IF x.neg THEN Const("pi", y.neg) ELSE Self(y)
        ELSE IF IsZero(x) THEN Const("pi/2", y.neg)
        ELSE IF IsInf(x)
             THEN IF IsInf(y) THEN Const(IF x.neg THEN "3pi/4" ELSE "pi/4", y.neg)
                  ELSE IF x.neg THEN Const("pi", y.neg) ELSE Zero(y.neg)
        ELSE IF x.ix + far < y.ix \/ IsInf(y) THEN Const("pi/2", y.neg)
        ELSE Num(y.neg)
atan2(y, x) == Atan2(y, x, 64, atan)
atan2f(y, x) == Atan2(y, x, 26, atanf)
atan2l(y, x) == Atan2(y, x, 120, atanl)

\* Below 2 log1p(x - 1 + sqrt((x - 1)(x + 1))), whose argument is below -1 when
\* x is; then log of a value of the sign of x.
Acosh(x) ==
    LET d == IF IsOne(x) /\ ~x.neg THEN Zero(FALSE) ELSE Num(x.neg \/ ~AboveOne(x))
        r == IF IsOne(x) THEN Zero(FALSE) ELSE Num(~AboveOne(x))
        t == Add(d, SqrtOf(r))
    IN  IF E(x) < Bias(x) + 1 THEN IF t.neg THEN Invalid(t, t) ELSE Log1pOf(t)
        ELSE IF x.neg THEN LogOf(Self(x)) ELSE Add(Self(x), One)
acosh(x) == Acosh(x)
acoshf(x) == Acosh(x)
acoshl(x) == IF x.neg THEN math_invalid(x) ELSE Acosh(x)
Asinh(x, n) ==
    IF E(x) >= Bias(x) - n
    THEN Signed(x.neg, Add(Self(Abs(x)), One)) ELSE Self(x)
asinh(x) == Asinh(x, 26)
asinhf(x) == Asinh(x, 12)
asinhl(x) == Asinh(x, 32)
\* Below least x itself, otherwise half of log1p(2 y / (1 - y)).
Atanh(x, least) ==
    LET y == Self(Abs(x))
        d == IF IsNan(x) THEN Nan ELSE IF IsInf(x) THEN Inf(TRUE)
             ELSE IF IsOne(x) THEN Zero(FALSE) ELSE Num(AboveOne(x))
        q == Div(y, d)
    IN  IF E(x) < least THEN Self(x)
        ELSE Signed(x.neg, IF q.neg /\ q.c # "nan" THEN Invalid(q, q) ELSE Log1pOf(q))
atanh(x) == Atanh(x, \h3ff - 32)
atanhf(x) == Atanh(x, \h7f - 32)
atanhl(x) == Atanh(x, \h3ff - 32)

------------------------------------------------------------------------------
(* Trigonometric functions.  A kernel's value is written as                 *)
(* (-1)^neg fn(x + k pi/2), cot standing for -1/tan.  n is the quotient the  *)
(* general reduction would return for x.                                    *)
Ker(fn, neg, k) == [c |-> "trig", fn |-> fn, neg |-> neg, k |-> k]
Toward(x, k) == IF x.neg THEN k ELSE -k        \* x + k pi/2 or x - k pi/2

rem_pio2(x, n) ==
    IF x.ix <= \h400f6a7a
    THEN IF x.ix % \h100000 = \h921fb THEN n
         ELSE IF x.ix <= \h4002d97c THEN -Toward(x, 1) ELSE -Toward(x, 2)
    ELSE IF x.ix <= \h401c463b
    THEN IF x.ix <= \h4015fdbc
         THEN IF x.ix = \h4012d97c THEN n ELSE -Toward(x, 3)
         ELSE IF x.ix = \h401921fb THEN n ELSE -Toward(x, 4)
    ELSE n
\* The float reduction; NaN and infinity give quotient 0.
rem_pio2f(x, n) == IF x.ix >= \h7f800000 THEN 0 ELSE n
\* The long double reduction keeps the low bits of the quotient (QUOBITS).
rem_pio2l(x, n) == IF E(x) = \h7fff THEN 0 ELSE n % 2^20

SinOf(q, n) == CASE q % 4 = 0 -> Ker("sin", FALSE, -n) [] q % 4 = 1 -> Ker("cos", FALSE, -n)
              [] q % 4 = 2 -> Ker("sin", TRUE, -n) [] OTHER -> Ker("cos", TRUE, -n)
CosOf(q, n) == CASE q % 4 = 0 -> Ker("cos", FALSE, -n) [] q % 4 = 1 -> Ker("sin", TRUE, -n)
              [] q % 4 = 2 -> Ker("cos", TRUE, -n) [] OTHER -> Ker("sin", FALSE, -n)
TanOf(q, n) == Ker(IF q % 2 = 1 THEN "cot" ELSE "tan", FALSE, -n)

\* tiny: below it the value is t; quarter: up to it no reduction is needed.
Trig(x, tiny, t, quarter, fn, rest) ==
    IF x.ix < tiny THEN t
    ELSE IF x.ix <= quarter THEN Ker(fn, FALSE, 0)
    ELSE IF E(x) >= x.F.inf \div x.F.unit THEN Cancel(x) ELSE rest
sin(x, n) == Trig(x, \h3e500000, Self(x), \h3fe921fb, "sin", SinOf(rem_pio2(x, n), rem_pio2(x, n)))
cos(x, n) == Trig(x, \h3e46a09e, Const("1", FALSE), \h3fe921fb, "cos",
                  CosOf(rem_pio2(x, n), rem_pio2(x, n)))
tan(x, n) == Trig(x, \h3e400000, Self(x), \h3fe921fb, "tan", TanOf(rem_pio2(x, n), rem_pio2(x, n)))
sinl(x, n) == Trig(x, (\h3fff - 32) * 2^16, Self(x), \h3ffec90f, "sin",
                   SinOf(rem_pio2l(x, n), n))
\* fn(|x| + k pi/2) written as a function of x.
Mirror(x, r) == IF ~x.neg THEN r
                ELSE [r EXCEPT !.k = -@, !.neg = IF r.fn = "sin" THEN ~@ ELSE @]
AbsOf(n) == IF n < 0 THEN -n ELSE n
cosl(x, n) == Trig(x, (\h3fff - 64) * 2^16, Add(One, Self(Abs(x))), \h3ffec90f, "cos",
                   Mirror(x, CosOf(rem_pio2l(x, AbsOf(n)), AbsOf(n))))
tanl(x, n) == Trig(x, (\h3fff - 32) * 2^16, Self(x), \h3ffec90f, "tan",
                   TanOf(rem_pio2l(x, n), n))

\* The float functions do the first reductions themselves.
sinf(x, n) ==
    LET near == IF x.ix <= \h407b53d1
                THEN IF x.ix <= \h4016cbe3 THEN Ker("cos", x.neg, Toward(x, 1))
                     ELSE Ker("sin", TRUE, Toward(x, 2))
                ELSE IF x.ix <= \h40afeddf THEN Ker("cos", ~x.neg, Toward(x, 3))
                     ELSE Ker("sin", FALSE, Toward(x, 4))
    IN  Trig(x, \h39800000, Self(x), \h3f490fda, "sin",
             IF x.ix <= \h40e231d5 THEN near ELSE SinOf(rem_pio2f(x, n), n))
cosf(x, n) ==
    LET near == IF x.ix <= \h407b53d1
                THEN IF x.ix > \h4016cbe3 THEN Ker("cos", TRUE, Toward(x, 2))
                     ELSE Ker("sin", ~x.neg, Toward(x, 1))
                ELSE IF x.ix > \h40afeddf THEN Ker("cos", FALSE, Toward(x, 4))
                     ELSE Ker("sin", x.neg, Toward(x, 3))
    IN  Trig(x, \h39800000, Const("1", FALSE), \h3f490fda, "cos",
             IF x.ix <= \h40e231d5 THEN near ELSE CosOf(rem_pio2f(x, n), n))
tanf(x, n) ==
    LET near == IF x.ix <= \h407b53d1
                THEN IF x.ix <= \h4016cbe3 THEN Ker("cot", FALSE, Toward(x, 1))
                     ELSE Ker("tan", FALSE, Toward(x, 2))
                ELSE IF x.ix <= \h40afeddf THEN Ker("cot", FALSE, Toward(x, 3))
                     ELSE Ker("tan", FALSE, Toward(x, 4))
    IN  Trig(x, \h39800000, Self(x), \h3f490fda, "tan",
             IF x.ix <= \h40e231d5 THEN near ELSE TanOf(rem_pio2f(x, n), n))

\* sincos stores both values of one reduction.
Both(q, n) == CASE q % 4 = 0 -> <<Ker("sin", FALSE, -n), Ker("cos", FALSE, -n)>>
             [] q % 4 = 1 -> <<Ker("cos", FALSE, -n), Ker("sin", TRUE, -n)>>
             [] q % 4 = 2 -> <<Ker("sin", TRUE, -n), Ker("cos", TRUE, -n)>>
             [] OTHER -> <<Ker("cos", TRUE, -n), Ker("sin", FALSE, -n)>>
SinCos(x, tiny, one, quarter, rest) ==
    IF x.ix < tiny THEN <<Self(x), one>>
    ELSE IF x.ix <= quarter THEN <<Ker("sin", FALSE, 0), Ker("cos", FALSE, 0)>>
    ELSE IF E(x) >= x.F.inf \div x.F.unit THEN <<Cancel(x), Cancel(x)>> ELSE rest
sincos(x, n) == SinCos(x, \h3e46a09e, Const("1", FALSE), \h3fe921fb, Both(rem_pio2(x, n), rem_pio2(x, n)))
sincosl(x, n) == SinCos(x, (\h3fff - 64) * 2^16, Add(One, Self(x)), \h3ffec90f,
                        Both(rem_pio2l(x, n), n))
sincosf(x, n) ==
    LET k(i) == Toward(x, i)
        near == IF x.ix <= \h407b53d1
                THEN IF x.ix <= \h4016cbe3
                     THEN IF x.neg THEN <<Ker("cos", TRUE, 1), Ker("sin", FALSE, 1)>>
                          ELSE <<Ker("cos", FALSE, -1), Ker("sin", TRUE, -1)>>
                     ELSE <<Ker("sin", TRUE, k(2)), Ker("cos", TRUE, k(2))>>
                ELSE IF x.ix <= \h40afeddf
                THEN IF x.neg THEN <<Ker("cos", FALSE, 3), Ker("sin", TRUE, 3)>>
                     ELSE <<Ker("cos", TRUE, -3), Ker("sin", FALSE, -3)>>
                ELSE <<Ker("sin", FALSE, k(4)), Ker("cos", FALSE, k(4))>>
    IN  SinCos(x, \h39800000, Const("1", FALSE), \h3f490fda,
               IF x.ix <= \h40e231d5 THEN near ELSE Both(rem_pio2f(x, n), n))

------------------------------------------------------------------------------
(* Powers. *)
\* The bits of the fraction of |x| below the units, as the high word's and
\* the low bits, and the units' bit; the explicit integer bit of a long double
\* and the exponent's low bit of a double or float stand for the leading 1.
FracBits(x) == x.F.p - 1 - ExpOf(x)
LowOf(w, b) == w % 2^b
HasFrac(x) == LET b == FracBits(x)
              IN  IF b >= x.F.low THEN x.lo # 0 \/ LowOf(x.ix, b - x.F.low) # 0
                  ELSE LowOf(x.lo, b) # 0
UnitBit(x) == LET b == FracBits(x)
              IN  IF b >= x.F.low THEN (x.ix \div 2^(b - x.F.low)) % 2
                  ELSE (x.lo \div 2^b) % 2
\* 0: not an integer, 1: odd, 2: even.
Checkint(y) == IF ExpOf(y) < 0 THEN 0 ELSE IF ExpOf(y) > y.F.p - 1 THEN 2
               ELSE IF HasFrac(y) THEN 0 ELSE IF UnitBit(y) = 1 THEN 1 ELSE 2
checkint(y) == Checkint(y)
checkintf(y) == Checkint(y)
zeroinfnan(x) == Class(x) # "num"

\* x or y is zero, infinite or NaN.
PowSpecial(x, y) ==
    LET x2 == Mul(Self(x), Self(x))
        z == Signed(x.neg /\ Checkint(y) = 1, x2)
    IN  IF zeroinfnan(y)
        THEN IF IsZero(y) \/ (IsOne(x) /\ ~x.neg) THEN Const("1", FALSE)
             ELSE IF IsNan(x) \/ IsNan(y) THEN Add(Self(x), Self(y))
             ELSE IF IsOne(x) THEN Const("1", FALSE)
             ELSE IF (~AboveOne(x)) = (~y.neg) THEN Zero(FALSE)
             ELSE Mul(Self(y), Self(y))
        ELSE IF y.neg THEN Div(One, z) ELSE z
pow(x, y) ==
    LET yint == Checkint(y)
        neg == x.neg /\ yint = 1
    IN  IF zeroinfnan(x) \/ zeroinfnan(y) THEN PowSpecial(x, y)
        ELSE IF x.neg /\ yint = 0 THEN math_invalid(x)
        ELSE IF E(y) < \h3be \/ E(y) >= \h43e
        THEN IF IsOne(x) THEN Const("1", FALSE)
             ELSE IF E(y) < \h3be THEN Num(FALSE)
             ELSE IF AboveOne(x) = (~y.neg) THEN math_oflow(FALSE) ELSE math_uflow(FALSE)
        ELSE Edge(neg)
powf(x, y) ==
    LET yint == Checkint(y)
        neg == x.neg /\ yint = 1
    IN  IF zeroinfnan(x) \/ zeroinfnan(y) THEN PowSpecial(x, y)
        ELSE IF x.neg /\ yint = 0 THEN math_invalid(x)
        ELSE Edge(neg)
powl(x, y) ==
    LET yoddint == Checkint(y) = 1
        big == AboveOne(x)
    IN  IF IsNan(x) THEN IF IsZero(y) THEN Const("1", FALSE) ELSE Self(x)
        ELSE IF IsNan(y) THEN IF IsOne(x) /\ ~x.neg THEN Const("1", FALSE) ELSE Self(y)
        ELSE IF (IsOne(x) /\ ~x.neg) \/ IsZero(y) THEN Const("1", FALSE)
        ELSE IF IsOne(y) /\ ~y.neg THEN Self(x)
        ELSE IF Below([y EXCEPT !.ix = \h404d807c, !.lo = 0], y)
        THEN IF IsOne(x) THEN Const("1", FALSE)
             ELSE IF IsInf(y) THEN IF big = (~y.neg) THEN Inf(FALSE) ELSE Zero(FALSE)
             ELSE IF big = (~y.neg) THEN math_oflow(FALSE) ELSE math_uflow(FALSE)
        ELSE IF IsInf(x) /\ ~x.neg THEN IF y.neg THEN Zero(FALSE) ELSE Inf(FALSE)
        ELSE IF IsInf(x) THEN IF y.neg THEN Zero(yoddint) ELSE Inf(yoddint)
        ELSE IF IsZero(x) THEN IF y.neg THEN math_divzero(x.neg /\ yoddint)
                               ELSE Zero(x.neg /\ yoddint)
        ELSE IF x.neg /\ Checkint(y) = 0 THEN math_invalid(x)
        ELSE Edge(x.neg /\ yoddint)

\* A table up to 10^15 (10^7 for float), then pow or exp2.
Ten(F) == IF F = F64 THEN [F |-> F, neg |-> FALSE, ix |-> \h40240000, lo |-> 0]
          ELSE [F |-> F, neg |-> FALSE, ix |-> \h4002a000, lo |-> 0]
exp10(x) == IF E(x) < \h3ff + 4 THEN Num(FALSE) ELSE pow(Ten(F64), x)
exp10f(x) == IF E(x) < \h7f + 3 THEN Num(FALSE)
             ELSE IF IsNan(x) THEN Self(x)
             ELSE IF IsInf(x) THEN ExpOfV(Self(x)) ELSE Edge(FALSE)
exp10l(x) == IF E(x) < \h3fff + 4 THEN Num(FALSE) ELSE powl(Ten(F80), x)

------------------------------------------------------------------------------
(* Error, gamma and Bessel functions. *)
IsSpecial(x) == E(x) >= x.F.inf \div x.F.unit
Erf(x) == IF IsSpecial(x) THEN Add(Num(x.neg), Div(One, Self(x))) ELSE Odd(x)
erf(x) == Erf(x)
erff(x) == Erf(x)
erfl(x) == Erf(x)
Erfc(x, big) ==
    IF IsSpecial(x)
    THEN Add(IF x.neg THEN Num(FALSE) ELSE Zero(FALSE), Div(One, Self(x)))
    ELSE IF x.ix < big \/ x.neg THEN Num(FALSE) ELSE math_uflow(FALSE)
erfc(x) == Erfc(x, \h403c0000)
erfcf(x) == Erfc(x, \h41e00000)
erfcl(x) == Erfc(x, \h4005d600)

\* |x| modulo 2 in eighths, and whether something is left below them.
High(x) == IF x.F = F80 THEN x.ix % 2^16 ELSE x.F.unit + (x.ix % x.F.unit)
Point(x) == (IF x.F = F80 THEN 15 ELSE x.F.p - 1 - x.F.low) - ExpOf(x)
Eighths(x) ==
    ( (IF Point(x) \in 0..26 THEN (High(x) * 8) \div 2^Point(x) ELSE 0)
    + (IF FracBits(x) \in 0..27 THEN (x.lo * 8) \div 2^FracBits(x) ELSE 0)) % 16
Rest(x) == \/ Point(x) >= 27 \/ (Point(x) > 0 /\ (High(x) * 8) % 2^Point(x) # 0)
           \/ IF FracBits(x) \in 0..27 THEN (x.lo * 8) % 2^FracBits(x) # 0
              ELSE FracBits(x) > 27 /\ x.lo # 0
IsInt(x) == Eighths(x) % 8 = 0 /\ ~Rest(x)

\* The sign of sin(pi |x|): reduction to a multiple of pi/2 and the kernel.
Sgn(i, rest) == IF i > 0 \/ (i = 0 /\ rest) THEN 1 ELSE IF i = 0 THEN 0 ELSE -1
sin_pi(x) ==
    LET n == (Eighths(x) \div 2 + 1) \div 2
        y == Sgn(Eighths(x) - 4 * n, Rest(x))
    IN  CASE n = 1 -> 1 [] n = 2 -> -y [] n = 3 -> -1 [] OTHER -> y

\* <<log |gamma(x)|, its sign>>
Lgamma(x, tiny) ==
    LET t == sin_pi(x)
        r == IF (x.ix = x.F.one \/ x.ix = x.F.one + x.F.unit) /\ x.lo = 0 THEN Zero(FALSE) ELSE Some
    IN  IF IsSpecial(x) THEN <<Mul(Self(x), Self(x)), 1>>
        ELSE IF x.ix < tiny
        THEN <<Negate(LogOf(Self(Abs(x)))), IF x.neg THEN -1 ELSE 1>>
        ELSE IF ~x.neg THEN <<r, 1>>
        ELSE IF t = 0 THEN <<Div(One, Cancel(x)), 1>>
        ELSE <<Some, IF t > 0 THEN -1 ELSE 1>>
lgamma_r(x) == Lgamma(x, (\h3ff - 70) * 2^20)
lgammaf_r(x) == Lgamma(x, \h35000000)
lgammal_r(x) == Lgamma(x, \h3fc08000)

tgamma(x) ==
    IF IsSpecial(x) THEN Add(Self(x), Inf(FALSE))
    ELSE IF x.ix < (\h3ff - 54) * 2^20
    THEN IF IsZero(x) THEN Div(One, Self(x)) ELSE Edge(x.neg)
    ELSE IF IsInt(x) /\ x.neg THEN Div(Zero(FALSE), Zero(FALSE))
    ELSE IF x.ix >= \h40670000
    THEN IF x.neg THEN math_uflow(Eighths(x) < 8) ELSE Blow(x)
    ELSE IF x.neg THEN Edge(sin_pi(x) > 0) ELSE Num(FALSE)
\* Beyond 13 p is the floor of |x|, one more when the fraction exceeds a half,
\* and the value is negated when p is twice the floor of |x|/2; up to 13 one
\* negative factor is divided out per unit.
tgammal(x) ==
    LET even == Eighths(x) < 8
        up == Eighths(x) % 8 > 4 \/ (Eighths(x) % 8 = 4 /\ Rest(x))
    IN  IF IsSpecial(x) THEN Add(Self(x), Inf(FALSE))
        ELSE IF IsZero(x) THEN Div(One, Self(x))
        ELSE IF x.neg /\ IsInt(x) THEN Div(Zero(FALSE), Zero(FALSE))
        ELSE IF x.ix > \h4002d000
        THEN IF x.neg
             THEN IF x.ix > \h4009db6e THEN Zero(even) ELSE Edge(even /\ ~up)
             ELSE IF x.ix > \h4009db6e THEN Blow(x) ELSE Num(FALSE)
        ELSE Edge(x.neg /\ even)

\* Of an oscillating value the sign is relative to its value at |x| (and |n|).
Osc(neg) == Const("any", neg)
J0(x, two) == IF IsSpecial(x) THEN Div(One, Mul(Self(x), Self(x)))
              ELSE IF x.ix >= two THEN Osc(FALSE) ELSE Num(FALSE)
j0(x) == J0(x, \h40000000)
j0f(x) == J0(x, \h40000000)
J1(x, two) == IF IsSpecial(x) THEN Div(One, Mul(Self(x), Self(x)))
              ELSE IF x.ix >= two THEN Osc(x.neg) ELSE Odd(x)
j1(x) == J1(x, \h40000000)
j1f(x) == J1(x, \h40000000)
\* y0 and y1: the sign is tested before NaN.
Y01(x, small, v) ==
    IF IsZero(x) THEN Div(Num(TRUE), Zero(FALSE))
    ELSE IF x.neg THEN Div(Zero(FALSE), Zero(FALSE))
    ELSE IF IsSpecial(x) THEN Div(One, Self(x))
    ELSE IF x.ix < small THEN v ELSE Osc(FALSE)
y0(x) == Y01(x, \h3e400000, Num(TRUE))
y0f(x) == Y01(x, \h39000000, Num(TRUE))
y1(x) == Y01(x, \h3c900000, Edge(TRUE))
y1f(x) == Y01(x, \h33000000, Edge(TRUE))
Jn(n, x, j0n(_), j1n(_)) ==
    LET s == IF n < 0 THEN ~x.neg ELSE x.neg
        y == IF n < 0 THEN Flip(x) ELSE x
        nm1 == IF n < 0 THEN -(n + 1) ELSE n - 1
        neg == s /\ n % 2 = 1
    IN  IF IsNan(x) THEN Self(x)
        ELSE IF n = 0 THEN j0n(x)
        ELSE IF nm1 = 0 THEN j1n(y)
        ELSE IF IsZero(x) \/ IsInf(x) THEN Zero(neg) ELSE Osc(neg)
jn(n, x) == Jn(n, x, j0, j1)
jnf(n, x) == Jn(n, x, j0f, j1f)
Yn(n, x, y0n(_), y1n(_)) ==
    LET nm1 == IF n < 0 THEN -(n + 1) ELSE n - 1
        neg == n < 0 /\ n % 2 = 1
    IN  IF IsNan(x) THEN Self(x)
        ELSE IF x.neg /\ ~IsZero(x) THEN Div(Zero(FALSE), Zero(FALSE))
        ELSE IF IsInf(x) THEN Zero(FALSE)
        ELSE IF n = 0 THEN y0n(x)
        ELSE IF nm1 = 0 \/ IsZero(x) THEN Signed(neg, y1n(x)) ELSE Osc(neg)
yn(n, x) == Yn(n, x, y0, y1)
ynf(n, x) == Yn(n, x, y0f, y1f)

------------------------------------------------------------------------------
(* Complex functions of z = x + iy: a pair of values.  q is the quadrant of   *)
(* y (0: between 0 and pi/2), whose sine and cosine are not zero.            *)
CosV(y, q) == IF Class(y) # "num" THEN IF IsZero(y) THEN One ELSE Cancel(y) ELSE Num(q \in {1, 2})
SinV(y, q) == IF Class(y) # "num" THEN IF IsZero(y) THEN Self(y) ELSE Cancel(y) ELSE Num(q \in {2, 3})
IsFinite(x) == x.ix < x.F.inf
CopySign(v, neg) == [v EXCEPT !.neg = neg, !.id = ""]
\* The sign of a NaN is the processor's.
Unsigned(v) == [v EXCEPT !.id = "any"]
Huge(v) == IF v.c = "num" THEN [Inf(v.neg) EXCEPT !.ex = v.ex \union {"overflow"}] ELSE v
Square(x) == Mul(Self(x), Self(x))
ldexp_cexp(y, q) == <<Raise(Edge(CosV(y, q).neg), {}), Raise(Edge(SinV(y, q).neg), {})>>
CMPLX(re, im) == <<re, im>>
\* at22: |x| < 22 (9 for float); over: exp overflows; far: even its root does.
Ccosh(x, y, q, at22, over, far, coshF(_), sinhF(_)) ==
    LET c == CosV(y, q) s == SinV(y, q)
        h == CopySign(One, x.neg)
        b == Huge(Self(x))
        l == ldexp_cexp(y, q)
    IN  IF IsFinite(x) /\ IsFinite(y)
        THEN IF IsZero(y) THEN CMPLX(coshF(x), Mul(Self(x), Self(y)))
             ELSE IF x.ix < at22 THEN CMPLX(Mul(coshF(x), c), Mul(sinhF(x), s))
             ELSE IF x.ix < over THEN CMPLX(c, Mul(h, s))
             ELSE IF x.ix < far THEN CMPLX(l[1], [l[2] EXCEPT !.neg = @ # x.neg])
             ELSE CMPLX(Mul(Mul(b, b), c), Mul(b, s))
        ELSE IF IsZero(x) THEN CMPLX(Cancel(y), Unsigned(Zero(FALSE)))
        ELSE IF IsZero(y)
        THEN CMPLX(Square(x), IF IsInf(x) THEN Zero(x.neg # y.neg) ELSE Unsigned(Zero(FALSE)))
        ELSE IF IsFinite(x) THEN CMPLX(Cancel(y), Mul(Self(x), Cancel(y)))
        ELSE IF IsInf(x)
        THEN IF IsFinite(y) THEN CMPLX(Mul(Square(x), c), Mul(Self(x), s))
             ELSE CMPLX(Square(x), Mul(Self(x), Cancel(y)))
        ELSE CMPLX(Mul(Square(x), Cancel(y)), Mul(Add(Self(x), Self(x)), Cancel(y)))
ccosh(x, y, q) == Ccosh(x, y, q, \h40360000, \h40862e42, \h4096bbaa, cosh, sinh)
ccoshf(x, y, q) == Ccosh(x, y, q, \h41100000, \h42b17218, \h4340b1e7, coshf, sinhf)
Csinh(x, y, q, at22, over, far, coshF(_), sinhF(_)) ==
    LET c == CosV(y, q) s == SinV(y, q)
        h == CopySign(One, x.neg)
        b == Huge(Self(x))
        l == ldexp_cexp(y, q)
    IN  IF IsFinite(x) /\ IsFinite(y)
        THEN IF IsZero(y) THEN CMPLX(sinhF(x), Self(y))
             ELSE IF x.ix < at22 THEN CMPLX(Mul(sinhF(x), c), Mul(coshF(x), s))
             ELSE IF x.ix < over THEN CMPLX(Mul(h, c), s)
             ELSE IF x.ix < far THEN CMPLX([l[1] EXCEPT !.neg = @ # x.neg], l[2])
             ELSE CMPLX(Mul(b, c), Mul(Mul(b, b), s))
        ELSE IF IsZero(x) THEN CMPLX(Unsigned(Zero(FALSE)), Cancel(y))
        ELSE IF IsZero(y) THEN CMPLX(Self(x), Self(y))
        ELSE IF IsFinite(x) THEN CMPLX(Cancel(y), Mul(Self(x), Cancel(y)))
        ELSE IF IsInf(x)
        THEN IF IsFinite(y) THEN CMPLX(Mul(Self(x), c), Mul(Inf(FALSE), s))
             ELSE CMPLX(Square(x), Mul(Self(x), Cancel(y)))
        ELSE CMPLX(Mul(Square(x), Cancel(y)), Mul(Add(Self(x), Self(x)), Cancel(y)))
csinh(x, y, q) == Csinh(x, y, q, \h40360000, \h40862e42, \h4096bbaa, cosh, sinh)
csinhf(x, y, q) == Csinh(x, y, q, \h41100000, \h42b17218, \h4340b1e7, coshf, sinhf)
Ctanh(x, y, q, big) ==
    LET sc == Mul(SinV(y, q), CosV(y, q))
        t == IF IsZero(y) THEN Self(y) ELSE Num(q \in {1, 3})
    IN  IF IsNan(x) THEN CMPLX(Self(x), IF IsZero(y) THEN Self(y) ELSE Mul(Self(x), Self(y)))
        ELSE IF IsInf(x)
        THEN CMPLX(Const("1", x.neg),
                   IF IsInf(y) THEN Zero(y.neg) ELSE IF IsNan(y) THEN Unsigned(Zero(FALSE))
                   ELSE Zero(sc.neg))
        ELSE IF ~IsFinite(y) THEN CMPLX(IF IsZero(x) THEN Self(x) ELSE Cancel(y), Cancel(y))
        ELSE IF x.ix >= big
        THEN CMPLX(Const("1", x.neg), IF sc.c = "num" THEN Edge(sc.neg) ELSE sc)
        ELSE CMPLX(Odd(x), t)
ctanh(x, y, q) == Ctanh(x, y, q, \h40360000)
ctanhf(x, y, q) == Ctanh(x, y, q, \h41300000)
Cexp(x, y, q, ovfl, covfl, expF(_)) ==
    IF IsZero(y) THEN CMPLX(expF(x), Self(y))
    ELSE IF IsZero(x) THEN CMPLX(CosV(y, q), SinV(y, q))
    ELSE IF ~IsFinite(y)
    THEN IF ~IsInf(x) THEN CMPLX(Cancel(y), Cancel(y))
         ELSE IF x.neg THEN CMPLX(Unsigned(Zero(FALSE)), Unsigned(Zero(FALSE)))
         ELSE CMPLX(Self(x), Cancel(y))
    ELSE IF ~x.neg /\ x.ix >= ovfl /\ x.ix <= covfl THEN ldexp_cexp(y, q)
    ELSE CMPLX(Mul(expF(x), CosV(y, q)), Mul(expF(x), SinV(y, q)))
cexp(x, y, q) == Cexp(x, y, q, \h40862e42, \h4096b8e4, exp)
cexpf(x, y, q) == Cexp(x, y, q, \h42b17218, \h43400074, expf)
Csqrt(a, b) ==
    LET t == Num(FALSE)             \* sqrt((|a| + hypot(a, b)) / 2)
        u == IF IsZero(b) THEN Zero(FALSE) ELSE t
    IN  IF IsZero(a) /\ IsZero(b) THEN CMPLX(Zero(FALSE), Self(b))
        ELSE IF IsInf(b) THEN CMPLX(Inf(FALSE), Self(b))
        ELSE IF IsNan(a) THEN CMPLX(Self(a), Div(Cancel(b), Cancel(b)))
        ELSE IF IsInf(a)
        THEN IF a.neg THEN CMPLX(CopySign(Cancel(b), FALSE), Inf(b.neg))
             ELSE CMPLX(Self(a), CopySign(Cancel(b), b.neg))
        ELSE IF IsNan(b) THEN CMPLX(Nan, Nan)
        ELSE IF ~a.neg \/ IsZero(a) THEN CMPLX(t, CopySign(u, b.neg))
        ELSE CMPLX(u, CopySign(t, b.neg))
csqrt(x, y) == Csqrt(x, y)
csqrtf(x, y) == Csqrt(x, y)
cproj(x, y) == IF IsInf(x) \/ IsInf(y) THEN CMPLX(Inf(FALSE), Zero(y.neg)) ELSE CMPLX(Self(x), Self(y))

------------------------------------------------------------------------------
(* What the functions shall return, from their mathematical definition: the *)
(* class and sign allowed, and whether invalid or divbyzero must be raised.  *)
Want(c, s, ex) == [c |-> c, neg |-> s, ex |-> ex]
Undef == Want({"nan"}, BOOLEAN, {"invalid"})
NoNumber == Want({"nan"}, BOOLEAN, {})
Pole(neg) == Want({"inf"}, {neg}, {"divbyzero"})
Is(c, neg) == Want({c}, {neg}, {})
Sure(neg) == Is("num", neg)
Ranged(neg) == Want({"num", "inf", "zero"}, {neg}, {})
AnySign == Want({"num"}, BOOLEAN, {})
Agree(v, w) ==
    /\ IF v.id = "edge" THEN w.c \intersect {"num", "inf", "zero"} # {} ELSE v.c \in w.c
    /\ v.c = "nan" \/ v.id = "any" \/ v.neg \in w.neg
    /\ v.ex \intersect {"invalid", "divbyzero"} = w.ex
    /\ "overflow" \in v.ex => "inf" \in w.c
    /\ "underflow" \in v.ex => "zero" \in w.c

\* Overflow beyond the word over, underflow from -under.
Limited(x, over, under) ==
    IF ~x.neg THEN Want(IF x.ix > over THEN {"inf"} ELSE IF x.ix = over THEN {"num", "inf"}
                        ELSE {"num"}, {FALSE}, {})
    ELSE Want(IF x.ix > under + 1 THEN {"zero"} ELSE IF x.ix < under THEN {"num"}
              ELSE {"num", "zero"}, {FALSE}, {})
ByFormat(x, d, f, l) == IF x.F = F64 THEN d ELSE IF x.F = F32 THEN f ELSE l
Over(x) == ByFormat(x, \h40862e42, \h42b17217, \h400cb172)
\* The rules of an odd function, an increasing one, and a function on x >= 0.
OddW(x, atInf) == IF IsNan(x) THEN NoNumber ELSE IF IsZero(x) THEN Is("zero", x.neg)
                  ELSE IF IsInf(x) THEN atInf ELSE Sure(x.neg)
ExpW(x, over, under) ==
    IF IsNan(x) THEN NoNumber
    ELSE IF IsInf(x) THEN Is(IF x.neg THEN "zero" ELSE "inf", FALSE)
    ELSE Limited(x, over, under)
LogW(x) ==
    IF IsNan(x) THEN NoNumber ELSE IF IsZero(x) THEN Pole(TRUE)
    ELSE IF x.neg THEN Undef ELSE IF IsInf(x) THEN Is("inf", FALSE)
    ELSE IF IsOne(x) THEN Is("zero", FALSE) ELSE Sure(~AboveOne(x))
NegInt(x) == x.neg /\ Class(x) = "num" /\ Checkint(x) # 0
\* gamma(x) < 0: x between -2k - 1 and -2k.
GammaNeg(x) == x.neg /\ Class(x) = "num" /\ (IF ExpOf(x) < 0 THEN TRUE ELSE UnitBit(x) = 0)
Wanted(x) ==
    LET outside == Class(x) # "nan" /\ AboveOne(x)
        bound(w) == IF IsNan(x) THEN NoNumber ELSE IF outside THEN Undef ELSE w
        may(w) == [w EXCEPT !.c = IF Class(x) = "num" /\ x.ix >= Over(x)
                                  THEN IF x.ix > Over(x) THEN {"inf"} ELSE {"inf", "num"} ELSE @]
    IN  [exp |-> ExpW(x, Over(x), ByFormat(x, \h40874910, \h42cff1b4, \h400cb21d)),
         exp2 |-> ExpW(x, ByFormat(x, \h40900000, \h43000000, \h400d8000) - 1,
                       ByFormat(x, \h4090cc00, \h43160000, \h400d807c) - 1),
         exp10 |-> ExpW(x, ByFormat(x, \h40734413, \h421a209a, \h400b9a20),
                        ByFormat(x, \h40743a00, \h42349e00, \h400b9a80)),
         expm1 |-> IF x.neg THEN OddW(x, Sure(TRUE)) ELSE may(OddW(x, Is("inf", FALSE))),
         cosh |-> IF Class(x) \in {"zero", "num"} THEN may(Sure(FALSE))
                  ELSE IF IsInf(x) THEN Is("inf", FALSE) ELSE NoNumber,
         sinh |-> may(OddW(x, Is("inf", x.neg))),
         tanh |-> OddW(x, Sure(x.neg)),
         log |-> LogW(x), log2 |-> LogW(x), log10 |-> LogW(x),
         log1p |-> IF IsOne(x) /\ x.neg THEN Pole(TRUE)
                   ELSE IF x.neg THEN bound(OddW(x, Undef)) ELSE OddW(x, Is("inf", FALSE)),
         sqrt |-> IF Class(x) = "num" /\ x.neg THEN Undef
                  ELSE OddW(x, IF x.neg THEN Undef ELSE Is("inf", FALSE)),
         cbrt |-> OddW(x, Is("inf", x.neg)),
         acos |-> bound(IF IsOne(x) /\ ~x.neg THEN Is("zero", FALSE) ELSE Sure(FALSE)),
         asin |-> bound(OddW(x, Undef)),
         atan |-> OddW(x, Sure(x.neg)),
         acosh |-> IF IsNan(x) THEN NoNumber ELSE IF x.neg THEN Undef
                   ELSE IF IsOne(x) THEN Is("zero", FALSE) ELSE IF ~AboveOne(x) THEN Undef
                   ELSE Is(Class(x), FALSE),
         asinh |-> OddW(x, Is("inf", x.neg)),
         atanh |-> IF IsOne(x) THEN Pole(x.neg) ELSE bound(OddW(x, Undef)),
         erf |-> OddW(x, Sure(x.neg)),
         erfc |-> IF IsNan(x) THEN NoNumber ELSE IF IsInf(x) /\ ~x.neg THEN Is("zero", FALSE)
                  ELSE IF x.ix > ByFormat(x, \h403b3bff, \h4120eccc, \h4005d565) /\ ~x.neg
                  THEN Want({"num", "zero"}, {FALSE}, {}) ELSE Sure(FALSE),
         lgamma |-> IF IsNan(x) THEN NoNumber ELSE IF IsInf(x) THEN Is("inf", FALSE)
                    ELSE IF IsZero(x) \/ NegInt(x) THEN Pole(FALSE)
                    ELSE IF (x.ix = x.F.one \/ x.ix = x.F.one + x.F.unit) /\ x.lo = 0 /\ ~x.neg
                    THEN Is("zero", FALSE) ELSE AnySign,
         tgamma |-> IF IsNan(x) THEN NoNumber ELSE IF IsZero(x) THEN Pole(x.neg)
                    ELSE IF NegInt(x) \/ (IsInf(x) /\ x.neg) THEN Undef
                    ELSE IF IsInf(x) THEN Is("inf", FALSE)
                    ELSE IF x.ix < ByFormat(x, \h406573fa, \h42000000, \h4009db6e)
                         /\ ExpOf(x) > -120 THEN Want({"num"}, {GammaNeg(x)}, {})
                    ELSE Ranged(GammaNeg(x))]

\* What each function returns, by the name it shares with its two variants.
Returned(x) ==
    CASE x.F = F64 ->
        [exp |-> exp(x), exp2 |-> exp2(x), exp10 |-> exp10(x), expm1 |-> expm1(x),
         cosh |-> cosh(x), sinh |-> sinh(x), tanh |-> tanh(x), log |-> log(x),
         log2 |-> log2(x), log10 |-> log10(x), log1p |-> log1p(x), sqrt |-> sqrt(x),
         cbrt |-> cbrt(x), acos |-> acos(x), asin |-> asin(x), atan |-> atan(x),
         acosh |-> acosh(x), asinh |-> asinh(x), atanh |-> atanh(x), erf |-> erf(x),
         erfc |-> erfc(x), lgamma |-> lgamma_r(x)[1], tgamma |-> tgamma(x)]
     [] x.F = F32 ->
        [exp |-> expf(x), exp2 |-> exp2f(x), exp10 |-> exp10f(x), expm1 |-> expm1f(x),
         cosh |-> coshf(x), sinh |-> sinhf(x), tanh |-> tanhf(x), log |-> logf(x),
         log2 |-> log2f(x), log10 |-> log10f(x), log1p |-> log1pf(x), sqrt |-> sqrtf(x),
         cbrt |-> cbrtf(x), acos |-> acosf(x), asin |-> asinf(x), atan |-> atanf(x),
         acosh |-> acoshf(x), asinh |-> asinhf(x), atanh |-> atanhf(x), erf |-> erff(x),
         erfc |-> erfcf(x), lgamma |-> lgammaf_r(x)[1]]
     [] OTHER ->
        [exp |-> expl(x), exp2 |-> exp2l(x), exp10 |-> exp10l(x), expm1 |-> expm1l(x),
         cosh |-> coshl(x), sinh |-> sinhl(x), tanh |-> tanhl(x), log |-> logl(x),
         log2 |-> log2l(x), log10 |-> log10l(x), log1p |-> log1pl(x), sqrt |-> sqrtl(x),
         cbrt |-> cbrtl(x), acos |-> acosl(x), asin |-> asinl(x), atan |-> atanl(x),
         acosh |-> acoshl(x), asinh |-> asinhl(x), atanh |-> atanhl(x), erf |-> erfl(x),
         erfc |-> erfcl(x), lgamma |-> lgammal_r(x)[1], tgamma |-> tgammal(x)]

\* An argument or a constant is returned as it is only where the next term of
\* the series is below the last digit.
Cubic == {"sin", "tan", "asin", "atan", "sinh", "tanh", "asinh", "atanh"}
Exact(f, x, v) ==
    /\ v.id = "x" /\ Class(x) = "num" =>
         IF f \in Cubic THEN 2 * ExpOf(x) <= 2 - x.F.p
         ELSE f \in {"expm1", "log1p"} /\ ExpOf(x) <= -x.F.p
    /\ v.id = "1" => 2 * ExpOf(x) <= 2 - x.F.p
    /\ v.id = "-1" => x.ix >= ByFormat(x, \h40425e4f, \h41851592, \h4004b172)
    /\ v.id = "pi/2" => CASE f = "acos" -> ExpOf(x) <= -x.F.p
                          [] f = "atan" -> ExpOf(x) >= x.F.p [] OTHER -> IsOne(x)
    /\ v.id = "pi" => IsOne(x) /\ x.neg

\* tgammal tests the parity of the integer part after it has rounded it up: below
\* -13, and nearer to the odd integer under it than to the even one over it, it
\* returns gamma with the opposite sign.
TgammalDeparts(x) ==
    /\ x.F = F80 /\ x.neg /\ x.ix \in \h4002d001 .. \h4009db6e
    /\ Eighths(x) \in 5..7 \/ (Eighths(x) = 4 /\ Rest(x))
UnaryRight(x) ==
    LET got == Returned(x) wanted == Wanted(x)
        due(f) == IF f = "tgamma" /\ TgammalDeparts(x) THEN [wanted[f] EXCEPT !.neg = {FALSE}]
                  ELSE wanted[f]
    IN  \A f \in DOMAIN got : Agree(got[f], due(f)) /\ Exact(f, x, got[f])

\* signgam is the sign of gamma.
SignGam(x) == ByFormat(x, lgamma_r(x)[2], lgammaf_r(x)[2], lgammal_r(x)[2])
SignRight(x) == Class(x) = "num" /\ ~NegInt(x) => SignGam(x) = (IF GammaNeg(x) THEN -1 ELSE 1)

\* (-1)^neg fn(x + k pi/2) is the function asked for.
Minus(neg, odd) == neg = (odd % 2 = 1)
IsSin(v) == IF v.fn = "sin" THEN v.k % 2 = 0 /\ Minus(v.neg, v.k \div 2)
            ELSE v.fn = "cos" /\ v.k % 2 = 1 /\ Minus(v.neg, v.k \div 2 + 1)
IsCos(v) == IF v.fn = "cos" THEN v.k % 2 = 0 /\ Minus(v.neg, v.k \div 2)
            ELSE v.fn = "sin" /\ v.k % 2 = 1 /\ Minus(v.neg, v.k \div 2)
IsTan(v) == ~v.neg /\ v.fn = IF v.k % 2 = 0 THEN "tan" ELSE "cot"
\* The kernel's argument is within a quarter turn of zero: the odd multiples
\* of pi/4 (to the word) divide the quotients.
Quarter(x, i) ==
    ByFormat(x, <<\h3fe921fb, \h4002d97c, \h400f6a7a, \h4015fdbb, \h401c463a>>,
                <<\h3f490fdb, \h4016cbe4, \h407b53d1, \h40afeddf, \h40e231d6>>,
                <<\h3ffec90f, \h400096cb, \h4000fb53, \h4001afed, \h4001e231>>)[i]
Nearest(x, n) == \E i \in 0..8 :
    /\ n = IF x.neg THEN -i ELSE i
    /\ i > 0 => x.ix + 1 >= Quarter(x, IF i > 5 THEN 5 ELSE i)
    /\ i < 5 => x.ix <= Quarter(x, i + 1) + 1
TrigW(x, v, right(_), zero) ==
    IF v.c = "trig" THEN Class(x) = "num" /\ right(v) /\ Nearest(x, -v.k)
    ELSE /\ Agree(v, CASE IsNan(x) -> NoNumber [] IsInf(x) -> Undef [] IsZero(x) -> zero
                     [] OTHER -> Sure("num" \notin zero.c /\ x.neg))
TrigRight(x, n) ==
    LET s == ByFormat(x, sin(x, n), sinf(x, n), sinl(x, n))
        c == ByFormat(x, cos(x, n), cosf(x, n), cosl(x, n))
        t == ByFormat(x, tan(x, n), tanf(x, n), tanl(x, n))
        b == ByFormat(x, sincos(x, n), sincosf(x, n), sincosl(x, n))
    IN  /\ \A v \in {s, b[1]} : TrigW(x, v, IsSin, Is("zero", x.neg))
        /\ \A v \in {c, b[2]} : TrigW(x, v, IsCos, Sure(FALSE))
        /\ TrigW(x, t, IsTan, Is("zero", x.neg))
        /\ (s.c # "trig" => Exact("sin", x, s)) /\ (t.c # "trig" => Exact("tan", x, t))

PowW(x, y) ==
    LET odd == Checkint(y) = 1
        neg == x.neg /\ odd
        grows == IsInf(y) /\ (AboveOne(x) # y.neg)
    IN  IF IsZero(y) \/ (IsOne(x) /\ ~x.neg) THEN Sure(FALSE)
        ELSE IF IsNan(x) \/ IsNan(y) THEN NoNumber
        ELSE IF IsInf(y) THEN IF IsOne(x) THEN Sure(FALSE)
                              ELSE Is(IF grows THEN "inf" ELSE "zero", FALSE)
        ELSE IF IsZero(x) THEN IF y.neg THEN Pole(neg) ELSE Is("zero", neg)
        ELSE IF IsInf(x) THEN Is(IF y.neg THEN "zero" ELSE "inf", neg)
        ELSE IF x.neg /\ Checkint(y) = 0 THEN Undef
        ELSE IF IsOne(x) THEN Sure(neg) ELSE Ranged(neg)
\* powl decides on the size of y before it looks at x: 0^y, y < -2^78 or so, is the
\* infinity of an overflow and not of a division by zero.
PowlDeparts(x, y) ==
    /\ x.F = F80 /\ IsZero(x) /\ Class(y) = "num" /\ y.neg
    /\ Below([y EXCEPT !.ix = \h404d807c, !.lo = 0], y)
HypotW(x, y) ==
    IF IsInf(x) \/ IsInf(y) THEN Is("inf", FALSE)
    ELSE IF IsNan(x) \/ IsNan(y) THEN NoNumber
    ELSE IF IsZero(x) /\ IsZero(y) THEN Is("zero", FALSE) ELSE Want({"num", "inf"}, {FALSE}, {})
Atan2W(y, x, v) ==
    IF IsNan(x) \/ IsNan(y) THEN v.c = "nan" /\ v.ex = {}
    ELSE /\ v.neg = y.neg /\ v.ex = {}
         /\ v.c = "zero" => ~x.neg /\ (IsZero(y) \/ IsInf(x))
         /\ v.id = "pi" => x.neg /\ (IsZero(y) \/ IsInf(x))
         /\ v.id = "pi/2" => ExpOf(y) - ExpOf(x) >= x.F.p \/ IsZero(x)
         /\ v.id \in {"pi/4", "3pi/4"} => IsInf(x) /\ IsInf(y) /\ x.neg = (v.id = "3pi/4")
         /\ v.id = "x" => (IsZero(y) /\ ~x.neg) \/ IsOne(x)
         /\ v.c = "num" /\ v.id = "" => Class(x) = "num" /\ Class(y) = "num"
BinaryRight(x, y) ==
    LET h(a, b) == ByFormat(x, hypot(a, b), hypotf(a, b), hypotl(a, b))
        p == ByFormat(x, pow(x, y), powf(x, y), powl(x, y))
    IN  /\ Agree(p, IF PowlDeparts(x, y) THEN Is("inf", FALSE) ELSE PowW(x, y))
        /\ Agree(h(x, y), HypotW(x, y)) /\ Agree(h(y, x), HypotW(x, y))
        /\ Atan2W(x, y, ByFormat(x, atan2(x, y), atan2f(x, y), atan2l(x, y)))

\* J_n(-x) = J_-n(x) = (-1)^n J_n(x), Y_-n(x) = (-1)^n Y_n(x).
BesselRight(x, n) ==
    LET turn == n % 2 = 1
        j == IF x.F = F64 THEN jn(n, x) ELSE jnf(n, x)
        y == IF x.F = F64 THEN yn(n, x) ELSE ynf(n, x)
        neg == turn /\ (x.neg # (n < 0))
        flip == turn /\ n < 0
        atInf == IF n \in -1..1 THEN j.c = "zero" ELSE Agree(j, Is("zero", neg))
    IN  /\ IF IsNan(x) THEN j.c = "nan" /\ j.ex = {}
           ELSE IF IsInf(x) THEN atInf
           ELSE IF IsZero(x) THEN Agree(j, IF n = 0 THEN Sure(FALSE) ELSE Is("zero", neg))
           ELSE j.c = "num" /\ j.neg = neg
        /\ Agree(y, CASE IsNan(x) -> NoNumber
                    [] IsZero(x) -> Pole(IF n < 0 /\ turn THEN FALSE ELSE TRUE)
                    [] x.neg -> Undef [] IsInf(x) -> Is("zero", IF n = -1 THEN FALSE ELSE FALSE)
                    [] OTHER -> Want({"num", "inf"}, BOOLEAN, {}))

------------------------------------------------------------------------------
(* The complex functions: conjugation and parity on all arguments, and the  *)
(* values that ISO C tabulates for infinite and NaN parts x, y >= 0.         *)
Same(v, w, flip) == /\ v.c = w.c
                    /\ v.c = "nan" \/ v.id = "any" \/ (w.neg = (v.neg # flip))
Mirrored(v, w, re, im) == Same(v[1], w[1], re) /\ Same(v[2], w[2], im)
Reflect(q) == 3 - q                          \* the quadrant of -y
Classes(v) == <<v[1].c, v[2].c>>
Raises(v) == "invalid" \in v[1].ex \union v[2].ex
\* What an infinity turned by y is.
Turned(v, y) == Classes(v) = IF IsZero(y) THEN <<"inf", "zero">> ELSE <<"inf", "inf">>
NanIf(v) == Classes(v) = <<"nan", "nan">>
CoshW(v, x, y) ==
    CASE IsZero(x) /\ ~IsFinite(y) -> Classes(v) = <<"nan", "zero">> /\ Raises(v) = IsInf(y)
      [] IsInf(x) -> IF IsFinite(y) THEN Turned(v, y)
                     ELSE Classes(v) = <<"inf", "nan">> /\ Raises(v) = IsInf(y)
      [] IsNan(x) -> Classes(v) = IF IsZero(y) THEN <<"nan", "zero">> ELSE <<"nan", "nan">>
      [] OTHER -> IF IsFinite(y) THEN ~Raises(v) ELSE NanIf(v) /\ Raises(v) = IsInf(y)
SinhW(v, x, y) ==
    CASE IsZero(x) /\ ~IsFinite(y) -> Classes(v) = <<"zero", "nan">> /\ Raises(v) = IsInf(y)
      [] IsInf(x) -> IF IsFinite(y) THEN Turned(v, y)
                     ELSE Classes(v) = <<"inf", "nan">> /\ Raises(v) = IsInf(y)
      [] IsNan(x) -> Classes(v) = IF IsZero(y) THEN <<"nan", "zero">> ELSE <<"nan", "nan">>
      [] OTHER -> IF IsFinite(y) THEN ~Raises(v) ELSE NanIf(v) /\ Raises(v) = IsInf(y)
TanhW(v, x, y) ==
    CASE IsInf(x) -> v[1].id = "1" /\ v[2].c = "zero" /\ (IsFinite(y) => ~Raises(v))
      [] IsNan(x) -> Classes(v) = IF IsZero(y) THEN <<"nan", "zero">> ELSE <<"nan", "nan">>
      [] IsZero(x) /\ ~IsFinite(y) -> Classes(v) = <<"zero", "nan">> /\ Raises(v) = IsInf(y)
      [] OTHER -> IF IsFinite(y) THEN ~Raises(v) ELSE NanIf(v) /\ Raises(v) = IsInf(y)
ExpCW(v, x, y) ==
    CASE IsInf(x) /\ ~x.neg -> IF IsFinite(y) THEN Turned(v, y)
                               ELSE Classes(v) = <<"inf", "nan">> /\ Raises(v) = IsInf(y)
      [] IsInf(x) -> Classes(v) = <<"zero", "zero">> /\ ~Raises(v)
      [] IsNan(x) -> Classes(v) = IF IsZero(y) THEN <<"nan", "zero">> ELSE <<"nan", "nan">>
      [] OTHER -> IF IsFinite(y) THEN ~Raises(v) ELSE NanIf(v) /\ Raises(v) = IsInf(y)
SqrtCW(v, x, y) ==
    /\ v[1].c # "nan" => ~v[1].neg
    /\ CASE IsInf(y) -> Classes(v) = <<"inf", "inf">> /\ ~Raises(v)
         [] IsNan(x) -> NanIf(v)
         [] IsInf(x) /\ ~x.neg -> Classes(v) = <<"inf", IF IsNan(y) THEN "nan" ELSE "zero">>
         [] IsInf(x) -> Classes(v) = <<IF IsNan(y) THEN "nan" ELSE "zero", "inf">>
         [] IsNan(y) -> NanIf(v)
         [] OTHER -> (v[1].c = "zero") = (IsZero(y) /\ (x.neg \/ IsZero(x))) /\ ~Raises(v)
\* All infinities are one, on the side of the real axis where they were.
ProjW(v, x, y) ==
    IF IsInf(x) \/ IsInf(y) THEN Classes(v) = <<"inf", "zero">> /\ ~v[1].neg /\ v[2].neg = y.neg
    ELSE Same(v[1], Self(x), FALSE) /\ Same(v[2], Self(y), FALSE)
ComplexRight(x, y, q) ==
    LET ch(a, b, r) == IF x.F = F64 THEN ccosh(a, b, r) ELSE ccoshf(a, b, r)
        sh(a, b, r) == IF x.F = F64 THEN csinh(a, b, r) ELSE csinhf(a, b, r)
        th(a, b, r) == IF x.F = F64 THEN ctanh(a, b, r) ELSE ctanhf(a, b, r)
        ex(a, b, r) == IF x.F = F64 THEN cexp(a, b, r) ELSE cexpf(a, b, r)
        sq(a, b) == IF x.F = F64 THEN csqrt(a, b) ELSE csqrtf(a, b)
        r == Reflect(q)
    IN  /\ CoshW(ch(x, y, q), x, y) /\ SinhW(sh(x, y, q), x, y) /\ TanhW(th(x, y, q), x, y)
        /\ ExpCW(ex(x, y, q), x, y) /\ SqrtCW(sq(x, y), x, y) /\ ProjW(cproj(x, y), x, y)
        /\ Mirrored(ch(x, y, q), ch(x, Flip(y), r), FALSE, TRUE)
        /\ Mirrored(sh(x, y, q), sh(x, Flip(y), r), FALSE, TRUE)
        /\ Mirrored(th(x, y, q), th(x, Flip(y), r), FALSE, TRUE)
        /\ Mirrored(ex(x, y, q), ex(x, Flip(y), r), FALSE, TRUE)
        /\ Mirrored(sq(x, y), sq(x, Flip(y)), FALSE, TRUE)
        /\ IsFinite(x) \/ IsFinite(y) =>
             /\ Mirrored(ch(x, y, q), ch(Flip(x), Flip(y), r), FALSE, FALSE)
             /\ Mirrored(sh(x, y, q), sh(Flip(x), Flip(y), r), TRUE, TRUE)
        /\ Mirrored(th(x, y, q), th(Flip(x), Flip(y), r), TRUE, TRUE)

------------------------------------------------------------------------------
(* Arguments: every word at which a function turns, and its neighbours. *)
Words(F) ==
    {0, F.min, F.one - 1, F.one, F.one + F.unit \div 2, F.one + F.unit, F.inf - F.unit, F.inf}
    \union
    CASE F = F64 ->
        {\h3b900000, \h3be00000, \h3c600000, \h3c900000, \h3ca00000, \h3df00000, \h3e400000,
         \h3e46a09e, \h3e500000, \h3fe00000, \h3fe921fb, \h3ff921fb, \h4002d97c, \h40080000,
         \h400921fb, \h400c0000, \h400f6a7a, \h40100000, \h4012d97c, \h40140000, \h4015fdbb,
         \h401921fb, \h401c463b, \h40240000, \h40340000, \h403c0000, \h4043687a, \h4065e000,
         \h40670000, \h40740000, \h40862e42, \h40880000, \h408d0000, \h40900000, \h4090cc00,
         \h43300000, \h43400000, \h43e00000, \h44100000, \h7fd00000}
      [] F = F32 ->
        {\h2f800000, \h32800000, \h33000000, \h33800000, \h35000000, \h39800000, \h3f000000,
         \h3f490fdb, \h4016cbe4, \h40400000, \h40600000, \h407b53d1, \h40800000, \h40afeddf,
         \h40e231d6, \h41200000, \h4195b844, \h41e00000, \h42300000, \h42b17217, \h42cff1b4,
         \h43000000, \h43160000, \h4b800000, \h4c800000, \h7f000000}
      [] OTHER ->
        {\h3fbe8000, \h3fc08000, \h3fdf8000, \h3ffe8000, \h3ffec90f, \h400096cb, \h4000c000,
         \h4000fb53, \h40018000, \h4001afed, \h4001e231, \h4002a000, \h4002d000, \h4002e800,
         \h4002f000, \h4004b438, \h4005d600, \h4009db6e, \h400cb172, \h400cb21d, \h400d8000,
         \h400d807c, \h403e8000, \h40408000, \h404d807c, \h7ffe8000}
\* A long double's integer bit is set exactly when its exponent is not zero.
Encodes(x) == x.F = F80 => (E(x) # 0) = (x.ix % 2^16 >= 2^15)
Around(w) == {w + d : d \in {-1, 0, 1}} \intersect Nat
Args(F, words, lows) ==
    {x \in {[F |-> F, neg |-> s, ix |-> w, lo |-> l] :
               s \in BOOLEAN, w \in UNION {Around(w) : w \in words}, l \in lows} : Encodes(x)}
Arguments == Args(F64, Words(F64), {0, 1}) \union Args(F32, Words(F32), {0})
             \union Args(F80, Words(F80), {0, 1})
\* Second arguments: special ones, even and odd integers, and the extremes.
Second(F) ==
    {x \in {[F |-> F, neg |-> s, ix |-> w, lo |-> 0] : s \in BOOLEAN, w \in
       {0, F.one, F.one + F.unit, F.inf, F.inf + F.unit \div 4} \union
       CASE F = F64 -> {\h3bd00000, \h3fe00000, \h40080000, \h433fffff, \h43400000, \h43e00000}
         [] F = F32 -> {\h2f000000, \h3f000000, \h40400000, \h4b7fffff, \h4b800000, \h5f000000}
         [] OTHER -> {\h3fbd8000, \h3ffe8000, \h4000c000, \h403dffff, \h403e8000, \h404d807d}} :
     Encodes(x)}

------------------------------------------------------------------------------
\* All functions of one argument, and those of two with the second from Second.
RealRight(x) ==
    /\ UnaryRight(x) /\ SignRight(x)
    /\ \A n \in -8..8 : Nearest(x, n) => TrigRight(x, n)
    /\ \A y \in Second(x.F) : BinaryRight(x, y)
    /\ x.F # F80 => /\ \A n \in -3..3 : BesselRight(x, n)
                    /\ \A y \in Second(x.F), q \in 0..3 : ComplexRight(x, y, q)

-----------------------------------------------------------------------------
(* The functions of src/math whose result is exact: rounding to an integer,  *)
(* taking a number apart, remainders, neighbours and fused multiplication.   *)
(* They work on the bits of a number, so they are modelled on the bits of    *)
(* small formats in which every argument can be tried; the widths 52, 23 and *)
(* 63 of the code are M, the biases 0x3ff, 0x7f and 0x3fff are Bias, and the *)
(* 64-bit words of fma have W(G) bits.                                       *)

\* A format: M fraction bits, eb exponent bits.  A number [G, s, w]: format,
\* sign, and the word without the sign.
ExpBias(G) == 2^(G.eb - 1) - 1
EMax(G) == 2^G.eb - 1
InfWord(G) == EMax(G) * 2^G.M
Numbers(G) == [G : {G}, s : BOOLEAN, w : 0 .. InfWord(G) + 1]
Ex(x) == x.w \div 2^x.G.M
Frac(x) == x.w % 2^x.G.M
IsNotNumber(x) == x.w > InfWord(x.G)
IsInfinite(x) == x.w = InfWord(x.G)
IsNull(x) == x.w = 0
Finite(x) == x.w < InfWord(x.G)
\* The magnitude of a word in units of the least subnormal; the word of
\* infinity counts as the number that would follow the greatest.
Units(G, w) == LET e == w \div 2^G.M
                   m == w % 2^G.M
               IN  IF e = 0 THEN m ELSE (2^G.M + m) * 2^(e - 1)
Mag(x) == Units(x.G, x.w)
Value(x) == IF x.s THEN -Mag(x) ELSE Mag(x)
UnitsOfOne(G) == 2^(G.M + ExpBias(G) - 1)

F(G, s, w) == [G |-> G, s |-> s, w |-> w]
ZeroOf(G, s) == F(G, s, 0)
OneOf(G, s) == F(G, s, ExpBias(G) * 2^G.M)
InfOf(G, s) == F(G, s, InfWord(G))
NanOf(G) == F(G, FALSE, InfWord(G) + 1)
Neg(x) == [x EXCEPT !.s = ~@]
Magnitude(x) == [x EXCEPT !.s = FALSE]
Lt(x, y) == ~IsNotNumber(x) /\ ~IsNotNumber(y) /\ Value(x) < Value(y)
Eq(x, y) == ~IsNotNumber(x) /\ ~IsNotNumber(y) /\ Value(x) = Value(y)

\* The number nearest to a 2^-k units in the rounding mode rm.
Round(G, s, a, k, rm) ==
    LET e == Max({1} \union {i \in 1 .. EMax(G) - 1 : G.M + i + k < 32 /\ 2^(G.M + i - 1 + k) <= a})
        q == (e - 1) * 2^G.M + a \div 2^(e - 1 + k)
        w == IF q < InfWord(G) THEN q ELSE InfWord(G) - 1
        low == a - Units(G, w) * 2^k
        gap == (Units(G, w + 1) - Units(G, w)) * 2^k
        up == CASE rm = "near" -> 2 * low > gap \/ (2 * low = gap /\ w % 2 = 1)
                [] rm = "up" -> ~s /\ low > 0
                [] rm = "down" -> s /\ low > 0
                [] OTHER -> FALSE
    IN  F(G, s, IF up THEN w + 1 ELSE w)
Overflow(G, s, rm) ==
    F(G, s, IF rm \in {"near", IF s THEN "down" ELSE "up"} THEN InfWord(G) ELSE InfWord(G) - 1)
RoundInt(G, n, k, rm) ==
    IF n = 0 THEN ZeroOf(G, rm = "down") ELSE Round(G, n < 0, IF n < 0 THEN -n ELSE n, k, rm)
RoundedSum(x, y, rm) ==
    IF IsNotNumber(x) \/ IsNotNumber(y) \/ (IsInfinite(x) /\ IsInfinite(y) /\ x.s # y.s) THEN NanOf(x.G)
    ELSE IF IsInfinite(x) THEN x ELSE IF IsInfinite(y) THEN y
    ELSE IF IsNull(x) /\ IsNull(y) /\ x.s = y.s THEN x
    ELSE RoundInt(x.G, Value(x) + Value(y), 0, rm)
RoundedDifference(x, y, rm) == RoundedSum(x, Neg(y), rm)
RoundedProduct(x, y, rm) ==
    LET s == x.s # y.s
        k == x.G.M + ExpBias(x.G) - 1
    IN  IF IsNotNumber(x) \/ IsNotNumber(y) \/ (IsInfinite(x) /\ IsNull(y)) \/ (IsNull(x) /\ IsInfinite(y))
        THEN NanOf(x.G)
        ELSE IF IsInfinite(x) \/ IsInfinite(y) THEN InfOf(x.G, s)
        ELSE IF IsNull(x) \/ IsNull(y) THEN ZeroOf(x.G, s)
        ELSE Round(x.G, s, Mag(x) * Mag(y), k, rm)

------------------------------------------------------------------------------
(* Rounding to an integer. *)
toint(G) == F(G, FALSE, (ExpBias(G) + G.M) * 2^G.M)
\* x + toint - toint, x - toint + toint.
Snap(x, rm) == LET t == [toint(x.G) EXCEPT !.s = x.s] IN RoundedDifference(RoundedSum(x, t, rm), t, rm)
Whole(x) == Ex(x) >= ExpBias(x.G) + x.G.M
Positive(y) == Lt(ZeroOf(y.G, FALSE), y)
Negative(y) == Lt(y, ZeroOf(y.G, FALSE))
floor(x, rm) ==
    LET y == RoundedDifference(Snap(x, rm), x, rm)
        z == RoundedSum(x, y, rm)
    IN  IF Whole(x) \/ IsNull(x) THEN x
        ELSE IF Ex(x) <= ExpBias(x.G) - 1 THEN IF x.s THEN OneOf(x.G, TRUE) ELSE ZeroOf(x.G, FALSE)
        ELSE IF Positive(y) THEN RoundedDifference(z, OneOf(x.G, FALSE), rm) ELSE z
floorl(x, rm) == floor(x, rm)
ceil(x, rm) ==
    LET y == RoundedDifference(Snap(x, rm), x, rm)
        z == RoundedSum(x, y, rm)
    IN  IF Whole(x) \/ IsNull(x) THEN x
        ELSE IF Ex(x) <= ExpBias(x.G) - 1 THEN IF x.s THEN ZeroOf(x.G, TRUE) ELSE OneOf(x.G, FALSE)
        ELSE IF Negative(y) THEN RoundedSum(z, OneOf(x.G, FALSE), rm) ELSE z
ceill(x, rm) == ceil(x, rm)
\* The float functions clear the bits below the units instead.
Mask(x) == 2^(x.G.M - (Ex(x) - ExpBias(x.G)))
Cut(x) == [x EXCEPT !.w = @ - (@ % Mask(x))]
Bump(x) == LET w == x.w + Mask(x) - 1 IN [x EXCEPT !.w = w - (w % Mask(x))]
FracSet(x) == x.w % Mask(x) # 0
floorf(x) ==
    IF Whole(x) THEN x
    ELSE IF Ex(x) >= ExpBias(x.G)
    THEN IF ~FracSet(x) THEN x ELSE IF x.s THEN Bump(x) ELSE Cut(x)
    ELSE IF ~x.s THEN ZeroOf(x.G, FALSE) ELSE IF x.w # 0 THEN OneOf(x.G, TRUE) ELSE x
ceilf(x) ==
    IF Whole(x) THEN x
    ELSE IF Ex(x) >= ExpBias(x.G)
    THEN IF ~FracSet(x) THEN x ELSE IF ~x.s THEN Bump(x) ELSE Cut(x)
    ELSE IF x.s THEN ZeroOf(x.G, TRUE) ELSE IF x.w # 0 THEN OneOf(x.G, FALSE) ELSE x
trunc(x) == IF Whole(x) THEN x
            ELSE IF Ex(x) < ExpBias(x.G) THEN ZeroOf(x.G, x.s) ELSE Cut(x)
truncf(x) == trunc(x)
truncl(x, rm) ==
    LET a == Magnitude(x)
        y == RoundedDifference(Snap(a, rm), a, rm)
        d == IF Positive(y) THEN RoundedDifference(y, OneOf(x.G, FALSE), rm) ELSE y
        r == RoundedSum(a, d, rm)
    IN  IF Whole(x) THEN x
        ELSE IF Ex(x) <= ExpBias(x.G) - 1 THEN RoundedProduct(x, ZeroOf(x.G, FALSE), rm)
        ELSE IF x.s THEN Neg(r) ELSE r
Half(G) == F(G, FALSE, (ExpBias(G) - 1) * 2^G.M)
round(x, rm) ==
    LET a == Magnitude(x)
        y == RoundedDifference(Snap(a, rm), a, rm)
        z == RoundedSum(y, a, rm)
        r == IF Lt(Half(x.G), y) THEN RoundedDifference(z, OneOf(x.G, FALSE), rm)
             ELSE IF ~Lt(Neg(Half(x.G)), y) THEN RoundedSum(z, OneOf(x.G, FALSE), rm) ELSE z
    IN  IF Whole(x) THEN x
        ELSE IF Ex(x) < ExpBias(x.G) - 1 THEN RoundedProduct(ZeroOf(x.G, FALSE), x, rm)
        ELSE IF x.s THEN Neg(r) ELSE r
roundf(x, rm) == round(x, rm)
roundl(x, rm) == round(x, rm)
rint(x, rm) ==
    LET y == Snap(x, rm)
    IN  IF Whole(x) THEN x ELSE IF IsNull(y) THEN ZeroOf(x.G, x.s) ELSE y
rintf(x, rm) == rint(x, rm)
rintl(x, rm) ==
    LET y == Snap(x, rm)
    IN  IF Whole(x) THEN x
        ELSE IF IsNull(y) THEN RoundedProduct(ZeroOf(x.G, FALSE), x, rm) ELSE y
\* <<fraction, integer part>>
modf(x, rm) ==
    IF Whole(x) THEN <<IF IsNotNumber(x) THEN x ELSE ZeroOf(x.G, x.s), x>>
    ELSE IF Ex(x) < ExpBias(x.G) THEN <<x, ZeroOf(x.G, x.s)>>
    ELSE IF ~FracSet(x) THEN <<ZeroOf(x.G, x.s), x>> ELSE <<RoundedDifference(x, Cut(x), rm), Cut(x)>>
modff(x, rm) == modf(x, rm)
modfl(x, rm) ==
    LET a == Magnitude(x)
        y == RoundedDifference(Snap(a, rm), a, rm)
        d == IF Positive(y) THEN RoundedDifference(y, OneOf(x.G, FALSE), rm) ELSE y
        e == IF x.s THEN Neg(d) ELSE d
    IN  IF Whole(x) THEN <<IF IsNotNumber(x) THEN x ELSE ZeroOf(x.G, x.s), x>>
        ELSE IF Ex(x) < ExpBias(x.G) THEN <<x, ZeroOf(x.G, x.s)>>
        ELSE IF IsNull(y) THEN <<ZeroOf(x.G, x.s), x>> ELSE <<Neg(e), RoundedSum(x, e, rm)>>

------------------------------------------------------------------------------
(* Taking a number apart, scaling, neighbours, comparison. *)
Pow2(G, e) == F(G, FALSE, (ExpBias(G) + e) * 2^G.M)
\* <<mantissa of M + 1 bits, exponent>>
Norm(x) ==
    LET d == Min({i \in 0 .. x.G.M : Frac(x) * 2^i >= 2^x.G.M})
    IN  IF Ex(x) = 0 THEN <<Frac(x) * 2^d, 1 - d>> ELSE <<2^x.G.M + Frac(x), Ex(x)>>
\* x * 2^e, rounded once: a normal number, too large, or shifted right.
Times2(x, e, rm) ==
    LET G == x.G
        n == Norm(x)
        i == n[2] + e
        d == IF 1 - i > G.M + 2 THEN G.M + 2 ELSE 1 - i
    IN  IF ~Finite(x) \/ IsNull(x) THEN x
        ELSE IF i >= EMax(G) THEN Overflow(G, x.s, rm)
        ELSE IF i >= 1 THEN F(G, x.s, i * 2^G.M + n[1] - 2^G.M)
        ELSE Round(G, x.s, n[1], d, rm)
\* <<fraction, exponent>>; NoExp: *e is not written.
NoExp == "none"
FrexpNormal(x) == <<[x EXCEPT !.w = (ExpBias(x.G) - 1) * 2^x.G.M + Frac(x)],
                    Ex(x) - (ExpBias(x.G) - 1)>>
frexp(x) ==
    LET up == FrexpNormal(Times2(x, x.G.M + 1, "near"))
    IN  IF IsNull(x) THEN <<x, 0>>
        ELSE IF Ex(x) = 0 THEN <<up[1], up[2] - (x.G.M + 1)>>
        ELSE IF Ex(x) = EMax(x.G) THEN <<x, NoExp>> ELSE FrexpNormal(x)
frexpf(x) == frexp(x)
frexpl(x) == frexp(x)
\* Two steps of at most the largest exponent; downwards each step stays M + 1
\* bits above the least normal number.
ScaleUp(x, n, rm) ==
    LET b == ExpBias(x.G)
        y == Times2(x, b, rm)
    IN  IF n <= b THEN Times2(x, n, rm)
        ELSE IF n - b <= b THEN Times2(y, n - b, rm)
        ELSE Times2(Times2(y, b, rm), IF n - 2 * b > b THEN b ELSE n - 2 * b, rm)
ScaleDown(x, n, rm) ==
    LET least == ExpBias(x.G) - 1
        step == least - (x.G.M + 1)
        y == Times2(x, -step, rm)
    IN  IF n >= -least THEN Times2(x, n, rm)
        ELSE IF n + step >= -least THEN Times2(y, n + step, rm)
        ELSE Times2(Times2(y, -step, rm),
                    IF n + 2 * step < -least THEN -least ELSE n + 2 * step, rm)
scalbn(x, n, rm) == IF n > 0 THEN ScaleUp(x, n, rm) ELSE ScaleDown(x, n, rm)
scalbnf(x, n, rm) == scalbn(x, n, rm)
scalbnl(x, n, rm) == scalbn(x, n, rm)
ilogb(x) ==
    IF IsNull(x) THEN "FP_ILOGB0"
    ELSE IF Ex(x) = 0 THEN -ExpBias(x.G) + 1 - Min({i \in 0..x.G.M : Frac(x) * 2^i >= 2^x.G.M})
    ELSE IF Ex(x) = EMax(x.G) THEN IF IsInfinite(x) THEN "INT_MAX" ELSE "FP_ILOGBNAN"
    ELSE Ex(x) - ExpBias(x.G)
ilogbf(x) == ilogb(x)
ilogbl(x) == ilogb(x)
logb(x) == IF ~Finite(x) THEN RoundedProduct(x, x, "near") ELSE IF IsNull(x) THEN InfOf(x.G, TRUE) ELSE ilogb(x)

nextafter(x, y) ==
    IF IsNotNumber(x) \/ IsNotNumber(y) THEN NanOf(x.G)
    ELSE IF x = y THEN y
    ELSE IF IsNull(x) THEN IF IsNull(y) THEN y ELSE F(x.G, y.s, 1)
    ELSE IF x.w > y.w \/ x.s # y.s THEN [x EXCEPT !.w = @ - 1] ELSE [x EXCEPT !.w = @ + 1]
nextafterf(x, y) == nextafter(x, y)
\* By comparison, where y has another format.
NextToward(x, y) ==
    IF IsNotNumber(x) \/ IsNotNumber(y) THEN NanOf(x.G)
    ELSE IF Eq(x, y) THEN y
    ELSE IF IsNull(x) THEN F(x.G, y.s, 1)
    ELSE IF Lt(x, y) = ~x.s THEN [x EXCEPT !.w = @ + 1] ELSE [x EXCEPT !.w = @ - 1]
nexttoward(x, y) == NextToward(x, y)
nexttowardf(x, y) == NextToward(x, y)
nextafterl(x, y) == NextToward(x, y)
fdim(x, y, rm) == IF IsNotNumber(x) THEN x ELSE IF IsNotNumber(y) THEN y
                  ELSE IF Lt(y, x) THEN RoundedDifference(x, y, rm) ELSE ZeroOf(x.G, FALSE)
fmax(x, y) ==
    IF IsNotNumber(x) THEN y ELSE IF IsNotNumber(y) THEN x
    ELSE IF x.s # y.s THEN IF x.s THEN y ELSE x ELSE IF Lt(x, y) THEN y ELSE x
fmin(x, y) ==
    IF IsNotNumber(x) THEN y ELSE IF IsNotNumber(y) THEN x
    ELSE IF x.s # y.s THEN IF x.s THEN x ELSE y ELSE IF Lt(x, y) THEN x ELSE y

------------------------------------------------------------------------------
(* Remainders: a long division of the mantissas, one bit per step.          *)
RECURSIVE Pack(_, _, _, _)
Pack(G, s, m, e) ==
    IF m = 0 THEN ZeroOf(G, s)
    ELSE IF m < 2^G.M THEN Pack(G, s, 2 * m, e - 1)
    ELSE F(G, s, IF e > 0 THEN m - 2^G.M + e * 2^G.M ELSE m \div 2^(1 - e))
RECURSIVE PackExp(_, _, _)
PackExp(G, m, e) == IF m < 2^G.M THEN PackExp(G, 2 * m, e - 1) ELSE e
\* d more bits of the quotient; q is an unsigned int of QuoBits.
QuoBits == 4
RECURSIVE Divide(_, _, _, _)
Divide(mx, my, d, q) ==
    LET r == IF mx >= my THEN mx - my ELSE mx
        p == (IF mx >= my THEN q + 1 ELSE q) % 2^QuoBits
    IN  IF d = 0 THEN <<r, p>> ELSE Divide(2 * r, my, d - 1, 2 * p)
\* The mantissa of a long double fills its word: the bit shifted out of it
\* stands for a subtraction.
RECURSIVE Dividel(_, _, _, _, _)
Dividel(G, mx, my, d, q) ==
    LET r == IF mx >= my THEN mx - my ELSE mx
        p == (IF mx >= my THEN q + 1 ELSE q) % 2^QuoBits
    IN  IF d = 0 THEN <<r, p>>
        ELSE IF mx < my /\ 2 * mx >= 2^(G.M + 1)
        THEN Dividel(G, 2 * mx - my, my, d - 1, (2 * q + 1) % 2^QuoBits)
        ELSE Dividel(G, 2 * r, my, d - 1, (2 * p) % 2^QuoBits)
NoRemainder(x, y) == IsNull(y) \/ IsNotNumber(y) \/ Ex(x) = EMax(x.G)
Fmod(x, y, r) ==
    IF NoRemainder(x, y) THEN NanOf(x.G)
    ELSE IF x.w = y.w THEN ZeroOf(x.G, x.s) ELSE IF x.w < y.w THEN x
    ELSE Pack(x.G, x.s, r[1], Norm(y)[2])
fmod(x, y) == Fmod(x, y, Divide(Norm(x)[1], Norm(y)[1], Norm(x)[2] - Norm(y)[2], 0))
fmodf(x, y) == fmod(x, y)
fmodl(x, y) == Fmod(x, y, Dividel(x.G, Norm(x)[1], Norm(y)[1], Norm(x)[2] - Norm(y)[2], 0))
\* <<remainder, low bits of the quotient>>; r: <<rest, quotient>> of the division.
Nearer(x, y, m, e, q) ==
    LET a == Pack(x.G, FALSE, m, e)
        ex == IF m = 0 THEN -60 ELSE PackExp(x.G, m, e)
        b == Magnitude(y)
        twice == RoundedSum(a, a, "near")
        up == \/ ex = Norm(y)[2]
              \/ ex + 1 = Norm(y)[2] /\ (Lt(b, twice) \/ (Eq(twice, b) /\ q % 2 = 1))
        v == IF up THEN RoundedDifference(a, b, "near") ELSE a
        n == (IF up THEN q + 1 ELSE q) % 2^(QuoBits - 1)
    IN  <<IF x.s THEN Neg(v) ELSE v, IF x.s # y.s THEN -n ELSE n>>
Remquo(x, y, r, far) ==
    LET nx == Norm(x) ny == Norm(y)
    IN  IF NoRemainder(x, y) THEN <<NanOf(x.G), 0>>
        ELSE IF IsNull(x) THEN <<x, 0>>
        ELSE IF nx[2] >= ny[2] THEN Nearer(x, y, r[1], ny[2], r[2])
        ELSE IF nx[2] + 1 # ny[2] /\ far THEN <<x, 0>>
        ELSE Nearer(x, y, nx[1], nx[2], 0)
remquo(x, y) == Remquo(x, y, Divide(Norm(x)[1], Norm(y)[1], Norm(x)[2] - Norm(y)[2], 0), TRUE)
remquof(x, y) == remquo(x, y)
remquol(x, y) ==
    Remquo(x, y, Dividel(x.G, Norm(x)[1], Norm(y)[1], Norm(x)[2] - Norm(y)[2], 0), FALSE)
remainder(x, y) == remquo(x, y)[1]
remainderl(x, y) == remquol(x, y)[1]

------------------------------------------------------------------------------
(* Fused multiplication. *)
W(G) == G.M + 5                \* bits of a word; twice the mantissa must not fit
\* A number as m * 2^e with one bit below the mantissa; zero has the largest e.
ZEROINFNAN(G) == EMax(G) - ExpBias(G) - G.M - 1
normalize(x) ==
    LET n == Norm(x)
    IN  IF IsNull(x) THEN [m |-> 0, e |-> ZEROINFNAN(x.G) + 1]
        ELSE [m |-> 2 * n[1], e |-> n[2] - (ExpBias(x.G) + x.G.M + 1)]
StickyLost(n, d) == n \div 2^d
Sticky(n, d) == LET q == n \div 2^d IN IF n % 2^d # 0 /\ q % 2 = 0 THEN q + 1 ELSE q
\* Both terms on one exponent, in two words; what is shifted out leaves a 1.
Align(G, p, e, z) ==
    LET d == z.e - e
        w == W(G)
    IN  IF d > 0
        THEN IF d < w THEN [r |-> p, z |-> z.m * 2^d, e |-> e]
             ELSE [r |-> IF d - w < w THEN Sticky(p, d - w) ELSE 1,
                   z |-> z.m * 2^w, e |-> z.e - w]
        ELSE [r |-> p, z |-> IF -d < w THEN Sticky(z.m, -d) ELSE 1, e |-> e]
\* The W - 1 leading bits of n, and the exponent of their last.
Bits(n) == Min({i \in 0..30 : n < 2^i})
Lead(G, n, e) ==
    LET w == W(G)
        hi == n \div 2^w
        d == w - Bits(hi) - 1
        l == w - Bits(n) - 1
    IN  IF hi # 0 THEN <<Sticky(n, w - d), e + w - d>>
        ELSE IF l < 0 THEN <<Sticky(n, 1), e - l>> ELSE <<n * 2^l, e - l>>
FromInt(G, neg, i, rm) == Round(G, neg, i * UnitsOfOne(G), 0, rm)
fma(x, y, z, rm) ==
    LET G == x.G
        nx == normalize(x) ny == normalize(y) nz == normalize(z)
        a == Align(G, nx.m * ny.m, nx.e + ny.e, nz)
        neg == x.s # y.s
        sum == IF neg = z.s THEN a.r + a.z ELSE a.r - a.z
        sign == IF sum < 0 THEN ~neg ELSE neg
        l == Lead(G, IF sum < 0 THEN -sum ELSE sum, a.e)
        i == l[1]
        e == l[2]
        r == FromInt(G, sign, i, rm)
        c == FromInt(G, sign, 2^(W(G) - 1), rm)
        least == 1 - ExpBias(G)
        h == FromInt(G, sign, Sticky(i, 1) + 2^(W(G) - 2), rm)
    IN  IF nx.e >= ZEROINFNAN(G) \/ ny.e >= ZEROINFNAN(G) THEN RoundedSum(RoundedProduct(x, y, rm), z, rm)
        ELSE IF nz.e >= ZEROINFNAN(G) THEN IF IsNull(z) THEN RoundedProduct(x, y, rm) ELSE z
        ELSE IF sum = 0 THEN RoundedSum(RoundedProduct(x, y, rm), z, rm)
        ELSE IF e >= least - (W(G) - 2) THEN scalbn(r, e, rm)
        ELSE IF e = least - (W(G) - 1)
        THEN IF r = c THEN F(G, sign, 2^G.M)
             ELSE scalbn(IF i % 2^(W(G) - G.M - 1) # 0 THEN RoundedDifference(RoundedSum(h, h, rm), c, rm) ELSE r, e, rm)
        ELSE LET d == W(G) - G.M - 2
             IN  scalbn(FromInt(G, sign, Sticky(i, d) * 2^d, rm), e, rm)

\* fmaf computes in double, which holds x * y exactly: integers in units of the
\* product, rounded to P bits, of which Low are below the last bit of a float.
P(G) == 2 * G.M + 4
Low(G) == P(G) - (G.M + 1)
ToDouble(G, n, rm) ==
    LET a == IF n < 0 THEN -n ELSE n
        b == IF Bits(a) > P(G) THEN 2^(Bits(a) - P(G)) ELSE 1
        low == a % b
        up == CASE rm = "near" -> 2 * low > b \/ (2 * low = b /\ (a \div b) % 2 = 1)
                [] rm = "up" -> n > 0 /\ low > 0 [] rm = "down" -> n < 0 /\ low > 0
                [] OTHER -> FALSE
        r == (a \div b + (IF up THEN 1 ELSE 0)) * b
    IN  IF n < 0 THEN -r ELSE r
ToFloat(G, n, rm) == RoundInt(G, n, G.M + ExpBias(G) - 1, rm)
fmaf(x, y, z, rm) ==
    LET G == x.G
        p == Mag(x) * Mag(y)
        xy == IF x.s # y.s THEN -p ELSE p
        zz == Value(z) * 2^(G.M + ExpBias(G) - 1)
        result == ToDouble(G, xy + zz, rm)
        a == IF result < 0 THEN -result ELSE result
        last == 2^(Bits(a) - P(G))
        halfway == Bits(a) >= P(G) /\ (a \div last) % 2^Low(G) = 2^(Low(G) - 1)
        err == xy + zz - result
        neg == result < 0
        bump == IF neg = (err < 0) THEN a + last ELSE a - last
    IN  IF ~Finite(x) \/ ~Finite(y) \/ ~Finite(z) \/ xy + zz = 0
        THEN RoundedSum(RoundedProduct(x, y, rm), z, rm)
        ELSE IF ~halfway \/ err = 0 \/ rm # "near" THEN ToFloat(G, result, rm)
        ELSE ToFloat(G, IF neg THEN -bump ELSE bump, rm)

------------------------------------------------------------------------------
(* What the functions shall return. *)
Modes == {"near", "up", "down", "zero"}
\* n units as a multiple of one.
ToMultiple(n, one, rm) ==
    LET q == n \div one
        low == n % one
        up == CASE rm = "near" -> 2 * low > one \/ (2 * low = one /\ q % 2 = 1)
                [] rm = "up" -> low > 0 [] rm = "down" -> FALSE
                [] rm = "zero" -> n < 0 /\ low > 0
                [] OTHER -> 2 * low > one \/ (2 * low = one /\ n > 0)   \* away from zero
    IN  (IF up THEN q + 1 ELSE q) * one
IsRounded(r, x, rm) ==
    IF Finite(x) THEN Value(r) = ToMultiple(Value(x), UnitsOfOne(x.G), rm) /\ r.s = x.s
    ELSE r = x
IsSplit(r, x) ==
    IF IsNotNumber(x) THEN IsNotNumber(r[1]) /\ IsNotNumber(r[2])
    ELSE /\ IsRounded(r[2], x, "zero") /\ r[1].s = x.s
         /\ Value(r[1]) = IF Finite(x) THEN Value(x) - Value(r[2]) ELSE 0
ToIntegerRight(x, rm) ==
    /\ \A r \in {floor(x, rm), floorl(x, rm), floorf(x)} : IsRounded(r, x, "down")
    /\ \A r \in {ceil(x, rm), ceill(x, rm), ceilf(x)} : IsRounded(r, x, "up")
    /\ \A r \in {trunc(x), truncf(x), truncl(x, rm)} : IsRounded(r, x, "zero")
    /\ \A r \in {round(x, rm), roundf(x, rm), roundl(x, rm)} : IsRounded(r, x, "away")
    /\ \A r \in {rint(x, rm), rintf(x, rm), rintl(x, rm)} : IsRounded(r, x, rm)
    /\ \A r \in {modf(x, rm), modff(x, rm), modfl(x, rm)} : IsSplit(r, x)
\* f * 2^e = x with 1/2 <= |f| < 1, and e - 1 is the binary logarithm.
PartsRight(x) ==
    IF IsNull(x) THEN frexp(x) = <<x, 0>> /\ ilogb(x) = "FP_ILOGB0" /\ IsInfinite(logb(x))
    ELSE IF ~Finite(x) THEN frexp(x)[1] = x /\ ilogb(x) \in {"INT_MAX", "FP_ILOGBNAN"}
    ELSE LET f == frexp(x)[1]
             e == frexp(x)[2]
         IN  /\ f.s = x.s /\ 2 * Mag(f) >= UnitsOfOne(x.G) /\ Mag(f) < UnitsOfOne(x.G)
             /\ IF e >= 0 THEN Mag(f) * 2^e = Mag(x) ELSE Mag(x) * 2^(-e) = Mag(f)
             /\ ilogb(x) = e - 1 /\ logb(x) = e - 1
\* scalbn rounds once, in however many steps it multiplies.
ScaleRight(x, n, rm) == scalbn(x, n, rm) = Times2(x, n, rm)
Between(x, y, z) == (Value(x) < Value(z) /\ Value(z) < Value(y))
                    \/ (Value(y) < Value(z) /\ Value(z) < Value(x))
NeighbourRight(x, y) ==
    \A r \in {nextafter(x, y), NextToward(x, y)} :
        IF IsNotNumber(x) \/ IsNotNumber(y) THEN IsNotNumber(r)
        ELSE IF Eq(x, y) THEN r = y
        ELSE /\ r # x /\ (Eq(r, y) \/ Between(x, y, r))
             /\ \A w \in 0 .. InfWord(x.G), s \in BOOLEAN : ~Between(x, r, F(x.G, s, w))
             /\ IsNull(r) => r.s = x.s
ExtremesRight(x, y) ==
    LET hi == fmax(x, y)
        lo == fmin(x, y)
        d == fdim(x, y, "near")
    IN  IF IsNotNumber(x) \/ IsNotNumber(y)
        THEN hi = lo /\ hi = (IF IsNotNumber(x) THEN y ELSE x) /\ IsNotNumber(d)
        ELSE /\ {hi, lo} = {x, y} /\ Value(lo) <= Value(hi) /\ (hi.s => lo.s)
             /\ d = IF Lt(y, x) THEN RoundedDifference(x, y, "near") ELSE ZeroOf(x.G, FALSE)
\* x - n y for the integer n nearest to x / y (towards zero for fmod).
RemainderRight(x, y) ==
    LET n == ToMultiple(Mag(x), Mag(y), "near") \div Mag(y)
        bits(q) == q % 2^(QuoBits - 1)
        sized(q) == IF x.s # y.s THEN -bits(q) ELSE bits(q)
        r == IF x.s THEN n * Mag(y) - Mag(x) ELSE Mag(x) - n * Mag(y)
    IN  IF NoRemainder(x, y)
        THEN \A v \in {fmod(x, y), fmodl(x, y), remquo(x, y)[1], remquol(x, y)[1]} : IsNotNumber(v)
        ELSE /\ \A v \in {fmod(x, y), fmodl(x, y)} :
                   v.s = x.s /\ (IF IsInfinite(y) THEN v = x ELSE Mag(v) = Mag(x) % Mag(y))
             /\ \A v \in {remquo(x, y), remquol(x, y)} :
                   IF IsInfinite(y) THEN v = <<x, 0>>
                   ELSE Value(v[1]) = r /\ v[2] = sized(n) /\ (r = 0 => v[1].s = x.s)
\* x * y + z, rounded once.
Fused(x, y, z, rm) ==
    LET p == Mag(x) * Mag(y)
        k == x.G.M + ExpBias(x.G) - 1
        n == (IF x.s # y.s THEN -p ELSE p) + Value(z) * 2^k
    IN  IF ~Finite(x) \/ ~Finite(y) \/ ~Finite(z) \/ n = 0 THEN RoundedSum(RoundedProduct(x, y, rm), z, rm)
        ELSE RoundInt(x.G, n, k, rm)
FmaRight(x, y, z, rm) == fma(x, y, z, rm) = Fused(x, y, z, rm)
\* fmaf looks for results halfway between two floats of normal size only: to the nearest, a
\* subnormal result whose exact value no double holds is rounded twice, and may be its neighbour.
FmafDeparts(x, y, z, rm) ==
    LET k == x.G.M + ExpBias(x.G) - 1
        p == Mag(x) * Mag(y)
        n == (IF x.s # y.s THEN -p ELSE p) + Value(z) * 2^k
    IN  /\ rm = "near" /\ Finite(x) /\ Finite(y) /\ Finite(z) /\ ToDouble(x.G, n, rm) # n
        /\ Ex(Fused(x, y, z, rm)) = 0
FmafRight(x, y, z, rm) ==
    LET f == Fused(x, y, z, rm)
        g == fmaf(x, y, z, rm)
    IN  g = f \/ (FmafDeparts(x, y, z, rm) /\ g.s = f.s /\ Mag(g) - Mag(f) \in {-1, 1})
=============================================================================
