------------------------------ MODULE Calendar ------------------------------
(***************************************************************************)
(* Times, dates and time zones: src/time (__secs_to_tm, __tm_to_secs,      *)
(* __tz.c, mktime, localtime, strftime, strptime, getdate).                *)
(*                                                                         *)
(* The calendar is the real one.  An hour has two minutes of two seconds,  *)
(* and an int of years ends at INT_MAX, so that times fit into TLC's       *)
(* integers.  Text is a sequence of characters; the names of days and      *)
(* months are short, a full name continuing the abbreviation.              *)
(***************************************************************************)
EXTENDS Integers, Sequences, FiniteSetsExt, SequencesExt, TLC

MINUTE == 2
HOUR == 2 * MINUTE
DAY == 24 * HOUR
INT_MAX == 34000
INT_MIN == -INT_MAX - 1
\* Division in C truncates.
Quot(a, b) == IF a >= 0 THEN a \div b ELSE -((-a) \div b)
Rem(a, b) == a - b * Quot(a, b)

-----------------------------------------------------------------------------
(***************************************************************************)
(* Seconds and broken-down times.  A year counts from 1900, a month from 0.*)
(***************************************************************************)
LEAPOCH == 11017 * DAY                   \* 1 March 2000
DAYS_PER_400Y == 365 * 400 + 97
DAYS_PER_100Y == 365 * 100 + 24
DAYS_PER_4Y == 365 * 4 + 1
days_in_month == <<31, 30, 31, 30, 31, 31, 30, 31, 30, 31, 31, 29>>
Error == [k |-> "EOVERFLOW"]
Month(rem) == Max({m \in 0..11 : FoldLeft(+, 0, SubSeq(days_in_month, 1, m)) <= rem})

secs_to_tm(t) ==
    LET secs == t - LEAPOCH
        neg == Rem(secs, DAY) < 0
        remsecs == IF neg THEN Rem(secs, DAY) + DAY ELSE Rem(secs, DAY)
        days == IF neg THEN Quot(secs, DAY) - 1 ELSE Quot(secs, DAY)
        wday == Rem(3 + days, 7)
        before == Rem(days, DAYS_PER_400Y) < 0
        d400 == IF before THEN Rem(days, DAYS_PER_400Y) + DAYS_PER_400Y ELSE Rem(days, DAYS_PER_400Y)
        qc_cycles == IF before THEN Quot(days, DAYS_PER_400Y) - 1 ELSE Quot(days, DAYS_PER_400Y)
        c_cycles == Min({3, d400 \div DAYS_PER_100Y})
        d100 == d400 - c_cycles * DAYS_PER_100Y
        q_cycles == Min({24, d100 \div DAYS_PER_4Y})
        d4 == d100 - q_cycles * DAYS_PER_4Y
        remyears == Min({3, d4 \div 365})
        remdays == d4 - remyears * 365
        leap == IF remyears = 0 /\ (q_cycles # 0 \/ c_cycles = 0) THEN 1 ELSE 0
        yday == remdays + 31 + 28 + leap
        months == Month(remdays)
        years == remyears + 4 * q_cycles + 100 * c_cycles + 400 * qc_cycles + (IF months >= 10 THEN 1 ELSE 0)
    IN  IF \/ t < INT_MIN * 366 * DAY \/ t > INT_MAX * 366 * DAY
           \/ years + 100 > INT_MAX \/ years + 100 < INT_MIN
        THEN Error
        ELSE [k |-> "tm", year |-> years + 100, mon |-> (IF months >= 10 THEN months - 12 ELSE months) + 2,
              mday |-> remdays - FoldLeft(+, 0, SubSeq(days_in_month, 1, months)) + 1,
              wday |-> IF wday < 0 THEN wday + 7 ELSE wday,
              yday |-> IF yday >= 365 + leap THEN yday - 365 - leap ELSE yday,
              hour |-> remsecs \div HOUR, min |-> (remsecs \div MINUTE) % 2, sec |-> remsecs % MINUTE]

\* The seconds to the start of a year, and whether it is a leap year.
year_to_secs(year) ==
    IF year \in 2..138
    THEN LET leap == IF (year - 68) % 4 = 0 THEN 1 ELSE 0
         IN  [t |-> 365 * DAY * (year - 70) + DAY * ((year - 68) \div 4 - leap), leap |-> leap]
    ELSE LET rem0 == Rem(year - 100, 400)
             cycles == IF rem0 < 0 THEN Quot(year - 100, 400) - 1 ELSE Quot(year - 100, 400)
             rem == IF rem0 < 0 THEN rem0 + 400 ELSE rem0
             centuries == rem \div 100
             in == rem % 100
             leap == IF rem = 0 \/ (in # 0 /\ in % 4 = 0) THEN 1 ELSE 0
             leaps == in \div 4 + 97 * cycles + 24 * centuries - leap
         IN  [t |-> (year - 100) * 365 * DAY + leaps * DAY + 10957 * DAY + DAY, leap |-> leap]
secs_through_month == <<0, 31, 59, 90, 120, 151, 181, 212, 243, 273, 304, 334>>
month_to_secs(month, leap) == DAY * (secs_through_month[month + 1] + (IF leap = 1 /\ month >= 2 THEN 1 ELSE 0))
tm_to_secs(tm) ==
    LET adj == tm.mon \div 12
        y == year_to_secs(tm.year + adj)
    IN  y.t + month_to_secs(tm.mon % 12, y.leap) + DAY * (tm.mday - 1) + HOUR * tm.hour + MINUTE * tm.min + tm.sec

-----------------------------------------------------------------------------
(***************************************************************************)
(* The TZ variable.  A parser returns what it read and the rest of s.      *)
(***************************************************************************)
Digit(c) == c \in {"0", "1", "2", "3", "4", "5", "6", "7", "8", "9"}
Value(c) == CHOOSE d \in 0..9 : ToString(d) = c
Letters == {"A", "B", "C", "U", "T", "G", "M", "S", "J", "P"}
At(s, i) == IF i <= Len(s) THEN s[i] ELSE "NUL"
From(s, i) == SubSeq(s, i, Len(s))
Upto(s, n) == SubSeq(s, 1, Min({n, Len(s)}))
\* How many characters at the start of s satisfy Is.
Span(s, Is(_)) == Max({n \in 0..Len(s) : \A i \in 1..n : Is(s[i])})

getint(s) ==
    LET n == Span(s, Digit) IN [v |-> FoldLeft(LAMBDA x, c : 10 * x + Value(c), 0, SubSeq(s, 1, n)), s |-> From(s, n + 1)]
getoff(s) ==
    LET h == getint(IF At(s, 1) \in {"-", "+"} THEN Tail(s) ELSE s)
        m == IF At(h.s, 1) = ":" THEN getint(Tail(h.s)) ELSE [v |-> 0, s |-> h.s]
        x == IF At(h.s, 1) = ":" /\ At(m.s, 1) = ":" THEN getint(Tail(m.s)) ELSE [v |-> 0, s |-> m.s]
        off == HOUR * h.v + MINUTE * m.v + x.v
    IN  [v |-> IF At(s, 1) = "-" THEN -off ELSE off, s |-> x.s]
NoRule == [k |-> "n", a |-> 0, b |-> 0, c |-> 0, at |-> 0]
getrule(s) ==
    LET k == IF At(s, 1) \in {"M", "J"} THEN s[1] ELSE "n"
        a == getint(IF k = "n" THEN s ELSE Tail(s))
        b == getint(From(a.s, 2))
        c == getint(From(b.s, 2))
        rest == IF k = "M" THEN c.s ELSE a.s
        off == IF At(rest, 1) = "/" THEN getoff(Tail(rest)) ELSE [v |-> 2 * HOUR, s |-> rest]
    IN  [v |-> [k |-> k, a |-> a.v, b |-> IF k = "M" THEN b.v ELSE 0, c |-> IF k = "M" THEN c.v ELSE 0, at |-> off.v],
         s |-> off.s]
\* A name goes into a buffer of the given capacity, which malloc may replace by a larger one.
TZNAME_MAX == 4
getname(cap, s, oom) ==
    LET quoted == At(s, 1) = "<"
        n == IF quoted THEN Span(Tail(s), LAMBDA c : c # ">") ELSE Span(s, LAMBDA c : c \in Letters)
        name == IF quoted THEN SubSeq(s, 2, n + 1) ELSE SubSeq(s, 1, n)
        room == IF n + 1 > cap /\ ~oom THEN n + 1 ELSE cap
    IN  [name |-> Upto(name, room - 1), cap |-> room, s |-> IF quoted THEN From(s, n + 3) ELSE From(s, n + 1)]

(***************************************************************************)
(* What __tz.c keeps between calls: the value last parsed, the mapped file,*)
(* the two name buffers and the zone.  A zone name is a pointer: <<"utc">>,*)
(* <<"std", capacity>>, <<"dst", capacity>>, or into the mapped file.      *)
(***************************************************************************)
UTC == <<"U", "T", "C">>
GMT == <<"G", "M", "T">>
Localtime == <<"/", "e", "l">>
search == <<<<"/", "u">>, <<"/", "s">>, <<"/", "e">>>>
Start == [old |-> <<>>, oldcap |-> 6, zi |-> <<>>,
          std |-> [name |-> <<>>, cap |-> TZNAME_MAX + 1], dst |-> [name |-> <<>>, cap |-> TZNAME_MAX + 1],
          tzname |-> <<<<"null">>, <<"null">>>>, timezone |-> 0, daylight |-> FALSE, dst_off |-> 0,
          r0 |-> NoRule, r1 |-> NoRule]

\* e: the environment of a call.  e.files maps the paths that exist to a time zone file
\* [trans, index, types, footer], types being [off, dst, abbr], or to "bad"; e.oom names
\* the allocations that fail.
Exists(e, path) == path \in DOMAIN e.files
map_file(e, s) ==
    LET path == IF At(s, 1) = ":" THEN Tail(s) ELSE s
        tries == IF "path" \in e.oom \/ Contains(path, ".") THEN <<>>
                 ELSE SelectSeq([d \in 1..3 |-> search[d] \o path], LAMBDA p : Exists(e, p))
    IN  IF At(path, 1) \in {"/", "."}
        THEN IF Exists(e, path) /\ (~e.secure \/ path = Localtime) THEN path ELSE <<>>
        ELSE IF tries = <<>> THEN <<>> ELSE tries[1]
posix_form(e, s) ==
    LET name == getname(TZNAME_MAX + 1, s, "dummy" \in e.oom)
    IN  /\ s[1] # ":"
        /\ name.s # s
        /\ At(name.s, 1) \in {"+", "-"} \/ Digit(At(name.s, 1)) \/ name.name \in {UTC, GMT}

\* A file without a footer: the first standard and the first daylight type.
FromTypes(st, f) ==
    LET first(d) == {i \in DOMAIN f.types : f.types[i].dst = d /\ \A j \in 1..(i - 1) : f.types[j].dst # d}
        type(d) == f.types[CHOOSE i \in first(d) : TRUE]
        ptr(d) == <<"abbr", st.zi, CHOOSE i \in first(d) : TRUE>>
        t0 == IF first(FALSE) # {} THEN ptr(FALSE) ELSE IF first(TRUE) # {} THEN ptr(TRUE) ELSE <<"utc">>
        off == IF first(FALSE) # {} THEN -type(FALSE).off ELSE 0
        daylight == first(TRUE) # {}
    IN  [st EXCEPT !.daylight = daylight, !.timezone = off,
                   !.dst_off = IF daylight THEN -type(TRUE).off ELSE off,
                   !.tzname = <<t0, IF daylight THEN ptr(TRUE) ELSE t0>>]
\* The POSIX form: name, offset, name, offset and two rules.
FromString(st, str, oom) ==
    LET std == getname(st.std.cap, str, "std" \in oom)
        off == getoff(std.s)
        dst == getname(st.dst.cap, off.s, "dst" \in oom)
        daylight == dst.name # <<>>
        given == daylight /\ (At(dst.s, 1) \in {"+", "-"} \/ Digit(At(dst.s, 1)))
        dstoff == IF given THEN getoff(dst.s)
                  ELSE [v |-> IF daylight THEN off.v - HOUR ELSE off.v, s |-> dst.s]
        rule(s) == IF At(s, 1) = "," THEN getrule(Tail(s)) ELSE [v |-> NoRule, s |-> s]
        r0 == rule(dstoff.s)
    IN  [st EXCEPT !.std = [name |-> std.name, cap |-> std.cap], !.dst = [name |-> dst.name, cap |-> dst.cap],
                   !.tzname = <<<<"std", std.cap>>, <<"dst", dst.cap>>>>, !.timezone = off.v,
                   !.daylight = daylight, !.dst_off = dstoff.v, !.r0 = r0.v, !.r1 = rule(r0.s).v]
do_tzset(st, e) ==
    LET s == IF ~e.set THEN Localtime ELSE IF e.tz = <<>> THEN UTC ELSE e.tz
        cap == IF Len(s) >= st.oldcap /\ "old" \notin e.oom THEN Len(s) + 1 ELSE st.oldcap
        path == IF posix_form(e, s) THEN <<>> ELSE map_file(e, s)
        zi == IF path # <<>> /\ e.files[path].good THEN path ELSE <<>>
        new == [st EXCEPT !.old = IF Len(s) < cap THEN s ELSE <<>>, !.oldcap = cap, !.zi = zi,
                          !.r0 = NoRule, !.r1 = NoRule]
    IN  IF s = st.old THEN st
        ELSE IF zi = <<>> THEN FromString(new, IF posix_form(e, s) THEN s ELSE UTC, e.oom)
        ELSE IF e.files[zi].footer = <<>> THEN FromTypes(new, e.files[zi])
        ELSE FromString(new, e.files[zi].footer[1], e.oom)

\* The type in force at t by the file's transitions, and the one a caller with the opposite
\* tm_isdst means; -1 after the last transition.
NoType == -1
RECURSIVE Bisect(_, _, _, _, _)
Bisect(f, t, local, a, n) ==
    LET m == a + n \div 2
        off == IF local THEN f.types[f.index[m] + 1].off ELSE 0
    IN  IF n <= 1 THEN a
        ELSE IF t - off < f.trans[m + 1] THEN Bisect(f, t, local, a, n \div 2)
        ELSE Bisect(f, t, local, m, n - n \div 2)
scan_trans(f, t, local) ==
    LET n == Len(f.trans)
        a == Bisect(f, t, local, 0, n)
        std == {i \in DOMAIN f.types : ~f.types[i].dst}
        j == IF std = {} THEN 1 ELSE Min(std)
        off == IF local THEN f.types[j].off ELSE 0
        dst(i) == f.types[f.index[i] + 1].dst
        alt == IF a # 0 /\ dst(a) # dst(a + 1) THEN a
               ELSE IF a + 1 < n /\ dst(a + 2) # dst(a + 1) THEN a + 2 ELSE a + 1
    IN  IF n = 0 THEN [type |-> 0, alt |-> 0]
        ELSE IF a = n - 1 THEN [type |-> NoType, alt |-> NoType]
        ELSE IF a = 0 /\ t - off < f.trans[1] THEN [type |-> j - 1, alt |-> f.index[1]]
        ELSE [type |-> f.index[a + 1], alt |-> f.index[alt]]

days_in(m, leap) == IF m = 2 THEN 28 + leap ELSE IF m \in {4, 6, 9, 11} THEN 30 ELSE 31
rule_to_secs(rule, year) ==
    LET y == year_to_secs(year)
        x == IF rule.k = "J" /\ (rule.a < 60 \/ y.leap = 0) THEN rule.a - 1 ELSE rule.a
        t == y.t + month_to_secs(rule.a - 1, y.leap)
        wday == Quot(Rem(t + 4 * DAY, 7 * DAY), DAY)
        days == IF rule.c - wday < 0 THEN rule.c - wday + 7 ELSE rule.c - wday
        n == IF rule.b = 5 /\ days + 28 >= days_in(rule.a, y.leap) THEN 4 ELSE rule.b
    IN  rule.at + (IF rule.k = "M" THEN t + DAY * (days + 7 * (n - 1)) ELSE y.t + DAY * x)
YEAR == 35063                            \* an average year
RECURSIVE YearOf(_, _)
YearOf(y, t) == IF year_to_secs(y).t > t THEN YearOf(y - 1, t)
                ELSE IF year_to_secs(y + 1).t < t THEN YearOf(y + 1, t) ELSE y
secs_to_zone(st, files, t, local) ==
    LET f == files[st.zi]
        scan == scan_trans(f, t, local)
        byFile == st.zi # <<>> /\ scan.type # NoType
        y == YearOf(Quot(t, YEAR) + 70, t)
        t0 == rule_to_secs(st.r0, y) + (IF local THEN 0 ELSE st.timezone)
        t1 == rule_to_secs(st.r1, y) + (IF local THEN 0 ELSE st.dst_off)
        dst == st.daylight /\ IF t0 < t1 THEN t >= t0 /\ t < t1 ELSE ~(t >= t1 /\ t < t0)
    IN  IF byFile
        THEN [isdst |-> IF f.types[scan.type + 1].dst THEN 1 ELSE 0, off |-> f.types[scan.type + 1].off,
              opp |-> f.types[scan.alt + 1].off, zone |-> <<"abbr", st.zi, scan.type + 1>>]
        ELSE IF dst THEN [isdst |-> 1, off |-> -st.dst_off, opp |-> -st.timezone, zone |-> st.tzname[2]]
        ELSE [isdst |-> 0, off |-> -st.timezone, opp |-> -st.dst_off, zone |-> st.tzname[1]]
tm_to_tzname(st, tm) ==
    IF tm.zone \in {<<"utc">>, st.tzname[1], st.tzname[2]} \/ (st.zi # <<>> /\ tm.zone[1] = "abbr" /\ tm.zone[2] = st.zi)
    THEN tm.zone ELSE <<"">>
NameAt(st, files, p) == CASE p[1] = "utc" -> UTC
                          [] p[1] = "std" -> st.std.name
                          [] p[1] = "dst" -> st.dst.name
                          [] p[1] = "abbr" -> files[p[2]].types[p[3]].abbr
                          [] OTHER -> <<>>

In(tm, z) == IF tm = Error THEN Error ELSE tm @@ [isdst |-> z.isdst, off |-> z.off, zone |-> z.zone]
Utc == [isdst |-> 0, off |-> 0, zone |-> <<"utc">>]
gmtime_r(t) == In(secs_to_tm(t), Utc)
timegm(tm) == [t |-> tm_to_secs(tm), tm |-> gmtime_r(tm_to_secs(tm))]
localtime_r(st, files, t) ==
    LET z == secs_to_zone(st, files, t, FALSE)
    IN  IF t < INT_MIN * 366 * DAY \/ t > INT_MAX * 366 * DAY THEN Error ELSE In(secs_to_tm(t + z.off), z)
\* Mutant: the rules are applied to the local reading as if it were a time.
mktimeNotLocal(st, files, tm) ==
    LET local == tm_to_secs(tm)
        z == secs_to_zone(st, files, local, FALSE)
        t == local - (IF tm.isdst >= 0 /\ z.isdst # tm.isdst THEN z.opp ELSE z.off)
        new == secs_to_zone(st, files, t, FALSE)
    IN  [t |-> t, tm |-> In(secs_to_tm(t + new.off), new)]
mktime(st, files, tm) ==
    LET local == tm_to_secs(tm)
        z == secs_to_zone(st, files, local, TRUE)
        t == local - (IF tm.isdst >= 0 /\ z.isdst # tm.isdst THEN z.opp ELSE z.off)
        new == secs_to_zone(st, files, t, FALSE)
    IN  [t |-> t, tm |-> In(secs_to_tm(t + new.off), new)]

-----------------------------------------------------------------------------
(***************************************************************************)
(* strftime and wcsftime.  A character is a token; the abbreviated name of *)
(* a day or a month is one token, and its full name adds a second one.     *)
(***************************************************************************)
RECURSIVE Dec(_)
Dec(n) == IF n < 0 THEN <<"-">> \o Dec(-n)
          ELSE IF n < 10 THEN <<ToString(n)>> ELSE Dec(n \div 10) \o <<ToString(n % 10)>>
Days == <<"Sun", "Mon", "Tue", "Wed", "Thu", "Fri", "Sat">>
Months == <<"Jan", "Feb", "Mar", "Apr", "May", "Jun", "Jul", "Aug", "Sep", "Oct", "Nov", "Dec">>
ABDAY(i) == <<Days[i + 1]>>
LONGDAY(i) == <<Days[i + 1], "day">>
ABMON(i) == <<Months[i + 1]>>
LONGMON(i) == IF i = 4 THEN <<"May">> ELSE <<Months[i + 1], "month">>
langinfo(item) == CASE item = "c" -> <<"%", "a", " ", "%", "b", " ", "%", "e", " ", "%", "T", " ", "%", "Y">>
                    [] item \in {"x", "D"} -> <<"%", "m", "/", "%", "d", "/", "%", "y">>
                    [] item \in {"X", "T"} -> <<"%", "H", ":", "%", "M", ":", "%", "S">>
                    [] item = "r" -> <<"%", "I", ":", "%", "M", ":", "%", "S", " ", "%", "p">>
                    [] item = "F" -> <<"%", "Y", "-", "%", "m", "-", "%", "d">>
                    [] item = "R" -> <<"%", "H", ":", "%", "M">>
AMPM(pm) == IF pm THEN <<"PM">> ELSE <<"AM">>

is_leap(y) == LET Y == (IF y > INT_MAX - 1900 THEN y - 2000 ELSE y) + 1900
              IN  Rem(Y, 4) = 0 /\ (Rem(Y, 100) # 0 \/ Rem(Y, 400) = 0)
week_num(tm) ==
    LET week == (tm.yday + 7 - ((tm.wday + 6) % 7)) \div 7
        val == IF (tm.wday + 371 - tm.yday - 2) % 7 <= 2 THEN week + 1 ELSE week
        dec31 == (tm.wday + 7 - tm.yday - 1) % 7
        jan1 == (tm.wday + 371 - tm.yday) % 7
    IN  CASE val = 0 -> IF dec31 = 4 \/ (dec31 = 5 /\ is_leap(Rem(tm.year, 400) - 1)) THEN 53 ELSE 52
          [] val = 53 -> IF jan1 # 4 /\ (jan1 # 3 \/ ~is_leap(tm.year)) THEN 1 ELSE 53
          [] OTHER -> val

Zeros(n) == [i \in 1..n |-> "0"]
\* snprintf with %lld, %*lld or %0*lld.
Number(val, pad, width) ==
    LET sign == IF val < 0 THEN <<"-">> ELSE <<>>
        digits == Dec(IF val < 0 THEN -val ELSE val)
        fill == Max({0, width - Len(sign) - Len(digits)})
    IN  CASE pad = "-" -> sign \o digits
          [] pad = "_" -> [i \in 1..fill |-> " "] \o sign \o digits
          [] OTHER -> sign \o Zeros(fill) \o digits
WeekYear(tm) == tm.year + 1900 + (IF tm.yday < 3 /\ week_num(tm) # 1 THEN -1
                                  ELSE IF tm.yday > 360 /\ week_num(tm) = 1 THEN 1 ELSE 0)
\* The numeric conversions: value and minimal width.
Numeric(f, tm) ==
    CASE f = "C" -> <<Quot(1900 + tm.year, 100), 2>>
      [] f \in {"d", "e"} -> <<tm.mday, 2>>
      [] f = "g" -> <<Rem(WeekYear(tm), 100), 2>>
      [] f = "G" -> <<WeekYear(tm), 4>>
      [] f = "H" -> <<tm.hour, 2>>
      [] f = "I" -> <<IF tm.hour = 0 THEN 12 ELSE IF tm.hour > 12 THEN tm.hour - 12 ELSE tm.hour, 2>>
      [] f = "j" -> <<tm.yday + 1, 3>>
      [] f = "m" -> <<tm.mon + 1, 2>>
      [] f = "M" -> <<tm.min, 2>>
      [] f = "s" -> <<tm_to_secs(tm) - tm.off, 1>>
      [] f = "S" -> <<tm.sec, 2>>
      [] f = "u" -> <<IF tm.wday = 0 THEN 7 ELSE tm.wday, 1>>
      [] f = "U" -> <<(tm.yday + 7 - tm.wday) \div 7, 2>>
      [] f = "W" -> <<(tm.yday + 7 - ((tm.wday + 6) % 7)) \div 7, 2>>
      [] f = "V" -> <<week_num(tm), 2>>
      [] f = "w" -> <<tm.wday, 1>>
      [] f = "y" -> LET val == Rem(tm.year + 1900, 100) IN <<IF val < 0 THEN -val ELSE val, 2>>
      [] f = "Y" -> <<tm.year + 1900, 4>>
Numerics == {"C", "d", "e", "g", "G", "H", "I", "j", "m", "M", "s", "S", "u", "U", "W", "V", "w", "y", "Y"}
Composite == {"c", "D", "F", "r", "R", "T", "x", "X"}

\* A conversion yields text, or fails.  zone is what %Z prints.
Fails == [k |-> "null"]
Yields(s) == [k |-> "text", s |-> s]
RECURSIVE strftime_fmt_1(_, _, _, _)
RECURSIVE strftime_l(_, _, _, _)
strftime_fmt_1(f, tm, zone, pad) ==
    LET off == Quot(tm.off, HOUR) * 100 + Quot(Rem(tm.off, HOUR), MINUTE)
        inner == strftime_l(100, langinfo(f), tm, zone)
    IN  CASE f \in {"a", "A"} -> Yields(IF tm.wday \notin 0..6 THEN <<"-">>
                                        ELSE IF f = "a" THEN ABDAY(tm.wday) ELSE LONGDAY(tm.wday))
          [] f \in {"b", "h", "B"} -> Yields(IF tm.mon \notin 0..11 THEN <<"-">>
                                             ELSE IF f = "B" THEN LONGMON(tm.mon) ELSE ABMON(tm.mon))
          [] f = "Y" /\ tm.year + 1900 >= 10000 -> Yields(<<"+">> \o Dec(tm.year + 1900))
          [] f \in Numerics -> Yields(Number(Numeric(f, tm)[1], IF pad # "" THEN pad ELSE IF f = "e" THEN "_" ELSE "0",
                                             Numeric(f, tm)[2]))
          [] f \in {"n", "t"} -> Yields(<<" ">>)
          [] f = "%" -> Yields(<<"%">>)
          [] f = "p" -> Yields(AMPM(tm.hour >= 12))
          [] f = "z" -> Yields(IF tm.isdst < 0 THEN <<>>
                               ELSE (IF off < 0 THEN <<"-">> ELSE <<"+">>)
                                    \o Number(IF off < 0 THEN -off ELSE off, "0", 4))
          [] f = "Z" -> Yields(IF tm.isdst < 0 THEN <<>> ELSE zone)
          [] f \in Composite -> IF inner.ret = 0 THEN Fails ELSE Yields(inner.s)
          [] OTHER -> Fails

\* One directive at f[1] = "%": its flags, width and letter, and the rest of the format.
\* strftime reads a width only at a digit; wcsftime lets wcstoul look for one.
Huge == 1000
strtoul(f, wide) ==
    LET blanks == IF wide THEN Span(f, LAMBDA c : c = " ") ELSE 0
        signed == wide /\ At(f, blanks + 1) \in {"+", "-"}
        num == getint(From(f, IF signed THEN blanks + 2 ELSE blanks + 1))
    IN  IF num.s = From(f, IF signed THEN blanks + 2 ELSE blanks + 1) THEN [v |-> 0, s |-> f]
        ELSE [v |-> IF signed /\ f[blanks + 1] = "-" /\ num.v # 0 THEN Huge ELSE num.v, s |-> num.s]
Directive(f, wide) ==
    LET pad == IF At(f, 2) \in {"-", "_", "0"} THEN f[2] ELSE ""
        f1 == From(f, IF pad = "" THEN 2 ELSE 3)
        plus == At(f1, 1) = "+"
        f2 == IF plus THEN Tail(f1) ELSE f1
        num == strtoul(f2, wide)
        f3 == IF At(num.s, 1) \in {"E", "O"} THEN Tail(num.s) ELSE num.s
    IN  [pad |-> pad, plus |-> plus, letter |-> At(f3, 1), rest |-> From(f3, 2), century |-> At(num.s, 1) = "C",
         width |-> IF At(num.s, 1) \notin {"C", "F", "G", "Y"} THEN 0
                   ELSE IF num.v = 0 /\ num.s # f2 THEN 1 ELSE num.v]
\* A width: the sign and the zeros of t go, and the directive's own sign and zeros come.
Signed(sign, digits, width) == sign \o Zeros(Max({0, width - Len(sign) - Len(digits)})) \o digits
Widened(d, t, year) ==
    LET unsigned == IF t # <<>> /\ t[1] \in {"+", "-"} THEN Tail(t) ELSE t
        zeros == Span(unsigned, LAMBDA c : c = "0")
        digits == From(unsigned, IF Digit(At(unsigned, zeros + 1)) THEN zeros + 1 ELSE Max({1, zeros}))
        width == Max({d.width, Len(digits)})
        long == Span(digits, Digit) + width - Len(digits) >= (IF d.century THEN 3 ELSE 5)
    IN  Signed(IF year < -1900 THEN <<"-">> ELSE IF d.plus /\ long THEN <<"+">> ELSE <<>>, digits, width)
WideWidened(d, t, year) ==
    LET drop == Max({n \in 0..Len(t) : \A i \in 1..n : t[i] \in {"+", "-"} \/ (t[i] = "0" /\ i < Len(t))})
    IN  Signed(IF d.plus /\ year >= 10000 - 1900 THEN <<"+">> ELSE IF year < -1900 THEN <<"-">> ELSE <<>>,
               From(t, drop + 1), d.width)

RECURSIVE Strftime(_, _, _, _, _, _)
Strftime(wide, n, f, tm, zone, s) ==
    LET d == Directive(f, wide)
        t == strftime_fmt_1(d.letter, tm, zone, d.pad)
        text == IF d.width = 0 THEN t.s ELSE IF wide THEN WideWidened(d, t.s, tm.year) ELSE Widened(d, t.s, tm.year)
        stop == [ret |-> 0, s |-> Upto(s, n - 1)]
    IN  IF Len(s) >= n THEN stop
        ELSE IF f = <<>> THEN [ret |-> Len(s), s |-> s]
        ELSE IF f[1] # "%" THEN Strftime(wide, n, Tail(f), tm, zone, Append(s, f[1]))
        ELSE IF t = Fails THEN stop
        ELSE Strftime(wide, n, d.rest, tm, zone, s \o Upto(text, n - Len(s)))
strftime_l(n, f, tm, zone) == Strftime(FALSE, n, f, tm, zone, <<>>)
wcsftime_l(n, f, tm, zone) == Strftime(TRUE, n, f, tm, zone, <<>>)

-----------------------------------------------------------------------------
(***************************************************************************)
(* strptime: s is the text left, tm the fields set so far.  None means a   *)
(* mismatch, which leaves the fields set before it in the caller's tm.     *)
(***************************************************************************)
Space(c) == c = " "
Match(s, name) == IsPrefix(name, s)
\* numeric_range reads as many digits as a number up to min + range may have.
Ranges == [d |-> <<"mday", 1, 31, 0>>, e |-> <<"mday", 1, 31, 0>>, H |-> <<"hour", 0, 24, 0>>, I |-> <<"hour", 1, 12, 0>>,
           j |-> <<"yday", 1, 366, 1>>, m |-> <<"mon", 1, 12, 1>>, M |-> <<"min", 0, 60, 0>>, S |-> <<"sec", 0, 61, 0>>,
           U |-> <<"dummy", 0, 54, 0>>, W |-> <<"dummy", 0, 54, 0>>, V |-> <<"dummy", 1, 53, 0>>,
           u |-> <<"wday", 1, 7, 0>>, w |-> <<"wday", 0, 7, 0>>]
Put(p, field, v) == IF field = "dummy" THEN p ELSE [p EXCEPT !.tm[field] = v]
Mismatch(p) == [p EXCEPT !.ok = FALSE]
Skip(p, n) == [p EXCEPT !.s = From(@, n + 1)]
DigitsAtMost(s, n) == Min({n, Span(s, Digit)})
ValueOf(s, n) == getint(Upto(s, n)).v
numeric_range(p, r) ==
    LET n == DigitsAtMost(p.s, IF r[2] + r[3] < 10 THEN 1 ELSE IF r[2] + r[3] < 100 THEN 2 ELSE 3)
        v == ValueOf(p.s, n)
    IN  IF n = 0 THEN Mismatch(p)
        ELSE IF v < r[2] \/ v >= r[2] + r[3] THEN Mismatch(Put(p, r[1], v))
        ELSE Skip(Put(p, r[1], v - r[4]), n)
\* numeric_digits: a sign and up to w digits.
numeric_digits(s, w) ==
    LET signed == At(s, 1) \in {"+", "-"}
        from == IF signed THEN Tail(s) ELSE s
        n == DigitsAtMost(from, w)
    IN  [ok |-> Digit(At(from, 1)), s |-> From(from, n + 1),
         v |-> IF At(s, 1) = "-" THEN -ValueOf(from, n) ELSE ValueOf(from, n)]
\* symbolic_range: the full names are tried before the abbreviated ones.
symbolic_range(p, field, range, Full(_), Short(_)) ==
    LET full == {i \in 0..(range - 1) : Match(p.s, Full(i))}
        short == {i \in 0..(range - 1) : Match(p.s, Short(i))}
    IN  IF full # {} THEN Skip(Put(p, field, Max(full)), Len(Full(Max(full))))
        ELSE IF short # {} THEN Skip(Put(p, field, Max(short)), Len(Short(Max(short))))
        ELSE Mismatch(p)
\* %z: the four digits are the hours and minutes east of Greenwich.
gmtoff(p) ==
    LET d(i) == Value(p.s[i]) IN
    IF At(p.s, 1) \notin {"+", "-"} \/ Span(From(p.s, 2), Digit) < 4 THEN Mismatch(p)
    ELSE Skip(Put(p, "off", (IF p.s[1] = "-" THEN -1 ELSE 1) * ((10 * d(2) + d(3)) * HOUR + (10 * d(4) + d(5)) * MINUTE)), 5)
Century(p) == IF p.want = 0 THEN p.tm
              ELSE [p.tm EXCEPT !.year = IF p.want \in {2, 3} THEN p.relyear + p.century * 100 - 1900
                                         ELSE IF p.relyear <= 68 THEN p.relyear + 100 ELSE p.relyear]
RECURSIVE Strptime(_, _, _)
\* A nested strptime, with its own century and its own tmp text.
Nested(p, f, names) ==
    LET q == Strptime([p EXCEPT !.want = 0, !.century = 0, !.relyear = 0], f, names)
    IN  [p EXCEPT !.ok = q.ok, !.over = q.over, !.s = q.s, !.tm = IF q.ok THEN Century(q) ELSE q.tm]
FullDate(p, w, names) ==
    LET sign == IF At(p.s, 1) \in {"+", "-"} THEN <<p.s[1]>> ELSE <<>>
        s1 == From(p.s, Len(sign) + 1)
        zeros == Span(s1, LAMBDA c : c = "0")
        s2 == From(s1, IF Digit(At(s1, zeros + 1)) THEN zeros + 1 ELSE Max({1, zeros}))
        take == IF w < 0 THEN Min({Len(s2), 19 - Len(sign)}) ELSE Max({0, Min({Len(s2), 19 - Len(sign), w - Len(sign)})})
        q == Nested([p EXCEPT !.s = sign \o Upto(s2, take)], <<"%", "1", "2", "Y", "-", "%", "m", "-", "%", "d">>, names)
    IN  IF q.ok THEN [q EXCEPT !.s = @ \o From(s2, take + 1)] ELSE q
\* An unknown name ends, as the code compares, at the first character behind z (here ~ is the
\* only one); without one the loop runs over the terminator (over), and what it finds there,
\* and so all that comes of it, is undefined.
ZoneName(p, names) ==
    LET n == Span(p.s, LAMBDA c : c # "~") IN
    IF Match(p.s, names[1]) THEN Skip(Put(p, "isdst", 0), Len(names[1]))
    ELSE IF Match(p.s, names[2]) THEN Skip(Put(p, "isdst", 1), Len(names[2]))
    ELSE IF n < Len(p.s) THEN Skip(p, n)
    ELSE [p EXCEPT !.over = TRUE, !.ok = FALSE]
Strptime(p, f, names) ==
    LET f1 == From(f, IF At(f, 2) = "+" THEN 3 ELSE 2)
        num == getint(f1)
        w == IF num.s = f1 THEN -1 ELSE num.v
        c == At(num.s, 1)
        digits(dflt) == numeric_digits(p.s, IF w < 0 THEN dflt ELSE w)
        two == numeric_digits(p.s, 2)
        blanks == Skip(p, Span(p.s, Space))
        step == CASE c \in {"a", "A"} -> symbolic_range(p, "wday", 7, LONGDAY, ABDAY)
                  [] c \in {"b", "B", "h"} -> symbolic_range(p, "mon", 12, LONGMON, ABMON)
                  [] c = "F" -> FullDate(p, w, names)
                  [] c \in Composite \ {"F"} -> Nested(p, langinfo(c), names)
                  [] c = "C" -> [p EXCEPT !.ok = digits(2).ok, !.s = digits(2).s, !.century = digits(2).v,
                                          !.want = IF @ \in {1, 3} THEN 3 ELSE 2]
                  [] c = "y" -> [p EXCEPT !.ok = two.ok, !.s = two.s, !.relyear = two.v,
                                          !.want = IF @ \in {2, 3} THEN 3 ELSE 1]
                  [] c = "Y" -> [p EXCEPT !.ok = digits(4).ok, !.s = digits(4).s, !.want = 0,
                                          !.tm.year = IF digits(4).ok THEN digits(4).v - 1900 ELSE @]
                  [] c = "g" -> [p EXCEPT !.ok = two.ok, !.s = two.s]
                  [] c = "G" -> [p EXCEPT !.ok = digits(4).ok, !.s = digits(4).s]
                  [] c \in DOMAIN Ranges -> numeric_range(p, Ranges[c])
                  [] c \in {"n", "t"} -> blanks
                  [] c = "p" -> IF Match(p.s, AMPM(FALSE)) THEN Skip(Put(p, "hour", Rem(p.tm.hour, 12)), 1)
                                ELSE IF Match(p.s, AMPM(TRUE)) THEN Skip(Put(p, "hour", Rem(p.tm.hour, 12) + 12), 1)
                                ELSE Mismatch(p)
                  [] c = "s" -> LET sign == IF At(p.s, 1) = "-" THEN 1 ELSE 0
                                    n == Span(From(p.s, sign + 1), Digit)
                                IN  IF n = 0 THEN Mismatch(p) ELSE Skip(p, sign + n)
                  [] c = "z" -> gmtoff(p)
                  [] c = "Z" -> ZoneName(p, names)
                  [] c = "%" -> IF At(p.s, 1) = "%" THEN Skip(p, 1) ELSE Mismatch(p)
                  [] OTHER -> Mismatch(p)
    IN  IF ~p.ok \/ f = <<>> THEN p
        ELSE IF Space(f[1]) THEN Strptime(blanks, Tail(f), names)
        ELSE IF f[1] # "%" THEN Strptime(IF At(p.s, 1) = f[1] THEN Skip(p, 1) ELSE Mismatch(p), Tail(f), names)
        ELSE Strptime(step, From(num.s, 2), names)
strptime(s, f, tm, names) ==
    LET p == Strptime([s |-> s, tm |-> tm, ok |-> TRUE, over |-> FALSE, want |-> 0, century |-> 0, relyear |-> 0], f, names)
    IN  IF p.ok THEN [p EXCEPT !.tm = Century(p)] ELSE p

\* getdate tries the lines of the file DATEMSK names in turn, all on one static tm.
RECURSIVE Templates(_, _, _, _)
Templates(s, lines, tm, names) ==
    LET p == strptime(s, Append(lines[1], " "), tm, names)
    IN  IF lines = <<>> THEN [ok |-> FALSE, tm |-> tm]
        ELSE IF p.ok /\ p.s = <<>> THEN [ok |-> TRUE, tm |-> p.tm] ELSE Templates(s, Tail(lines), p.tm, names)
\* mask: "none", "missing", "nomem", or the lines, which end in a read error if bad.
getdate(s, mask, tm, names) ==
    LET r == Templates(s, mask.lines, tm, names)
    IN  CASE mask.k = "unset" -> [err |-> 1, tm |-> tm]
          [] mask.k = "nomem" -> [err |-> 6, tm |-> tm]
          [] mask.k = "missing" -> [err |-> 2, tm |-> tm]
          [] OTHER -> [err |-> IF r.ok THEN 0 ELSE IF mask.k = "bad" THEN 5 ELSE 7, tm |-> r.tm]
asctime_r(tm) == ABDAY(tm.wday) \o <<" ">> \o ABMON(tm.mon) \o Number(tm.mday, "_", 3) \o <<" ">>
                 \o Number(tm.hour, "0", 2) \o <<":">> \o Number(tm.min, "0", 2) \o <<":">>
                 \o Number(tm.sec, "0", 2) \o <<" ">> \o Dec(1900 + tm.year)

-----------------------------------------------------------------------------
(***************************************************************************)
(* What the results mean, counting days, weeks and transitions one by one. *)
(***************************************************************************)
Leap(Y) == Y % 4 = 0 /\ (Y % 100 # 0 \/ Y % 400 = 0)
MonthDays(Y, M) == days_in(M, IF Leap(Y) THEN 1 ELSE 0)
\* Days from 1 January 1970 to day d of month M of year Y.
DayNumber(Y, M, d) ==
    LET leaps == (Y - 1) \div 4 - (Y - 1) \div 100 + (Y - 1) \div 400 - 477
    IN  365 * (Y - 1970) + leaps + FoldLeft(+, 0, [m \in 1..(M - 1) |-> MonthDays(Y, m)]) + d - 1
Weekday(day) == (day + 4) % 7
\* tm names the second t of the calendar.
Names(tm, t) ==
    LET Y == tm.year + 1900
        day == DayNumber(Y, tm.mon + 1, tm.mday)
    IN  /\ tm.mon \in 0..11 /\ tm.mday \in 1..MonthDays(Y, tm.mon + 1)
        /\ tm.hour \in 0..23 /\ tm.min \in 0..1 /\ tm.sec \in 0..1
        /\ t = day * DAY + tm.hour * HOUR + tm.min * MINUTE + tm.sec
        /\ tm.wday = Weekday(day) /\ tm.yday = day - DayNumber(Y, 1, 1)

\* A zone as POSIX describes it, and the text of its TZ value.
Written(v) == IF v < 0 THEN <<"-">> \o Dec(-v) ELSE Dec(v)
OffsetText(off) == Written(Quot(off, HOUR)) \o (IF Rem(off, HOUR) = 0 THEN <<>> ELSE <<":">> \o Dec(Quot(IF off < 0 THEN -Rem(off, HOUR) ELSE Rem(off, HOUR), MINUTE)))
RuleText(r) == (CASE r.k = "M" -> <<"M">> \o Dec(r.a) \o <<".">> \o Dec(r.b) \o <<".">> \o Dec(r.c)
                  [] r.k = "J" -> <<"J">> \o Dec(r.a)
                  [] r.k = "n" -> Dec(r.a))
               \o (IF r.at = 2 * HOUR THEN <<>> ELSE <<"/">> \o OffsetText(r.at))
NameText(n) == IF \A i \in DOMAIN n : n[i] \in Letters THEN n ELSE <<"<">> \o n \o <<">">>
ZoneText(z) == NameText(z.std) \o OffsetText(z.off)
               \o (IF z.dst = <<>> THEN <<>>
                   ELSE NameText(z.dst) \o (IF z.dstoff = z.off - HOUR THEN <<>> ELSE OffsetText(z.dstoff))
                        \o <<",">> \o RuleText(z.r0) \o <<",">> \o RuleText(z.r1))
\* The day on which a rule falls.
RuleDay(r, Y) ==
    LET first == DayNumber(Y, r.a, 1)
        on == {d \in first..(first + MonthDays(Y, r.a) - 1) : Weekday(d) = r.c}
        nth(n) == CHOOSE d \in on : Cardinality({e \in on : e < d}) = n - 1
    IN  CASE r.k = "M" -> IF r.b = 5 THEN Max(on) ELSE nth(r.b)
          [] r.k = "J" -> DayNumber(Y, 1, 1) + r.a - 1 + (IF Leap(Y) /\ r.a > 59 THEN 1 ELSE 0)
          [] r.k = "n" -> DayNumber(Y, 1, 1) + r.a
Changes(z, years) == {<<RuleDay(z.r0, Y) * DAY + z.r0.at + z.off, 1>> : Y \in years}
                     \cup {<<RuleDay(z.r1, Y) * DAY + z.r1.at + z.dstoff, 0>> : Y \in years}
IsDst(z, t) ==
    LET Y == t \div YEAR + 1970
        past == {c \in Changes(z, (Y - 2)..(Y + 1)) : c[1] <= t}
    IN  IF z.dst = <<>> THEN 0 ELSE (CHOOSE c \in past : \A d \in past : d[1] <= c[1])[2]
East(z, t) == IF IsDst(z, t) = 1 THEN -z.dstoff ELSE -z.off
\* The type a file gives to t, one transition at a time; after the last one its footer rules.
TypeAt(f, t) ==
    LET past == {i \in DOMAIN f.trans : f.trans[i] <= t}
        std == {i \in DOMAIN f.types : ~f.types[i].dst}
    IN  IF past = {} THEN (IF std = {} \/ f.trans = <<>> THEN 1 ELSE Min(std)) ELSE f.index[Max(past)] + 1

\* mktime undoes localtime: among the times whose local reading is L it returns one with
\* the asked tm_isdst; when there is none it takes the other offset, and for a reading
\* that no time has, either offset.
MakesTime(made, L, isdst, offs, Local(_)) ==
    LET read == {t \in {L - o : o \in offs} : Local(t).off = L - t}
        asked == {t \in read : Local(t).isdst = isdst}
    IN  /\ made.t \in {L - o : o \in offs}
        /\ isdst < 0 /\ read # {} => made.t \in read
        /\ asked # {} => made.t \in asked
        /\ made.tm.isdst = Local(made.t).isdst /\ Names(made.tm, made.t + Local(made.t).off)
\* The week of the year that holds the Thursday of the day's week.
IsoWeek(t) ==
    LET day == t \div DAY
        thursday == day - ((Weekday(day) + 6) % 7) + 3
        tm == secs_to_tm(thursday * DAY)
    IN  <<tm.year + 1900, tm.yday \div 7 + 1>>
\* The days of the year up to today that fall on wday.
CountOf(tm, wday) == Cardinality({d \in 0..tm.yday : (tm.wday - tm.yday + d) % 7 = wday})

Env(tz, files) == [set |-> TRUE, tz |-> tz, files |-> files, oom |-> {}, secure |-> FALSE]
\* A time is taken apart into the day of the calendar that counting gives, and put together
\* again; it is refused exactly when the year leaves the range of an int.
SplitRight(t) ==
    LET tm == secs_to_tm(t)
        inRange == /\ t >= DayNumber(1900 + INT_MIN, 1, 1) * DAY
                   /\ t < DayNumber(1901 + INT_MAX, 1, 1) * DAY
    IN  /\ tm = Error <=> ~inRange
        /\ tm # Error => Names(tm, t) /\ tm_to_secs(tm) = t /\ gmtime_r(t) = tm @@ Utc
\* timegm takes fields out of their ranges as the date that they count to.
JoinRight(tm) ==
    LET Y == tm.year + 1900 + tm.mon \div 12
        day == DayNumber(Y, (tm.mon % 12) + 1, 1) + tm.mday - 1
        made == timegm(tm)
    IN  /\ made.t = day * DAY + tm.hour * HOUR + tm.min * MINUTE + tm.sec
        /\ Names(made.tm, made.t)
\* localtime follows the rules of TZ, and mktime undoes it, also in a gap and in an overlap.
ZoneRight(z, t, isdst) ==
    LET e == Env(ZoneText(z), <<>>)
        st == do_tzset(Start, e)
        Local(u) == [isdst |-> IsDst(z, u), off |-> East(z, u)]
        tm == localtime_r(st, <<>>, t)
        made == mktime(st, <<>>, [tm EXCEPT !.isdst = isdst])
        offs == IF z.dst = <<>> THEN {-z.off} ELSE {-z.off, -z.dstoff}
    IN  /\ Names(tm, t + Local(t).off) /\ tm.isdst = Local(t).isdst
        /\ NameAt(st, <<>>, tm.zone) = IF tm.isdst = 1 THEN z.dst ELSE z.std
        /\ \A gap \in {0, 4} :
               LET m == mktime(st, <<>>, [tm EXCEPT !.isdst = isdst, !.sec = @ + gap])
               IN  MakesTime(m, t + tm.off + gap, isdst, offs, Local)
\* The reading L comes twice, at the end of a type and under the next one, the second has the
\* asked tm_isdst, and so had the type before the first: mktime takes the offset of that one.
WrongSide(f, L, isdst) ==
    LET off(i) == f.types[f.index[i] + 1].off
        dst(i) == IF f.types[f.index[i] + 1].dst THEN 1 ELSE 0
    IN  {L - off(i - 2) : i \in {j \in 3..Len(f.trans) - 1 :
            /\ L - off(j - 1) < f.trans[j] /\ f.trans[j] <= L - off(j)
            /\ dst(j - 1) # isdst /\ dst(j) = isdst /\ dst(j - 2) = isdst}}
\* The same with a file, before its last transition: the search over the transitions finds
\* the one in force.  mktime returns a time with the asked tm_isdst if there is one, but for
\* the second of two times of which it takes the offset on the WrongSide.
ZoneFileRight(f, t, isdst) ==
    LET path == <<"/", "M">>
        files == path :> f
        st == do_tzset(Start, Env(path, files))
        tm == localtime_r(st, files, t)
        Local(u) == LET ty == f.types[TypeAt(f, u)] IN [isdst |-> IF ty.dst THEN 1 ELSE 0, off |-> ty.off]
        made == mktime(st, files, [tm EXCEPT !.isdst = isdst])
        L == t + tm.off
        read == {u \in {L - ty.off : ty \in ToSet(f.types)} : Local(u).off = L - u}
        asked == {u \in read : Local(u).isdst = isdst}
    IN  /\ Names(tm, t + Local(t).off) /\ tm.isdst = Local(t).isdst
        /\ NameAt(st, files, tm.zone) = f.types[TypeAt(f, t)].abbr
        /\ isdst = -1 => made.t \in read
        /\ asked # {} => IF WrongSide(f, L, isdst) = {} THEN made.t \in asked ELSE made.t \in WrongSide(f, L, isdst)
        /\ made.tm.isdst = Local(made.t).isdst /\ Names(made.tm, made.t + Local(made.t).off)
\* What a program can see of the zone.
ZoneOf(st, files) ==
    <<NameAt(st, files, st.tzname[1]), NameAt(st, files, st.tzname[2]), st.timezone, st.daylight,
      st.dst_off, st.r0, st.r1, st.zi>>
\* After any sequence of values of TZ the zone is that of the last one, though the old
\* value, buffers and file are reused and an allocation may fail.
TzsetRight(es) ==
    LET files == es[1].files
        Step(st, e) == do_tzset(st, e)
        states == [i \in 1..Len(es) |-> FoldLeft(Step, Start, SubSeq(es, 1, i))]
        fresh(e) == do_tzset(Start, [e EXCEPT !.oom = {}])
    IN  \A i \in 1..Len(es) :
            LET has == ZoneOf(states[i], files)
                want == ZoneOf(fresh(es[i]), files)
                utc == ZoneOf(fresh(Env(<<>>, files)), files)
                oom == UNION {es[j].oom : j \in {k \in 1..i : es[k].tz = es[i].tz}}
            IN  \/ /\ \A n \in {1, 2} : IsPrefix(has[n], want[n]) /\ (oom \cap {"std", "dst"} = {} => has[n] = want[n])
                   /\ SubSeq(has, 3, 8) = SubSeq(want, 3, 8)
                \/ "path" \in oom /\ has = utc
\* strftime writes numbers of weeks as counting gives them, never more than its buffer holds,
\* and wcsftime writes the same.
DateRight(t, f) ==
    LET tm == In(secs_to_tm(t), Utc)
        text == strftime_l(100, <<"%", f>>, tm, <<"U", "T", "C">>)
        wide == wcsftime_l(100, <<"%", f>>, tm, <<"U", "T", "C">>)
        v == getint(text.s).v
        iso == IsoWeek(t)
    IN  /\ wide = text
        /\ f = "q" <=> text.ret = 0
        /\ \A n \in 0..9 : LET r == strftime_l(n, <<"x", "%", f>>, tm, <<"U", "T", "C">>)
                           IN  IF f # "q" /\ Len(text.s) + 1 < n THEN r = [ret |-> Len(text.s) + 1, s |-> <<"x">> \o text.s]
                               ELSE r.ret = 0 /\ Len(r.s) <= Max({0, n - 1}) /\ IsPrefix(r.s, <<"x">> \o text.s)
        /\ tm.year >= -1900 =>
           /\ f = "G" => v = iso[1]
           /\ f = "V" => v = iso[2]
           /\ f = "g" => v = iso[1] % 100
           /\ f = "U" => v = CountOf(tm, 0)
           /\ f = "W" => v = CountOf(tm, 1)
           /\ f = "s" => numeric_digits(text.s, 12).v = t
\* strptime reads what strftime wrote, and no more than that; a zone's name it must know, or
\* find an end of it, else it reads beyond the text.
ParseRight(t, f, zone) ==
    LET tm == In(secs_to_tm(t), Utc)
        names == <<<<"U", "T", "C">>, <<"P">>>>
        text == strftime_l(100, f[1], tm, zone)
        p == strptime(text.s, f[2], [In(secs_to_tm(0), Utc) EXCEPT !.hour = 23], names)
    IN  /\ p.over <=> "Z" \in ToSet(f[2]) /\ zone \notin ToSet(names) /\ "~" \notin ToSet(text.s)
        /\ ~p.over => p.ok /\ p.s = <<>> /\ tm_to_secs(p.tm) = t
\* getdate takes the first template that fits, and reports why there is none.
GetDateRight(s, mask) ==
    LET tm == In(secs_to_tm(0), Utc)
        r == getdate(s, mask, tm, <<<<"U", "T", "C">>, <<"P">>>>)
        fits == {i \in DOMAIN mask.lines : LET p == strptime(s, mask.lines[i], tm, <<<<"U", "T", "C">>, <<"P">>>>) IN p.ok /\ p.s = <<>>}
    IN  /\ r.err = 0 <=> mask.k \in {"ok", "bad"} /\ fits # {}
        /\ mask.k = "unset" <=> r.err = 1
=============================================================================
