--------------------------------- MODULE Stdio ---------------------------------
(***************************************************************************)
(* The buffer of a stream (src/stdio): getc, fread, fgets, ungetc, putc,    *)
(* fwrite, fseek, ftell, fflush and fclose over the read, write and seek    *)
(* operations of the stream.  A stream is on a descriptor, on a fixed part  *)
(* of memory (fmemopen), on growing memory (open_memstream) or on functions *)
(* of the application (fopencookie).  It is open for reading and writing.  *)
(*                                                                         *)
(* One buffer serves reading and writing.  rpos..rend is the sequence rbuf, *)
(* and room is the space before rpos, which ungetc uses; wbase..wpos is the *)
(* sequence wbuf.  The kernel may read and write less than it is asked to,  *)
(* or fail.  As the C standard demands, the application does not write      *)
(* after it has read, without fseek or fflush in between, unless it has met *)
(* the end of the file.  The calls have the lock of the stream, so that     *)
(* they do not interleave.                                                 *)
(***************************************************************************)
EXTENDS Integers, Sequences, FiniteSets, Bitwise

CONSTANTS
    Byte, Newline, Zero,
    Modes,        \* the streams: their kind ("fd", "mem", "memstream", "cookie" or, with no
                  \* function for writing, "sink"), whether line buffered and for appending
    Capacity,     \* the size of the memory of fmemopen
    Memories,     \* what it may hold at the beginning
    Files,        \* the contents of the file at the beginning
    Buffers,      \* the sizes of the buffer (0: no buffer)
    UNGET,        \* bytes before the buffer
    Faulty,       \* the kernel may fail
    MaxFile,      \* bound on the length of the file
    MaxCall       \* bound on the bytes of a call

ASSUME StdioAssumption ==
    /\ {Newline, Zero} \subseteq Byte /\ Files \subseteq Seq(Byte) /\ Buffers \subseteq Nat
    /\ UNGET \in Nat \ {0} /\ Faulty \in BOOLEAN
    /\ Modes \subseteq [kind : {"fd", "mem", "memstream", "cookie", "sink"}, lbf : BOOLEAN, append : BOOLEAN]
    /\ Memories \subseteq [1..Capacity -> Byte]

VARIABLES
    s,        \* the file, the offset of the descriptor and the stream
    call,     \* the call in progress: its name and the bytes it still wants
    got,      \* the bytes it has taken, or that were accepted
    result,   \* what the last call did: nothing to tell, a seek, a flush, or it failed
    npush     \* history: the bytes at the beginning of rbuf that were pushed back

vars == <<s, call, got, result, npush>>

Stream ==
    [mode : Modes, file : Seq(Byte), mem : Seq(Byte), off : Nat, space : Nat, lost : BOOLEAN, size : Buffers,
     reading : BOOLEAN, rbuf : Seq(Byte), room : Nat,
     writing : BOOLEAN, wbuf : Seq(Byte), eof : BOOLEAN, err : BOOLEAN, open : BOOLEAN]

None == [did |-> "none"]
Failed == [did |-> "failed"]
DidFlush == [did |-> "flush"]

Idle == [op |-> "none", want |-> 0]

TypeOK ==
    /\ s \in Stream /\ Len(s.wbuf) <= s.size /\ Len(s.rbuf) + s.room <= s.size + UNGET
    /\ ~(s.reading /\ s.writing)
    /\ s.rbuf # <<>> => s.reading
    /\ s.wbuf # <<>> => s.writing
    /\ call \in [op : {"none", "fread", "fgets"}, want : 0..MaxCall]
    /\ got \in Seq(Byte) /\ result.did \in {"none", "seek", "flush", "failed"} /\ npush \in 0..Len(s.rbuf)

Init ==
    /\ \E f \in Files, n \in Buffers, m \in Modes, q \in Memories \cup {<<>>} :
          /\ m.kind = "memstream" => f = <<>>
          /\ IF m.kind # "mem" THEN q = <<>>
             ELSE q # <<>> /\ (f = <<>> => q[1] = Zero) /\ (f # <<>> => f = q)
          /\ s = [mode |-> m, file |-> f, mem |-> q, off |-> 0, space |-> 0, lost |-> FALSE, size |-> n,
                  reading |-> FALSE, rbuf |-> <<>>, room |-> 0, writing |-> FALSE, wbuf |-> <<>>,
                  eof |-> FALSE, err |-> FALSE, open |-> TRUE]
    /\ call = Idle /\ got = <<>> /\ result = None /\ npush = 0

Least(a, b) == IF a < b THEN a ELSE b
Rest(q, k) == SubSeq(q, k + 1, Len(q))

-----------------------------------------------------------------------------
(***************************************************************************)
(* The kernel, and the operations on it.  An operation has a set of         *)
(* outcomes: the stream afterwards and what it returns.                    *)
(***************************************************************************)

\* The file with the bytes at a position; a gap shows the memory, if there is any.
Overlay(file, mem, at, bytes) ==
    [i \in 1..(IF at + Len(bytes) > Len(file) THEN at + Len(bytes) ELSE Len(file)) |->
        IF i > at /\ i <= at + Len(bytes) THEN bytes[i - at]
        ELSE IF i <= Len(file) THEN file[i]
        ELSE IF i <= Len(mem) THEN mem[i] ELSE Zero]

KernelWrite(f, bytes) ==
    LET at == IF f.mode.append THEN Len(f.file) ELSE f.off
    IN IF bytes = <<>> THEN f
       ELSE [f EXCEPT !.file = Overlay(f.file, f.mem, at, bytes), !.off = at + Len(bytes)]

Unread(f) == IF f.off < Len(f.file) THEN Rest(f.file, f.off) ELSE <<>>

\* The buffer and then the bytes are written, in as many calls as it takes; an error
\* loses what is left of the buffer.
__stdio_write(f, bytes) ==
    LET all == f.wbuf \o bytes
        Part(k) == KernelWrite(f, SubSeq(all, 1, k))
        n == Len(f.wbuf)
    IN {[f |-> [Part(Len(all)) EXCEPT !.wbuf = <<>>, !.writing = TRUE], n |-> Len(bytes)]}
       \cup {[f |-> [Part(k) EXCEPT !.wbuf = <<>>, !.writing = FALSE, !.err = TRUE],
              n |-> IF k > n THEN k - n ELSE 0] : k \in {j \in 0..(Len(all) - 1) : Faulty}}

\* The bytes wanted, except the last one, and the buffer are read in one call; the last
\* byte comes from the buffer.
__stdio_read(f, want) ==
    LET direct == IF f.size = 0 THEN want ELSE want - 1
        Got(cnt) ==
            LET bytes == SubSeq(Unread(f), 1, cnt)
                f1 == [f EXCEPT !.off = @ + cnt]
            IN IF cnt <= direct THEN [f |-> f1, bytes |-> bytes]
               ELSE [f |-> [f1 EXCEPT !.rbuf = Rest(bytes, want), !.room = UNGET + 1],
                     bytes |-> SubSeq(bytes, 1, want)]
    IN {Got(cnt) : cnt \in 1..Least(direct + f.size, Len(Unread(f)))}
       \cup {[f |-> [f EXCEPT !.eof = TRUE], bytes |-> <<>>] : x \in {y \in {0} : Unread(f) = <<>>}}
       \cup {[f |-> [f EXCEPT !.err = TRUE], bytes |-> <<>>] : x \in {y \in {0} : Faulty}}

\* fmemopen: the buffer and then the bytes, as far as there is space; if the buffer does
\* not fit the rest of it is lost.  When the text grows a zero is put after it, if there is
\* space, but the memory between its end and the position is left as it is.
mwrite(f, bytes) ==
    LET At(g) == [g EXCEPT !.off = IF g.mode.append THEN Len(g.file) ELSE @]
        Fit(g, q) == SubSeq(q, 1, Least(Len(q), Capacity - At(g).off))
        Copied(g, q) ==
            LET h == KernelWrite(At(g), q)
            IN [h EXCEPT !.mem = [i \in 1..Capacity |->
                    IF i <= Len(h.file) THEN h.file[i]
                    ELSE IF i = Len(h.file) + 1 /\ Len(h.file) > Len(g.file) THEN Zero ELSE g.mem[i]]]
        first == Fit(f, f.wbuf)
        f1 == IF f.wbuf = <<>> THEN f ELSE [Copied(f, first) EXCEPT !.wbuf = <<>>]
        second == Fit(f1, bytes)
    IN IF first # f.wbuf THEN {[f |-> [f1 EXCEPT !.lost = TRUE], n |-> 0]}
       ELSE {[f |-> Copied(f1, second), n |-> Len(second)]}

\* fmemopen: the bytes wanted and as many as fit the buffer.
mread(f, want) ==
    LET bytes == SubSeq(Unread(f), 1, Least(want, Len(Unread(f))))
        ahead == SubSeq(Rest(Unread(f), Len(bytes)), 1, Least(f.size, Len(Unread(f)) - Len(bytes)))
    IN {[f |-> [f EXCEPT !.off = @ + Len(bytes) + Len(ahead), !.rbuf = ahead, !.room = UNGET,
                         !.eof = @ \/ Len(bytes) < want],
         bytes |-> bytes]}

\* open_memstream: the memory grows so that a zero follows the bytes; if it cannot, the
\* buffer is lost.
Grown(f, n) ==
    IF n + f.off >= f.space THEN [f EXCEPT !.space = (2 * @ + 1) | (f.off + n + 1)] ELSE f

ms_write(f, bytes) ==
    LET Write(g, q) == KernelWrite(Grown(g, Len(q)), q)
        f1 == [f EXCEPT !.wbuf = <<>>]
        f2 == IF f.wbuf = <<>> THEN f ELSE Write(f1, f.wbuf)
    IN {[f |-> Write([f2 EXCEPT !.wbuf = <<>>], bytes), n |-> Len(bytes)]}
       \cup {o \in {[f |-> [f1 EXCEPT !.lost = f.wbuf # <<>>], n |-> 0], [f |-> [f2 EXCEPT !.wbuf = <<>>], n |-> 0]} :
               Faulty}

\* fopencookie: the function of the application may write less, or fail.
CookieCall(f, q) ==
    {[f |-> KernelWrite(f, SubSeq(q, 1, k)), n |-> k] :
        k \in {j \in 0..Len(q) : Faulty \/ j = Len(q)}}
    \cup {[f |-> [f EXCEPT !.writing = FALSE, !.err = TRUE], n |-> 0] : x \in {y \in {0} : Faulty}}

\* Without that function the bytes are accepted, and lost.
cookiewrite(f, bytes) ==
    LET f1 == [f EXCEPT !.wbuf = <<>>]
    IN IF f.mode.kind = "sink" THEN {[f |-> [f EXCEPT !.lost = TRUE], n |-> Len(bytes)]}
       ELSE IF f.wbuf = <<>> THEN CookieCall(f, bytes)
       ELSE UNION {IF o.n < Len(f.wbuf)
                   THEN {[f |-> [o.f EXCEPT !.lost = ~o.f.err], n |-> 0]}
                   ELSE CookieCall(o.f, bytes) : o \in CookieCall(f1, f.wbuf)}

\* fopencookie: one call for the bytes wanted except the last, and one for the buffer.
cookieread(f, want) ==
    LET direct == IF f.size = 0 THEN want ELSE want - 1
        Calls(g, n) ==   \* the bytes that a call of the function can deliver
            {SubSeq(Unread(g), 1, k) : k \in 1..Least(n, Len(Unread(g)))}
            \cup {q \in {<<>>} : Unread(g) = <<>>}
        Bail(g, q, error) ==
            [f |-> [g EXCEPT !.eof = @ \/ ~error, !.err = @ \/ error, !.rbuf = <<>>, !.room = UNGET],
             bytes |-> q]
        Firsts == IF direct = 0 THEN {<<>>} ELSE Calls(f, direct)
        After(q) == [f EXCEPT !.off = @ + Len(q)]
        Second(q) ==
            {IF r = <<>> THEN Bail(After(q), q, FALSE)
             ELSE [f |-> [After(q) EXCEPT !.off = @ + Len(r), !.rbuf = Tail(r), !.room = UNGET + 1],
                   bytes |-> Append(q, Head(r))] : r \in Calls(After(q), f.size)}
    IN UNION {IF direct > 0 /\ q = <<>> THEN {Bail(f, <<>>, FALSE)}
              ELSE IF f.size = 0 \/ Len(q) < direct THEN {[f |-> After(q), bytes |-> q]}
              ELSE Second(q) \cup {Bail(After(q), q, TRUE) : x \in {y \in {0} : Faulty}} : q \in Firsts}
       \cup {Bail(f, <<>>, TRUE) : x \in {y \in {0} : Faulty}}

write(f, bytes) ==
    CASE f.mode.kind = "fd" -> __stdio_write(f, bytes) [] f.mode.kind = "mem" -> mwrite(f, bytes)
      [] f.mode.kind = "memstream" -> ms_write(f, bytes) [] OTHER -> cookiewrite(f, bytes)

read(f, want) ==
    CASE f.mode.kind = "fd" -> __stdio_read(f, want) [] f.mode.kind = "mem" -> mread(f, want)
      [] OTHER -> cookieread(f, want)

\* Where seek may go.
SeekRange(f) == IF f.mode.kind = "mem" THEN 0..Capacity ELSE Nat

\* Writes out the buffer and turns to reading, which open_memstream does not allow.
__toread(f) ==
    {IF f.mode.kind = "memstream" THEN [o.f EXCEPT !.writing = FALSE, !.wbuf = <<>>, !.err = TRUE]
     ELSE [o.f EXCEPT !.writing = FALSE, !.wbuf = <<>>, !.reading = TRUE, !.rbuf = <<>>,
                      !.room = f.size + UNGET] :
        o \in IF f.wbuf # <<>> THEN write(f, <<>>) ELSE {[f |-> f]}}

__towrite(f) == [f EXCEPT !.reading = FALSE, !.rbuf = <<>>, !.room = 0, !.writing = TRUE, !.wbuf = <<>>]

\* __toread and then read, unless the end was met.
Underflow(f, want) ==
    UNION {IF g.eof \/ g.mode.kind = "memstream" THEN {[f |-> g, bytes |-> <<>>]} ELSE read(g, want) :
             g \in __toread(f)}

\* k bytes are taken from the buffer.
FromBuffer(f, k) == [f EXCEPT !.rbuf = Rest(@, k), !.room = @ + k]

-----------------------------------------------------------------------------
(***************************************************************************)
(* Reading.                                                                *)
(***************************************************************************)

\* The application clears an error before it goes on.
Ready == s.open /\ call = Idle /\ ~s.err /\ ~s.lost

Taken(k) == npush' = IF npush > k THEN npush - k ELSE 0

getc ==
    /\ Ready /\ call' = call /\ result' = None
    /\ IF s.rbuf # <<>>
       THEN s' = FromBuffer(s, 1) /\ got' = <<Head(s.rbuf)>> /\ Taken(1)
       ELSE \E o \in Underflow(s, 1) : s' = o.f /\ got' = o.bytes /\ npush' = 0

fread(n) ==
    LET k == Least(n, Len(s.rbuf))
    IN /\ Ready
       /\ call' = IF k = n THEN Idle ELSE [op |-> "fread", want |-> n - k]
       /\ s' = FromBuffer(s, k) /\ got' = SubSeq(s.rbuf, 1, k) /\ Taken(k)
       /\ result' = None

\* One turn of its loop.
freadMore ==
    /\ call.op = "fread"
    /\ \E o \in Underflow(s, call.want) :
          /\ s' = o.f /\ got' = got \o o.bytes /\ npush' = 0
          /\ call' = IF o.bytes = <<>> \/ Len(o.bytes) = call.want THEN Idle
                     ELSE [call EXCEPT !.want = @ - Len(o.bytes)]
    /\ result' = None

fgets(n) ==
    /\ Ready /\ call' = [op |-> "fgets", want |-> n]
    /\ got' = <<>> /\ result' = None /\ UNCHANGED <<s, npush>>

\* Mutant: the whole buffer is taken.
LineAll(q, n) ==
    LET ends == {k \in 1..Len(q) : q[k] = Newline}
        z == IF ends = {} THEN Len(q) ELSE CHOOSE k \in ends : \A j \in ends : k <= j
    IN SubSeq(q, 1, Least(Len(q), n))

\* The bytes fgets takes from the buffer: up to the newline and no more than it wants.
Line(q, n) ==
    LET ends == {k \in 1..Len(q) : q[k] = Newline}
        z == IF ends = {} THEN Len(q) ELSE CHOOSE k \in ends : \A j \in ends : k <= j
    IN SubSeq(q, 1, Least(z, n))

fgetsMore ==
    /\ call.op = "fgets"
    /\ IF s.rbuf # <<>>
       THEN LET l == Line(s.rbuf, call.want)
                done == Len(l) = call.want \/ \E k \in 1..Len(s.rbuf) : s.rbuf[k] = Newline
            IN /\ s' = FromBuffer(s, Len(l)) /\ got' = got \o l /\ Taken(Len(l))
               /\ call' = IF done THEN Idle ELSE [call EXCEPT !.want = @ - Len(l)]
       ELSE \E o \in Underflow(s, 1) :
               /\ s' = o.f /\ got' = got \o o.bytes /\ npush' = 0
               /\ call' = IF o.bytes = <<>> \/ call.want = 1 \/ o.bytes = <<Newline>> THEN Idle
                          ELSE [call EXCEPT !.want = @ - 1]
    /\ result' = None

\* There is room for UNGET bytes at least; before the beginning of the file the position
\* would be undefined.
ungetc(c) ==
    /\ Ready
    /\ \E f \in IF s.reading THEN {s} ELSE __toread(s) :
          IF f.room > 0
          THEN /\ f.off > Len(f.rbuf) /\ npush' = npush + 1 /\ got' = <<>>
               /\ s' = [f EXCEPT !.rbuf = <<c>> \o @, !.room = @ - 1, !.eof = FALSE]
          ELSE s' = f /\ got' = <<>> /\ UNCHANGED npush
    /\ call' = call /\ result' = None

-----------------------------------------------------------------------------
(***************************************************************************)
(* Writing.                                                                *)
(***************************************************************************)

MayWrite == Ready /\ (s.reading => s.eof)

Space(f) == f.size - Len(f.wbuf)

putc(c) ==
    LET f == IF s.writing THEN s ELSE __towrite(s)
    IN /\ MayWrite
       /\ IF Space(f) > 0 /\ ~(f.mode.lbf /\ c = Newline)
          THEN s' = [f EXCEPT !.wbuf = Append(@, c)] /\ got' = <<c>>
          ELSE \E o \in write(f, <<c>>) :
                  s' = o.f /\ got' = IF o.n = 1 THEN <<c>> ELSE <<>>
       /\ npush' = 0 /\ call' = call /\ result' = None

\* The bytes up to the last newline, which a line buffered stream writes at once.
Lines(f, q) ==
    LET ends == {k \in 1..Len(q) : q[k] = Newline}
    IN IF ~f.mode.lbf \/ ends = {} THEN <<>>
       ELSE SubSeq(q, 1, CHOOSE k \in ends : \A j \in ends : j <= k)

fwrite(q) ==
    LET f == IF s.writing THEN s ELSE __towrite(s)
        now == IF Len(q) > Space(f) THEN q ELSE Lines(f, q)
        later == Rest(q, Len(now))
    IN /\ MayWrite
       /\ \E o \in IF now = <<>> THEN {[f |-> f, n |-> 0]} ELSE write(f, now) :
             IF o.n < Len(now) THEN s' = o.f /\ got' = SubSeq(q, 1, o.n)
             ELSE s' = [o.f EXCEPT !.wbuf = @ \o later] /\ got' = q
       /\ npush' = 0 /\ call' = call /\ result' = None

-----------------------------------------------------------------------------
(***************************************************************************)
(* Positioning and flushing.                                               *)
(***************************************************************************)


\* The position: ahead of the descriptor by what is to be written, behind it by what was
\* read ahead.
ftell(f) ==
    LET at == IF f.mode.append /\ f.wbuf # <<>> THEN Len(f.file) ELSE f.off
    IN at - Len(f.rbuf) + Len(f.wbuf)

\* Writes out the buffer if there is something in it.
Flushed(f) == IF f.wbuf # <<>> THEN {o.f : o \in write(f, <<>>)} ELSE {f}

\* An fseek by off from the beginning, the position or the end.
fseek(off, whence) ==
    /\ Ready
    /\ \E f \in Flushed(s) :
          LET base == CASE whence = "SEEK_SET" -> 0
                        [] whence = "SEEK_CUR" -> f.off - Len(s.rbuf)
                        [] whence = "SEEK_END" -> Len(f.file)
          IN IF s.wbuf # <<>> /\ ~f.writing
             THEN s' = f /\ result' = Failed /\ UNCHANGED npush
             ELSE IF base + off \notin SeekRange(f)
             THEN s' = [f EXCEPT !.writing = FALSE, !.wbuf = <<>>] /\ result' = Failed /\ UNCHANGED npush
             ELSE s' = [f EXCEPT !.writing = FALSE, !.wbuf = <<>>, !.off = base + off, !.reading = FALSE,
                                 !.rbuf = <<>>, !.room = 0, !.eof = FALSE] /\ npush' = 0
                  /\ result' = [did |-> "seek", off |-> off, base |-> whence]
    /\ got' = <<>> /\ UNCHANGED call

fflush(f, g) ==
    IF f.wbuf # <<>> /\ ~g.writing THEN g
    ELSE [g EXCEPT !.off = @ - Len(g.rbuf), !.writing = FALSE, !.wbuf = <<>>, !.reading = FALSE,
                   !.rbuf = <<>>, !.room = 0]

Flush ==
    /\ Ready
    /\ \E g \in Flushed(s) :
          /\ s' = fflush(s, g)
          /\ result' = IF s.wbuf # <<>> /\ ~g.writing THEN Failed ELSE DidFlush
    /\ npush' = 0 /\ got' = <<>> /\ UNCHANGED call

fclose ==
    /\ s.open /\ call = Idle
    /\ \E g \in Flushed(s) :
          /\ s' = [fflush(s, g) EXCEPT !.open = FALSE]
          /\ result' = IF s.wbuf # <<>> /\ ~g.writing THEN Failed ELSE DidFlush
    /\ npush' = 0 /\ got' = <<>> /\ UNCHANGED call

clearerr ==
    /\ s.open /\ call = Idle /\ s' = [s EXCEPT !.eof = FALSE, !.err = FALSE, !.lost = FALSE]
    /\ result' = None /\ UNCHANGED <<call, got, npush>>

-----------------------------------------------------------------------------

Short == UNION {[1..k -> Byte \ {Zero}] : k \in 1..MaxCall}

Next ==
    \/ getc \/ freadMore \/ fgetsMore \/ Flush \/ fclose \/ clearerr
    \/ \E n \in 1..MaxCall : fread(n) \/ fgets(n)
    \/ \E c \in Byte \ {Zero} : ungetc(c) \/ putc(c)
    \/ \E q \in Short : fwrite(q)
    \/ \E off \in {0 - 1, 0, 1}, whence \in {"SEEK_SET", "SEEK_CUR", "SEEK_END"} : fseek(off, whence)

Spec == Init /\ [][Next]_vars

\* Bound for model checking.
SmallFile == Len(s.file) + Len(s.wbuf) <= MaxFile /\ s.off <= MaxFile

-----------------------------------------------------------------------------
(***************************************************************************)
(* Properties.                                                             *)
(***************************************************************************)

Abstract == INSTANCE AbstractStream WITH
    append <- s.mode.append, data <- KernelWrite(s, s.wbuf).file, pos <- ftell(s), pushed <- SubSeq(s.rbuf, 1, npush),
    saved <- s.file, under <- s.mem, kpos <- s.off, eof <- s.eof, err <- s.err, silent <- s.lost


\* The memory of a stream is enough for what is in it and, if it grows, for a zero after it.
MemoryBounds ==
    /\ s.mode.kind = "mem" => Len(s.file) <= Capacity
    /\ s.mode.kind = "memstream" /\ s.file # <<>> => Len(s.file) < s.space

\* A call that returns less than it was asked for has met the end, an error or (fgets) the
\* end of a line; fgets returns one line at most.
ShortForAReason ==
    [][ /\ (call.op = "fread" /\ call'.op = "none" /\ ~s'.eof /\ ~s'.err) =>
              Len(got') - Len(got) = call.want
        /\ (call.op = "fgets" /\ call'.op = "none" /\ ~s'.eof /\ ~s'.err) =>
              Len(got') - Len(got) = call.want \/ got'[Len(got')] = Newline
        /\ call.op = "fgets" => \A k \in 1..(Len(got') - 1) : got'[k] # Newline ]_vars

-----------------------------------------------------------------------------
(***************************************************************************)
(* Instance of Stdio for TLC: no buffer, a buffer of one byte and one of    *)
(* two bytes; calls of up to three bytes cross its ends in every way.      *)
(***************************************************************************)

MCFiles == {<<>>, <<"a", "n", "b">>}

Mode(kind, lbf, append) == [kind |-> kind, lbf |-> lbf, append |-> append]

MCModes ==
    {Mode("fd", TRUE, FALSE), Mode("fd", FALSE, TRUE), Mode("mem", FALSE, FALSE),
     Mode("memstream", FALSE, FALSE), Mode("cookie", FALSE, FALSE), Mode("sink", FALSE, FALSE)}

MCMemories == {<<"a", "n", "b">>, <<"0", "0", "0">>, <<"0", "a", "b">>}

\* A call that returns less than it was asked for has met the end, an error or the end of a
\* line, and no call leaves more in a buffer, or in the memory of fmemopen and
\* open_memstream, than there is room for.
CallsHonest == ShortForAReason /\ [](TypeOK /\ MemoryBounds)
=============================================================================
