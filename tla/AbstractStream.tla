---------------------------- MODULE AbstractStream ----------------------------
(***************************************************************************)
(* What a stream promises: a sequence of bytes with a position.  Bytes are  *)
(* taken from and put at the position; bytes pushed back are taken first.   *)
(* What was put reaches the file at the latest when the stream is flushed,  *)
(* and the descriptor is then at the position of the stream.               *)
(***************************************************************************)
EXTENDS Integers, Sequences

CONSTANTS Byte, Zero

VARIABLES
    append,   \* every byte is put at the end
    data,     \* the bytes of the stream
    pos,      \* its position
    pushed,   \* bytes pushed back
    saved,    \* the bytes of the file
    under,    \* what the memory of the stream holds, if it has a memory of fixed size
    kpos,     \* the position of the descriptor
    eof, err,
    silent,   \* bytes were lost and the stream does not tell
    got,      \* the bytes that the current call has taken or put
    result    \* of the call: what it did

vars == <<append, data, pos, pushed, saved, under, kpos, eof, err, silent, got, result>>

\* bytes put at a position; a gap is filled by zeros, unless there is a memory under it.
Overlay(file, at, bytes) ==
    [i \in 1..(IF at + Len(bytes) > Len(file) THEN at + Len(bytes) ELSE Len(file)) |->
        IF i > at /\ i <= at + Len(bytes) THEN bytes[i - at]
        ELSE IF i <= Len(file) THEN file[i]
        ELSE IF i <= Len(under) THEN under[i] ELSE Zero]

\* The bytes that are to be taken.
Ahead ==
    LET here == pos + Len(pushed)
    IN pushed \o (IF here < Len(data) THEN SubSeq(data, here + 1, Len(data)) ELSE <<>>)

Init ==
    /\ append \in BOOLEAN
    /\ pos = 0 /\ kpos = 0 /\ data = saved /\ saved \in Seq(Byte) /\ under \in Seq(Byte)
    /\ pushed = <<>> /\ ~eof /\ ~err /\ ~silent /\ got = <<>> /\ result = [did |-> "none"]

\* A call takes bytes in order; it sees the end only when nothing is left.
Take ==
    /\ result'.did = "none"
    /\ \E k \in 0..Len(Ahead), fresh \in BOOLEAN :
          /\ got' = (IF fresh THEN <<>> ELSE got) \o SubSeq(Ahead, 1, k)
          /\ pos' = pos + k
          /\ pushed' = SubSeq(pushed, k + 1, Len(pushed))
          /\ eof' # eof => eof' /\ k = Len(Ahead)
    /\ err => err'
    /\ data' = data

\* got' are the bytes of the call that were accepted.
Put ==
    LET at == IF append THEN Len(data) ELSE pos
    IN /\ result'.did = "none"
       /\ data' = (IF got' = <<>> THEN data ELSE Overlay(data, at, got'))
       /\ got' # <<>> => pos' = at + Len(got')
       /\ pushed' = <<>> /\ eof' = eof /\ err' = err

PushBack ==
    /\ \E c \in Byte : pushed' = <<c>> \o pushed
    /\ result'.did = "none" /\ pos' = pos - 1 /\ ~eof' /\ data' = data

\* From the beginning, the position or the end.
Seek ==
    /\ result'.did = "seek"
    /\ \E off \in {result'.off}, base \in {result'.base} :
          pos' = off + CASE base = "SEEK_SET" -> 0 [] base = "SEEK_CUR" -> pos [] OTHER -> Len(data)
    /\ pushed' = <<>> /\ data' = data /\ ~eof' /\ saved' = data' /\ kpos' = pos'

Flush ==
    /\ pushed' = <<>> /\ eof' = eof /\ data' = data /\ pos' = pos
    /\ result'.did = "flush" /\ saved' = data' /\ kpos' = pos'

\* A failed write: what was not yet in the file may be lost, and the stream tells.
Lose ==
    /\ data' \in Seq(Byte)
    /\ silent' \/ (~err /\ err' /\ result'.did \notin {"flush", "seek"})

\* The indicators are cleared.
Clear == pushed' = pushed /\ pos' = pos /\ data' = data /\ ~eof' /\ ~err'

\* Nothing was done, except that what was put may have reached the file.
Fail == result'.did = "failed" /\ saved' \in {saved, data} /\ UNCHANGED <<data, pos, pushed, eof>>

Next ==
    /\ Take \/ Put \/ PushBack \/ Seek \/ Flush \/ Lose \/ Clear \/ Fail
    /\ append' = append

Spec == Init /\ [][Next]_vars
=============================================================================
