------------------------------- MODULE Crypt -------------------------------
(***************************************************************************)
(* Password hashing: src/crypt.  The bit mixing of the hash functions and  *)
(* ciphers is left open: whatever it is, messages are buffered and padded, *)
(* settings are parsed, rounds are run and results are written as here.    *)
(* A byte is a number, a character its code; a DES word is 32 bits.        *)
(***************************************************************************)
EXTENDS Integers, Sequences, SequencesExt, FiniteSetsExt

CONSTANTS
    Compress(_, _),        \* chaining value and block to chaining value
    Bytes(_, _),           \* the n bytes of a chaining value
    KeySchedule(_),        \* the 16 round keys of 8 key bytes
    F(_, _, _),            \* half block, round key and salt to half block
    IP(_),                 \* initial permutation of 64 bits; FP undoes it
    FP(_),
    Mix(_, _, _)           \* a blowfish context, L and R to <<L, R>>

\* Op(x), with x evaluated once.
With(x, Op(_)) == CHOOSE v \in {Op(y) : y \in {x}} : TRUE
XorBits(a, b) == <<>> \o [i \in DOMAIN a |-> (a[i] + b[i]) % 2]
Repeat(s, n) == FlattenSeq([i \in 1..n |-> s])
From(s, i) == SubSeq(s, i, Len(s))
Upto(s, n) == SubSeq(s, 1, Min({n, Len(s)}))
At(s, i) == IF i <= Len(s) THEN s[i] ELSE 0
Zeros(n) == <<>> \o [i \in 1..n |-> 0]
Null == <<-1>>

-----------------------------------------------------------------------------
(***************************************************************************)
(* Hash contexts.  a: the block size, the bytes kept for the length, the   *)
(* size of a digest, and whether numbers have their low byte first.  Blocks *)
(* are an eighth of their size, and the length is written in two bytes.     *)
(***************************************************************************)
SHA512 == [block |-> 16, tail |-> 4, md |-> 64, little |-> FALSE, id |-> 54]
SHA256 == [block |-> 8, tail |-> 2, md |-> 32, little |-> FALSE, id |-> 53]
MD5 == [block |-> 8, tail |-> 2, md |-> 16, little |-> TRUE, id |-> 49]
init == [len |-> 0, h |-> 1, buf |-> <<>>]
processblock(s, block) == [s EXCEPT !.h = Compress(@, block)]
RECURSIVE Blocks(_, _, _)
Blocks(a, s, m) ==
    IF Len(m) < a.block THEN [s EXCEPT !.buf = m]
    ELSE With(processblock(s, SubSeq(m, 1, a.block)), LAMBDA t : Blocks(a, t, From(m, a.block + 1)))
update(a, s, m) ==
    LET r == s.len % a.block
        new == [s EXCEPT !.len = @ + Len(m)]
        free == a.block - r
    IN  IF r = 0 THEN Blocks(a, new, m)
        ELSE IF Len(m) < free THEN [new EXCEPT !.buf = @ \o m]
        ELSE Blocks(a, processblock(new, s.buf \o SubSeq(m, 1, free)), From(m, free + 1))
Length(a, bits) == LET high == <<(bits \div 256) % 256, bits % 256>> IN IF a.little THEN Reverse(high) ELSE high
\* Mutant: a block with room for the end mark, but not for the length, is not closed.
padTight(a, s) ==
    LET head == Append(s.buf, 128)
        spill == Len(head) > a.block - 2
        first == IF spill THEN processblock(s, head \o Zeros(a.block - Len(head))) ELSE s
        last == IF spill THEN <<>> ELSE head
    IN  processblock(first, last \o Zeros(a.block - 2 - Len(last)) \o Length(a, 8 * s.len))
pad(a, s) ==
    LET head == Append(s.buf, 128)
        spill == Len(head) > a.block - a.tail
        first == IF spill THEN processblock(s, head \o Zeros(a.block - Len(head))) ELSE s
        last == IF spill THEN <<>> ELSE head
    IN  processblock(first, last \o Zeros(a.block - 2 - Len(last)) \o Length(a, 8 * s.len))
sum(a, s) == Bytes(pad(a, s).h, a.md)
RECURSIVE Often(_, _, _, _)
Often(a, s, m, k) == IF k = 0 THEN s ELSE With(update(a, s, m), LAMBDA t : Often(a, t, m, k - 1))
\* The first n bytes of md repeated.
hashmd(a, s, n, md) ==
    LET whole == IF n = 0 THEN 0 ELSE (n - 1) \div a.md
    IN  update(a, Often(a, s, md, whole), SubSeq(md, 1, n - whole * a.md))

\* The reference: the digest of a message is a chain over the blocks of its padded form.
Padded(a, m) == LET zeros == (-(Len(m) + 1 + a.tail)) % a.block
                IN  m \o <<128>> \o Zeros(zeros + a.tail - 2) \o Length(a, 8 * Len(m))
RECURSIVE Chain(_, _, _)
Chain(h, p, n) == IF p = <<>> THEN h ELSE With(Compress(h, SubSeq(p, 1, n)), LAMBDA k : Chain(k, From(p, n + 1), n))
Digest(a, m) == Bytes(Chain(init.h, Padded(a, m), a.block), a.md)
Pieces(a, ms) == sum(a, FoldLeft(LAMBDA s, m : update(a, s, m), init, ms))

-----------------------------------------------------------------------------
Dollar == 36
Newline == 10
Colon == 58
IsDigit(c) == c \in 48..57
b64 == <<46, 47>> \o [i \in 1..10 |-> 47 + i] \o [i \in 1..26 |-> 64 + i] \o [i \in 1..26 |-> 96 + i]
to64(u, n) == [i \in 1..n |-> b64[((u \div (64 ^ (i - 1))) % 64) + 1]]
Permuted(md, perm) == FlattenSeq([i \in DOMAIN perm |->
    to64(65536 * md[perm[i][1] + 1] + 256 * md[perm[i][2] + 1] + md[perm[i][3] + 1], 4)])
\* The three indices go round by a third of the digest.
perm512 == [i \in 1..21 |-> LET k == i - 1 IN <<(k * 22) % 63, (k * 22 + 21) % 63, (k * 22 + 42) % 63>>]
perm256 == [i \in 1..10 |-> LET k == i - 1 IN <<(k * 21) % 30, (k * 21 + 10) % 30, (k * 21 + 20) % 30>>]
perm5 == <<<<0, 6, 12>>, <<1, 7, 13>>, <<2, 8, 14>>, <<3, 9, 15>>, <<4, 10, 5>>>>
Encoded(a, md) == CASE a = SHA512 -> Permuted(md, perm512) \o to64(md[64], 2)
                    [] a = SHA256 -> Permuted(md, perm256) \o to64(256 * md[32] + md[31], 3)
                    [] a = MD5 -> Permuted(md, perm5) \o to64(md[12], 2)

(***************************************************************************)
(* SHA-crypt.  Rounds are counted in a smaller range than the code's.      *)
(***************************************************************************)
SALT_MAX == 16
SALT_TIMES == 2                      \* 16
ROUNDS_DEFAULT == 9
ROUNDS_MIN == 8
ROUNDS_MAX == 99
rounds_prefix == <<114, 111, 117, 110, 100, 115, 61>>          \* "rounds="
RECURSIVE Decimal(_)
Decimal(n) == IF n < 10 THEN <<48 + n>> ELSE Decimal(n \div 10) \o <<48 + (n % 10)>>
\* r and the text it is written back as, and the salt; or the setting is refused.
Setting(a, setting) ==
    LET rest == From(setting, 4)
        given == IsPrefix(rounds_prefix, rest)
        digits == From(rest, 8)
        n == Max({k \in 0..Len(digits) : \A i \in 1..k : IsDigit(digits[i])})
        u == FoldLeft(LAMBDA x, c : Min({1000, 10 * x + c - 48}), 0, SubSeq(digits, 1, n))
        r == IF ~given THEN ROUNDS_DEFAULT ELSE Max({u, ROUNDS_MIN})
        tail == IF given THEN From(digits, n + 2) ELSE rest
        slen == Max({k \in 0..Min({SALT_MAX, Len(tail)}) : \A i \in 1..k : tail[i] # Dollar})
        salt == SubSeq(tail, 1, slen)
    IN  [ok |-> /\ Upto(setting, 3) = <<Dollar, a.id, Dollar>>
                /\ given => n > 0 /\ At(digits, n + 1) = Dollar /\ u <= ROUNDS_MAX
                /\ ~Contains(salt, Newline) /\ ~Contains(salt, Colon),
         r |-> r, rounds |-> IF given THEN rounds_prefix \o Decimal(r) \o <<Dollar>> ELSE <<>>, salt |-> salt]
RECURSIVE ByBits(_, _, _, _)
ByBits(a, s, j, odd) == IF j = 0 THEN s ELSE ByBits(a, update(a, s, IF j % 2 = 1 THEN odd[1] ELSE odd[2]), j \div 2, odd)
RECURSIVE ShaRounds(_, _, _, _, _, _, _)
ShaRounds(a, i, r, md, kmd, smd, n) ==
    LET klen == n[1]
        slen == n[2]
        c1 == IF i % 2 = 1 THEN hashmd(a, init, klen, kmd) ELSE update(a, init, md)
        c2 == IF i % 3 # 0 THEN update(a, c1, SubSeq(smd, 1, slen)) ELSE c1
        c3 == IF i % 7 # 0 THEN hashmd(a, c2, klen, kmd) ELSE c2
        c4 == IF i % 2 = 1 THEN update(a, c3, md) ELSE hashmd(a, c3, klen, kmd)
    IN  IF i = r THEN md ELSE With(sum(a, c4), LAMBDA m : ShaRounds(a, i + 1, r, m, kmd, smd, n))
shacrypt(a, key, setting) ==
    LET st == Setting(a, setting)
        n == Len(key)
        Times(k, m) == sum(a, Often(a, init, m, k))
        md1 == Pieces(a, <<key, st.salt, key>>)
        c == hashmd(a, update(a, update(a, init, key), st.salt), n, md1)
        md2 == sum(a, ByBits(a, c, n, <<md1, key>>))
        Rest(A) == ShaRounds(a, 0, st.r, A, Times(n, key), Times(SALT_TIMES + A[1], st.salt), <<n, Len(st.salt)>>)
    IN  IF ~st.ok THEN Null
        ELSE <<Dollar, a.id, Dollar>> \o st.rounds \o st.salt \o <<Dollar>>
             \o With(With(md2, Rest), LAMBDA md : Encoded(a, md))
sha512crypt(key, setting) == shacrypt(SHA512, key, setting)
sha256crypt(key, setting) == shacrypt(SHA256, key, setting)

\* MD5-crypt: a shorter salt, a fixed number of rounds, and the key itself where SHA-crypt
\* uses a digest of it.
md5_update(s, m) == update(MD5, s, m)
md5_sum(s) == sum(MD5, s)
MD5_SALT_MAX == 8
MD5_ROUNDS == 9
RECURSIVE Md5Rounds(_, _, _, _)
Md5Rounds(i, md, key, salt) ==
    LET parts == <<IF i % 2 = 1 THEN key ELSE md, IF i % 3 # 0 THEN salt ELSE <<>>,
                   IF i % 7 # 0 THEN key ELSE <<>>, IF i % 2 = 1 THEN md ELSE key>>
    IN  IF i = MD5_ROUNDS THEN md ELSE With(Pieces(MD5, parts), LAMBDA m : Md5Rounds(i + 1, m, key, salt))
md5crypt(key, setting) ==
    LET tail == From(setting, 4)
        slen == Max({k \in 0..Min({MD5_SALT_MAX, Len(tail)}) : \A i \in 1..k : tail[i] # Dollar})
        salt == SubSeq(tail, 1, slen)
        md1 == Pieces(MD5, <<key, salt, key>>)
        c == hashmd(MD5, md5_update(md5_update(init, key), Upto(setting, 3 + slen)), Len(key), md1)
        md2 == md5_sum(ByBits(MD5, c, Len(key), <<<<0>>, Upto(key, 1)>>))
    IN  IF Upto(setting, 3) # <<Dollar, 49, Dollar>> THEN Null
        ELSE Upto(setting, 3 + slen) \o <<Dollar>> \o With(Md5Rounds(0, md2, key, salt), LAMBDA md : Encoded(MD5, md))

-----------------------------------------------------------------------------
(***************************************************************************)
(* DES.                                                                    *)
(***************************************************************************)
WORD == 32
RECURSIVE Rounds(_, _, _, _, _)
Rounds(l, r, keys, salt, i) ==
    IF i > Len(keys) THEN <<l, r>>
    ELSE With(XorBits(F(r, keys[i], salt), l), LAMBDA x : Rounds(r, x, keys, salt, i + 1))
RECURSIVE Times(_, _, _, _)
Times(lr, count, salt, ekey) ==
    IF count = 0 THEN lr
    ELSE With(Rounds(lr[1], lr[2], ekey, salt, 1), LAMBDA end : Times(<<end[2], end[1]>>, count - 1, salt, ekey))
do_des(l_in, r_in, count, salt, ekey) ==
    LET b == IF 1 \in ToSet(l_in \o r_in) THEN IP(l_in \o r_in) ELSE l_in \o r_in
        lr == Times(<<SubSeq(b, 1, WORD), From(b, WORD + 1)>>, count, salt, ekey)
        o == FP(lr[1] \o lr[2])
    IN  <<SubSeq(o, 1, WORD), From(o, WORD + 1)>>
\* setkey and encrypt: 64 characters are 64 bits; decryption runs the round keys backwards.
OfBits(bs) == FoldLeft(LAMBDA x, b : 2 * x + b, 0, bs)
Bits(u, n) == [i \in 1..n |-> (u \div (2 ^ (n - i))) % 2]
setkey(chars) == KeySchedule([i \in 1..8 |-> OfBits([j \in 1..8 |-> chars[8 * (i - 1) + j] % 2])])
encrypt(chars, edflag, ekey) ==
    LET b == [i \in 1..64 |-> chars[i] % 2]
        out == do_des(SubSeq(b, 1, WORD), From(b, WORD + 1), 1, Zeros(24), IF edflag THEN Reverse(ekey) ELSE ekey)
    IN  out[1] \o out[2]

IsUnsafe(c) == c \in {0, Newline, Colon}
ascii_to_bin(ch) == LET sch == IF ch < 128 THEN ch ELSE ch - 256
                    IN  (IF sch >= 97 THEN sch - 59 ELSE IF sch >= 65 THEN sch - 53 ELSE sch - 46) % 64
\* The bits of the salt, the lowest first.
setup_salt(salt) == Reverse(Bits(salt, 24))
\* Four characters of a number, the lowest six bits first, or refused.
Sixes(s) == IF \A i \in DOMAIN s : b64[ascii_to_bin(s[i]) + 1] = s[i]
            THEN FoldRight(LAMBDA c, x : 64 * x + ascii_to_bin(c), s, 0) ELSE -1
ShiftedKey(key) == [i \in 1..8 |-> (2 * At(key, i)) % 256]
ByteBits(bytes) == FlattenSeq([i \in DOMAIN bytes |-> Bits(bytes[i], 8)])
des_cipher(bytes, count, salt, ekey) ==
    LET b == ByteBits(bytes)
        out == do_des(SubSeq(b, 1, WORD), From(b, WORD + 1), count, salt, ekey)
        o == out[1] \o out[2]
    IN  [i \in 1..8 |-> OfBits(SubSeq(o, 8 * i - 7, 8 * i))]
RECURSIVE LongKey(_, _)
LongKey(buf, key) ==
    LET enc == des_cipher(buf, 1, Zeros(24), KeySchedule(buf))
        next == [i \in 1..8 |-> IF i <= Len(key) THEN OfBits(XorBits(Bits(enc[i], 8), Bits((2 * key[i]) % 256, 8))) ELSE enc[i]]
    IN  IF key = <<>> THEN buf ELSE With(next, LAMBDA b : LongKey(b, From(key, 9)))
ascii64(bits) == [i \in 1..(Len(bits) \div 6) |-> b64[OfBits(SubSeq(bits, 6 * i - 5, 6 * i)) + 1]]
Underscore == 95
DES_COUNT == 3                       \* 25
\* The 64 bits as 11 characters, by way of three words.
Eleven(r0, r1) == ascii64(SubSeq(r0, 1, 24)) \o ascii64(From(r0, 25) \o SubSeq(r1, 1, 16)) \o ascii64(From(r1, 17) \o <<0, 0>>)
crypt_extended(key, setting) ==
    LET extended == At(setting, 1) = Underscore
        head == Upto(setting, IF extended THEN 9 ELSE 2)
        full == Len(head) = IF extended THEN 9 ELSE 2
        count == IF extended THEN Sixes(SubSeq(setting, 2, 5)) ELSE DES_COUNT
        salt == IF extended THEN Sixes(SubSeq(setting, 6, 9)) ELSE 64 * ascii_to_bin(setting[2]) + ascii_to_bin(setting[1])
        buf == IF extended THEN LongKey(ShiftedKey(key), From(key, 9)) ELSE ShiftedKey(key)
        out == do_des(Zeros(WORD), Zeros(WORD), count, setup_salt(salt), KeySchedule(buf))
    IN  IF ~full \/ (extended /\ (count <= 0 \/ salt < 0)) \/ (~extended /\ (IsUnsafe(setting[1]) \/ IsUnsafe(setting[2])))
        THEN Null ELSE head \o Eleven(out[1], out[2])

-----------------------------------------------------------------------------
(***************************************************************************)
(* bcrypt.  A word is four bytes, the highest first; there are fewer words *)
(* in P and S than in the code.                                            *)
(***************************************************************************)
BF_N == 4
BF_S == 4
XorWord(a, b) == <<>> \o [i \in 1..4 |-> OfBits(XorBits(Bits(a[i], 8), Bits(b[i], 8)))]
Word(v) == <<v, 2 * v, 3 * v, v>>
BF_init_state == [P |-> [i \in 1..(BF_N + 2) |-> Word(i)], S |-> [i \in 1..BF_S |-> Word(10 + i)]]
BF_magic_w == [i \in 1..6 |-> Word(20 + i)]
BF_itoa64 == <<46, 47>> \o [i \in 1..26 |-> 64 + i] \o [i \in 1..26 |-> 96 + i] \o [i \in 1..10 |-> 47 + i]
BF_atoi64(c) == IF Contains(BF_itoa64, c) THEN (CHOOSE i \in 1..64 : BF_itoa64[i] = c) - 1 ELSE 64
\* Four characters make three bytes; the last group may be cut.
BF_decode(src, size) ==
    LET chars == (size * 8 + 5) \div 6
        bits == FlattenSeq([i \in 1..chars |-> Bits(BF_atoi64(src[i]), 6)])
    IN  IF Len(src) < chars \/ \E i \in 1..Min({chars, Len(src)}) : BF_atoi64(src[i]) > 63 THEN Null
        ELSE [i \in 1..size |-> OfBits(SubSeq(bits, 8 * i - 7, 8 * i))]
BF_encode(bytes) ==
    LET chars == (Len(bytes) * 8 + 5) \div 6
        bits == ByteBits(bytes) \o Zeros(6)
    IN  [i \in 1..chars |-> BF_itoa64[OfBits(SubSeq(bits, 6 * i - 5, 6 * i)) + 1]]

\* The key repeats with its terminator; bug: a byte over 127 sets every bit before it.
SignExtended(w) == [j \in 1..4 |-> IF \E k \in (j + 1)..4 : w[k] > 127 THEN 255 ELSE w[j]]
BF_set_key(key, flags) ==
    LET ring == Append(key, 0)
        byte(i, j) == ring[((4 * (i - 1) + j - 1) % Len(ring)) + 1]
        plain == [i \in 1..(BF_N + 2) |-> [j \in 1..4 |-> byte(i, j)]]
        buggy == [i \in 1..(BF_N + 2) |-> SignExtended(plain[i])]
        sign == \E i \in DOMAIN plain, j \in 2..4 : plain[i][j] > 127
        expanded == IF flags = 1 THEN buggy ELSE plain
        initial == [i \in DOMAIN plain |-> XorWord(BF_init_state.P[i], expanded[i])]
    IN  [expanded |-> expanded,
         initial |-> IF sign /\ plain = buggy /\ flags = 2 THEN [initial EXCEPT ![1] = XorWord(@, <<0, 1, 0, 0>>)] ELSE initial]
\* The words of the context are replaced in pairs by a chain of encryptions.
PS(ctx, i) == IF i <= BF_N + 2 THEN ctx.P[i] ELSE ctx.S[i - BF_N - 2]
SetPS(ctx, i, w) == IF i <= BF_N + 2 THEN [ctx EXCEPT !.P[i] = w] ELSE [ctx EXCEPT !.S[i - BF_N - 2] = w]
Zero == <<0, 0, 0, 0>>
RECURSIVE BF_encrypt(_, _, _, _)
BF_encrypt(ctx, L, R, i) ==
    LET lr == Mix(ctx, L, R)
    IN  IF i > BF_N + 2 + BF_S THEN ctx
        ELSE With(SetPS(SetPS(ctx, i, lr[1]), i + 1, lr[2]), LAMBDA c : BF_encrypt(c, lr[1], lr[2], i + 2))
\* The first pass adds two words of the salt, then the two others, in turn.
RECURSIVE Salted(_, _, _, _, _)
Salted(ctx, L, R, salt, i) ==
    LET half == IF ((i - 1) \div 2) % 2 = 0 THEN 0 ELSE 2
        lr == Mix(ctx, XorWord(L, salt[half + 1]), XorWord(R, salt[half + 2]))
    IN  IF i > BF_N + 2 + BF_S THEN ctx
        ELSE With(SetPS(SetPS(ctx, i, lr[1]), i + 1, lr[2]), LAMBDA c : Salted(c, lr[1], lr[2], salt, i + 2))
RECURSIVE Expensive(_, _, _, _)
Expensive(ctx, expanded, salt, count) ==
    LET keyed == [ctx EXCEPT !.P = <<>> \o [i \in DOMAIN @ |-> XorWord(@[i], expanded[i])]]
        once == BF_encrypt(keyed, Zero, Zero, 1)
        salted == [once EXCEPT !.P = <<>> \o [i \in DOMAIN @ |-> XorWord(@[i], salt[((i - 1) % 4) + 1])]]
    IN  IF count = 0 THEN ctx
        ELSE With(BF_encrypt(salted, Zero, Zero, 1), LAMBDA c : Expensive(c, expanded, salt, count - 1))
RECURSIVE Again(_, _, _)
Again(ctx, lr, n) == IF n = 0 THEN lr ELSE Again(ctx, Mix(ctx, lr[1], lr[2]), n - 1)
flags_by_subtype(c) == CASE c = 97 -> 2 [] c \in {98, 121} -> 4 [] c = 120 -> 1 [] OTHER -> 0
BF_crypt(key, setting, min) ==
    LET shaped == /\ Len(setting) >= 7 /\ setting[1] = Dollar /\ setting[2] = 50 /\ flags_by_subtype(setting[3]) # 0
                  /\ setting[4] = Dollar /\ setting[5] \in {48, 49} /\ IsDigit(setting[6]) /\ setting[7] = Dollar
        count == 2 ^ (10 * (setting[5] - 48) + setting[6] - 48)
        bytes == BF_decode(From(setting, 8), 16)
        salt == [i \in 1..4 |-> SubSeq(bytes, 4 * i - 3, 4 * i)]
        k == BF_set_key(key, flags_by_subtype(setting[3]))
        ctx == Salted([P |-> k.initial, S |-> BF_init_state.S], Zero, Zero, salt, 1)
        end == Expensive(ctx, k.expanded, salt, count)
        out == FlattenSeq([i \in 1..3 |-> Again(end, <<BF_magic_w[2 * i - 1], BF_magic_w[2 * i]>>, 4)])
        last == BF_itoa64[((BF_atoi64(setting[29]) \div 16) * 16) + 1]
    IN  IF ~shaped THEN Null
        ELSE IF count < min \/ bytes = Null THEN Null
        ELSE Upto(setting, 28) \o <<last>> \o BF_encode(SubSeq(FlattenSeq(out), 1, 23))

-----------------------------------------------------------------------------
(***************************************************************************)
(* crypt: the setting chooses the algorithm; a refused setting, or a self  *)
(* test that fails, gives a text that is no hash.                          *)
(***************************************************************************)
Star == <<42>>
Tested(result, works) == IF works /\ result # Null THEN result ELSE Star
crypt_md5(key, salt, works) == Tested(md5crypt(key, salt), works)
crypt_sha256(key, salt, works) == Tested(sha256crypt(key, salt), works)
crypt_sha512(key, salt, works) == Tested(sha512crypt(key, salt), works)
crypt_blowfish(key, salt, works) == Tested(BF_crypt(key, salt, 16), works)
crypt_des(key, salt, works) ==
    LET des == crypt_extended(key, salt)
    IN  IF works /\ des # Null THEN des ELSE IF At(salt, 1) = 42 THEN <<120>> ELSE Star
crypt_r(key, salt, works) ==
    LET tagged == At(salt, 1) = Dollar /\ At(salt, 2) # 0 /\ At(salt, 3) # 0
        is(c) == tagged /\ salt[2] = c /\ salt[3] = Dollar
    IN  CASE is(49) -> crypt_md5(key, salt, works)
          [] tagged /\ salt[2] = 50 /\ At(salt, 4) = Dollar -> crypt_blowfish(key, salt, works)
          [] is(53) -> crypt_sha256(key, salt, works)
          [] is(54) -> crypt_sha512(key, salt, works)
          [] OTHER -> crypt_des(key, salt, works)

-----------------------------------------------------------------------------
(***************************************************************************)
(* What the results mean.                                                  *)
(***************************************************************************)
Cut(s, n) == SubSeq(Repeat(s, (n + Len(s) - 1) \div Len(s)), 1, n)
\* SHA-crypt as it is specified: digests of concatenations.
RECURSIVE SpecBits(_, _, _)
SpecBits(j, A, key) == IF j = 0 THEN <<>> ELSE (IF j % 2 = 1 THEN A ELSE key) \o SpecBits(j \div 2, A, key)
RECURSIVE SpecRounds(_, _, _, _, _, _)
SpecRounds(a, i, r, A, P, S) ==
    IF i = r THEN A
    ELSE With(Digest(a, (IF i % 2 = 1 THEN P ELSE A) \o (IF i % 3 # 0 THEN S ELSE <<>>)
                        \o (IF i % 7 # 0 THEN P ELSE <<>>) \o (IF i % 2 = 1 THEN A ELSE P)),
              LAMBDA B : SpecRounds(a, i + 1, r, B, P, S))
ShaSpec(a, key, salt, r) ==
    LET B == Digest(a, key \o salt \o key)
        A == Digest(a, key \o salt \o Cut(B, Len(key)) \o SpecBits(Len(key), B, key))
        P == Cut(Digest(a, Repeat(key, Len(key))), Len(key))
        S == Cut(Digest(a, Repeat(salt, SALT_TIMES + A[1])), Len(salt))
    IN  SpecRounds(a, 0, r, A, P, S)
\* MD5-crypt as it is specified.
Md5Spec(key, salt) ==
    LET B == Digest(MD5, key \o salt \o key)
        A == Digest(MD5, key \o <<Dollar, 49, Dollar>> \o salt \o Cut(B, Len(key))
                         \o SpecBits(Len(key), <<0>>, SubSeq(key, 1, 1)))
    IN  SpecRounds(MD5, 0, MD5_ROUNDS, A, key, salt)
\* bcrypt as it is specified: the key schedule is a sequence of ExpandKey.
ExpandKey(ctx, salt, words) ==
    Salted([ctx EXCEPT !.P = <<>> \o [i \in DOMAIN @ |-> XorWord(@[i], words[((i - 1) % Len(words)) + 1])]], Zero, Zero, salt, 1)
RECURSIVE SpecSetup(_, _, _, _)
SpecSetup(ctx, key, salt, count) ==
    IF count = 0 THEN ctx
    ELSE With(ExpandKey(ExpandKey(ctx, <<Zero, Zero, Zero, Zero>>, key), <<Zero, Zero, Zero, Zero>>, salt),
              LAMBDA c : SpecSetup(c, key, salt, count - 1))
KeyWords(key) == LET ring == Append(key, 0)
                     bytes == Cut(ring, 4 * (BF_N + 2))
                 IN  [i \in 1..(BF_N + 2) |-> SubSeq(bytes, 4 * i - 3, 4 * i)]

\* However a message is cut, its digest is that of the whole.
PiecesRight(a, ms) == Pieces(a, ms) = Digest(a, FlattenSeq(ms))
\* Every byte of a digest shows in its text.
EveryByte(a) == Cardinality({Encoded(a, [i \in 1..a.md |-> IF i = j THEN 1 ELSE 0]) : j \in 1..a.md}) = a.md
\* SHA-crypt hashes what is specified.
ShaRight(a, key, setting) ==
    LET st == Setting(a, setting)
        out == IF a = SHA512 THEN sha512crypt(key, setting) ELSE sha256crypt(key, setting)
    IN  st.ok => /\ IsSuffix(Encoded(a, ShaSpec(a, key, st.salt, st.r)), out)
                 /\ EveryByte(a)
\* MD5-crypt hashes what is specified, with up to eight characters of salt.
Md5Right(key, setting) ==
    LET out == md5crypt(key, setting)
    IN  out # Null =>
         /\ EveryByte(MD5)
         /\ \E n \in 0..MD5_SALT_MAX :
                LET salt == SubSeq(setting, 4, 3 + n)
                IN  /\ 3 + n <= Len(setting) /\ ~Contains(salt, Dollar)
                    /\ n = MD5_SALT_MAX \/ At(setting, 4 + n) \in {0, Dollar}
                    /\ out = Upto(setting, 3 + n) \o <<Dollar>> \o Encoded(MD5, Md5Spec(key, salt))
\* A plain bcrypt key goes through the specified key schedule.
BcryptRight(key, salt, count) ==
    LET k == BF_set_key(key, 4)
    IN  Expensive(Salted([P |-> k.initial, S |-> BF_init_state.S], Zero, Zero, salt, 1), k.expanded, salt, count)
        = SpecSetup(ExpandKey(BF_init_state, salt, KeyWords(key)), KeyWords(key), salt, count)
\* A hash is a setting that gives the same hash; a failure is never the setting itself.
CryptRight(key, setting, works) ==
    LET out == crypt_r(key, setting, works)
    IN  IF out \in {Star, <<120>>} THEN out # setting ELSE crypt_r(key, out, works) = out
\* Decryption undoes encryption.
DesRight(block, keychars) ==
    LET ekey == setkey(keychars) IN encrypt(encrypt(block, FALSE, ekey), TRUE, ekey) = [i \in 1..64 |-> block[i] % 2]
\* No bit of a result is lost in its eleven characters.
ElevenRight(r) ==
    LET Text(b) == Eleven(SubSeq(b, 1, WORD), From(b, WORD + 1))
    IN  \A i \in DOMAIN r : Text(r) # Text([r EXCEPT ![i] = 1 - @])
=============================================================================
