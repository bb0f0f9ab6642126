------------------------------- MODULE Keccak -------------------------------
(***************************************************************************)
(* Keccak: the permutation and the sponge of src/rmbl_keccak.cpp, and the  *)
(* masked ones of src/rmbl_masked.h, with short lanes and few rounds.  A   *)
(* lane is a number of LaneBytes bytes, each of ByteBits bits; lane (x, y) *)
(* is element 1 + x + 5 * y of the state.                                  *)
(***************************************************************************)
EXTENDS Tables

CONSTANTS ByteBits, LaneBytes, Rounds

LaneBits == ByteBits * LaneBytes
Lanes    == 2 ^ LaneBits
ByteSize == 2 ^ ByteBits

X(a, b) == XorOf[a + 1][b + 1]
A(a, b) == AndOf[a + 1][b + 1]
Flip(a) == Lanes - 1 - a

\* kRC, kRho: the first rounds, cut to the lane
RC  == <<1, 130, 138, 0>>
Rho == <<0, 1, 62, 28, 27, 36, 44, 6, 55, 20, 3, 10, 43, 25, 39, 41, 45, 15, 21, 8, 18, 2, 61, 56, 14>>

\* rotl64()
Rotl(a, n) == LET k == n % LaneBits IN ((a * 2 ^ k) % Lanes) + ((a * 2 ^ k) \div Lanes)

\* theta, of both
Theta(a) ==
    LET c == Each(5, LAMBDA x : X(X(X(X(a[x], a[x + 5]), a[x + 10]), a[x + 15]), a[x + 20]))
        d == Each(5, LAMBDA x : X(c[((x + 3) % 5) + 1], Rotl(c[(x % 5) + 1], 1)))
    IN  Each(25, LAMBDA i : X(a[i], d[((i - 1) % 5) + 1]))

\* keccak_f1600(): where rho and pi put each lane, as the code has it line by line
PiTable == <<0, 10, 20, 5, 15, 16, 1, 11, 21, 6, 7, 17, 2, 12, 22, 23, 8, 18, 3, 13, 14, 24, 9, 19, 4>>
PiFrom  == [i \in 0 .. 24 |-> CHOOSE j \in 0 .. 24 : PiTable[j + 1] = i]
ChiTable ==
    <<<<1, 2>>, <<2, 3>>, <<3, 4>>, <<4, 0>>, <<0, 1>>, <<6, 7>>, <<7, 8>>, <<8, 9>>, <<9, 5>>, <<5, 6>>,
      <<11, 12>>, <<12, 13>>, <<13, 14>>, <<14, 10>>, <<10, 11>>, <<16, 17>>, <<17, 18>>, <<18, 19>>,
      <<19, 15>>, <<15, 16>>, <<21, 22>>, <<22, 23>>, <<23, 24>>, <<24, 20>>, <<20, 21>>>>
Round(a, round) ==
    LET t == Theta(a)
        b == Each(25, LAMBDA i : Rotl(t[PiFrom[i - 1] + 1], Rho[PiFrom[i - 1] + 1]))
        c == Each(25, LAMBDA i : X(b[i], A(Flip(b[ChiTable[i][1] + 1]), b[ChiTable[i][2] + 1])))
    IN  [c EXCEPT ![1] = X(@, RC[round] % Lanes)]
Permute(a) == For(Round, a, 1, Rounds)

-----------------------------------------------------------------------------
(* The sponge.                                                             *)

\* Byte n of the rate portion sits in lane n / LaneBytes
XorByte(s, n, v) ==
    [s EXCEPT ![n \div LaneBytes + 1] = X(@, v * ByteSize ^ (n % LaneBytes))]
ByteAt(s, n) == (s[n \div LaneBytes + 1] \div ByteSize ^ (n % LaneBytes)) % ByteSize

\* rmbl_keccak_init()
KeccakInit(rate, pad) ==
    [s |-> [i \in 1 .. 25 |-> 0], rate |-> rate, pad |-> pad, pos |-> 0, squeezing |-> FALSE]

\* mutant: whole lanes are taken wherever the position is
TakeUnaligned(s, pos, in) ==
    LET whole == Len(in) \div LaneBytes
        Lane(acc, k) ==
            [acc EXCEPT ![pos \div LaneBytes + k] =
                X(@, SumOf([j \in 1 .. LaneBytes |-> in[LaneBytes * (k - 1) + j] * ByteSize ^ (j - 1)]))]
    IN  For(LAMBDA acc, i : XorByte(acc, pos + i - 1, in[i]), For(Lane, s, 1, whole),
            whole * LaneBytes + 1, Len(in))

\* One turn of the loop of rmbl_keccak_absorb(), on the bytes that fit: whole lanes while
\* the position is at the start of one, then bytes
Take(s, pos, in) ==
    LET whole == IF pos % LaneBytes = 0 THEN Len(in) \div LaneBytes ELSE 0
        Lane(acc, k) ==
            [acc EXCEPT ![pos \div LaneBytes + k] =
                X(@, SumOf([j \in 1 .. LaneBytes |-> in[LaneBytes * (k - 1) + j] * ByteSize ^ (j - 1)]))]
    IN  For(LAMBDA acc, i : XorByte(acc, pos + i - 1, in[i]), For(Lane, s, 1, whole),
            whole * LaneBytes + 1, Len(in))

\* rmbl_keccak_absorb()
RECURSIVE Absorb(_, _)
Absorb(st, in) ==
    IF in = <<>> THEN st
    ELSE LET take == IF st.rate - st.pos < Len(in) THEN st.rate - st.pos ELSE Len(in)
             s    == Take(st.s, st.pos, SubSeq(in, 1, take))
             full == st.pos + take = st.rate
         IN  Absorb([st EXCEPT !.s = IF full THEN Permute(s) ELSE s, !.pos = IF full THEN 0 ELSE st.pos + take],
                    SubSeq(in, take + 1, Len(in)))

\* rmbl_keccak_finalize()
Finalize(st) ==
    [st EXCEPT !.s = Permute(XorByte(XorByte(st.s, st.pos, st.pad), st.rate - 1, ByteSize \div 2)),
               !.pos = 0, !.squeezing = TRUE]

\* rmbl_keccak_squeeze(): the state and what it gave
RECURSIVE Squeeze(_, _, _)
Squeeze(st, out, len) ==
    IF ~st.squeezing THEN Squeeze(Finalize(st), out, len)
    ELSE IF len = 0 THEN [st |-> st, out |-> out]
    ELSE LET ready == IF st.pos = st.rate THEN [st EXCEPT !.s = Permute(st.s), !.pos = 0] ELSE st
             give  == IF st.rate - ready.pos < len THEN st.rate - ready.pos ELSE len
         IN  Squeeze([ready EXCEPT !.pos = ready.pos + give],
                     out \o Each(give, LAMBDA i : ByteAt(ready.s, ready.pos + i - 1)), len - give)

\* rmbl_shake128(), rmbl_shake256(), rmbl_sha3_*()
OneShot(rate, pad, in, len) == Squeeze(Absorb(KeccakInit(rate, pad), in), <<>>, len).out

-----------------------------------------------------------------------------
(* The masked sponge: two shares of each lane.                             *)

\* A word of the random source, by the path that draws it
Draw(g, k) == LET n == (g * 75 + k * 1021 + 74) % 65537 IN (n \div 16) % Lanes
Sub(g, k)  == (g * 75 + k * 1021 + 74) % 65537

\* keccak_linear(): theta, rho and pi of one share, by their formulas
LinearFrom ==
    [i \in 1 .. 25 |->
        LET p == CHOOSE p \in (0 .. 4) \X (0 .. 4) : p[2] + (5 * ((2 * p[1] + 3 * p[2]) % 5)) + 1 = i
        IN  p[1] + 5 * p[2] + 1]
Linear(a) ==
    LET t == Theta(a) IN Each(25, LAMBDA i : Rotl(t[LinearFrom[i]], Rho[LinearFrom[i]]))

\* keccakf_masked(): chi with the complement on one share and a masked AND
MaskedRound(m, round, g) ==
    LET b0 == Linear(m[1])
        b1 == Linear(m[2])
        Next(i, n) == ((i - 1) \div 5) * 5 + ((i - 1 + n) % 5) + 1
        And1(i) == LET n0 == Flip(b0[Next(i, 1)])
                       c0 == b0[Next(i, 2)]
                       n1 == b1[Next(i, 1)]
                       c1 == b1[Next(i, 2)]
                   IN  X(X(X(X(Draw(g, i), A(n0, c0)), A(n0, c1)), A(n1, c0)), A(n1, c1))
        o0 == Each(25, LAMBDA i : X(b0[i], Draw(g, i)))
        o1 == Each(25, LAMBDA i : X(b1[i], And1(i)))
    IN  <<[o0 EXCEPT ![1] = X(@, RC[round] % Lanes)], o1>>
MaskedPermute(m, g) == For(LAMBDA acc, r : MaskedRound(acc, r, Sub(g, r)), m, 1, Rounds)

AddBytes(s, in) == For(LAMBDA acc, i : XorByte(acc, i - 1, in[i]), s, 1, Len(in))

\* sponge_masked(): the padding goes into one share, and a public tail has no second
RECURSIVE MaskedAbsorb(_, _, _, _, _, _)
MaskedAbsorb(m, in0, in1, rate, domain, g) ==
    LET take == IF Len(in0) < rate THEN Len(in0) ELSE rate
        s0   == AddBytes(m[1], SubSeq(in0, 1, take))
        s1   == IF in1 = <<>> THEN m[2] ELSE AddBytes(m[2], SubSeq(in1, 1, take))
    IN  IF take < rate
        THEN MaskedPermute(<<XorByte(XorByte(s0, take, domain), rate - 1, ByteSize \div 2), s1>>, g)
        ELSE MaskedAbsorb(MaskedPermute(<<s0, s1>>, g), SubSeq(in0, take + 1, Len(in0)),
                          SubSeq(in1, take + 1, Len(in1)), rate, domain, Sub(g, 9))
RECURSIVE MaskedSqueeze(_, _, _, _, _)
MaskedSqueeze(m, out, len, rate, g) ==
    LET take == IF len < rate THEN len ELSE rate
        more == [s \in 1 .. 2 |-> out[s] \o Each(take, LAMBDA i : ByteAt(m[s], i - 1))]
    IN  IF take >= len THEN more ELSE MaskedSqueeze(MaskedPermute(m, g), more, len - take, rate, Sub(g, 8))
SpongeMasked(len, in0, in1, rate, domain, g) ==
    LET zeros == [i \in 1 .. 25 |-> 0]
    IN  MaskedSqueeze(MaskedAbsorb(<<zeros, zeros>>, in0, in1, rate, domain, g), <<<<>>, <<>>>>, len,
                      rate, Sub(g, 7))

-----------------------------------------------------------------------------
(* Properties.                                                             *)

\* FIPS 202: pad the message to whole blocks, absorb them, then squeeze blocks.
Padded(in, rate, pad) ==
    LET short == rate - (Len(in) % rate)
    IN  in \o Each(short, LAMBDA i : (IF i = 1 THEN pad ELSE 0) + (IF i = short THEN ByteSize \div 2 ELSE 0))
Reference(rate, pad, in, len) ==
    LET all   == Padded(in, rate, pad)
        state == For(LAMBDA s, k : Permute(AddBytes(s, SubSeq(all, (k - 1) * rate + 1, k * rate))),
                     [i \in 1 .. 25 |-> 0], 1, Len(all) \div rate)
        At(i) == ByteAt(For(LAMBDA s, k : Permute(s), state, 1, (i - 1) \div rate), (i - 1) % rate)
    IN  Each(len, At)

\* However a message is cut into calls of absorb, and the output into calls of squeeze, the
\* bytes are those of the reference; the masked sponge opens to the same bytes.
SpongeExact(in, cuts, gives, rate, pad, g) ==
    LET len    == SumOf(gives)
        chunks == Fold(LAMBDA acc, c : [st |-> Absorb(acc.st, SubSeq(in, acc.at + 1, acc.at + c)), at |-> acc.at + c],
                           [st |-> KeccakInit(rate, pad), at |-> 0], cuts)
        out    == Fold(LAMBDA acc, n : Squeeze(acc.st, acc.out, n), [st |-> chunks.st, out |-> <<>>], gives)
        mask   == Each(Len(in), LAMBDA i : Draw(g, 60 + i) % ByteSize)
        opened == SpongeMasked(len, Each(Len(in), LAMBDA i : in[i] ^^ mask[i]), mask, rate, pad, g)
        public == SpongeMasked(len, in, <<>>, rate, pad, g)
        wanted == Reference(rate, pad, in, len)
    IN  /\ chunks.at = Len(in)
        /\ out.out = wanted /\ OneShot(rate, pad, in, len) = wanted
        /\ Each(len, LAMBDA i : opened[1][i] ^^ opened[2][i]) = wanted
        /\ Each(len, LAMBDA i : public[1][i] ^^ public[2][i]) = wanted
=============================================================================
