------------------------------- MODULE Masked -------------------------------
(***************************************************************************)
(* The masking gadgets of src/rmbl_masked.h on one lane of their 32: a bit *)
(* is a pair of shares, a Boolean number the sequence of its bits, lowest  *)
(* first.  Fresh randomness is a coin, named by the path of calls that     *)
(* tosses it.                                                              *)
(***************************************************************************)
EXTENDS Fold

CONSTANTS
    Q,        \* the modulus (Mod.q)
    Bits      \* the width of a comparison (Mod.bits)

\* The name of the k-th toss, or of the k-th call, under path g
At(g, k) == (g * 75 + k * 1021 + 74) % 65537
Coin(g)  == (At(g, 7) \div 32) % 2

Bit(n, i)     == (n \div 2 ^ (i - 1)) % 2
Open(x)       == (x[1] + x[2]) % 2
Number(z)     == SumOf([i \in 1 .. Len(z) |-> Open(z[i]) * 2 ^ (i - 1)])
Zeros(n)      == [i \in 1 .. n |-> <<0, 0>>]

\* xor2(), not2(), m_pub() 0 and 1, and Trichina's and2()
Xor2(x, y)    == <<(x[1] + y[1]) % 2, (x[2] + y[2]) % 2>>
Not2(x)       == <<1 - x[1], x[2]>>
XorPub(x, c)  == <<(x[1] + c) % 2, x[2]>>
AndPub(x, c)  == <<x[1] * c, x[2] * c>>
And2(x, y, g) == <<Coin(g), (Coin(g) + x[1] * y[1] + x[1] * y[2] + x[2] * y[1] + x[2] * y[2]) % 2>>

\* cadd_mod()
CaddMod(v) == IF v < 0 THEN v + Q ELSE v

\* boolean_of_share(): the bits of one arithmetic share, masked anew
BooleanOfShare(v, g) ==
    Each(Bits, LAMBDA i : <<(Bit(v, i) + Coin(At(g, i))) % 2, Coin(At(g, i))>>)

\* sec_add(): the last carry is not computed
SecAdd(x, y, bits, g) ==
    LET Digit(acc, i) ==
            LET p == Xor2(x[i], y[i])
            IN  [z |-> Append(acc.z, Xor2(p, acc.carry)),
                 carry |-> IF i = bits THEN acc.carry
                           ELSE Xor2(And2(x[i], y[i], At(g, 2 * i)), And2(acc.carry, p, At(g, 2 * i + 1)))]
    IN  For(Digit, [z |-> <<>>, carry |-> <<0, 0>>], 1, bits).z

\* sec_add_public()
SecAddPublic(x, c, bits, g) ==
    LET Digit(acc, i) ==
            LET p == XorPub(x[i], Bit(c, i))
            IN  [z |-> Append(acc.z, Xor2(p, acc.carry)),
                 carry |-> IF i = bits THEN acc.carry
                           ELSE Xor2(AndPub(x[i], Bit(c, i)), And2(acc.carry, p, At(g, i)))]
    IN  For(Digit, [z |-> <<>>, carry |-> <<0, 0>>], 1, bits).z

\* sec_less(), sec_less_const(): the sign of x - c
SecLess(x, c, g) == SecAddPublic(x, 2 ^ Bits - c, Bits, g)[Bits]

\* share_sum()
ShareSum(a, g) == SecAdd(BooleanOfShare(a[1], At(g, 1)), BooleanOfShare(a[2], At(g, 2)), Bits, At(g, 3))

\* sec_select()
SecSelect(s, x, y, g) ==
    Each(Len(x), LAMBDA i : Xor2(y[i], And2(s, Xor2(x[i], y[i]), At(g, i))))

\* sec_reduce_q()
SecReduce(t, g) ==
    LET less == SecAddPublic(t, 2 ^ Bits - Q, Bits, At(g, 1))
    IN  SecSelect(SecLess(t, Q, At(g, 2)), t, less, At(g, 3))

\* sec_all_lanes(), on the 32 lanes of a word; a shift brings in zeros
SecAllLanes(x, g) ==
    LET Shifted(a, k) == Each(32, LAMBDA j : IF j + k <= 32 THEN a[j + k] ELSE <<0, 0>>)
        Halve(a, k)   == LET t == Shifted(a, 2 ^ (5 - k))
                         IN  Each(32, LAMBDA j : And2(a[j], t[j], At(At(g, k), j)))
    IN  For(Halve, x, 1, 5)[1]

\* sec_decode1(): Compress_1, from the sum of the shares, not reduced
SecDecode1(a, g) ==
    LET t == ShareSum(a, At(g, 1))
        L(k, i) == SecLess(t, k, At(g, 1 + i))
    IN  Xor2(And2(Not2(L(833, 1)), L(2497, 2), At(g, 6)), And2(Not2(L(4162, 3)), L(5826, 4), At(g, 7)))

\* sec_in_interval(): (x - lo) mod q < w
SecInInterval(a, lo, w, g) ==
    LET t == ShareSum(<<CaddMod(a[1] - lo), a[2]>>, At(g, 1))
    IN  Xor2(SecLess(t, w, At(g, 2)),
             And2(Not2(SecLess(t, Q, At(g, 3))), SecLess(t, Q + w, At(g, 4)), At(g, 5)))

\* sec_b2a(), with the fresh share r that rand_mod() gives
SecB2A(v, r, g) ==
    LET y == SecAdd(v, BooleanOfShare(Q - r, At(g, 1)), Bits, At(g, 2))
    IN  <<Number(SecReduce(y, At(g, 3))), r>>

\* sec_cbd32(): the bits of the stream are shared; the sums are of two bits
SecCbd(bits, eta, r, g) ==
    LET Sum(from) == For(LAMBDA acc, k :
                             SecAdd(acc, <<bits[from + k], <<0, 0>>>>, 2, At(g, from + k)),
                         Zeros(2), 1, eta)
        Wide(z)   == z \o Zeros(Bits - Len(z))
        v1        == SecAdd(Wide(Sum(0)), Each(4, LAMBDA i : Not2(Wide(Sum(eta))[i])), 4, At(g, 31))
        a         == SecB2A(Wide(SecAddPublic(v1, eta + 1, 4, At(g, 32))), r, At(g, 33))
    IN  <<CaddMod(a[1] - eta), a[2]>>

-----------------------------------------------------------------------------
(* The gadgets of ML-DSA.                                                  *)

\* dsa_bprime()
DsaBPrime(a, gamma2, g) ==
    LET b  == SecAddPublic(SecReduce(ShareSum(a, At(g, 1)), At(g, 2)), gamma2 - 1, Bits, At(g, 3))
        bm == SecAddPublic(b, 2 ^ Bits - (Q - 1), Bits, At(g, 4))
    IN  SecSelect(SecLess(b, Q - 1, At(g, 5)), b, bm, At(g, 6))

\* dsa_reveal_highbits(): six comparisons, the highest bit first
DsaRevealHighBits(bp, gamma2, g) ==
    LET high == (Q - 1) \div (2 * gamma2)
        Search(w1, k) ==
            LET c   == w1 + 2 ^ (6 - k)
                thr == IF c <= high - 1 THEN 2 * c * gamma2 ELSE 2 ^ (Bits - 1) - 1
            IN  IF Open(SecLess(bp, thr, At(g, k))) = 0 THEN c ELSE w1
    IN  For(Search, 0, 1, 6)

\* mutant: the top interval, folded to 0, is treated like the others
DsaLowBitsOKFlat(bp, w1, gamma2, beta, g) ==
    LET base == 2 * gamma2 * w1
    IN  And2(Not2(SecLess(bp, base + beta, At(g, 1))), SecLess(bp, base + 2 * gamma2 - beta - 1, At(g, 2)), At(g, 3))

\* dsa_lowbits_ok()
DsaLowBitsOK(bp, w1, gamma2, beta, g) ==
    LET base == 2 * gamma2 * w1
        lo   == base + (IF w1 = 0 THEN beta + 1 ELSE beta)
    IN  And2(Not2(SecLess(bp, lo, At(g, 1))), SecLess(bp, base + 2 * gamma2 - beta - 1, At(g, 2)), At(g, 3))

\* AllOk: the AND of every word added, and the one bit of it
AllWords(words, g) ==
    Fold(LAMBDA acc, w : Each(32, LAMBDA j : And2(acc[j], w[j], At(g, j))),
         [j \in 1 .. 32 |-> <<1, 0>>], words)
AllOk(words, g) == Open(SecAllLanes(AllWords(words, g), At(g, 40))) = 1

\* dsa_norm_acc()
DsaNormAcc(a, b, g) == SecInInterval(a, Q - b + 1, 2 * b - 1, g)

-----------------------------------------------------------------------------
(* Properties: what a gadget opens to is what FIPS 203 and FIPS 204 define *)
(* on the value that its input shares.                                     *)

Value(a) == (a[1] + a[2]) % Q
Shared(x, share) == <<(x - share) % Q, share>>

\* A bit of a message is one in [833, 2496], and an interval is one modulo q.
DecodesAndTests(x, share, lo, w, g) ==
    /\ Q = 3329 => Open(SecDecode1(Shared(x, share), g)) = (IF x \in 833 .. 2496 THEN 1 ELSE 0)
    /\ Open(SecInInterval(Shared(x, share), lo, w, g)) = (IF (x - lo) % Q < w THEN 1 ELSE 0)

\* A sample is the difference of two sums of eta bits, and a fresh share.
SamplesCbd(stream, eta, r, g) ==
    LET bits == Each(2 * eta, LAMBDA i :
                    <<(Bit(stream, i) + Coin(At(g, 50 + i))) % 2, Coin(At(g, 50 + i))>>)
        a    == SecCbd(bits, eta, r, g)
    IN  /\ a[2] = r /\ a[1] \in 0 .. Q - 1
        /\ Value(a) = (SumOf([i \in 1 .. eta |-> Bit(stream, i) - Bit(stream, eta + i)])) % Q

\* The masked comparisons agree with Decompose of FIPS 204: the high bits, and whether
\* the low bits and the value itself stay inside their bounds.
RoundsLikeDecompose(x, share, gamma2, beta, g) ==
    LET a   == Shared(x, share)
        bp  == DsaBPrime(a, gamma2, At(g, 1))
        w1  == DsaRevealHighBits(bp, gamma2, At(g, 2))
        low == LET m == x % (2 * gamma2) IN IF m > gamma2 THEN m - 2 * gamma2 ELSE m
        top == x - low = Q - 1
        abs == LET l == IF top THEN low - 1 ELSE low IN IF l < 0 THEN -l ELSE l
        norm == IF x > (Q - 1) \div 2 THEN Q - x ELSE x
    IN  /\ w1 = (IF top THEN 0 ELSE (x - low) \div (2 * gamma2))
        /\ (Open(DsaLowBitsOK(bp, w1, gamma2, beta, At(g, 3))) = 1) <=> abs < gamma2 - beta
        /\ (Open(DsaNormAcc(a, gamma2 - beta, At(g, 4))) = 1) <=> norm < gamma2 - beta

\* All lanes of all words have to be one.
AllLanes(zeros, g) ==
    AllOk(Each(2, LAMBDA k : Each(32, LAMBDA j :
              LET c == Coin(At(g, 100 * k + j))
              IN  <<((IF <<k, j>> \in zeros THEN 0 ELSE 1) + c) % 2, c>>)), g)
        <=> zeros = {}
=============================================================================
