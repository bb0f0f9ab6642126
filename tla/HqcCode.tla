------------------------------- MODULE HqcCode -------------------------------
(***************************************************************************)
(* The error-correcting code of HQC (src/rmbl_hqc_core.h): GF(2^8), the    *)
(* shortened Reed-Solomon code with its additive FFT, and the duplicated   *)
(* Reed-Muller code, at their real sizes.  A level is a record of its      *)
(* parameters; array element i of the code is element i + 1 here.          *)
(***************************************************************************)
EXTENDS Tables

HQC1 == [n1 |-> 46, k |-> 16, delta |-> 15, fft |-> 4, mult |-> 3]
HQC3 == [n1 |-> 56, k |-> 24, delta |-> 16, fft |-> 5, mult |-> 5]
HQC5 == [n1 |-> 90, k |-> 32, delta |-> 29, fft |-> 5, mult |-> 5]

-----------------------------------------------------------------------------
(* GF(2^8).                                                                *)

a \oplus b == XorBytes[a + 1][b + 1]
XorAll(seq) == Fold(LAMBDA x, y : x \oplus y, 0, seq)

\* make_tables(): element i + 1 is alpha^i, which doubles; x^8 folds to 0x1D
Double(a) == IF a < 128 THEN 2 * a ELSE ((2 * a) % 256) \oplus 29
Powers ==
    LET row == For(LAMBDA seq, i : Append(seq, Double(seq[i])), <<1>>, 1, 16)
        Next17(a) == For(LAMBDA x, i : Double(x), a, 1, 17)
    IN  For(LAMBDA seq, r : seq \o Each(17, LAMBDA i : Next17(seq[17 * (r - 1) + i])), row, 1, 14)
Exps(i) == Powers[(i % 255) + 1]
Logs == LET powers == Powers IN Each(255, LAMBDA a : CHOOSE i \in 0 .. 254 : powers[i + 1] = a)
Times(a, b) == IF a = 0 \/ b = 0 THEN 0 ELSE Exps(Logs[a] + Logs[b])

\* mul(): integer products of operands with holes of three bits, of which the bits under
\* the masks are kept; the high byte folds down twice
Bit(a, i) == (a \div 2 ^ i) % 2
HolePart(a, c) == Bit(a, c) * 2 ^ c + Bit(a, c + 4) * 2 ^ (c + 4)
KeptPart(p, c) == SumOf([i \in 1 .. 4 |-> Bit(p, 4 * (i - 1) + c) * 2 ^ (4 * (i - 1) + c)])
Wide(a, b) == 256 * ((a \div 256) \oplus (b \div 256)) + ((a % 256) \oplus (b % 256))
Product(a, b) ==
    LET Part(c) == For(LAMBDA acc, i : Wide(acc, HolePart(a, i) * HolePart(b, (c + 4 - i) % 4)), 0, 0, 3)
    IN  SumOf([c \in 1 .. 4 |-> KeptPart(Part(c - 1), c - 1)])
FoldHigh(p) ==
    LET hi == p \div 256 IN Wide(Wide(Wide(p % 256, hi), 4 * hi), Wide(8 * hi, 16 * hi))
Mul(a, b) == FoldHigh(FoldHigh(Product(a, b)))

\* inverse(): a^254 by an addition chain
Square(a) == Times(a, a)
InverseOf(a) ==
    LET a2 == Square(a)
        a3 == Times(a2, a)
        a4 == Square(a2)
        a7 == Times(a4, a3)
        a11 == Times(a4, a7)
        a15 == Times(a11, a4)
        a120 == Square(Square(Square(a15)))
    IN  Square(Times(a120, a7))

-----------------------------------------------------------------------------
(* Reed-Muller, RM(1,7).                                                   *)

\* encode_byte(): 32 bits under the masks, then the four words
RmEncodeByte(m) ==
    LET base == Each(32, LAMBDA j :
            (Bit(m, 7) + SumOf([b \in 1 .. 5 |-> Bit(m, b - 1) * Bit(j - 1, b - 1)])) % 2)
        Flipped(word, b) == Each(32, LAMBDA j : (word[j] + b) % 2)
        u1 == Flipped(base, Bit(m, 5))
        u3 == Flipped(u1, Bit(m, 6))
        u2 == Flipped(u3, Bit(m, 5))
    IN  base \o u1 \o u2 \o u3

\* decode() of a byte: the sums of its copies, seven passes, the peak
Hadamard(p) ==
    Each(128, LAMBDA i : IF i <= 64 THEN p[2 * i - 1] + p[2 * i] ELSE p[2 * i - 129] - p[2 * i - 128])
Peak(p) ==
    LET Abs(v) == IF v < 0 THEN -v ELSE v
    IN  For(LAMBDA best, q : IF Abs(p[q]) > best.abs THEN [abs |-> Abs(p[q]), val |-> p[q], pos |-> q - 1] ELSE best,
            [abs |-> 0, val |-> 0, pos |-> 0], 1, 128)
RmDecodeByte(copies) ==
    LET sums == Each(128, LAMBDA b : SumOf([c \in DOMAIN copies |-> copies[c][b]]))
        out  == For(LAMBDA p, pass : Hadamard(p), sums, 1, 7)
        best == Peak(<<out[1] - 64 * Len(copies)>> \o Tail(out))
    IN  best.pos + (IF best.val > 0 THEN 128 ELSE 0)

-----------------------------------------------------------------------------
(* Reed-Solomon.                                                           *)

\* Gen: the product of x - alpha^i, i in 1 .. 2 * delta
Gen(p) ==
    For(LAMBDA g, i : Each(i + 1, LAMBDA j : (IF j > 1 THEN g[j - 1] ELSE 0) \oplus
                                             (IF j <= i THEN Times(g[j], Exps(i)) ELSE 0)),
        <<1>>, 1, 2 * p.delta)

\* encode(): the register is shifted by each message byte, last byte first
RsEncode(p, msg) ==
    LET red == p.n1 - p.k
        gen == Gen(p)
        Shift(b, i) ==
            LET gate == msg[p.k + 1 - i] \oplus b[red]
            IN  Each(red, LAMBDA k : (IF k > 1 THEN b[k - 1] ELSE 0) \oplus Times(gate, gen[k]))
    IN  For(Shift, Each(red, LAMBDA k : 0), 1, p.k) \o msg

Syndromes(p, c) ==
    Each(2 * p.delta, LAMBDA i : XorAll(Each(p.n1, LAMBDA j : Times(c[j], Exps(i * (j - 1))))))

\* elp(): one step of Berlekamp's algorithm, the masks as conditions
ElpStep(p, syn, s, mu) ==
    LET dd    == Times(s.d, InverseOf(s.dp))
        sigma == Each(p.delta + 1, LAMBDA i :
                    IF 1 < i /\ i <= mu + 2 THEN s.sigma[i] \oplus Times(dd, s.xp[i]) ELSE s.sigma[i])
        degX  == mu - s.pp + s.degP
        jump  == s.d # 0 /\ s.deg < degX
        from  == IF jump THEN s.sigma ELSE s.xp
        last  == mu = 2 * p.delta - 1
    IN  [sigma |-> sigma, deg |-> IF jump THEN degX ELSE s.deg,
         pp |-> IF jump THEN mu ELSE s.pp, dp |-> IF jump THEN s.d ELSE s.dp,
         degP |-> IF jump THEN s.deg ELSE s.degP,
         xp |-> <<0>> \o Each(p.delta, LAMBDA i : from[i]),
         d  |-> IF last THEN 0
                ELSE XorAll(<<syn[mu + 2]>> \o Each(IF mu + 1 < p.delta THEN mu + 1 ELSE p.delta,
                                                     LAMBDA i : Times(sigma[i + 1], syn[mu + 2 - i])))]

Elp(p, syn) ==
    LET Unit(i) == Each(p.delta + 1, LAMBDA j : IF j = i THEN 1 ELSE 0)
        start == [sigma |-> Unit(1), deg |-> 0, pp |-> -1, dp |-> 1, degP |-> 0, xp |-> Unit(2), d |-> syn[1]]
    IN  For(LAMBDA s, mu : ElpStep(p, syn, s, mu), start, 0, 2 * p.delta - 1)

-----------------------------------------------------------------------------
(* The additive FFT: the locator at every element of the field.            *)

SubsetSums(set) == Fold(LAMBDA sums, b : sums \o Each(Len(sums), LAMBDA j : b \oplus sums[j]), <<0>>, set)

\* radix(): f(x) = f0(x^2 + x) + x * f1(x^2 + x), written out up to 16 coefficients
Radix2(f) ==
    LET a1 == f[3] \oplus f[4] IN <<<<f[1], a1>>, <<f[2] \oplus a1, f[4]>>>>
Radix3(f) ==
    LET a2 == f[5] \oplus f[7]
        b1 == f[4] \oplus f[6] \oplus f[8]
        a1 == f[3] \oplus a2 \oplus b1
    IN  <<<<f[1], a1, a2, f[7] \oplus f[8]>>, <<f[2] \oplus a1, b1, f[6] \oplus f[7], f[8]>>>>
Radix4(f) ==
    LET a4 == f[9] \oplus f[13]
        b5 == f[12] \oplus f[14]
        a5 == f[11] \oplus f[13] \oplus b5
        b3 == f[8] \oplus f[12] \oplus f[16]
        a3 == f[7] \oplus f[11] \oplus f[15] \oplus b3
        a2 == f[5] \oplus a4 \oplus a3 \oplus b3
        b1 == f[4] \oplus f[6] \oplus f[10] \oplus f[14] \oplus b3
        b2 == f[4] \oplus b1 \oplus a3
        a1 == f[3] \oplus a2 \oplus b1
    IN  <<<<f[1], a1, a2, a3, a4, a5, f[13] \oplus f[15], f[15] \oplus f[16]>>,
          <<f[2] \oplus a1, b1, b2, b3, f[10] \oplus f[14] \oplus a5, b5, f[14] \oplus f[15], f[16]>>>>

\* radix_big(): quotient and remainder by (x^2 + x)^n, each converted
RECURSIVE Radix(_, _)
Radix(f, mf) ==
    LET n == 2 ^ (mf - 2)
        q == Each(2 * n, LAMBDA i : IF i <= n THEN f[3 * n + i] \oplus f[2 * n + i] ELSE f[2 * n + i])
        r == Each(2 * n, LAMBDA i : IF i <= n THEN f[i] ELSE f[i] \oplus q[i - n])
        qs == Radix(q, mf - 1)
        rs == Radix(r, mf - 1)
    IN  CASE mf = 2 -> Radix2(f)
          [] mf = 3 -> Radix3(f)
          [] mf = 4 -> Radix4(f)
          [] OTHER  -> <<rs[1] \o qs[1], rs[2] \o qs[2]>>

\* Values at u + the sums of the basis, from the values of f0 and f1
Join(u, v, sums) ==
    LET low == Each(Len(u), LAMBDA i : u[i] \oplus Times(sums[i], v[i]))
    IN  low \o Each(Len(u), LAMBDA i : v[i] \oplus low[i])

RECURSIVE Rec(_, _, _, _)
Rec(f, coeffs, mf, betas) ==
    LET m      == Len(betas)
        last   == betas[m]
        scaled == Each(Len(f), LAMBDA i : IF f[i] = 0 THEN 0 ELSE Times(Exps(Logs[last] * (i - 1)), f[i]))
        parts  == Radix(scaled, mf)
        gammas == Each(m - 1, LAMBDA i : Times(betas[i], InverseOf(last)))
        deltas == Each(m - 1, LAMBDA i : Square(gammas[i]) \oplus gammas[i])
        u      == Rec(parts[1], (coeffs + 1) \div 2, mf - 1, deltas)
        v      == IF coeffs <= 3 THEN Each(Len(u), LAMBDA i : parts[2][1])
                  ELSE Rec(parts[2], coeffs \div 2, mf - 1, deltas)
        line   == SubsetSums(Each(m, LAMBDA i : Times(betas[i], f[2])))
    IN  IF mf = 1 THEN Each(2 ^ m, LAMBDA i : f[1] \oplus line[i])
        ELSE Join(u, v, SubsetSums(gammas))

\* betas_of(), run()
Betas == Each(7, LAMBDA i : 2 ^ (8 - i))
Run(p, sigma) ==
    LET f      == Each(2 ^ p.fft, LAMBDA i : IF i <= p.delta + 1 THEN sigma[i] ELSE 0)
        parts  == Radix(f, p.fft)
        deltas == Each(7, LAMBDA i : Square(Betas[i]) \oplus Betas[i])
    IN  Join(Rec(parts[1], (p.delta + 2) \div 2, p.fft - 1, deltas),
             Rec(parts[2], (p.delta + 1) \div 2, p.fft - 1, deltas), SubsetSums(Betas))

\* error_poly(): an error at i where alpha^-i is a root
ErrorPoly(w) ==
    LET sums == SubsetSums(Betas)
    IN  {i \in {0} : w[129] = 0} \cup {255 - Logs[sums[i]] : i \in {j \in 2 .. 128 : w[j] = 0}}
        \cup {255 - Logs[sums[i] \oplus 1] : i \in {j \in 2 .. 128 : w[128 + j] = 0}}

\* z_poly()
ZPoly(p, sigma, degree, syn) ==
    LET Z(i) == IF i > degree THEN 0
                ELSE XorAll(<<sigma[i + 1], syn[i]>> \o Each(i - 1, LAMBDA j : Times(sigma[j + 1], syn[i - j])))
    IN  <<1>> \o Each(p.delta, LAMBDA i : IF i = 1 /\ degree = 0 THEN syn[1] ELSE Z(i))

\* error_values(): Forney's formula over the first delta positions
ErrorValues(p, z, errors) ==
    LET found  == SelectSeq(Each(p.n1, LAMBDA i : i - 1), LAMBDA i : i \in errors)
        real   == IF Len(found) < p.delta THEN Len(found) ELSE p.delta
        beta   == Each(p.delta, LAMBDA j : IF j <= real THEN Exps(found[j]) ELSE 0)
        Value(j) ==
            LET inv    == InverseOf(beta[j])
                powers == Fold(LAMBDA seq, i : Append(seq, Times(seq[i], inv)), <<1>>, Each(p.delta, LAMBDA i : i))
                t1 == XorAll(Each(p.delta + 1, LAMBDA i : Times(powers[i], z[i])))
                t2 == For(LAMBDA t, k : Times(t, 1 \oplus Times(inv, beta[((j - 1 + k) % p.delta) + 1])), 1, 1, p.delta - 1)
            IN  Times(t1, InverseOf(t2))
        values == Each(real, Value)
    IN  Each(p.n1, LAMBDA i : XorAll(Each(real, LAMBDA j : IF found[j] = i - 1 THEN values[j] ELSE 0)))

RsDecode(p, c) ==
    LET syn    == Syndromes(p, c)
        s      == Elp(p, syn)
        errors == ErrorPoly(Run(p, s.sigma))
        ev     == ErrorValues(p, ZPoly(p, s.sigma, s.deg, syn), errors)
    IN  Each(p.k, LAMBDA i : c[p.n1 - p.k + i] \oplus ev[p.n1 - p.k + i])

-----------------------------------------------------------------------------
(* Properties.                                                             *)

\* The products with holes are the products of the field, and the chain inverts.
FieldExact(a, bs) ==
    /\ \A b \in bs : Mul(a, b) = Times(a, b)
    /\ Times(a, InverseOf(a)) = (IF a = 0 THEN 0 ELSE 1)

\* The FFT evaluates: its values are the polynomial's at every sum of the basis.
FftEvaluates(p, f) ==
    LET w == Run(p, f)
        At(x) == XorAll(Each(Len(f), LAMBDA i : IF f[i] = 0 \/ (x = 0 /\ i > 1) THEN 0
                                                ELSE IF i = 1 THEN f[1]
                                                ELSE Times(f[i], Exps(Logs[x] * (i - 1)))))
        sums == SubsetSums(Betas)
    IN  \A i \in 1 .. 128 : w[i] = At(sums[i]) /\ w[128 + i] = At(sums[i] \oplus 1)

\* Any delta wrong bytes are corrected, wherever they are.
RsCorrects(p, msg, errors) ==
    LET cdw == RsEncode(p, msg)
        hit == Each(p.n1, LAMBDA i : IF i \in DOMAIN errors THEN cdw[i] \oplus errors[i] ELSE cdw[i])
    IN  /\ \A i \in 1 .. 2 * p.delta : Syndromes(p, cdw)[i] = 0
        /\ RsDecode(p, hit) = msg

\* A byte survives fewer wrong bits, over all its copies, than half their distance.
RmCorrects(byte, flips) ==
    LET word == RmEncodeByte(byte)
    IN  RmDecodeByte(Each(Len(flips), LAMBDA c : Each(128, LAMBDA b :
            IF b \in flips[c] THEN 1 - word[b] ELSE word[b]))) = byte
=============================================================================
