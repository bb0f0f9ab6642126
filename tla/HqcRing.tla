------------------------------- MODULE HqcRing -------------------------------
(***************************************************************************)
(* The binary polynomials of HQC (src/rmbl_hqc_core.h): the carry-less     *)
(* product of words made of integer products, Karatsuba over words, the    *)
(* reduction modulo x^N - 1, and the arithmetic of the two samplers.  A    *)
(* word is the sequence of its bits, lowest first.                         *)
(***************************************************************************)
EXTENDS Fold, FiniteSets

Zeros(n) == Each(n, LAMBDA i : 0)
Add(a, b) == Each(Len(a), LAMBDA i : (a[i] + b[i]) % 2)
ReverseOf(a) == Each(Len(a), LAMBDA i : a[Len(a) + 1 - i])
Slice(a, from, n) == SubSeq(a, from + 1, from + n)

\* The product of polynomials, in as many bits as both operands
Product(a, b) ==
    Each(2 * Len(a), LAMBDA k : Cardinality({i \in 1 .. Len(a) : k + 1 - i \in 1 .. Len(b) /\ a[i] = 1 /\ b[k + 1 - i] = 1}) % 2)

-----------------------------------------------------------------------------
(* bmul64(): multiplication with holes.                                    *)

\* The integer product modulo the word, of the operands' bits of two classes modulo 4
PartialProducts(x, y, cx, cy, k) ==
    Cardinality({i \in 0 .. k : i % 4 = cx /\ (k - i) % 4 = cy /\ x[i + 1] = 1 /\ y[k - i + 1] = 1})
IntegerProduct(x, y, cx, cy) ==
    LET Column(acc, k) == LET sum == acc.carry + PartialProducts(x, y, cx, cy, k)
                          IN  [carry |-> sum \div 2, bits |-> Append(acc.bits, sum % 2)]
    IN  For(Column, [carry |-> 0, bits |-> <<>>], 0, Len(x) - 1).bits

Bmul(x, y) ==
    LET parts(c) == Each(4, LAMBDA i : IntegerProduct(x, y, i - 1, (c + 5 - i) % 4))
        sum == Each(4, LAMBDA c : Fold(Add, Zeros(Len(x)), parts(c - 1)))
    IN  Each(Len(x), LAMBDA i : sum[((i - 1) % 4) + 1][i])

\* clmul_portable(): the high half from the reversed operands
Clmul(a, b) ==
    LET high == ReverseOf(Bmul(ReverseOf(a), ReverseOf(b)))
    IN  Bmul(a, b) \o Tail(high) \o <<0>>

-----------------------------------------------------------------------------
(* Karatsuba over n words of w bits, each product of words exact.          *)

School(a, b, w) ==
    LET n == Len(a) \div w
        WordAt(x, i) == Slice(x, (i - 1) * w, w)
        Into(r, i, j) ==
            LET p == Product(WordAt(a, i), WordAt(b, j))
                at == (i + j - 2) * w
            IN  Slice(r, 0, at) \o Add(Slice(r, at, 2 * w), p) \o Slice(r, at + 2 * w, Len(r) - at - 2 * w)
    IN  For(LAMBDA r, i : For(LAMBDA s, j : Into(s, i, j), r, 1, n), Zeros(2 * n * w), 1, n)

\* n words at a place of a longer number
Placed(x, at, len) == Zeros(at) \o x \o Zeros(len - at - Len(x))

RECURSIVE Karatsuba(_, _, _, _)
Karatsuba(a, b, w, cut) ==
    LET n  == Len(a) \div w
        n0 == n \div 2
        n1 == n - n0
        Halves(x) == Add(Slice(x, 0, n0 * w) \o Zeros((n1 - n0) * w), Slice(x, n0 * w, n1 * w))
        z0 == Karatsuba(Slice(a, 0, n0 * w), Slice(b, 0, n0 * w), w, cut)
        z2 == Karatsuba(Slice(a, n0 * w, n1 * w), Slice(b, n0 * w, n1 * w), w, cut)
        zm == Karatsuba(Halves(a), Halves(b), w, cut)
        mid == Add(zm, Add(z2, z0 \o Zeros(2 * (n1 - n0) * w)))
    IN  IF n <= cut THEN School(a, b, w)
        ELSE Add(Placed(z0, 0, 2 * n * w), Add(Placed(z2, 2 * n0 * w, 2 * n * w), Placed(mid, n0 * w, 2 * n * w)))

\* scratch_words(), and what the recursion uses
RECURSIVE ScratchWords(_)
ScratchWords(n) == IF n <= 1 THEN 0 ELSE 8 * n + ScratchWords(n - n \div 2)
RECURSIVE ScratchUsed(_, _)
ScratchUsed(n, cut) ==
    LET low  == ScratchUsed(n \div 2, cut)
        high == ScratchUsed(n - n \div 2, cut)
    IN  IF n <= cut THEN 0 ELSE 8 * n + (IF low > high THEN low ELSE high)

\* mul(): the words from N on come back at the bottom, N mod w bits lower, and the bits of
\* the last word above N are dropped
MulWith(prod, n, w) ==
    LET nw == (n + w - 1) \div w
        s  == n % w
        WordAt(i) == Slice(prod, (i - 1) * w, w)
        Low(i) == Slice(WordAt(i + nw - 1), s, w - s) \o Zeros(s)
        Carry(i) == Zeros(w - s) \o Slice(WordAt(i + nw), 0, s)
        out == Fold(LAMBDA r, i : r \o Add(WordAt(i), Add(Low(i), Carry(i))), <<>>, Each(nw, LAMBDA i : i))
    IN  Slice(out, 0, n) \o Zeros(nw * w - n)

-----------------------------------------------------------------------------
(* The samplers.  A draw of 24 or 32 bits is the sequence of its bytes,    *)
(* lowest first.                                                           *)

HQC1 == [n |-> 17669, w |-> 66, wr |-> 75, mu |-> 243079, thresh |-> 16767881]
HQC3 == [n |-> 35851, w |-> 100, wr |-> 114, mu |-> 119800, thresh |-> 16742417]
HQC5 == [n |-> 57637, w |-> 131, wr |-> 149, mu |-> 74517, thresh |-> 16772367]

\* (bytes * m) >> (8 * Len(bytes)): each byte leaves its carry to the next
High(bytes, m) == Fold(LAMBDA carry, b : (b * m + carry) \div 256, 0, bytes)
Remainder(bytes, n) == Fold(LAMBDA r, b : (r * 256 + b) % n, 0, [i \in 1 .. Len(bytes) |-> bytes[Len(bytes) + 1 - i]])

\* a - q * n for a small difference: its low 24 bits
Low24(bytes) == bytes[1] + 256 * bytes[2] + 65536 * bytes[3]
Difference(bytes, q, n) ==
    LET low == ((q % 256) * n + (((q \div 256) * n) % 65536) * 256) % 2 ^ 24
    IN  (Low24(bytes) - low) % 2 ^ 24

\* barrett() of a draw of 24 bits, and reduce() of one of 32 bits modulo n
OneSubtraction(r, n) == IF r >= n THEN r - n ELSE r
Barrett(p, bytes) == OneSubtraction(Difference(bytes, High(bytes \o <<0>>, p.mu), p.n), p.n)
Reduce(bytes, n) ==
    LET m == (2 ^ 30 \div n) * 4 + ((2 ^ 30 % n) * 4) \div n
    IN  OneSubtraction(Difference(bytes, High(bytes, m), n), n)

\* fixed_weight(): a position that a later one has becomes its own index
Support(n, draws) == Each(Len(draws), LAMBDA i : i - 1 + High(draws[i], n - i + 1))
Repaired(support) ==
    LET w == Len(support)
        Step(s, k) ==
            LET i == w - k
            IN  IF \E j \in i + 1 .. w : s[j] = s[i] THEN Each(w, LAMBDA x : IF x = i THEN i - 1 ELSE s[x])
                ELSE s
    IN  For(Step, support, 1, w - 1)

\* onehot64(): six shifts, each by a power of two
Onehot(k) == For(LAMBDA b, i : IF (k \div 2 ^ i) % 2 = 1 THEN b + 2 ^ i ELSE b, 0, 0, 5)
\* write_support(): the bit of each position, in the word that has its number
WriteSupport(support, words) ==
    {64 * word + Onehot(support[j] % 64) : <<word, j>> \in
        {wj \in (0 .. words - 1) \X DOMAIN support : wj[1] = support[wj[2]] \div 64}}

-----------------------------------------------------------------------------
(* Properties.                                                             *)

\* No carry of the integer products reaches a bit that is kept: the two halves are the
\* product of the polynomials.
ClmulExact(a, b) == Clmul(a, b) = Product(a, b)

\* Every splitting of the words multiplies, and the product modulo x^n - 1 is cyclic.
RingExact(a, b, n, w) ==
    LET nw == (n + w - 1) \div w
        P(x) == Slice(x, 0, n) \o Zeros(nw * w - n)
        prod == Product(P(a), P(b))
        Cyclic == Each(n, LAMBDA k : (prod[k] + prod[k + n]) % 2)
    IN  /\ \A cut \in 1 .. 3 : Karatsuba(P(a), P(b), w, cut) = prod
        /\ Slice(MulWith(prod, n, w), 0, n) = Cyclic

\* The recursion stays within the scratch at every level's size.
ScratchFits(p) ==
    LET nw == (p.n + 63) \div 64 IN \A cut \in {1, 16} : ScratchUsed(nw, cut) <= ScratchWords(nw)

\* One subtraction ends each reduction, and a draw below the threshold is as likely to
\* give one position as any other.
DrawsExact(p, bytes, i) ==
    /\ Barrett(p, SubSeq(bytes, 1, 3)) = Remainder(SubSeq(bytes, 1, 3), p.n)
    /\ Reduce(bytes, p.n - i) = Remainder(bytes, p.n - i)
    /\ p.thresh % p.n = 0 /\ p.thresh <= 2 ^ 24 /\ 2 ^ 24 - p.thresh < p.n

\* Distinct positions, as many as the weight, every one below n, each written once.
WeightExact(draws, n) ==
    LET s == Repaired(Support(n, draws))
        set == {s[i] : i \in DOMAIN s}
    IN  Cardinality(set) = Len(s) /\ set \subseteq 0 .. n - 1 /\ WriteSupport(s, (n + 63) \div 64) = set
=============================================================================
