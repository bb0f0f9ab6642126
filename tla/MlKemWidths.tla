----------------------------- MODULE MlKemWidths -----------------------------
(***************************************************************************)
(* The coefficients of ML-KEM (src/rmbl_mlkem_body.h): the intervals of    *)
(* compression, the packing of 1 to 12 bits per coefficient, and how large *)
(* the sums of a transform grow.                                           *)
(***************************************************************************)
EXTENDS Fold, FiniteSets, MlKemReductions

\* compress_intervals(): one pass over the residues
Intervals(d) ==
    LET c == Each(Q, LAMBDA x : Compress(x - 1, d))
        Prev(x) == IF x = 1 THEN c[Q] ELSE c[x - 1]
    IN  [k \in 0 .. 2 ^ d - 1 |->
            LET is == {x \in 1 .. Q : c[x] = k}
            IN  [lo |-> CHOOSE x \in 0 .. Q - 1 : x + 1 \in is /\ Prev(x + 1) # k, w |-> Cardinality(is)]]

\* byte_encode(): a cursor over the bits, and every bit written
Bit(v, b) == (v \div 2 ^ b) % 2
ByteEncode(a, d, canonical) ==
    LET V(i) == IF canonical THEN ToPositive(BarrettReduce(a[i])) ELSE a[i] % 2 ^ d
    IN  Each((Len(a) * d) \div 8, LAMBDA k : SumOf([b \in 1 .. 8 |->
            LET p == 8 * (k - 1) + b - 1 IN Bit(V(p \div d + 1), p % d) * 2 ^ (b - 1)]))

\* byte_decode()
ByteDecode(bytes, d) ==
    Each((8 * Len(bytes)) \div d, LAMBDA i : SumOf([b \in 1 .. d |->
        LET p == d * (i - 1) + b - 1 IN Bit(bytes[p \div 8 + 1], p % 8) * 2 ^ (b - 1)]))

-----------------------------------------------------------------------------
(* Bounds on the magnitude of a coefficient, through the calls.            *)

Fits16(x) == x \in -32768 .. 32767

\* ntt(): seven layers that add and do not reduce
NttPeak(input) == input + 7 * Montgomery

\* invntt(): a sum is reduced at once, a difference enters a product
InvNttPeak(input) == IF input > Montgomery THEN 2 * input ELSE 2 * Montgomery

\* basemul() adds two products, vec_dot() k of them before it reduces
VecDotPeak(k) == 2 * k * Montgomery

\* a product fits montgomery_reduce() when it is below 2^15 * q
ProductFits(x, y) == x * y < 32768 * Q

-----------------------------------------------------------------------------
(* Properties.                                                             *)

\* The intervals of the masked comparison are those of compression.
IntervalsExact(d) ==
    LET table == Intervals(d)
    IN  \A k \in 0 .. 2 ^ d - 1 :
            LET i == table[k]
            IN  i.w > 0 /\ i.w <= Q /\ \A e \in 0 .. i.w - 1 : Compress((i.lo + e) % Q, d) = k

\* Packing is a bijection on values of d bits, and canonical packing gives residues.
Packs(a, d) ==
    LET canonical == ByteEncode(a, 12, TRUE)
        short     == ByteEncode(a, d, FALSE)
    IN  /\ ByteDecode(short, d) = Each(Len(a), LAMBDA i : a[i] % 2 ^ d)
        /\ ByteEncode(ByteDecode(short, d), d, FALSE) = short
        /\ ByteDecode(canonical, 12) = Each(Len(a), LAMBDA i : a[i] % Q)

\* No sum of the transforms, the products and the noise leaves 16 bits, and every product
\* that is reduced is below 2^15 q, for each k.
NoOverflow(k) ==
    /\ Fits16(NttPeak(Q)) /\ Fits16(InvNttPeak(Centred)) /\ Fits16(VecDotPeak(k))
    /\ Fits16(Montgomery + Centred + 3)                      \* t, u + e
    /\ Fits16(Montgomery + 3 + (Q + 1) \div 2)               \* v + e2 + m
    /\ Fits16(Montgomery + Q) /\ Fits16(Montgomery + 2 * Q)  \* v - s u, the masked sums
    /\ ProductFits(4095, Q) /\ ProductFits(Centred, 32767) /\ ProductFits(1441, 32767)
=============================================================================
