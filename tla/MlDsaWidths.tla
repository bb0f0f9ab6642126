---------------------------- MODULE MlDsaWidths ----------------------------
(***************************************************************************)
(* ML-DSA (src/rmbl_mldsa_core.h, src/rmbl_mldsa_body.h) at its real       *)
(* modulus: the packed layouts of coefficients, and how large the 32-bit   *)
(* coefficients of a transform grow.                                       *)
(***************************************************************************)
EXTENDS Fold, MlDsaRoundings

-----------------------------------------------------------------------------
(* Packed fields.  Byte i of a group is the sum of pieces <<coefficient,   *)
(* shift to the right>>; coefficient i of the pieces <<byte, shift>>.      *)

Shifted(x, s) == IF s >= 0 THEN x \div 2 ^ s ELSE x * 2 ^ (-s)

Gather(pieces, from, width) ==
    Fold(LAMBDA acc, p : acc + Shifted(from[p[1] + 1], p[2]), 0, pieces) % 2 ^ width

PolyT1Pack   == << <<<<0, 0>>>>, <<<<0, 8>>, <<1, -2>>>>, <<<<1, 6>>, <<2, -4>>>>,
                   <<<<2, 4>>, <<3, -6>>>>, <<<<3, 2>>>> >>
PolyT1Unpack == << <<<<0, 0>>, <<1, -8>>>>, <<<<1, 2>>, <<2, -6>>>>, <<<<2, 4>>, <<3, -4>>>>,
                   <<<<3, 6>>, <<4, -2>>>> >>

PolyT0Pack   == << <<<<0, 0>>>>, <<<<0, 8>>, <<1, -5>>>>, <<<<1, 3>>>>, <<<<1, 11>>, <<2, -2>>>>,
                   <<<<2, 6>>, <<3, -7>>>>, <<<<3, 1>>>>, <<<<3, 9>>, <<4, -4>>>>, <<<<4, 4>>>>,
                   <<<<4, 12>>, <<5, -1>>>>, <<<<5, 7>>, <<6, -6>>>>, <<<<6, 2>>>>,
                   <<<<6, 10>>, <<7, -3>>>>, <<<<7, 5>>>> >>
PolyT0Unpack == << <<<<0, 0>>, <<1, -8>>>>, <<<<1, 5>>, <<2, -3>>, <<3, -11>>>>,
                   <<<<3, 2>>, <<4, -6>>>>, <<<<4, 7>>, <<5, -1>>, <<6, -9>>>>,
                   <<<<6, 4>>, <<7, -4>>, <<8, -12>>>>, <<<<8, 1>>, <<9, -7>>>>,
                   <<<<9, 6>>, <<10, -2>>, <<11, -10>>>>, <<<<11, 3>>, <<12, -5>>>> >>

PolyEtaPack(eta) ==
    IF eta = 2 THEN << <<<<0, 0>>, <<1, -3>>, <<2, -6>>>>,
                       <<<<2, 2>>, <<3, -1>>, <<4, -4>>, <<5, -7>>>>, <<<<5, 1>>, <<6, -2>>, <<7, -5>>>> >>
               ELSE << <<<<0, 0>>, <<1, -4>>>> >>
PolyEtaUnpack(eta) ==
    IF eta = 2 THEN << <<<<0, 0>>>>, <<<<0, 3>>>>, <<<<0, 6>>, <<1, -2>>>>, <<<<1, 1>>>>, <<<<1, 4>>>>,
                       <<<<1, 7>>, <<2, -1>>>>, <<<<2, 2>>>>, <<<<2, 5>>>> >>
               ELSE << <<<<0, 0>>>>, <<<<0, 4>>>> >>

PolyZPack(gamma1) ==
    IF gamma1 = 2 ^ 17
    THEN << <<<<0, 0>>>>, <<<<0, 8>>>>, <<<<0, 16>>, <<1, -2>>>>, <<<<1, 6>>>>, <<<<1, 14>>, <<2, -4>>>>,
            <<<<2, 4>>>>, <<<<2, 12>>, <<3, -6>>>>, <<<<3, 2>>>>, <<<<3, 10>>>> >>
    ELSE << <<<<0, 0>>>>, <<<<0, 8>>>>, <<<<0, 16>>, <<1, -4>>>>, <<<<1, 4>>>>, <<<<1, 12>>>> >>
PolyZUnpack(gamma1) ==
    IF gamma1 = 2 ^ 17
    THEN << <<<<0, 0>>, <<1, -8>>, <<2, -16>>>>, <<<<2, 2>>, <<3, -6>>, <<4, -14>>>>,
            <<<<4, 4>>, <<5, -4>>, <<6, -12>>>>, <<<<6, 6>>, <<7, -2>>, <<8, -10>>>> >>
    ELSE << <<<<0, 0>>, <<1, -8>>, <<2, -16>>>>, <<<<2, 4>>, <<3, -4>>, <<4, -12>>>> >>

PolyW1Pack(den) ==
    IF den = 88 THEN << <<<<0, 0>>, <<1, -6>>>>, <<<<1, 2>>, <<2, -4>>>>, <<<<2, 4>>, <<3, -2>>>> >>
                ELSE << <<<<0, 0>>, <<1, -4>>>> >>

\* The layouts of a parameter set: how wide a field is, how many make a group, and what
\* is stored for coefficient a
Layouts(p) ==
    [t1  |-> [width |-> 10, pack |-> PolyT1Pack, unpack |-> PolyT1Unpack],
     t0  |-> [width |-> 13, pack |-> PolyT0Pack, unpack |-> PolyT0Unpack],
     eta |-> [width |-> IF p.eta = 2 THEN 3 ELSE 4, pack |-> PolyEtaPack(p.eta), unpack |-> PolyEtaUnpack(p.eta)],
     z   |-> [width |-> IF p.gamma1 = 2 ^ 17 THEN 18 ELSE 20, pack |-> PolyZPack(p.gamma1),
              unpack |-> PolyZUnpack(p.gamma1)],
     w1  |-> [width |-> IF p.den = 88 THEN 6 ELSE 4, pack |-> PolyW1Pack(p.den), unpack |-> <<>>]]

Pack(layout, fields)  == Each(Len(layout.pack), LAMBDA i : Gather(layout.pack[i], fields, 8))
Unpack(layout, bytes) == Each(Len(layout.unpack), LAMBDA i : Gather(layout.unpack[i], bytes, layout.width))

\* The bytes of 256 coefficients, of a key pair and of a signature
PackedBytes(layout) == 32 * layout.width
PkBytes(p)  == 32 + p.k * PackedBytes(Layouts(p).t1)
SkBytes(p)  == 128 + (p.k + p.l) * PackedBytes(Layouts(p).eta) + p.k * PackedBytes(Layouts(p).t0)
SigBytes(p) == p.ctilde + p.l * PackedBytes(Layouts(p).z) + p.omega + p.k

\* The layout FIPS 204 asks for: the fields one after the other, least bit first
Stream(width, fields) ==
    LET Bit(k) == (fields[k \div width + 1] \div 2 ^ (k % width)) % 2
    IN  Each((Len(fields) * width) \div 8, LAMBDA i :
            SumOf([b \in 1 .. 8 |-> Bit(8 * (i - 1) + b - 1) * 2 ^ (b - 1)]))

\* Public key, private key and signature are as long as the standard says.
SizesOfStandard ==
    [mode \in {44, 65, 87} |-> CASE mode = 44 -> <<1312, 2560, 2420>>
                               [] mode = 65 -> <<1952, 4032, 3309>>
                               [] mode = 87 -> <<2592, 4896, 4627>>]
SizesExact(mode) ==
    LET p == Params[mode] IN <<PkBytes(p), SkBytes(p), SigBytes(p)>> = SizesOfStandard[mode]

\* A group of fields is packed as the standard's stream of bits, and read back.
PackedAsStream(layout, fields) ==
    LET bytes == Pack(layout, fields)
    IN  /\ bytes = Stream(layout.width, fields)
        /\ layout.unpack # <<>> => Unpack(layout, bytes) = fields

-----------------------------------------------------------------------------
(* Growth.  Coefficients are 32-bit integers that are not reduced on the   *)
(* way; bounds on them are in units of q, and 256 q < 2 ^ 31.  A           *)
(* Montgomery product of a and b is below q when a * b is at most 256 q q. *)

Room == (2 ^ 30) \div (Q \div 2)

Product(a, b) == IF a * b <= Room THEN 1 ELSE Room + 1

\* ntt(): each of eight layers adds a product to each coefficient
Ntt(b) == For(LAMBDA acc, layer : acc + Product(1, acc), b, 1, 8)

\* invntt_tomont(): a layer adds the halves of a block; the upper half becomes a product
InvNttLayer(bounds, len) ==
    Each(256, LAMBDA j :
        IF ((j - 1) \div len) % 2 = 0 THEN bounds[j] + bounds[j + len]
        ELSE Product(1, bounds[j] + bounds[j - len]))
InvNtt(b) == For(LAMBDA acc, layer : InvNttLayer(acc, 2 ^ (layer - 1)), [j \in 1 .. 256 |-> b], 1, 8)
InvNttFits(b) == b <= Room /\ LET out == InvNtt(b) IN \A j \in 1 .. 256 : out[j] <= Room

\* A row of A times a vector: a sum of l products
RowTimes(p, b) == p.l * Product(1, b)

Reduced(b) == IF b <= Room THEN 1 ELSE Room + 1

\* A y, A s1: transformed, multiplied, reduced and transformed back
RowFits(p, b) == InvNttFits(Reduced(RowTimes(p, Ntt(b))))

\* c times a secret polynomial
TimesChallengeFits(b) == InvNttFits(Product(Ntt(1), Ntt(b)))

\* A z - c t1 2^13, with t1 below 2^10
VerifierRowFits(p) == InvNttFits(Reduced(RowTimes(p, Ntt(1)) + Product(Ntt(1), Ntt(2))))

\* No coefficient of keygen, sign or verify leaves 32 bits.
NoOverflow(p) == RowFits(p, 1) /\ TimesChallengeFits(1) /\ VerifierRowFits(p)
=============================================================================
