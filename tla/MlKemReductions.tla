--------------------------- MODULE MlKemReductions ---------------------------
(***************************************************************************)
(* The reductions of ML-KEM (src/rmbl_mlkem_arith.h) and its compression   *)
(* (src/rmbl_mlkem_body.h) by multiply and shift, of one integer.          *)
(***************************************************************************)
EXTENDS Integers

Q == 3329

Int16(x) == ((x + 32768) % 65536) - 32768

\* montgomery_reduce(): q^-1 is 62209, or -3327, modulo 2^16
MontgomeryReduce(a) ==
    LET t == Int16((a % 65536) * (-3327)) IN Int16((a - t * Q) \div 65536)

\* barrett_reduce(): the constant is (2^26 + q / 2) / q
BarrettReduce(a) ==
    LET t == (((67108864 + Q \div 2) \div Q) * a + 33554432) \div 67108864 IN Int16(a - Int16(t * Q))

\* to_positive()
ToPositive(a) == IF a < 0 THEN a + Q ELSE a

\* div_q(): the product with 10321340 = 2519 * 4096 + 3516, shifted right by 35
DivQ(n) ==
    LET high == n \div 4096
        low  == n % 4096
        carry == low * 3516
        mid   == high * 3516 + low * 2519 + carry \div 4096
    IN  (high * 2519 + mid \div 4096) \div 2048
ModQ(n) == n - Q * DivQ(n)

\* compress(), decompress()
Compress(x, d) == DivQ(ToPositive(BarrettReduce(x)) * 2 ^ d + Q \div 2) % 2 ^ d
Decompress(x, d) == (x * Q + 2 ^ (d - 1)) \div 2 ^ d

-----------------------------------------------------------------------------
(* Properties.                                                             *)

\* How large a reduced coefficient is
Centred  == Q \div 2                     \* barrett_reduce()
Montgomery == Q - 1                      \* montgomery_reduce()

\* The reductions give the residue they promise, and the shift divides exactly.
Reduces(a, n) ==
    LET m == MontgomeryReduce(a)
        b == BarrettReduce(Int16(a))
    IN  /\ m \in -Montgomery .. Montgomery /\ ((m * 2285) - a) % Q = 0
        /\ (b - Int16(a)) % Q = 0 /\ b \in -Centred .. Centred
        /\ DivQ(n) = n \div Q /\ ModQ(n) = n % Q

\* Compression is the nearest multiple (FIPS 203, 4.7), and its error is bounded.
Compresses(x, d) ==
    LET c == Compress(x, d)
        back == Decompress(c, d)
        err == LET e == (back - x) % Q IN IF e > Centred THEN Q - e ELSE e
    IN  /\ c = ((2 * x * 2 ^ d + Q) \div (2 * Q)) % 2 ^ d
        /\ Compress(back, d) = c
        /\ err <= (Q + 2 ^ d) \div 2 ^ (d + 1) + 1
=============================================================================
