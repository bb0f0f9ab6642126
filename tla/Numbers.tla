------------------------------ MODULE Numbers ------------------------------
(***************************************************************************)
(* Numbers as sequences of limbs, the least significant first: those of a  *)
(* fixed size that verify ECDSA (rmbl_ecdsa.cpp) and those that grow, for  *)
(* RSA (rmbl_asn1.cpp, rmbl_bignum.h).  Value says which number one is.    *)
(***************************************************************************)
EXTENDS Fold, FiniteSets

CONSTANTS
    ByteBits,    \* bits of a byte (8)
    LimbBytes,   \* bytes of a limb (4)
    MaxLimbs     \* limbs of a number of fixed size (36)

LimbBits == ByteBits * LimbBytes
Limb     == 2 ^ LimbBits
Byte     == 2 ^ ByteBits

Larger(a, b)  == IF a > b THEN a ELSE b
Smaller(a, b) == IF a < b THEN a ELSE b

At(a, i) == IF i <= Len(a) THEN a[i] ELSE 0

Value(a) == Fold(LAMBDA acc, i : acc * Limb + a[Len(a) + 1 - i], 0, Each(Len(a), LAMBDA i : i))

\* Without leading zero limbs, but one
Trim(a) ==
    LET RECURSIVE Top(_)
        Top(n) == IF n > 1 /\ a[n] = 0 THEN Top(n - 1) ELSE n
    IN  SubSeq(a, 1, Top(Len(a)))

\* Leading zero limbs do not count
Cmp(a, b) ==
    LET RECURSIVE From(_)
        From(i) == IF i = 0 THEN 0
                   ELSE IF At(a, i) # At(b, i) THEN (IF At(a, i) < At(b, i) THEN -1 ELSE 1)
                   ELSE From(i - 1)
    IN  From(Larger(Len(a), Len(b)))

IsZero(a) == \A i \in 1 .. Len(a) : a[i] = 0

-----------------------------------------------------------------------------
(* Bytes, the most significant first.                                      *)

LimbOf(bytes, last) ==
    LET first == Larger(1, last - LimbBytes + 1)
    IN  Fold(LAMBDA acc, i : acc * Byte + bytes[first + i - 1], 0, Each(last - first + 1, LAMBDA i : i))

\* No more limbs than `most`: what is above them is cut off
FromBytesUpTo(bytes, most) ==
    LET limbs == Smaller(most, (Len(bytes) + LimbBytes - 1) \div LimbBytes)
    IN  IF limbs = 0 THEN <<0>>
        ELSE Trim(Each(limbs, LAMBDA i : LimbOf(bytes, Len(bytes) - (i - 1) * LimbBytes)))

FromBytes(bytes)    == FromBytesUpTo(bytes, MaxLimbs)
BigFromBytes(bytes) == FromBytesUpTo(bytes, Len(bytes))

ToBytes(a, len) ==
    Each(len, LAMBDA k : LET i == len - k
                         IN  (At(a, i \div LimbBytes + 1) \div Byte ^ (i % LimbBytes)) % Byte)

-----------------------------------------------------------------------------
(* Arithmetic, a limb at a time.                                           *)

Add(a, b) ==
    LET n == Smaller(MaxLimbs, Larger(Len(a), Len(b)) + 1)
        Limb_(acc, i) == LET s == At(a, i) + At(b, i) + acc.carry
                         IN  [limbs |-> Append(acc.limbs, s % Limb), carry |-> s \div Limb]
    IN  Trim(For(Limb_, [limbs |-> <<>>, carry |-> 0], 1, n).limbs)

\* Of numbers with a >= b
Sub(a, b) ==
    LET Limb_(acc, i) ==
            [limbs  |-> Append(acc.limbs, (a[i] + 2 * Limb - At(b, i) - acc.borrow) % Limb),
             borrow |-> IF a[i] < At(b, i) + acc.borrow THEN 1 ELSE 0]
    IN  Trim(For(Limb_, [limbs |-> <<>>, borrow |-> 0], 1, Len(a)).limbs)

\* r with a carry added at limb k, as far as it goes
RECURSIVE Carried(_, _, _)
Carried(r, k, carry) ==
    IF carry = 0 \/ k > Len(r) THEN r
    ELSE Carried([r EXCEPT ![k] = (@ + carry) % Limb], k + 1, (r[k] + carry) \div Limb)

\* One row of the multiplication: a[i] times b, added to r from limb i on
Row(r, a, b, i) ==
    LET Step(acc, j) ==
            LET cur == a[i] * b[j] + acc.r[i + j - 1] + acc.carry
            IN  IF i + j - 1 > Len(acc.r) THEN acc
                ELSE [r |-> [acc.r EXCEPT ![i + j - 1] = cur % Limb], carry |-> cur \div Limb]
        row == For(Step, [r |-> r, carry |-> 0], 1, Len(b))
    IN  Carried(row.r, i + Len(b), row.carry)

MulUpTo(a, b, most) ==
    Trim(For(LAMBDA r, i : Row(r, a, b, i), Each(Smaller(most, Len(a) + Len(b)), LAMBDA i : 0), 1, Len(a)))

Mul(a, b)    == MulUpTo(a, b, MaxLimbs)
BigMul(a, b) == MulUpTo(a, b, Len(a) + Len(b))

BitLength(a) ==
    LET RECURSIVE Bits(_), From(_)
        Bits(x) == IF x = 0 THEN 0 ELSE 1 + Bits(x \div 2)
        From(i) == IF i = 0 THEN 0
                   ELSE IF a[i] # 0 THEN (i - 1) * LimbBits + Bits(a[i])
                   ELSE From(i - 1)
    IN  From(Len(a))

Bit(a, i) == (At(a, i \div LimbBits + 1) \div 2 ^ (i % LimbBits)) % 2

\* Twice a number, and a bit more; a carry past `most` limbs is dropped
Shl1UpTo(a, bit, most) ==
    LET limbs == Each(Len(a), LAMBDA i : ((2 * a[i]) % Limb)
                                         + (IF i = 1 THEN bit ELSE (2 * a[i - 1]) \div Limb))
        carry == (2 * a[Len(a)]) \div Limb
    IN  IF carry > 0 /\ Len(a) < most THEN Append(limbs, carry) ELSE limbs

\* By shift and subtract, the top bit first
ModUpTo(a, m, most) ==
    LET bits == BitLength(a)
        Step(acc, i) == LET r == Shl1UpTo(acc, Bit(a, bits - i), most)
                        IN  IF Cmp(r, m) >= 0 THEN Sub(r, m) ELSE r
    IN  IF Cmp(a, m) < 0 THEN a ELSE For(Step, <<0>>, 1, bits)

Mod(a, m)    == ModUpTo(a, m, MaxLimbs)
BigMod(a, m) == Trim(ModUpTo(a, m, Len(a) + 1))

\* Of numbers below m
AddMod(a, b, m) == LET t == Add(a, b) IN IF Cmp(t, m) >= 0 THEN Sub(t, m) ELSE t
SubMod(a, b, m) == IF Cmp(a, b) >= 0 THEN Sub(a, b) ELSE Sub(Add(a, m), b)
MulMod(a, b, m) == Mod(Mul(a, b), m)

PowerBy(mulmod(_, _), base, e) ==
    LET bits == BitLength(e)
        Step(acc, i) == LET sq == mulmod(acc, acc)
                        IN  IF Bit(e, bits - i) = 1 THEN mulmod(sq, base) ELSE sq
    IN  For(Step, <<1>>, 1, bits)

ModExp(base, e, m)    == PowerBy(LAMBDA x, y : MulMod(x, y, m), Mod(base, m), e)
BigModExp(base, e, m) == PowerBy(LAMBDA x, y : BigMod(BigMul(x, y), m), BigMod(base, m), e)

\* By Fermat, of a prime p
InvMod(a, p) == ModExp(a, Sub(p, <<2>>), p)

-----------------------------------------------------------------------------
(* s^e mod n of a signature, padded to the modulus's length.               *)

CONSTANTS
    ModulusLimit,   \* bytes of the longest modulus (1024)
    ExponentLimit   \* bytes of the longest exponent (64)

RsaRecover(sig, modulus, exponent) ==
    LET s == BigFromBytes(sig)
        n == BigFromBytes(modulus)
    IN  IF <<>> \in {sig, modulus, exponent} THEN "refused"
        ELSE IF Len(modulus) > ModulusLimit \/ Len(exponent) > ExponentLimit THEN "refused"
        ELSE IF Len(sig) # Len(modulus) THEN "refused"
        ELSE IF IsZero(n) \/ Cmp(s, n) >= 0 THEN "refused"
        ELSE ToBytes(BigModExp(s, BigFromBytes(exponent), n), Len(modulus))

-----------------------------------------------------------------------------
(* What they should compute.                                               *)

NumberOf(bytes) == Fold(LAMBDA acc, b : acc * Byte + b, 0, bytes)

RECURSIVE Power(_, _, _)
Power(b, e, n) == IF e = 0 THEN 1 % n ELSE (b * Power(b, e - 1, n)) % n

\* The limbs compute with the numbers of the bytes: sums, differences, products, remainders
\* and the inverses modulo a prime are those of the integers
LimbsExact(x, y, m) ==
    LET a == FromBytes(x)
        b == FromBytes(y)
        n == FromBytes(m)
        va == NumberOf(x)
        vb == NumberOf(y)
        vn == NumberOf(m)
    IN  /\ Value(a) = va /\ ToBytes(a, Len(x)) = x
        /\ BigFromBytes(x) = a
        /\ Value(Add(a, b)) = va + vb
        /\ Value(Mul(a, b)) = va * vb /\ BigMul(a, b) = Mul(a, b)
        /\ va >= vb => Value(Sub(a, b)) = va - vb
        /\ (Cmp(a, b) >= 0) = (va >= vb)
        /\ vn > 0 => /\ Value(Mod(a, n)) = va % vn
                     /\ Value(BigMod(Mul(a, b), n)) = (va * vb) % vn
                     /\ va < vn /\ vb < vn =>
                            /\ Value(AddMod(a, b, n)) = (va + vb) % vn
                            /\ Value(SubMod(a, b, n)) = (va + vn - vb) % vn
        /\ vn \in {3, 5, 7, 11} /\ 0 < va /\ va < vn => (va * Value(InvMod(a, n))) % vn = 1

\* What is recovered from a signature is its power, as long as the modulus and below it, and
\* a signature has one encoding: another length or a number past the modulus is refused
RsaExact(sig, modulus, exponent) ==
    LET block == RsaRecover(sig, modulus, exponent)
        n     == NumberOf(modulus)
    IN  IF Len(sig) # Len(modulus) \/ NumberOf(sig) >= n THEN block = "refused"
        ELSE /\ Len(block) = Len(modulus)
             /\ NumberOf(exponent) > 0 => NumberOf(block) = Power(NumberOf(sig), NumberOf(exponent), n)
=============================================================================
