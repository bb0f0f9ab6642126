------------------------------- MODULE Ecdsa -------------------------------
(***************************************************************************)
(* The verification of ECDSA signatures (rmbl_ecdsa.cpp) on a small curve  *)
(* y^2 = x^3 - 3x + B of prime order.  The field is that of the integers   *)
(* modulo P, whose limbs are those of Numbers.                             *)
(***************************************************************************)
EXTENDS Fold, FiniteSets

CONSTANTS
    P, Order, B, Gx, Gy,  \* field, order of the group, curve, base point
    ByteBits,             \* bits of a byte (8)
    Width                 \* bytes of a field element (32, 48 or 66)

Byte == 2 ^ ByteBits
A    == P - 3

Number(bytes) == Fold(LAMBDA acc, b : acc * Byte + b, 0, bytes)

\* Of numbers below P, with one addition or subtraction of it
Times(a, b) == (a * b) % P
Plus(a, b)  == IF a + b >= P THEN a + b - P ELSE a + b
Minus(a, b) == IF a >= b THEN a - b ELSE a + P - b

Power(base, e, m) ==
    LET f[k \in Nat] == IF k = 0 THEN 1
                        ELSE LET half == f[k \div 2]
                             IN  IF k % 2 = 1 THEN (((half * half) % m) * base) % m ELSE (half * half) % m
    IN  f[e]

Inverse(a, m) == Power(a % m, m - 2, m)

-----------------------------------------------------------------------------
(* Points in Jacobian coordinates: (X : Y : Z) is (X/Z^2, Y/Z^3), and      *)
(* Z = 0 is the point at infinity.                                         *)

Infinity == [x |-> 1, y |-> 1, z |-> 0]
IsInfinity(q) == q.z = 0

\* For a curve with a = -3
Dbl(q) ==
    LET delta == Times(q.z, q.z)
        gamma == Times(q.y, q.y)
        beta  == Times(q.x, gamma)
        alpha == Times(Times(Minus(q.x, delta), Plus(q.x, delta)), 3)
        x3    == Minus(Times(alpha, alpha), Times(beta, 8))
        yz    == Plus(q.y, q.z)
    IN  IF IsInfinity(q) THEN q
        ELSE [x |-> x3,
              y |-> Minus(Times(alpha, Minus(Times(beta, 4), x3)), Times(Times(gamma, gamma), 8)),
              z |-> Minus(Minus(Times(yz, yz), gamma), delta)]

Sum(q, px, py) ==
    LET z2   == Times(q.z, q.z)
        h    == Minus(Times(px, z2), q.x)
        r    == Minus(Times(py, Times(z2, q.z)), q.y)
        twoH == Times(h, 2)
        i    == Times(twoH, twoH)
        j    == Times(h, i)
        twoR == Times(r, 2)
        v    == Times(q.x, i)
        x3   == Minus(Minus(Times(twoR, twoR), j), Times(v, 2))
        zh   == Plus(q.z, h)
    IN  [h |-> h, r |-> r,
         point |-> [x |-> x3,
                    y |-> Minus(Times(twoR, Minus(v, x3)), Times(Times(q.y, 2), j)),
                    z |-> Minus(Minus(Times(zh, zh), z2), Times(h, h))]]

\* A mutant: adding a point to itself
AddAffineAlike(q, px, py) ==
    IF IsInfinity(q) THEN [x |-> px, y |-> py, z |-> 1] ELSE Sum(q, px, py).point

\* A point and an affine one: the same point is doubled, its opposite gives infinity
AddAffine(q, px, py) ==
    LET s == Sum(q, px, py)
    IN  IF IsInfinity(q) THEN [x |-> px, y |-> py, z |-> 1]
        ELSE IF s.h # 0 THEN s.point
        ELSE IF s.r = 0 THEN Dbl([x |-> px, y |-> py, z |-> 1])
        ELSE Infinity

ToAffine(q) ==
    LET zi  == Inverse(q.z, P)
        zi2 == Times(zi, zi)
    IN  IF IsInfinity(q) THEN <<0, 0>> ELSE <<Times(q.x, zi2), Times(q.y, Times(zi2, zi))>>

BitLength(k) == CHOOSE n \in 0 .. k : 2 ^ n > k /\ \A m \in 0 .. n - 1 : 2 ^ m <= k

\* k times a point, by double-and-add
ScalarMul(k, px, py) ==
    LET bits == BitLength(k)
        Step(acc, i) == LET twice == Dbl(acc)
                        IN  IF (k \div 2 ^ (bits - i)) % 2 = 1 THEN AddAffine(twice, px, py) ELSE twice
    IN  For(Step, Infinity, 1, bits)

OnCurve(x, y) == Times(y, y) = Plus(Plus(Times(Times(x, x), x), Times(A, x)), B)

-----------------------------------------------------------------------------
(* The entry points.                                                       *)

\* The digest's leftmost bits, as many as the order has
DigestNumber(digest) ==
    LET bits   == BitLength(Order)
        want   == (bits + ByteBits - 1) \div ByteBits
        take   == IF Len(digest) < want THEN Len(digest) ELSE want
        e      == Number(SubSeq(digest, 1, take))
    IN  IF Len(digest) * ByteBits > bits THEN e \div 2 ^ (take * ByteBits - bits) ELSE e

EcdsaVerify(qx, qy, r, s, digest) ==
    LET x    == Number(qx)
        y    == Number(qy)
        nr   == Number(r)
        ns   == Number(s)
        sinv == Inverse(ns, Order)
        p1   == ScalarMul((DigestNumber(digest) * sinv) % Order, Gx, Gy)
        p2   == ScalarMul((nr * sinv) % Order, x, y)
        a2   == ToAffine(p2)
        sum  == AddAffine(p1, a2[1], a2[2])
    IN  /\ Len(qx) = Width /\ Len(qy) = Width /\ Len(r) <= Width /\ Len(s) <= Width
        /\ nr # 0 /\ ns # 0 /\ nr < Order /\ ns < Order
        /\ x < P /\ y < P /\ OnCurve(x, y)
        /\ ~IsInfinity(p2) /\ ~IsInfinity(sum)
        /\ ToAffine(sum)[1] % Order = nr

\* A multiple of the base point, for the tests of the arithmetic
EcMul(k) ==
    LET q == ScalarMul(Number(k), Gx, Gy)
    IN  [point |-> ToAffine(q), infinity |-> IsInfinity(q)]

-----------------------------------------------------------------------------
(* The group by its definition, and ECDSA as the standard states it.  Zero *)
(* is the point at infinity, no pair of the field.                         *)

Zero == <<P, P>>

\* By chord and tangent
Added(p, q) ==
    LET same  == p = q
        slope == IF same THEN Times(Times(3, Times(p[1], p[1])) + A, Inverse(Times(2, p[2]), P))
                 ELSE Times(Minus(q[2], p[2]), Inverse(Minus(q[1], p[1]), P))
        x     == Minus(Minus(Times(slope, slope), p[1]), q[1])
    IN  IF p = Zero THEN q
        ELSE IF q = Zero THEN p
        ELSE IF p[1] = q[1] /\ (p[2] # q[2] \/ p[2] = 0) THEN Zero
        ELSE <<x, Minus(Times(slope, Minus(p[1], x)), p[2])>>

Multiple(k, p) == For(LAMBDA acc, i : Added(acc, p), Zero, 1, k)

BytesOf(n, len) == Each(len, LAMBDA i : (n \div Byte ^ (len - i)) % Byte)

\* The multiples of the base point are those of repeated addition, past its order too, and
\* infinity exactly at those of the order
MultiplesExact(k) ==
    LET r == EcMul(BytesOf(k, Width + 1))
    IN  /\ r.infinity = (k % Order = 0)
        /\ r.point = IF r.infinity THEN <<0, 0>> ELSE Multiple(k % Order, <<Gx, Gy>>)

\* The leftmost bits of a digest
LeftmostBits(digest) ==
    LET bit(i) == (digest[((i - 1) \div ByteBits) + 1] \div 2 ^ (ByteBits - 1 - ((i - 1) % ByteBits))) % 2
        all    == Len(digest) * ByteBits
    IN  For(LAMBDA acc, i : 2 * acc + bit(i), 0, 1, IF all < BitLength(Order) THEN all ELSE BitLength(Order))

\* A signature verifies exactly when r and s are numbers of 1 .. Order - 1 that solve the
\* equation for a key of the group; longer encodings do not verify
EcdsaExact(d, r, s, digest) ==
    LET q   == Multiple(d, <<Gx, Gy>>)
        e   == LeftmostBits(digest)
        inv == CHOOSE i \in 1 .. Order - 1 : (s * i) % Order = 1
        sum == Multiple((((e + r * d) % Order) * inv) % Order, <<Gx, Gy>>)
        V(x, y, nr, ns) == EcdsaVerify(BytesOf(x, Width), BytesOf(y, Width), nr, ns, digest)
        ok  == /\ r \in 1 .. Order - 1 /\ s \in 1 .. Order - 1
               /\ sum # Zero /\ sum[1] % Order = r
    IN  /\ V(q[1], q[2], BytesOf(r, Width), BytesOf(s, Width)) = ok
        /\ ~V(q[1], q[2], BytesOf(r, Width + 1), BytesOf(s, Width))
        /\ OnCurve(q[1], (q[2] + 1) % P) \/ ~V(q[1], (q[2] + 1) % P, BytesOf(r, Width), BytesOf(s, Width))
        /\ q[1] + P < Byte ^ Width => ~V(q[1] + P, q[2], BytesOf(r, Width), BytesOf(s, Width))
=============================================================================
