--------------------------- MODULE MlDsaRoundings ---------------------------
(***************************************************************************)
(* ML-DSA (src/rmbl_mldsa_core.h, src/rmbl_mldsa_body.h) at its real       *)
(* modulus, one coefficient: reductions and roundings with their shifts    *)
(* and constants, and the hint.                                            *)
(***************************************************************************)
EXTENDS Integers

Q == 8380417

\* The parameter sets
Params ==
    [mode \in {44, 65, 87} |->
        CASE mode = 44 -> [k |-> 4, l |-> 4, eta |-> 2, tau |-> 39, beta |-> 78, gamma1 |-> 2 ^ 17,
                           den |-> 88, omega |-> 80, ctilde |-> 32]
          [] mode = 65 -> [k |-> 6, l |-> 5, eta |-> 4, tau |-> 49, beta |-> 196, gamma1 |-> 2 ^ 19,
                           den |-> 32, omega |-> 55, ctilde |-> 48]
          [] mode = 87 -> [k |-> 8, l |-> 7, eta |-> 2, tau |-> 60, beta |-> 120, gamma1 |-> 2 ^ 19,
                           den |-> 32, omega |-> 75, ctilde |-> 64]]

Gamma2(p) == (Q - 1) \div p.den

-----------------------------------------------------------------------------
(* Reductions and roundings.  x >> k is x \div 2 ^ k, also below 0.        *)

\* montgomery_reduce(): products of 64 bits, of which a cast keeps 32.  (TLC has no integers
\* of that size: what it promises is proved in ReductionProofs.)
Int32(x) == ((x + 2 ^ 31) % (2 ^ 32)) - 2 ^ 31
MontgomeryReduce(a) == LET t == Int32(Int32(a) * 58728449) IN Int32((a - t * Q) \div (2 ^ 32))

Reduce32(a) == a - ((a + 2 ^ 22) \div 2 ^ 23) * Q
Caddq(a)    == IF a < 0 THEN a + Q ELSE a

Power2Round(a) == LET a1 == (a + 2 ^ 12 - 1) \div 2 ^ 13 IN [high |-> a1, low |-> a - a1 * 2 ^ 13]

\* mutant: the high part of the last interval is not taken back to 0
DecomposeUnwrapped(p, a) ==
    LET b  == (a + 127) \div 2 ^ 7
        a1 == IF p.den = 88 THEN (b * 11275 + 2 ^ 23) \div 2 ^ 24 ELSE (b * 1025 + 2 ^ 21) \div 2 ^ 22
        a0 == a - a1 * 2 * Gamma2(p)
    IN  [high |-> a1, low |-> IF a0 > (Q - 1) \div 2 THEN a0 - Q ELSE a0]

\* decompose(): 44 intervals wrap by comparison, 16 by their mask
Decompose(p, a) ==
    LET b  == (a + 127) \div 2 ^ 7
        a1 == IF p.den = 88
              THEN LET c == (b * 11275 + 2 ^ 23) \div 2 ^ 24 IN IF c > 43 THEN 0 ELSE c
              ELSE ((b * 1025 + 2 ^ 21) \div 2 ^ 22) % 16
        a0 == a - a1 * 2 * Gamma2(p)
    IN  [high |-> a1, low |-> IF a0 > (Q - 1) \div 2 THEN a0 - Q ELSE a0]

MakeHint(p, a0, a1) ==
    IF a0 > Gamma2(p) \/ a0 < -Gamma2(p) \/ (a0 = -Gamma2(p) /\ a1 # 0) THEN 1 ELSE 0

UseHint(p, a, hint) ==
    LET d == Decompose(p, a)
        n == p.den \div 2
    IN  IF hint = 0 THEN d.high
        ELSE IF d.low > 0 THEN (d.high + 1) % n ELSE (d.high - 1) % n

\* What decompose() stands for: the multiple of 2 * gamma2 nearest to a, with the low
\* part in (-gamma2, gamma2], and 0 for the last half interval below q
Nearest(p, a) ==
    LET g  == Gamma2(p)
        a1 == (a + g - 1) \div (2 * g)
    IN  IF a1 = (Q - 1) \div (2 * g) THEN [high |-> 0, low |-> a - Q]
        ELSE [high |-> a1, low |-> a - a1 * 2 * g]

-----------------------------------------------------------------------------
(* Properties.                                                             *)

\* Of a coefficient w of a commitment, s of c*s2 and t of c*t0, all of sizes the signer
\* accepts: the low part, the hint of the plain signer, that of the masked signer and
\* what the verifier makes of it.  Of a coefficient w of a public key: its two parts fit
\* their fields of 10 and 13 bits.
RoundingExact(p, w, s, t) ==
    LET g == Gamma2(p)
        d == Decompose(p, w)
        u == (w - s + t) % Q
        r == Power2Round(w)
        Abs(x) == IF x < 0 THEN -x ELSE x
        hint == MakeHint(p, d.low - s + t, d.high)
    IN  /\ d = Nearest(p, w)
        /\ Abs(d.low - s) < g - p.beta /\ Abs(t) < g =>
               /\ UseHint(p, u, hint) = d.high
               /\ (hint = 1) <=> (Decompose(p, u).high # d.high)
        /\ w = r.high * 2 ^ 13 + r.low
        /\ 0 <= r.high /\ r.high < 2 ^ 10 /\ -(2 ^ 12) < r.low /\ r.low <= 2 ^ 12

\* reduce32() is exact up to 2^31 - 2^22, past which its sum overflows, and ends within 3/4 of q
\* (the lower end is one past the 6283008 its comment gives).
ReducesExact(a) ==
    LET r == Reduce32(a)
    IN  (r - a) % Q = 0 /\ -6283009 <= r /\ r <= 6283008 /\ Caddq(r) = a % Q

\* montgomery_reduce() divides by 2^32 modulo q, and ends within q.
MontgomeryExact(a) ==
    LET r == MontgomeryReduce(a) IN (2 ^ 32 * r - a) % Q = 0 /\ -Q < r /\ r < Q
=============================================================================
