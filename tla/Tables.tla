------------------------------- MODULE Tables -------------------------------
(***************************************************************************)
(* Bitwise operations on small words, tabulated once.                      *)
(***************************************************************************)
EXTENDS Fold, Bitwise

XorOf == Each(16, LAMBDA a : Each(16, LAMBDA b : (a - 1) ^^ (b - 1)))
AndOf == Each(16, LAMBDA a : Each(16, LAMBDA b : (a - 1) & (b - 1)))

\* Of bytes, a hexadecimal digit at a time
XorBytes ==
    LET nibbles == XorOf
        X(a, b) == 16 * nibbles[a \div 16 + 1][(b \div 16) + 1] + nibbles[(a % 16) + 1][(b % 16) + 1]
    IN  Each(256, LAMBDA a : Each(256, LAMBDA b : X(a - 1, b - 1)))
=============================================================================
