-------------------------------- MODULE Fold --------------------------------
(***************************************************************************)
(* Loops over a sequence or a range, an element at a time.  (TLC evaluates *)
(* the folds of the community modules over every subset of the domain.)    *)
(* And the doubles of whole numbers.                                       *)
(***************************************************************************)
EXTENDS Integers, Sequences

\* for i in from .. to: acc := op(acc, i).  The halves run one after the other, the first
\* to a value before the second begins, so that TLC's stack stays shallow.
For(op(_, _), start, from, to) ==
    LET RECURSIVE Run(_, _, _)
        Run(acc, lo, hi) ==
            LET mid == (lo + hi) \div 2
            IN  IF lo > hi THEN acc
                ELSE IF lo = hi THEN op(acc, lo)
                ELSE CHOOSE r \in {Run(half, mid + 1, hi) : half \in {Run(acc, lo, mid)}} : TRUE
    IN  Run(start, from, to)

\* for x in seq: acc := op(acc, x)
Fold(op(_, _), start, seq) == For(LAMBDA acc, i : op(acc, seq[i]), start, 1, Len(seq))

\* <<op(1), ..., op(n)>>, evaluated at once
Each(n, op(_)) == [i \in 1 .. n |-> op(i)] \o <<>>

SumOf(seq) == Fold(+, 0, seq)

\* Whole numbers up to `exact` are doubles; past it a double holds every second one, every
\* fourth from twice that, and so on, the even one when there are two as near
RECURSIVE Spacing(_, _)
Spacing(n, exact) == IF n <= exact THEN 1 ELSE 2 * Spacing(n \div 2, exact)

AsDouble(n, exact) ==
    LET u    == Spacing(n, exact)
        down == n - (n % u)
        up   == down + u
    IN  IF 2 * (n % u) < u \/ (2 * (n % u) = u /\ (down \div u) % 2 = 0) THEN down ELSE up
=============================================================================
