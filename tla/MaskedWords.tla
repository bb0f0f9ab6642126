----------------------------- MODULE MaskedWords -----------------------------
(***************************************************************************)
(* The share-pair primitives of src/rmbl_masked.h, an instruction at a     *)
(* time.  The three assembly forms of each (Thumb-2, x86-64, aarch64) are  *)
(* the same program, given here once.  The register q, which only ever     *)
(* holds addresses, is left out.                                           *)
(***************************************************************************)
EXTENDS Fold, Bitwise, FiniteSets

CONSTANT WordBits

Words   == 0 .. 2 ^ WordBits - 1
Ones    == 2 ^ WordBits - 1

\* An instruction on the locations: registers a, b, t and r, the words of the three
\* pairs, and the scratch word that takes a zero between two stores
Ins(op, to, from) == [op |-> op, to |-> to, from |-> from, c |-> 0]
Pub(op, to, c)    == [op |-> op, to |-> to, from |-> to, c |-> c]
Clear(to)         == Ins("clear", to, to)
Move(to, from)    == Ins("move", to, from)

Result(i, m) ==
    CASE i.op = "clear" -> 0
      [] i.op = "move"  -> m[i.from]
      [] i.op = "and"   -> m[i.to] & m[i.from]
      [] i.op = "xor"   -> (m[i.to] ^^ m[i.from])
      [] i.op = "and c" -> m[i.to] & i.c
      [] i.op = "xor c" -> (m[i.to] ^^ i.c)
      [] i.op = "lsr c" -> m[i.to] \div 2 ^ i.c
      [] i.op = "neg"   -> (-m[i.to]) % (Ones + 1)

\* mutant: the registers of a partial product are not zeroed before the next
PartialDirty(x, y) ==
    <<Move("a", x), Move("b", y), Ins("and", "a", "b"), Ins("xor", "t", "a")>>

\* m_and(): a partial product in registers that were zeroed first
Partial(x, y) ==
    <<Move("a", x), Move("b", y), Ins("and", "a", "b"), Ins("xor", "t", "a"), Clear("a"), Clear("b")>>
MAnd(x, y, z) ==
    <<Clear("a"), Clear("b"), Move("t", "r")>>
    \o Partial(x[1], y[1]) \o Partial(x[1], y[2]) \o Partial(x[2], y[1]) \o Partial(x[2], y[2])
    \o <<Move(z[2], "a"), Move(z[2], "t"), Move("bus", "a"), Clear("t"),
         Move(z[1], "a"), Move(z[1], "r")>>

\* m_xor(), a share and then the other
XorShare(x, y, z) ==
    <<Move("a", x), Move("b", y), Ins("xor", "a", "b"), Clear("b"), Move(z, "b"), Move(z, "a"), Clear("a")>>
MXor(x, y, z) ==
    <<Clear("a"), Clear("b")>> \o XorShare(x[1], y[1], z[1]) \o <<Move("bus", "a")>>
    \o XorShare(x[2], y[2], z[2])

\* m_pub(): what operation op does to share s
PubOps(op, s, c) ==
    CASE op = 0 -> IF s = 1 THEN <<Pub("xor c", "a", c)>> ELSE <<>>
      [] op = 1 -> <<Pub("and c", "a", c)>>
      [] op = 2 -> <<Pub("lsr c", "a", c)>>
      [] op = 3 -> <<>>
      [] op = 4 -> <<Pub("and c", "a", 1), Pub("neg", "a", 0)>>
PubShare(x, z, ops) ==
    <<Move("a", x)>> \o ops \o <<Move(z, "b"), Move(z, "a"), Clear("a")>>
MPub(x, z, c, op) ==
    <<Clear("a"), Clear("b")>> \o PubShare(x[1], z[1], PubOps(op, 1, c)) \o <<Move("bus", "a")>>
    \o PubShare(x[2], z[2], PubOps(op, 2, c))

-----------------------------------------------------------------------------
(* Running a program.                                                      *)

\* Stores go over one bus, which keeps the last word stored
Stored(i) == i.to \notin {"a", "b", "t", "r"}
Step(m, i) ==
    LET v == Result(i, m)
    IN  IF Stored(i) THEN [m EXCEPT ![i.to] = v, !.wire = v] ELSE [m EXCEPT ![i.to] = v]

Start(x, y, x1, y1, r) ==
    [a |-> 0, b |-> 0, t |-> 0, r |-> r, bus |-> 0, wire |-> 0, z0 |-> 0, z1 |-> 0,
     x0 |-> (x ^^ x1), x1 |-> x1, y0 |-> (y ^^ y1), y1 |-> y1]
Locations == {"a", "b", "t", "wire", "z0", "z1", "x0", "x1", "y0", "y1"}
Last(trace) == trace[Len(trace)]
\* The locations before the program, and after each instruction
Trace(program, start) == Fold(LAMBDA trace, i : Append(trace, Step(Last(trace), i)), <<start>>, program)

\* The programs, with z a pair of its own or one of the operands
Pairs == [x |-> <<"x0", "x1">>, y |-> <<"y0", "y1">>, z |-> <<"z0", "z1">>]
Program(call) ==
    LET z == Pairs[call.into]
    IN  CASE call.op = "and"    -> MAnd(Pairs.x, Pairs.y, z)
          [] call.op = "xor"    -> MXor(Pairs.x, Pairs.y, z)
          [] call.op = "pub"    -> MPub(Pairs.x, z, call.c, call.pub)

\* What the pair has to hold afterwards
Meaning(call, x, y) ==
    CASE call.op = "and"    -> x & y
      [] call.op = "xor"    -> (x ^^ y)
      [] call.op = "pub"    ->
            CASE call.pub = 0 -> (x ^^ call.c)
              [] call.pub = 1 -> x & call.c
              [] call.pub = 2 -> x \div 2 ^ call.c
              [] call.pub = 3 -> x
              [] call.pub = 4 -> IF x % 2 = 1 THEN Ones ELSE 0

\* The result is right, and nothing shows the secrets: over the random masks, every
\* location goes from an old to a new value as often whatever x and y are (the comment at
\* the head of the primitives: no transition carries first-order information).
NothingLeaks(call) ==
    LET secrets == Words \X (IF call.op = "pub" THEN {0} ELSE Words)
        masks   == Words \X (IF call.op = "pub" THEN {0} ELSE Words) \X (IF call.op = "and" THEN Words ELSE {0})
        program == Program(call)
        Runs(s) == {[mask |-> k, trace |-> Trace(program, Start(s[1], s[2], k[1], k[2], k[3]))] : k \in masks}
        into    == Pairs[call.into]
        zero    == Runs(<<0, 0>>)
        Like(u, i, loc, R) ==
            Cardinality({v \in R : v.trace[i][loc] = u.trace[i][loc] /\ v.trace[i + 1][loc] = u.trace[i + 1][loc]})
    IN  \A s \in secrets :
            LET runs == Runs(s)
            IN  \A u \in runs :
                    /\ (Last(u.trace)[into[1]] ^^ Last(u.trace)[into[2]]) = Meaning(call, s[1], s[2])
                    /\ \A i \in 1 .. Len(program), loc \in Locations : Like(u, i, loc, runs) = Like(u, i, loc, zero)
=============================================================================
