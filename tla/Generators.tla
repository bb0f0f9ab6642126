----------------------------- MODULE Generators -----------------------------
(***************************************************************************)
(* The generators of src/R/drbg.R in several processes: each is an         *)
(* environment with a key, a counter block, a count of requests and the    *)
(* process it was seeded in.  Copies of it go to any process by a fork or  *)
(* as a file, back to its own too, the number of a process that has ended  *)
(* is given to another, and Ctrl-C may fall between any two assignments.   *)
(* A key is the record of what it was made from, so two are equal only     *)
(* when they are bound to be, and a counter block is named by the key it   *)
(* was computed with.                                                      *)
(***************************************************************************)
EXTENDS Integers, Sequences, FiniteSets

CONSTANTS
    Limit,                      \* the 2^48 requests of one seed
    Processes, Environments,    \* an environment is named alike in a process and its forks
    MaxCalls, MaxCopies, MaxStops   \* bounds: MaxCopies is of forks and restored files, MaxStops of Ctrl-C

ASSUME GeneratorsAssumption == Limit \in Nat

VARIABLES
    generators,     \* by process and object: the forked child has the same objects
    saved,          \* the copy written by saveRDS(), if any
    seeds,          \* the entropy that went into keys, in order
    delivered,      \* the states whose bytes were returned, in order
    returned,       \* the seeds of which a copy came back to the process number they were made in
    calls,          \* how many calls were made (for the bound)
    copies,         \* how often generators were copied (for the bound)
    stops           \* how many calls Ctrl-C stopped

gvars == <<generators, saved, seeds, delivered, returned, calls, copies, stops>>
GInit ==
    /\ generators = <<>> /\ saved = {} /\ seeds = <<>> /\ delivered = <<>>
    /\ returned = {} /\ calls = 0 /\ copies = 0 /\ stops = 0

Given == <<"given", 0>>                     \* the user's bytes, the same each time
Drawn == <<"drawn", Len(seeds) + 1>>        \* rndbytes(48): different each time

\* One call more, which Ctrl-C may have stopped
Called(stopped) ==
    /\ calls < MaxCalls /\ calls' = calls + 1 /\ copies' = copies
    /\ stopped => stops < MaxStops
    /\ stops' = IF stopped THEN stops + 1 ELSE stops

\* One copy more
Copied ==
    /\ copies < MaxCopies /\ copies' = copies + 1
    /\ UNCHANGED <<saved, seeds, delivered, calls, stops>>

\* What instantiate, reseed and update make of a generator's key and block
NewKey(entropy)         == [of |-> <<>>, entropy |-> entropy, updates |-> <<>>]
ReseededKey(g, entropy) == [of |-> <<g.key, g.v>>, entropy |-> entropy, updates |-> <<>>]
UpdatedKey(g)           == [of |-> g.key.of, entropy |-> g.key.entropy, updates |-> Append(g.key.updates, g.v)]

\* A generator seeded in process p with key k: its key comes from the next of the seeds
Seeded(k, p) == [key |-> k, v |-> k, counter |-> 1, pid |-> p, seed |-> Len(seeds) + 1]

\* The first n assignments of a call to the fields of g; all of them unless Ctrl-C falls
Assigned(g, fields, n) ==
    [key     |-> IF n >= 1 THEN fields.key ELSE g.key,
     seed    |-> IF n >= 1 THEN fields.seed ELSE g.seed,
     v       |-> IF n >= 2 THEN fields.v ELSE g.v,
     counter |-> IF n >= 3 THEN fields.counter ELSE g.counter,
     pid     |-> IF n >= 4 THEN fields.pid ELSE g.pid]

\* mutant: drbggen() without the check of the process
NeedsReseedNever(g, p) == FALSE

NeedsReseed(g, p) == g.pid # p

Has(p, o) == <<p, o>> \in DOMAIN generators

\* Object o of process p is now g
Set(p, o, g) ==
    generators' = [x \in DOMAIN generators \cup {<<p, o>>} |-> IF x = <<p, o>> THEN g ELSE generators[x]]

\* drbgnew(), with the bytes of the user or of the operating system
New(p, o, entropy) ==
    /\ Called(FALSE) /\ ~Has(p, o)
    /\ Set(p, o, Seeded(NewKey(entropy), p))
    /\ seeds' = Append(seeds, entropy)
    /\ UNCHANGED <<saved, delivered, returned>>

\* drbgrsd(), with either, stopped after n assignments if n < 4
Reseed(p, o, entropy, n) ==
    LET g == generators[<<p, o>>]
    IN  /\ Has(p, o) /\ Called(n < 4)
        /\ Set(p, o, Assigned(g, Seeded(ReseededKey(g, entropy), p), n))
        /\ seeds' = IF n >= 1 THEN Append(seeds, entropy) ELSE seeds
        /\ UNCHANGED <<saved, delivered, returned>>

\* drbggen(): a reseed first if the process is another one; the bytes are returned only
\* when no Ctrl-C has stopped it before that
Generate(p, o, n) ==
    LET g       == generators[<<p, o>>]
        reseeds == NeedsReseed(g, p)
        from == IF reseeds THEN Seeded(ReseededKey(g, Drawn), p) ELSE g
        next == [key |-> UpdatedKey(from), v |-> UpdatedKey(from), counter |-> from.counter + 1,
                 pid |-> from.pid, seed |-> from.seed]
    IN  /\ Has(p, o) /\ Called(n < 3) /\ g.counter <= Limit
        /\ Set(p, o, Assigned(from, next, n))
        /\ seeds' = IF reseeds THEN Append(seeds, Drawn) ELSE seeds
        /\ delivered' = IF n < 3 THEN delivered
              ELSE Append(delivered, [key |-> from.key, v |-> from.v, counter |-> from.counter, seed |-> from.seed])
        /\ UNCHANGED <<saved, returned>>

\* The seed of g, if process q takes g for one it seeded itself
CameBack(g, q) == IF g.pid = q THEN {g.seed} ELSE {}

\* parallel::mclapply(): the child has a copy of all, and a number that no process has,
\* though one that has ended may have had it
Fork(p, q) ==
    LET child == {x \in {q} \X Environments : Has(p, x[2])}
    IN  /\ child # {} /\ \A x \in DOMAIN generators : x[1] # q
        /\ generators' = [x \in DOMAIN generators \cup child |->
                             IF x \in child THEN generators[<<p, x[2]>>] ELSE generators[x]]
        /\ returned' = returned \cup UNION {CameBack(generators[<<p, x[2]>>], q) : x \in child}
        /\ Copied

\* rm(), or the end of a process
Forget(p, o) ==
    /\ Has(p, o)
    /\ generators' = [x \in DOMAIN generators \ {<<p, o>>} |-> generators[x]]
    /\ UNCHANGED <<saved, seeds, delivered, returned, calls, copies, stops>>

\* saveRDS(), and readRDS() in any process, that of the seed too
Save(p, o) ==
    /\ Has(p, o) /\ saved' = {generators[<<p, o>>]}
    /\ UNCHANGED <<generators, seeds, delivered, returned, calls, copies, stops>>
Restore(q, o) ==
    \E s \in saved :
        /\ ~Has(q, o)
        /\ Set(q, o, s)
        /\ returned' = returned \cup CameBack(s, q)
        /\ Copied

GNext ==
    \/ \E p \in Processes, o \in Environments :
          \/ \E entropy \in {Given, Drawn} : New(p, o, entropy) \/ \E n \in 0 .. 4 : Reseed(p, o, entropy, n)
          \/ \E n \in 0 .. 3 : Generate(p, o, n)
          \/ Save(p, o) \/ Restore(p, o) \/ Forget(p, o)
    \/ \E p, q \in Processes : Fork(p, q)

GSpec == GInit /\ [][GNext]_gvars

-----------------------------------------------------------------------------
(* Properties.                                                             *)

\* The bytes of delivery i are given no more often than its entropy went into a key, and its
\* seed serves no more than the limit of requests.
Apart(i) ==
    LET Instances == Cardinality({j \in DOMAIN seeds : seeds[j] = delivered[i].key.entropy})
        Same   == {j \in DOMAIN delivered : /\ delivered[j].key = delivered[i].key
                                            /\ delivered[j].v = delivered[i].v}
        Served == {j \in DOMAIN delivered : /\ delivered[j].key.of = delivered[i].key.of
                                            /\ delivered[j].key.entropy = delivered[i].key.entropy}
    IN  Cardinality(Same) <= Instances /\ Cardinality(Served) <= Limit * Instances

\* No two generators ever give the same bytes, in one process or in several, whatever is
\* forked, saved, restored, removed and interrupted, unless the user gave drbgnew() or
\* drbgrsd() the same entropy as often; and no seed serves more than the limit of requests.
\* Not said of a seed of which drbggen() took a copy for the original: one that came back,
\* as a file or by a fork, to a process of the number it was made in.
StreamsApart ==
    \A i \in DOMAIN delivered :
        (\A j \in returned : seeds[j] # delivered[i].key.entropy) => Apart(i)

\* The same of every seed, as the documentation has it: a generator that is restored or
\* inherited reseeds itself on its next use.
CopiesReseed == \A i \in DOMAIN delivered : Apart(i)
=============================================================================
