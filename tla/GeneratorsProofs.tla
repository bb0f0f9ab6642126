-------------------------- MODULE GeneratorsProofs --------------------------
(***************************************************************************)
(* No stream of bytes is given twice: StreamsApart, for any number of      *)
(* processes, generators, calls, copies and interrupts.  A key comes from  *)
(* one of the seeds; the generators that deliver without a reseed are      *)
(* those that find themselves in the process they were seeded in, and of   *)
(* these no two have their key from the same seed, except from one of      *)
(* which a copy came back to the process.  What came of any other seed     *)
(* differs in the number of updates and of requests, so the deliveries of  *)
(* equal bytes can be told apart by their seeds, of which there are no     *)
(* more than were given.                                                   *)
(***************************************************************************)
EXTENDS Generators, FiniteSetTheorems, TLAPS

-----------------------------------------------------------------------------
(* Sequences of terms, of which there is no set.                           *)

IsSeq(s) == \E S : s \in Seq(S)

\* What Append does to a sequence of anything.
LEMMA Appended ==
    ASSUME NEW s, NEW x, IsSeq(s)
    PROVE  /\ IsSeq(Append(s, x)) /\ Len(s) \in Nat /\ Len(Append(s, x)) = Len(s) + 1
           /\ DOMAIN s = 1 .. Len(s) /\ DOMAIN Append(s, x) = 1 .. Len(s) + 1
           /\ \A i \in DOMAIN s : Append(s, x)[i] = s[i]
           /\ Append(s, x)[Len(s) + 1] = x
<1>1. PICK S : s \in Seq(S)
    BY DEF IsSeq
<1>2. s \in Seq(S \cup {x})
    BY <1>1
<1>3. Append(s, x) \in Seq(S \cup {x})
    BY <1>2
<1>4. IsSeq(Append(s, x))
    BY <1>3 DEF IsSeq
<1> QED
    BY <1>2, <1>3, <1>4

LEMMA EmptyIsSeq == IsSeq(<<>>) /\ DOMAIN <<>> = {} /\ Len(<<>>) = 0
<1>1. <<>> \in Seq({})
    OBVIOUS
<1> QED
    BY <1>1 DEF IsSeq

-----------------------------------------------------------------------------
(* The invariant.                                                          *)

\* A key comes from the seed it names, and has been updated a number of times.
KeyOK(key, seed) ==
    /\ seed \in DOMAIN seeds /\ seeds[seed] = key.entropy
    /\ IsSeq(key.updates)

GeneratorOK(g) == KeyOK(g.key, g.seed) /\ g.counter \in Nat \ {0}

TypesInv ==
    /\ IsSeq(seeds) /\ IsSeq(delivered)
    /\ DOMAIN generators \subseteq Processes \X Environments
    /\ \A x \in DOMAIN generators : GeneratorOK(generators[x])
    /\ \A s \in saved : GeneratorOK(s)
    /\ \A i \in DOMAIN delivered :
          KeyOK(delivered[i].key, delivered[i].seed) /\ delivered[i].counter \in 1 .. Limit

\* The generators that deliver without a reseed, of seeds no copy of which came back
Home == {x \in DOMAIN generators : generators[x].pid = x[1] /\ generators[x].seed \notin returned}

Age(d) == Len(d.key.updates)

\* No two of them have their key from one seed.
HomesInv == \A x, y \in Home : generators[x].seed = generators[y].seed => x = y

\* What was delivered is behind the generator that has its key from the same seed.
BehindInv ==
    \A x \in Home, i \in DOMAIN delivered :
        delivered[i].seed = generators[x].seed =>
            Age(delivered[i]) < Age(generators[x]) /\ delivered[i].counter < generators[x].counter

\* Of such a seed no number of updates, and none of requests, was delivered twice.
OnceInv ==
    \A i, j \in DOMAIN delivered :
        i # j /\ delivered[i].seed = delivered[j].seed /\ delivered[i].seed \notin returned =>
            Age(delivered[i]) # Age(delivered[j]) /\ delivered[i].counter # delivered[j].counter

StreamsInv == TypesInv /\ HomesInv /\ BehindInv /\ OnceInv

-----------------------------------------------------------------------------
(* Steps.                                                                  *)

\* What Set leaves: the object has its new state, every other one its own.
LEMMA AfterSet ==
    ASSUME NEW p, NEW o, NEW g, Set(p, o, g)
    PROVE  /\ DOMAIN generators' = DOMAIN generators \cup {<<p, o>>}
           /\ generators'[<<p, o>>] = g
           /\ \A x \in DOMAIN generators' : x # <<p, o>> => x \in DOMAIN generators /\ generators'[x] = generators[x]
    BY DEF Set

SeedsKept == seeds' = seeds \/ \E e : seeds' = Append(seeds, e)

\* A key still comes from the seed it came from when another seed is given.
LEMMA KeyKept ==
    ASSUME NEW key, NEW seed, KeyOK(key, seed), IsSeq(seeds), SeedsKept
    PROVE  /\ seed \in DOMAIN seeds' /\ seeds'[seed] = key.entropy
           /\ IsSeq(key.updates) /\ seed \in Nat /\ seed <= Len(seeds)
<1>1. CASE seeds' = seeds
    BY <1>1, Appended DEF KeyOK
<1>2. CASE \E e : seeds' = Append(seeds, e)
  <2>1. PICK e : seeds' = Append(seeds, e)
      BY <1>2
  <2> QED
      BY <2>1, Appended DEF KeyOK
<1> QED
    BY <1>1, <1>2 DEF SeedsKept

\* A key as old or older: what UpdatedKey adds is one update.
LEMMA Updated ==
    ASSUME NEW g, IsSeq(g.key.updates)
    PROVE  /\ IsSeq(UpdatedKey(g).updates) /\ Len(g.key.updates) \in Nat
           /\ Len(UpdatedKey(g).updates) = Len(g.key.updates) + 1
           /\ UpdatedKey(g).entropy = g.key.entropy
    BY Appended DEF UpdatedKey

\* The numbers that the invariant compares.
LEMMA Numbered ==
    ASSUME StreamsInv
    PROVE  /\ Len(seeds) \in Nat
           /\ \A x \in DOMAIN generators : /\ generators[x].seed \in Nat /\ generators[x].seed <= Len(seeds)
                                           /\ Age(generators[x]) \in Nat /\ generators[x].counter \in Nat
           /\ \A i \in DOMAIN delivered : /\ delivered[i].seed \in Nat /\ delivered[i].seed <= Len(seeds)
                                          /\ Age(delivered[i]) \in Nat /\ delivered[i].counter \in Nat
<1>1. IsSeq(seeds) /\ Len(seeds) \in Nat /\ DOMAIN seeds = 1 .. Len(seeds)
    BY Appended DEF StreamsInv, TypesInv
<1>2. \A s : IsSeq(s) => Len(s) \in Nat
    BY Appended
<1>3. ASSUME NEW i \in DOMAIN delivered
      PROVE  delivered[i].seed \in DOMAIN seeds /\ IsSeq(delivered[i].key.updates) /\ delivered[i].counter \in 1 .. Limit
    BY DEF StreamsInv, TypesInv, KeyOK
<1>4. ASSUME NEW x \in DOMAIN generators
      PROVE  generators[x].seed \in DOMAIN seeds /\ IsSeq(generators[x].key.updates) /\ generators[x].counter \in Nat
    BY DEF StreamsInv, TypesInv, GeneratorOK, KeyOK
<1> QED
    BY <1>1, <1>2, <1>3, <1>4, GeneratorsAssumption DEF Age

\* One object gets a state whose key is of a new seed, or which has its key from the same
\* seed as before and goes no further back, or is a copy that came back; nothing is delivered.
LEMMA OneChanges ==
    ASSUME StreamsInv, NEW p \in Processes, NEW o \in Environments, NEW g, Set(p, o, g), SeedsKept,
           UNCHANGED <<saved, delivered>>, returned \subseteq returned',
           g.seed \in DOMAIN seeds', seeds'[g.seed] = g.key.entropy, IsSeq(g.key.updates),
           g.counter \in Nat \ {0},
           g.pid = p => \/ g.seed = Len(seeds) + 1 \/ g.seed \in returned'
                        \/ /\ <<p, o>> \in Home /\ g.seed = generators[<<p, o>>].seed
                           /\ Age(g) >= Age(generators[<<p, o>>])
                           /\ g.counter >= generators[<<p, o>>].counter
    PROVE  StreamsInv'
<1> DEFINE x0 == <<p, o>>
<1>0. /\ DOMAIN generators' = DOMAIN generators \cup {x0}
      /\ generators'[x0] = g
      /\ \A x \in DOMAIN generators' : x # x0 => x \in DOMAIN generators /\ generators'[x] = generators[x]
      /\ x0 \in Processes \X Environments /\ x0[1] = p
  <2>1. /\ DOMAIN generators' = DOMAIN generators \cup {x0}
        /\ generators'[x0] = g
        /\ \A x \in DOMAIN generators' : x # x0 => x \in DOMAIN generators /\ generators'[x] = generators[x]
      BY DEF Set
  <2> QED
      BY <2>1
<1>1. IsSeq(seeds) /\ IsSeq(delivered)
    BY DEF StreamsInv, TypesInv
<1>2. IsSeq(seeds')
  <2>1. ASSUME NEW e, seeds' = Append(seeds, e) PROVE IsSeq(seeds')
      BY <2>1, <1>1, Appended
  <2> QED
      BY <2>1, <1>1 DEF SeedsKept
<1>3. \A x \in DOMAIN generators : /\ generators[x].seed \in Nat /\ generators[x].seed <= Len(seeds)
                                  /\ Age(generators[x]) \in Nat /\ generators[x].counter \in Nat
    BY Numbered
<1>4. \A i \in DOMAIN delivered : /\ delivered[i].seed \in Nat /\ delivered[i].seed <= Len(seeds)
                                 /\ Age(delivered[i]) \in Nat /\ delivered[i].counter \in Nat
    BY Numbered
<1>5. Len(seeds) \in Nat /\ Age(g) \in Nat
    BY <1>1, Appended DEF Age
<1>6. TypesInv'
  <2>1. \A x \in DOMAIN generators' : GeneratorOK(generators[x])'
    <3> SUFFICES ASSUME NEW x \in DOMAIN generators' PROVE GeneratorOK(generators[x])'
        OBVIOUS
    <3>1. CASE x = x0
        BY <3>1, <1>0 DEF GeneratorOK, KeyOK
    <3>2. CASE x # x0
        BY <3>2, <1>0, <1>1, KeyKept DEF StreamsInv, TypesInv, GeneratorOK, KeyOK
    <3> QED
        BY <3>1, <3>2
  <2>2. \A s \in saved' : GeneratorOK(s)'
      BY <1>1, KeyKept DEF StreamsInv, TypesInv, GeneratorOK, KeyOK
  <2>3. \A i \in DOMAIN delivered' : KeyOK(delivered[i].key, delivered[i].seed)' /\ delivered'[i].counter \in 1 .. Limit
      BY <1>1, KeyKept DEF StreamsInv, TypesInv, KeyOK
  <2> QED
      BY <2>1, <2>2, <2>3, <1>0, <1>1, <1>2 DEF StreamsInv, TypesInv
<1>7. \A x \in Home' : x # x0 => x \in Home /\ generators'[x] = generators[x] /\ x \in DOMAIN generators
    BY <1>0 DEF Home
<1>8. x0 \in Home' => \/ g.seed = Len(seeds) + 1
                      \/ /\ x0 \in Home /\ g.seed = generators[x0].seed
                         /\ Age(g) >= Age(generators[x0]) /\ g.counter >= generators[x0].counter
    BY <1>0 DEF Home
<1>9. HomesInv'
  <2> SUFFICES ASSUME NEW x \in Home', NEW y \in Home', generators'[x].seed = generators'[y].seed, x # y
               PROVE  FALSE
      BY DEF HomesInv
  <2>1. CASE x = x0
      BY <2>1, <1>0, <1>7, <1>8, <1>3, <1>5 DEF StreamsInv, HomesInv
  <2>2. CASE y = x0
      BY <2>2, <1>0, <1>7, <1>8, <1>3, <1>5 DEF StreamsInv, HomesInv
  <2>3. CASE x # x0 /\ y # x0
      BY <2>3, <1>7 DEF StreamsInv, HomesInv
  <2> QED
      BY <2>1, <2>2, <2>3
<1>10. BehindInv'
  <2> SUFFICES ASSUME NEW x \in Home', NEW i \in DOMAIN delivered, delivered[i].seed = generators'[x].seed
               PROVE  Age(delivered[i]) < Age(generators'[x]) /\ delivered[i].counter < generators'[x].counter
      BY DEF BehindInv, Age
  <2>1. CASE x = x0
      BY <2>1, <1>0, <1>8, <1>3, <1>4, <1>5 DEF StreamsInv, BehindInv, Home
  <2>2. CASE x # x0
      BY <2>2, <1>7 DEF StreamsInv, BehindInv
  <2> QED
      BY <2>1, <2>2
<1>11. OnceInv'
    BY DEF StreamsInv, OnceInv, Age
<1> QED
    BY <1>6, <1>9, <1>10, <1>11 DEF StreamsInv

\* The bytes of a state are delivered whose key is of a new seed, or which the generator
\* had; the generator goes one update and one request past it.
LEMMA Delivers ==
    ASSUME StreamsInv, NEW p \in Processes, NEW o \in Environments, NEW g, Set(p, o, g), SeedsKept,
           UNCHANGED <<saved, returned>>, NEW d, delivered' = Append(delivered, d),
           d.seed \in DOMAIN seeds', seeds'[d.seed] = d.key.entropy, IsSeq(d.key.updates),
           d.counter \in 1 .. Limit,
           g.seed = d.seed, g.key.entropy = d.key.entropy, IsSeq(g.key.updates),
           Age(g) = Age(d) + 1, g.counter = d.counter + 1,
           \/ d.seed = Len(seeds) + 1 \/ d.seed \in returned
           \/ /\ <<p, o>> \in Home /\ d.seed = generators[<<p, o>>].seed
              /\ d.key = generators[<<p, o>>].key /\ d.counter = generators[<<p, o>>].counter
    PROVE  StreamsInv'
<1> DEFINE x0 == <<p, o>>
           n0 == Len(delivered) + 1
<1>0. /\ DOMAIN generators' = DOMAIN generators \cup {x0}
      /\ generators'[x0] = g
      /\ \A x \in DOMAIN generators' : x # x0 => x \in DOMAIN generators /\ generators'[x] = generators[x]
      /\ x0 \in Processes \X Environments /\ x0[1] = p
    BY DEF Set
<1>1. IsSeq(seeds) /\ IsSeq(delivered)
    BY DEF StreamsInv, TypesInv
<1>2. IsSeq(seeds') /\ Len(seeds) \in Nat
  <2>1. ASSUME NEW e, seeds' = Append(seeds, e) PROVE IsSeq(seeds')
      BY <2>1, <1>1, Appended
  <2> QED
      BY <2>1, <1>1, Appended DEF SeedsKept
<1>3. \A x \in DOMAIN generators : /\ generators[x].seed \in Nat /\ generators[x].seed <= Len(seeds)
                                  /\ Age(generators[x]) \in Nat /\ generators[x].counter \in Nat
    BY Numbered
<1>4. \A i \in DOMAIN delivered : /\ delivered[i].seed \in Nat /\ delivered[i].seed <= Len(seeds)
                                 /\ Age(delivered[i]) \in Nat /\ delivered[i].counter \in Nat
    BY Numbered
<1>5. Age(d) \in Nat /\ d.counter \in Nat
    BY GeneratorsAssumption, Appended DEF Age
<1>6. /\ IsSeq(delivered') /\ DOMAIN delivered' = DOMAIN delivered \cup {n0} /\ n0 \notin DOMAIN delivered
      /\ delivered'[n0] = d /\ \A i \in DOMAIN delivered : delivered'[i] = delivered[i]
    BY <1>1, Appended
<1>7. TypesInv'
  <2>1. \A x \in DOMAIN generators' : GeneratorOK(generators[x])'
    <3> SUFFICES ASSUME NEW x \in DOMAIN generators' PROVE GeneratorOK(generators[x])'
        OBVIOUS
    <3>1. CASE x = x0
        BY <3>1, <1>0, <1>5 DEF GeneratorOK, KeyOK
    <3>2. CASE x # x0
        BY <3>2, <1>0, <1>1, KeyKept DEF StreamsInv, TypesInv, GeneratorOK, KeyOK
    <3> QED
        BY <3>1, <3>2
  <2>2. \A s \in saved' : GeneratorOK(s)'
      BY <1>1, KeyKept DEF StreamsInv, TypesInv, GeneratorOK, KeyOK
  <2>3. \A i \in DOMAIN delivered' : KeyOK(delivered[i].key, delivered[i].seed)' /\ delivered'[i].counter \in 1 .. Limit
    <3> SUFFICES ASSUME NEW i \in DOMAIN delivered'
                 PROVE  KeyOK(delivered[i].key, delivered[i].seed)' /\ delivered'[i].counter \in 1 .. Limit
        OBVIOUS
    <3>1. CASE i = n0
        BY <3>1, <1>6 DEF KeyOK
    <3>2. CASE i \in DOMAIN delivered
        BY <3>2, <1>6, <1>1, KeyKept DEF StreamsInv, TypesInv, KeyOK
    <3> QED
        BY <3>1, <3>2, <1>6
  <2> QED
      BY <2>1, <2>2, <2>3, <1>0, <1>6, <1>2 DEF StreamsInv, TypesInv
<1>8. \A x \in Home' : x # x0 => x \in Home /\ generators'[x] = generators[x] /\ x \in DOMAIN generators
    BY <1>0 DEF Home
<1>9. \A x \in Home : x \in DOMAIN generators
    BY DEF Home
<1>10. \A x \in Home : x # x0 => generators[x].seed # d.seed
    BY <1>2, <1>3, <1>9 DEF StreamsInv, HomesInv, Home
<1>11. d.seed \notin returned => \A i \in DOMAIN delivered : delivered[i].seed = d.seed => Age(delivered[i]) < Age(d) /\ delivered[i].counter < d.counter
    BY <1>2, <1>4 DEF StreamsInv, BehindInv, Age
<1>12. HomesInv'
  <2> SUFFICES ASSUME NEW x \in Home', NEW y \in Home', generators'[x].seed = generators'[y].seed, x # y
               PROVE  FALSE
      BY DEF HomesInv
  <2>1. CASE x = x0
      BY <2>1, <1>0, <1>8, <1>10
  <2>2. CASE y = x0
      BY <2>2, <1>0, <1>8, <1>10
  <2>3. CASE x # x0 /\ y # x0
      BY <2>3, <1>8 DEF StreamsInv, HomesInv
  <2> QED
      BY <2>1, <2>2, <2>3
<1>13. BehindInv'
  <2> SUFFICES ASSUME NEW x \in Home', NEW i \in DOMAIN delivered', delivered'[i].seed = generators'[x].seed
               PROVE  Age(delivered'[i]) < Age(generators'[x]) /\ delivered'[i].counter < generators'[x].counter
      BY DEF BehindInv, Age
  <2>1. CASE x = x0 /\ i = n0
      BY <2>1, <1>0, <1>5, <1>6
  <2>2. CASE x = x0 /\ i # n0
    <3>1. i \in DOMAIN delivered /\ delivered'[i] = delivered[i] /\ generators'[x] = g
        BY <2>2, <1>0, <1>6
    <3>2. Age(delivered[i]) < Age(d) /\ delivered[i].counter < d.counter
        BY <2>2, <3>1, <1>0, <1>11 DEF Home
    <3> QED
        BY <3>1, <3>2, <1>4, <1>5
  <2>3. CASE x # x0
    <3>1. x \in Home /\ generators'[x] = generators[x]
        BY <2>3, <1>8
    <3>2. i # n0 /\ i \in DOMAIN delivered /\ delivered'[i] = delivered[i]
        BY <2>3, <3>1, <1>6, <1>10
    <3> QED
        BY <3>1, <3>2 DEF StreamsInv, BehindInv
  <2> QED
      BY <2>1, <2>2, <2>3
<1>14. OnceInv'
  <2> SUFFICES ASSUME NEW i \in DOMAIN delivered', NEW j \in DOMAIN delivered', i # j,
                      delivered'[i].seed = delivered'[j].seed, delivered'[i].seed \notin returned
               PROVE  Age(delivered'[i]) # Age(delivered'[j]) /\ delivered'[i].counter # delivered'[j].counter
      BY DEF OnceInv, Age
  <2>1. CASE i = n0
    <3>1. j \in DOMAIN delivered /\ delivered'[j] = delivered[j] /\ delivered'[i] = d
        BY <2>1, <1>6
    <3>2. Age(delivered[j]) < Age(d) /\ delivered[j].counter < d.counter
        BY <3>1, <1>11
    <3> QED
        BY <3>1, <3>2, <1>4, <1>5
  <2>2. CASE j = n0
    <3>1. i \in DOMAIN delivered /\ delivered'[i] = delivered[i] /\ delivered'[j] = d
        BY <2>2, <1>6
    <3>2. Age(delivered[i]) < Age(d) /\ delivered[i].counter < d.counter
        BY <3>1, <1>11
    <3> QED
        BY <3>1, <3>2, <1>4, <1>5
  <2>3. CASE i # n0 /\ j # n0
      BY <2>3, <1>6 DEF StreamsInv, OnceInv
  <2> QED
      BY <2>1, <2>2, <2>3
<1> QED
    BY <1>7, <1>12, <1>13, <1>14 DEF StreamsInv

\* A key made with new entropy comes from the seed that is new.
LEMMA NewSeed ==
    ASSUME IsSeq(seeds), NEW entropy, seeds' = Append(seeds, entropy)
    PROVE  /\ Len(seeds) + 1 \in DOMAIN seeds' /\ seeds'[Len(seeds) + 1] = entropy /\ SeedsKept
    BY Appended DEF SeedsKept

LEMMA NewKeeps ==
    ASSUME StreamsInv, NEW p \in Processes, NEW o \in Environments, NEW entropy, New(p, o, entropy)
    PROVE  StreamsInv'
<1> DEFINE g == Seeded(NewKey(entropy), p)
<1>1. Set(p, o, g) /\ seeds' = Append(seeds, entropy) /\ UNCHANGED <<saved, delivered, returned>>
    BY DEF New
<1>2. g.seed = Len(seeds) + 1 /\ g.key.entropy = entropy /\ g.key.updates = <<>> /\ g.counter = 1
    BY DEF Seeded, NewKey
<1>3. Len(seeds) + 1 \in DOMAIN seeds' /\ seeds'[Len(seeds) + 1] = entropy /\ SeedsKept
    BY <1>1, NewSeed DEF StreamsInv, TypesInv
<1> HIDE DEF g
<1>4. g.seed \in DOMAIN seeds' /\ seeds'[g.seed] = g.key.entropy /\ IsSeq(g.key.updates) /\ g.counter \in Nat \ {0}
    BY <1>2, <1>3, EmptyIsSeq
<1> QED
    BY <1>1, <1>2, <1>3, <1>4, OneChanges

LEMMA ReseedKeeps ==
    ASSUME StreamsInv, NEW p \in Processes, NEW o \in Environments, NEW entropy, NEW n \in 0 .. 4, Reseed(p, o, entropy, n)
    PROVE  StreamsInv'
<1> DEFINE old == generators[<<p, o>>]
           new == Seeded(ReseededKey(old, entropy), p)
           g   == Assigned(old, new, n)
<1>1. /\ Set(p, o, g) /\ <<p, o>> \in DOMAIN generators /\ UNCHANGED <<saved, delivered, returned>>
      /\ seeds' = IF n >= 1 THEN Append(seeds, entropy) ELSE seeds
    BY DEF Reseed, Has
<1>2. GeneratorOK(old) /\ IsSeq(seeds)
    BY <1>1 DEF StreamsInv, TypesInv
<1>3. /\ new.seed = Len(seeds) + 1 /\ new.key.entropy = entropy /\ new.key.updates = <<>>
      /\ new.counter = 1 /\ new.pid = p
    BY DEF Seeded, ReseededKey
<1>4. /\ g.key = IF n >= 1 THEN new.key ELSE old.key
      /\ g.seed = IF n >= 1 THEN new.seed ELSE old.seed
      /\ g.counter = IF n >= 3 THEN new.counter ELSE old.counter
      /\ g.pid = IF n >= 4 THEN new.pid ELSE old.pid
    BY DEF Assigned
<1> HIDE DEF g, new
<1>5. g.counter \in Nat \ {0}
    BY <1>2, <1>3, <1>4 DEF GeneratorOK
<1>6. CASE n = 0
  <2>1. g.key = old.key /\ g.seed = old.seed /\ g.counter = old.counter /\ g.pid = old.pid /\ seeds' = seeds
      BY <1>1, <1>4, <1>6
  <2>2. g.seed \in DOMAIN seeds' /\ seeds'[g.seed] = g.key.entropy /\ IsSeq(g.key.updates)
      BY <2>1, <1>2 DEF GeneratorOK, KeyOK
  <2>3. Age(g) >= Age(old) /\ g.counter >= old.counter
    <3>1. Len(old.key.updates) \in Nat
        BY <1>2, Appended DEF GeneratorOK, KeyOK
    <3> QED
        BY <2>1, <3>1, <1>2 DEF Age, GeneratorOK
  <2>4. g.pid = p => <<p, o>> \in Home \/ g.seed \in returned
      BY <2>1, <1>1 DEF Home
  <2>5. SeedsKept
      BY <2>1 DEF SeedsKept
  <2> QED
      BY <1>1, <1>5, <2>1, <2>2, <2>3, <2>4, <2>5, OneChanges
<1>7. CASE n >= 1
  <2>1. g.key = new.key /\ g.seed = Len(seeds) + 1 /\ seeds' = Append(seeds, entropy)
      BY <1>1, <1>3, <1>4, <1>7
  <2>2. g.seed \in DOMAIN seeds' /\ seeds'[g.seed] = g.key.entropy /\ SeedsKept
      BY <2>1, <1>2, <1>3, NewSeed
  <2>3. IsSeq(g.key.updates)
      BY <2>1, <1>3, EmptyIsSeq
  <2> QED
      BY <1>1, <1>5, <2>1, <2>2, <2>3, OneChanges
<1> QED
    BY <1>6, <1>7

LEMMA GenerateKeeps ==
    ASSUME StreamsInv, NEW p \in Processes, NEW o \in Environments, NEW n \in 0 .. 3, Generate(p, o, n)
    PROVE  StreamsInv'
<1> DEFINE old  == generators[<<p, o>>]
           new  == Seeded(ReseededKey(old, Drawn), p)
           from == IF NeedsReseed(old, p) THEN new ELSE old
           next == [key |-> UpdatedKey(from), v |-> UpdatedKey(from), counter |-> from.counter + 1,
                    pid |-> from.pid, seed |-> from.seed]
           g    == Assigned(from, next, n)
           d    == [key |-> from.key, v |-> from.v, counter |-> from.counter, seed |-> from.seed]
<1>1. /\ Set(p, o, g) /\ <<p, o>> \in DOMAIN generators /\ UNCHANGED <<saved, returned>> /\ old.counter <= Limit
      /\ seeds' = IF NeedsReseed(old, p) THEN Append(seeds, Drawn) ELSE seeds
      /\ delivered' = IF n < 3 THEN delivered ELSE Append(delivered, d)
    BY DEF Generate, Has
<1>2. GeneratorOK(old) /\ IsSeq(seeds)
    BY <1>1 DEF StreamsInv, TypesInv
<1>3. /\ new.seed = Len(seeds) + 1 /\ new.key.entropy = Drawn /\ new.key.updates = <<>> /\ new.counter = 1
    BY DEF Seeded, ReseededKey
<1>4. /\ from.seed \in DOMAIN seeds' /\ seeds'[from.seed] = from.key.entropy /\ IsSeq(from.key.updates)
      /\ SeedsKept /\ from.counter \in 1 .. Limit
      /\ \/ from.seed = Len(seeds) + 1 \/ from.seed \in returned
         \/ from = old /\ <<p, o>> \in Home
  <2>1. CASE NeedsReseed(old, p)
    <3>1. from = new /\ seeds' = Append(seeds, Drawn)
        BY <2>1, <1>1
    <3> HIDE DEF new, from
    <3>2. from.seed \in DOMAIN seeds' /\ seeds'[from.seed] = from.key.entropy /\ SeedsKept
        BY <3>1, <1>2, <1>3, NewSeed
    <3>3. from.counter \in 1 .. Limit
        BY <3>1, <1>1, <1>2, <1>3, GeneratorsAssumption DEF GeneratorOK
    <3>4. IsSeq(from.key.updates) /\ from.seed = Len(seeds) + 1
        BY <3>1, <1>3, EmptyIsSeq
    <3> QED
        BY <3>2, <3>3, <3>4
  <2>2. CASE ~NeedsReseed(old, p)
    <3>1. from = old /\ seeds' = seeds
        BY <2>2, <1>1
    <3> HIDE DEF new, from
    <3>2. <<p, o>> \in Home \/ old.seed \in returned
        BY <2>2, <1>1 DEF Home, NeedsReseed
    <3> QED
        BY <3>1, <3>2, <1>1, <1>2, GeneratorsAssumption DEF GeneratorOK, KeyOK, SeedsKept
  <2> QED
      BY <2>1, <2>2
<1>5. /\ g.key = IF n >= 1 THEN UpdatedKey(from) ELSE from.key
      /\ g.seed = from.seed
      /\ g.counter = IF n >= 3 THEN from.counter + 1 ELSE from.counter
    BY DEF Assigned
<1>6. d.key = from.key /\ d.seed = from.seed /\ d.counter = from.counter
    OBVIOUS
<1> HIDE DEF g, from, d
<1>7. /\ IsSeq(g.key.updates) /\ g.key.entropy = from.key.entropy
      /\ Age(from) \in Nat /\ Age(g) = IF n >= 1 THEN Age(from) + 1 ELSE Age(from)
    BY <1>4, <1>5, Updated DEF Age
<1>8. CASE n < 3
  <2>1. UNCHANGED <<saved, delivered, returned>> /\ g.counter = from.counter
      BY <1>1, <1>5, <1>8
  <2>2. g.seed \in DOMAIN seeds' /\ seeds'[g.seed] = g.key.entropy /\ g.counter \in Nat \ {0}
      BY <1>4, <1>5, <1>7, <2>1, GeneratorsAssumption
  <2>3. \/ g.seed = Len(seeds) + 1 \/ g.seed \in returned
        \/ <<p, o>> \in Home /\ g.seed = old.seed /\ Age(g) >= Age(old) /\ g.counter >= old.counter
    <3>1. CASE from.seed = Len(seeds) + 1 \/ from.seed \in returned
        BY <3>1, <1>5
    <3>2. CASE from = old /\ <<p, o>> \in Home
        BY <3>2, <1>4, <1>5, <1>7, <2>1, GeneratorsAssumption
    <3> QED
        BY <3>1, <3>2, <1>4
  <2> HIDE DEF old
  <2> QED
      BY <1>1, <1>4, <1>7, <2>1, <2>2, <2>3, OneChanges DEF old
<1>9. CASE n = 3
  <2>1. delivered' = Append(delivered, d) /\ g.counter = d.counter + 1 /\ Age(g) = Age(d) + 1
      BY <1>1, <1>5, <1>6, <1>7, <1>9 DEF Age
  <2> QED
      BY <1>1, <1>4, <1>5, <1>6, <1>7, <2>1, Delivers
<1> QED
    BY <1>8, <1>9

LEMMA ForkKeeps ==
    ASSUME StreamsInv, NEW p \in Processes, NEW q \in Processes, Fork(p, q)
    PROVE  StreamsInv'
<1> DEFINE child == {x \in {q} \X Environments : Has(p, x[2])}
<1>1. /\ \A x \in DOMAIN generators : x[1] # q
      /\ generators' = [x \in DOMAIN generators \cup child |->
                           IF x \in child THEN generators[<<p, x[2]>>] ELSE generators[x]]
      /\ UNCHANGED <<saved, seeds, delivered>>
      /\ returned' = returned \cup UNION {CameBack(generators[<<p, x[2]>>], q) : x \in child}
    BY DEF Fork, Copied
<1>2. \A x \in child : <<p, x[2]>> \in DOMAIN generators /\ x[1] = q /\ x \in Processes \X Environments
    BY DEF Has
<1> HIDE DEF child
<1>3. \A x \in DOMAIN generators : x \notin child /\ x \in DOMAIN generators' /\ generators'[x] = generators[x]
    BY <1>1, <1>2
<1>4. \A x \in child : x \in DOMAIN generators' /\ generators'[x] = generators[<<p, x[2]>>]
                   /\ (generators'[x].pid = q => generators'[x].seed \in returned')
  <2> SUFFICES ASSUME NEW x \in child
               PROVE  /\ x \in DOMAIN generators' /\ generators'[x] = generators[<<p, x[2]>>]
                      /\ (generators'[x].pid = q => generators'[x].seed \in returned')
      OBVIOUS
  <2>1. x \in DOMAIN generators' /\ generators'[x] = generators[<<p, x[2]>>]
      BY <1>1
  <2>2. CameBack(generators[<<p, x[2]>>], q) \subseteq returned'
      BY <1>1
  <2> QED
      BY <2>1, <2>2 DEF CameBack
<1>5. DOMAIN generators' = DOMAIN generators \cup child
    BY <1>1
<1>6. \A x \in Home' : x \in Home /\ generators'[x] = generators[x]
  <2> SUFFICES ASSUME NEW x \in Home' PROVE x \in Home /\ generators'[x] = generators[x]
      OBVIOUS
  <2>1. x \in DOMAIN generators' /\ generators'[x].pid = x[1] /\ generators'[x].seed \notin returned'
      BY DEF Home
  <2>2. x \notin child
      BY <2>1, <1>2, <1>4
  <2> QED
      BY <2>1, <2>2, <1>1, <1>3, <1>5 DEF Home
<1>7. \A x \in DOMAIN generators' : \E y \in DOMAIN generators : generators'[x] = generators[y]
    BY <1>2, <1>3, <1>4, <1>5
<1>8. TypesInv'
    BY <1>1, <1>2, <1>5, <1>7 DEF StreamsInv, TypesInv, GeneratorOK, KeyOK
<1>9. HomesInv'
    BY <1>6 DEF StreamsInv, HomesInv
<1>10. BehindInv'
  <2> SUFFICES ASSUME NEW x \in Home', NEW i \in DOMAIN delivered, delivered[i].seed = generators'[x].seed
               PROVE  Age(delivered[i]) < Age(generators'[x]) /\ delivered[i].counter < generators'[x].counter
      BY <1>1 DEF BehindInv, Age
  <2> QED
      BY <1>6 DEF StreamsInv, BehindInv
<1>11. returned \subseteq returned' /\ delivered' = delivered
    BY <1>1
<1>12. OnceInv'
  <2> SUFFICES ASSUME NEW i \in DOMAIN delivered, NEW j \in DOMAIN delivered, i # j,
                      delivered[i].seed = delivered[j].seed, delivered[i].seed \notin returned
               PROVE  Age(delivered[i]) # Age(delivered[j]) /\ delivered[i].counter # delivered[j].counter
      BY <1>11 DEF OnceInv, Age
  <2> QED
      BY DEF StreamsInv, OnceInv
<1> QED
    BY <1>8, <1>9, <1>10, <1>12 DEF StreamsInv

LEMMA SaveKeeps ==
    ASSUME StreamsInv, NEW p, NEW o, Save(p, o)
    PROVE  StreamsInv'
    BY DEF StreamsInv, Save, Has, TypesInv, GeneratorOK, KeyOK, HomesInv, Home, BehindInv, OnceInv, Age

LEMMA RestoreKeeps ==
    ASSUME StreamsInv, NEW q \in Processes, NEW o \in Environments, Restore(q, o)
    PROVE  StreamsInv'
<1>1. PICK s \in saved : /\ Set(q, o, s) /\ UNCHANGED <<saved, seeds, delivered>>
                        /\ returned' = returned \cup CameBack(s, q)
    BY DEF Restore, Copied
<1>2. GeneratorOK(s) /\ SeedsKept
    BY <1>1 DEF StreamsInv, TypesInv, SeedsKept
<1>3. s.seed \in DOMAIN seeds' /\ seeds'[s.seed] = s.key.entropy /\ IsSeq(s.key.updates) /\ s.counter \in Nat \ {0}
    BY <1>1, <1>2 DEF GeneratorOK, KeyOK
<1>4. returned \subseteq returned' /\ (s.pid = q => s.seed \in returned')
    BY <1>1 DEF CameBack
<1> QED
    BY <1>1, <1>2, <1>3, <1>4, OneChanges

LEMMA ForgetKeeps ==
    ASSUME StreamsInv, NEW p, NEW o, Forget(p, o)
    PROVE  StreamsInv'
<1>1. /\ UNCHANGED <<saved, seeds, delivered, returned>>
      /\ generators' = [x \in DOMAIN generators \ {<<p, o>>} |-> generators[x]]
    BY DEF Forget
<1>2. \A x \in DOMAIN generators' : x \in DOMAIN generators /\ generators'[x] = generators[x]
    BY <1>1
<1>3. \A x \in Home' : x \in Home /\ generators'[x] = generators[x]
    BY <1>1, <1>2 DEF Home
<1>4. TypesInv'
    BY <1>1, <1>2 DEF StreamsInv, TypesInv, GeneratorOK, KeyOK
<1>5. HomesInv'
    BY <1>3 DEF StreamsInv, HomesInv
<1>6. BehindInv'
  <2> SUFFICES ASSUME NEW x \in Home', NEW i \in DOMAIN delivered, delivered[i].seed = generators'[x].seed
               PROVE  Age(delivered[i]) < Age(generators'[x]) /\ delivered[i].counter < generators'[x].counter
      BY <1>1 DEF BehindInv, Age
  <2> QED
      BY <1>3 DEF StreamsInv, BehindInv
<1>7. OnceInv'
  <2> SUFFICES ASSUME NEW i \in DOMAIN delivered, NEW j \in DOMAIN delivered, i # j,
                      delivered[i].seed = delivered[j].seed, delivered[i].seed \notin returned
               PROVE  Age(delivered[i]) # Age(delivered[j]) /\ delivered[i].counter # delivered[j].counter
      BY <1>1 DEF OnceInv, Age
  <2> QED
      BY DEF StreamsInv, OnceInv
<1> QED
    BY <1>4, <1>5, <1>6, <1>7 DEF StreamsInv

LEMMA StreamsKept == StreamsInv /\ [GNext]_gvars => StreamsInv'
<1> SUFFICES ASSUME StreamsInv, [GNext]_gvars PROVE StreamsInv'
    OBVIOUS
<1>1. CASE UNCHANGED gvars
    BY <1>1 DEF gvars, StreamsInv, TypesInv, GeneratorOK, KeyOK, HomesInv, Home, BehindInv, OnceInv, Age
<1>2. ASSUME NEW p \in Processes, NEW o \in Environments, NEW entropy \in {Given, Drawn}, New(p, o, entropy)
      PROVE  StreamsInv'
    BY <1>2, NewKeeps
<1>3. ASSUME NEW p \in Processes, NEW o \in Environments, NEW entropy \in {Given, Drawn}, NEW n \in 0 .. 4,
             Reseed(p, o, entropy, n)
      PROVE  StreamsInv'
    BY <1>3, ReseedKeeps
<1>4. ASSUME NEW p \in Processes, NEW o \in Environments, NEW n \in 0 .. 3, Generate(p, o, n) PROVE StreamsInv'
    BY <1>4, GenerateKeeps
<1>5. ASSUME NEW p \in Processes, NEW o \in Environments, Save(p, o) \/ Restore(p, o) \/ Forget(p, o)
      PROVE  StreamsInv'
    BY <1>5, SaveKeeps, RestoreKeeps, ForgetKeeps
<1>6. ASSUME NEW p \in Processes, NEW q \in Processes, Fork(p, q) PROVE StreamsInv'
    BY <1>6, ForkKeeps
<1> QED
    BY <1>1, <1>2, <1>3, <1>4, <1>5, <1>6 DEF GNext

-----------------------------------------------------------------------------
(* Counting.                                                               *)

LEMMA InjectionBound ==
    ASSUME NEW A, NEW B, IsFiniteSet(B), NEW f \in [A -> B], \A x, y \in A : f[x] = f[y] => x = y
    PROVE  Cardinality(A) <= Cardinality(B)
<1>1. f \in Injection(A, B)
    BY DEF Injection, IsInjective
<1> QED
    BY <1>1, FS_Injection

LEMMA SeedsFinite == IsSeq(seeds) => IsFiniteSet(DOMAIN seeds)
<1> SUFFICES ASSUME IsSeq(seeds) PROVE IsFiniteSet(DOMAIN seeds)
    OBVIOUS
<1>1. Len(seeds) \in Nat /\ DOMAIN seeds = 1 .. Len(seeds)
    BY Appended
<1>2. IsFiniteSet(1 .. Len(seeds))
    BY <1>1, FS_Interval
<1> QED
    BY <1>1, <1>2

LEMMA DeliveriesCounted == StreamsInv => StreamsApart
<1> SUFFICES ASSUME StreamsInv, NEW i \in DOMAIN delivered,
                    \A j \in returned : seeds[j] # delivered[i].key.entropy
             PROVE  LET Instances == {j \in DOMAIN seeds : seeds[j] = delivered[i].key.entropy}
                        Same   == {j \in DOMAIN delivered : /\ delivered[j].key = delivered[i].key
                                                            /\ delivered[j].v = delivered[i].v}
                        Served == {j \in DOMAIN delivered : /\ delivered[j].key.of = delivered[i].key.of
                                                            /\ delivered[j].key.entropy = delivered[i].key.entropy}
                    IN  /\ Cardinality(Same) <= Cardinality(Instances)
                        /\ Cardinality(Served) <= Limit * Cardinality(Instances)
    BY DEF StreamsApart, Apart
<1> DEFINE Instances == {j \in DOMAIN seeds : seeds[j] = delivered[i].key.entropy}
           Same   == {j \in DOMAIN delivered : /\ delivered[j].key = delivered[i].key
                                               /\ delivered[j].v = delivered[i].v}
           Served == {j \in DOMAIN delivered : /\ delivered[j].key.of = delivered[i].key.of
                                               /\ delivered[j].key.entropy = delivered[i].key.entropy}
<1>1. IsFiniteSet(Instances) /\ Cardinality(Instances) \in Nat
  <2>1. IsFiniteSet(DOMAIN seeds)
      BY SeedsFinite DEF StreamsInv, TypesInv
  <2> QED
      BY <2>1, FS_Subset, FS_CardinalityType
<1>2. \A j \in DOMAIN delivered : /\ delivered[j].seed \in DOMAIN seeds
                                 /\ seeds[delivered[j].seed] = delivered[j].key.entropy
                                 /\ delivered[j].counter \in 1 .. Limit
    BY DEF StreamsInv, TypesInv, KeyOK
<1>3. Cardinality(Same) <= Cardinality(Instances)
  <2> DEFINE f == [j \in Same |-> delivered[j].seed]
  <2>1. f \in [Same -> Instances]
      BY <1>2
  <2>2. \A x, y \in Same : f[x] = f[y] => x = y
      BY <1>2 DEF StreamsInv, OnceInv, Age
  <2> HIDE DEF f, Same, Instances
  <2> QED
      BY <1>1, <2>1, <2>2, InjectionBound
<1>4. Cardinality(Served) <= Limit * Cardinality(Instances)
  <2> DEFINE Slots == (1 .. Limit) \X Instances
             f == [j \in Served |-> <<delivered[j].counter, delivered[j].seed>>]
  <2>1. f \in [Served -> Slots]
      BY <1>2
  <2>2. \A x, y \in Served : f[x] = f[y] => x = y
      BY <1>2 DEF StreamsInv, OnceInv
  <2>3. IsFiniteSet(1 .. Limit) /\ Cardinality(1 .. Limit) = Limit
      BY FS_Interval, GeneratorsAssumption
  <2>4. IsFiniteSet(Slots) /\ Cardinality(Slots) = Limit * Cardinality(Instances)
      BY <1>1, <2>3, FS_Product
  <2> HIDE DEF f, Served, Slots
  <2> QED
      BY <2>1, <2>2, <2>4, InjectionBound
<1> QED
    BY <1>3, <1>4

\* drbggen() never gives the same bytes twice, nor more than the limit from one seed, whatever
\* processes the generators are forked, restored and removed in and wherever Ctrl-C falls, of
\* every seed no copy of which came back to a process of the number it was made in.
THEOREM StreamsStayApart == GSpec => []StreamsApart
<1>1. GInit => StreamsInv
    BY EmptyIsSeq DEF GInit, StreamsInv, TypesInv, HomesInv, Home, BehindInv, OnceInv
<1> QED
    BY <1>1, StreamsKept, DeliveriesCounted, PTL DEF GSpec
=============================================================================
