--------------------------------- MODULE Hqc ---------------------------------
(***************************************************************************)
(* HQC-KEM (src/rmbl_hqc_core.h, src/rmbl_hqc.cpp): the specification of   *)
(* 2025 and round 4, over a ring of N coordinates.  A vector is the set of *)
(* its nonzero coordinates.  The code is a repetition code, which corrects *)
(* what the noise of these weights can do; HqcCode has the real one, and   *)
(* HqcRing the words.                                                      *)
(***************************************************************************)
EXTENDS ToyHash, FiniteSets

CONSTANTS
    N,           \* coordinates of the ring, no multiple of 8
    Copies,      \* coordinates of the code for each bit of the message
    MessageBits,
    Weight, WeightR, WeightE    \* of x and y, of r1 and r2, of e

CodeLength == MessageBits * Copies
SpareTop   == 8 * ((N + 7) \div 8)

Sum(a, b)   == (a \ b) \cup (b \ a)
Times(a, b) == {k \in 0 .. N - 1 : Cardinality({i \in a : ((k - i) % N) \in b}) % 2 = 1}
Truncated(v) == {i \in v : i < CodeLength}

\* rs::encode() and rm::encode(), and their inverses
Encode(m) == {i \in 0 .. CodeLength - 1 : m[i \div Copies + 1] = 1}
Decode(v) == Each(MessageBits, LAMBDA b :
                 IF 2 * Cardinality({i \in v : i \div Copies = b - 1}) > Copies THEN 1 ELSE 0)

-----------------------------------------------------------------------------
(* The extendable hash and the samplers.                                   *)

Xof(seed, domain) == [seed |-> seed, domain |-> domain, pos |-> 0]

\* get(): a request is rounded up to 8 bytes, of which the last are dropped
Drawn(x, len)  == Each(len, LAMBDA i : (Mix(<<x.domain, x.seed, x.pos + i>>) \div 4) % Byte)
After(x, len)  == [x EXCEPT !.pos = @ + 8 * ((len + 7) \div 8)]

Number(bytes) == Fold(LAMBDA acc, b : acc * Byte + b, 0, bytes)

\* fixed_weight_uniform(): three bytes a draw, from a buffer that is filled again
Threshold == (Byte ^ 3 \div N) * N
RECURSIVE Uniform(_, _, _, _, _)
Uniform(x, buf, j, set, weight) ==
    LET s == Number(SubSeq(buf, j + 1, j + 3))
    IN  IF Cardinality(set) = weight THEN [set |-> set, xof |-> x]
        ELSE IF j = Len(buf) THEN Uniform(After(x, 3 * weight), Drawn(x, 3 * weight), 0, set, weight)
        ELSE Uniform(x, buf, j + 3, IF s >= Threshold THEN set ELSE set \cup {s % N}, weight)
FixedWeightUniform(x, weight) == Uniform(x, <<>>, 0, {}, weight)

\* fixed_weight(): four bytes a draw; pick(r, i) is its position in i .. N - 1
FixedWeightBy(pick(_, _), x, weight) ==
    LET buf == Drawn(x, 4 * weight)
        support == Each(weight, LAMBDA i : i - 1 + pick(Number(SubSeq(buf, 4 * i - 3, 4 * i)), N - i + 1))
        Repair(s, k) ==
            LET i == weight - k
            IN  IF \E j \in i + 1 .. weight : s[j] = s[i]
                THEN Each(weight, LAMBDA n : IF n = i THEN i - 1 ELSE s[n]) ELSE s
        final == For(Repair, support, 1, weight - 1)
    IN  [set |-> {final[i] : i \in 1 .. weight}, xof |-> After(x, 4 * weight)]
Scaled(r, n)  == (r * n) \div Byte ^ 4
Residue(r, n) == r % n
FixedWeight(x, weight)  == FixedWeightBy(Scaled, x, weight)
FixedWeight4(x, weight) == FixedWeightBy(Residue, x, weight)

\* uniform(): the bits past N are cleared
UniformVect(x) ==
    LET bytes == Drawn(x, SpareTop \div 8)
    IN  {i \in 0 .. N - 1 : (Mix(<<bytes[i \div 8 + 1], i>>) \div 2) % 2 = 1}

BytesOfSet(v) == Each(SpareTop, LAMBDA i : IF i - 1 \in v THEN 1 ELSE 0)

-----------------------------------------------------------------------------
(* HQC-PKE.                                                                *)

\* hash_i(), hash_g(): two halves; hash_h(), hash_j()
HashI(seed, half)         == Mix(<<2, half, seed>>)
HashH(ek)                 == Mix(<<1, ek.seed>> \o BytesOfSet(ek.s))
HashG(hek, m, salt, half) == Mix(<<0, half, hek, salt>> \o m)
HashJ(hek, sigma, ct)     == Mix(<<3, hek, sigma, ct.salt>> \o BytesOfSet(ct.u) \o BytesOfSet(ct.v))

SecretY(seedDk) == FixedWeightUniform(Xof(seedDk, 1), Weight)
PublicH(seedEk) == UniformVect(Xof(seedEk, 1))

\* pke_keygen(): y is drawn first
PkeKeygen(seedPke) ==
    LET seedDk == HashI(seedPke, 0)
        y == SecretY(seedDk)
        x == FixedWeightUniform(y.xof, Weight)
        seedEk == HashI(seedPke, 1)
    IN  [ek |-> [seed |-> seedEk, s |-> Sum(Times(y.set, PublicH(seedEk)), x.set)], seedDk |-> seedDk]

Ciphertext(h, s, m, r1, r2, e) ==
    [u |-> Sum(Times(r2, h), r1), v |-> Sum(Encode(m), Truncated(Sum(Times(r2, s), e)))]

\* pke_encrypt(): r2, e, r1 from one stream
PkeEncrypt(ek, m, theta) ==
    LET r2 == FixedWeight(Xof(theta, 1), WeightR)
        e  == FixedWeight(r2.xof, WeightE)
        r1 == FixedWeight(e.xof, WeightR)
    IN  Ciphertext(PublicH(ek.seed), ek.s, m, r1.set, r2.set, e.set)

Decrypted(y, ct) == Decode(Sum(ct.v, Truncated(Times(y, ct.u))))
PkeDecrypt(seedDk, ct) == Decrypted(SecretY(seedDk).set, ct)

-----------------------------------------------------------------------------
(* HQC-KEM.                                                                *)

Refused(why) == [why |-> why]
Gives(shared) == [why |-> "done", shared |-> shared]

\* The seeds that follow from seed_kem
SeedPke(seedKem) == Number(Drawn(Xof(seedKem, 1), 4))
Sigma(seedKem)   == Number(Drawn(After(Xof(seedKem, 1), 4), 4))

Keygen(seedKem) ==
    LET pke == PkeKeygen(SeedPke(seedKem))
    IN  [ek |-> pke.ek, seedDk |-> pke.seedDk, sigma |-> Sigma(seedKem), seedKem |-> seedKem]

\* ek_ok(): the bits past N are zero
EkOk(ek) == \A i \in ek.s : i < N
\* dk_ok(): the stored seeds derive from seed_kem
DkOk(dk) ==
    /\ dk.seedDk = HashI(SeedPke(dk.seedKem), 0) /\ dk.sigma = Sigma(dk.seedKem)
    /\ dk.ek.seed = HashI(SeedPke(dk.seedKem), 1)

Encaps(ek, m, salt) ==
    LET hek == HashH(ek)
        c   == PkeEncrypt(ek, m, HashG(hek, m, salt, 1))
    IN  IF ~EkOk(ek) THEN Refused("malformed")
        ELSE [why |-> "done", ct |-> [u |-> c.u, v |-> c.v, salt |-> salt], shared |-> HashG(hek, m, salt, 0)]

\* mutant: the first half of the ciphertext is not compared
DecapsComparingV(dk, ct) ==
    LET m    == PkeDecrypt(dk.seedDk, ct)
        hek  == HashH(dk.ek)
        c    == PkeEncrypt(dk.ek, m, HashG(hek, m, ct.salt, 1))
    IN  IF ~DkOk(dk) THEN Refused("corrupt")
        ELSE IF c.v = ct.v THEN Gives(HashG(hek, m, ct.salt, 0))
        ELSE Gives(HashJ(hek, dk.sigma, ct))

\* decaps(): the whole ciphertext is compared
Decaps(dk, ct) ==
    LET m    == PkeDecrypt(dk.seedDk, ct)
        hek  == HashH(dk.ek)
        c    == PkeEncrypt(dk.ek, m, HashG(hek, m, ct.salt, 1))
    IN  IF ~DkOk(dk) THEN Refused("corrupt")
        ELSE IF c.u = ct.u /\ c.v = ct.v THEN Gives(HashG(hek, m, ct.salt, 0))
        ELSE Gives(HashJ(hek, dk.sigma, ct))

-----------------------------------------------------------------------------
(* Round 4.                                                                *)

HashG4(m, ek, salt) == Mix(<<8, ek.seed, salt>> \o m \o BytesOfSet(ek.s))
HashK4(m, ct)       == Mix(<<9>> \o m \o BytesOfSet(ct.u) \o BytesOfSet(ct.v))

\* secret_xy(): x is drawn first, by residue
SecretXY(skSeed) ==
    LET x == FixedWeight4(Xof(skSeed, 2), Weight)
    IN  [x |-> x.set, y |-> FixedWeight4(x.xof, Weight).set]
PublicS4(skSeed, pkSeed) ==
    LET xy == SecretXY(skSeed) IN Sum(Times(xy.y, UniformVect(Xof(pkSeed, 2))), xy.x)

Keygen4(skSeed, sigma, pkSeed) ==
    [ek |-> [seed |-> pkSeed, s |-> PublicS4(skSeed, pkSeed)], skSeed |-> skSeed, sigma |-> sigma]

\* dk_ok(): the stored public key is the one the seeds make
DkOk4(dk) == EkOk(dk.ek) /\ dk.ek.s = PublicS4(dk.skSeed, dk.ek.seed)

PkeEncrypt4(ek, m, theta) ==
    LET r1 == FixedWeight4(Xof(theta, 2), WeightR)
        r2 == FixedWeight4(r1.xof, WeightR)
        e  == FixedWeight4(r2.xof, WeightE)
    IN  Ciphertext(UniformVect(Xof(ek.seed, 2)), ek.s, m, r1.set, r2.set, e.set)

Encaps4(ek, m, salt) ==
    LET c == PkeEncrypt4(ek, m, HashG4(m, ek, salt))
    IN  IF ~EkOk(ek) THEN Refused("malformed")
        ELSE [why |-> "done", ct |-> [u |-> c.u, v |-> c.v, salt |-> salt], shared |-> HashK4(m, c)]

\* decaps(): u and v are compared, and sigma takes the place of m
Decaps4(dk, ct) ==
    LET m == Decrypted(SecretXY(dk.skSeed).y, ct)
        c == PkeEncrypt4(dk.ek, m, HashG4(m, dk.ek, ct.salt))
    IN  IF ~DkOk4(dk) THEN Refused("corrupt")
        ELSE Gives(HashK4(IF c.u = ct.u /\ c.v = ct.v THEN m ELSE dk.sigma, ct))

-----------------------------------------------------------------------------
(* Properties.                                                             *)

Flip(v, i) == Sum(v, {i})
Damaged(ct) == {[ct EXCEPT !.u = Flip(@, 0)], [ct EXCEPT !.v = Flip(@, CodeLength - 1)]}

\* Decapsulation gives the secret of the encapsulation, though the noise is decoded away;
\* a ciphertext changed in u, v or the salt gives the secret of the rejection; a key with
\* one seed of another key, or with bits past N, is refused.
SecretsAgree(seed, other, m, salt) ==
    LET dk  == Keygen(seed)
        enc == Encaps(dk.ek, m, salt)
        alien == Keygen(other)
        hek == HashH(dk.ek)
        wide == [dk.ek EXCEPT !.s = @ \cup {N}]
    IN  /\ Decaps(dk, enc.ct) = Gives(enc.shared)
        /\ \A ct \in Damaged(enc.ct) \cup {[enc.ct EXCEPT !.salt = @ + 1]} :
               Decaps(dk, ct) = Gives(HashJ(hek, dk.sigma, ct))
        /\ \A spliced \in {[dk EXCEPT !.seedKem = other], [dk EXCEPT !.sigma = alien.sigma],
                           [dk EXCEPT !.seedDk = alien.seedDk], [dk EXCEPT !.ek = alien.ek]} :
               Decaps(spliced, enc.ct) = Refused("corrupt")
        /\ Encaps(wide, m, salt) = Refused("malformed")

\* Round 4 as well, where a rejected ciphertext gives the secret of sigma, and a key whose
\* public half is not its own is refused.
SecretsAgree4(seed, sigma, pkSeed, m, salt) ==
    LET dk  == Keygen4(seed, sigma, pkSeed)
        enc == Encaps4(dk.ek, m, salt)
    IN  /\ Decaps4(dk, enc.ct) = Gives(enc.shared)
        /\ \A ct \in Damaged(enc.ct) : Decaps4(dk, ct) = Gives(HashK4(sigma, ct))
        /\ \A spliced \in {[dk EXCEPT !.ek.s = Flip(@, 0)], [dk EXCEPT !.ek.seed = @ + 1],
                           [dk EXCEPT !.ek.s = @ \cup {N}]} :
               Decaps4(spliced, enc.ct) = Refused("corrupt")
=============================================================================
