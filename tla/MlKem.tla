-------------------------------- MODULE MlKem --------------------------------
(***************************************************************************)
(* ML-KEM (src/rmbl_mlkem_arith.h, src/rmbl_mlkem_body.h,                  *)
(* src/rmbl_mlkem.cpp): keys, encapsulation, decapsulation and its masked  *)
(* twin, with the real q, noise and compression over a ring of N = 32      *)
(* coefficients, a word of lanes.  A coefficient is its residue: the       *)
(* widths of the code's integers are in MlKemWidths.                       *)
(***************************************************************************)
EXTENDS ToyHash, FiniteSets

CONSTANTS
    Q, N, Root, Mont,    \* kQ, kN, kZetaRoot, and the factor of Montgomery form (2^16)
    K, Eta1, Eta2, Du, Dv,
    Candidate            \* values of a candidate coefficient (2^12)

G == INSTANCE Masked WITH Bits <- 14

Zero == [i \in 1 .. N |-> 0]

-----------------------------------------------------------------------------
(* The incomplete transform: blocks stop at pairs.                         *)

InverseOf(a) == CHOOSE b \in 1 .. Q - 1 : (a * b) % Q = 1
MontInverse  == InverseOf(Mont % Q)
MontgomeryReduce(a) == ((a % Q) * MontInverse) % Q

LogN == CHOOSE k \in 1 .. N : 2 ^ k = N
Power(base, e) == For(LAMBDA acc, i : (acc * base) % Q, 1, 1, e)
Reversed(i) == SumOf([b \in 1 .. LogN - 1 |-> ((i \div 2 ^ (b - 1)) % 2) * 2 ^ (LogN - 1 - b)])

\* zetas(): z[i] is element i + 1
Zetas == Each(N \div 2, LAMBDA i : (Power(Root, Reversed(i - 1)) * Mont) % Q)
Scale == (InverseOf(N \div 2) * (((Mont % Q) * Mont) % Q)) % Q

\* ntt()
NttLayer(a, layer) ==
    LET len == N \div 2 ^ layer
        z   == Zetas
        T(j) == MontgomeryReduce(z[2 ^ (layer - 1) + (j - 1) \div (2 * len) + 1] * a[j])
    IN  Each(N, LAMBDA j :
            IF ((j - 1) \div len) % 2 = 0 THEN (a[j] + T(j + len)) % Q
            ELSE (a[j - len] - T(j)) % Q)
Ntt(a) == For(NttLayer, a, 1, LogN - 1)

\* invntt()
InvNttLayer(a, layer) ==
    LET len == 2 ^ layer
        z   == Zetas
        Zeta(j) == z[N \div len - (j - 1) \div (2 * len)]
    IN  Each(N, LAMBDA j :
            IF ((j - 1) \div len) % 2 = 0 THEN (a[j] + a[j + len]) % Q
            ELSE MontgomeryReduce(Zeta(j) * ((a[j] - a[j - len]) % Q)))
InvNtt(a) ==
    LET out == For(InvNttLayer, a, 1, LogN - 1)
        f   == Scale
    IN  Each(N, LAMBDA j : MontgomeryReduce(f * out[j]))

\* basemul() of pair i, modulo X^2 - zeta
Basemul(a, b, i, zeta) ==
    LET R(x, y) == MontgomeryReduce(x * y)
    IN  <<(R(R(a[i + 1], b[i + 1]), zeta) + R(a[i], b[i])) % Q,
          (R(a[i], b[i + 1]) + R(a[i + 1], b[i])) % Q>>

\* poly_basemul(): neighbouring pairs have opposite zetas
PolyBasemul(a, b) ==
    LET z == Zetas
        Zeta(pair) == LET s == z[N \div 4 + pair \div 2 + 1] IN IF pair % 2 = 0 THEN s ELSE Q - s
        pairs == Each(N \div 2, LAMBDA p : Basemul(a, b, 2 * p - 1, Zeta(p - 1)))
    IN  Each(N, LAMBDA j : pairs[(j + 1) \div 2][((j - 1) % 2) + 1])

Add(a, b) == Each(N, LAMBDA i : (a[i] + b[i]) % Q)
Sub(a, b) == Each(N, LAMBDA i : (a[i] - b[i]) % Q)

\* vec_dot()
VecDot(a, b) == For(LAMBDA acc, i : Add(acc, PolyBasemul(a[i], b[i])), Zero, 1, K)

\* What the transform is for: the product modulo X^N + 1
Product(a, b) ==
    Each(N, LAMBDA k : SumOf([i \in 1 .. N |->
        IF i <= k THEN a[i] * b[k - i + 1] ELSE -(a[i] * b[N + k - i + 1])]) % Q)

-----------------------------------------------------------------------------
(* Compression and sampling.                                               *)

Compress(x, d)   == ((x * 2 ^ d + Q \div 2) \div Q) % 2 ^ d
Decompress(x, d) == (x * Q + 2 ^ (d - 1)) \div 2 ^ d

\* compress_intervals(): the cyclic interval that compresses to c
Interval(c, d) ==
    LET is == {x \in 0 .. Q - 1 : Compress(x, d) = c}
    IN  [lo |-> CHOOSE x \in is : Compress((x + Q - 1) % Q, d) # c, w |-> Cardinality(is)]

\* sample_ntt(): candidates below q, until there are N
RECURSIVE SampleFrom(_, _, _, _, _)
SampleFrom(rho, i, j, pos, a) ==
    IF Len(a) = N THEN a
    ELSE LET d == Mix(<<3, rho, i, j, pos>>) % Candidate
         IN  SampleFrom(rho, i, j, pos + 1, IF d < Q THEN Append(a, d) ELSE a)
SampleNtt(rho, i, j) == SampleFrom(rho, i, j, 0, <<>>)

\* matrix_expand(): the bytes of i and j change places for the transposed matrix
MatrixExpand(rho, transposed) ==
    Each(K, LAMBDA i : Each(K, LAMBDA j :
        IF transposed THEN SampleNtt(rho, i - 1, j - 1) ELSE SampleNtt(rho, j - 1, i - 1)))

\* prf_cbd(), sample_cbd(): the stream gives 2 * eta bits to a coefficient
StreamBit(sigma, nonce, k) == (Mix(<<4, sigma, nonce, k>>) \div 32) % 2
Cbd(sigma, nonce, eta) ==
    Each(N, LAMBDA i : SumOf([k \in 1 .. eta |->
        StreamBit(sigma, nonce, 2 * eta * (i - 1) + k) - StreamBit(sigma, nonce, 2 * eta * (i - 1) + eta + k)]) % Q)

\* poly_from_msg(), poly_to_msg(): a message is the sequence of its bits
FromMsg(m) == Each(N, LAMBDA i : m[i] * ((Q + 1) \div 2))
ToMsg(a)   == Each(N, LAMBDA i : Compress(a[i], 1))

-----------------------------------------------------------------------------
(* K-PKE.  An encapsulation key holds 12-bit numbers, of which those below *)
(* q are coefficients.                                                     *)

Flat(v) == Fold(LAMBDA acc, x : acc \o x, <<>>, v)

\* The two halves of SHA3-512, and the other hashes
HashG(input, half) == Mix(<<5, half>> \o input)
HashH(ek)          == Mix(<<6>> \o Flat(ek.t) \o <<ek.rho>>)
HashJ(z, ct)       == Mix(<<7, z>> \o Flat(ct.u) \o ct.v)

\* pke_keygen()
PkeKeygen(d) ==
    LET rho   == HashG(<<d, K>>, 0)
        sigma == HashG(<<d, K>>, 1)
        mat   == MatrixExpand(rho, FALSE)
        s     == Each(K, LAMBDA i : Ntt(Cbd(sigma, i - 1, Eta1)))
        e     == Each(K, LAMBDA i : Ntt(Cbd(sigma, K + i - 1, Eta1)))
        ToMont(a) == Each(N, LAMBDA j : MontgomeryReduce(a[j] * (((Mont % Q) * Mont) % Q)))
    IN  [ek |-> [t |-> Each(K, LAMBDA i : Add(ToMont(VecDot(mat[i], s)), e[i])), rho |-> rho], s |-> s]

Canonical(ek) == \A i \in 1 .. K : \A j \in 1 .. N : ek.t[i][j] < Q

\* pke_encrypt(), of a canonical key
PkeEncrypt(ek, msg, coins) ==
    LET mat == MatrixExpand(ek.rho, TRUE)
        r   == Each(K, LAMBDA i : Ntt(Cbd(coins, i - 1, Eta1)))
        U(i) == Add(InvNtt(VecDot(mat[i], r)), Cbd(coins, K + i - 1, Eta2))
        v   == Add(Add(InvNtt(VecDot(ek.t, r)), Cbd(coins, 2 * K, Eta2)), FromMsg(msg))
    IN  [u |-> Each(K, LAMBDA i : LET u == U(i) IN Each(N, LAMBDA j : Compress(u[j], Du))),
         v |-> Each(N, LAMBDA j : Compress(v[j], Dv))]

Decompressed(ct) ==
    [u |-> Each(K, LAMBDA i : Ntt(Each(N, LAMBDA j : Decompress(ct.u[i][j], Du)))),
     v |-> Each(N, LAMBDA j : Decompress(ct.v[j], Dv))]

\* pke_decrypt()
PkeDecrypt(s, ct) == LET c == Decompressed(ct) IN ToMsg(Sub(c.v, InvNtt(VecDot(s, c.u))))

-----------------------------------------------------------------------------
(* ML-KEM: the Fujisaki-Okamoto transform.                                 *)

\* keygen(): the decapsulation key carries the other key, its hash, and z
Keygen(d, z) ==
    LET pke == PkeKeygen(d)
    IN  [ek |-> pke.ek, dk |-> [s |-> pke.s, ek |-> pke.ek, h |-> HashH(pke.ek), z |-> z]]

Refused(why) == [why |-> why]

\* encaps(): a key that is not canonical is refused
Encaps(ek, m) ==
    LET gIn == m \o <<HashH(ek)>>
    IN  IF ~Canonical(ek) THEN Refused("not canonical")
        ELSE [why |-> "done", ct |-> PkeEncrypt(ek, m, HashG(gIn, 1)), shared |-> HashG(gIn, 0)]

\* decaps() with fo_select(): K-bar unless the ciphertext is the one that m' gives
Decaps(dk, ct) ==
    LET m   == PkeDecrypt(dk.s, ct)
        gIn == m \o <<dk.h>>
    IN  IF Canonical(dk.ek) /\ PkeEncrypt(dk.ek, m, HashG(gIn, 1)) = ct THEN HashG(gIn, 0)
        ELSE HashJ(dk.z, ct)

\* C_rmbl_mlkem_decaps_impl(), C_rmbl_mlkem_decaps_masked_impl(): the hash of the key is
\* checked before decaps() or decaps_masked()
DecapsCall(dk, shared) ==
    IF HashH(dk.ek) # dk.h THEN Refused("hash") ELSE [why |-> "done", shared |-> shared]

-----------------------------------------------------------------------------
(* decaps_masked(): every secret in two shares.                            *)

At(g, k) == G!At(g, k)

\* A value in two arithmetic shares, of which the first is random
SplitPoly(a, g) ==
    LET first == Each(N, LAMBDA j : At(g, j) % Q)
    IN  <<first, Each(N, LAMBDA j : G!CaddMod(a[j] - first[j]))>>
Lane(p, j) == <<p[1][j], p[2][j]>>

\* A bit string in two Boolean shares
SplitBits(bits, g) ==
    Each(Len(bits), LAMBDA i : <<(bits[i] + G!Coin(At(g, i))) % 2, G!Coin(At(g, i))>>)
OpenBits(bits) == Each(Len(bits), LAMBDA i : G!Open(bits[i]))

\* The hash of shares, in shares: Keccak has the masked sponge
WordBits == 12
BitsOf(n) == Each(WordBits, LAMBDA i : (n \div 2 ^ (i - 1)) % 2)
NumberOf(bits) == SumOf([i \in 1 .. WordBits |-> bits[i] * 2 ^ (i - 1)])

\* masked_prf_cbd()
MaskedCbd(sigma, nonce, eta, g) ==
    LET seed == NumberOf(OpenBits(sigma))
        Stream(i) == SplitBits(Each(2 * eta, LAMBDA k : StreamBit(seed, nonce, 2 * eta * (i - 1) + k)), At(g, i))
        lanes == Each(N, LAMBDA i : G!SecCbd(Stream(i), eta, At(g, 200 + i) % Q, At(g, 400 + i)))
    IN  <<Each(N, LAMBDA j : lanes[j][1]), Each(N, LAMBDA j : lanes[j][2])>>

\* The bits of m' times (q + 1) / 2, as arithmetic shares
MaskedFromMsg(m, g) ==
    LET lanes == Each(N, LAMBDA i :
                    G!SecB2A(<<m[i]>> \o G!Zeros(13), At(g, i) % Q, At(g, 100 + i)))
        Half(s) == Each(N, LAMBDA j : (lanes[j][s] * ((Q + 1) \div 2)) % Q)
    IN  <<Half(1), Half(2)>>

\* The coefficients of c' tested against the intervals of c
MaskedEqual(p, c, d, g) ==
    Each(N, LAMBDA j : LET i == Interval(c[j], d) IN G!SecInInterval(Lane(p, j), i.lo, i.w, At(g, j)))

DecapsMasked(dk, ct, g) ==
    LET s   == Each(K, LAMBDA i : SplitPoly(dk.s[i], At(g, i)))
        c   == Decompressed(ct)
        S(share) == Each(K, LAMBDA i : s[i][share])
        w   == <<Sub(c.v, InvNtt(VecDot(S(1), c.u))), Sub(Zero, InvNtt(VecDot(S(2), c.u)))>>
        m   == Each(N, LAMBDA j : G!SecDecode1(Lane(w, j), At(g, 10 + j)))
        gIn == OpenBits(m) \o <<dk.h>>
        key == SplitBits(BitsOf(HashG(gIn, 0)), At(g, 60))
        r   == SplitBits(BitsOf(HashG(gIn, 1)), At(g, 61))
        bar == SplitBits(BitsOf(HashJ(dk.z, ct)), At(g, 62))
        mat == MatrixExpand(dk.ek.rho, TRUE)
        rr  == Each(K, LAMBDA i : MaskedCbd(r, i - 1, Eta1, At(g, 70 + i)))
        e1  == Each(K, LAMBDA i : MaskedCbd(r, K + i - 1, Eta2, At(g, 80 + i)))
        e2  == MaskedCbd(r, 2 * K, Eta2, At(g, 90))
        mm  == MaskedFromMsg(m, At(g, 91))
        hat == Each(2, LAMBDA share : Each(K, LAMBDA i : Ntt(rr[i][share])))
        U(i, share) == Add(InvNtt(VecDot(mat[i], hat[share])), e1[i][share])
        V(share)    == Add(Add(InvNtt(VecDot(dk.ek.t, hat[share])), e2[share]), mm[share])
        words == Each(K, LAMBDA i : MaskedEqual(<<U(i, 1), U(i, 2)>>, ct.u[i], Du, At(g, 92 + i)))
                 \o <<MaskedEqual(<<V(1), V(2)>>, ct.v, Dv, At(g, 98))>>
        ok  == G!AndPub(G!SecAllLanes(G!AllWords(words, At(g, 99)), At(g, 97)), IF Canonical(dk.ek) THEN 1 ELSE 0)
    IN  NumberOf(OpenBits(G!SecSelect(ok, key, bar, At(g, 96))))

-----------------------------------------------------------------------------
(* Properties.                                                             *)

\* The transforms and the products of pairs multiply modulo X^N + 1.
TransformsMultiply(a, b) == InvNtt(PolyBasemul(Ntt(a), Ntt(b))) = Product(a, b)

\* Both decapsulations give the secret that encapsulation gave; for any other ciphertext
\* both give the same secret of that ciphertext, and it is K-bar; a key whose hash does
\* not match is refused, and one that is not canonical encapsulates nothing.
SecretsAgree(d, z, m, g) ==
    LET key == Keygen(d, z)
        enc == Encaps(key.ek, m)
        Masked(dk, ct) == DecapsMasked(dk, ct, g)
        other == [enc.ct EXCEPT !.u[1][1] = (@ + 1) % 2 ^ Du]
        last  == [enc.ct EXCEPT !.v[N] = (@ + 1) % 2 ^ Dv]
        wide  == [key.ek EXCEPT !.t[K][N] = Q]
        odd   == [key.dk EXCEPT !.ek = wide, !.h = HashH(wide)]
    IN  /\ enc.why = "done" /\ Decaps(key.dk, enc.ct) = enc.shared /\ Masked(key.dk, enc.ct) = enc.shared
        /\ \A ct \in {other, last} :
               Decaps(key.dk, ct) = HashJ(z, ct) /\ Masked(key.dk, ct) = HashJ(z, ct)
        /\ Encaps(wide, m).why = "not canonical"
        /\ Decaps(odd, enc.ct) = HashJ(z, enc.ct) /\ Masked(odd, enc.ct) = HashJ(z, enc.ct)
        /\ DecapsCall(key.dk, Decaps(key.dk, enc.ct)) = [why |-> "done", shared |-> enc.shared]
        /\ \A decaps \in {Decaps(key.dk, enc.ct), Masked(key.dk, enc.ct)} :
               DecapsCall([key.dk EXCEPT !.ek = wide], decaps) = Refused("hash")
=============================================================================
