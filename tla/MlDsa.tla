------------------------------- MODULE MlDsa -------------------------------
(***************************************************************************)
(* ML-DSA (src/rmbl_mldsa_core.h, src/rmbl_mldsa_body.h): keys, the signer *)
(* with its rejections, its masked twin, and the verifier, over a small    *)
(* ring.  The bits of the encodings are in MlDsaWidths; here a key or a    *)
(* signature is what its bytes say, except the hints, whose bytes a        *)
(* verifier has to judge.                                                  *)
(***************************************************************************)
EXTENDS ToyHash

CONSTANTS
    Q, N, Root, Mont,    \* kQ, kN, kRootOfUnity, and the factor of Montgomery form (2^32)
    K, L, Eta, Tau, Gamma1, Gamma2Den, Omega, D,
    Candidate,           \* values of a candidate coefficient of A (2^23)
    MaxAttempts,         \* kMaxSignAttempts
    MaxContext           \* the bytes of a context (255)

Beta   == Tau * Eta
Gamma2 == (Q - 1) \div Gamma2Den

Zero == [i \in 1 .. N |-> 0]

\* A residue in (-q/2, q/2]
Centered(a) == IF a % Q > (Q - 1) \div 2 THEN (a % Q) - Q ELSE a % Q

-----------------------------------------------------------------------------
(* The transform.                                                          *)

InverseOf(a) == CHOOSE b \in 1 .. Q - 1 : (a * b) % Q = 1
MontInverse  == InverseOf(Mont)
MontgomeryReduce(a) == ((a % Q) * MontInverse) % Q

LogN == CHOOSE k \in 1 .. N : 2 ^ k = N
Power(base, e) == For(LAMBDA acc, i : (acc * base) % Q, 1, 1, e)
BitReversed(i) == SumOf([b \in 1 .. LogN |-> ((i \div 2 ^ (b - 1)) % 2) * 2 ^ (LogN - b)])

\* zetas()[i], from 1 on: a power of the root in Montgomery form
Zetas == Each(N - 1, LAMBDA i : (Power(Root, BitReversed(i)) * Mont) % Q)

\* ntt(): a block of 2 * len coefficients has the zeta of its number in the layer
NttLayer(a, layer) ==
    LET len == N \div 2 ^ layer
        T(j) == MontgomeryReduce(Zetas[2 ^ (layer - 1) + (j - 1) \div (2 * len)] * a[j])
    IN  Each(N, LAMBDA j :
            IF ((j - 1) \div len) % 2 = 0 THEN (a[j] + T(j + len)) % Q
            ELSE (a[j - len] - T(j)) % Q)
Ntt(a) == For(NttLayer, a, 1, LogN)

\* invntt_tomont(): the zetas backwards, then N^-1, and into Montgomery form
InvNttLayer(a, layer) ==
    LET len == 2 ^ (layer - 1)
        Zeta(j) == -Zetas[N \div len - 1 - (j - 1) \div (2 * len)]
    IN  Each(N, LAMBDA j :
            IF ((j - 1) \div len) % 2 = 0 THEN (a[j] + a[j + len]) % Q
            ELSE MontgomeryReduce(Zeta(j) * ((a[j - len] - a[j]) % Q)))
Scale == (InverseOf(N) * ((Mont * Mont) % Q)) % Q
InvNtt(a) ==
    LET out == For(InvNttLayer, a, 1, LogN) IN Each(N, LAMBDA j : MontgomeryReduce(Scale * out[j]))

Pointwise(a, b) == Each(N, LAMBDA i : MontgomeryReduce(a[i] * b[i]))
Add(a, b)       == Each(N, LAMBDA i : (a[i] + b[i]) % Q)
Sub(a, b)       == Each(N, LAMBDA i : (a[i] - b[i]) % Q)

\* matrix_pointwise_montgomery() and the way back
MatrixTimes(mat, v) ==
    LET hat == Each(Len(v), LAMBDA j : Ntt(v[j]))
    IN  Each(Len(mat), LAMBDA i : InvNtt(
            For(LAMBDA acc, j : Add(acc, Pointwise(mat[i][j], hat[j])), Zero, 1, Len(v))))

\* vecl_pointwise_poly(), veck_pointwise_poly() and the way back
PolyTimes(c, v) == LET hat == Ntt(c) IN Each(Len(v), LAMBDA i : InvNtt(Pointwise(hat, Ntt(v[i]))))

VecAdd(a, b) == Each(Len(a), LAMBDA i : Add(a[i], b[i]))
VecSub(a, b) == Each(Len(a), LAMBDA i : Sub(a[i], b[i]))

\* What the transforms are for: the product modulo X^N + 1
Product(a, b) ==
    Each(N, LAMBDA k : SumOf([i \in 1 .. N |->
        IF i <= k THEN a[i] * b[k - i + 1] ELSE -(a[i] * b[N + k - i + 1])]) % Q)

-----------------------------------------------------------------------------
(* Sampling, each from the stream of a seed and a nonce of two bytes.      *)

Ext(seed, nonce)    == seed \o <<nonce % 256, nonce \div 256>>
Byteat(ext, pos)    == Mix(ext \o <<pos>>)

\* rej_uniform(): candidates below q, until there are N
RECURSIVE RejUniform(_, _, _)
RejUniform(ext, pos, a) ==
    IF Len(a) = N THEN a
    ELSE LET t == Byteat(ext, pos) % Candidate
         IN  RejUniform(ext, pos + 1, IF t < Q THEN Append(a, t) ELSE a)
PolyUniform(rho, nonce) == RejUniform(Ext(rho, nonce), 0, <<>>)

\* The coefficient of a nibble, or none
OfNibble(t) ==
    IF Eta = 2 THEN IF t < 15 THEN <<2 - (t - ((205 * t) \div 1024) * 5)>> ELSE <<>>
               ELSE IF t < 9 THEN <<4 - t>> ELSE <<>>

\* rej_eta(): a byte gives two nibbles, and the second only if it is still needed
RECURSIVE RejEta(_, _, _)
RejEta(ext, pos, a) ==
    IF Len(a) = N THEN a
    ELSE LET byte  == Byteat(ext, pos) % 256
             first == a \o OfNibble(byte % 16)
         IN  RejEta(ext, pos + 1, IF Len(first) < N THEN first \o OfNibble(byte \div 16) ELSE first)
PolyUniformEta(seed, nonce) == RejEta(Ext(seed, nonce), 0, <<>>)

\* polyz_unpack() of the stream
PolyUniformGamma1(seed, nonce) ==
    Each(N, LAMBDA i : Gamma1 - (Byteat(Ext(seed, nonce), i) % (2 * Gamma1)))

MatrixExpand(rho) ==
    Each(K, LAMBDA i : Each(L, LAMBDA j : PolyUniform(rho, 256 * (i - 1) + j - 1)))

\* poly_challenge(): a position beyond the current index is drawn again
RECURSIVE Position(_, _, _)
Position(seed, pos, i) ==
    LET b == Byteat(seed, pos) % N IN IF b > i THEN Position(seed, pos + 1, i) ELSE [at |-> b, next |-> pos + 1]
Challenge(seed) ==
    LET signs == Byteat(seed, 0)
        Place(acc, i) ==
            LET p    == Position(seed, acc.pos, i)
                sign == 1 - 2 * ((signs \div 2 ^ (i - (N - Tau))) % 2)
            IN  [c |-> [acc.c EXCEPT ![i + 1] = acc.c[p.at + 1], ![p.at + 1] = sign], pos |-> p.next]
    IN  For(Place, [c |-> Zero, pos |-> 1], N - Tau, N - 1).c

-----------------------------------------------------------------------------
(* Rounding and hints, as MlDsaWidths has them in shifts.                  *)

Power2Round(a) ==
    LET a1 == (a + 2 ^ (D - 1) - 1) \div 2 ^ D IN [high |-> a1, low |-> a - a1 * 2 ^ D]

Decompose(a) ==
    LET a1 == (a + Gamma2 - 1) \div (2 * Gamma2)
    IN  IF a1 = Gamma2Den \div 2 THEN [high |-> 0, low |-> a - Q]
        ELSE [high |-> a1, low |-> a - a1 * 2 * Gamma2]

MakeHint(a0, a1) == IF a0 > Gamma2 \/ a0 < -Gamma2 \/ (a0 = -Gamma2 /\ a1 # 0) THEN 1 ELSE 0

UseHint(a, hint) ==
    LET d == Decompose(a)
        n == Gamma2Den \div 2
    IN  IF hint = 0 THEN d.high ELSE IF d.low > 0 THEN (d.high + 1) % n ELSE (d.high - 1) % n

\* poly_chknorm(), on all polynomials of a vector: whether a coefficient reaches b
TooLarge(v, b) ==
    \/ b > (Q - 1) \div 8
    \/ \E i \in DOMAIN v : \E j \in 1 .. N : Centered(v[i][j]) >= b \/ Centered(v[i][j]) <= -b

Map(v, op(_)) == Each(Len(v), LAMBDA i : Each(N, LAMBDA j : op(v[i][j])))

\* pack_sig(): the positions of the hints of each polynomial, and a running count
PackHints(h) ==
    LET Of(i) == Fold(LAMBDA acc, j : IF h[i][j] # 0 THEN Append(acc, j - 1) ELSE acc, <<>>,
                      [j \in 1 .. N |-> j])
        Upto(i) == For(LAMBDA acc, k : acc \o Of(k), <<>>, 1, i)
        used == Upto(K)
    IN  used \o [k \in 1 .. Omega - Len(used) |-> 0] \o [i \in 1 .. K |-> Len(Upto(i))]

HintCount(b, i) == IF i = 0 THEN 0 ELSE b[Omega + i]

\* mutant: positions may repeat, and come in any order
HintsAnyOrder(b) ==
    /\ \A i \in 1 .. K : HintCount(b, i) \in HintCount(b, i - 1) .. Omega
    /\ \A j \in HintCount(b, K) + 1 .. Omega : b[j] = 0

\* unpack_sig(): counts that do not fall and do not pass omega, positions that rise in
\* each polynomial, and zeros after the last
HintsWellFormed(b) ==
    /\ \A i \in 1 .. K : HintCount(b, i) \in HintCount(b, i - 1) .. Omega
    /\ \A i \in 1 .. K, j \in 1 .. Omega :
           HintCount(b, i - 1) + 1 < j /\ j <= HintCount(b, i) => b[j] > b[j - 1]
    /\ \A j \in HintCount(b, K) + 1 .. Omega : b[j] = 0

UnpackHints(b) ==
    [i \in 1 .. K |-> [j \in 1 .. N |->
        IF \E k \in HintCount(b, i - 1) + 1 .. HintCount(b, i) : b[k] = j - 1 THEN 1 ELSE 0]]

-----------------------------------------------------------------------------
(* Keys, signing and verifying.                                            *)

Flat(v) == Fold(LAMBDA acc, x : acc \o x, <<>>, v)

\* tr_from_pk()
Tr(pk) == Mix(<<7>> \o pk.rho \o Flat(pk.t1))

\* keypair_from_seed(): the seeds are bound to k and l
KeypairFromSeed(seed) ==
    LET Part(i)  == Mix(<<6, seed, K, L, i>>)
        rho      == <<Part(0)>>
        rhoprime == <<Part(1), Part(2)>>
        s1 == Each(L, LAMBDA i : PolyUniformEta(rhoprime, i - 1))
        s2 == Each(K, LAMBDA i : PolyUniformEta(rhoprime, L + i - 1))
        t  == VecAdd(MatrixTimes(MatrixExpand(rho), s1), s2)
        pk == [rho |-> rho, t1 |-> Map(t, LAMBDA a : Power2Round(a).high)]
    IN  [pk |-> pk,
         sk |-> [rho |-> rho, key |-> Part(3), tr |-> Tr(pk), s1 |-> s1, s2 |-> s2,
                 t0 |-> Map(t, LAMBDA a : Power2Round(a).low)]]

\* compute_mu()
ComputeMu(tr, m, ctx, oid) ==
    Mix(<<8, tr, IF oid # <<>> THEN 1 ELSE 0, Len(ctx)>> \o ctx \o oid \o m)

CTilde(mu, w1) == <<Mix(<<9, mu>> \o Flat(w1))>>

\* What a signer gives back without a signature
Rejected(why) == [why |-> why]

\* An attempt of sign_mu(), and why it is rejected
Attempt(sk, mat, rhopp, mu, nonce) ==
    LET y  == Each(L, LAMBDA i : PolyUniformGamma1(rhopp, L * nonce + i - 1))
        w  == MatrixTimes(mat, y)
        w1 == Map(w, LAMBDA a : Decompose(a).high)
        w0 == Map(w, LAMBDA a : Decompose(a).low)
        c  == CTilde(mu, w1)
        cp == Challenge(c)
        z  == VecAdd(PolyTimes(cp, sk.s1), y)
        r0 == VecSub(w0, PolyTimes(cp, sk.s2))
        t  == PolyTimes(cp, sk.t0)
        h  == Each(K, LAMBDA i : Each(N, LAMBDA j :
                 MakeHint(Centered(r0[i][j]) + Centered(t[i][j]), w1[i][j])))
    IN  IF TooLarge(z, Gamma1 - Beta) THEN Rejected("z")
        ELSE IF TooLarge(r0, Gamma2 - Beta) THEN Rejected("r0")
        ELSE IF TooLarge(t, Gamma2) THEN Rejected("t0")
        ELSE IF SumOf(Flat(h)) > Omega THEN Rejected("hints")
        ELSE [why |-> "accepted", c |-> c, z |-> Map(z, Centered), h |-> PackHints(h)]

\* A key whose s1 or s2 leaves [-eta, eta] is refused
Malformed(sk) == TooLarge(sk.s1, Eta + 1) \/ TooLarge(sk.s2, Eta + 1)

RhoPP(sk, rnd, mu) == <<Mix(<<5, sk.key, rnd, mu>>)>>

RECURSIVE Attempts(_, _, _, _, _)
Attempts(sk, mat, rhopp, mu, nonce) ==
    IF nonce = MaxAttempts THEN Rejected("failed")
    ELSE LET sig == Attempt(sk, mat, rhopp, mu, nonce)
         IN  IF sig.why = "accepted" THEN sig ELSE Attempts(sk, mat, rhopp, mu, nonce + 1)

SignMu(sk, rnd, mu) ==
    IF Malformed(sk) THEN Rejected("failed")
    ELSE Attempts(sk, MatrixExpand(sk.rho), RhoPP(sk, rnd, mu), mu, 0)

\* verify_mu()
VerifyMu(pk, mu, sig) ==
    LET h  == UnpackHints(sig.h)
        cp == Challenge(sig.c)
        u  == VecSub(MatrixTimes(MatrixExpand(pk.rho), sig.z),
                     PolyTimes(cp, Map(pk.t1, LAMBDA a : a * 2 ^ D)))
    IN  /\ HintsWellFormed(sig.h)
        /\ ~TooLarge(sig.z, Gamma1 - Beta)
        /\ CTilde(mu, Each(K, LAMBDA i : Each(N, LAMBDA j : UseHint(u[i][j], h[i][j])))) = sig.c

\* sign_internal(), sign_prehash(), verify_internal(), verify_prehash()
Sign(key, rnd, m, ctx, oid)   == SignMu(key.sk, rnd, ComputeMu(key.sk.tr, m, ctx, oid))
Verify(pk, m, ctx, oid, sig)  == VerifyMu(pk, ComputeMu(Tr(pk), m, ctx, oid), sig)

-----------------------------------------------------------------------------
(* sign_mu_masked(): every secret is two shares mod q, the linear algebra  *)
(* runs on each of them, and what is opened is opened from the two.        *)

\* split(): the first share is random, the second makes up the rest
Split(v, mask) ==
    LET First(i, j) == Mix(<<12, mask, i, j>>) % Q
    IN  <<Each(Len(v), LAMBDA i : Each(N, LAMBDA j : First(i, j))),
          Each(Len(v), LAMBDA i : Each(N, LAMBDA j : (v[i][j] - First(i, j)) % Q))>>

\* poly_gamma1(): gamma1 minus the shares of the packed value
MaskedY(rhopp, nonce, mask) ==
    LET packed == Split(<<Each(N, LAMBDA i : Byteat(Ext(rhopp, nonce), i) % (2 * Gamma1))>>, mask)
    IN  <<Each(N, LAMBDA j : (Gamma1 - packed[1][1][j]) % Q), Each(N, LAMBDA j : (-packed[2][1][j]) % Q)>>

\* dsa_bprime(): HighBits of a is the quotient of this by 2 * gamma2
BPrime(a) == LET b == a + Gamma2 - 1 IN IF b < Q - 1 THEN b ELSE b - (Q - 1)

\* dsa_reveal_highbits(): a binary search from bit 5 down
RevealHighBits(bp) ==
    LET high == (Q - 1) \div (2 * Gamma2)
        Bit(w1, k) == LET c == w1 + 2 ^ (6 - k)
                      IN  IF c <= high - 1 /\ bp >= 2 * c * Gamma2 THEN c ELSE w1
    IN  For(Bit, 0, 1, 6)

\* dsa_lowbits_ok(): the low bits of v, if its high bits are w1
LowBitsOK(bp, w1) ==
    LET base == 2 * Gamma2 * w1
    IN  base + (IF w1 = 0 THEN Beta + 1 ELSE Beta) <= bp /\ bp < base + 2 * Gamma2 - Beta - 1

\* dsa_norm_acc()
NormOK(m, b) ==
    \A i \in DOMAIN m[1] : \A j \in 1 .. N :
        (((m[1][i][j] - (Q - b + 1)) % Q) + m[2][i][j]) % Q < 2 * b - 1

Opened(m) == VecAdd(m[1], m[2])

MaskedAttempt(s1, s2, t0, mat, rhopp, mu, nonce, mask) ==
    LET yy == Each(L, LAMBDA i : MaskedY(rhopp, L * nonce + i - 1, mask + i))
        y  == Each(2, LAMBDA s : Each(L, LAMBDA i : yy[i][s]))
        w  == Each(2, LAMBDA s : MatrixTimes(mat, y[s]))
        w1 == Map(Opened(w), LAMBDA a : RevealHighBits(BPrime(a)))
        c  == CTilde(mu, w1)
        cp == Challenge(c)
        z  == Each(2, LAMBDA s : VecAdd(PolyTimes(cp, s1[s]), y[s]))
        v  == Each(2, LAMBDA s : VecSub(w[s], PolyTimes(cp, s2[s])))
        u  == Each(2, LAMBDA s : PolyTimes(cp, t0[s]))
        hu == Map(Opened(Each(2, LAMBDA s : VecAdd(v[s], u[s]))), LAMBDA a : RevealHighBits(BPrime(a)))
        h  == Each(K, LAMBDA i : Each(N, LAMBDA j : IF hu[i][j] # w1[i][j] THEN 1 ELSE 0))
        low == Opened(v)
    IN  IF ~NormOK(z, Gamma1 - Beta) THEN Rejected("z")
        ELSE IF \E i \in 1 .. K, j \in 1 .. N : ~LowBitsOK(BPrime(low[i][j]), w1[i][j]) THEN Rejected("r0")
        ELSE IF ~NormOK(u, Gamma2) THEN Rejected("t0")
        ELSE IF SumOf(Flat(h)) > Omega THEN Rejected("hints")
        ELSE [why |-> "accepted", c |-> c, z |-> Map(Opened(z), Centered), h |-> PackHints(h)]

RECURSIVE MaskedAttempts(_, _, _, _, _, _, _, _)
MaskedAttempts(s1, s2, t0, mat, rhopp, mu, nonce, mask) ==
    IF nonce = MaxAttempts THEN Rejected("failed")
    ELSE LET sig == MaskedAttempt(s1, s2, t0, mat, rhopp, mu, nonce, mask + 10 * nonce)
         IN  IF sig.why = "accepted" THEN sig
             ELSE MaskedAttempts(s1, s2, t0, mat, rhopp, mu, nonce + 1, mask)

SignMuMasked(sk, rnd, mu, mask) ==
    IF Malformed(sk) THEN Rejected("failed")
    ELSE MaskedAttempts(Split(sk.s1, mask), Split(sk.s2, mask + 1), Split(sk.t0, mask + 2),
                        MatrixExpand(sk.rho), RhoPP(sk, rnd, mu), mu, 0, mask + 3)

-----------------------------------------------------------------------------
(* The entry points (src/rmbl_mldsa_ntt.cpp).  `mask` is "off", or the     *)
(* random numbers of the shares; "none" when the source of them fails.     *)

Error == Rejected("error")

SignMuBy(sk, rnd, mu, mask) ==
    LET sig == IF mask = <<"off">> THEN SignMu(sk, rnd, mu) ELSE SignMuMasked(sk, rnd, mu, mask[2])
    IN  IF mask = <<"none">> \/ sig.why # "accepted" THEN Error ELSE sig

\* C_rmbl_mldsa_sign_impl()
SignCall(key, rnd, m, ctx, prehash, mask) ==
    LET ph == Apply(prehash, m)
    IN  IF Len(ctx) > MaxContext \/ ~ph.ok THEN Error
        ELSE SignMuBy(key.sk, rnd, ComputeMu(key.sk.tr, ph.msg, ctx, ph.oid), mask)

\* C_rmbl_mldsa_verify_impl()
VerifyCall(pk, m, ctx, sig, prehash) ==
    LET ph == Apply(prehash, m)
    IN  IF Len(ctx) > MaxContext THEN "no"
        ELSE IF ~ph.ok THEN "error"
        ELSE IF Verify(pk, ph.msg, ctx, ph.oid, sig) THEN "yes" ELSE "no"

\* C_rmbl_mldsa_mu_impl(), for C_rmbl_mldsa_sign_mu_impl() and C_rmbl_mldsa_verify_mu_impl()
MuCall(pk, m, ctx, prehash) ==
    LET ph == Apply(prehash, m)
    IN  IF Len(ctx) > MaxContext \/ ~ph.ok THEN Error
        ELSE [why |-> "done", mu |-> ComputeMu(Tr(pk), ph.msg, ctx, ph.oid)]
SignMuCall(key, rnd, mu, mask) == SignMuBy(key.sk, rnd, mu, mask)
VerifyMuCall(pk, mu, sig)      == IF VerifyMu(pk, mu, sig) THEN "yes" ELSE "no"

-----------------------------------------------------------------------------
(* Properties.                                                             *)

\* The transforms and back multiply modulo X^N + 1.
TransformsMultiply(a, b) == PolyTimes(a, <<b>>)[1] = Product(a, b)

\* A block of hints that is accepted is the only one for its hints.
HintsCanonical(bytes) ==
    HintsWellFormed(bytes) => PackHints(UnpackHints(bytes)) = bytes

\* A signature under one pre-hash verifies under that one only, not as one of a message
\* that is the digest, and the same one comes from mu; a name that is not in the table and
\* a context that is too long are refused; nothing is signed without random shares.
PrehashBinds(key, rnd, m, ctx, prehash) ==
    LET ph  == Apply(prehash, m)
        sig == SignCall(key, rnd, m, ctx, prehash, <<"off">>)
        mu  == MuCall(key.pk, m, ctx, prehash)
        V(msg, c, name) == VerifyCall(key.pk, msg, c, sig, name)
    IN  IF prehash \notin {"", "none"} \cup DOMAIN Arcs \/ Len(ctx) > MaxContext
        THEN /\ sig = Error /\ mu = Error
             /\ VerifyCall(key.pk, m, ctx, Error, prehash) = (IF Len(ctx) > MaxContext THEN "no" ELSE "error")
        ELSE /\ SignCall(key, rnd, m, ctx, prehash, <<"shares", 3>>) = sig
             /\ SignMuCall(key, rnd, mu.mu, <<"off">>) = sig
             /\ SignCall(key, rnd, m, ctx, prehash, <<"none">>) = Error
             /\ sig # Error =>
                    /\ V(m, ctx, prehash) = "yes" /\ VerifyMuCall(key.pk, mu.mu, sig) = "yes"
                    /\ \A other \in {"none", "sha256", "sha512", "sha3_512", "shake256"} \ {prehash} :
                           V(m, ctx, other) = (IF {other, prehash} \subseteq {"", "none"} THEN "yes" ELSE "no")
                    /\ prehash \notin {"", "none"} =>
                           V(ph.msg, ctx, "none") = "no" /\ V(ph.oid \o ph.msg, ctx, "none") = "no"
=============================================================================
